-------------------------- MODULE PosSerialProofs ---------------------------
(***************************************************************************)
(* What PosOrders and PosFloor owe the business when requests are taken    *)
(* one at a time and screens are current. Wherever a request is cut off: no *)
(* closed bill was collected short, and no sale is booked twice. While none *)
(* is: bills are in step with their lines, merged ones too, and books with *)
(* bills. For any number of orders and lines, and any amounts.             *)
(***************************************************************************)
EXTENDS PosOrdersProofs, PosFloor, SumLaws

OneWorker == \A v, w \in Workers : v = w

\* The steps of a request that edits a bill it found open.
Editing == {"insertLine", "bumpTotal", "deleteLine", "readOrder", "rereadLine",
            "setQuantity", "readLine", "setDiscount"}

\* The steps that go on to change the line they were asked about.
OnLine == {"readOrder", "setQuantity", "readLine", "setDiscount"}

\* What a request knows of the books while nobody else writes them: a checkout that still
\* collects has booked nothing, a payment on a tab comes on top of all that was paid before,
\* and a close books what is not booked yet.
JobBooks(j) ==
    /\ j.step \in Editing => orders[j.order].status = "open"
    /\ j.step \in OnLine => (Exists(j.line) => lines[j.line].order = j.order)
    /\ j.step \in {"readCosts", "addCosts"} => j.op = "checkout" /\ j.paying = j.paid
    /\ j.step \in {"readCosts", "addCosts", "insertPayments"} /\ j.op = "checkout" =>
          ~Closed(j.order)
    /\ j.step = "insertPayments" => paid[j.order] + j.paying >= j.paid
    /\ j.step = "insertPayments" /\ j.op = "payTab" =>
          /\ Closed(j.order)
          /\ paid[j.order] + j.owed + j.paying >= orders[j.order].total + j.paid
    /\ j.step \in Booking => orders[j.order].total = j.owed /\ ledger[j.order] = 0
    /\ j.step \in Booking \ {"deductStock"} => \A l \in LinesOf(j.order) : sold[l] = 0
    /\ j.step = "deductStock" => \A l \in Lines : j.units[l] # 0 =>
          sold[l] = 0 /\ (Exists(l) => j.units[l] = lines[l].qty)

Books ==
    /\ NeverUndercollected
    /\ NoSaleBookedTwice
    /\ \A w \in Workers : ~At(w, "idle") => JobBooks(job[w])

\* What a closed bill owes, has received and lists is left alone.
ClosedRest ==
    \A o \in Orders : Closed(o)' =>
        /\ Closed(o)
        /\ orders'[o].total = orders[o].total
        /\ orders'[o].balance = orders[o].balance
        /\ paid'[o] >= paid[o]
        /\ \A l \in Lines : Exists(l)' /\ lines'[l].order = o =>
              Exists(l) /\ lines[l].order = o /\ lines'[l].qty = lines[l].qty

LEMMA NothingBooked ==
  ASSUME IInv, NEW o \in Orders, ~Closed(o)
  PROVE  ledger[o] = 0 /\ \A l \in LinesOf(o) : sold[l] = 0
  BY DEF IInv, BookedMeansClosed, LinesOf

LEMMA CollectedRests ==
  ASSUME TypeOK, TypeOK', NeverUndercollected, ClosedRest
  PROVE  NeverUndercollected'
<1> SUFFICES ASSUME NEW o \in Orders, Closed(o)'
             PROVE  paid'[o] + orders'[o].balance >= orders'[o].total
  BY DEF NeverUndercollected
<1>1. paid[o] + orders[o].balance >= orders[o].total
  BY DEF ClosedRest, NeverUndercollected
<1> QED
  BY <1>1 DEF ClosedRest, TypeOK, OrderRow

LEMMA SalesRest ==
  ASSUME IInv', NoSaleBookedTwice, ClosedRest, UNCHANGED <<sold, ledger>>
  PROVE  NoSaleBookedTwice'
<1> SUFFICES ASSUME NEW o \in Orders
             PROVE  /\ ledger'[o] \in {0, orders'[o].total}
                    /\ \A l \in LinesOf(o)' : sold'[l] \in {0, lines'[l].qty}
  BY DEF NoSaleBookedTwice
<1>1. CASE Closed(o)'
  BY <1>1 DEF ClosedRest, NoSaleBookedTwice, LinesOf
<1>2. CASE ~Closed(o)'
  BY <1>2 DEF IInv, BookedMeansClosed, LinesOf
<1> QED
  BY <1>1, <1>2

\* One request at a time: only its own knowledge is at stake.
LEMMA BooksStep ==
  ASSUME OneWorker, TypeOK, NEW w \in Workers, NEW j \in Job,
         job' = [job EXCEPT ![w] = j], j.step # "idle" => JobBooks(j)',
         NeverUndercollected', NoSaleBookedTwice'
  PROVE  Books'
<1>1. \A v \in Workers : job'[v] = j
  BY DEF OneWorker, TypeOK
<1>2. ASSUME NEW v \in Workers, ~At(v, "idle")' PROVE JobBooks(job[v])'
  <2> SUFFICES ASSUME NEW k \in Job, k = job'[v] PROVE JobBooks(k)'
    BY <1>1, <1>2
  <2> QED
    BY <1>1, <1>2 DEF At
<1> QED
  BY <1>2 DEF Books

LEMMA RestStep ==
  ASSUME OneWorker, IInv, IInv', Books, ClosedRest, UNCHANGED <<sold, ledger>>,
         NEW w \in Workers, NEW j \in Job, job' = [job EXCEPT ![w] = j],
         j.step # "idle" => JobBooks(j)'
  PROVE  Books'
<1>1. NeverUndercollected' /\ NoSaleBookedTwice'
  BY CollectedRests, SalesRest DEF Books, IInv
<1> QED
  BY <1>1, BooksStep DEF IInv

-----------------------------------------------------------------------------
(* Requests that arrive. On a screen that is current they find their bill  *)
(* open, or a tab to pay.                                                  *)

LEMMA BooksArrive ==
  ASSUME OneWorker, ~StaleScreens, IInv, IInv', Books, NEW w \in Workers, Arrive(w)
  PROVE  Books'
<1>0. PICK o \in Orders :
        \/ CreateOrder(w, o) \/ ApplyDiscount(w, o) \/ AttachCustomer(w, o)
        \/ VoidOrder(w, o) \/ Checkout(w, o) \/ PayTab(w, o)
        \/ \E t \in Tickets : SendToKitchen(w, o, t)
        \/ \E l \in Lines :
              \/ AddItem(w, o, l) \/ RemoveItem(w, o, l)
              \/ UpdateItemQuantity(w, o, l) \/ SetItemDiscount(w, o, l)
              \/ UpdateItemStatus(w, o, l)
  BY DEF Arrive
<1>t. TypeOK /\ TypeOK' /\ job[w] \in Job
  BY DEF IInv, TypeOK
<1>w. ASSUME NEW j, job' = [job EXCEPT ![w] = j] PROVE j \in Job
  BY <1>w, <1>t DEF TypeOK
\* Nothing that the books speak of changes.
<1>r. ASSUME UNCHANGED <<orders, lines, paid>> PROVE ClosedRest
  <2>1. \A p \in Orders : paid[p] \in Nat
    BY <1>t DEF TypeOK
  <2> QED
    BY <1>r, <2>1 DEF ClosedRest, Closed, Exists
\* Requests of one statement.
<1>s. ASSUME UNCHANGED job, At(w, "idle"), ClosedRest, UNCHANGED <<sold, ledger>>
      PROVE  Books'
  <2>1. job' = [job EXCEPT ![w] = job[w]] /\ job[w].step = "idle"
    BY <1>s, <1>t DEF TypeOK, At
  <2> QED
    BY <1>s, <1>t, <2>1, RestStep
\* Requests that begin with a read.
<1>b. ASSUME NEW j \in Job, job' = [job EXCEPT ![w] = j], JobBooks(j),
             UNCHANGED <<orders, lines, rooms, tickets, paid, sold, ledger>>
      PROVE  Books'
  <2>1. JobBooks(j)'
    BY <1>b DEF JobBooks, Closed, LinesOf, Exists
  <2> QED
    BY <1>b, <1>r, <2>1, RestStep
<1>1. CASE CreateOrder(w, o) \/ ApplyDiscount(w, o) \/ AttachCustomer(w, o)
  <2>1. /\ UNCHANGED <<lines, paid, sold, ledger, job>> /\ At(w, "idle")
        /\ \A p \in Orders : Closed(p)' => Closed(p)
                /\ orders'[p].total = orders[p].total
                /\ orders'[p].balance = orders[p].balance
    BY <1>1, <1>t DEF CreateOrder, ApplyDiscount, AttachCustomer, Takes, Closed, TypeOK, OrderRow
  <2>2. ClosedRest
    BY <1>t, <2>1 DEF ClosedRest, Exists, TypeOK
  <2> QED
    BY <1>s, <2>1, <2>2
<1>2. CASE VoidOrder(w, o)
  <2>1. /\ UNCHANGED <<lines, paid, sold, ledger>>
        /\ \A p \in Orders : Closed(p)' => Closed(p)
                /\ orders'[p].total = orders[p].total
                /\ orders'[p].balance = orders[p].balance
    BY <1>2, <1>t DEF VoidOrder, Closed, TypeOK, OrderRow
  <2>2. ClosedRest
    BY <1>t, <2>1 DEF ClosedRest, Exists, TypeOK
  <2> DEFINE j == Begin("void", "revertRooms", o)
  <2>3. job' = [job EXCEPT ![w] = j] /\ j \in Job
    BY <1>2, <1>w DEF VoidOrder
  <2>4. j.step = "revertRooms"
    BY DEF Begin, NoJob
  <2> HIDE DEF j
  <2>5. JobBooks(j)'
    BY <2>4 DEF JobBooks, Editing, OnLine, Booking
  <2> QED
    BY <2>1, <2>2, <2>3, <2>5, RestStep
<1>3. CASE Checkout(w, o)
  <2>1. PICK p \in Payments, mayOwe \in BOOLEAN, owed \in Int,
             step \in {"insertPayments", "readCosts"} :
          job' = [job EXCEPT ![w] = CheckoutJob(o, step, owed, p, mayOwe)]
    <3>1. \A d \in Discounts : orders[o].total - orders[o].discount - d \in Int
      BY <1>t, AmountsAssumption DEF TypeOK, OrderRow
    <3> QED
      BY <1>3, <3>1 DEF Checkout
  <2> DEFINE j == CheckoutJob(o, step, owed, p, mayOwe)
  <2>2. j \in Job
    BY <1>w, <2>1
  <2>3. j.step = step /\ j.op = "checkout" /\ j.order = o /\ j.paying = p /\ j.paid = p
    BY DEF CheckoutJob, Begin, NoJob
  <2> HIDE DEF j
  <2>4. ~Closed(o) /\ paid[o] + p >= p
    BY <1>3, <1>t, AmountsAssumption DEF Checkout, Closed, TypeOK
  <2>5. JobBooks(j)
    BY <2>3, <2>4 DEF JobBooks, Editing, OnLine, Booking
  <2> QED
    BY <1>3, <1>b, <2>1, <2>2, <2>5 DEF Checkout, j
<1>4. CASE PayTab(w, o)
  <2>1. PICK p \in Payments \ {0} :
          job' = [job EXCEPT ![w] = [Begin("payTab", "insertPayments", o) EXCEPT
                                       !.owed = orders[o].balance, !.paying = p, !.paid = p]]
    BY <1>4 DEF PayTab
  <2> DEFINE j == [Begin("payTab", "insertPayments", o) EXCEPT
                     !.owed = orders[o].balance, !.paying = p, !.paid = p]
  <2>2. j \in Job
    BY <1>w, <2>1
  <2>3. /\ j.step = "insertPayments" /\ j.op = "payTab" /\ j.order = o
        /\ j.owed = orders[o].balance /\ j.paying = p /\ j.paid = p
    BY DEF Begin, NoJob
  <2> HIDE DEF j
  <2>4. Closed(o) /\ paid[o] + orders[o].balance >= orders[o].total
    BY <1>4 DEF PayTab, Closed, Books, NeverUndercollected
  <2>5. /\ paid[o] \in Nat /\ p \in Nat
        /\ orders[o].balance \in Nat /\ orders[o].total \in Int
    BY <1>t, AmountsAssumption DEF TypeOK, OrderRow
  <2>6. JobBooks(j)
    BY <2>3, <2>4, <2>5 DEF JobBooks, Editing, OnLine, Booking
  <2> QED
    BY <1>4, <1>b, <2>1, <2>2, <2>6 DEF PayTab, j
<1>5. ASSUME NEW t \in Tickets, SendToKitchen(w, o, t)
      PROVE  Books'
  <2> DEFINE j == [Begin("send", "insertTicket", o) EXCEPT !.ticket = t,
                     !.units = UnitsOf({l \in LinesOf(o) : lines[l].status = "new"})]
  <2>1. job' = [job EXCEPT ![w] = j]
    BY <1>5 DEF SendToKitchen
  <2>2. j \in Job
    BY <1>w, <2>1
  <2>3. j.step = "insertTicket"
    BY DEF Begin, NoJob
  <2> HIDE DEF j
  <2>4. JobBooks(j)
    BY <2>3 DEF JobBooks, Editing, OnLine, Booking
  <2> QED
    BY <1>5, <1>b, <2>1, <2>2, <2>4 DEF SendToKitchen
<1>e. ASSUME NEW j, job' = [job EXCEPT ![w] = j], j.step \in Editing, j.order = o,
             orders[o].status = "open", j.step \in OnLine => j.line \in LinesOf(o),
             UNCHANGED <<orders, lines, rooms, tickets, paid, sold, ledger>>
      PROVE  Books'
  <2>1. j \in Job
    BY <1>w, <1>e
  <2>2. JobBooks(j)
    BY <1>e DEF JobBooks, Editing, OnLine, Booking, LinesOf
  <2> QED
    BY <1>e, <1>b, <2>1, <2>2
<1>6. ASSUME NEW l \in Lines, AddItem(w, o, l)
      PROVE  Books'
  <2>1. PICK i \in Items \cup {NoItem}, q \in Quantities, p \in Prices :
          job' = [job EXCEPT ![w] =
               [Begin("add", "insertLine", o) EXCEPT
                  !.line = l, !.delta = p * q,
                  !.row = [status |-> "new", order |-> o, item |-> i,
                           qty |-> q, price |-> p, discount |-> 0]]]
    BY <1>6 DEF AddItem
  <2> DEFINE row == [status |-> "new", order |-> o, item |-> i,
                     qty |-> q, price |-> p, discount |-> 0]
             j == [Begin("add", "insertLine", o) EXCEPT !.line = l, !.delta = p * q, !.row = row]
  <2>2. j.step = "insertLine" /\ j.order = o
    BY DEF Begin, NoJob
  <2>3. job' = [job EXCEPT ![w] = j]
    BY <2>1
  <2> HIDE DEF j
  <2> QED
    BY <1>6, <1>e, <2>2, <2>3 DEF AddItem, Editing, OnLine
<1>7. ASSUME NEW l \in Lines, RemoveItem(w, o, l)
      PROVE  Books'
  <2>1. orders[o].status = "open"
    BY <1>7 DEF RemoveItem, TakesLine, Takes
  <2> DEFINE j == [Begin("remove", "deleteLine", o) EXCEPT !.step = "deleteLine", !.line = l,
                     !.row = lines[l], !.delta = -LineTotal(lines[l])]
  <2>2. j.step = "deleteLine" /\ j.order = o
    BY DEF Begin, NoJob
  <2>3. job' = [job EXCEPT ![w] = j]
    BY <1>7 DEF RemoveItem, ReadToRemove
  <2> HIDE DEF j
  <2> QED
    BY <1>7, <1>e, <2>1, <2>2, <2>3 DEF RemoveItem, Editing, OnLine
<1>8. ASSUME NEW l \in Lines, UpdateItemQuantity(w, o, l)
      PROVE  Books'
  <2>1. orders[o].status = "open"
    BY <1>8 DEF UpdateItemQuantity, TakesLine, Takes
  <2>2. PICK q \in Quantities :
          job' = [job EXCEPT ![w] = [Begin("quantity", "readOrder", o) EXCEPT
                                       !.line = l, !.row = lines[l], !.ask = q]]
    BY <1>8 DEF UpdateItemQuantity
  <2> DEFINE j == [Begin("quantity", "readOrder", o) EXCEPT !.line = l, !.row = lines[l], !.ask = q]
  <2>3. j.step = "readOrder" /\ j.order = o /\ j.line = l
    BY DEF Begin, NoJob
  <2>4. job' = [job EXCEPT ![w] = j]
    BY <2>2
  <2> HIDE DEF j
  <2> QED
    BY <1>8, <1>e, <2>1, <2>3, <2>4 DEF UpdateItemQuantity, Editing, TakesLine
<1>9. ASSUME NEW l \in Lines, SetItemDiscount(w, o, l)
      PROVE  Books'
  <2>1. orders[o].status = "open"
    BY <1>9 DEF SetItemDiscount
  <2>2. PICK d \in Discounts :
          job' = [job EXCEPT ![w] = [Begin("lineDiscount", "readLine", o) EXCEPT
                                       !.line = l, !.ask = d]]
    BY <1>9 DEF SetItemDiscount
  <2> DEFINE j == [Begin("lineDiscount", "readLine", o) EXCEPT !.line = l, !.ask = d]
  <2>3. j.step = "readLine" /\ j.order = o /\ j.line = l
    BY DEF Begin, NoJob
  <2>4. job' = [job EXCEPT ![w] = j]
    BY <2>2
  <2> HIDE DEF j
  <2> QED
    BY <1>9, <1>e, <2>1, <2>3, <2>4 DEF SetItemDiscount, Editing, TakesLine
<1>10. ASSUME NEW l \in Lines, UpdateItemStatus(w, o, l)
       PROVE  Books'
  <2>1. UNCHANGED <<orders, paid, sold, ledger, job>> /\ At(w, "idle") /\ Exists(l)
    BY <1>10 DEF UpdateItemStatus, TakesLine, Takes, LinesOf
  <2>2. \A k \in Lines : /\ lines'[k].order = lines[k].order
                         /\ lines'[k].qty = lines[k].qty
                         /\ Exists(k)' => Exists(k)
    BY <1>10, <1>t, <2>1, StatusesAssumption DEF UpdateItemStatus, TypeOK, LineRow, Exists
  <2>3. ClosedRest
    BY <1>t, <2>1, <2>2 DEF ClosedRest, Closed, TypeOK
  <2> QED
    BY <1>s, <2>1, <2>3
<1> QED
  BY <1>0, <1>1, <1>2, <1>3, <1>4, <1>5, <1>6, <1>7, <1>8, <1>9, <1>10

-----------------------------------------------------------------------------
(* Statements of a request in flight.                                      *)

LEMMA BooksContinue ==
  ASSUME OneWorker, IInv, IInv', Books, NEW w \in Workers, Continue(w)
  PROVE  Books'
<1> DEFINE j == job[w]
           o == job[w].order
<1>t. /\ TypeOK /\ TypeOK' /\ j \in Job /\ j.step \in Steps
      /\ \A p \in Orders : /\ paid[p] \in Nat /\ paid'[p] \in Nat
                           /\ orders[p].total \in Int /\ orders[p].balance \in Nat
  BY DEF IInv, TypeOK, Job, OrderRow
<1>w. ASSUME NEW k, job' = [job EXCEPT ![w] = k] PROVE k \in Job
  BY <1>w, <1>t DEF TypeOK
<1>i. j.step # "idle"
  BY <1>t DEF Continue, At, BumpTotal, InsertLine, CheckIn, RereadLine, DeleteLine, ReadOrder,
     SetQuantity, ReadLine, SetDiscount, InsertTicket, MarkProcessing, RevertRooms, ReadCosts,
     CheckCost, InsertPayment, CloseOrder, CloseTab, MarkPaid, CompleteTickets, ReadSold,
     CreditLedger, InsertTicketItem, AddCost, DeductStock
<1>j. JobBooks(j) /\ ReadsHold(j) /\ o \in Orders
  BY <1>i DEF Books, IInv, ReadsStayTrue, ReadsHold, At
\* What a request leaves behind, by how it changes itself.
<1>d. ASSUME Done(w), ClosedRest, UNCHANGED <<sold, ledger>> PROVE Books'
  BY <1>d, <1>t, NoJobType, RestStep DEF Done, NoJob
<1>g. ASSUME NEW step, Goto(w, step), ClosedRest, UNCHANGED <<sold, ledger>>,
             \A m \in Job : /\ m.step = step /\ m.op = j.op /\ m.order = o /\ m.line = j.line
                            /\ m.paying = j.paying /\ m.paid = j.paid /\ m.owed = j.owed
                            /\ m.units = j.units
                           => JobBooks(m)'
      PROVE  Books'
  <2> DEFINE m == [j EXCEPT !.step = step]
  <2>1. job' = [job EXCEPT ![w] = m] /\ m \in Job
    BY <1>g, <1>w DEF Goto
  <2>2. /\ m.step = step /\ m.op = j.op /\ m.order = o /\ m.line = j.line
        /\ m.paying = j.paying /\ m.paid = j.paid /\ m.owed = j.owed /\ m.units = j.units
    BY <1>t DEF Job
  <2>3. PICK n \in Job : n = m
    BY <2>1
  <2> HIDE DEF m
  <2> QED
    BY <1>g, <2>1, <2>2, <2>3, RestStep
\* A statement that changes no table the books speak of.
<1>r. ASSUME UNCHANGED <<orders, lines, paid>> PROVE ClosedRest
  BY <1>r, <1>t DEF ClosedRest, Closed, Exists
\* The steps the books say nothing about.
<1>q. ASSUME NEW step, Goto(w, step), ClosedRest, UNCHANGED <<sold, ledger>>,
             step \in {"checkIn", "insertTicketItems"}
      PROVE  Books'
  <2>1. \A m \in Job : m.step = step => JobBooks(m)'
    BY <1>q DEF JobBooks, Editing, OnLine, Booking
  <2> QED
    BY <1>g, <1>q, <2>1
\* Statements that write a line of the open bill.
<1>l. ASSUME UNCHANGED <<orders, paid, sold, ledger>>, j.step \in Editing,
             \A l \in Lines : Exists(l)' /\ lines'[l].order # o =>
                Exists(l) /\ lines'[l].order = lines[l].order /\ lines'[l].qty = lines[l].qty,
             Done(w) \/ Goto(w, "bumpTotal")
      PROVE  Books'
  <2>1. orders[o].status = "open"
    BY <1>j, <1>l DEF JobBooks
  <2>2. ClosedRest
    BY <1>l, <1>t, <2>1 DEF ClosedRest, Closed
  <2>3. \A m \in Job : m.step = "bumpTotal" /\ m.order = o => JobBooks(m)'
    BY <1>l, <2>1 DEF JobBooks, Editing, OnLine, Booking
  <2> QED
    BY <1>d, <1>g, <1>l, <2>2, <2>3
<1>1. CASE BumpTotal(w)
  <2>1. j.step = "bumpTotal" /\ orders[o].status = "open"
    BY <1>1, <1>j DEF BumpTotal, At, JobBooks, Editing
  <2>2. \A p \in Orders : /\ orders'[p].status = orders[p].status
                          /\ orders'[p].balance = orders[p].balance
                          /\ p # o => orders'[p].total = orders[p].total
    BY <1>1, <1>t DEF BumpTotal, TypeOK, OrderRow
  <2>3. ClosedRest /\ UNCHANGED <<sold, ledger>>
    BY <1>1, <1>t, <2>1, <2>2 DEF BumpTotal, ClosedRest, Closed, Exists
  <2> QED
    BY <1>1, <1>d, <1>q, <2>3 DEF BumpTotal
<1>2. CASE InsertLine(w)
  <2>1. j.step = "insertLine" /\ j.row.order = o /\ j.line \in Lines
    BY <1>2, <1>j DEF InsertLine, At, ReadsHold
  <2>2. \A l \in Lines : lines'[l] = lines[l] \/ lines'[l].order = o
    BY <1>2, <1>t, <2>1 DEF InsertLine, TypeOK
  <2> QED
    BY <1>2, <1>l, <2>1, <2>2 DEF InsertLine, Editing, Exists
<1>3. CASE DeleteLine(w)
  <2>1. j.step = "deleteLine"
    BY <1>3 DEF DeleteLine, At
  <2>2. \A l \in Lines : lines'[l] = lines[l] \/ lines'[l].status = "deleted"
    BY <1>3, <1>t DEF DeleteLine, TypeOK, NoRow
  <2> QED
    BY <1>3, <1>l, <2>1, <2>2 DEF DeleteLine, Editing, Exists
<1>4. CASE SetQuantity(w) \/ SetDiscount(w)
  <2>1. j.step \in {"setQuantity", "setDiscount"} /\ (Exists(j.line) => lines[j.line].order = o)
    BY <1>4, <1>j DEF SetQuantity, SetDiscount, At, JobBooks, OnLine
  <2>2. \A l \in Lines : /\ lines'[l].status = lines[l].status
                         /\ lines'[l].order = lines[l].order
                         /\ lines'[l].qty = lines[l].qty \/ l = j.line
    BY <1>4, <1>t DEF SetQuantity, SetDiscount, TypeOK, LineRow
  <2>3. \A l \in Lines : Exists(l)' /\ lines'[l].order # o =>
           Exists(l) /\ lines'[l].order = lines[l].order /\ lines'[l].qty = lines[l].qty
    BY <2>1, <2>2 DEF Exists
  <2> QED
    BY <1>4, <1>l, <2>1, <2>3 DEF SetQuantity, SetDiscount, Editing
<1>5. CASE RereadLine(w) \/ ReadOrder(w) \/ ReadLine(w)
  <2>1. /\ j.step \in Editing /\ orders[o].status = "open"
        /\ UNCHANGED <<orders, lines, paid, sold, ledger>>
        /\ j.step \in OnLine => (Exists(j.line) => lines[j.line].order = o)
    BY <1>5, <1>j DEF RereadLine, ReadOrder, ReadLine, At, JobBooks, Editing
  <2>2. \A m \in Job : /\ m.step \in Editing /\ m.order = o
                       /\ m.step \in OnLine => m.line = j.line /\ j.step \in OnLine
                      => JobBooks(m)'
    BY <2>1 DEF JobBooks, Editing, OnLine, Booking, Exists
  <2>3. CASE Done(w)
    BY <1>d, <1>r, <2>1, <2>3
  <2>4. CASE Goto(w, "rereadLine")
    BY <1>g, <1>r, <2>1, <2>2, <2>4 DEF Editing, OnLine
  <2>5. CASE ReadToRemove(w, j, j.line)
    <3> DEFINE row == lines[j.line]
               m == [j EXCEPT !.step = "deleteLine", !.line = j.line, !.row = row,
                              !.delta = -LineTotal(row)]
    <3>1. job' = [job EXCEPT ![w] = m] /\ m \in Job
      BY <1>w, <2>5 DEF ReadToRemove
    <3>2. m.step = "deleteLine" /\ m.order = o
      BY <1>t DEF Job
    <3>3. PICK n \in Job : n = m
      BY <3>1
    <3> HIDE DEF m
    <3> QED
      BY <1>r, <2>1, <2>2, <3>1, <3>2, <3>3, RestStep DEF Editing, OnLine
  <2>6. CASE ReadOrder(w) /\ ~Done(w) /\ ~Goto(w, "rereadLine")
    <3> DEFINE new == LineTotal([j.row EXCEPT !.qty = j.ask]) - LineTotal(j.row)
               m == [j EXCEPT !.step = "setQuantity", !.delta = new]
    <3>1. job' = [job EXCEPT ![w] = m] /\ m \in Job /\ j.step = "readOrder"
      <4>1. j.step = "readOrder"
            /\ job' = [job EXCEPT ![w].step = "setQuantity", ![w].delta = new]
        BY <2>6 DEF ReadOrder, At
      <4> HIDE DEF new
      <4>2. job' = [job EXCEPT ![w] = m]
        BY <4>1, <1>t
      <4> QED
        BY <4>1, <4>2, <1>w
    <3>2. m.step = "setQuantity" /\ m.order = o /\ m.line = j.line
      BY <1>t DEF Job
    <3>3. PICK n \in Job : n = m
      BY <3>1
    <3> HIDE DEF m
    <3> QED
      BY <1>r, <2>1, <2>2, <3>1, <3>2, <3>3, RestStep DEF Editing, OnLine
  <2>7. CASE ReadLine(w) /\ ~Done(w)
    <3> DEFINE row == lines[j.line]
               m == [j EXCEPT !.step = "setDiscount", !.row = row,
                              !.ask = Clamped(j.ask, row),
                              !.delta = row.discount - Clamped(j.ask, row)]
    <3>1. job' = [job EXCEPT ![w] = m] /\ m \in Job /\ j.step = "readLine"
      <4>1. j.step = "readLine"
            /\ job' = [job EXCEPT ![w].step = "setDiscount", ![w].row = row,
                                  ![w].ask = Clamped(@, row),
                                  ![w].delta = row.discount - Clamped(j.ask, row)]
        BY <2>7 DEF ReadLine, At
      <4> HIDE DEF row
      <4>2. job' = [job EXCEPT ![w] = m]
        BY <4>1, <1>t DEF TypeOK, Job
      <4> QED
        BY <4>1, <4>2, <1>w
    <3>2. m.step = "setDiscount" /\ m.order = o /\ m.line = j.line
      BY <1>t DEF Job
    <3>3. PICK n \in Job : n = m
      BY <3>1
    <3> HIDE DEF m
    <3> QED
      BY <1>r, <2>1, <2>2, <3>1, <3>2, <3>3, RestStep DEF Editing, OnLine
  <2> QED
    BY <1>5, <2>3, <2>4, <2>5, <2>6, <2>7 DEF RereadLine
<1>6. CASE CheckIn(w) \/ RevertRooms(w)
  BY <1>6, <1>d, <1>r DEF CheckIn, RevertRooms
<1>7. CASE InsertTicket(w)
  BY <1>7, <1>q, <1>r DEF InsertTicket
<1>8. ASSUME NEW l \in Lines, InsertTicketItem(w, l)
      PROVE  Books'
  <2>1. UNCHANGED <<orders, lines, paid, sold, ledger>> /\ j.step = "insertTicketItems"
    BY <1>8 DEF InsertTicketItem, At
  <2> DEFINE m == [j EXCEPT !.units[l] = 0]
  <2>2. CASE Done(w)
    BY <1>d, <1>r, <2>1, <2>2
  <2>3. CASE job' = [job EXCEPT ![w] = m]
    <3>1. m \in Job /\ m.step = "insertTicketItems"
      BY <1>w, <1>t, <2>1, <2>3 DEF Job
    <3>2. PICK n \in Job : n = m
      BY <3>1
    <3> HIDE DEF m
    <3>3. JobBooks(n)'
      BY <3>1, <3>2 DEF JobBooks, Editing, OnLine, Booking
    <3> QED
      BY <1>r, <2>1, <2>3, <3>2, <3>3, RestStep
  <2> QED
    BY <1>8, <2>2, <2>3 DEF InsertTicketItem
<1>9. CASE MarkProcessing(w)
  <2>1. UNCHANGED <<orders, paid, sold, ledger>> /\ Done(w)
    BY <1>9 DEF MarkProcessing
  <2>2. \A l \in Lines : /\ lines'[l].order = lines[l].order /\ lines'[l].qty = lines[l].qty
                         /\ Exists(l)' => Exists(l)
    BY <1>9, <1>t DEF MarkProcessing, TypeOK, LineRow, Exists
  <2>3. ClosedRest
    BY <1>t, <2>1, <2>2 DEF ClosedRest, Closed
  <2> QED
    BY <1>d, <2>1, <2>3
\* A checkout that still collects has booked nothing.
<1>n. ~Closed(o) => ledger[o] = 0 /\ \A l \in LinesOf(o) : sold[l] = 0
  BY <1>j, NothingBooked
<1>10. CASE ReadCosts(w)
  <2> DEFINE u == [l \in Lines |-> IF l \in LinesOf(o) THEN LineCost(lines[l]) ELSE 0]
             m == [j EXCEPT !.step = "addCosts", !.units = u]
  <2>1. /\ j.step = "readCosts" /\ UNCHANGED <<orders, lines, paid, sold, ledger>>
        /\ job' = [job EXCEPT ![w].step = "addCosts", ![w].units = u]
    BY <1>10 DEF ReadCosts, At
  <2> HIDE DEF u
  <2>2. job' = [job EXCEPT ![w] = m] /\ m \in Job
    <3>1. job' = [job EXCEPT ![w] = m]
      BY <2>1, <1>t
    <3> QED
      BY <3>1, <1>w
  <2>3. /\ m.step = "addCosts" /\ m.op = j.op /\ m.order = o
        /\ m.paying = j.paying /\ m.paid = j.paid
    BY <1>t DEF Job
  <2>4. PICK n \in Job : n = m
    BY <2>2
  <2> HIDE DEF m
  <2>5. JobBooks(n)'
    BY <1>j, <2>1, <2>3, <2>4 DEF JobBooks, Editing, OnLine, Booking, Closed
  <2> QED
    BY <1>r, <2>1, <2>2, <2>4, <2>5, RestStep
<1>11. ASSUME NEW l \in Lines, AddCost(w, l)
       PROVE  Books'
  <2> DEFINE m == [j EXCEPT !.owed = @ + j.units[l], !.units[l] = 0]
  <2>1. j.step = "addCosts" /\ UNCHANGED <<orders, lines, paid, sold, ledger>>
    BY <1>11 DEF AddCost, At
  <2>2. job' = [job EXCEPT ![w] = m] /\ m \in Job
    <3>1. job' = [job EXCEPT ![w] = m]
      BY <1>11, <1>t DEF AddCost, TypeOK, Job
    <3> QED
      BY <3>1, <1>w
  <2>3. /\ m.step = "addCosts" /\ m.op = j.op /\ m.order = o
        /\ m.paying = j.paying /\ m.paid = j.paid
    BY <1>t, <2>1 DEF Job
  <2>4. PICK n \in Job : n = m
    BY <2>2
  <2> HIDE DEF m
  <2>5. JobBooks(n)'
    BY <1>j, <2>1, <2>3, <2>4 DEF JobBooks, Editing, OnLine, Booking, Closed
  <2> QED
    BY <1>r, <2>1, <2>2, <2>4, <2>5, RestStep
<1>12. CASE CheckCost(w)
  <2>1. j.step = "addCosts" /\ UNCHANGED <<orders, lines, paid, sold, ledger>>
    BY <1>12 DEF CheckCost, At
  <2>2. ASSUME NEW m \in Job, m.step = "insertPayments", m.op = j.op, m.order = o,
               m.paying = j.paying, m.paid = j.paid
        PROVE  JobBooks(m)'
    <3>1. j.op = "checkout" /\ j.paying = j.paid /\ ~Closed(o)
      BY <1>j, <2>1 DEF JobBooks
    <3>2. paid[o] \in Nat /\ m.paid \in Nat
      BY <1>j, <1>t DEF Job
    <3> QED
      BY <2>1, <2>2, <3>1, <3>2 DEF JobBooks, Editing, OnLine, Booking, Closed
  <2> QED
    BY <1>12, <1>d, <1>g, <1>r, <2>1, <2>2 DEF CheckCost
<1>13. CASE InsertPayment(w)
  <2>1. PICK a \in 1..j.paying : /\ paid' = [paid EXCEPT ![o] = @ + a]
                                 /\ job' = [job EXCEPT ![w].paying = @ - a]
    BY <1>13 DEF InsertPayment
  <2>2. j.step = "insertPayments" /\ UNCHANGED <<orders, lines, sold, ledger>>
    BY <1>13 DEF InsertPayment, At
  <2>3. a \in Nat /\ paid'[o] = paid[o] + a /\ \A p \in Orders \ {o} : paid'[p] = paid[p]
    BY <1>j, <1>t, <2>1 DEF TypeOK, Job
  <2>4. ClosedRest
    BY <1>j, <1>t, <2>2, <2>3 DEF ClosedRest, Closed, Exists
  <2> DEFINE m == [j EXCEPT !.paying = j.paying - a]
  <2>5. job' = [job EXCEPT ![w] = m] /\ m \in Job
    <3>1. job' = [job EXCEPT ![w] = m]
      BY <2>1, <1>t DEF TypeOK, Job
    <3> QED
      BY <3>1, <1>w
  <2>6. /\ m.step = "insertPayments" /\ m.op = j.op /\ m.order = o
        /\ m.paying = j.paying - a /\ m.paid = j.paid /\ m.owed = j.owed
    BY <1>t, <2>2 DEF Job
  <2>7. PICK n \in Job : n = m
    BY <2>5
  <2> HIDE DEF m
  <2>8. JobBooks(n)'
    <3>1. /\ j.op = "checkout" => ~Closed(o)
          /\ paid[o] + j.paying >= j.paid
          /\ j.op = "payTab" => /\ Closed(o)
                                /\ paid[o] + j.owed + j.paying >= orders[o].total + j.paid
      BY <1>j, <2>2 DEF JobBooks
    <3>2. /\ j.paying \in Nat /\ j.paid \in Nat /\ j.owed \in Int
          /\ paid[o] \in Nat /\ orders[o].total \in Int
      BY <1>j, <1>t DEF Job
    <3> QED
      BY <2>2, <2>3, <2>6, <2>7, <3>1, <3>2 DEF JobBooks, Editing, OnLine, Booking, Closed
  <2> QED
    BY <2>2, <2>4, <2>5, <2>7, <2>8, RestStep
<1>b. /\ j.owed \in Int /\ j.paid \in Nat /\ Balance(j) \in Int
      /\ Balance(j) >= j.owed - j.paid
  BY <1>t DEF Job, Balance, AtLeast
<1>14. CASE CloseOrder(w)
  <2>1. /\ j.step = "insertPayments" /\ j.op = "checkout" /\ j.paying = 0
        /\ UNCHANGED <<lines, paid, sold, ledger>> /\ Goto(w, "markPaid")
    BY <1>14 DEF CloseOrder, At
  <2>2. ~Closed(o) /\ paid[o] >= j.paid
    BY <1>j, <1>t, <2>1 DEF JobBooks
  <2>3. /\ orders'[o].total = j.owed /\ orders'[o].balance = Balance(j)
        /\ \A p \in Orders \ {o} : orders'[p] = orders[p]
    BY <1>14, <1>j, <1>t DEF CloseOrder, TypeOK, OrderRow
  <2>4. NeverUndercollected'
    <3>1. paid[o] + Balance(j) >= j.owed
      BY <1>b, <1>j, <1>t, <2>2
    <3> QED
      BY <2>1, <2>3, <3>1 DEF Books, NeverUndercollected, Closed
  <2>5. NoSaleBookedTwice'
    BY <1>n, <2>1, <2>2, <2>3 DEF Books, NoSaleBookedTwice, LinesOf, Exists
  <2> DEFINE m == [j EXCEPT !.step = "markPaid"]
  <2>6. job' = [job EXCEPT ![w] = m] /\ m \in Job
    BY <1>w, <2>1 DEF Goto
  <2>7. m.step = "markPaid" /\ m.order = o /\ m.owed = j.owed
    BY <1>t DEF Job
  <2>8. PICK n \in Job : n = m
    BY <2>6
  <2> HIDE DEF m
  <2>9. JobBooks(n)'
    BY <1>n, <2>1, <2>2, <2>3, <2>7, <2>8
    DEF JobBooks, Editing, OnLine, Booking, LinesOf, Exists
  <2> QED
    BY <1>t, <2>4, <2>5, <2>6, <2>8, <2>9, BooksStep
<1>15. CASE CloseTab(w)
  <2>1. /\ j.step = "insertPayments" /\ j.op = "payTab" /\ j.paying = 0
        /\ UNCHANGED <<lines, paid, sold, ledger>> /\ Done(w)
    BY <1>15 DEF CloseTab, At
  <2>2. paid[o] + j.owed >= orders[o].total + j.paid
    BY <1>b, <1>j, <1>t, <2>1 DEF JobBooks
  <2>3. /\ orders'[o].total = orders[o].total /\ orders'[o].balance = Balance(j)
        /\ \A p \in Orders \ {o} : orders'[p] = orders[p]
    BY <1>15, <1>j, <1>t DEF CloseTab, TypeOK, OrderRow
  <2>4. NeverUndercollected'
    <3>1. paid[o] + Balance(j) >= orders[o].total
      BY <1>b, <1>j, <1>t, <2>2
    <3> QED
      BY <2>1, <2>3, <3>1 DEF Books, NeverUndercollected, Closed
  <2>5. NoSaleBookedTwice'
    <3>1. \A p \in Orders : orders'[p].total = orders[p].total
      BY <2>3
    <3> QED
      BY <2>1, <3>1 DEF Books, NoSaleBookedTwice, LinesOf, Exists
  <2> QED
    BY <1>t, <2>1, <2>4, <2>5, NoJobType, BooksStep DEF Done, NoJob
\* The rest of a close, after the bill was closed.
<1>c. ASSUME j.step \in Booking \ {"deductStock"}, UNCHANGED <<orders, paid, sold, ledger>>,
             \A l \in Lines : /\ lines'[l].order = lines[l].order
                              /\ lines'[l].qty = lines[l].qty
                              /\ Exists(l)' => Exists(l),
             NEW step \in Booking \ {"deductStock"}, Goto(w, step)
      PROVE  Books'
  <2>1. ClosedRest
    BY <1>c, <1>t DEF ClosedRest, Closed
  <2>2. /\ orders[o].total = j.owed /\ ledger[o] = 0
        /\ \A l \in LinesOf(o) : sold[l] = 0
    BY <1>c, <1>j DEF JobBooks
  <2>3. \A m \in Job : m.step = step /\ m.order = o /\ m.owed = j.owed => JobBooks(m)'
    BY <1>c, <2>2 DEF JobBooks, Editing, OnLine, Booking, LinesOf
  <2> QED
    BY <1>c, <1>g, <2>1, <2>3
<1>16. CASE MarkPaid(w)
  <2>1. j.step = "markPaid" /\ UNCHANGED <<orders, paid, sold, ledger>>
        /\ Goto(w, "completeTickets")
    BY <1>16 DEF MarkPaid, At
  <2>2. \A l \in Lines : /\ lines'[l].order = lines[l].order /\ lines'[l].qty = lines[l].qty
                         /\ Exists(l)' => Exists(l)
    BY <1>16, <1>t DEF MarkPaid, TypeOK, LineRow, LinesOf, Exists
  <2> QED
    BY <1>c, <2>1, <2>2 DEF Booking
<1>17. CASE CompleteTickets(w)
  <2>1. j.step = "completeTickets" /\ UNCHANGED <<orders, lines, paid, sold, ledger>>
        /\ Goto(w, "readSold")
    BY <1>17 DEF CompleteTickets, At
  <2> QED
    BY <1>c, <2>1 DEF Booking, Exists
<1>18. CASE ReadSold(w)
  <2> DEFINE S == {l \in LinesOf(o) : lines[l].item # NoItem}
             u == UnitsOf(S)
             m == [j EXCEPT !.step = "deductStock", !.units = u]
  <2>1. /\ j.step = "readSold" /\ UNCHANGED <<orders, lines, paid, sold, ledger>>
        /\ job' = [job EXCEPT ![w].step = "deductStock", ![w].units = u]
    BY <1>18 DEF ReadSold, At
  <2>2. \A l \in Lines : u[l] # 0 => l \in LinesOf(o) /\ u[l] = lines[l].qty
    BY DEF UnitsOf
  <2> HIDE DEF u
  <2>3. job' = [job EXCEPT ![w] = m] /\ m \in Job
    <3>1. job' = [job EXCEPT ![w] = m]
      BY <2>1, <1>t
    <3> QED
      BY <3>1, <1>w
  <2>4. m.step = "deductStock" /\ m.order = o /\ m.owed = j.owed /\ m.units = u
    BY <1>t DEF Job
  <2>5. PICK n \in Job : n = m
    BY <2>3
  <2> HIDE DEF m
  <2>6. JobBooks(n)'
    <3>1. /\ orders[o].total = j.owed /\ ledger[o] = 0
          /\ \A l \in LinesOf(o) : sold[l] = 0
      BY <1>j, <2>1 DEF JobBooks, Booking
    <3> QED
      BY <2>1, <2>2, <2>4, <2>5, <3>1 DEF JobBooks, Editing, OnLine, Booking, Exists
  <2> QED
    BY <1>r, <2>1, <2>3, <2>5, <2>6, RestStep
<1>19. ASSUME NEW l \in Lines, DeductStock(w, l)
       PROVE  Books'
  <2> DEFINE m == [j EXCEPT !.units[l] = 0]
  <2>1. /\ j.step = "deductStock" /\ j.units[l] # 0
        /\ UNCHANGED <<orders, lines, paid, ledger>> /\ job' = [job EXCEPT ![w].units[l] = 0]
    BY <1>19 DEF DeductStock, At
  <2>2. /\ orders[o].total = j.owed /\ ledger[o] = 0
        /\ \A k \in Lines : j.units[k] # 0 =>
              sold[k] = 0 /\ (Exists(k) => j.units[k] = lines[k].qty)
    BY <1>j, <2>1 DEF JobBooks, Booking
  <2>3. /\ sold'[l] \in {0, j.units[l]}
        /\ \A k \in Lines \ {l} : sold'[k] = sold[k]
    BY <1>19, <1>t, <2>1, <2>2 DEF DeductStock, TypeOK, Job
  <2>4. NeverUndercollected'
    BY <1>r, <1>t, <2>1, CollectedRests DEF Books
  <2>5. NoSaleBookedTwice'
    BY <2>1, <2>2, <2>3 DEF Books, NoSaleBookedTwice, LinesOf, Exists
  <2>6. job' = [job EXCEPT ![w] = m] /\ m \in Job
    BY <1>w, <2>1
  <2>7. /\ m.step = "deductStock" /\ m.order = o /\ m.owed = j.owed
        /\ m.units[l] = 0 /\ \A k \in Lines \ {l} : m.units[k] = j.units[k]
    BY <1>t, <2>1 DEF Job
  <2>8. PICK n \in Job : n = m
    BY <2>6
  <2> HIDE DEF m
  <2>9. JobBooks(n)'
    BY <2>1, <2>2, <2>3, <2>7, <2>8 DEF JobBooks, Editing, OnLine, Booking, Exists
  <2> QED
    BY <1>t, <2>4, <2>5, <2>6, <2>8, <2>9, BooksStep
<1>20. CASE CreditLedger(w)
  <2>1. j.step = "deductStock" /\ UNCHANGED <<orders, lines, paid, sold>> /\ Done(w)
    BY <1>20 DEF CreditLedger, At
  <2>2. orders[o].total = j.owed /\ ledger[o] = 0
    BY <1>j, <2>1 DEF JobBooks, Booking
  <2>3. ledger'[o] = j.owed /\ \A p \in Orders \ {o} : ledger'[p] = ledger[p]
    BY <1>20, <1>b, <1>j, <1>t, <2>2 DEF CreditLedger, TypeOK
  <2>4. NeverUndercollected'
    BY <1>r, <1>t, <2>1, CollectedRests DEF Books
  <2>5. NoSaleBookedTwice'
    BY <2>1, <2>2, <2>3 DEF Books, NoSaleBookedTwice, LinesOf, Exists
  <2> QED
    BY <1>t, <2>1, <2>4, <2>5, NoJobType, BooksStep DEF Done, NoJob
<1> QED
  BY <1>1, <1>2, <1>3, <1>4, <1>5, <1>6, <1>7, <1>8, <1>9, <1>10, <1>11, <1>12, <1>13,
     <1>14, <1>15, <1>16, <1>17, <1>18, <1>19, <1>20 DEF Continue

-----------------------------------------------------------------------------
(* The theorems.                                                           *)

LEMMA BooksInit == Init => Books
  BY DEF Init, Books, NeverUndercollected, NoSaleBookedTwice, Closed, LinesOf, Exists, NoRow,
         At, NoJob

LEMMA BooksNext ==
  ASSUME OneWorker, ~StaleScreens
  PROVE  IInv /\ Books /\ [Next]_vars => Books'
<1> SUFFICES ASSUME IInv, Books, [Next]_vars PROVE Books'
  OBVIOUS
<1>1. IInv' /\ TypeOK /\ TypeOK'
  BY IInvStep DEF IInv
<1>2. ASSUME UNCHANGED <<orders, lines, paid>> PROVE ClosedRest
  BY <1>1, <1>2 DEF ClosedRest, Closed, Exists, TypeOK
<1>3. ASSUME NEW w \in Workers, Interrupt(w) PROVE Books'
  BY <1>1, <1>2, <1>3, NoJobType, RestStep DEF Interrupt, Done, NoJob
<1>4. CASE UNCHANGED vars
  BY <1>4 DEF vars, Books, NeverUndercollected, NoSaleBookedTwice, JobBooks, Closed, LinesOf,
     Exists, At
<1> QED
  BY <1>1, <1>3, <1>4, BooksArrive, BooksContinue DEF Next

LEMMA BooksAlways ==
  ASSUME OneWorker, ~StaleScreens
  PROVE  Spec => []Books
  BY IInvInit, IInvStep, BooksInit, BooksNext, PTL DEF Spec

\* Requests taken one at a time never close a bill short, wherever they are cut off: what was
\* paid and what is still owed cover the total (checkout, pay_tab).
THEOREM NeverUndercollectedAlone ==
  ASSUME OneWorker, ~StaleScreens
  PROVE  Spec => []NeverUndercollected
<1>1. Books => NeverUndercollected
  BY DEF Books
<1>2. Spec => []Books
  BY BooksAlways
<1> QED
  BY <1>1, <1>2, PTL

\* Requests taken one at a time never book a sale twice, however often one is cut off and
\* tried again: neither in the wallet nor in the stock (checkout).
THEOREM NoSaleBookedTwiceAlone ==
  ASSUME OneWorker, ~StaleScreens
  PROVE  Spec => []NoSaleBookedTwice
<1>1. Books => NoSaleBookedTwice
  BY DEF Books
<1>2. Spec => []Books
  BY BooksAlways
<1> QED
  BY <1>1, <1>2, PTL

-----------------------------------------------------------------------------
(* The books of a bill that was closed, while nothing stops half way.      *)

\* The steps that take money in.
Collecting == {"readCosts", "addCosts", "insertPayments"}

\* The marks of a sale that a checkout leaves one after the other.
LinesPaid(o)   == \A l \in LinesOf(o) : lines[l].status = "paid"
TicketsDone(o) == \A t \in Tickets : tickets[t].order = o => tickets[t].status = "completed"
StockTaken(o)  == \A l \in LinesOf(o) : lines[l].item # NoItem => sold[l] = lines[l].qty
BalanceDue(o)  == orders[o].balance = AtLeast(orders[o].total - paid[o], 0)

Booked(o) ==
    ledger[o] = orders[o].total /\ LinesPaid(o) /\ TicketsDone(o) /\ StockTaken(o)

\* What is true of a bill no request is at work on.
SettledUp(o) == IF Closed(o) THEN Booked(o) /\ BalanceDue(o) ELSE paid[o] = 0

\* How far a request got with its bill.
JobSettles(j) ==
    /\ j.step \notin Collecting \cup Booking => ~Closed(j.order) /\ paid[j.order] = 0
    /\ j.step \in Collecting => j.op \in {"checkout", "payTab"}
    /\ j.step \in Collecting /\ j.op = "checkout" => paid[j.order] + j.paying = j.paid
    /\ j.step \in Collecting /\ j.op = "payTab" =>
          /\ Booked(j.order)
          /\ j.owed = orders[j.order].balance
          /\ j.owed + paid[j.order] + j.paying = orders[j.order].total + j.paid
    /\ j.step \in Booking => BalanceDue(j.order)
    /\ j.step \in Booking \ {"markPaid"} => LinesPaid(j.order)
    /\ j.step \in {"readSold", "deductStock"} => TicketsDone(j.order)
    /\ j.step = "deductStock" => \A l \in LinesOf(j.order) :
          lines[l].item # NoItem => sold[l] + j.units[l] = lines[l].qty

Settlement ==
    /\ \A o \in Orders : Quiet(o) => SettledUp(o)
    /\ \A w \in Workers :
          IF At(w, "idle") THEN job[w].order = NoOrder ELSE JobSettles(job[w])

\* A bill as its books see it.
Same(p) ==
    /\ Closed(p)' <=> Closed(p)
    /\ orders'[p].total = orders[p].total /\ orders'[p].balance = orders[p].balance
    /\ paid'[p] = paid[p] /\ ledger'[p] = ledger[p]
    /\ \A l \in Lines : Exists(l)' /\ lines'[l].order = p =>
          /\ Exists(l) /\ lines[l].order = p
          /\ lines'[l].item = lines[l].item /\ lines'[l].qty = lines[l].qty
          /\ lines[l].status = "paid" => lines'[l].status = "paid"
          /\ sold'[l] = sold[l]
    /\ \A t \in Tickets : tickets'[t].order = p =>
          /\ tickets[t].order = p
          /\ tickets[t].status = "completed" => tickets'[t].status = "completed"

LEMMA SettledKept ==
  ASSUME NEW p, Same(p), SettledUp(p)
  PROVE  SettledUp(p)'
  BY DEF Same, SettledUp, Booked, BalanceDue, LinesPaid, TicketsDone, StockTaken, LinesOf

\* A statement about bill o leaves the books of the others alone.
LEMMA OthersSame ==
  ASSUME NEW o,
         \A p \in Orders \ {o} :
            orders'[p] = orders[p] /\ paid'[p] = paid[p] /\ ledger'[p] = ledger[p],
         \A l \in Lines : \/ lines'[l] = lines[l] /\ sold'[l] = sold[l]
                          \/ lines'[l].order = o
                          \/ ~Exists(l)',
         \A t \in Tickets :
            \/ tickets'[t].order = tickets[t].order /\ tickets'[t].status = tickets[t].status
            \/ tickets'[t].order = o
  PROVE  \A p \in Orders \ {o} : Same(p)
  BY DEF Same, Closed, Exists

\* One request at a time, at work on bill o.
LEMMA SettleStep ==
  ASSUME OneWorker, TypeOK, Settlement, NEW o \in Orders, NEW w \in Workers, NEW m \in Job,
         job' = [job EXCEPT ![w] = m], job[w].order \in {o, NoOrder},
         \A p \in Orders \ {o} : Same(p),
         IF m.step = "idle" THEN m.order = NoOrder /\ SettledUp(o)'
                            ELSE m.order = o /\ JobSettles(m)'
  PROVE  Settlement'
<1>1. \A v \in Workers : v = w /\ job'[v] = m
  BY DEF OneWorker, TypeOK
<1>2. ASSUME NEW p \in Orders, Quiet(p)' PROVE SettledUp(p)'
  <2>1. CASE p = o
    <3>1. m.order # o
      BY <1>1, <1>2, <2>1 DEF Quiet
    <3> QED
      BY <2>1, <3>1
  <2>2. CASE p # o
    <3>1. Quiet(p)
      BY <1>1, <2>2, NullsAssumption DEF Quiet
    <3> QED
      BY <2>2, <3>1, SettledKept DEF Settlement
  <2> QED
    BY <2>1, <2>2
<1>3. ASSUME NEW v \in Workers
      PROVE  IF At(v, "idle")' THEN job'[v].order = NoOrder ELSE JobSettles(job[v])'
  <2> SUFFICES ASSUME NEW k \in Job, k = job'[v]
               PROVE  IF k.step = "idle" THEN k.order = NoOrder ELSE JobSettles(k)'
    BY <1>1 DEF At
  <2> QED
    BY <1>1
<1> QED
  BY <1>2, <1>3 DEF Settlement

\* A request that neither collects nor books, at work on a bill that is not closed.
LEMMA PlainSettle ==
  ASSUME OneWorker, TypeOK, Settlement, NEW o \in Orders, NEW w \in Workers, NEW m \in Job,
         job' = [job EXCEPT ![w] = m], job[w].order \in {o, NoOrder},
         \A p \in Orders \ {o} : Same(p),
         m.step \notin Collecting \cup Booking,
         m.order = IF m.step = "idle" THEN NoOrder ELSE o,
         ~Closed(o)', paid'[o] = 0
  PROVE  Settlement'
<1>1. m.step # "idle" => JobSettles(m)'
  BY DEF JobSettles, Collecting, Booking
<1>2. SettledUp(o)'
  BY DEF SettledUp
<1> QED
  BY <1>1, <1>2, SettleStep

LEMMA SettleArrive ==
  ASSUME OneWorker, ~StaleScreens, IInv, TypeOK', Settlement, NEW w \in Workers, Arrive(w)
  PROVE  Settlement'
<1>0. PICK o \in Orders :
        \/ CreateOrder(w, o) \/ ApplyDiscount(w, o) \/ AttachCustomer(w, o)
        \/ VoidOrder(w, o) \/ Checkout(w, o) \/ PayTab(w, o)
        \/ \E t \in Tickets : SendToKitchen(w, o, t)
        \/ \E l \in Lines :
              \/ AddItem(w, o, l) \/ RemoveItem(w, o, l)
              \/ UpdateItemQuantity(w, o, l) \/ SetItemDiscount(w, o, l)
              \/ UpdateItemStatus(w, o, l)
  BY DEF Arrive
<1>t. /\ TypeOK /\ TypeOK' /\ job[w] \in Job /\ DebtIsVisible
      /\ paid[o] \in Nat /\ orders[o].total \in Int /\ orders[o].balance \in Nat
  BY DEF IInv, TypeOK, OrderRow
<1>w. ASSUME NEW j, job' = [job EXCEPT ![w] = j] PROVE j \in Job
  BY <1>w, <1>t DEF TypeOK
<1>i. At(w, "idle") => job[w].order = NoOrder /\ job[w].step = "idle" /\ SettledUp(o)
  BY NullsAssumption DEF Settlement, At, Quiet, OneWorker
\* Requests for a bill that is open, and stays that.
<1>p. ASSUME NEW m, job' = [job EXCEPT ![w] = m], m.step \notin Collecting \cup Booking,
             m.order = IF m.step = "idle" THEN NoOrder ELSE o,
             At(w, "idle"), ~Closed(o), ~Closed(o)',
             UNCHANGED <<tickets, paid, sold, ledger>>,
             \A p \in Orders \ {o} : orders'[p] = orders[p],
             \A l \in Lines : lines'[l] = lines[l] \/ lines'[l].order = o
      PROVE  Settlement'
  <2>1. \A p \in Orders \ {o} : Same(p)
    BY <1>p, OthersSame
  <2>2. paid'[o] = 0
    BY <1>i, <1>p DEF SettledUp
  <2> QED
    BY <1>i, <1>p, <1>t, <1>w, <2>1, <2>2, PlainSettle
<1>s. ASSUME UNCHANGED job, At(w, "idle"), ~Closed(o), ~Closed(o)',
             UNCHANGED <<tickets, paid, sold, ledger>>,
             \A p \in Orders \ {o} : orders'[p] = orders[p],
             \A l \in Lines : lines'[l] = lines[l] \/ lines'[l].order = o
      PROVE  Settlement'
  <2>1. PICK m : m = job[w] /\ job' = [job EXCEPT ![w] = m]
    BY <1>s, <1>t DEF TypeOK
  <2> QED
    BY <1>i, <1>p, <1>s, <2>1 DEF Collecting, Booking
<1>1. CASE CreateOrder(w, o) \/ ApplyDiscount(w, o) \/ AttachCustomer(w, o)
  <2>1. /\ UNCHANGED <<lines, tickets, paid, sold, ledger, job>> /\ At(w, "idle")
        /\ ~Closed(o) /\ ~Closed(o)'
        /\ \A p \in Orders \ {o} : orders'[p] = orders[p]
    BY <1>1, <1>t DEF CreateOrder, ApplyDiscount, AttachCustomer, Takes, Closed, TypeOK, OrderRow
  <2> QED
    BY <1>s, <2>1
<1>2. CASE VoidOrder(w, o)
  <2>1. /\ UNCHANGED <<lines, tickets, paid, sold, ledger>> /\ At(w, "idle")
        /\ ~Closed(o) /\ ~Closed(o)'
        /\ \A p \in Orders \ {o} : orders'[p] = orders[p]
    BY <1>2, <1>t DEF VoidOrder, Takes, Closed, TypeOK, OrderRow
  <2> DEFINE m == Begin("void", "revertRooms", o)
  <2>2. job' = [job EXCEPT ![w] = m] /\ m.step = "revertRooms" /\ m.order = o
    BY <1>2 DEF VoidOrder, Begin, NoJob
  <2> HIDE DEF m
  <2> QED
    BY <1>p, <2>1, <2>2 DEF Collecting, Booking
\* Requests that begin with a read.
<1>r. ASSUME NEW m, job' = [job EXCEPT ![w] = m], m.step # "idle", m.order = o, At(w, "idle"),
             JobSettles(m), UNCHANGED <<orders, lines, tickets, paid, sold, ledger>>
      PROVE  Settlement'
  <2>1. \A p \in Orders \ {o} : Same(p)
    BY <1>r, OthersSame
  <2>2. PICK n \in Job : n = m
    BY <1>r, <1>w
  <2>3. JobSettles(n)'
    BY <1>r, <2>2 DEF JobSettles, Closed, Booked, BalanceDue, LinesPaid, TicketsDone,
                      StockTaken, LinesOf, Exists
  <2> QED
    BY <1>i, <1>r, <1>t, <2>1, <2>2, <2>3, SettleStep
<1>3. CASE Checkout(w, o)
  <2>1. PICK p \in Payments, mayOwe \in BOOLEAN, owed \in Int,
             step \in {"insertPayments", "readCosts"} :
          job' = [job EXCEPT ![w] = CheckoutJob(o, step, owed, p, mayOwe)]
    <3>1. \A d \in Discounts : orders[o].total - orders[o].discount - d \in Int
      BY <1>t, AmountsAssumption DEF TypeOK, OrderRow
    <3> QED
      BY <1>3, <3>1 DEF Checkout
  <2> DEFINE m == CheckoutJob(o, step, owed, p, mayOwe)
  <2>2. m.step = step /\ m.op = "checkout" /\ m.order = o /\ m.paying = p /\ m.paid = p
    BY DEF CheckoutJob, Begin, NoJob
  <2> HIDE DEF m
  <2>3. paid[o] = 0 /\ At(w, "idle")
    BY <1>3, <1>i DEF Checkout, Takes, Closed, SettledUp
  <2>4. JobSettles(m)
    BY <2>2, <2>3, AmountsAssumption DEF JobSettles, Collecting, Booking
  <2> QED
    BY <1>3, <1>r, <2>1, <2>2, <2>3, <2>4 DEF Checkout, m
<1>4. CASE PayTab(w, o)
  <2>1. PICK p \in Payments \ {0} :
          job' = [job EXCEPT ![w] = [Begin("payTab", "insertPayments", o) EXCEPT
                                       !.owed = orders[o].balance, !.paying = p, !.paid = p]]
    BY <1>4 DEF PayTab
  <2> DEFINE m == [Begin("payTab", "insertPayments", o) EXCEPT
                     !.owed = orders[o].balance, !.paying = p, !.paid = p]
  <2>2. /\ m.step = "insertPayments" /\ m.op = "payTab" /\ m.order = o
        /\ m.owed = orders[o].balance /\ m.paying = p /\ m.paid = p
    BY DEF Begin, NoJob
  <2> HIDE DEF m
  <2>3. At(w, "idle") /\ Booked(o) /\ BalanceDue(o) /\ orders[o].balance > 0
    BY <1>4, <1>i, <1>t DEF PayTab, Takes, Closed, SettledUp, DebtIsVisible
  <2>4. orders[o].balance + paid[o] = orders[o].total
    BY <1>t, <2>3 DEF BalanceDue, AtLeast
  <2>5. JobSettles(m)
    BY <1>t, <2>2, <2>3, <2>4, AmountsAssumption DEF JobSettles, Collecting, Booking
  <2> QED
    BY <1>4, <1>r, <2>1, <2>2, <2>3, <2>5 DEF PayTab, m
\* Requests that only read, on an open bill.
<1>b. ASSUME NEW m, job' = [job EXCEPT ![w] = m], m.step \notin Collecting \cup Booking,
             m.step # "idle", m.order = o, At(w, "idle"), orders[o].status = "open",
             UNCHANGED <<orders, lines, tickets, paid, sold, ledger>>
      PROVE  Settlement'
  BY <1>b, <1>p DEF Closed
<1>5. ASSUME NEW t \in Tickets, SendToKitchen(w, o, t)
      PROVE  Settlement'
  <2> DEFINE m == [Begin("send", "insertTicket", o) EXCEPT !.ticket = t,
                     !.units = UnitsOf({l \in LinesOf(o) : lines[l].status = "new"})]
  <2>1. /\ job' = [job EXCEPT ![w] = m] /\ m.step = "insertTicket" /\ m.order = o
        /\ At(w, "idle") /\ orders[o].status = "open"
    BY <1>5 DEF SendToKitchen, Takes, Begin, NoJob
  <2> HIDE DEF m
  <2> QED
    BY <1>5, <1>b, <2>1 DEF SendToKitchen, Collecting, Booking
<1>6. ASSUME NEW l \in Lines, AddItem(w, o, l)
      PROVE  Settlement'
  <2>1. PICK i \in Items \cup {NoItem}, q \in Quantities, p \in Prices :
          job' = [job EXCEPT ![w] =
               [Begin("add", "insertLine", o) EXCEPT
                  !.line = l, !.delta = p * q,
                  !.row = [status |-> "new", order |-> o, item |-> i,
                           qty |-> q, price |-> p, discount |-> 0]]]
    BY <1>6 DEF AddItem
  <2> DEFINE row == [status |-> "new", order |-> o, item |-> i,
                     qty |-> q, price |-> p, discount |-> 0]
             m == [Begin("add", "insertLine", o) EXCEPT !.line = l, !.delta = p * q, !.row = row]
  <2>2. /\ job' = [job EXCEPT ![w] = m] /\ m.step = "insertLine" /\ m.order = o
        /\ At(w, "idle") /\ orders[o].status = "open"
    BY <1>6, <2>1 DEF AddItem, Takes, Begin, NoJob
  <2> HIDE DEF m
  <2> QED
    BY <1>6, <1>b, <2>2 DEF AddItem, Collecting, Booking
<1>7. ASSUME NEW l \in Lines, RemoveItem(w, o, l)
      PROVE  Settlement'
  <2> DEFINE m == [Begin("remove", "deleteLine", o) EXCEPT !.step = "deleteLine", !.line = l,
                     !.row = lines[l], !.delta = -LineTotal(lines[l])]
  <2>1. /\ job' = [job EXCEPT ![w] = m] /\ m.step = "deleteLine" /\ m.order = o
        /\ At(w, "idle") /\ orders[o].status = "open"
    BY <1>7 DEF RemoveItem, ReadToRemove, TakesLine, Takes, Begin, NoJob
  <2> HIDE DEF m
  <2> QED
    BY <1>7, <1>b, <2>1 DEF RemoveItem, Collecting, Booking
<1>8. ASSUME NEW l \in Lines, UpdateItemQuantity(w, o, l)
      PROVE  Settlement'
  <2>1. PICK q \in Quantities :
          job' = [job EXCEPT ![w] = [Begin("quantity", "readOrder", o) EXCEPT
                                       !.line = l, !.row = lines[l], !.ask = q]]
    BY <1>8 DEF UpdateItemQuantity
  <2> DEFINE m == [Begin("quantity", "readOrder", o) EXCEPT !.line = l, !.row = lines[l], !.ask = q]
  <2>2. /\ job' = [job EXCEPT ![w] = m] /\ m.step = "readOrder" /\ m.order = o
        /\ At(w, "idle") /\ orders[o].status = "open"
    BY <1>8, <2>1 DEF UpdateItemQuantity, TakesLine, Takes, Begin, NoJob
  <2> HIDE DEF m
  <2> QED
    BY <1>8, <1>b, <2>2 DEF UpdateItemQuantity, Collecting, Booking
<1>9. ASSUME NEW l \in Lines, SetItemDiscount(w, o, l)
      PROVE  Settlement'
  <2>1. PICK d \in Discounts :
          job' = [job EXCEPT ![w] = [Begin("lineDiscount", "readLine", o) EXCEPT
                                       !.line = l, !.ask = d]]
    BY <1>9 DEF SetItemDiscount
  <2> DEFINE m == [Begin("lineDiscount", "readLine", o) EXCEPT !.line = l, !.ask = d]
  <2>2. /\ job' = [job EXCEPT ![w] = m] /\ m.step = "readLine" /\ m.order = o
        /\ At(w, "idle") /\ orders[o].status = "open"
    BY <1>9, <2>1 DEF SetItemDiscount, TakesLine, Takes, Begin, NoJob
  <2> HIDE DEF m
  <2> QED
    BY <1>9, <1>b, <2>2 DEF SetItemDiscount, Collecting, Booking
<1>10. ASSUME NEW l \in Lines, UpdateItemStatus(w, o, l)
       PROVE  Settlement'
  <2>1. /\ UNCHANGED <<orders, tickets, paid, sold, ledger, job>> /\ At(w, "idle")
        /\ orders[o].status = "open" /\ lines[l].order = o
    BY <1>10 DEF UpdateItemStatus, TakesLine, Takes, LinesOf
  <2>2. \A k \in Lines : lines'[k] = lines[k] \/ lines'[k].order = o
    BY <1>10, <1>t, <2>1, StatusesAssumption DEF UpdateItemStatus, TypeOK, LineRow
  <2> QED
    BY <1>s, <2>1, <2>2 DEF Closed
<1> QED
  BY <1>0, <1>1, <1>2, <1>3, <1>4, <1>5, <1>6, <1>7, <1>8, <1>9, <1>10

LEMMA SettleContinue ==
  ASSUME OneWorker, ~Interruptions, IInv, TypeOK', Books, Settlement, NEW w \in Workers,
         Continue(w)
  PROVE  Settlement'
<1> DEFINE j == job[w]
<1>t. /\ TypeOK /\ TypeOK' /\ j \in Job
      /\ \A p \in Orders : /\ paid[p] \in Nat /\ paid'[p] \in Nat
                           /\ orders[p].total \in Int /\ orders[p].balance \in Nat
  BY DEF IInv, TypeOK, OrderRow
<1>w. ASSUME NEW k, job' = [job EXCEPT ![w] = k] PROVE k \in Job
  BY <1>w, <1>t DEF TypeOK
<1>i. j.step # "idle"
  BY <1>t DEF Continue, At, BumpTotal, InsertLine, CheckIn, RereadLine, DeleteLine, ReadOrder,
     SetQuantity, ReadLine, SetDiscount, InsertTicket, MarkProcessing, RevertRooms, ReadCosts,
     CheckCost, InsertPayment, CloseOrder, CloseTab, MarkPaid, CompleteTickets, ReadSold,
     CreditLedger, InsertTicketItem, AddCost, DeductStock
<1>o. PICK o \in Orders : o = j.order
  BY <1>i DEF IInv, ReadsStayTrue, ReadsHold, At
<1>j. JobSettles(j) /\ JobBooks(j) /\ ReadsHold(j)
  BY <1>i DEF Settlement, Books, IInv, ReadsStayTrue, At
\* Statements of requests that neither collect nor book.
<1>p. ASSUME j.step \notin Collecting \cup Booking, NEW m, job' = [job EXCEPT ![w] = m],
             m = NoJob \/ (m.order = o /\ m.step \notin Collecting \cup Booking \cup {"idle"}),
             UNCHANGED <<paid, sold, ledger>>,
             \A p \in Orders : orders'[p].status = orders[p].status,
             \A p \in Orders \ {o} : orders'[p] = orders[p],
             \A l \in Lines : \/ lines'[l] = lines[l]
                              \/ lines'[l].order = o
                              \/ ~Exists(l)',
             \A t \in Tickets :
                \/ tickets'[t].order = tickets[t].order /\ tickets'[t].status = tickets[t].status
                \/ tickets'[t].order = o
      PROVE  Settlement'
  <2>1. \A p \in Orders \ {o} : Same(p)
    BY <1>p, OthersSame
  <2>2. ~Closed(o)' /\ paid'[o] = 0
    BY <1>j, <1>o, <1>p DEF JobSettles, Closed
  <2>3. /\ m.step \notin Collecting \cup Booking
        /\ m.order = IF m.step = "idle" THEN NoOrder ELSE o
    BY <1>p DEF NoJob, Collecting, Booking
  <2> QED
    BY <1>o, <1>p, <1>t, <1>w, <2>1, <2>2, <2>3, PlainSettle
<1>g. ASSUME j.step \notin Collecting \cup Booking,
             \/ Done(w)
             \/ \E step : Goto(w, step) /\ step \notin Collecting \cup Booking \cup {"idle"}
      PROVE  \E m : /\ job' = [job EXCEPT ![w] = m]
                    /\ \/ m = NoJob
                       \/ m.order = o /\ m.step \notin Collecting \cup Booking \cup {"idle"}
  <2>1. CASE Done(w)
    BY <2>1 DEF Done
  <2>2. ASSUME NEW step, Goto(w, step), step \notin Collecting \cup Booking \cup {"idle"}
        PROVE  \E m : /\ job' = [job EXCEPT ![w] = m]
                      /\ \/ m = NoJob
                         \/ m.order = o /\ m.step \notin Collecting \cup Booking \cup {"idle"}
    <3> DEFINE m == [j EXCEPT !.step = step]
    <3>1. job' = [job EXCEPT ![w] = m] /\ m.step = step /\ m.order = o
      BY <1>o, <1>t, <2>2 DEF Goto, Job
    <3> HIDE DEF m
    <3> QED
      BY <2>2, <3>1
  <2> QED
    BY <1>g, <2>1, <2>2
<1>1. CASE BumpTotal(w)
  <2>1. /\ j.step = "bumpTotal" /\ UNCHANGED <<lines, tickets, paid, sold, ledger>>
        /\ Done(w) \/ Goto(w, "checkIn")
    BY <1>1 DEF BumpTotal, At
  <2>2. /\ \A p \in Orders : orders'[p].status = orders[p].status
        /\ \A p \in Orders \ {o} : orders'[p] = orders[p]
    BY <1>1, <1>o, <1>t DEF BumpTotal, TypeOK, OrderRow
  <2>3. PICK m : /\ job' = [job EXCEPT ![w] = m]
                 /\ \/ m = NoJob
                    \/ m.order = o /\ m.step \notin Collecting \cup Booking \cup {"idle"}
    BY <1>g, <2>1 DEF Collecting, Booking
  <2> QED
    BY <1>p, <2>1, <2>2, <2>3 DEF Collecting, Booking
<1>2. CASE \/ InsertLine(w) \/ DeleteLine(w) \/ SetQuantity(w) \/ SetDiscount(w)
           \/ MarkProcessing(w)
  <2>1. /\ j.step \in {"insertLine", "deleteLine", "setQuantity", "setDiscount",
                       "insertTicketItems"}
        /\ UNCHANGED <<orders, tickets, paid, sold, ledger>>
        /\ Done(w) \/ Goto(w, "bumpTotal")
    BY <1>2 DEF InsertLine, DeleteLine, SetQuantity, SetDiscount, MarkProcessing, At
  <2>2. ASSUME NEW l \in Lines
        PROVE  lines'[l] = lines[l] \/ lines'[l].order = o \/ ~Exists(l)'
    <3>1. CASE InsertLine(w)
      BY <1>j, <1>o, <1>t, <2>2, <3>1 DEF InsertLine, At, ReadsHold, TypeOK
    <3>2. CASE DeleteLine(w)
      BY <1>t, <2>2, <3>2 DEF DeleteLine, Exists, TypeOK, NoRow
    <3>3. CASE SetQuantity(w) \/ SetDiscount(w)
      <4>1. Exists(j.line) => lines[j.line].order = o
        BY <1>j, <1>o, <3>3 DEF SetQuantity, SetDiscount, At, JobBooks, OnLine
      <4>2. /\ lines'[l].status = lines[l].status /\ lines'[l].order = lines[l].order
            /\ lines'[l] = lines[l] \/ l = j.line
        BY <1>t, <2>2, <3>3 DEF SetQuantity, SetDiscount, TypeOK, LineRow
      <4> QED
        BY <4>1, <4>2 DEF Exists
    <3>4. CASE MarkProcessing(w)
      BY <1>o, <1>t, <2>2, <3>4 DEF MarkProcessing, LinesOf, TypeOK, LineRow
    <3> QED
      BY <1>2, <3>1, <3>2, <3>3, <3>4
  <2>3. PICK m : /\ job' = [job EXCEPT ![w] = m]
                 /\ \/ m = NoJob
                    \/ m.order = o /\ m.step \notin Collecting \cup Booking \cup {"idle"}
    BY <1>g, <2>1 DEF Collecting, Booking
  <2> QED
    BY <1>p, <2>1, <2>2, <2>3 DEF Collecting, Booking
<1>3. CASE InsertTicket(w)
  <2>1. /\ j.step = "insertTicket" /\ UNCHANGED <<orders, lines, paid, sold, ledger>>
        /\ Goto(w, "insertTicketItems")
    BY <1>3 DEF InsertTicket, At
  <2>2. \A t \in Tickets : tickets'[t] = tickets[t] \/ tickets'[t].order = o
    BY <1>3, <1>o, <1>t DEF InsertTicket, TypeOK, TicketRow
  <2>3. PICK m : /\ job' = [job EXCEPT ![w] = m]
                 /\ \/ m = NoJob
                    \/ m.order = o /\ m.step \notin Collecting \cup Booking \cup {"idle"}
    BY <1>g, <2>1 DEF Collecting, Booking
  <2> QED
    BY <1>p, <2>1, <2>2, <2>3 DEF Collecting, Booking
<1>4. CASE CheckIn(w) \/ RevertRooms(w)
  <2>1. /\ j.step \in {"checkIn", "revertRooms"} /\ Done(w)
        /\ UNCHANGED <<orders, lines, tickets, paid, sold, ledger>>
    BY <1>4 DEF CheckIn, RevertRooms, At
  <2> QED
    BY <1>p, <2>1 DEF Done, Collecting, Booking
<1>5. CASE RereadLine(w) \/ ReadOrder(w) \/ ReadLine(w)
  <2>1. /\ j.step \in {"rereadLine", "readOrder", "readLine"}
        /\ UNCHANGED <<orders, lines, tickets, paid, sold, ledger>>
    BY <1>5 DEF RereadLine, ReadOrder, ReadLine, At
  <2>2. CASE Done(w) \/ Goto(w, "rereadLine")
    <3>1. PICK m : /\ job' = [job EXCEPT ![w] = m]
                   /\ \/ m = NoJob
                      \/ m.order = o /\ m.step \notin Collecting \cup Booking \cup {"idle"}
      BY <1>g, <2>1, <2>2 DEF Collecting, Booking
    <3> QED
      BY <1>p, <2>1, <3>1 DEF Collecting, Booking
  <2>3. CASE ~Done(w) /\ ~Goto(w, "rereadLine")
    <3>1. PICK m : /\ job' = [job EXCEPT ![w] = m] /\ m.order = o
                   /\ m.step \in {"deleteLine", "setQuantity", "setDiscount"}
      <4>1. CASE RereadLine(w)
        <5> DEFINE m == [j EXCEPT !.step = "deleteLine", !.line = j.line, !.row = lines[j.line],
                                  !.delta = -LineTotal(lines[j.line])]
        <5>1. /\ job' = [job EXCEPT ![w] = m]
              /\ m.order = o /\ m.step = "deleteLine"
          BY <1>o, <1>t, <2>3, <4>1 DEF RereadLine, ReadToRemove, Job
        <5> HIDE DEF m
        <5> QED
          BY <5>1
      <4>2. CASE ReadOrder(w)
        <5> DEFINE d == LineTotal([j.row EXCEPT !.qty = j.ask]) - LineTotal(j.row)
                   m == [j EXCEPT !.step = "setQuantity", !.delta = d]
        <5>1. job' = [job EXCEPT ![w].step = "setQuantity", ![w].delta = d]
          BY <2>3, <4>2 DEF ReadOrder
        <5> HIDE DEF d
        <5>2. job' = [job EXCEPT ![w] = m] /\ m.order = o /\ m.step = "setQuantity"
          BY <1>o, <1>t, <5>1 DEF TypeOK, Job
        <5> HIDE DEF m
        <5> QED
          BY <5>2
      <4>3. CASE ReadLine(w)
        <5> DEFINE row == lines[j.line]
                   m == [j EXCEPT !.step = "setDiscount", !.row = row, !.ask = Clamped(j.ask, row),
                                  !.delta = row.discount - Clamped(j.ask, row)]
        <5>1. job' = [job EXCEPT ![w].step = "setDiscount", ![w].row = row,
                        ![w].ask = Clamped(@, row),
                        ![w].delta = row.discount - Clamped(j.ask, row)]
          BY <2>3, <4>3 DEF ReadLine
        <5> HIDE DEF row
        <5>2. job' = [job EXCEPT ![w] = m] /\ m.order = o /\ m.step = "setDiscount"
          BY <1>o, <1>t, <5>1 DEF TypeOK, Job
        <5> HIDE DEF m
        <5> QED
          BY <5>2
      <4> QED
        BY <1>5, <4>1, <4>2, <4>3
    <3> QED
      BY <1>p, <2>1, <3>1 DEF Collecting, Booking
  <2> QED
    BY <2>2, <2>3
<1>6. ASSUME NEW l \in Lines, InsertTicketItem(w, l)
      PROVE  Settlement'
  <2>1. /\ j.step = "insertTicketItems" /\ UNCHANGED <<orders, lines, paid, sold, ledger>>
        /\ \A t \in Tickets : /\ tickets'[t].order = tickets[t].order
                              /\ tickets'[t].status = tickets[t].status
    <3>1. j.step = "insertTicketItems" /\ UNCHANGED <<orders, lines, paid, sold, ledger>>
      BY <1>6 DEF InsertTicketItem, At
    <3>2. PICK k : k = j.ticket
      OBVIOUS
    <3>3. UNCHANGED tickets \/ tickets' = [tickets EXCEPT ![k].items[l] = "new"]
      BY <1>6, <3>2 DEF InsertTicketItem
    <3>4. \A t \in Tickets : tickets[t] \in TicketRow
      BY <1>t DEF TypeOK
    <3>5. \A t \in Tickets : tickets'[t] = tickets[t]
                             \/ tickets'[t] = [tickets[t] EXCEPT !.items[l] = "new"]
      BY <1>t, <3>3 DEF TypeOK
    <3> QED
      BY <3>1, <3>4, <3>5 DEF TicketRow
  <2>2. CASE Done(w)
    BY <1>p, <2>1, <2>2 DEF Done, Collecting, Booking
  <2>3. CASE ~Done(w)
    <3> DEFINE m == [j EXCEPT !.units[l] = 0]
    <3>1. job' = [job EXCEPT ![w] = m] /\ m.step = "insertTicketItems" /\ m.order = o
      BY <1>6, <1>o, <1>t, <2>1, <2>3 DEF InsertTicketItem, TypeOK, Job
    <3> HIDE DEF m
    <3> QED
      BY <1>p, <2>1, <3>1 DEF Collecting, Booking
  <2> QED
    BY <2>2, <2>3
\* Statements that add to the payments or the figures of a request still collecting.
<1>r. ASSUME NEW m, job' = [job EXCEPT ![w] = m], UNCHANGED <<orders, lines, tickets, sold, ledger>>,
             \A p \in Orders \ {o} : paid'[p] = paid[p],
             IF m.step = "idle" THEN m.order = NoOrder /\ SettledUp(o)'
                                ELSE m.order = o /\ \A n \in Job : n = m => JobSettles(n)'
      PROVE  Settlement'
  <2>1. \A p \in Orders \ {o} : Same(p)
    BY <1>r, OthersSame
  <2>2. PICK n \in Job : n = m
    BY <1>r, <1>w
  <2> QED
    BY <1>o, <1>r, <1>t, <2>1, <2>2, SettleStep
<1>7. CASE ReadCosts(w) \/ \E l \in Lines : AddCost(w, l)
  <2>1. /\ j.step \in {"readCosts", "addCosts"}
        /\ UNCHANGED <<orders, lines, tickets, paid, sold, ledger>>
    BY <1>7 DEF ReadCosts, AddCost, At
  <2>2. PICK m : /\ job' = [job EXCEPT ![w] = m] /\ m.step = "addCosts" /\ m.op = j.op
                 /\ m.order = o /\ m.paying = j.paying /\ m.paid = j.paid
    <3>1. CASE ReadCosts(w)
      <4> DEFINE u == [l \in Lines |-> IF l \in LinesOf(j.order) THEN LineCost(lines[l]) ELSE 0]
                 m == [j EXCEPT !.step = "addCosts", !.units = u]
      <4>1. job' = [job EXCEPT ![w].step = "addCosts", ![w].units = u]
        BY <3>1 DEF ReadCosts
      <4> HIDE DEF u
      <4>2. /\ job' = [job EXCEPT ![w] = m] /\ m.step = "addCosts" /\ m.op = j.op
            /\ m.order = o /\ m.paying = j.paying /\ m.paid = j.paid
        BY <1>o, <1>t, <4>1 DEF TypeOK, Job
      <4> HIDE DEF m
      <4> QED
        BY <4>2
    <3>2. ASSUME NEW l \in Lines, AddCost(w, l)
          PROVE  \E m : /\ job' = [job EXCEPT ![w] = m] /\ m.step = "addCosts" /\ m.op = j.op
                        /\ m.order = o /\ m.paying = j.paying /\ m.paid = j.paid
      <4> DEFINE m == [j EXCEPT !.owed = @ + j.units[l], !.units[l] = 0]
      <4>1. /\ job' = [job EXCEPT ![w] = m] /\ m.step = "addCosts" /\ m.op = j.op
            /\ m.order = o /\ m.paying = j.paying /\ m.paid = j.paid
        BY <1>o, <1>t, <3>2 DEF AddCost, At, TypeOK, Job
      <4> HIDE DEF m
      <4> QED
        BY <4>1
    <3> QED
      BY <1>7, <3>1, <3>2
  <2>3. j.op = "checkout" /\ paid[o] + j.paying = j.paid
    BY <1>j, <1>o, <2>1 DEF JobSettles, JobBooks, Collecting
  <2>4. \A n \in Job : n = m => JobSettles(n)'
    BY <2>1, <2>2, <2>3 DEF JobSettles, Collecting, Booking
  <2> QED
    BY <1>r, <2>1, <2>2, <2>4
<1>8. CASE CheckCost(w)
  <2>1. j.step = "addCosts" /\ UNCHANGED <<orders, lines, tickets, paid, sold, ledger>>
    BY <1>8 DEF CheckCost, At
  <2>2. /\ j.op = "checkout" /\ ~Closed(o) /\ paid[o] + j.paying = j.paid /\ j.paying = j.paid
        /\ j.paid \in Nat
    BY <1>j, <1>o, <1>t, <2>1 DEF JobSettles, JobBooks, Collecting, Job
  <2>3. CASE Done(w)
    <3>1. SettledUp(o)'
      BY <1>t, <2>1, <2>2 DEF SettledUp, Closed
    <3> QED
      BY <1>r, <2>1, <2>3, <3>1 DEF Done, NoJob
  <2>4. CASE Goto(w, "insertPayments")
    <3> DEFINE m == [j EXCEPT !.step = "insertPayments"]
    <3>1. /\ job' = [job EXCEPT ![w] = m] /\ m.step = "insertPayments" /\ m.op = j.op
          /\ m.order = o /\ m.paying = j.paying /\ m.paid = j.paid
      BY <1>o, <1>t, <2>4 DEF Goto, Job
    <3> HIDE DEF m
    <3>2. \A n \in Job : n = m => JobSettles(n)'
      BY <2>1, <2>2, <3>1 DEF JobSettles, Collecting, Booking
    <3> QED
      BY <1>r, <2>1, <3>1, <3>2
  <2> QED
    BY <1>8, <2>3, <2>4 DEF CheckCost
<1>9. CASE InsertPayment(w)
  <2>1. j.step = "insertPayments" /\ UNCHANGED <<orders, lines, tickets, sold, ledger>>
    BY <1>9 DEF InsertPayment, At
  <2>2. PICK a \in 1..j.paying : /\ paid' = [paid EXCEPT ![o] = @ + a]
                                 /\ job' = [job EXCEPT ![w].paying = @ - a]
    BY <1>9, <1>o DEF InsertPayment
  <2>3. /\ a \in Nat /\ paid'[o] = paid[o] + a /\ \A p \in Orders \ {o} : paid'[p] = paid[p]
    BY <1>t, <2>2 DEF TypeOK, Job
  <2> DEFINE m == [j EXCEPT !.paying = @ - a]
  <2>4. /\ job' = [job EXCEPT ![w] = m] /\ m.step = "insertPayments" /\ m.op = j.op
        /\ m.order = o /\ m.paying = j.paying - a /\ m.paid = j.paid /\ m.owed = j.owed
    BY <1>o, <1>t, <2>1, <2>2 DEF TypeOK, Job
  <2> HIDE DEF m
  <2>5. \A n \in Job : n = m => JobSettles(n)'
    <3>1. /\ j.paying \in Nat /\ j.paid \in Nat /\ j.owed \in Int
      BY <1>t DEF Job
    <3>2. /\ j.op \in {"checkout", "payTab"}
          /\ j.op = "checkout" => paid[o] + j.paying = j.paid
          /\ j.op = "payTab" => /\ Booked(o) /\ j.owed = orders[o].balance
                                /\ j.owed + paid[o] + j.paying = orders[o].total + j.paid
      BY <1>j, <1>o, <2>1 DEF JobSettles, Collecting
    <3>3. Booked(o) => Booked(o)'
      BY <2>1 DEF Booked, LinesPaid, TicketsDone, StockTaken, LinesOf, Exists
    <3> QED
      BY <1>t, <2>1, <2>3, <2>4, <3>1, <3>2, <3>3 DEF JobSettles, Collecting, Booking
  <2> QED
    BY <1>r, <2>1, <2>3, <2>4, <2>5
<1>10. CASE CloseOrder(w)
  <2>1. /\ j.step = "insertPayments" /\ j.op = "checkout" /\ j.paying = 0
        /\ UNCHANGED <<lines, tickets, paid, sold, ledger>>
    BY <1>10 DEF CloseOrder, At
  <2>2. /\ orders'[o].total = j.owed /\ orders'[o].balance = Balance(j)
        /\ \A p \in Orders \ {o} : orders'[p] = orders[p]
    BY <1>10, <1>o, <1>t DEF CloseOrder, TypeOK, OrderRow
  <2>3. paid[o] = j.paid
    BY <1>j, <1>o, <1>t, <2>1 DEF JobSettles, Collecting
  <2>4. BalanceDue(o)'
    BY <2>1, <2>2, <2>3 DEF BalanceDue, Balance
  <2> DEFINE m == [j EXCEPT !.step = "markPaid"]
  <2>5. job' = [job EXCEPT ![w] = m] /\ m.step = "markPaid" /\ m.order = o
    BY <1>10, <1>o, <1>t DEF CloseOrder, Goto, Job
  <2> HIDE DEF m
  <2>6. PICK n \in Job : n = m
    BY <1>w, <2>5
  <2>7. JobSettles(n)'
    BY <2>4, <2>5, <2>6 DEF JobSettles, Collecting, Booking
  <2>8. \A p \in Orders \ {o} : Same(p)
    BY <2>1, <2>2, OthersSame
  <2> QED
    BY <1>o, <1>t, <2>5, <2>6, <2>7, <2>8, SettleStep
<1>11. CASE CloseTab(w)
  <2>1. /\ j.step = "insertPayments" /\ j.op = "payTab" /\ j.paying = 0
        /\ UNCHANGED <<lines, tickets, paid, sold, ledger>> /\ job' = [job EXCEPT ![w] = NoJob]
    BY <1>11 DEF CloseTab, At, Done
  <2>2. /\ orders'[o].total = orders[o].total /\ orders'[o].balance = Balance(j)
        /\ orders'[o].status \in {"tab", "paid"}
        /\ \A p \in Orders \ {o} : orders'[p] = orders[p]
    BY <1>11, <1>o, <1>t DEF CloseTab, ClosingStatus, TypeOK, OrderRow
  <2>3. Booked(o) /\ j.owed + paid[o] = orders[o].total + j.paid
    BY <1>j, <1>o, <1>t, <2>1 DEF JobSettles, Collecting, Job
  <2>4. BalanceDue(o)'
    <3>1. j.owed \in Int /\ j.paid \in Nat
      BY <1>t DEF Job
    <3>2. j.owed - j.paid = orders[o].total - paid[o]
      BY <1>t, <2>3, <3>1
    <3> QED
      BY <2>1, <2>2, <3>2 DEF BalanceDue, Balance
  <2>5. Booked(o)'
    BY <2>1, <2>2, <2>3 DEF Booked, LinesPaid, TicketsDone, StockTaken, LinesOf, Exists
  <2>6. SettledUp(o)'
    BY <2>4, <2>5, <2>2 DEF SettledUp, Closed
  <2>7. \A p \in Orders \ {o} : Same(p)
    BY <2>1, <2>2, OthersSame
  <2>8. NoJob.step = "idle" /\ NoJob.order = NoOrder /\ NoJob \in Job
    BY NoJobType DEF NoJob
  <2> QED
    BY <1>o, <1>t, <2>1, <2>6, <2>7, <2>8, SettleStep
\* The statements of a checkout that book the sale.
<1>b. ASSUME j.step \in Booking, NEW step \in Booking \ {"markPaid"}, NEW m \in Job,
             job' = [job EXCEPT ![w] = m], m.step = step, m.order = o,
             UNCHANGED <<orders, paid, ledger>>,
             \A l \in Lines : \/ lines'[l] = lines[l] /\ sold'[l] = sold[l]
                              \/ lines'[l].order = o
                              \/ ~Exists(l)',
             \A t \in Tickets :
                \/ tickets'[t].order = tickets[t].order /\ tickets'[t].status = tickets[t].status
                \/ tickets'[t].order = o,
             LinesPaid(o)', step \in {"readSold", "deductStock"} => TicketsDone(o)',
             step = "deductStock" => \A l \in LinesOf(o)' :
                lines'[l].item # NoItem => sold'[l] + m.units[l] = lines'[l].qty
      PROVE  Settlement'
  <2>1. \A p \in Orders \ {o} : Same(p)
    BY <1>b, OthersSame
  <2>2. BalanceDue(o)'
    BY <1>b, <1>j, <1>o DEF JobSettles, BalanceDue
  <2>3. JobSettles(m)' /\ m.step # "idle"
    BY <1>b, <2>2 DEF JobSettles, Collecting, Booking
  <2> QED
    BY <1>b, <1>o, <1>t, <2>1, <2>3, SettleStep
<1>12. CASE MarkPaid(w)
  <2>1. /\ j.step = "markPaid" /\ UNCHANGED <<orders, tickets, paid, sold, ledger>>
        /\ Goto(w, "completeTickets")
    BY <1>12 DEF MarkPaid, At
  <2>2. /\ \A l \in Lines : lines'[l] = lines[l] \/ lines'[l].order = o
        /\ \A l \in Lines : Exists(l)' /\ lines'[l].order = o => lines'[l].status = "paid"
    BY <1>12, <1>o, <1>t DEF MarkPaid, TypeOK, LineRow, LinesOf, Exists
  <2>3. LinesPaid(o)'
    BY <2>2 DEF LinesPaid, LinesOf
  <2> DEFINE m == [j EXCEPT !.step = "completeTickets"]
  <2>4. job' = [job EXCEPT ![w] = m] /\ m.step = "completeTickets" /\ m.order = o
    BY <1>o, <1>t, <2>1 DEF Goto, Job
  <2> HIDE DEF m
  <2> QED
    BY <1>b, <1>w, <2>1, <2>2, <2>3, <2>4 DEF Booking
<1>13. CASE CompleteTickets(w)
  <2>1. /\ j.step = "completeTickets" /\ UNCHANGED <<orders, lines, paid, sold, ledger>>
        /\ Goto(w, "readSold")
    BY <1>13 DEF CompleteTickets, At
  <2>2. \A t \in Tickets : /\ tickets'[t].order = tickets[t].order
                           /\ IF tickets[t].order = o THEN tickets'[t].status = "completed"
                                                      ELSE tickets'[t] = tickets[t]
    BY <1>13, <1>o, <1>t DEF CompleteTickets, TypeOK, TicketRow
  <2>3. LinesPaid(o)' /\ TicketsDone(o)'
    BY <1>j, <1>o, <2>1, <2>2 DEF JobSettles, Booking, LinesPaid, LinesOf, Exists, TicketsDone
  <2> DEFINE m == [j EXCEPT !.step = "readSold"]
  <2>4. job' = [job EXCEPT ![w] = m] /\ m.step = "readSold" /\ m.order = o
    BY <1>o, <1>t, <2>1 DEF Goto, Job
  <2> HIDE DEF m
  <2> QED
    BY <1>b, <1>w, <2>1, <2>2, <2>3, <2>4 DEF Booking
<1>14. CASE ReadSold(w)
  <2> DEFINE S == {l \in LinesOf(o) : lines[l].item # NoItem}
             u == UnitsOf(S)
             m == [j EXCEPT !.step = "deductStock", !.units = u]
  <2>1. /\ j.step = "readSold" /\ UNCHANGED <<orders, lines, tickets, paid, sold, ledger>>
        /\ job' = [job EXCEPT ![w].step = "deductStock", ![w].units = u]
    BY <1>14, <1>o DEF ReadSold, At
  <2>2. \A l \in LinesOf(o) : lines[l].item # NoItem => u[l] = lines[l].qty
    BY DEF UnitsOf, LinesOf
  <2> HIDE DEF u
  <2>3. job' = [job EXCEPT ![w] = m] /\ m.step = "deductStock" /\ m.order = o /\ m.units = u
    BY <1>o, <1>t, <2>1 DEF TypeOK, Job
  <2> HIDE DEF m
  <2>4. /\ LinesPaid(o) /\ TicketsDone(o)
        /\ \A l \in LinesOf(o) : sold[l] = 0 /\ lines[l].qty \in Int
    BY <1>j, <1>o, <1>t, <2>1 DEF JobSettles, JobBooks, Booking, LinesOf, TypeOK, LineRow
  <2>5. /\ LinesPaid(o)' /\ TicketsDone(o)'
        /\ \A l \in LinesOf(o)' : lines'[l].item # NoItem => sold'[l] + m.units[l] = lines'[l].qty
    BY <2>1, <2>2, <2>3, <2>4 DEF LinesPaid, TicketsDone, LinesOf, Exists
  <2> QED
    BY <1>b, <1>w, <2>1, <2>3, <2>5 DEF Booking
<1>15. ASSUME NEW l \in Lines, DeductStock(w, l)
       PROVE  Settlement'
  <2>1. /\ j.step = "deductStock" /\ j.units[l] # 0
        /\ UNCHANGED <<orders, lines, tickets, paid, ledger>>
        /\ sold' = [sold EXCEPT ![l] = @ + j.units[l]] /\ job' = [job EXCEPT ![w].units[l] = 0]
    BY <1>15 DEF DeductStock, At
  <2>2. Exists(l) => lines[l].order = o
    BY <1>j, <1>o, <2>1 DEF ReadsHold
  <2>3. \A k \in Lines : /\ sold[k] \in Int /\ j.units[k] \in Int
                         /\ sold'[k] = IF k = l THEN sold[k] + j.units[k] ELSE sold[k]
    BY <1>t, <2>1 DEF TypeOK, Job
  <2> DEFINE m == [j EXCEPT !.units[l] = 0]
  <2>4. /\ job' = [job EXCEPT ![w] = m] /\ m.step = "deductStock" /\ m.order = o
        /\ \A k \in Lines : m.units[k] = IF k = l THEN 0 ELSE j.units[k]
    BY <1>o, <1>t, <2>1 DEF TypeOK, Job
  <2> HIDE DEF m
  <2>5. /\ LinesPaid(o) /\ TicketsDone(o)
        /\ \A k \in LinesOf(o) : lines[k].item # NoItem => sold[k] + j.units[k] = lines[k].qty
    BY <1>j, <1>o, <2>1 DEF JobSettles, Booking
  <2>6. LinesPaid(o)' /\ TicketsDone(o)'
    BY <2>1, <2>5 DEF LinesPaid, TicketsDone, LinesOf, Exists
  <2>7. \A k \in LinesOf(o)' : lines'[k].item # NoItem => sold'[k] + m.units[k] = lines'[k].qty
    BY <2>1, <2>3, <2>4, <2>5 DEF LinesOf, Exists
  <2>8. \A k \in Lines : \/ lines'[k] = lines[k] /\ sold'[k] = sold[k]
                         \/ lines'[k].order = o
                         \/ ~Exists(k)'
    BY <2>1, <2>2, <2>3 DEF Exists
  <2> QED
    BY <1>b, <1>w, <2>1, <2>4, <2>6, <2>7, <2>8 DEF Booking
<1>16. CASE CreditLedger(w)
  <2>1. /\ j.step = "deductStock" /\ UNCHANGED <<orders, lines, tickets, paid, sold>>
        /\ job' = [job EXCEPT ![w] = NoJob] /\ j.units = NoUnits
        /\ ledger' = [ledger EXCEPT ![o] = @ + j.owed]
    BY <1>16, <1>o DEF CreditLedger, At, Done
  <2>2. /\ Closed(o) /\ LinesPaid(o) /\ TicketsDone(o) /\ BalanceDue(o)
        /\ orders[o].total = j.owed /\ ledger[o] = 0 /\ j.owed \in Int
        /\ \A l \in LinesOf(o) : lines[l].item # NoItem => sold[l] + j.units[l] = lines[l].qty
    BY <1>j, <1>o, <1>t, <2>1 DEF JobSettles, JobBooks, ReadsHold, Booking, Job
  <2>3. ledger'[o] = orders[o].total /\ \A p \in Orders \ {o} : ledger'[p] = ledger[p]
    BY <1>t, <2>1, <2>2 DEF TypeOK
  <2>4. StockTaken(o)
    BY <1>t, <2>1, <2>2 DEF StockTaken, NoUnits, TypeOK, LinesOf
  <2>5. SettledUp(o)'
    BY <2>1, <2>2, <2>3, <2>4 DEF SettledUp, Booked, Closed, BalanceDue, LinesPaid, TicketsDone,
                                  StockTaken, LinesOf, Exists
  <2>6. \A p \in Orders \ {o} : Same(p)
    BY <2>1, <2>3, OthersSame
  <2>7. NoJob.step = "idle" /\ NoJob.order = NoOrder /\ NoJob \in Job
    BY NoJobType DEF NoJob
  <2> QED
    BY <1>o, <1>t, <2>1, <2>5, <2>6, <2>7, SettleStep
<1> QED
  BY <1>1, <1>2, <1>3, <1>4, <1>5, <1>6, <1>7, <1>8, <1>9, <1>10, <1>11, <1>12, <1>13, <1>14,
     <1>15, <1>16 DEF Continue

LEMMA SettleInit == Init => Settlement
  BY DEF Init, Settlement, SettledUp, Closed, At, NoJob

LEMMA SettleNext ==
  ASSUME OneWorker, ~StaleScreens, ~Interruptions
  PROVE  IInv /\ Books /\ Settlement /\ [Next]_vars => Settlement'
<1> SUFFICES ASSUME IInv, Books, Settlement, [Next]_vars PROVE Settlement'
  OBVIOUS
<1>1. TypeOK'
  BY IInvStep DEF IInv
<1>2. CASE UNCHANGED vars
  BY <1>2 DEF vars, Settlement, Quiet, SettledUp, JobSettles, Closed, Booked, BalanceDue, LinesPaid,
              TicketsDone, StockTaken, LinesOf, Exists, At
<1> QED
  BY <1>1, <1>2, SettleArrive, SettleContinue DEF Next, Interrupt

\* Requests taken one at a time, none cut off: a closed bill and its books agree in every figure,
\* the revenue credited, the balance, the paid lines, the stock and the tickets (checkout, pay_tab).
THEOREM BooksMatchBillAlone ==
  ASSUME OneWorker, ~StaleScreens, ~Interruptions
  PROVE  Spec => []BooksMatchBill
<1>1. Settlement => BooksMatchBill
  BY DEF Settlement, SettledUp, Booked, BalanceDue, LinesPaid, TicketsDone, StockTaken,
         BooksMatchBill
<1>2. Spec => []Books
  BY BooksAlways
<1>3. Spec => []Settlement
  BY <1>2, IInvInit, IInvStep, SettleInit, SettleNext, PTL DEF Spec
<1> QED
  BY <1>1, <1>3, PTL

-----------------------------------------------------------------------------
(* A bill in step. While requests are on their way to bump a total, it     *)
(* differs from the lines by exactly what they are going to add.           *)

\* What a line contributes to a bill, and a request to its total.
Part(o, l) == IF l \in LinesOf(o) THEN LineTotal(lines[l]) ELSE 0
Bump(j, o) == IF j.step = "bumpTotal" /\ j.order = o THEN j.delta ELSE 0

Pending(o) == SumOver([w \in Workers |-> Bump(job[w], o)], Workers)

InStep(o) == orders[o].total + Pending(o) = BillOf(o)

\* The requests that have a line to themselves.
OnALine == Editing \ {"bumpTotal"}

\* What such a request knows of its line while nobody else edits it.
EditOK(j) ==
    /\ j.step \in OnALine \ {"insertLine"} => j.line \in Lines /\ lines[j.line].status # "none"
    /\ j.step = "insertLine" => j.delta = LineTotal(j.row)
    /\ j.step \in {"deleteLine", "readOrder", "setQuantity", "setDiscount"} =>
          j.line \in LinesOf(j.order)
    /\ j.step = "deleteLine" => j.delta = -LineTotal(lines[j.line])
    /\ j.step = "readOrder" =>
          /\ j.row.price = lines[j.line].price
          /\ j.row.qty = lines[j.line].qty
          /\ j.row.discount = lines[j.line].discount
    /\ j.step = "setQuantity" =>
          j.delta = LineTotal([lines[j.line] EXCEPT !.qty = j.ask]) - LineTotal(lines[j.line])
    /\ j.step = "setDiscount" =>
          j.delta = LineTotal([lines[j.line] EXCEPT !.discount = j.ask]) - LineTotal(lines[j.line])

EditsOK ==
    /\ \A w \in Workers : EditOK(job[w])
    /\ \A v, w \in Workers :
          v # w /\ job[v].step \in OnALine /\ job[w].step \in OnALine => job[v].line # job[w].line

\* The bills that nobody closed, voided or merged.
Unsettled == {"none", "open"}

\* A step that keeps every such bill in step.
KeepsStep ==
    \A o \in Orders : orders'[o].status \in Unsettled =>
        orders[o].status \in Unsettled /\ (InStep(o) => InStep(o)')

\* All of a line that a bill or an editor looks at.
SameLine(l) ==
    /\ lines'[l].status = "none" <=> lines[l].status = "none"
    /\ Exists(l)' <=> Exists(l)
    /\ lines'[l].order = lines[l].order
    /\ lines'[l].price = lines[l].price
    /\ lines'[l].qty = lines[l].qty
    /\ lines'[l].discount = lines[l].discount

\* What a line costs depends on three of its columns.
LEMMA SameTotal ==
  ASSUME NEW r \in LineRow, NEW s \in LineRow,
         r.price = s.price, r.qty = s.qty, r.discount = s.discount
  PROVE  /\ LineTotal(r) = LineTotal(s)
         /\ \A n : LineTotal([r EXCEPT !.qty = n]) = LineTotal([s EXCEPT !.qty = n])
         /\ \A n : LineTotal([r EXCEPT !.discount = n]) = LineTotal([s EXCEPT !.discount = n])
  BY DEF LineTotal, ListTotal, LineRow

LEMMA PartType ==
  ASSUME TypeOK, NEW o, NEW l
  PROVE  Part(o, l) \in Int
<1>1. l \in Lines => LineTotal(lines[l]) \in Int
  BY RowArithmetic DEF TypeOK
<1> QED
  BY <1>1 DEF Part, LinesOf

LEMMA SamePart ==
  ASSUME TypeOK, TypeOK', NEW l \in Lines, SameLine(l), NEW o
  PROVE  Part(o, l)' = Part(o, l)
<1>1. lines[l] \in LineRow /\ lines'[l] \in LineRow
  BY DEF TypeOK
<1>2. LineTotal(lines'[l]) = LineTotal(lines[l])
  BY <1>1, SameTotal DEF SameLine
<1>3. l \in LinesOf(o)' <=> l \in LinesOf(o)
  BY DEF SameLine, LinesOf
<1> QED
  BY <1>2, <1>3 DEF Part

\* A bill adds up the parts of all lines.
LEMMA PartsAddUp ==
  ASSUME IsFiniteSet(Lines), NEW r \in [Lines -> LineRow], NEW T \in SUBSET Lines
  PROVE  SumOver([l \in Lines |-> LineTotal(r[l])], T)
           = SumOver([l \in Lines |-> IF l \in T THEN LineTotal(r[l]) ELSE 0], Lines)
<1> DEFINE g == [l \in Lines |-> LineTotal(r[l])]
<1>1. \A l \in Lines : g[l] \in Int
  BY RowArithmetic
<1>2. [l \in Lines |-> IF l \in T THEN g[l] ELSE 0]
        = [l \in Lines |-> IF l \in T THEN LineTotal(r[l]) ELSE 0]
  OBVIOUS
<1> HIDE DEF g
<1>3. SumOver(g, T) = SumOver([l \in Lines |-> IF l \in T THEN g[l] ELSE 0], Lines)
  BY <1>1, SumOfPart
<1> QED
  BY <1>2, <1>3 DEF g

\* A bill changes by what one line changes.
LEMMA BillChanges ==
  ASSUME IsFiniteSet(Lines), TypeOK, TypeOK', NEW o, NEW k,
         \A l \in Lines \ {k} : Part(o, l)' = Part(o, l)
  PROVE  BillOf(o)' = BillOf(o) + (Part(o, k)' - Part(o, k))
<1> DEFINE g == [l \in Lines |-> Part(o, l)]
           h == [l \in Lines |-> Part(o, l)']
<1>1. BillOf(o) = SumOver(g, Lines)
  <2>1. lines \in [Lines -> LineRow] /\ LinesOf(o) \in SUBSET Lines
    BY DEF TypeOK, LinesOf
  <2> QED
    BY <2>1, PartsAddUp DEF BillOf, Part
<1>2. BillOf(o)' = SumOver(h, Lines)
  <2>1. lines' \in [Lines -> LineRow] /\ LinesOf(o)' \in SUBSET Lines
    BY DEF TypeOK, LinesOf
  <2> QED
    BY <2>1, PartsAddUp DEF BillOf, Part
<1>3. \A l \in Lines : g[l] \in Int /\ h[l] \in Int
  <2>1. \A l \in Lines : LineTotal(lines[l]) \in Int /\ LineTotal(lines'[l]) \in Int
    BY RowArithmetic DEF TypeOK
  <2> QED
    BY <2>1 DEF Part
<1>4. \A l \in Lines \ {k} : g[l] = h[l]
  OBVIOUS
<1>5. CASE k \in Lines
  <2>1. g[k] = Part(o, k) /\ h[k] = Part(o, k)'
    BY <1>5
  <2> HIDE DEF g, h
  <2>2. SumOver(h, Lines) = SumOver(g, Lines) + (h[k] - g[k])
    BY <1>3, <1>4, <1>5, SumChanges
  <2> QED
    BY <1>1, <1>2, <2>1, <2>2
<1>6. CASE k \notin Lines
  <2>1. Part(o, k) = 0 /\ Part(o, k)' = 0
    BY <1>6 DEF Part, LinesOf
  <2> HIDE DEF g, h
  <2>2. SumOver(h, Lines) = SumOver(g, Lines) /\ SumOver(g, Lines) \in Int
    BY <1>3, <1>4, <1>6, SumOfSame, SumIsInt
  <2> QED
    BY <1>1, <1>2, <2>1, <2>2
<1> QED
  BY <1>5, <1>6

\* What is pending changes by what one request changes.
LEMMA PendingChanges ==
  ASSUME IsFiniteSet(Workers), TypeOK, NEW o, NEW w \in Workers, NEW m \in Job,
         job' = [job EXCEPT ![w] = m]
  PROVE  /\ Pending(o) \in Int
         /\ Pending(o)' = Pending(o) + (Bump(m, o) - Bump(job[w], o))
<1> DEFINE g == [v \in Workers |-> Bump(job[v], o)]
           h == [v \in Workers |-> Bump(job'[v], o)]
<1>1. job'[w] = m /\ \A v \in Workers \ {w} : job'[v] = job[v]
  BY DEF TypeOK
<1>2. \A v \in Workers : g[v] \in Int /\ h[v] \in Int
  <2>1. \A j \in Job : Bump(j, o) \in Int
    BY DEF Bump, Job
  <2>2. \A v \in Workers : job[v] \in Job /\ job'[v] \in Job
    BY <1>1 DEF TypeOK
  <2> QED
    BY <2>1, <2>2
<1>3. \A v \in Workers \ {w} : g[v] = h[v]
  BY <1>1
<1>4. g[w] = Bump(job[w], o) /\ h[w] = Bump(m, o)
  BY <1>1
<1>5. Pending(o) = SumOver(g, Workers) /\ Pending(o)' = SumOver(h, Workers)
  BY DEF Pending, Bump
<1> HIDE DEF g, h
<1>6. SumOver(h, Workers) = SumOver(g, Workers) + (h[w] - g[w]) /\ SumOver(g, Workers) \in Int
  BY <1>2, <1>3, SumChanges, SumIsInt
<1> QED
  BY <1>4, <1>5, <1>6

\* An editor whose line stays as it was still knows what it knew.
LEMMA EditKept ==
  ASSUME TypeOK, TypeOK', NEW j \in Job, EditOK(j),
         j.step \in OnALine \ {"insertLine"} => SameLine(j.line)
  PROVE  EditOK(j)'
<1>1. CASE j.step \in OnALine \ {"insertLine"}
  <2>1. j.line \in Lines /\ lines[j.line].status # "none" /\ SameLine(j.line)
    BY <1>1 DEF EditOK
  <2>2. lines[j.line] \in LineRow /\ lines'[j.line] \in LineRow
    BY <2>1 DEF TypeOK
  <2>3. /\ LineTotal(lines'[j.line]) = LineTotal(lines[j.line])
        /\ LineTotal([lines'[j.line] EXCEPT !.qty = j.ask])
             = LineTotal([lines[j.line] EXCEPT !.qty = j.ask])
        /\ LineTotal([lines'[j.line] EXCEPT !.discount = j.ask])
             = LineTotal([lines[j.line] EXCEPT !.discount = j.ask])
    BY <2>1, <2>2, SameTotal DEF SameLine
  <2>4. j.line \in LinesOf(j.order) => j.line \in LinesOf(j.order)'
    BY <2>1 DEF SameLine, LinesOf
  <2> QED
    BY <1>1, <2>1, <2>3, <2>4 DEF EditOK, SameLine
<1>2. CASE j.step \notin OnALine \ {"insertLine"}
  BY <1>2 DEF EditOK, OnALine, Editing
<1> QED
  BY <1>1, <1>2

\* One request does its step, and touches no line but k.
LEMMA EditStep ==
  ASSUME IsFiniteSet(Lines), IsFiniteSet(Workers), TypeOK, TypeOK', EditsOK,
         NEW w \in Workers, NEW m \in Job, job' = [job EXCEPT ![w] = m],
         NEW k, \A l \in Lines \ {k} : SameLine(l),
         \A v \in Workers \ {w} : job[v].step \in OnALine \ {"insertLine"} => job[v].line # k,
         EditOK(m)',
         m.step \in OnALine =>
            \A v \in Workers \ {w} : job[v].step \in OnALine => job[v].line # m.line,
         \A o \in Orders : orders'[o].status \in Unsettled =>
            /\ orders[o].status \in Unsettled
            /\ orders'[o].total + Bump(m, o) - Part(o, k)'
                 = orders[o].total + Bump(job[w], o) - Part(o, k)
  PROVE  EditsOK' /\ KeepsStep
<1>1. job'[w] = m /\ \A v \in Workers \ {w} : job'[v] = job[v]
  BY DEF TypeOK
<1>2. ASSUME NEW v \in Workers PROVE EditOK(job[v])'
  <2>1. CASE v = w
    <3> SUFFICES ASSUME NEW j \in Job, j = job'[v] PROVE EditOK(j)'
      BY DEF TypeOK
    <3> QED
      BY <1>1, <2>1
  <2>2. CASE v # w
    <3> SUFFICES ASSUME NEW j \in Job, j = job[v], j = job'[v] PROVE EditOK(j)'
      BY <1>1, <2>2 DEF TypeOK
    <3>1. EditOK(j) /\ (j.step \in OnALine \ {"insertLine"} => j.line # k)
      BY <2>2 DEF EditsOK
    <3>2. j.step \in OnALine \ {"insertLine"} => SameLine(j.line)
      BY <3>1 DEF EditOK
    <3> QED
      BY <3>1, <3>2, EditKept
  <2> QED
    BY <2>1, <2>2
<1>3. ASSUME NEW u \in Workers, NEW v \in Workers, u # v,
             job'[u].step \in OnALine, job'[v].step \in OnALine
      PROVE  job'[u].line # job'[v].line
  BY <1>1, <1>3 DEF EditsOK
<1>4. ASSUME NEW o \in Orders, orders'[o].status \in Unsettled, InStep(o) PROVE InStep(o)'
  <2>1. \A l \in Lines \ {k} : Part(o, l)' = Part(o, l)
    BY SamePart
  <2>2. BillOf(o)' = BillOf(o) + (Part(o, k)' - Part(o, k))
    BY <2>1, BillChanges
  <2>3. Pending(o)' = Pending(o) + (Bump(m, o) - Bump(job[w], o)) /\ Pending(o) \in Int
    BY PendingChanges
  <2>4. orders'[o].total + Bump(m, o) - Part(o, k)' = orders[o].total + Bump(job[w], o) - Part(o, k)
    BY <1>4
  <2>5. orders[o].total \in Int /\ orders'[o].total \in Int
    BY DEF TypeOK, OrderRow
  <2>6. Part(o, k) \in Int /\ Part(o, k)' \in Int
    <3>1. k \in Lines => LineTotal(lines[k]) \in Int /\ LineTotal(lines'[k]) \in Int
      BY RowArithmetic DEF TypeOK
    <3> QED
      BY <3>1 DEF Part, LinesOf
  <2>7. Bump(m, o) \in Int /\ Bump(job[w], o) \in Int
    BY DEF Bump, TypeOK, Job
  <2>8. orders[o].total + Pending(o) = BillOf(o)
    BY <1>4 DEF InStep
  <2>9. orders'[o].total + Pending(o)' = BillOf(o)'
    BY <2>2, <2>3, <2>4, <2>5, <2>6, <2>7, <2>8
  <2> QED
    BY <2>9 DEF InStep
<1>5. EditsOK'
  BY <1>2, <1>3 DEF EditsOK
<1>6. KeepsStep
  BY <1>4 DEF KeepsStep
<1> QED
  BY <1>5, <1>6

\* A step of a request that is not about lines and totals.
LEMMA PlainEdit ==
  ASSUME IsFiniteSet(Lines), IsFiniteSet(Workers), TypeOK, TypeOK', EditsOK,
         NEW w \in Workers, NEW m \in Job, job' = [job EXCEPT ![w] = m],
         m.step \notin Editing, job[w].step # "bumpTotal",
         \A l \in Lines : SameLine(l),
         \A o \in Orders : orders'[o].status \in Unsettled =>
            orders[o].status \in Unsettled /\ orders'[o].total = orders[o].total
  PROVE  EditsOK' /\ KeepsStep
<1>1. /\ \A v \in Workers : job[v].step \in OnALine \ {"insertLine"} => job[v].line # NoLine
      /\ \A o : Part(o, NoLine) = 0 /\ Part(o, NoLine)' = 0
  BY NullsAssumption DEF EditsOK, EditOK, Part, LinesOf
<1>2. EditOK(m)' /\ m.step \notin OnALine
  BY DEF EditOK, OnALine, Editing
<1>3. \A o : Bump(m, o) = 0 /\ Bump(job[w], o) = 0
  BY DEF Bump, Editing
<1>4. \A o \in Orders : orders[o].total \in Int /\ orders'[o].total \in Int
  BY DEF TypeOK, OrderRow
<1>5. \A o \in Orders : orders'[o].status \in Unsettled =>
         /\ orders[o].status \in Unsettled
         /\ orders'[o].total + Bump(m, o) - Part(o, NoLine)'
              = orders[o].total + Bump(job[w], o) - Part(o, NoLine)
  BY <1>1, <1>3, <1>4
<1> QED
  BY <1>1, <1>2, <1>5, EditStep

\* A request takes a line on: it read it, or nobody else knows it yet.
LEMMA TakesOn ==
  ASSUME IsFiniteSet(Lines), IsFiniteSet(Workers), TypeOK, TypeOK', EditsOK,
         NEW w \in Workers, NEW m \in Job, job' = [job EXCEPT ![w] = m],
         m.step \in OnALine, job[w].step # "bumpTotal", EditOK(m)',
         UNCHANGED <<orders, lines>>,
         \A v \in Workers \ {w} : job[v].step \in OnALine => job[v].line # m.line
  PROVE  EditsOK' /\ KeepsStep
<1>1. /\ \A v \in Workers : job[v].step \in OnALine \ {"insertLine"} => job[v].line # NoLine
      /\ \A o : Part(o, NoLine) = 0 /\ Part(o, NoLine)' = 0
  BY NullsAssumption DEF EditsOK, EditOK, Part, LinesOf
<1>2. \A l \in Lines : SameLine(l)
  BY DEF SameLine, Exists
<1>3. \A o : Bump(m, o) = 0 /\ Bump(job[w], o) = 0
  BY DEF Bump, OnALine
<1>4. \A o \in Orders : orders'[o].status \in Unsettled =>
         /\ orders[o].status \in Unsettled
         /\ orders'[o].total + Bump(m, o) - Part(o, NoLine)'
              = orders[o].total + Bump(job[w], o) - Part(o, NoLine)
  BY <1>1, <1>3 DEF TypeOK, OrderRow
<1> QED
  BY <1>1, <1>2, <1>4, EditStep

LEMMA EditsArrive ==
  ASSUME IsFiniteSet(Lines), IsFiniteSet(Workers), NEW w \in Workers,
         OneEditorPerLine \/ \A v \in Workers \ {w} : At(v, "idle"),
         IInv, TypeOK', EditsOK, Arrive(w)
  PROVE  EditsOK' /\ KeepsStep
<1>0. PICK o \in Orders :
        \/ CreateOrder(w, o) \/ ApplyDiscount(w, o) \/ AttachCustomer(w, o)
        \/ VoidOrder(w, o) \/ Checkout(w, o) \/ PayTab(w, o)
        \/ \E t \in Tickets : SendToKitchen(w, o, t)
        \/ \E l \in Lines :
              \/ AddItem(w, o, l) \/ RemoveItem(w, o, l)
              \/ UpdateItemQuantity(w, o, l) \/ SetItemDiscount(w, o, l)
              \/ UpdateItemStatus(w, o, l)
  BY DEF Arrive
<1>t. /\ TypeOK /\ TypeOK' /\ job[w] \in Job
      /\ \A l \in Lines : lines[l] \in LineRow /\ lines'[l] \in LineRow
  BY DEF IInv, TypeOK
<1>w. ASSUME NEW j, job' = [job EXCEPT ![w] = j] PROVE j \in Job
  BY <1>w, <1>t DEF TypeOK
<1>i. job[w].step = "idle"
  BY <1>0 DEF CreateOrder, ApplyDiscount, AttachCustomer, VoidOrder, Checkout, PayTab,
     SendToKitchen, AddItem, RemoveItem, UpdateItemQuantity, SetItemDiscount, UpdateItemStatus,
     TakesLine, Takes, At
\* Requests that take a line.
<1>l. ASSUME NEW op, NEW l, TakesLine(w, op, o, l)
      PROVE  /\ l \in LinesOf(o) /\ l \in Lines /\ lines[l].status # "none"
             /\ \A v \in Workers \ {w} : job[v].step \in OnALine => job[v].line # l
  BY <1>l DEF TakesLine, LinesOf, Exists, At, OnALine, Editing
<1>e. ASSUME NEW op, NEW l, TakesLine(w, op, o, l), UNCHANGED <<orders, lines>>,
             NEW j \in Job, job' = [job EXCEPT ![w] = j], j.step \in OnALine, j.line = l,
             EditOK(j)'
      PROVE  EditsOK' /\ KeepsStep
  <2>1. \A v \in Workers \ {w} : job[v].step \in OnALine => job[v].line # j.line
    BY <1>e, <1>l
  <2> QED
    BY <1>e, <1>t, <1>i, <2>1, TakesOn
\* Requests of one statement.
<1>s. ASSUME UNCHANGED job, \A l \in Lines : SameLine(l),
             \A p \in Orders : orders'[p].status \in Unsettled =>
                orders[p].status \in Unsettled /\ orders'[p].total = orders[p].total
      PROVE  EditsOK' /\ KeepsStep
  <2>1. job' = [job EXCEPT ![w] = job[w]] /\ job[w].step \notin Editing
    BY <1>s, <1>t, <1>i DEF TypeOK, Editing
  <2> QED
    BY <1>s, <1>t, <1>i, <2>1, PlainEdit
\* Requests that go on without touching lines.
<1>b. ASSUME NEW j \in Job, job' = [job EXCEPT ![w] = j], j.step \notin Editing,
             UNCHANGED lines,
             \A p \in Orders : orders'[p].status \in Unsettled =>
                orders[p].status \in Unsettled /\ orders'[p].total = orders[p].total
      PROVE  EditsOK' /\ KeepsStep
  <2>1. \A l \in Lines : SameLine(l)
    BY <1>b DEF SameLine, Exists
  <2> QED
    BY <1>b, <1>t, <1>i, <2>1, PlainEdit
<1>1. CASE CreateOrder(w, o) \/ ApplyDiscount(w, o) \/ AttachCustomer(w, o)
  <2>1. /\ UNCHANGED <<lines, job>>
        /\ \A p \in Orders : orders'[p].status \in Unsettled =>
             orders[p].status \in Unsettled /\ orders'[p].total = orders[p].total
    BY <1>1, <1>t DEF CreateOrder, ApplyDiscount, AttachCustomer, TypeOK, OrderRow, Unsettled
  <2>2. \A l \in Lines : SameLine(l)
    BY <2>1 DEF SameLine, Exists
  <2> QED
    BY <1>s, <2>1, <2>2
<1>2. CASE VoidOrder(w, o)
  <2> DEFINE j == Begin("void", "revertRooms", o)
  <2>1. job' = [job EXCEPT ![w] = j] /\ j \in Job /\ UNCHANGED lines
    BY <1>2, <1>w DEF VoidOrder
  <2>2. j.step \notin Editing
    BY DEF Begin, NoJob, Editing
  <2>3. \A p \in Orders : orders'[p].status \in Unsettled =>
           orders[p].status \in Unsettled /\ orders'[p].total = orders[p].total
    BY <1>2, <1>t DEF VoidOrder, TypeOK, OrderRow, Unsettled
  <2> HIDE DEF j
  <2> QED
    BY <1>b, <2>1, <2>2, <2>3
<1>3. CASE Checkout(w, o)
  <2>1. UNCHANGED <<orders, lines>>
    BY <1>3 DEF Checkout
  <2>2. PICK p \in Payments, mayOwe \in BOOLEAN, owed \in Int,
             step \in {"insertPayments", "readCosts"} :
          job' = [job EXCEPT ![w] = CheckoutJob(o, step, owed, p, mayOwe)]
    <3>1. \A d \in Discounts : orders[o].total - orders[o].discount - d \in Int
      BY <1>t, AmountsAssumption DEF TypeOK, OrderRow
    <3> QED
      BY <1>3, <3>1 DEF Checkout
  <2> DEFINE j == CheckoutJob(o, step, owed, p, mayOwe)
  <2>3. job' = [job EXCEPT ![w] = j] /\ j \in Job /\ j.step \notin Editing
    BY <1>w, <2>2 DEF CheckoutJob, Begin, NoJob, Editing
  <2> HIDE DEF j
  <2> QED
    BY <1>b, <2>1, <2>3
<1>4. CASE PayTab(w, o)
  <2>1. UNCHANGED <<orders, lines>>
    BY <1>4 DEF PayTab
  <2>2. PICK p \in Payments \ {0} :
          job' = [job EXCEPT ![w] = [Begin("payTab", "insertPayments", o) EXCEPT
                                       !.owed = orders[o].balance, !.paying = p, !.paid = p]]
    BY <1>4 DEF PayTab
  <2> DEFINE j == [Begin("payTab", "insertPayments", o) EXCEPT
                     !.owed = orders[o].balance, !.paying = p, !.paid = p]
  <2>3. job' = [job EXCEPT ![w] = j] /\ j \in Job /\ j.step \notin Editing
    BY <1>w, <2>2 DEF Begin, NoJob, Editing
  <2> HIDE DEF j
  <2> QED
    BY <1>b, <2>1, <2>3
<1>5. ASSUME NEW t \in Tickets, SendToKitchen(w, o, t)
      PROVE  EditsOK' /\ KeepsStep
  <2> DEFINE j == [Begin("send", "insertTicket", o) EXCEPT !.ticket = t,
                     !.units = UnitsOf({l \in LinesOf(o) : lines[l].status = "new"})]
  <2>1. job' = [job EXCEPT ![w] = j] /\ UNCHANGED <<orders, lines>>
    BY <1>5 DEF SendToKitchen
  <2>2. j \in Job /\ j.step \notin Editing
    BY <1>w, <2>1 DEF Begin, NoJob, Editing
  <2> HIDE DEF j
  <2> QED
    BY <1>b, <2>1, <2>2
<1>6. ASSUME NEW l \in Lines, AddItem(w, o, l)
      PROVE  EditsOK' /\ KeepsStep
  <2>1. PICK i \in Items \cup {NoItem}, q \in Quantities, p \in Prices :
          job' = [job EXCEPT ![w] =
               [Begin("add", "insertLine", o) EXCEPT
                  !.line = l, !.delta = p * q,
                  !.row = [status |-> "new", order |-> o, item |-> i,
                           qty |-> q, price |-> p, discount |-> 0]]]
    BY <1>6 DEF AddItem
  <2> DEFINE row == [status |-> "new", order |-> o, item |-> i,
                     qty |-> q, price |-> p, discount |-> 0]
             j == [Begin("add", "insertLine", o) EXCEPT !.line = l, !.delta = p * q, !.row = row]
  <2>2. LineTotal(row) = p * q
    <3>1. p * q \in Int
      BY AmountsAssumption, Product
    <3> QED
      BY <3>1 DEF LineTotal, ListTotal
  <2> HIDE DEF row
  <2>3. j.step = "insertLine" /\ j.line = l /\ j.delta = p * q /\ j.row = row
    BY DEF Begin, NoJob
  <2>4. job' = [job EXCEPT ![w] = j] /\ j \in Job /\ UNCHANGED <<orders, lines>>
    BY <1>6, <1>w, <2>1 DEF AddItem, row
  <2> HIDE DEF j
  <2>5. EditOK(j)'
    BY <2>2, <2>3 DEF EditOK
  <2>6. \A v \in Workers \ {w} : job[v].step \in OnALine => job[v].line # l
    <3> SUFFICES ASSUME NEW v \in Workers \ {w}, job[v].step \in OnALine, job[v].line = l
                 PROVE  FALSE
      OBVIOUS
    <3>1. lines[l].status = "none" /\ (job[v].op = "add" => job[v].line # l)
      BY <1>6 DEF AddItem
    <3>2. job[v].step = "insertLine" => job[v].op = "add"
      BY DEF IInv, ReadsStayTrue, ReadsHold, At
    <3>3. job[v].step # "insertLine" => lines[job[v].line].status # "none"
      BY DEF EditsOK, EditOK
    <3> QED
      BY <3>1, <3>2, <3>3
  <2> QED
    BY <1>t, <1>i, <2>3, <2>4, <2>5, <2>6, TakesOn DEF OnALine, Editing
<1>7. ASSUME NEW l \in Lines, RemoveItem(w, o, l)
      PROVE  EditsOK' /\ KeepsStep
  <2>1. TakesLine(w, "remove", o, l) /\ UNCHANGED <<orders, lines>>
    BY <1>7 DEF RemoveItem
  <2> DEFINE row == lines[l]
             j == [Begin("remove", "deleteLine", o) EXCEPT !.step = "deleteLine", !.line = l,
                     !.row = row, !.delta = -LineTotal(row)]
  <2>2. job' = [job EXCEPT ![w] = j] /\ j \in Job
    BY <1>7, <1>w DEF RemoveItem, ReadToRemove
  <2> HIDE DEF row
  <2>3. j.step = "deleteLine" /\ j.order = o /\ j.line = l /\ j.delta = -LineTotal(row)
    BY DEF Begin, NoJob
  <2> HIDE DEF j
  <2>4. PICK n \in Job : n = j
    BY <2>2
  <2>5. EditOK(n)'
    BY <1>l, <2>1, <2>3, <2>4 DEF EditOK, LinesOf, Exists, row
  <2> QED
    BY <1>e, <2>1, <2>2, <2>3, <2>4, <2>5 DEF OnALine, Editing
<1>8. ASSUME NEW l \in Lines, UpdateItemQuantity(w, o, l)
      PROVE  EditsOK' /\ KeepsStep
  <2>1. TakesLine(w, "quantity", o, l) /\ UNCHANGED <<orders, lines>>
    BY <1>8 DEF UpdateItemQuantity
  <2>2. PICK q \in Quantities :
          job' = [job EXCEPT ![w] = [Begin("quantity", "readOrder", o) EXCEPT
                                       !.line = l, !.row = lines[l], !.ask = q]]
    BY <1>8 DEF UpdateItemQuantity
  <2> DEFINE j == [Begin("quantity", "readOrder", o) EXCEPT !.line = l, !.row = lines[l], !.ask = q]
  <2>3. job' = [job EXCEPT ![w] = j] /\ j \in Job
    BY <1>w, <2>2
  <2>4. j.step = "readOrder" /\ j.order = o /\ j.line = l /\ j.row = lines[l]
    BY DEF Begin, NoJob
  <2> HIDE DEF j
  <2>5. PICK n \in Job : n = j
    BY <2>3
  <2>6. EditOK(n)'
    BY <1>l, <2>1, <2>4, <2>5 DEF EditOK, LinesOf, Exists
  <2> QED
    BY <1>e, <2>1, <2>3, <2>4, <2>5, <2>6 DEF OnALine, Editing
<1>9. ASSUME NEW l \in Lines, SetItemDiscount(w, o, l)
      PROVE  EditsOK' /\ KeepsStep
  <2>1. TakesLine(w, "lineDiscount", o, l) /\ UNCHANGED <<orders, lines>>
    BY <1>9 DEF SetItemDiscount
  <2>2. PICK d \in Discounts :
          job' = [job EXCEPT ![w] = [Begin("lineDiscount", "readLine", o) EXCEPT
                                       !.line = l, !.ask = d]]
    BY <1>9 DEF SetItemDiscount
  <2> DEFINE j == [Begin("lineDiscount", "readLine", o) EXCEPT !.line = l, !.ask = d]
  <2>3. job' = [job EXCEPT ![w] = j] /\ j \in Job
    BY <1>w, <2>2
  <2>4. j.step = "readLine" /\ j.line = l
    BY DEF Begin, NoJob
  <2> HIDE DEF j
  <2>5. EditOK(j)'
    BY <1>l, <2>1, <2>4 DEF EditOK
  <2> QED
    BY <1>e, <2>1, <2>3, <2>4, <2>5 DEF OnALine, Editing
<1>10. ASSUME NEW l \in Lines, UpdateItemStatus(w, o, l)
       PROVE  EditsOK' /\ KeepsStep
  <2>1. UNCHANGED <<orders, job>> /\ Exists(l)
    BY <1>10 DEF UpdateItemStatus, TakesLine, LinesOf
  <2>2. \A k \in Lines : SameLine(k)
    BY <1>10, <1>t, <2>1, StatusesAssumption DEF UpdateItemStatus, TypeOK, LineRow, Exists, SameLine
  <2> QED
    BY <1>s, <2>1, <2>2
<1> QED
  BY <1>0, <1>1, <1>2, <1>3, <1>4, <1>5, <1>6, <1>7, <1>8, <1>9, <1>10

LEMMA EditsContinue ==
  ASSUME IsFiniteSet(Lines), IsFiniteSet(Workers), NEW w \in Workers,
         IInv, TypeOK', EditsOK, Continue(w)
  PROVE  EditsOK' /\ KeepsStep
<1> DEFINE j == job[w]
           o == job[w].order
<1>t. /\ TypeOK /\ TypeOK' /\ j \in Job
      /\ \A l \in Lines : lines[l] \in LineRow /\ lines'[l] \in LineRow
      /\ \A p \in Orders : orders[p] \in OrderRow /\ orders'[p] \in OrderRow
  BY DEF IInv, TypeOK
<1>w. ASSUME NEW k, job' = [job EXCEPT ![w] = k] PROVE k \in Job
  BY <1>w, <1>t DEF TypeOK
<1>j. EditOK(j) /\ (j.step # "idle" => ReadsHold(j))
  BY DEF EditsOK, IInv, ReadsStayTrue, At
<1>u. \A v \in Workers \ {w} :
         /\ job[v].step \in OnALine \ {"insertLine"} => lines[job[v].line].status # "none"
         /\ job[v].step \in OnALine /\ j.step \in OnALine => job[v].line # j.line
  BY DEF EditsOK, EditOK
\* Statements that change no figure.
<1>p. ASSUME NEW m, job' = [job EXCEPT ![w] = m], m.step \notin Editing, j.step # "bumpTotal",
             \A l \in Lines : SameLine(l),
             \A p \in Orders : orders'[p].status \in Unsettled =>
                orders[p].status \in Unsettled /\ orders'[p].total = orders[p].total
      PROVE  EditsOK' /\ KeepsStep
  BY <1>p, <1>t, <1>w, PlainEdit
<1>s. UNCHANGED lines => \A l \in Lines : SameLine(l)
  BY DEF SameLine, Exists
<1>d. ASSUME Done(w), j.step # "bumpTotal", \A l \in Lines : SameLine(l), UNCHANGED orders
      PROVE  EditsOK' /\ KeepsStep
  <2>1. NoJob.step \notin Editing
    BY DEF NoJob, Editing
  <2> QED
    BY <1>d, <1>p, <2>1 DEF Done
<1>g. ASSUME NEW step, Goto(w, step), step \notin Editing, j.step # "bumpTotal",
             \A l \in Lines : SameLine(l),
             \A p \in Orders : orders'[p].status \in Unsettled =>
                orders[p].status \in Unsettled /\ orders'[p].total = orders[p].total
      PROVE  EditsOK' /\ KeepsStep
  <2> DEFINE m == [j EXCEPT !.step = step]
  <2>1. job' = [job EXCEPT ![w] = m] /\ m.step = step
    BY <1>g, <1>t DEF Goto, Job
  <2> HIDE DEF m
  <2> QED
    BY <1>g, <1>p, <2>1
\* Reads that keep the request on its line.
<1>r. ASSUME NEW m \in Job, job' = [job EXCEPT ![w] = m], m.step \in OnALine,
             m.line = j.line, j.step \in OnALine, EditOK(m)', UNCHANGED <<orders, lines>>
      PROVE  EditsOK' /\ KeepsStep
  <2>1. \A v \in Workers \ {w} : job[v].step \in OnALine => job[v].line # m.line
    BY <1>r, <1>u
  <2> QED
    BY <1>r, <1>t, <2>1, TakesOn DEF OnALine
\* Statements that write the line of the request.
<1>k. ASSUME NEW l \in Lines, l = j.line, j.step \in OnALine, Goto(w, "bumpTotal"),
             UNCHANGED orders, \A i \in Lines \ {l} : lines'[i] = lines[i],
             \A p \in Orders : Part(p, l)' = Part(p, l) + (IF p = o THEN j.delta ELSE 0)
      PROVE  EditsOK' /\ KeepsStep
  <2> DEFINE m == [j EXCEPT !.step = "bumpTotal"]
  <2>1. /\ job' = [job EXCEPT ![w] = m] /\ m \in Job
        /\ m.step = "bumpTotal" /\ m.order = o /\ m.delta = j.delta
    BY <1>k, <1>t, <1>w DEF Goto, Job
  <2>2. PICK n \in Job : n = m
    BY <2>1
  <2> HIDE DEF m
  <2>3. EditOK(n)' /\ n.step \notin OnALine
    BY <2>1, <2>2 DEF EditOK, OnALine, Editing
  <2>4. \A i \in Lines \ {l} : SameLine(i)
    BY <1>k DEF SameLine, Exists
  <2>5. \A v \in Workers \ {w} : job[v].step \in OnALine \ {"insertLine"} => job[v].line # l
    BY <1>k, <1>u
  <2>6. \A p \in Orders : /\ Bump(j, p) = 0
                          /\ Bump(n, p) = IF p = o THEN j.delta ELSE 0
    BY <1>k, <2>1, <2>2 DEF Bump, OnALine
  <2>7. j.delta \in Int /\ \A p \in Orders : Part(p, l) \in Int /\ orders[p].total \in Int
    BY <1>t, PartType DEF Job, OrderRow
  <2>8. \A p \in Orders : orders'[p].status \in Unsettled =>
           /\ orders[p].status \in Unsettled
           /\ orders'[p].total + Bump(n, p) - Part(p, l)'
                = orders[p].total + Bump(j, p) - Part(p, l)
    BY <1>k, <2>6, <2>7
  <2> QED
    BY <1>t, <2>1, <2>2, <2>3, <2>4, <2>5, <2>8, EditStep
<1>1. CASE BumpTotal(w)
  <2>1. /\ j.step = "bumpTotal" /\ UNCHANGED lines
        /\ orders' = [orders EXCEPT ![o].total = @ + j.delta]
    BY <1>1 DEF BumpTotal, At
  <2>2. PICK m \in Job : job' = [job EXCEPT ![w] = m] /\ m.step \notin Editing
    <3>1. CASE Done(w)
      BY <3>1, NoJobType DEF Done, NoJob, Editing
    <3>2. CASE Goto(w, "checkIn")
      <4> DEFINE m == [j EXCEPT !.step = "checkIn"]
      <4>1. job' = [job EXCEPT ![w] = m] /\ m \in Job /\ m.step = "checkIn"
        BY <3>2, <1>t, <1>w DEF Goto, Job
      <4> HIDE DEF m
      <4> QED
        BY <4>1 DEF Editing
    <3> QED
      BY <1>1, <3>1, <3>2 DEF BumpTotal
  <2>3. EditOK(m)' /\ m.step \notin OnALine /\ \A p : Bump(m, p) = 0
    BY <2>2 DEF EditOK, OnALine, Editing, Bump
  <2>4. \A v \in Workers : job[v].step \in OnALine \ {"insertLine"} => job[v].line # NoLine
    BY NullsAssumption DEF EditsOK, EditOK
  <2>5. \A p : Part(p, NoLine) = 0 /\ Part(p, NoLine)' = 0
    BY NullsAssumption DEF Part, LinesOf
  <2>6. ASSUME NEW p \in Orders
        PROVE  /\ orders'[p].status = orders[p].status
               /\ orders'[p].total = orders[p].total + Bump(j, p)
    <3>1. CASE p = o
      <4>1. PICK d \in Int : d = j.delta
        BY <1>t DEF Job
      <4>2. orders' = [orders EXCEPT ![p].total = @ + d]
        BY <2>1, <3>1, <4>1
      <4>3. orders'[p] = [orders[p] EXCEPT !.total = @ + d]
        BY <1>t, <4>2 DEF TypeOK
      <4>4. orders'[p].status = orders[p].status /\ orders'[p].total = orders[p].total + d
        BY <1>t, <4>3 DEF OrderRow
      <4> QED
        BY <2>1, <3>1, <4>1, <4>4 DEF Bump
    <3>2. CASE p # o
      <4>1. orders'[p] = orders[p] /\ Bump(j, p) = 0 /\ orders[p].total \in Int
        BY <1>t, <2>1, <3>2 DEF Bump, TypeOK, OrderRow
      <4> QED
        BY <4>1
    <3> QED
      BY <3>1, <3>2
  <2>7. \A p \in Orders : /\ orders[p].total \in Int /\ orders'[p].total \in Int
                          /\ Bump(j, p) \in Int
    BY <1>t DEF OrderRow, Bump, Job
  <2>8. \A p \in Orders : orders'[p].status \in Unsettled =>
           /\ orders[p].status \in Unsettled
           /\ orders'[p].total + Bump(m, p) - Part(p, NoLine)'
                = orders[p].total + Bump(j, p) - Part(p, NoLine)
    BY <2>3, <2>5, <2>6, <2>7
  <2> QED
    BY <1>s, <1>t, <2>1, <2>2, <2>3, <2>4, <2>8, EditStep
<1>2. CASE InsertLine(w)
  <2>1. /\ j.step = "insertLine" /\ lines' = [lines EXCEPT ![j.line] = j.row]
        /\ Goto(w, "bumpTotal") /\ UNCHANGED orders
    BY <1>2 DEF InsertLine, At
  <2>2. /\ j.line \in Lines /\ lines[j.line].status = "none" /\ j.row.status = "new"
        /\ j.row.order = o /\ j.delta = LineTotal(j.row)
    BY <2>1, <1>j DEF ReadsHold, EditOK
  <2>3. lines'[j.line] = j.row /\ \A l \in Lines \ {j.line} : lines'[l] = lines[l]
    BY <1>t, <2>1, <2>2 DEF TypeOK
  <2>4. j.delta \in Int
    BY <1>t DEF Job
  <2>5. PICK l \in Lines : l = j.line
    BY <2>2
  <2>6. \A p \in Orders : Part(p, l)' = Part(p, l) + (IF p = o THEN j.delta ELSE 0)
    BY <2>2, <2>3, <2>4, <2>5 DEF Part, LinesOf, Exists
  <2> QED
    BY <1>k, <2>1, <2>3, <2>5, <2>6 DEF OnALine, Editing
<1>3. CASE DeleteLine(w)
  <2>1. /\ j.step = "deleteLine" /\ UNCHANGED orders
        /\ j.line \in LinesOf(o) /\ j.delta = -LineTotal(lines[j.line])
    BY <1>3, <1>j DEF DeleteLine, At, EditOK
  <2>2. CASE OnTicket(j.line)
    BY <1>3, <1>d, <1>s, <2>1, <2>2 DEF DeleteLine
  <2>3. CASE ~OnTicket(j.line)
    <3>1. PICK l \in Lines : l = j.line
      BY <2>1 DEF LinesOf
    <3>2. lines' = [lines EXCEPT ![l] = [NoRow EXCEPT !.status = "deleted"]] /\ Goto(w, "bumpTotal")
      BY <1>3, <2>3, <3>1 DEF DeleteLine
    <3>3. lines'[l].status = "deleted" /\ \A i \in Lines \ {l} : lines'[i] = lines[i]
      BY <1>t, <3>2 DEF TypeOK, NoRow
    <3>4. LineTotal(lines[l]) \in Int
      BY <1>t, RowArithmetic
    <3>5. \A p \in Orders : Part(p, l)' = Part(p, l) + (IF p = o THEN j.delta ELSE 0)
      BY <2>1, <3>1, <3>3, <3>4 DEF Part, LinesOf, Exists
    <3> QED
      BY <1>k, <2>1, <3>1, <3>2, <3>3, <3>5 DEF OnALine, Editing
  <2> QED
    BY <2>2, <2>3
<1>4. CASE SetQuantity(w)
  <2>1. /\ j.step = "setQuantity" /\ UNCHANGED orders /\ Goto(w, "bumpTotal")
        /\ j.line \in LinesOf(o)
        /\ j.delta = LineTotal([lines[j.line] EXCEPT !.qty = j.ask]) - LineTotal(lines[j.line])
    BY <1>4, <1>j DEF SetQuantity, At, EditOK
  <2>2. PICK l \in Lines : l = j.line
    BY <2>1 DEF LinesOf
  <2>3. lines' = [lines EXCEPT ![l] = [lines[l] EXCEPT !.qty = j.ask]]
    BY <1>4, <2>1, <2>2 DEF SetQuantity, LinesOf
  <2>4. /\ lines'[l] = [lines[l] EXCEPT !.qty = j.ask]
        /\ \A i \in Lines \ {l} : lines'[i] = lines[i]
    BY <1>t, <2>3 DEF TypeOK
  <2>5. /\ Exists(l) /\ Exists(l)' /\ lines[l].order = o /\ lines'[l].order = o
        /\ LineTotal(lines'[l]) = LineTotal(lines[l]) + j.delta
    <3>1. LineTotal(lines[l]) \in Int /\ LineTotal(lines'[l]) \in Int
      BY <1>t, RowArithmetic
    <3>2. LineTotal(lines'[l]) = LineTotal(lines[l]) + j.delta
      BY <2>1, <2>2, <2>4, <3>1
    <3> QED
      BY <1>t, <2>1, <2>2, <2>4, <3>2 DEF LinesOf, Exists, LineRow
  <2>6. LineTotal(lines[l]) \in Int /\ LineTotal(lines'[l]) \in Int
    BY <1>t, RowArithmetic
  <2>7. \A p \in Orders : Part(p, l)' = Part(p, l) + (IF p = o THEN j.delta ELSE 0)
    BY <2>5, <2>6 DEF Part, LinesOf
  <2> QED
    BY <1>k, <2>1, <2>2, <2>4, <2>7 DEF OnALine, Editing
<1>5. CASE SetDiscount(w)
  <2>1. /\ j.step = "setDiscount" /\ UNCHANGED orders /\ Goto(w, "bumpTotal")
        /\ j.line \in LinesOf(o)
        /\ j.delta = LineTotal([lines[j.line] EXCEPT !.discount = j.ask]) - LineTotal(lines[j.line])
    BY <1>5, <1>j DEF SetDiscount, At, EditOK
  <2>2. PICK l \in Lines : l = j.line
    BY <2>1 DEF LinesOf
  <2>3. lines' = [lines EXCEPT ![l] = [lines[l] EXCEPT !.discount = j.ask]]
    BY <1>5, <2>1, <2>2 DEF SetDiscount, LinesOf
  <2>4. /\ lines'[l] = [lines[l] EXCEPT !.discount = j.ask]
        /\ \A i \in Lines \ {l} : lines'[i] = lines[i]
    BY <1>t, <2>3 DEF TypeOK
  <2>5. /\ Exists(l) /\ Exists(l)' /\ lines[l].order = o /\ lines'[l].order = o
        /\ LineTotal(lines'[l]) = LineTotal(lines[l]) + j.delta
    <3>1. LineTotal(lines[l]) \in Int /\ LineTotal(lines'[l]) \in Int
      BY <1>t, RowArithmetic
    <3>2. LineTotal(lines'[l]) = LineTotal(lines[l]) + j.delta
      BY <2>1, <2>2, <2>4, <3>1
    <3> QED
      BY <1>t, <2>1, <2>2, <2>4, <3>2 DEF LinesOf, Exists, LineRow
  <2>6. LineTotal(lines[l]) \in Int /\ LineTotal(lines'[l]) \in Int
    BY <1>t, RowArithmetic
  <2>7. \A p \in Orders : Part(p, l)' = Part(p, l) + (IF p = o THEN j.delta ELSE 0)
    BY <2>5, <2>6 DEF Part, LinesOf
  <2> QED
    BY <1>k, <2>1, <2>2, <2>4, <2>7 DEF OnALine, Editing
<1>6. CASE CheckIn(w) \/ RevertRooms(w)
  BY <1>6, <1>d, <1>s DEF CheckIn, RevertRooms, At
<1>7. CASE RereadLine(w)
  <2>1. j.step = "rereadLine" /\ UNCHANGED <<orders, lines>>
    BY <1>7 DEF RereadLine, At
  <2>2. CASE j.line \in LinesOf(o)
    <3> DEFINE m == [j EXCEPT !.step = "deleteLine", !.line = j.line, !.row = lines[j.line],
                              !.delta = -LineTotal(lines[j.line])]
    <3>1. job' = [job EXCEPT ![w] = m]
      BY <1>7, <2>2 DEF RereadLine, ReadToRemove
    <3>2. m \in Job
      BY <1>w, <3>1
    <3>3. PICK n \in Job : n = m
      BY <3>2
    <3>4. PICK l \in Lines : l = j.line
      BY <2>2 DEF LinesOf
    <3>5. /\ n.step = "deleteLine" /\ n.line = l /\ n.order = o
          /\ n.delta = -LineTotal(lines[l])
      BY <1>t, <3>3, <3>4 DEF Job
    <3> HIDE DEF m
    <3>6. EditOK(n)'
      BY <2>1, <2>2, <3>4, <3>5 DEF EditOK, LinesOf, Exists
    <3> QED
      BY <1>r, <2>1, <3>1, <3>3, <3>4, <3>5, <3>6 DEF OnALine, Editing
  <2>3. CASE j.line \notin LinesOf(o)
    BY <1>7, <1>d, <1>s, <2>1, <2>3 DEF RereadLine
  <2> QED
    BY <2>2, <2>3
<1>8. CASE ReadOrder(w)
  <2>1. j.step = "readOrder" /\ UNCHANGED <<orders, lines>>
    BY <1>8 DEF ReadOrder, At
  <2>2. PICK l \in Lines : l = j.line /\ lines[l].status # "none" /\ l \in LinesOf(o)
    BY <1>j, <2>1 DEF EditOK, OnALine, Editing
  <2>3. CASE Done(w)
    BY <1>d, <1>s, <2>1, <2>3
  <2>4. CASE Goto(w, "rereadLine")
    <3> DEFINE m == [j EXCEPT !.step = "rereadLine"]
    <3>1. job' = [job EXCEPT ![w] = m] /\ m \in Job
      BY <1>w, <2>4 DEF Goto
    <3>2. PICK n \in Job : n = m
      BY <3>1
    <3>3. n.step = "rereadLine" /\ n.line = l
      BY <1>t, <2>2, <3>2 DEF Job
    <3> HIDE DEF m
    <3>4. EditOK(n)'
      BY <2>1, <2>2, <3>3 DEF EditOK
    <3> QED
      BY <1>r, <2>1, <2>2, <3>1, <3>2, <3>3, <3>4 DEF OnALine, Editing
  <2>5. CASE job' = [job EXCEPT ![w].step = "setQuantity",
                       ![w].delta = LineTotal([j.row EXCEPT !.qty = j.ask]) - LineTotal(j.row)]
    <3> DEFINE m == [j EXCEPT !.step = "setQuantity",
                       !.delta = LineTotal([j.row EXCEPT !.qty = j.ask]) - LineTotal(j.row)]
    <3>1. job' = [job EXCEPT ![w] = m]
      BY <1>t, <2>5 DEF TypeOK
    <3>2. m \in Job
      BY <1>w, <3>1
    <3>3. PICK n \in Job : n = m
      BY <3>2
    <3>4. /\ n.step = "setQuantity" /\ n.line = l /\ n.order = o /\ n.ask = j.ask
          /\ n.delta = LineTotal([j.row EXCEPT !.qty = j.ask]) - LineTotal(j.row)
      BY <1>t, <2>2, <3>3 DEF Job
    <3> HIDE DEF m
    <3>5. /\ j.row.price = lines[l].price /\ j.row.qty = lines[l].qty
          /\ j.row.discount = lines[l].discount /\ j.row \in LineRow
      BY <1>j, <1>t, <2>1, <2>2 DEF EditOK, Job
    <3>6. n.delta = LineTotal([lines[l] EXCEPT !.qty = n.ask]) - LineTotal(lines[l])
      <4>1. /\ LineTotal(j.row) = LineTotal(lines[l])
            /\ \A a : LineTotal([j.row EXCEPT !.qty = a]) = LineTotal([lines[l] EXCEPT !.qty = a])
        <5> SUFFICES ASSUME NEW r \in LineRow, NEW q \in LineRow,
                            r.price = q.price, r.qty = q.qty, r.discount = q.discount
                     PROVE  /\ LineTotal(r) = LineTotal(q)
                            /\ \A a : LineTotal([r EXCEPT !.qty = a])
                                      = LineTotal([q EXCEPT !.qty = a])
          BY <1>t, <3>5
        <5> QED
          BY SameTotal
      <4> QED
        BY <3>4, <4>1
    <3>7. EditOK(n)'
      BY <2>1, <2>2, <3>4, <3>6 DEF EditOK, LinesOf, Exists
    <3> QED
      BY <1>r, <2>1, <2>2, <3>1, <3>3, <3>4, <3>7 DEF OnALine, Editing
  <2> QED
    BY <1>8, <2>3, <2>4, <2>5 DEF ReadOrder
<1>9. CASE ReadLine(w)
  <2>1. j.step = "readLine" /\ UNCHANGED <<orders, lines>>
    BY <1>9 DEF ReadLine, At
  <2>2. CASE j.line \notin LinesOf(o)
    BY <1>9, <1>d, <1>s, <2>1, <2>2 DEF ReadLine
  <2>3. CASE j.line \in LinesOf(o)
    <3>1. PICK l \in Lines : l = j.line /\ l \in LinesOf(o)
      BY <2>3 DEF LinesOf
    <3> DEFINE a == Clamped(j.ask, lines[l])
               m == [j EXCEPT !.step = "setDiscount", !.row = lines[l], !.ask = a,
                              !.delta = lines[l].discount - a]
    <3>2. job' = [job EXCEPT ![w] = m]
      BY <1>9, <1>t, <2>3, <3>1 DEF ReadLine, TypeOK
    <3>3. m \in Job
      BY <1>w, <3>2
    <3>4. PICK n \in Job : n = m
      BY <3>3
    <3>5. /\ n.step = "setDiscount" /\ n.line = l /\ n.order = o /\ n.ask = a
          /\ n.delta = lines[l].discount - a
      BY <1>t, <3>1, <3>4 DEF Job
    <3> HIDE DEF m
    <3>6. n.delta = LineTotal([lines[l] EXCEPT !.discount = n.ask]) - LineTotal(lines[l])
      <4>1. n.ask \in Int /\ lines[l].discount \in Int /\ ListTotal(lines[l]) \in Int
        BY <1>t, RowArithmetic DEF Job, LineRow
      <4>2. /\ LineTotal([lines[l] EXCEPT !.discount = n.ask]) = ListTotal(lines[l]) - n.ask
            /\ LineTotal(lines[l]) = ListTotal(lines[l]) - lines[l].discount
        BY <1>t DEF LineTotal, ListTotal, LineRow
      <4> HIDE DEF a
      <4> QED
        BY <3>5, <4>1, <4>2
    <3>7. EditOK(n)'
      BY <2>1, <3>1, <3>5, <3>6 DEF EditOK, LinesOf, Exists
    <3> QED
      BY <1>r, <2>1, <3>1, <3>2, <3>4, <3>5, <3>7 DEF OnALine, Editing
  <2> QED
    BY <2>2, <2>3
<1>10. CASE InsertTicket(w)
  BY <1>10, <1>g, <1>s DEF InsertTicket, At, Editing
<1>11. CASE MarkProcessing(w)
  <2>1. \A l \in Lines : SameLine(l)
    BY <1>11, <1>t DEF MarkProcessing, SameLine, LinesOf, Exists, LineRow
  <2> QED
    BY <1>11, <1>d, <2>1 DEF MarkProcessing, At
<1>12. CASE ReadCosts(w)
  <2>1. j.step = "readCosts" /\ UNCHANGED <<orders, lines>>
    BY <1>12 DEF ReadCosts, At
  <2>2. PICK m : job' = [job EXCEPT ![w] = m] /\ m.step = "addCosts"
    <3> DEFINE u == [l \in Lines |-> IF l \in LinesOf(o) THEN LineCost(lines[l]) ELSE 0]
               m == [j EXCEPT !.step = "addCosts", !.units = u]
    <3>1. job' = [job EXCEPT ![w] = m] /\ m.step = "addCosts"
      BY <1>12, <1>t DEF ReadCosts, TypeOK, Job
    <3> HIDE DEF m
    <3> QED
      BY <3>1
  <2> QED
    BY <1>p, <1>s, <2>1, <2>2 DEF Editing
<1>13. CASE CheckCost(w)
  BY <1>13, <1>d, <1>g, <1>s DEF CheckCost, At, Editing
<1>14. CASE InsertPayment(w)
  <2>1. j.step = "insertPayments" /\ UNCHANGED <<orders, lines>>
    BY <1>14 DEF InsertPayment, At
  <2>2. PICK a \in 1..j.paying : job' = [job EXCEPT ![w].paying = @ - a]
    BY <1>14 DEF InsertPayment
  <2>3. PICK m : job' = [job EXCEPT ![w] = m] /\ m.step = "insertPayments"
    <3> DEFINE m == [j EXCEPT !.paying = @ - a]
    <3>1. job' = [job EXCEPT ![w] = m] /\ m.step = "insertPayments"
      BY <1>t, <2>1, <2>2 DEF TypeOK, Job
    <3> HIDE DEF m
    <3> QED
      BY <3>1
  <2> QED
    BY <1>p, <1>s, <2>1, <2>3 DEF Editing
<1>15. CASE CloseOrder(w) \/ CloseTab(w)
  <2>1. /\ j.step = "insertPayments" /\ UNCHANGED lines /\ o \in Orders
        /\ orders'[o].status \notin Unsettled
        /\ \A p \in Orders \ {o} : orders'[p] = orders[p]
    BY <1>15, <1>j, <1>t DEF CloseOrder, CloseTab, At, ClosingStatus, Unsettled, TypeOK,
                             OrderRow, ReadsHold
  <2> QED
    BY <1>15, <1>d, <1>g, <1>p, <1>s, <2>1, NoJobType
       DEF CloseOrder, CloseTab, Editing, Done, NoJob
<1>16. CASE MarkPaid(w)
  <2>1. \A l \in Lines : SameLine(l)
    BY <1>16, <1>t DEF MarkPaid, SameLine, LinesOf, Exists, LineRow
  <2> QED
    BY <1>16, <1>g, <2>1 DEF MarkPaid, At, Editing
<1>17. CASE CompleteTickets(w)
  BY <1>17, <1>g, <1>s DEF CompleteTickets, At, Editing
<1>18. CASE ReadSold(w)
  <2>1. j.step = "readSold" /\ UNCHANGED <<orders, lines>>
    BY <1>18 DEF ReadSold, At
  <2>2. PICK m : job' = [job EXCEPT ![w] = m] /\ m.step = "deductStock"
    <3> DEFINE u == UnitsOf({l \in LinesOf(o) : lines[l].item # NoItem})
               m == [j EXCEPT !.step = "deductStock", !.units = u]
    <3>1. job' = [job EXCEPT ![w] = m] /\ m.step = "deductStock"
      BY <1>18, <1>t DEF ReadSold, TypeOK, Job
    <3> HIDE DEF m
    <3> QED
      BY <3>1
  <2> QED
    BY <1>p, <1>s, <2>1, <2>2 DEF Editing
<1>19. CASE CreditLedger(w)
  BY <1>19, <1>d, <1>s DEF CreditLedger, At
<1>20. ASSUME NEW l \in Lines,
              InsertTicketItem(w, l) \/ AddCost(w, l) \/ DeductStock(w, l)
       PROVE  EditsOK' /\ KeepsStep
  <2>1. /\ j.step \in {"insertTicketItems", "addCosts", "deductStock"}
        /\ UNCHANGED <<orders, lines>>
    BY <1>20 DEF InsertTicketItem, AddCost, DeductStock, At
  <2>2. CASE Done(w)
    BY <1>d, <1>s, <2>1, <2>2
  <2>3. CASE ~Done(w)
    <3> DEFINE m == [j EXCEPT !.owed = IF j.step = "addCosts" THEN @ + j.units[l] ELSE @,
                              !.units[l] = 0]
    <3>1. job' = [job EXCEPT ![w] = m] /\ m.step = j.step
      BY <1>20, <1>t, <2>3 DEF InsertTicketItem, AddCost, DeductStock, At, TypeOK, Job
    <3> HIDE DEF m
    <3> QED
      BY <1>p, <1>s, <2>1, <3>1 DEF Editing
  <2> QED
    BY <2>2, <2>3
<1> QED
  BY <1>1, <1>2, <1>3, <1>4, <1>5, <1>6, <1>7, <1>8, <1>9, <1>10, <1>11, <1>12, <1>13,
     <1>14, <1>15, <1>16, <1>17, <1>18, <1>19, <1>20 DEF Continue

\* The inductive invariant: editors know their lines, and every bill that nobody closed is
\* in step.
EditInv ==
    /\ EditsOK
    /\ \A o \in Orders : orders[o].status \in Unsettled => InStep(o)

LEMMA EditInit ==
  ASSUME IsFiniteSet(Lines), IsFiniteSet(Workers)
  PROVE  Init => EditInv
<1> SUFFICES ASSUME Init PROVE EditInv
  OBVIOUS
<1>1. \A w \in Workers : job[w].step = "idle"
  BY DEF Init, NoJob
<1>2. EditsOK
  BY <1>1 DEF EditsOK, EditOK, OnALine, Editing
<1>3. ASSUME NEW o \in Orders PROVE InStep(o)
  <2>1. LinesOf(o) = {} /\ orders[o].total = 0
    BY DEF Init, LinesOf, Exists, NoRow
  <2>2. BillOf(o) = 0
    BY <2>1, SumOfNone DEF BillOf
  <2> DEFINE g == [w \in Workers |-> Bump(job[w], o)]
  <2>3. \A w \in Workers : g[w] = 0
    BY <1>1 DEF Bump
  <2>4. SumOver(g, Workers) = 0
    <3> HIDE DEF g
    <3> QED
      BY <2>3, SumOfZeros
  <2> QED
    BY <2>1, <2>2, <2>4 DEF InStep, Pending
<1> QED
  BY <1>2, <1>3 DEF EditInv

LEMMA EditNext ==
  ASSUME IsFiniteSet(Lines), IsFiniteSet(Workers), ~Interruptions, OneEditorPerLine \/ OneWorker
  PROVE  IInv /\ EditInv /\ [Next]_vars => EditInv'
<1> SUFFICES ASSUME IInv, EditInv, [Next]_vars PROVE EditInv'
  OBVIOUS
<1>1. TypeOK' /\ EditsOK
  BY IInvStep DEF IInv, EditInv
<1>2. ASSUME NEW w \in Workers, Arrive(w) \/ Continue(w) PROVE EditsOK' /\ KeepsStep
  <2>1. OneEditorPerLine \/ \A v \in Workers \ {w} : At(v, "idle")
    BY DEF OneWorker
  <2> QED
    BY <1>1, <1>2, <2>1, EditsArrive, EditsContinue
<1>3. EditsOK' /\ KeepsStep => EditInv'
  BY DEF KeepsStep, EditInv
<1>4. CASE UNCHANGED vars
  BY <1>4 DEF vars, EditInv, EditsOK, EditOK, LinesOf, Exists, InStep, Pending, Bump, BillOf
<1> QED
  BY <1>2, <1>3, <1>4 DEF Next, Interrupt

\* A bill nobody is editing has nothing pending.
LEMMA QuietBillInStep ==
  ASSUME IsFiniteSet(Workers)
  PROVE  IInv /\ EditInv => BillInStep
<1> SUFFICES ASSUME IInv, EditInv, NEW o \in Orders, orders[o].status = "open", Quiet(o)
             PROVE  orders[o].total = BillOf(o)
  BY DEF BillInStep
<1> DEFINE g == [w \in Workers |-> Bump(job[w], o)]
<1>1. \A w \in Workers : g[w] = 0
  BY DEF Quiet, Bump
<1>2. SumOver(g, Workers) = 0
  <2> HIDE DEF g
  <2> QED
    BY <1>1, SumOfZeros
<1>3. InStep(o) /\ orders[o].total \in Int
  BY DEF EditInv, Unsettled, IInv, TypeOK, OrderRow
<1> QED
  BY <1>2, <1>3 DEF InStep, Pending

\* However requests interleave, as long as none stops half way and no two of them edit one
\* line at a time, an open bill nobody is editing shows the sum of its lines: the figure
\* add_item, remove_item, update_item_quantity and set_item_discount each bump by what they
\* believe they changed.
THEOREM BillInStepAlways ==
  ASSUME IsFiniteSet(Lines), IsFiniteSet(Workers), ~Interruptions, OneEditorPerLine \/ OneWorker
  PROVE  Spec => []BillInStep
BY IInvInit, IInvStep, EditInit, EditNext, QuietBillInStep, PTL DEF Spec

-----------------------------------------------------------------------------
(* What merging rests on, while no request starts before the last one      *)
(* ended.                                                                  *)

HostSteps == {"idle", "readTarget", "sumSource", "moveLines", "bumpTarget", "closeSource"}

HostJob ==
    [step : HostSteps, from : Orders \cup {NoOrder}, to : Orders \cup {NoOrder},
     table : Tables \cup {NoTable}, sum : Int]

Busy(w)    == ~At(w, "idle")
Merging(h) == host[h].step # "idle"

OneBusy ==
    /\ \A w \in Workers, h \in Hosts : ~(Busy(w) /\ Merging(h))
    /\ \A v, w \in Workers : v # w => ~(Busy(v) /\ Busy(w))
    /\ \A g, h \in Hosts : g # h => ~(Merging(g) /\ Merging(h))

\* What a merge knows of its two bills.
MergeOK(j) ==
    /\ j.step = "idle" => j.from = NoOrder /\ j.to = NoOrder
    /\ j.step # "idle" => j.from \in Orders /\ orders[j.from].status = "open"
    /\ j.step = "readTarget" => j.to = NoOrder /\ seat[j.from] # j.table
    /\ j.step \in HostSteps \ {"idle", "readTarget"} =>
          j.to \in Orders /\ orders[j.to].status = "open" /\ j.from # j.to
    /\ j.step = "moveLines" => j.sum = BillOf(j.from)
    /\ j.step \in {"bumpTarget", "closeSource"} => LinesOf(j.from) = {}
    /\ j.step = "bumpTarget" /\ j.to \notin torn => orders[j.to].total + j.sum = BillOf(j.to)

HostsOK == host \in [Hosts -> HostJob] /\ \A h \in Hosts : MergeOK(host[h])

\* A merge has moved lines to or from this bill, and not yet written what that changes.
Moving(o) ==
    \E h \in Hosts : \/ host[h].step = "bumpTarget" /\ o = host[h].to
                     \/ host[h].step \in {"bumpTarget", "closeSource"} /\ o = host[h].from

BillsOK ==
    \A o \in Orders \ torn : orders[o].status \in Unsettled /\ ~Moving(o) => InStep(o)

InsertsOK ==
    \A w \in Workers : At(w, "insertLine") => orders[job[w].order].status = "open"

FInv == IInv /\ EditsOK /\ OneBusy /\ HostsOK /\ BillsOK /\ InsertsOK /\ NoLineLeftBehind

-----------------------------------------------------------------------------
(* What a request of the point of sale does to lines, bills and other      *)
(* requests.                                                               *)

\* A request writes no other request's variables.
LEMMA OwnJobOnly ==
  ASSUME TypeOK, NEW w \in Workers, Arrive(w) \/ Continue(w) \/ Interrupt(w)
  PROVE  \A v \in Workers \ {w} : job'[v] = job[v]
<1>t. job \in [Workers -> Job]
  BY DEF TypeOK
<1>1. ASSUME NEW o \in Orders,
             \/ CreateOrder(w, o) \/ ApplyDiscount(w, o) \/ AttachCustomer(w, o)
             \/ VoidOrder(w, o) \/ Checkout(w, o) \/ PayTab(w, o)
             \/ \E t \in Tickets : SendToKitchen(w, o, t)
      PROVE  \A v \in Workers \ {w} : job'[v] = job[v]
  BY <1>1, <1>t DEF CreateOrder, ApplyDiscount, AttachCustomer, VoidOrder, Checkout, PayTab,
                    SendToKitchen
<1>2. ASSUME NEW o \in Orders, NEW l \in Lines,
             \/ AddItem(w, o, l) \/ RemoveItem(w, o, l) \/ UpdateItemQuantity(w, o, l)
             \/ SetItemDiscount(w, o, l) \/ UpdateItemStatus(w, o, l)
      PROVE  \A v \in Workers \ {w} : job'[v] = job[v]
  BY <1>2, <1>t DEF AddItem, RemoveItem, ReadToRemove, UpdateItemQuantity, SetItemDiscount,
                    UpdateItemStatus
<1>3. CASE \/ BumpTotal(w) \/ InsertLine(w) \/ CheckIn(w) \/ DeleteLine(w) \/ SetQuantity(w)
           \/ SetDiscount(w) \/ InsertTicket(w) \/ MarkProcessing(w) \/ RevertRooms(w)
           \/ CheckCost(w) \/ CloseOrder(w) \/ CloseTab(w) \/ MarkPaid(w) \/ CompleteTickets(w)
           \/ CreditLedger(w) \/ Interrupt(w)
  <2>1. Done(w) \/ \E step : Goto(w, step)
    BY <1>3 DEF BumpTotal, InsertLine, CheckIn, DeleteLine, SetQuantity, SetDiscount,
                InsertTicket, MarkProcessing, RevertRooms, CheckCost, CloseOrder, CloseTab,
                MarkPaid, CompleteTickets, CreditLedger, Interrupt
  <2> QED
    BY <1>t, <2>1 DEF Done, Goto
<1>4. CASE RereadLine(w) \/ ReadOrder(w) \/ ReadLine(w)
  BY <1>4, <1>t DEF RereadLine, ReadToRemove, ReadOrder, ReadLine, Done, Goto
<1>5. CASE ReadCosts(w) \/ InsertPayment(w) \/ ReadSold(w)
  BY <1>5, <1>t DEF ReadCosts, InsertPayment, ReadSold
<1>6. ASSUME NEW l \in Lines, InsertTicketItem(w, l) \/ AddCost(w, l) \/ DeductStock(w, l)
      PROVE  \A v \in Workers \ {w} : job'[v] = job[v]
  BY <1>6, <1>t DEF InsertTicketItem, AddCost, DeductStock, Done
<1> QED
  BY <1>1, <1>2, <1>3, <1>4, <1>5, <1>6 DEF Arrive, Continue

\* Only add_item inserts a line, for the bill it was asked for; nothing else moves one.
LEMMA LinesStayPut ==
  ASSUME IInv, NEW w \in Workers, Arrive(w) \/ Continue(w) \/ Interrupt(w),
         NEW l \in Lines, Exists(l)'
  PROVE  \/ Exists(l) /\ lines'[l].order = lines[l].order
         \/ At(w, "insertLine") /\ lines'[l].order = job[w].order
<1>t. TypeOK /\ job[w] \in Job
  BY DEF IInv, TypeOK
<1>1. CASE UNCHANGED lines
  BY <1>1 DEF Exists
<1>2. ASSUME NEW o \in Orders, NEW k \in Lines, UpdateItemStatus(w, o, k)
      PROVE  Exists(l) /\ lines'[l].order = lines[l].order
  BY <1>t, <1>2 DEF UpdateItemStatus, TakesLine, LinesOf, Exists, TypeOK, LineRow
<1>3. CASE InsertLine(w)
  <2>1. At(w, "insertLine") /\ job[w].row.order = job[w].order
    BY <1>3 DEF InsertLine, IInv, ReadsStayTrue, ReadsHold, At
  <2> QED
    BY <1>3, <1>t, <2>1 DEF InsertLine, TypeOK, Exists
<1>4. CASE DeleteLine(w)
  BY <1>4, <1>t DEF DeleteLine, TypeOK, NoRow, Exists
<1>5. CASE SetQuantity(w)
  BY <1>5, <1>t DEF SetQuantity, TypeOK, Exists, LineRow
<1>6. CASE SetDiscount(w)
  BY <1>6, <1>t DEF SetDiscount, TypeOK, Exists, LineRow
<1>7. CASE MarkProcessing(w)
  BY <1>7, <1>t DEF MarkProcessing, TypeOK, Exists, LineRow
<1>8. CASE MarkPaid(w)
  BY <1>8, <1>t DEF MarkPaid, TypeOK, LinesOf, Exists, LineRow
<1> QED
  BY <1>1, <1>2, <1>3, <1>4, <1>5, <1>6, <1>7, <1>8
  DEF Arrive, Continue, Interrupt, CreateOrder, ApplyDiscount, AttachCustomer, VoidOrder,
      Checkout, PayTab, SendToKitchen, AddItem, RemoveItem, UpdateItemQuantity,
      SetItemDiscount, BumpTotal, CheckIn, RereadLine, ReadOrder, ReadLine, InsertTicket,
      RevertRooms, ReadCosts, CheckCost, InsertPayment, CloseOrder, CloseTab,
      CompleteTickets, ReadSold, CreditLedger, InsertTicketItem, AddCost, DeductStock

\* The point of sale merges no bill.
LEMMA NothingMerged ==
  ASSUME TypeOK, NEW w \in Workers, Arrive(w) \/ Continue(w) \/ Interrupt(w),
         NEW o \in Orders, orders'[o].status = "merged"
  PROVE  orders[o].status = "merged"
<1>1. CASE UNCHANGED orders
  BY <1>1
<1>2. ASSUME NEW p \in Orders, \/ CreateOrder(w, p) \/ ApplyDiscount(w, p)
                               \/ AttachCustomer(w, p) \/ VoidOrder(w, p)
      PROVE  orders[o].status = "merged"
  BY <1>2 DEF CreateOrder, ApplyDiscount, AttachCustomer, VoidOrder, TypeOK, OrderRow
<1>3. CASE BumpTotal(w) \/ CloseOrder(w) \/ CloseTab(w)
  BY <1>3 DEF BumpTotal, CloseOrder, CloseTab, ClosingStatus, TypeOK, OrderRow
<1> QED
  BY <1>1, <1>2, <1>3
  DEF Arrive, Continue, Interrupt, Checkout, PayTab, SendToKitchen, AddItem, RemoveItem,
      UpdateItemQuantity, SetItemDiscount, UpdateItemStatus, InsertLine, CheckIn, RereadLine,
      DeleteLine, ReadOrder, SetQuantity, ReadLine, SetDiscount, InsertTicket, MarkProcessing,
      RevertRooms, ReadCosts, CheckCost, InsertPayment, MarkPaid, CompleteTickets, ReadSold,
      CreditLedger, InsertTicketItem, AddCost, DeductStock

\* A request is about to insert a line only right after it found its bill open.
LEMMA InsertsAfterAsking ==
  ASSUME TypeOK, NEW w \in Workers, Arrive(w) \/ Continue(w) \/ Interrupt(w),
         job'[w].step = "insertLine"
  PROVE  \E o \in Orders : job'[w].order = o /\ orders'[o].status = "open"
<1>t. job[w] \in Job /\ job \in [Workers -> Job]
  BY DEF TypeOK
<1>1. ASSUME NEW o \in Orders, NEW l \in Lines, AddItem(w, o, l)
      PROVE  job'[w].order = o /\ orders'[o].status = "open"
  BY <1>1 DEF AddItem, Begin, NoJob, TypeOK
<1>2. ASSUME NEW o \in Orders,
             \/ VoidOrder(w, o) \/ Checkout(w, o) \/ PayTab(w, o)
             \/ \E t \in Tickets : SendToKitchen(w, o, t)
      PROVE  FALSE
  <2>1. ASSUME VoidOrder(w, o) PROVE FALSE
    BY <1>t, <2>1 DEF VoidOrder, Begin, NoJob
  <2>2. ASSUME Checkout(w, o) PROVE FALSE
    <3>1. \A step, owed, p, mayOwe : CheckoutJob(o, step, owed, p, mayOwe).step = step
      BY DEF CheckoutJob, Begin, NoJob
    <3>2. PICK step, owed, p, mayOwe :
            /\ step \in {"insertPayments", "readCosts"}
            /\ job' = [job EXCEPT ![w] = CheckoutJob(o, step, owed, p, mayOwe)]
      BY <2>2 DEF Checkout
    <3> QED
      BY <1>t, <3>1, <3>2
  <2>3. ASSUME PayTab(w, o) PROVE FALSE
    BY <1>t, <2>3 DEF PayTab, Begin, NoJob
  <2>4. ASSUME NEW t \in Tickets, SendToKitchen(w, o, t) PROVE FALSE
    BY <1>t, <2>4 DEF SendToKitchen, Begin, NoJob
  <2> QED
    BY <1>2, <2>1, <2>2, <2>3, <2>4
<1>3. ASSUME NEW o \in Orders, NEW l \in Lines,
             RemoveItem(w, o, l) \/ UpdateItemQuantity(w, o, l) \/ SetItemDiscount(w, o, l)
      PROVE  FALSE
  BY <1>3, <1>t DEF RemoveItem, ReadToRemove, UpdateItemQuantity, SetItemDiscount, Begin, NoJob
<1>4. ASSUME NEW o \in Orders, \/ CreateOrder(w, o) \/ ApplyDiscount(w, o)
                               \/ AttachCustomer(w, o)
                               \/ \E l \in Lines : UpdateItemStatus(w, o, l)
      PROVE  At(w, "idle") /\ UNCHANGED job
  BY <1>4 DEF CreateOrder, ApplyDiscount, AttachCustomer, UpdateItemStatus, TakesLine, Takes
<1>5. Done(w) => FALSE
  BY <1>t DEF Done, NoJob
<1>6. ASSUME NEW step, Goto(w, step), step # "insertLine" PROVE FALSE
  BY <1>6, <1>t DEF Goto, TypeOK, Job
<1>7. CASE \/ BumpTotal(w) \/ InsertLine(w) \/ CheckIn(w) \/ DeleteLine(w) \/ SetQuantity(w)
           \/ SetDiscount(w) \/ InsertTicket(w) \/ MarkProcessing(w) \/ RevertRooms(w)
           \/ CheckCost(w) \/ CloseOrder(w) \/ CloseTab(w) \/ MarkPaid(w) \/ CompleteTickets(w)
           \/ CreditLedger(w) \/ Interrupt(w)
  BY <1>5, <1>6, <1>7 DEF BumpTotal, InsertLine, CheckIn, DeleteLine, SetQuantity, SetDiscount,
                InsertTicket, MarkProcessing, RevertRooms, CheckCost, CloseOrder, CloseTab,
                MarkPaid, CompleteTickets, CreditLedger, Interrupt
<1>8. CASE RereadLine(w)
  BY <1>5, <1>8, <1>t DEF RereadLine, ReadToRemove, Job
<1>9. CASE ReadOrder(w)
  BY <1>5, <1>6, <1>9, <1>t DEF ReadOrder, Job, TypeOK
<1>10. CASE ReadLine(w)
  BY <1>5, <1>10, <1>t DEF ReadLine, Job, TypeOK
<1>11. CASE ReadCosts(w) \/ InsertPayment(w) \/ ReadSold(w)
  BY <1>11, <1>t DEF ReadCosts, InsertPayment, ReadSold, At, Job, TypeOK
<1>12. ASSUME NEW l \in Lines, InsertTicketItem(w, l) \/ AddCost(w, l) \/ DeductStock(w, l)
       PROVE  FALSE
  BY <1>5, <1>12, <1>t DEF InsertTicketItem, AddCost, DeductStock, At, Job, TypeOK
<1> QED
  BY <1>1, <1>2, <1>3, <1>4, <1>7, <1>8, <1>9, <1>10, <1>11, <1>12 DEF Arrive, Continue, At

-----------------------------------------------------------------------------
(* The invariant holds at first, and every step keeps it.                  *)

LEMMA FloorInit ==
  ASSUME IsFiniteSet(Lines), IsFiniteSet(Workers)
  PROVE  FInit => FInv
<1> SUFFICES ASSUME FInit PROVE FInv
  OBVIOUS
<1>1. IInv /\ EditInv
  BY IInvInit, EditInit DEF FInit
<1>2. \A w \in Workers : At(w, "idle")
  BY DEF FInit, Init, NoJob, At
<1>3. \A h \in Hosts : host[h] = NoHostJob
  BY DEF FInit
<1>4. OneBusy /\ InsertsOK
  BY <1>2, <1>3 DEF OneBusy, Busy, Merging, NoHostJob, InsertsOK, At
<1>5. HostsOK
  BY <1>3 DEF FInit, HostsOK, HostJob, HostSteps, MergeOK, NoHostJob
<1>6. BillsOK /\ EditsOK
  BY <1>1 DEF EditInv, BillsOK
<1>7. NoLineLeftBehind
  BY DEF FInit, Init, NoLineLeftBehind, Exists, NoRow
<1> QED
  BY <1>1, <1>4, <1>5, <1>6, <1>7 DEF FInv

\* A step of a request while no merge is under way.
LEMMA FloorPos ==
  ASSUME FInv, IInv', EditsOK', NEW w \in Workers, Arrive(w) \/ Continue(w) \/ Interrupt(w),
         \A v \in Workers \ {w} : At(v, "idle"), \A h \in Hosts : ~Merging(h),
         UNCHANGED host,
         \A o \in Orders \ torn' :
            orders'[o].status \in Unsettled =>
               o \notin torn /\ orders[o].status \in Unsettled /\ (InStep(o) => InStep(o)')
  PROVE  FInv'
<1>1. TypeOK /\ TypeOK' /\ \A v \in Workers \ {w} : job'[v] = job[v]
  BY OwnJobOnly DEF FInv, IInv
<1>2. OneBusy'
  BY <1>1 DEF OneBusy, Busy, Merging, At
<1>3. HostsOK'
  <2>1. host' \in [Hosts -> HostJob]
    BY DEF FInv, HostsOK
  <2>2. ASSUME NEW h \in Hosts PROVE MergeOK(host[h])'
    <3> SUFFICES ASSUME NEW j \in HostJob, j = host'[h] PROVE MergeOK(j)'
      BY <2>1
    <3> QED
      BY DEF FInv, HostsOK, MergeOK, Merging
  <2> QED
    BY <2>1, <2>2 DEF HostsOK
<1>4. BillsOK'
  BY DEF FInv, BillsOK, Moving, Merging
<1>5. InsertsOK'
  <2> SUFFICES ASSUME NEW v \in Workers, job'[v].step = "insertLine"
               PROVE  orders'[job'[v].order].status = "open"
    BY DEF InsertsOK, At
  <2>1. v = w
    BY <1>1 DEF At
  <2> QED
    BY <1>1, <2>1, InsertsAfterAsking
<1>6. NoLineLeftBehind'
  <2> SUFFICES ASSUME NEW l \in Lines, Exists(l)', orders'[lines'[l].order].status = "merged"
               PROVE  FALSE
    BY DEF NoLineLeftBehind
  <2>1. lines'[l].order \in Orders
    BY DEF IInv, KeysSound
  <2>2. orders[lines'[l].order].status = "merged"
    BY <1>1, <2>1, NothingMerged
  <2>3. CASE Exists(l) /\ lines'[l].order = lines[l].order
    BY <2>2, <2>3 DEF FInv, NoLineLeftBehind
  <2>4. CASE At(w, "insertLine") /\ lines'[l].order = job[w].order
    BY <2>2, <2>4 DEF FInv, InsertsOK
  <2> QED
    BY <2>3, <2>4, LinesStayPut DEF FInv
<1> QED
  BY <1>2, <1>3, <1>4, <1>5, <1>6 DEF FInv

\* A request that is cut off leaves every bill but its own in step.
LEMMA FloorCut ==
  ASSUME IsFiniteSet(Lines), IsFiniteSet(Workers), FInv, IInv', NEW w \in Workers,
         RequestInterrupted(w)
  PROVE  FInv'
<1>1. /\ Interrupt(w) /\ Busy(w) /\ UNCHANGED <<orders, lines, host>>
      /\ job' = [job EXCEPT ![w] = NoJob] /\ torn' = torn \cup ({job[w].order} \cap Orders)
  BY DEF RequestInterrupted, Interrupt, Done, Busy
<1>2. TypeOK /\ TypeOK' /\ \A v \in Workers \ {w} : job'[v] = job[v]
  BY <1>1, OwnJobOnly DEF FInv, IInv
<1>3. EditsOK'
  <2>1. ASSUME NEW v \in Workers PROVE EditOK(job[v])'
    <3> SUFFICES ASSUME NEW j \in Job, j = job'[v] PROVE EditOK(j)'
      BY <1>2 DEF TypeOK
    <3>1. CASE v = w
      BY <1>1, <1>2, <3>1 DEF TypeOK, NoJob, EditOK, OnALine, Editing
    <3>2. CASE v # w
      <4>1. EditOK(j)
        BY <1>2, <3>2 DEF FInv, EditsOK
      <4> QED
        BY <1>1, <4>1 DEF EditOK, LinesOf, Exists
    <3> QED
      BY <3>1, <3>2
  <2>2. job'[w].step = "idle"
    BY <1>1, <1>2 DEF TypeOK, NoJob
  <2> QED
    BY <1>2, <2>1, <2>2 DEF FInv, EditsOK, OnALine, Editing
<1>4. ASSUME NEW o \in Orders \ torn', InStep(o) PROVE InStep(o)'
  <2>1. Pending(o)' = Pending(o) + (Bump(NoJob, o) - Bump(job[w], o)) /\ Pending(o) \in Int
    BY <1>1, <1>2, NoJobType, PendingChanges
  <2>2. Bump(NoJob, o) = 0 /\ Bump(job[w], o) = 0
    BY <1>1, <1>4 DEF Bump, NoJob
  <2>3. BillOf(o)' = BillOf(o)
    BY <1>1 DEF BillOf, LinesOf, Exists
  <2> QED
    BY <1>1, <1>4, <2>1, <2>2, <2>3 DEF InStep
<1>5. /\ \A v \in Workers \ {w} : At(v, "idle")
      /\ \A h \in Hosts : ~Merging(h)
  BY <1>1 DEF FInv, OneBusy, Busy
<1> QED
  BY <1>1, <1>3, <1>4, <1>5, FloorPos

\* A bill adds up the parts of all lines, before and after a step.
LEMMA BillsAddUp ==
  ASSUME IsFiniteSet(Lines), TypeOK, TypeOK', NEW o
  PROVE  /\ BillOf(o) = SumOver([l \in Lines |-> Part(o, l)], Lines)
         /\ BillOf(o)' = SumOver([l \in Lines |-> Part(o, l)'], Lines)
         /\ \A l \in Lines : Part(o, l) \in Int /\ Part(o, l)' \in Int
         /\ BillOf(o) \in Int /\ BillOf(o)' \in Int
<1>1. BillOf(o) = SumOver([l \in Lines |-> Part(o, l)], Lines)
  <2>1. lines \in [Lines -> LineRow] /\ LinesOf(o) \in SUBSET Lines
    BY DEF TypeOK, LinesOf
  <2> QED
    BY <2>1, PartsAddUp DEF BillOf, Part
<1>2. BillOf(o)' = SumOver([l \in Lines |-> Part(o, l)'], Lines)
  <2>1. lines' \in [Lines -> LineRow] /\ LinesOf(o)' \in SUBSET Lines
    BY DEF TypeOK, LinesOf
  <2> QED
    BY <2>1, PartsAddUp DEF BillOf, Part
<1>3. \A l \in Lines : Part(o, l) \in Int /\ Part(o, l)' \in Int
  <2>1. \A l \in Lines : LineTotal(lines[l]) \in Int /\ LineTotal(lines'[l]) \in Int
    BY RowArithmetic DEF TypeOK
  <2> QED
    BY <2>1 DEF Part
<1> DEFINE g == [l \in Lines |-> Part(o, l)]
           h == [l \in Lines |-> Part(o, l)']
<1>4. \A l \in Lines : g[l] \in Int /\ h[l] \in Int
  BY <1>3
<1>5. SumOver(g, Lines) \in Int /\ SumOver(h, Lines) \in Int
  <2> HIDE DEF g, h
  <2> QED
    BY <1>4, SumIsInt
<1> QED
  BY <1>1, <1>2, <1>3, <1>5

LEMMA NothingPending ==
  ASSUME IsFiniteSet(Workers), \A w \in Workers : At(w, "idle"), NEW o
  PROVE  Pending(o) = 0
<1> DEFINE g == [w \in Workers |-> Bump(job[w], o)]
<1>1. \A w \in Workers : g[w] = 0
  BY DEF Bump, At
<1> HIDE DEF g
<1>2. SumOver(g, Workers) = 0
  BY <1>1, SumOfZeros
<1> QED
  BY <1>2 DEF Pending, g

\* A merge does a statement: nobody else is at work.
LEMMA HostStep ==
  ASSUME FInv, IInv', NEW h \in Hosts, NEW j \in HostJob, host' = [host EXCEPT ![h] = j],
         MergeOK(j)', UNCHANGED job, \A w \in Workers : At(w, "idle"),
         \A g \in Hosts \ {h} : ~Merging(g), BillsOK', NoLineLeftBehind'
  PROVE  FInv'
<1>1. \A w \in Workers : job'[w].step = "idle"
  BY DEF At
<1>2. host'[h] = j /\ \A g \in Hosts \ {h} : host'[g] = host[g] /\ host[g].step = "idle"
  BY DEF FInv, HostsOK, Merging
<1>3. EditsOK'
  <2>1. ASSUME NEW v \in Workers PROVE EditOK(job[v])'
    <3> SUFFICES ASSUME NEW k, k = job'[v] PROVE EditOK(k)'
      OBVIOUS
    <3> QED
      BY <1>1 DEF EditOK, OnALine, Editing
  <2> QED
    BY <1>1, <2>1 DEF EditsOK, OnALine, Editing
<1>4. OneBusy'
  BY <1>1, <1>2 DEF OneBusy, Busy, Merging, At
<1>5. HostsOK'
  <2>1. host' \in [Hosts -> HostJob]
    BY DEF FInv, HostsOK
  <2>2. ASSUME NEW g \in Hosts PROVE MergeOK(host[g])'
    <3> SUFFICES ASSUME NEW k \in HostJob, k = host'[g] PROVE MergeOK(k)'
      BY <2>1
    <3>1. CASE g = h
      BY <1>2, <3>1
    <3>2. CASE g # h
      BY <1>2, <3>2 DEF FInv, HostsOK, MergeOK
    <3> QED
      BY <3>1, <3>2
  <2> QED
    BY <2>1, <2>2 DEF HostsOK
<1>6. InsertsOK'
  BY <1>1 DEF InsertsOK, At
<1> QED
  BY <1>3, <1>4, <1>5, <1>6 DEF FInv

\* A merge reads.
LEMMA HostReads ==
  ASSUME FInv, NEW h \in Hosts, NEW j \in HostJob, host' = [host EXCEPT ![h] = j],
         MergeOK(j)', UNCHANGED <<vars, torn>>, \A w \in Workers : At(w, "idle"),
         \A g \in Hosts \ {h} : ~Merging(g),
         host[h].step \notin {"bumpTarget", "closeSource"}
  PROVE  FInv'
<1>1. IInv'
  BY IInvStep DEF FInv
<1>2. BillsOK'
  <2>1. \A o : InStep(o)' <=> InStep(o)
    BY DEF vars, InStep, Pending, Bump, BillOf, LinesOf, Exists
  <2>2. \A o : ~Moving(o)
    BY DEF Moving, Merging
  <2> QED
    BY <2>1, <2>2 DEF FInv, BillsOK, vars
<1>3. NoLineLeftBehind'
  BY DEF FInv, NoLineLeftBehind, Exists, vars
<1> QED
  BY <1>1, <1>2, <1>3, HostStep DEF vars

LEMMA FloorHost ==
  ASSUME IsFiniteSet(Lines), IsFiniteSet(Workers), OneAtATime, ~MergeWithSelf, FInv,
         NEW h \in Hosts,
         \/ Resting /\ \E a, b \in Tables : MergeTables(h, a, b)
         \/ ReadTarget(h) \/ SumSource(h) \/ MoveLines(h) \/ BumpTarget(h) \/ CloseSource(h)
         \/ HostInterrupted(h)
  PROVE  FInv'
<1> DEFINE j == host[h]
<1>t. /\ IInv /\ TypeOK /\ DebtIsVisible /\ BookedMeansClosed /\ KeysSound /\ NoLineLeftBehind
      /\ j \in HostJob /\ host \in [Hosts -> HostJob] /\ MergeOK(j)
      /\ \A l \in Lines : lines[l] \in LineRow
      /\ \A o \in Orders : orders[o] \in OrderRow /\ orders[o].total \in Int
  BY DEF FInv, IInv, HostsOK, TypeOK, OrderRow
<1>w. ASSUME NEW k, host' = [host EXCEPT ![h] = k], k \in HostJob PROVE k \in HostJob
  BY <1>w
<1>i. (\A w \in Workers : At(w, "idle")) /\ \A g \in Hosts \ {h} : ~Merging(g)
  BY DEF FInv, OneBusy, Busy, Merging, Resting, MergeTables, ReadTarget, SumSource, MoveLines,
         BumpTarget, CloseSource, HostInterrupted
<1>o. \A o \in Orders : Pending(o) = 0
  BY <1>i, NothingPending
<1>n. NoHostJob \in HostJob /\ MergeOK(NoHostJob)'
  BY DEF NoHostJob, HostJob, HostSteps, MergeOK
<1>1. ASSUME NEW a \in Tables, NEW b \in Tables, Resting, MergeTables(h, a, b) PROVE FInv'
  <2>1. PICK o \in OpenAt(a) :
          host' = [host EXCEPT ![h] =
                     [NoHostJob EXCEPT !.step = "readTarget", !.from = o, !.table = b]]
    BY <1>1 DEF MergeTables
  <2> DEFINE k == [NoHostJob EXCEPT !.step = "readTarget", !.from = o, !.table = b]
  <2>2. k \in HostJob /\ k.step = "readTarget" /\ k.from = o /\ k.table = b /\ k.to = NoOrder
    <3>1. o \in Orders
      BY DEF OpenAt
    <3>2. NoHostJob \in HostJob /\ NoHostJob.to = NoOrder /\ b \in Tables \cup {NoTable}
      BY <1>n DEF NoHostJob
    <3>3. k \in HostJob
      BY <3>1, <3>2 DEF HostJob, HostSteps
    <3>4. k.step = "readTarget"
      BY <3>2 DEF HostJob
    <3>5. k.from = o
      BY <3>2 DEF HostJob
    <3>6. k.table = b
      BY <3>2 DEF HostJob
    <3>7. k.to = NoHostJob.to
      BY <3>2 DEF HostJob
    <3> QED
      BY <3>2, <3>3, <3>4, <3>5, <3>6, <3>7
  <2> HIDE DEF k
  <2>3. UNCHANGED <<vars, seat, torn>> /\ j.step = "idle"
    BY <1>1 DEF MergeTables
  <2>4. o \in Orders /\ orders[o].status = "open" /\ seat[o] = a /\ a # b
    BY <1>1 DEF OpenAt, MergeTables
  <2>5. MergeOK(k)'
    BY <2>2, <2>3, <2>4 DEF MergeOK, vars
  <2> QED
    BY <1>i, <2>1, <2>2, <2>3, <2>5, HostReads DEF k
<1>2. CASE ReadTarget(h)
  <2>1. UNCHANGED <<vars, seat, torn>> /\ j.step = "readTarget"
    BY <1>2 DEF ReadTarget
  <2>2. CASE host' = [host EXCEPT ![h] = NoHostJob]
    BY <1>i, <1>n, <2>1, <2>2, HostReads
  <2>3. ASSUME NEW o \in OpenAt(j.table),
               host' = [host EXCEPT ![h].step = "sumSource", ![h].to = o]
        PROVE  FInv'
    <3> DEFINE k == [j EXCEPT !.step = "sumSource", !.to = o]
    <3>1. host' = [host EXCEPT ![h] = k]
      BY <1>t, <2>3
    <3>2. k \in HostJob /\ k.step = "sumSource" /\ k.from = j.from /\ k.to = o
      BY <1>t DEF HostJob, HostSteps, OpenAt
    <3>3. PICK n \in HostJob : n = k
      BY <3>2
    <3> HIDE DEF k
    <3>4. /\ o \in Orders /\ orders[o].status = "open" /\ j.from # o
          /\ j.from \in Orders /\ orders[j.from].status = "open"
      BY <1>t, <2>1 DEF MergeOK, OpenAt
    <3>5. MergeOK(n)'
      BY <2>1, <3>2, <3>3, <3>4 DEF MergeOK, vars
    <3> QED
      BY <1>i, <2>1, <3>1, <3>3, <3>5, HostReads
  <2> QED
    BY <1>2, <2>2, <2>3 DEF ReadTarget
<1>3. CASE SumSource(h)
  <2>1. /\ UNCHANGED <<vars, seat, torn>> /\ j.step = "sumSource"
        /\ host' = [host EXCEPT ![h].step = "moveLines", ![h].sum = BillOf(j.from)]
    BY <1>3 DEF SumSource
  <2>2. PICK o \in Orders : o = j.from
    BY <1>t, <2>1 DEF MergeOK
  <2>3. PICK b \in Int : b = BillOf(o) /\ BillOf(o)' = b
    <3>1. TypeOK'
      BY <1>t, <2>1, TypeStep
    <3>2. BillOf(o)' = BillOf(o)
      BY <2>1 DEF vars, BillOf, LinesOf, Exists
    <3> QED
      BY <1>t, <3>1, <3>2, BillsAddUp
  <2> DEFINE k == [j EXCEPT !.step = "moveLines", !.sum = b]
  <2>4. host' = [host EXCEPT ![h] = k]
    BY <1>t, <2>1, <2>2, <2>3
  <2>5. k \in HostJob /\ k.step = "moveLines" /\ k.from = o /\ k.to = j.to /\ k.sum = b
    BY <1>t, <2>2 DEF HostJob, HostSteps
  <2>6. PICK n \in HostJob : n = k
    BY <2>5
  <2> HIDE DEF k
  <2>7. /\ orders[o].status = "open" /\ j.to \in Orders /\ orders[j.to].status = "open"
        /\ o # j.to
    BY <1>t, <2>1, <2>2 DEF MergeOK, HostSteps
  <2>8. MergeOK(n)'
    BY <2>1, <2>3, <2>5, <2>6, <2>7 DEF MergeOK, vars
  <2> QED
    BY <1>i, <2>1, <2>4, <2>6, <2>8, HostReads
\* The bills of the merge.
<1>s. ASSUME j.step \in {"moveLines", "bumpTarget", "closeSource"}
      PROVE  /\ j.from \in Orders /\ orders[j.from].status = "open"
             /\ j.to \in Orders /\ orders[j.to].status = "open" /\ j.from # j.to
  BY <1>s, <1>t DEF MergeOK, HostSteps
<1>r. ASSUME TypeOK', DebtIsVisible', BookedMeansClosed', KeysSound', UNCHANGED job PROVE IInv'
  BY <1>i, <1>r DEF IInv, ReadsStayTrue, At
<1>4. CASE MoveLines(h)
  <2>1. /\ UNCHANGED <<orders, tickets, rooms, paid, sold, ledger, job, seat, torn>>
        /\ j.step = "moveLines"
    BY <1>4 DEF MoveLines
  <2>2. PICK o \in Orders, p \in Orders :
          /\ o = j.from /\ p = j.to /\ o # p /\ j.sum = BillOf(o)
          /\ orders[o].status = "open" /\ orders[p].status = "open"
    BY <1>s, <1>t, <2>1 DEF MergeOK
  <2>3. ASSUME NEW l \in Lines
        PROVE  lines'[l] = IF l \in LinesOf(o) THEN [lines[l] EXCEPT !.order = p] ELSE lines[l]
    BY <1>4, <2>2, <2>3 DEF MoveLines
  <2>4. \A l \in Lines :
          /\ lines'[l] \in LineRow
          /\ lines'[l].status = lines[l].status
          /\ lines'[l].order = IF l \in LinesOf(o) THEN p ELSE lines[l].order
          /\ LineTotal(lines'[l]) = LineTotal(lines[l])
    <3> SUFFICES ASSUME NEW l \in Lines
                 PROVE  /\ lines'[l] \in LineRow
                        /\ lines'[l].status = lines[l].status
                        /\ lines'[l].order = IF l \in LinesOf(o) THEN p ELSE lines[l].order
                        /\ LineTotal(lines'[l]) = LineTotal(lines[l])
      OBVIOUS
    <3>1. /\ lines'[l] \in LineRow
          /\ lines'[l].status = lines[l].status
          /\ lines'[l].order = IF l \in LinesOf(o) THEN p ELSE lines[l].order
          /\ lines'[l].price = lines[l].price /\ lines'[l].qty = lines[l].qty
          /\ lines'[l].discount = lines[l].discount
      BY <1>t, <2>3 DEF LineRow
    <3>2. LineTotal(lines'[l]) = LineTotal(lines[l])
      BY <1>t, <3>1, SameTotal
    <3> QED
      BY <3>1, <3>2
  <2>5. TypeOK'
    <3>1. lines' \in [Lines -> LineRow]
      BY <1>4, <2>4 DEF MoveLines
    <3> QED
      BY <1>t, <2>1, <3>1 DEF TypeOK
  <2>6. DebtIsVisible' /\ BookedMeansClosed' /\ KeysSound'
    BY <1>t, <2>1, <2>2, <2>4 DEF DebtIsVisible, BookedMeansClosed, KeysSound, Closed, Exists, LinesOf
  <2>7. IInv'
    BY <1>r, <2>1, <2>5, <2>6
  <2>8. LinesOf(o)' = {}
    BY <2>2, <2>4 DEF LinesOf, Exists
  <2>9. \A q \in Orders \ {o, p} : BillOf(q)' = BillOf(q)
    <3> SUFFICES ASSUME NEW q \in Orders \ {o, p} PROVE BillOf(q)' = BillOf(q)
      OBVIOUS
    <3>1. LinesOf(q)' = LinesOf(q)
      BY <2>4 DEF LinesOf, Exists
    <3>2. [l \in Lines |-> LineTotal(lines'[l])] = [l \in Lines |-> LineTotal(lines[l])]
      BY <2>4
    <3> QED
      BY <3>1, <3>2 DEF BillOf
  <2>10. BillOf(p)' = BillOf(o) + BillOf(p)
    <3> DEFINE f == [l \in Lines |-> Part(o, l)]
               g == [l \in Lines |-> Part(p, l)]
               k == [l \in Lines |-> Part(p, l)']
    <3>1. BillOf(o) = SumOver(f, Lines) /\ BillOf(p) = SumOver(g, Lines) /\ BillOf(p)' = SumOver(k, Lines)
      BY <1>t, <2>5, BillsAddUp
    <3>2. \A l \in Lines : /\ f[l] \in Int /\ g[l] \in Int
                           /\ k[l] = f[l] + g[l]
      <4>1. \A l \in Lines : Part(o, l) \in Int /\ Part(p, l) \in Int
        BY <1>t, PartType
      <4>2. \A l \in Lines : Part(p, l)' = Part(o, l) + Part(p, l)
        <5>1. \A l \in Lines : LineTotal(lines[l]) \in Int
          BY <1>t, RowArithmetic
        <5> QED
          BY <2>2, <2>4, <5>1 DEF Part, LinesOf, Exists
      <4> QED
        BY <4>1, <4>2
    <3> HIDE DEF f, g, k
    <3> QED
      BY <3>1, <3>2, SumAdds
  <2> DEFINE m == [j EXCEPT !.step = "bumpTarget"]
  <2>11. host' = [host EXCEPT ![h] = m]
    BY <1>4, <1>t DEF MoveLines
  <2>12. m \in HostJob /\ m.step = "bumpTarget" /\ m.from = o /\ m.to = p /\ m.sum = BillOf(o)
    BY <1>t, <2>2 DEF HostJob, HostSteps
  <2>13. PICK n \in HostJob : n = m
    BY <2>12
  <2> HIDE DEF m
  <2>14. p \notin torn => orders[p].total + BillOf(o) = BillOf(p)'
    <3> SUFFICES ASSUME p \notin torn PROVE orders[p].total + BillOf(o) = BillOf(p)'
      OBVIOUS
    <3>1. ~Moving(p)
      BY <1>i, <2>1, <2>2 DEF Moving, Merging
    <3>2. InStep(p)
      BY <2>2, <3>1 DEF FInv, BillsOK, Unsettled
    <3>3. orders[p].total = BillOf(p)
      BY <1>o, <1>t, <3>2 DEF InStep
    <3>4. BillOf(p) \in Int /\ BillOf(o) \in Int
      BY <1>t, <2>5, BillsAddUp
    <3> QED
      BY <2>10, <3>3, <3>4
  <2>15. MergeOK(n)'
    BY <2>1, <2>2, <2>8, <2>12, <2>13, <2>14 DEF MergeOK
  <2>16. BillsOK'
    <3> SUFFICES ASSUME NEW q \in Orders \ torn, orders[q].status \in Unsettled, ~Moving(q)'
                 PROVE  InStep(q)'
      BY <2>1 DEF BillsOK
    <3>1. host'[h] = m
      BY <1>t, <2>11
    <3>2. q \notin {o, p}
      BY <2>12, <3>1 DEF Moving
    <3>3. ~Moving(q)
      BY <1>i, <2>1 DEF Moving, Merging
    <3>4. InStep(q)
      BY <3>3 DEF FInv, BillsOK
    <3> QED
      BY <2>1, <2>9, <3>2, <3>4 DEF InStep, Pending, Bump
  <2>17. NoLineLeftBehind'
    BY <1>t, <2>1, <2>2, <2>4 DEF NoLineLeftBehind, Exists
  <2> QED
    BY <1>i, <2>1, <2>7, <2>11, <2>13, <2>15, <2>16, <2>17, HostStep
<1>5. CASE BumpTarget(h)
  <2>1. /\ UNCHANGED <<lines, tickets, rooms, paid, sold, ledger, job, seat, torn>>
        /\ j.step = "bumpTarget"
    BY <1>5 DEF BumpTarget
  <2>2. PICK o \in Orders, p \in Orders :
          /\ o = j.from /\ p = j.to /\ o # p /\ LinesOf(o) = {}
          /\ orders[o].status = "open" /\ orders[p].status = "open"
          /\ p \notin torn => orders[p].total + j.sum = BillOf(p)
    BY <1>s, <1>t, <2>1 DEF MergeOK
  <2>3. PICK d \in Int : d = j.sum
    BY <1>t DEF HostJob
  <2>4. orders' = [orders EXCEPT ![p].total = @ + d]
    BY <1>5, <2>2, <2>3 DEF BumpTarget
  <2>5. /\ orders'[p] = [orders[p] EXCEPT !.total = @ + d]
        /\ \A q \in Orders \ {p} : orders'[q] = orders[q]
    BY <1>t, <2>4 DEF TypeOK
  <2>6. /\ orders'[p].total = orders[p].total + d
        /\ \A q \in Orders : /\ orders'[q] \in OrderRow /\ orders'[q].status = orders[q].status
                             /\ orders'[q].balance = orders[q].balance
                             /\ orders'[q].customer = orders[q].customer
    BY <1>t, <2>5 DEF OrderRow
  <2>7. TypeOK'
    <3>1. orders' \in [Orders -> OrderRow]
      BY <1>t, <2>4, <2>6 DEF TypeOK
    <3> QED
      BY <1>t, <2>1, <3>1 DEF TypeOK
  <2>8. DebtIsVisible' /\ BookedMeansClosed' /\ KeysSound'
    BY <1>t, <2>1, <2>6 DEF DebtIsVisible, BookedMeansClosed, KeysSound, Closed, Exists
  <2>9. IInv'
    BY <1>r, <2>1, <2>7, <2>8
  <2> DEFINE m == [j EXCEPT !.step = "closeSource"]
  <2>10. host' = [host EXCEPT ![h] = m]
    BY <1>5, <1>t DEF BumpTarget
  <2>11. m \in HostJob /\ m.step = "closeSource" /\ m.from = o /\ m.to = p
    BY <1>t, <2>2 DEF HostJob, HostSteps
  <2>12. PICK n \in HostJob : n = m
    BY <2>11
  <2> HIDE DEF m
  <2>13. \A q : LinesOf(q)' = LinesOf(q) /\ BillOf(q)' = BillOf(q) /\ Pending(q)' = Pending(q)
    BY <2>1 DEF LinesOf, BillOf, Exists, Pending, Bump
  <2>14. MergeOK(n)'
    BY <2>2, <2>6, <2>11, <2>12, <2>13 DEF MergeOK
  <2>15. BillsOK'
    <3> SUFFICES ASSUME NEW q \in Orders \ torn, orders[q].status \in Unsettled, ~Moving(q)'
                 PROVE  InStep(q)'
      BY <2>1, <2>6 DEF BillsOK
    <3>1. host'[h] = m
      BY <1>t, <2>10
    <3>2. q # o
      BY <2>11, <3>1 DEF Moving
    <3>3. CASE q = p
      BY <1>o, <1>t, <2>2, <2>3, <2>6, <2>13, <3>3 DEF InStep
    <3>4. CASE q # p
      <4>1. ~Moving(q)
        BY <1>i, <2>1, <2>2, <3>2, <3>4 DEF Moving, Merging
      <4>2. InStep(q)
        BY <4>1 DEF FInv, BillsOK
      <4> QED
        BY <2>5, <2>13, <3>4, <4>2 DEF InStep
    <3> QED
      BY <3>3, <3>4
  <2>16. NoLineLeftBehind'
    BY <1>t, <2>1, <2>6 DEF NoLineLeftBehind, Exists, KeysSound
  <2> QED
    BY <1>i, <2>1, <2>9, <2>10, <2>12, <2>14, <2>15, <2>16, HostStep
<1>6. CASE CloseSource(h)
  <2>1. /\ UNCHANGED <<lines, tickets, rooms, paid, sold, ledger, job, seat, torn>>
        /\ j.step = "closeSource" /\ host' = [host EXCEPT ![h] = NoHostJob]
    BY <1>6 DEF CloseSource
  <2>2. PICK o \in Orders : o = j.from /\ LinesOf(o) = {} /\ orders[o].status = "open"
    BY <1>s, <1>t, <2>1 DEF MergeOK
  <2>3. orders' = [orders EXCEPT ![o].status = "merged"]
    BY <1>6, <2>2 DEF CloseSource
  <2>4. /\ orders'[o].status = "merged" /\ orders'[o].balance = orders[o].balance
        /\ \A q \in Orders \ {o} : orders'[q] = orders[q]
        /\ orders' \in [Orders -> OrderRow]
    BY <1>t, <2>3 DEF TypeOK, OrderRow
  <2>5. TypeOK'
    BY <1>t, <2>1, <2>4 DEF TypeOK
  <2>6. DebtIsVisible' /\ BookedMeansClosed' /\ KeysSound'
    BY <1>t, <2>1, <2>2, <2>4 DEF DebtIsVisible, BookedMeansClosed, KeysSound, Closed, Exists
  <2>7. IInv'
    BY <1>r, <2>1, <2>5, <2>6
  <2>8. BillsOK'
    <3> SUFFICES ASSUME NEW q \in Orders \ torn, orders'[q].status \in Unsettled
                 PROVE  InStep(q)'
      BY <2>1 DEF BillsOK
    <3>1. q # o
      BY <2>4 DEF Unsettled
    <3>2. ~Moving(q)
      BY <1>i, <2>1, <2>2, <3>1 DEF Moving, Merging
    <3>3. InStep(q)
      BY <2>4, <3>1, <3>2 DEF FInv, BillsOK
    <3> QED
      BY <2>1, <2>4, <3>1, <3>3 DEF InStep, LinesOf, BillOf, Exists, Pending, Bump
  <2>9. NoLineLeftBehind'
    BY <1>t, <2>1, <2>2, <2>4 DEF NoLineLeftBehind, Exists, KeysSound, LinesOf
  <2> QED
    BY <1>i, <1>n, <2>1, <2>7, <2>8, <2>9, HostStep
<1>7. CASE HostInterrupted(h)
  <2>1. /\ UNCHANGED <<vars, seat>> /\ host' = [host EXCEPT ![h] = NoHostJob]
        /\ torn' = torn \cup ({j.from, j.to} \cap Orders)
    BY <1>7 DEF HostInterrupted
  <2>2. IInv'
    BY <1>t, <2>1, IInvStep
  <2>3. BillsOK'
    <3> SUFFICES ASSUME NEW q \in Orders \ torn', orders[q].status \in Unsettled
                 PROVE  InStep(q)'
      BY <2>1 DEF BillsOK, vars
    <3>1. ~Moving(q)
      BY <1>i, <2>1 DEF Moving, Merging
    <3>2. InStep(q)
      BY <2>1, <3>1 DEF FInv, BillsOK
    <3> QED
      BY <2>1, <3>2 DEF vars, InStep, LinesOf, BillOf, Exists, Pending, Bump
  <2>4. NoLineLeftBehind'
    BY <1>t, <2>1 DEF NoLineLeftBehind, Exists, vars
  <2> QED
    BY <1>i, <1>n, <2>1, <2>2, <2>3, <2>4, HostStep DEF vars
<1> QED
  BY <1>1, <1>2, <1>3, <1>4, <1>5, <1>6, <1>7

LEMMA FloorNext ==
  ASSUME IsFiniteSet(Lines), IsFiniteSet(Workers), OneAtATime, ~MergeWithSelf
  PROVE  FInv /\ [FNext]_fVars => FInv'
<1> SUFFICES ASSUME FInv, [FNext]_fVars PROVE FInv'
  OBVIOUS
<1>i. IInv /\ EditsOK
  BY DEF FInv
<1>1. ASSUME NEW w \in Workers, (Arrive(w) /\ Resting) \/ Continue(w),
             UNCHANGED <<host, torn>>
      PROVE  FInv'
  <2>1. IInv' /\ TypeOK'
    BY <1>1, <1>i, IInvStep DEF Next, IInv
  <2>2. /\ \A v \in Workers \ {w} : At(v, "idle")
        /\ \A h \in Hosts : ~Merging(h)
    <3>1. CASE Arrive(w) /\ Resting
      BY <3>1 DEF Resting, Merging
    <3>2. CASE Continue(w)
      <4>1. Busy(w)
        BY <3>2 DEF Continue, Busy, At, BumpTotal, InsertLine, CheckIn, RereadLine, DeleteLine,
           ReadOrder, SetQuantity, ReadLine, SetDiscount, InsertTicket, MarkProcessing,
           RevertRooms, ReadCosts, CheckCost, InsertPayment, CloseOrder, CloseTab, MarkPaid,
           CompleteTickets, ReadSold, CreditLedger, InsertTicketItem, AddCost, DeductStock
      <4> QED
        BY <4>1 DEF FInv, OneBusy, Busy
    <3> QED
      BY <1>1, <3>1, <3>2
  <2>3. EditsOK' /\ KeepsStep
    BY <1>1, <1>i, <2>1, <2>2, EditsArrive, EditsContinue
  <2> QED
    BY <1>1, <2>1, <2>2, <2>3, FloorPos DEF KeepsStep
<1>2. ASSUME NEW w \in Workers, RequestInterrupted(w) PROVE FInv'
  <2>1. IInv'
    BY <1>2, <1>i, IInvStep DEF RequestInterrupted, Next
  <2> QED
    BY <1>2, <2>1, FloorCut
<1>3. ASSUME NEW a \in Tables, NEW b \in Tables, TransferTable(a, b), Resting PROVE FInv'
  <2>1. UNCHANGED <<vars, host, torn>> /\ \A h \in Hosts : host[h].step = "idle"
    BY <1>3 DEF TransferTable, Resting
  <2>2. IInv'
    BY <1>i, <2>1, IInvStep
  <2>3. HostsOK'
    <3>1. host' \in [Hosts -> HostJob]
      BY <2>1 DEF FInv, HostsOK
    <3>2. ASSUME NEW h \in Hosts PROVE MergeOK(host[h])'
      <4> SUFFICES ASSUME NEW k \in HostJob, k = host'[h] PROVE MergeOK(k)'
        BY <3>1
      <4> QED
        BY <2>1 DEF FInv, HostsOK, MergeOK
    <3> QED
      BY <3>1, <3>2 DEF HostsOK
  <2> QED
    BY <2>1, <2>2, <2>3 DEF FInv, vars, EditsOK, EditOK, OneBusy, Busy, Merging, At, BillsOK,
       Moving, InStep, Pending, Bump, BillOf, LinesOf, Exists, InsertsOK, NoLineLeftBehind
<1>4. CASE UNCHANGED fVars
  <2>1. IInv' /\ UNCHANGED <<vars, seat, host, torn>>
    BY <1>4, <1>i, IInvStep DEF fVars
  <2>2. HostsOK'
    <3>1. host' \in [Hosts -> HostJob]
      BY <2>1 DEF FInv, HostsOK
    <3>2. ASSUME NEW h \in Hosts PROVE MergeOK(host[h])'
      <4> SUFFICES ASSUME NEW k \in HostJob, k = host'[h] PROVE MergeOK(k)'
        BY <3>1
      <4> QED
        BY <2>1 DEF FInv, HostsOK, MergeOK, BillOf, LinesOf, Exists, vars
    <3> QED
      BY <3>1, <3>2 DEF HostsOK
  <2>3. EditsOK' /\ OneBusy' /\ InsertsOK' /\ NoLineLeftBehind'
    BY <2>1 DEF FInv, vars, EditsOK, EditOK, OneBusy, Busy, Merging, At, InsertsOK,
       NoLineLeftBehind, Exists, BillOf, LinesOf
  <2>4. BillsOK'
    BY <2>1 DEF FInv, vars, BillsOK, Moving, InStep, Pending, Bump, BillOf, LinesOf, Exists
  <2> QED
    BY <2>1, <2>2, <2>3, <2>4 DEF FInv
<1>5. ASSUME NEW h \in Hosts,
             \/ Resting /\ \E a, b \in Tables : MergeTables(h, a, b)
             \/ ReadTarget(h) \/ SumSource(h) \/ MoveLines(h)
             \/ BumpTarget(h) \/ CloseSource(h) \/ HostInterrupted(h)
      PROVE  FInv'
  BY <1>5, FloorHost
<1>6. CASE FNext
  <2>1. CASE FloorArrives /\ Resting
    BY <1>3, <1>5, <2>1 DEF FloorArrives
  <2>2. CASE Resting /\ (\E w \in Workers : Arrive(w)) /\ UNCHANGED <<host, torn>>
    BY <1>1, <2>2
  <2>3. CASE FloorContinues
    BY <1>5, <2>3 DEF FloorContinues
  <2>4. CASE (\E w \in Workers : Continue(w)) /\ UNCHANGED <<host, torn>>
    <3>1. PICK w \in Workers : Continue(w)
      BY <2>4
    <3> QED
      BY <1>1, <2>4, <3>1
  <2>5. CASE \E w \in Workers : RequestInterrupted(w)
    BY <1>2, <2>5
  <2> QED
    BY <1>6, <2>1, <2>2, <2>3, <2>4, <2>5 DEF FNext
<1> QED
  BY <1>4, <1>6

LEMMA FInvAlways ==
  ASSUME IsFiniteSet(Lines), IsFiniteSet(Workers), OneAtATime, ~MergeWithSelf
  PROVE  FSpec => []FInv
  BY FloorInit, FloorNext, PTL DEF FSpec

\* While no request starts before the last one ended, a merge leaves no line on the bill it
\* closes, at whatever statement it is cut off (merge_tables).
THEOREM NoLineLeftBehindAlways ==
  ASSUME IsFiniteSet(Lines), IsFiniteSet(Workers), OneAtATime, ~MergeWithSelf
  PROVE  FSpec => []NoLineLeftBehind
<1>1. FInv => NoLineLeftBehind
  BY DEF FInv
<1> QED
  BY <1>1, FInvAlways, PTL

\* Nor does a merge break what the books mean: as long as no request starts before the last
\* one ended, only closed bills have revenue, sold stock or completed tickets, also where
\* tables are merged. (A merge that overtakes a checkout does break it: tables/service.rs:77.)
THEOREM MergesKeepBooks ==
  ASSUME IsFiniteSet(Lines), IsFiniteSet(Workers), OneAtATime, ~MergeWithSelf
  PROVE  FSpec => []BookedMeansClosed
<1>1. FInv => BookedMeansClosed
  BY DEF FInv, IInv
<1> QED
  BY <1>1, FInvAlways, PTL

\* Under the same rule, every open bill that no request is at work on, and that none was cut
\* off at, shows the sum of its lines, wherever a merge brought them from.
THEOREM MergedBillInStepAlways ==
  ASSUME IsFiniteSet(Lines), IsFiniteSet(Workers), OneAtATime, ~MergeWithSelf
  PROVE  FSpec => []MergedBillInStep
<1>1. FInv => MergedBillInStep
  <2> SUFFICES ASSUME FInv, NEW o \in Orders, orders[o].status = "open", Settled(o)
               PROVE  orders[o].total = BillOf(o)
    BY DEF MergedBillInStep
  <2>1. InStep(o) /\ orders[o].total \in Int
    BY DEF FInv, IInv, TypeOK, OrderRow, BillsOK, Moving, Settled, Unsettled
  <2> DEFINE g == [w \in Workers |-> Bump(job[w], o)]
  <2>2. \A w \in Workers : g[w] = 0
    BY DEF Settled, Quiet, Bump
  <2>3. SumOver(g, Workers) = 0
    <3> HIDE DEF g
    <3> QED
      BY <2>2, SumOfZeros
  <2> QED
    BY <2>1, <2>3 DEF InStep, Pending
<1> QED
  BY <1>1, FInvAlways, PTL

=============================================================================

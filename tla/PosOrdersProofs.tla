-------------------------- MODULE PosOrdersProofs ---------------------------
(***************************************************************************)
(* Machine-checked theorems about PosOrders and PosKitchen, for any number *)
(* of orders, lines, tickets, workers and screens, any amounts, and requests *)
(* that interleave and are cut off wherever they may be: what a bill, its  *)
(* room and its tickets show stays true, and cooking only moves forward.   *)
(***************************************************************************)
EXTENDS PosKitchen, TLAPS

LEMMA NoJobType == NoJob \in Job
  BY DEF NoJob, Job, NoUnits, NoRow, LineRow, Steps, OpNames

LEMMA InitType == Init => TypeOK
  <1> SUFFICES ASSUME Init PROVE TypeOK
    OBVIOUS
  <1>1. orders \in [Orders -> OrderRow]
    BY DEF Init, OrderRow
  <1>2. lines \in [Lines -> LineRow]
    BY DEF Init, LineRow, NoRow
  <1>3. tickets \in [Tickets -> TicketRow]
    BY DEF Init, TicketRow
  <1>4. rooms \in [Rooms -> RoomRow]
    BY DEF Init, RoomRow
  <1>5. job \in [Workers -> Job]
    BY NoJobType DEF Init
  <1> QED
    BY <1>1, <1>2, <1>3, <1>4, <1>5 DEF Init, TypeOK

LEMMA BeginType ==
  ASSUME NEW op \in OpNames, NEW step \in Steps, NEW o \in Orders
  PROVE  Begin(op, step, o) \in Job
  BY NoJobType DEF Begin, NoJob, Job

LEMMA JobUpdate ==
  ASSUME TypeOK, NEW w \in Workers, NEW j \in Job
  PROVE  [job EXCEPT ![w] = j] \in [Workers -> Job]
  BY DEF TypeOK

\* An EXCEPT at a key that is no key changes nothing: only a real one needs a typed row.
LEMMA OrderUpdate ==
  ASSUME TypeOK, NEW o, NEW r, o \in Orders => r \in OrderRow
  PROVE  [orders EXCEPT ![o] = r] \in [Orders -> OrderRow]
  BY DEF TypeOK

LEMMA LineUpdate ==
  ASSUME TypeOK, NEW l, NEW r, l \in Lines => r \in LineRow
  PROVE  [lines EXCEPT ![l] = r] \in [Lines -> LineRow]
  BY DEF TypeOK

LEMMA TicketUpdate ==
  ASSUME TypeOK, NEW t, NEW r, t \in Tickets => r \in TicketRow
  PROVE  [tickets EXCEPT ![t] = r] \in [Tickets -> TicketRow]
  BY DEF TypeOK

LEMMA Product == \A a, b \in Int : a * b \in Int
  OBVIOUS

LEMMA GotoType ==
  ASSUME TypeOK, NEW w \in Workers, NEW step \in Steps, Goto(w, step)
  PROVE  job' \in [Workers -> Job]
  <1>1. [job[w] EXCEPT !.step = step] \in Job
    BY DEF TypeOK, Job
  <1> QED
    BY <1>1 DEF TypeOK, Goto

LEMMA DoneType ==
  ASSUME TypeOK, NEW w \in Workers, Done(w)
  PROVE  job' \in [Workers -> Job]
  BY NoJobType DEF TypeOK, Done

LEMMA UnitsType ==
  ASSUME TypeOK, NEW S
  PROVE  UnitsOf(S) \in [Lines -> Int]
  BY DEF TypeOK, UnitsOf, LineRow

LEMMA RowArithmetic ==
  ASSUME NEW r \in LineRow
  PROVE  ListTotal(r) \in Int /\ LineTotal(r) \in Int /\ LineCost(r) \in Int
  <1>1. r.price \in Int /\ r.qty \in Int /\ r.discount \in Int
    BY DEF LineRow
  <1>2. r.item # NoItem => Cost[r.item] \in Int
    BY ItemsAssumption DEF LineRow
  <1>3. \A a, b \in Int : a * b \in Int /\ a - b \in Int
    BY Product
  <1>4. r.price * r.qty \in Int
    BY <1>1, <1>3
  <1>5. CASE r.item = NoItem
    <2>1. r.qty * r.price \in Int
      BY <1>1, <1>3
    <2> QED
      BY <1>1, <1>4, <1>5, <2>1 DEF ListTotal, LineTotal, LineCost
  <1>6. CASE r.item # NoItem
    <2>1. r.qty * Cost[r.item] \in Int
      BY <1>1, <1>2, <1>3, <1>6
    <2> QED
      BY <1>1, <1>4, <1>6, <2>1 DEF ListTotal, LineTotal, LineCost
  <1> QED
    BY <1>5, <1>6

LEMMA ReadToRemoveType ==
  ASSUME TypeOK, NEW w \in Workers, NEW j \in Job, NEW l \in Lines,
         ReadToRemove(w, j, l)
  PROVE  job' \in [Workers -> Job]
  <1> DEFINE row   == lines[l]
             delta == -LineTotal(row)
  <1>1. row \in LineRow
    BY DEF TypeOK
  <1>2. delta \in Int
    BY <1>1, RowArithmetic
  <1>3. "deleteLine" \in Steps
    BY DEF Steps
  <1>4. job' = [job EXCEPT ![w] =
                  [j EXCEPT !.step = "deleteLine", !.line = l, !.row = row, !.delta = delta]]
    BY DEF ReadToRemove
  <1> HIDE DEF row, delta
  <1> DEFINE new == [j EXCEPT !.step = "deleteLine", !.line = l,
                              !.row = row, !.delta = delta]
  <1>5. new \in Job
    BY <1>1, <1>2, <1>3 DEF Job
  <1> HIDE DEF new
  <1> QED
    BY <1>4, <1>5, JobUpdate DEF new

LEMMA TypeArrive ==
  ASSUME TypeOK, NEW w \in Workers, Arrive(w)
  PROVE  TypeOK'
  <1>1. PICK o \in Orders :
          \/ CreateOrder(w, o) \/ ApplyDiscount(w, o) \/ AttachCustomer(w, o)
          \/ VoidOrder(w, o) \/ Checkout(w, o) \/ PayTab(w, o)
          \/ \E t \in Tickets : SendToKitchen(w, o, t)
          \/ \E l \in Lines :
                \/ AddItem(w, o, l) \/ RemoveItem(w, o, l)
                \/ UpdateItemQuantity(w, o, l) \/ SetItemDiscount(w, o, l)
                \/ UpdateItemStatus(w, o, l)
    BY DEF Arrive
  <1>2. \A op \in OpNames, step \in Steps : Begin(op, step, o) \in Job
    BY BeginType
  <1>3. CASE CreateOrder(w, o)
    BY <1>3 DEF CreateOrder, TypeOK, OrderRow
  <1>4. CASE ApplyDiscount(w, o)
    BY <1>4, AmountsAssumption DEF ApplyDiscount, TypeOK, OrderRow
  <1>5. CASE AttachCustomer(w, o)
    BY <1>5 DEF AttachCustomer, TypeOK, OrderRow
  <1>6. CASE VoidOrder(w, o)
    <2>1. orders' \in [Orders -> OrderRow]
      BY <1>6 DEF VoidOrder, TypeOK, OrderRow
    <2>2. Begin("void", "revertRooms", o) \in Job
      BY <1>2 DEF OpNames, Steps
    <2> QED
      BY <1>6, <2>1, <2>2, JobUpdate DEF VoidOrder, TypeOK
  <1>7. CASE Checkout(w, o)
    <2>1. PICK p \in Payments, mayOwe \in BOOLEAN :
            \/ \E d \in Discounts :
                 job' = [job EXCEPT ![w] =
                           CheckoutJob(o, "insertPayments",
                                       orders[o].total - orders[o].discount - d, p, mayOwe)]
            \/ job' = [job EXCEPT ![w] = CheckoutJob(o, "insertPayments", 0, p, mayOwe)]
            \/ job' = [job EXCEPT ![w] = CheckoutJob(o, "readCosts", 0, p, mayOwe)]
      BY <1>7 DEF Checkout
    <2>2. \A d \in Discounts : orders[o].total - orders[o].discount - d \in Int
      BY AmountsAssumption DEF TypeOK, OrderRow
    <2>3. \A owed \in Int, step \in {"insertPayments", "readCosts"} :
            CheckoutJob(o, step, owed, p, mayOwe) \in Job
      <3> SUFFICES ASSUME NEW owed \in Int, NEW step \in {"insertPayments", "readCosts"}
                   PROVE  CheckoutJob(o, step, owed, p, mayOwe) \in Job
        OBVIOUS
      <3>1. Begin("checkout", step, o) \in Job
        BY <1>2 DEF OpNames, Steps
      <3> QED
        BY <3>1, AmountsAssumption DEF CheckoutJob, Job
    <2>4. PICK owed \in Int, step \in {"insertPayments", "readCosts"} :
            job' = [job EXCEPT ![w] = CheckoutJob(o, step, owed, p, mayOwe)]
      BY <2>1, <2>2
    <2>5. job' \in [Workers -> Job]
      BY <2>3, <2>4, JobUpdate
    <2> QED
      BY <1>7, <2>5 DEF Checkout, TypeOK
  <1>8. CASE PayTab(w, o)
    <2>1. PICK p \in Payments \ {0} :
            job' = [job EXCEPT ![w] =
                      [Begin("payTab", "insertPayments", o) EXCEPT
                         !.owed = orders[o].balance, !.paying = p, !.paid = p]]
      BY <1>8 DEF PayTab
    <2>2. Begin("payTab", "insertPayments", o) \in Job
      BY <1>2 DEF OpNames, Steps
    <2>3. orders[o].balance \in Int
      BY DEF TypeOK, OrderRow
    <2>4. [Begin("payTab", "insertPayments", o) EXCEPT
             !.owed = orders[o].balance, !.paying = p, !.paid = p] \in Job
      BY <2>2, <2>3, AmountsAssumption DEF Job
    <2> QED
      BY <1>8, <2>1, <2>4, JobUpdate DEF PayTab, TypeOK
  <1>9. ASSUME NEW t \in Tickets, SendToKitchen(w, o, t)
        PROVE  TypeOK'
    <2> DEFINE units == UnitsOf({l \in LinesOf(o) : lines[l].status = "new"})
    <2>1. units \in [Lines -> Int]
      BY UnitsType
    <2>2. Begin("send", "insertTicket", o) \in Job
      BY <1>2 DEF OpNames, Steps
    <2> HIDE DEF units
    <2> DEFINE new == [Begin("send", "insertTicket", o) EXCEPT !.ticket = t, !.units = units]
    <2>3. new \in Job
      BY <2>1, <2>2 DEF Job
    <2>4. job' = [job EXCEPT ![w] = new]
      BY <1>9 DEF SendToKitchen, units
    <2> HIDE DEF new
    <2>5. job' \in [Workers -> Job]
      BY <2>3, <2>4, JobUpdate
    <2> QED
      BY <1>9, <2>5 DEF SendToKitchen, TypeOK
  <1>10. ASSUME NEW l \in Lines, AddItem(w, o, l)
         PROVE  TypeOK'
    <2>1. PICK i \in Items \cup {NoItem}, q \in Quantities, p \in Prices :
            job' = [job EXCEPT ![w] =
                 [Begin("add", "insertLine", o) EXCEPT
                    !.line = l, !.delta = p * q,
                    !.row = [status |-> "new", order |-> o, item |-> i,
                             qty |-> q, price |-> p, discount |-> 0]]]
      BY <1>10 DEF AddItem
    <2> DEFINE row == [status |-> "new", order |-> o, item |-> i,
                       qty |-> q, price |-> p, discount |-> 0]
    <2>2. row \in LineRow
      BY AmountsAssumption DEF LineRow
    <2>3. p * q \in Int
      BY AmountsAssumption, Product
    <2>4. Begin("add", "insertLine", o) \in Job
      BY <1>2 DEF OpNames, Steps
    <2> HIDE DEF row
    <2> DEFINE new == [Begin("add", "insertLine", o) EXCEPT
                         !.line = l, !.delta = p * q, !.row = row]
    <2>5. new \in Job
      BY <2>2, <2>3, <2>4 DEF Job
    <2>6. job' = [job EXCEPT ![w] = new]
      BY <2>1 DEF row
    <2> HIDE DEF new
    <2>7. job' \in [Workers -> Job]
      BY <2>5, <2>6, JobUpdate
    <2> QED
      BY <1>10, <2>7 DEF TypeOK, AddItem
  <1>11. ASSUME NEW l \in Lines, RemoveItem(w, o, l)
         PROVE  TypeOK'
    <2>1. Begin("remove", "deleteLine", o) \in Job
      BY <1>2 DEF OpNames, Steps
    <2>2. job' \in [Workers -> Job]
      BY <1>11, <2>1, ReadToRemoveType DEF RemoveItem
    <2> QED
      BY <1>11, <2>2 DEF TypeOK, RemoveItem
  <1>12. ASSUME NEW l \in Lines, UpdateItemQuantity(w, o, l)
         PROVE  TypeOK'
    <2>1. PICK q \in Quantities :
            job' = [job EXCEPT ![w] =
                      [Begin("quantity", "readOrder", o) EXCEPT
                         !.line = l, !.row = lines[l], !.ask = q]]
      BY <1>12 DEF UpdateItemQuantity
    <2>2. Begin("quantity", "readOrder", o) \in Job
      BY <1>2 DEF OpNames, Steps
    <2>3. [Begin("quantity", "readOrder", o) EXCEPT
             !.line = l, !.row = lines[l], !.ask = q] \in Job
      BY <2>2, AmountsAssumption DEF Job, TypeOK
    <2> QED
      BY <1>12, <2>1, <2>3, JobUpdate DEF TypeOK, UpdateItemQuantity
  <1>13. ASSUME NEW l \in Lines, SetItemDiscount(w, o, l)
         PROVE  TypeOK'
    <2>1. PICK d \in Discounts :
            job' = [job EXCEPT ![w] =
                      [Begin("lineDiscount", "readLine", o) EXCEPT
                         !.line = l, !.ask = d]]
      BY <1>13 DEF SetItemDiscount
    <2>2. Begin("lineDiscount", "readLine", o) \in Job
      BY <1>2 DEF OpNames, Steps
    <2>3. [Begin("lineDiscount", "readLine", o) EXCEPT
             !.line = l, !.ask = d] \in Job
      BY <2>2, AmountsAssumption DEF Job
    <2> QED
      BY <1>13, <2>1, <2>3, JobUpdate DEF TypeOK, SetItemDiscount
  <1>14. ASSUME NEW l \in Lines, UpdateItemStatus(w, o, l)
         PROVE  TypeOK'
    BY <1>14, StatusesAssumption DEF UpdateItemStatus, TypeOK, LineRow
  <1> QED
    BY <1>1, <1>3, <1>4, <1>5, <1>6, <1>7, <1>8, <1>9, <1>10, <1>11, <1>12, <1>13, <1>14

LEMMA TypeJobOnly ==
  ASSUME TypeOK, job' \in [Workers -> Job],
         UNCHANGED <<orders, lines, tickets, rooms, paid, sold, ledger>>
  PROVE  TypeOK'
  BY DEF TypeOK

LEMMA TypeContinue ==
  ASSUME TypeOK, NEW w \in Workers, Continue(w)
  PROVE  TypeOK'
  <1> DEFINE j == job[w]
  <1>j. /\ j \in Job
        /\ j.order \in Orders \cup {NoOrder} /\ j.row \in LineRow
        /\ j.ask \in Int /\ j.delta \in Int /\ j.owed \in Int
        /\ j.paying \in Nat /\ j.paid \in Nat /\ j.units \in [Lines -> Int]
    BY DEF TypeOK, Job
  <1>g. ASSUME NEW step \in Steps, Goto(w, step) PROVE job' \in [Workers -> Job]
    BY <1>g, GotoType
  <1>d. Done(w) => job' \in [Workers -> Job]
    BY DoneType
  <1>b. Balance(j) \in Nat
    <2>1. j.owed - j.paid \in Int
      BY <1>j
    <2> QED
      BY <2>1 DEF Balance, AtLeast
  <1>1. CASE BumpTotal(w)
    <2>1. orders' \in [Orders -> OrderRow]
      <3> DEFINE row == [orders[j.order] EXCEPT !.total = @ + j.delta]
      <3>1. ASSUME j.order \in Orders PROVE row \in OrderRow
        <4>1. orders[j.order] \in OrderRow
          BY <3>1 DEF TypeOK
        <4>2. orders[j.order].total + j.delta \in Int
          BY <4>1, <1>j DEF OrderRow
        <4> QED
          BY <4>1, <4>2 DEF OrderRow
      <3>2. orders' = [orders EXCEPT ![j.order] = row]
        BY <1>1 DEF BumpTotal
      <3> HIDE DEF row
      <3> QED
        BY <3>1, <3>2, OrderUpdate
    <2>2. job' \in [Workers -> Job]
      BY <1>1, <1>g, <1>d DEF BumpTotal, Steps
    <2> QED
      BY <1>1, <2>1, <2>2 DEF BumpTotal, TypeOK
  <1>2. CASE InsertLine(w)
    <2>1. lines' \in [Lines -> LineRow]
      BY <1>2, <1>j DEF InsertLine, TypeOK
    <2>2. job' \in [Workers -> Job]
      BY <1>2, <1>g DEF InsertLine, Steps
    <2> QED
      BY <1>2, <2>1, <2>2 DEF InsertLine, TypeOK
  <1>3. CASE CheckIn(w)
    BY <1>3, <1>j, <1>d DEF CheckIn, TypeOK, RoomRow
  <1>4. CASE RereadLine(w)
    <2>1. CASE j.line \in LinesOf(j.order)
      <3>1. j.line \in Lines
        BY <2>1 DEF LinesOf
      <3> QED
        BY <1>4, <1>j, <2>1, <3>1, ReadToRemoveType, TypeJobOnly DEF RereadLine
    <2>2. CASE j.line \notin LinesOf(j.order)
      BY <1>4, <1>d, <2>2, TypeJobOnly DEF RereadLine
    <2> QED
      BY <2>1, <2>2
  <1>5. CASE DeleteLine(w)
    <2>1. lines' \in [Lines -> LineRow]
      BY <1>5 DEF DeleteLine, TypeOK, LineRow, NoRow
    <2>2. job' \in [Workers -> Job]
      BY <1>5, <1>g, <1>d DEF DeleteLine, Steps
    <2> QED
      BY <1>5, <2>1, <2>2 DEF DeleteLine, TypeOK
  <1>6. CASE ReadOrder(w)
    <2> DEFINE row   == [j.row EXCEPT !.qty = j.ask]
               delta == LineTotal(row) - LineTotal(j.row)
    <2>1. row \in LineRow
      BY <1>j DEF LineRow
    <2>2. delta \in Int
      <3>1. LineTotal(row) \in Int /\ LineTotal(j.row) \in Int
        BY <1>j, <2>1, RowArithmetic
      <3> HIDE DEF row
      <3> QED
        BY <3>1
    <2>3. \/ Done(w) \/ Goto(w, "rereadLine")
          \/ job' = [job EXCEPT ![w].step = "setQuantity", ![w].delta = delta]
      BY <1>6 DEF ReadOrder
    <2> HIDE DEF delta
    <2> DEFINE new == [j EXCEPT !.step = "setQuantity", !.delta = delta]
    <2>4. new \in Job
      BY <1>j, <2>2 DEF Job, Steps
    <2>5. \/ Done(w) \/ Goto(w, "rereadLine") \/ job' = [job EXCEPT ![w] = new]
      BY <2>3
    <2> HIDE DEF new
    <2>6. job' \in [Workers -> Job]
      BY <2>4, <2>5, <1>d, <1>g, JobUpdate DEF Steps
    <2> QED
      BY <1>6, <2>6, TypeJobOnly DEF ReadOrder
  <1>7. CASE SetQuantity(w)
    <2>1. lines' \in [Lines -> LineRow]
      <3> DEFINE row == [lines[j.line] EXCEPT !.qty = IF Exists(j.line) THEN j.ask ELSE @]
      <3>1. ASSUME j.line \in Lines PROVE row \in LineRow
        BY <3>1, <1>j DEF TypeOK, LineRow
      <3>2. lines' = [lines EXCEPT ![j.line] = row]
        BY <1>7 DEF SetQuantity
      <3> HIDE DEF row
      <3> QED
        BY <3>1, <3>2, LineUpdate
    <2>2. job' \in [Workers -> Job]
      BY <1>7, <1>g DEF SetQuantity, Steps
    <2> QED
      BY <1>7, <2>1, <2>2 DEF SetQuantity, TypeOK
  <1>8. CASE ReadLine(w)
    <2>1. CASE j.line \in LinesOf(j.order)
      <3> DEFINE row   == lines[j.line]
                 ask   == Clamped(j.ask, row)
                 delta == row.discount - ask
      <3>1. row \in LineRow
        BY <2>1 DEF TypeOK, LinesOf
      <3>2. ask \in Int
        BY <1>j, <3>1, RowArithmetic DEF Clamped, AtMost, AtLeast
      <3>3. row.discount \in Int
        BY <3>1 DEF LineRow
      <3>4. job' = [job EXCEPT ![w].step = "setDiscount", ![w].row = row,
                                ![w].ask = ask, ![w].delta = delta]
        BY <1>8, <2>1 DEF ReadLine
      <3> HIDE DEF row, ask
      <3>5. delta \in Int
        BY <3>2, <3>3
      <3> HIDE DEF delta
      <3> DEFINE new == [j EXCEPT !.step = "setDiscount", !.row = row,
                                  !.ask = ask, !.delta = delta]
      <3>6. new \in Job
        BY <1>j, <3>1, <3>2, <3>5 DEF Job, Steps
      <3>7. job' = [job EXCEPT ![w] = new]
        BY <3>4
      <3> HIDE DEF new
      <3>8. job' \in [Workers -> Job]
        BY <3>6, <3>7, JobUpdate
      <3> QED
        BY <1>8, <3>8, TypeJobOnly DEF ReadLine
    <2>2. CASE j.line \notin LinesOf(j.order)
      BY <1>8, <1>d, <2>2, TypeJobOnly DEF ReadLine
    <2> QED
      BY <2>1, <2>2
  <1>9. CASE SetDiscount(w)
    <2>1. lines' \in [Lines -> LineRow]
      <3> DEFINE row == [lines[j.line] EXCEPT !.discount = IF Exists(j.line) THEN j.ask ELSE @]
      <3>1. ASSUME j.line \in Lines PROVE row \in LineRow
        BY <3>1, <1>j DEF TypeOK, LineRow
      <3>2. lines' = [lines EXCEPT ![j.line] = row]
        BY <1>9 DEF SetDiscount
      <3> HIDE DEF row
      <3> QED
        BY <3>1, <3>2, LineUpdate
    <2>2. job' \in [Workers -> Job]
      BY <1>9, <1>g DEF SetDiscount, Steps
    <2> QED
      BY <1>9, <2>1, <2>2 DEF SetDiscount, TypeOK
  <1>10. CASE InsertTicket(w)
    <2>1. tickets' \in [Tickets -> TicketRow]
      <3> DEFINE row == [tickets[j.ticket] EXCEPT !.status = "pending", !.order = j.order]
      <3>1. ASSUME j.ticket \in Tickets PROVE row \in TicketRow
        <4>1. tickets[j.ticket] \in TicketRow
          BY <3>1 DEF TypeOK
        <4>2. j.order \in Orders \cup {NoOrder}
          BY <1>j
        <4> HIDE DEF j
        <4> QED
          BY <4>1, <4>2 DEF TicketRow
      <3>2. tickets' = [tickets EXCEPT ![j.ticket] = row]
        BY <1>10 DEF InsertTicket
      <3> HIDE DEF row
      <3> QED
        BY <3>1, <3>2, TicketUpdate
    <2>2. job' \in [Workers -> Job]
      BY <1>10, <1>g DEF InsertTicket, Steps
    <2> QED
      BY <1>10, <2>1, <2>2 DEF InsertTicket, TypeOK
  <1>11. CASE MarkProcessing(w)
    <2>1. lines' \in [Lines -> LineRow]
      <3>1. \A l \in Lines : lines[l] \in LineRow
        BY DEF TypeOK
      <3>2. \A r \in LineRow : [r EXCEPT !.status = "processing"] \in LineRow
        BY DEF LineRow
      <3>3. lines' = [l \in Lines |->
                       IF l \in LinesOf(j.order) /\ lines[l].status = "new"
                         THEN [lines[l] EXCEPT !.status = "processing"]
                         ELSE lines[l]]
        BY <1>11 DEF MarkProcessing
      <3> QED
        BY <3>1, <3>2, <3>3
    <2> QED
      BY <1>11, <1>d, <2>1 DEF MarkProcessing, TypeOK
  <1>12. CASE RevertRooms(w)
    <2>1. rooms' \in [Rooms -> RoomRow]
      BY <1>12 DEF RevertRooms, TypeOK, RoomRow
    <2> QED
      BY <1>12, <1>d, <2>1 DEF RevertRooms, TypeOK
  <1>13. CASE ReadCosts(w)
    <2> DEFINE units == [l \in Lines |-> IF l \in LinesOf(j.order)
                                           THEN LineCost(lines[l]) ELSE 0]
    <2>1. \A l \in Lines : LineCost(lines[l]) \in Int
      BY RowArithmetic DEF TypeOK
    <2>2. units \in [Lines -> Int]
      BY <2>1
    <2>3. job' = [job EXCEPT ![w].step = "addCosts", ![w].units = units]
      BY <1>13 DEF ReadCosts
    <2> HIDE DEF units
    <2> DEFINE new == [j EXCEPT !.step = "addCosts", !.units = units]
    <2>4. new \in Job
      BY <1>j, <2>2 DEF Job, Steps
    <2>5. job' = [job EXCEPT ![w] = new]
      BY <2>3
    <2> HIDE DEF new
    <2>6. job' \in [Workers -> Job]
      BY <2>4, <2>5, JobUpdate
    <2> QED
      BY <1>13, <2>6, TypeJobOnly DEF ReadCosts
  <1>14. CASE CheckCost(w)
    <2>1. job' \in [Workers -> Job]
      BY <1>14, <1>g, <1>d DEF CheckCost, Steps
    <2> QED
      BY <1>14, <2>1, TypeJobOnly DEF CheckCost
  <1>15. CASE InsertPayment(w)
    <2>1. PICK a \in 1..j.paying :
            /\ paid' = [paid EXCEPT ![j.order] = @ + a]
            /\ job' = [job EXCEPT ![w].paying = @ - a]
      BY <1>15 DEF InsertPayment
    <2>2. a \in Nat /\ j.paying - a \in Nat
      BY <1>j
    <2>3. paid' \in [Orders -> Nat]
      <3>1. paid \in [Orders -> Nat]
        BY DEF TypeOK
      <3>2. \A n \in Nat : n + a \in Nat
        BY <2>2
      <3> QED
        BY <2>1, <3>1, <3>2
    <2> DEFINE new == [j EXCEPT !.paying = @ - a]
    <2>4. new \in Job
      BY <1>j, <2>2 DEF Job
    <2>5. job' = [job EXCEPT ![w] = new]
      BY <2>1
    <2> HIDE DEF new
    <2>6. job' \in [Workers -> Job]
      BY <2>4, <2>5, JobUpdate
    <2> QED
      BY <1>15, <2>3, <2>6 DEF InsertPayment, TypeOK
  <1>16. CASE CloseOrder(w)
    <2>1. orders' \in [Orders -> OrderRow]
      <3> DEFINE row == [orders[j.order] EXCEPT !.status = ClosingStatus(j),
                                !.total = j.owed, !.balance = Balance(j)]
      <3>1. ASSUME j.order \in Orders PROVE row \in OrderRow
        BY <3>1, <1>j, <1>b DEF ClosingStatus, TypeOK, OrderRow
      <3>2. orders' = [orders EXCEPT ![j.order] = row]
        BY <1>16 DEF CloseOrder
      <3> HIDE DEF row
      <3> QED
        BY <3>1, <3>2, OrderUpdate
    <2>2. job' \in [Workers -> Job]
      BY <1>16, <1>g DEF CloseOrder, Steps
    <2> QED
      BY <1>16, <2>1, <2>2 DEF CloseOrder, TypeOK
  <1>17. CASE CloseTab(w)
    <2>1. orders' \in [Orders -> OrderRow]
      <3> DEFINE row == [orders[j.order] EXCEPT !.status = ClosingStatus(j),
                                                !.balance = Balance(j)]
      <3>1. ASSUME j.order \in Orders PROVE row \in OrderRow
        BY <3>1, <1>b DEF ClosingStatus, TypeOK, OrderRow
      <3>2. orders' = [orders EXCEPT ![j.order] = row]
        BY <1>17 DEF CloseTab
      <3> HIDE DEF row
      <3> QED
        BY <3>1, <3>2, OrderUpdate
    <2> QED
      BY <1>17, <1>d, <2>1 DEF CloseTab, TypeOK
  <1>18. CASE MarkPaid(w)
    <2>1. lines' \in [Lines -> LineRow]
      BY <1>18 DEF MarkPaid, TypeOK, LineRow
    <2>2. job' \in [Workers -> Job]
      BY <1>18, <1>g DEF MarkPaid, Steps
    <2> QED
      BY <1>18, <2>1, <2>2 DEF MarkPaid, TypeOK
  <1>19. CASE CompleteTickets(w)
    <2>1. tickets' \in [Tickets -> TicketRow]
      BY <1>19 DEF CompleteTickets, TypeOK, TicketRow
    <2>2. job' \in [Workers -> Job]
      BY <1>19, <1>g DEF CompleteTickets, Steps
    <2> QED
      BY <1>19, <2>1, <2>2 DEF CompleteTickets, TypeOK
  <1>20. CASE ReadSold(w)
    <2> DEFINE units == UnitsOf({l \in LinesOf(j.order) : lines[l].item # NoItem})
    <2>1. units \in [Lines -> Int]
      BY UnitsType
    <2>2. job' = [job EXCEPT ![w].step = "deductStock", ![w].units = units]
      BY <1>20 DEF ReadSold
    <2> HIDE DEF units
    <2> DEFINE new == [j EXCEPT !.step = "deductStock", !.units = units]
    <2>3. new \in Job
      BY <1>j, <2>1 DEF Job, Steps
    <2>4. job' = [job EXCEPT ![w] = new]
      BY <2>2
    <2> HIDE DEF new
    <2>5. job' \in [Workers -> Job]
      BY <2>3, <2>4, JobUpdate
    <2> QED
      BY <1>20, <2>5, TypeJobOnly DEF ReadSold
  <1>21. CASE CreditLedger(w)
    <2>1. ledger' \in [Orders -> Int]
      <3>1. ledger \in [Orders -> Int]
        BY DEF TypeOK
      <3>2. \A n \in Int : n + j.owed \in Int
        BY <1>j
      <3> QED
        BY <1>21, <3>1, <3>2 DEF CreditLedger
    <2> QED
      BY <1>21, <1>d, <2>1 DEF CreditLedger, TypeOK
  <1>22. ASSUME NEW l \in Lines, InsertTicketItem(w, l)
         PROVE  TypeOK'
    <2> DEFINE new == [j EXCEPT !.units[l] = 0]
    <2>1. new \in Job
      BY <1>j DEF Job
    <2>2. \/ job' = [job EXCEPT ![w] = new]
          \/ Done(w)
      BY <1>22 DEF InsertTicketItem
    <2> HIDE DEF new
    <2>3. job' \in [Workers -> Job]
      BY <2>1, <2>2, <1>d, JobUpdate
    <2>4. tickets' \in [Tickets -> TicketRow]
      <3> DEFINE row == [tickets[j.ticket] EXCEPT !.items[l] = "new"]
      <3>1. ASSUME j.ticket \in Tickets PROVE row \in TicketRow
        <4>1. tickets[j.ticket] \in TicketRow
          BY <3>1 DEF TypeOK
        <4>2. [tickets[j.ticket].items EXCEPT ![l] = "new"] \in
                [Lines -> {"none", "new", "processing", "dispatched"}]
          BY <4>1 DEF TicketRow
        <4> QED
          BY <4>1, <4>2 DEF TicketRow
      <3>2. tickets' = [tickets EXCEPT ![j.ticket] = row] \/ UNCHANGED tickets
        BY <1>22 DEF InsertTicketItem
      <3> HIDE DEF row
      <3> QED
        BY <3>1, <3>2, TicketUpdate DEF TypeOK
    <2> QED
      BY <1>22, <2>3, <2>4 DEF InsertTicketItem, TypeOK
  <1>23. ASSUME NEW l \in Lines, AddCost(w, l)
         PROVE  TypeOK'
    <2> DEFINE owed == j.owed + j.units[l]
    <2>1. owed \in Int
      BY <1>j
    <2>2. job' = [job EXCEPT ![w].owed = owed, ![w].units[l] = 0]
      BY <1>23 DEF AddCost
    <2> HIDE DEF owed
    <2> DEFINE new == [j EXCEPT !.owed = owed, !.units[l] = 0]
    <2>u. [j.units EXCEPT ![l] = 0] \in [Lines -> Int]
      BY <1>j
    <2>3. new \in Job
      BY <1>j, <2>1, <2>u DEF Job
    <2>4. job' = [job EXCEPT ![w] = new]
      BY <2>2
    <2> HIDE DEF new
    <2>5. job' \in [Workers -> Job]
      BY <2>3, <2>4, JobUpdate
    <2> QED
      BY <1>23, <2>5, TypeJobOnly DEF AddCost
  <1>24. ASSUME NEW l \in Lines, DeductStock(w, l)
         PROVE  TypeOK'
    <2>1. sold' \in [Lines -> Int]
      BY <1>24, <1>j DEF DeductStock, TypeOK
    <2> DEFINE new == [j EXCEPT !.units[l] = 0]
    <2>2. new \in Job
      BY <1>j DEF Job
    <2>3. job' = [job EXCEPT ![w] = new]
      BY <1>24 DEF DeductStock
    <2> HIDE DEF new
    <2>4. job' \in [Workers -> Job]
      BY <2>2, <2>3, JobUpdate
    <2> QED
      BY <1>24, <2>1, <2>4 DEF DeductStock, TypeOK
  <1> QED
    BY <1>1, <1>2, <1>3, <1>4, <1>5, <1>6, <1>7, <1>8, <1>9, <1>10, <1>11, <1>12,
       <1>13, <1>14, <1>15, <1>16, <1>17, <1>18, <1>19, <1>20, <1>21, <1>22,
       <1>23, <1>24 DEF Continue

LEMMA TypeStep == TypeOK /\ [Next]_vars => TypeOK'
  <1> SUFFICES ASSUME TypeOK, [Next]_vars PROVE TypeOK'
    OBVIOUS
  <1>1. ASSUME NEW w \in Workers, Interrupt(w) PROVE TypeOK'
    BY <1>1, DoneType, TypeJobOnly DEF Interrupt
  <1>2. CASE UNCHANGED vars
    BY <1>2 DEF vars, TypeOK
  <1> QED
    BY <1>1, <1>2, TypeArrive, TypeContinue DEF Next

\* Every column and every local variable keeps its type: no balance and no payment
\* ever goes below zero, although both are computed by subtraction (service.rs:
\* checkout and pay_tab).
THEOREM TypeCorrect == Spec => []TypeOK
  BY InitType, TypeStep, PTL DEF Spec

-----------------------------------------------------------------------------
(***************************************************************************)
(* Debts and bookings. Both invariants depend on what requests read before *)
(* other requests ran, so the inductive invariant says that too.           *)
(***************************************************************************)

\* Keys are used in order: a line nobody inserted yet has sold nothing, and what
\* exists belongs to an order.
KeysSound ==
    /\ \A l \in Lines : lines[l].status = "none" => sold[l] = 0
    /\ \A l \in Lines : Exists(l) => lines[l].order \in Orders
    /\ \A t \in Tickets : tickets[t].status # "none" => tickets[t].order \in Orders

IInv ==
    /\ TypeOK
    /\ DebtIsVisible
    /\ BookedMeansClosed
    /\ KeysSound
    /\ ReadsStayTrue

\* What no step takes back: a closed bill stays closed, a customer stays known, a
\* line in use is never unused again, and it stays with its order while it exists.
Keeps ==
    /\ \A o \in Orders :
          /\ Closed(o) => Closed(o)'
          /\ orders[o].customer # NoCustomer => orders'[o].customer # NoCustomer
    /\ \A l \in Lines : lines[l].status # "none" =>
          /\ lines'[l].status # "none"
          /\ Exists(l)' => Exists(l) /\ lines'[l].order = lines[l].order

\* No line another worker is about to insert is touched.
LeavesFresh(w) ==
    \A v \in Workers \ {w} : At(v, "insertLine") => lines'[job[v].line].status = "none"

LEMMA ReadsKept ==
  ASSUME Keeps, NEW j \in Job, ReadsHold(j),
         j.step = "insertLine" => lines'[j.line].status = "none"
  PROVE  ReadsHold(j)'
  <1>1. /\ j.order \in Orders
        /\ j.mayOwe => orders'[j.order].customer # NoCustomer
        /\ j.step = "insertPayments" /\ Balance(j) > 0 =>
             orders'[j.order].customer # NoCustomer
        /\ j.step \in Booking => Closed(j.order)'
    BY DEF ReadsHold, Keeps
  <1>2. j.step = "insertLine" =>
          /\ j.op = "add" /\ j.line \in Lines /\ j.row.status = "new"
          /\ j.row.order = j.order
          /\ lines'[j.line].status = "none"
    BY DEF ReadsHold
  <1>d. j.step = "deleteLine" => j.line \in Lines /\ lines'[j.line].status # "none"
    BY DEF ReadsHold, Keeps
  <1>3. j.step = "deductStock" =>
          \A l \in Lines : j.units[l] # 0 =>
             /\ lines'[l].status # "none"
             /\ Exists(l)' => lines'[l].order = j.order
    BY DEF ReadsHold, Keeps
  <1> QED
    BY <1>1, <1>2, <1>d, <1>3 DEF ReadsHold

\* A step of w that leaves it at j disturbs nobody else.
LEMMA ReadsStep ==
  ASSUME TypeOK, ReadsStayTrue, Keeps, NEW w \in Workers, LeavesFresh(w),
         NEW j \in Job, job' = [job EXCEPT ![w] = j], j.step # "insertLine",
         j.step # "idle" => ReadsHold(j)'
  PROVE  ReadsStayTrue'
  <1>1. ASSUME NEW v \in Workers, v # w, job'[v].step # "idle"
        PROVE  ReadsHold(job[v])'
    <2> DEFINE k == job[v]
    <2>1. k \in Job /\ job'[v] = k
      BY <1>1 DEF TypeOK
    <2>2. ReadsHold(k)
      BY <1>1, <2>1 DEF ReadsStayTrue, At
    <2>3. k.step = "insertLine" => lines'[k.line].status = "none"
      BY <1>1 DEF LeavesFresh, At
    <2> SUFFICES ASSUME NEW m \in Job, m = k PROVE ReadsHold(m)'
      BY <2>1
    <2> QED
      BY <2>2, <2>3, ReadsKept
  <1>2. job'[w] = j
    BY DEF TypeOK
  <1>3. ASSUME NEW v \in Workers, job'[v].step # "idle" PROVE ReadsHold(job[v])'
    BY <1>1, <1>2, <1>3
  <1>4. ASSUME NEW u \in Workers, NEW v \in Workers \ {u},
               job'[u].step = "insertLine", job'[v].step = "insertLine"
        PROVE  job'[u].line # job'[v].line
    BY <1>2, <1>4 DEF ReadsStayTrue, At, TypeOK
  <1> QED
    BY <1>3, <1>4 DEF ReadsStayTrue, At

\* The steps that lean on what was read hold these names.
Delicate == {"insertPayments", "insertLine", "deleteLine"} \cup Booking

LEMMA PlainStep ==
  ASSUME Keeps, NEW j \in Job, ReadsHold(j), NEW k \in Job,
         k.order = j.order, k.mayOwe = j.mayOwe, k.step \notin Delicate
  PROVE  ReadsHold(k)'
  BY DEF ReadsHold, Keeps, Delicate, Booking

LEMMA UntouchedReads ==
  ASSUME ReadsStayTrue, NEW w \in Workers, UNCHANGED <<orders, lines>>
  PROVE  Keeps /\ LeavesFresh(w)
  BY DEF ReadsStayTrue, ReadsHold, Keeps, LeavesFresh, Closed, Exists, At

LEMMA UntouchedBooks ==
  ASSUME DebtIsVisible, BookedMeansClosed, KeysSound,
         UNCHANGED <<orders, lines, tickets, sold, ledger>>
  PROVE  (DebtIsVisible /\ BookedMeansClosed /\ KeysSound)'
  BY DEF DebtIsVisible, BookedMeansClosed, KeysSound, Closed, Exists

\* Bills may change, as long as the closed ones stay closed.
LEMMA BooksKept ==
  ASSUME BookedMeansClosed, KeysSound, Keeps, UNCHANGED <<lines, tickets, sold, ledger>>
  PROVE  (BookedMeansClosed /\ KeysSound)'
  <1>1. KeysSound'
    BY DEF KeysSound, Exists
  <1>2. \A o \in Orders : Closed(o) => Closed(o)'
    BY DEF Keeps
  <1>3. \A o \in Orders : ledger'[o] # 0 => Closed(o)'
    BY <1>2 DEF BookedMeansClosed
  <1>4. ASSUME NEW l \in Lines, Exists(l)', sold'[l] # 0
        PROVE  Closed(lines[l].order)'
    <2>1. Exists(l) /\ sold[l] # 0
      BY <1>4 DEF Exists
    <2>2. lines'[l].order = lines[l].order /\ lines[l].order \in Orders
      BY <2>1 DEF KeysSound
    <2>3. Closed(lines[l].order)
      BY <2>1 DEF BookedMeansClosed
    <2>4. \A o \in Orders : o = lines[l].order => Closed(o)'
      BY <1>2, <2>3
    <2> QED
      BY <2>2, <2>4 DEF Closed
  <1>5. ASSUME NEW t \in Tickets, tickets'[t].status = "completed"
        PROVE  Closed(tickets[t].order)'
    <2>1. tickets[t].status = "completed" /\ tickets[t].order \in Orders
      BY <1>5 DEF KeysSound
    <2>2. Closed(tickets[t].order)
      BY <2>1 DEF BookedMeansClosed
    <2>3. \A o \in Orders : o = tickets[t].order => Closed(o)'
      BY <1>2, <2>2
    <2> QED
      BY <2>1, <2>3 DEF Closed
  <1> QED
    BY <1>1, <1>3, <1>4, <1>5 DEF BookedMeansClosed

\* A step that changes no table the invariants speak of.
LEMMA JobStep ==
  ASSUME IInv, TypeOK', NEW w \in Workers, NEW j \in Job,
         job' = [job EXCEPT ![w] = j], j.step # "insertLine",
         j.step # "idle" => ReadsHold(j)',
         UNCHANGED <<orders, lines, tickets, sold, ledger>>
  PROVE  IInv'
  BY ReadsStep, UntouchedReads, UntouchedBooks DEF IInv

LEMMA DoneStep ==
  ASSUME IInv, TypeOK', NEW w \in Workers, Done(w),
         UNCHANGED <<orders, lines, tickets, sold, ledger>>
  PROVE  IInv'
  BY JobStep, NoJobType DEF Done, NoJob

\* A request begins with order o and nothing to lean on but the customer.
LEMMA BeginStep ==
  ASSUME IInv, TypeOK', NEW w \in Workers, NEW j \in Job,
         job' = [job EXCEPT ![w] = j], j.order \in Orders,
         j.mayOwe => orders[j.order].customer # NoCustomer,
         j.step \notin {"insertLine"} \cup Booking,
         j.step = "deleteLine" => j.line \in Lines /\ lines[j.line].status # "none",
         j.step = "insertPayments" /\ Balance(j) > 0 =>
            orders[j.order].customer # NoCustomer,
         UNCHANGED <<orders, lines, tickets, sold, ledger>>
  PROVE  IInv'
  <1>1. ReadsHold(j)'
    BY DEF ReadsHold, Booking
  <1> QED
    BY <1>1, JobStep

LEMMA IInvInit == Init => IInv
  <1> SUFFICES ASSUME Init PROVE IInv
    OBVIOUS
  <1>1. TypeOK
    BY InitType
  <1>2. DebtIsVisible /\ BookedMeansClosed /\ KeysSound
    BY DEF Init, DebtIsVisible, BookedMeansClosed, KeysSound, Exists, NoRow
  <1>3. ReadsStayTrue
    BY DEF Init, ReadsStayTrue, At, NoJob
  <1> QED
    BY <1>1, <1>2, <1>3 DEF IInv

LEMMA IInvArrive ==
  ASSUME IInv, NEW w \in Workers, Arrive(w), TypeOK'
  PROVE  IInv'
  <1>0. PICK o \in Orders :
          \/ CreateOrder(w, o) \/ ApplyDiscount(w, o) \/ AttachCustomer(w, o)
          \/ VoidOrder(w, o) \/ Checkout(w, o) \/ PayTab(w, o)
          \/ \E t \in Tickets : SendToKitchen(w, o, t)
          \/ \E l \in Lines :
                \/ AddItem(w, o, l) \/ RemoveItem(w, o, l)
                \/ UpdateItemQuantity(w, o, l) \/ SetItemDiscount(w, o, l)
                \/ UpdateItemStatus(w, o, l)
    BY DEF Arrive
  <1>t. TypeOK /\ job[w] \in Job /\ job'[w] \in Job
    BY DEF IInv, TypeOK
  <1>s. ASSUME job' = job, At(w, "idle"), Keeps, LeavesFresh(w)
        PROVE  ReadsStayTrue'
    <2>1. job' = [job EXCEPT ![w] = job[w]]
      BY <1>s DEF IInv, TypeOK
    <2> QED
      BY <1>s, <1>t, <2>1, ReadsStep DEF IInv, At
  <1>1. CASE CreateOrder(w, o)
    <2>1. Keeps /\ LeavesFresh(w)
      BY <1>1, <1>t DEF CreateOrder, IInv, ReadsStayTrue, ReadsHold, Keeps, LeavesFresh,
                        Closed, Exists, At, TypeOK, OrderRow
    <2>2. ReadsStayTrue'
      BY <1>1, <1>s, <2>1 DEF CreateOrder
    <2>3. DebtIsVisible'
      BY <1>1, <1>t DEF CreateOrder, IInv, DebtIsVisible, TypeOK, OrderRow
    <2>4. (BookedMeansClosed /\ KeysSound)'
      BY <1>1, <2>1, BooksKept DEF CreateOrder, IInv
    <2> QED
      BY <2>2, <2>3, <2>4 DEF IInv
  <1>2. CASE ApplyDiscount(w, o) \/ AttachCustomer(w, o)
    <2>1. \A p \in Orders :
             /\ orders'[p].status = orders[p].status
             /\ orders'[p].balance = orders[p].balance
             /\ orders[p].customer # NoCustomer => orders'[p].customer # NoCustomer
      BY <1>2, <1>t, NullsAssumption DEF ApplyDiscount, AttachCustomer, TypeOK, OrderRow
    <2>2. UNCHANGED <<lines, tickets, sold, ledger, job>> /\ At(w, "idle")
      BY <1>2 DEF ApplyDiscount, AttachCustomer, Takes
    <2>3. Keeps /\ LeavesFresh(w)
      BY <2>1, <2>2 DEF IInv, ReadsStayTrue, ReadsHold, Keeps, LeavesFresh,
                        Closed, Exists, At
    <2>4. ReadsStayTrue'
      BY <1>s, <2>2, <2>3
    <2>5. DebtIsVisible'
      BY <2>1 DEF IInv, DebtIsVisible
    <2>6. (BookedMeansClosed /\ KeysSound)'
      BY <2>2, <2>3, BooksKept DEF IInv
    <2> QED
      BY <2>4, <2>5, <2>6 DEF IInv
  <1>3. CASE VoidOrder(w, o)
    <2>1. Keeps /\ LeavesFresh(w)
      BY <1>3, <1>t DEF VoidOrder, IInv, ReadsStayTrue, ReadsHold, Keeps, LeavesFresh,
                        Closed, Exists, At, TypeOK, OrderRow
    <2>2. /\ job' = [job EXCEPT ![w] = job'[w]]
          /\ job'[w].step = "revertRooms" /\ job'[w].order = o /\ ~job'[w].mayOwe
      BY <1>3, <1>t DEF VoidOrder, Begin, NoJob, TypeOK
    <2>3. ReadsHold(job[w])'
      BY <2>2 DEF ReadsHold, Booking
    <2>4. ReadsStayTrue'
      BY <1>t, <2>1, <2>2, <2>3, ReadsStep DEF IInv
    <2>5. DebtIsVisible'
      BY <1>3, <1>t DEF VoidOrder, IInv, DebtIsVisible, TypeOK, OrderRow
    <2>6. (BookedMeansClosed /\ KeysSound)'
      BY <1>3, <2>1, BooksKept DEF VoidOrder, IInv
    <2> QED
      BY <2>4, <2>5, <2>6 DEF IInv
  <1>b. ASSUME NEW j \in Job, job' = [job EXCEPT ![w] = j], j.order = o,
               j.step \notin {"insertLine"} \cup Booking,
               j.step = "deleteLine" => j.line \in Lines /\ lines[j.line].status # "none",
               j.mayOwe => orders[o].customer # NoCustomer,
               j.step = "insertPayments" /\ Balance(j) > 0 =>
                  orders[o].customer # NoCustomer,
               UNCHANGED <<orders, lines, tickets, rooms, paid, sold, ledger>>
        PROVE  IInv'
    BY <1>b, BeginStep
  <1>w. ASSUME NEW j, job' = [job EXCEPT ![w] = j] PROVE j \in Job
    BY <1>w, <1>t DEF TypeOK
  <1>4. CASE Checkout(w, o)
    <2>1. PICK p \in Payments, mayOwe \in BOOLEAN :
            /\ mayOwe => orders[o].customer # NoCustomer
            /\ \/ \E d \in Discounts :
                    LET owed == orders[o].total - orders[o].discount - d IN
                    /\ Accepts(owed, p, mayOwe)
                    /\ job' = [job EXCEPT ![w] =
                                 CheckoutJob(o, "insertPayments", owed, p, mayOwe)]
               \/ job' = [job EXCEPT ![w] = CheckoutJob(o, "insertPayments", 0, p, mayOwe)]
               \/ job' = [job EXCEPT ![w] = CheckoutJob(o, "readCosts", 0, p, mayOwe)]
      BY <1>4 DEF Checkout
    <2>2. PICK owed \in Int, step \in {"insertPayments", "readCosts"} :
            /\ job' = [job EXCEPT ![w] = CheckoutJob(o, step, owed, p, mayOwe)]
            /\ step = "insertPayments" => Accepts(owed, p, mayOwe)
      <3>1. \A d \in Discounts : orders[o].total - orders[o].discount - d \in Int
        BY <1>t, AmountsAssumption DEF TypeOK, OrderRow
      <3>2. Accepts(0, p, mayOwe)
        BY AmountsAssumption DEF Accepts
      <3> QED
        BY <2>1, <3>1, <3>2
    <2> DEFINE j == CheckoutJob(o, step, owed, p, mayOwe)
    <2>3. j \in Job
      BY <1>w, <2>2
    <2>4. /\ j.order = o /\ j.step = step /\ j.mayOwe = mayOwe
          /\ j.owed = owed /\ j.paid = p
      BY DEF CheckoutJob, Begin, NoJob
    <2>5. j.step = "insertPayments" /\ Balance(j) > 0 => mayOwe
      <3>1. owed - p > 0 => p < owed
        BY AmountsAssumption
      <3> QED
        BY <2>2, <2>4, <3>1 DEF Balance, AtLeast, Accepts
    <2>6. UNCHANGED <<orders, lines, tickets, rooms, paid, sold, ledger>>
      BY <1>4 DEF Checkout
    <2>7. job' = [job EXCEPT ![w] = j]
      BY <2>2
    <2> HIDE DEF j
    <2> QED
      BY <1>b, <2>1, <2>3, <2>4, <2>5, <2>6, <2>7 DEF Booking
  <1>5. CASE PayTab(w, o)
    <2>1. PICK p \in Payments \ {0} :
            job' = [job EXCEPT ![w] =
                      [Begin("payTab", "insertPayments", o) EXCEPT
                         !.owed = orders[o].balance, !.paying = p, !.paid = p]]
      BY <1>5 DEF PayTab
    <2> DEFINE j == [Begin("payTab", "insertPayments", o) EXCEPT
                       !.owed = orders[o].balance, !.paying = p, !.paid = p]
    <2>2. j \in Job
      BY <1>w, <2>1
    <2>3. j.order = o /\ j.step = "insertPayments" /\ ~j.mayOwe
      BY DEF Begin, NoJob
    <2>4. orders[o].customer # NoCustomer
      BY <1>5 DEF PayTab, IInv, DebtIsVisible
    <2>5. UNCHANGED <<orders, lines, tickets, rooms, paid, sold, ledger>>
      BY <1>5 DEF PayTab
    <2>6. job' = [job EXCEPT ![w] = j]
      BY <2>1
    <2> HIDE DEF j
    <2> QED
      BY <1>b, <2>2, <2>3, <2>4, <2>5, <2>6 DEF Booking
  <1>6. ASSUME NEW t \in Tickets, SendToKitchen(w, o, t)
        PROVE  IInv'
    <2> DEFINE j == [Begin("send", "insertTicket", o) EXCEPT
                       !.ticket = t,
                       !.units = UnitsOf({l \in LinesOf(o) : lines[l].status = "new"})]
    <2>1. j.order = o /\ j.step = "insertTicket" /\ ~j.mayOwe
      BY DEF Begin, NoJob
    <2>2. /\ job' = [job EXCEPT ![w] = j]
          /\ UNCHANGED <<orders, lines, tickets, rooms, paid, sold, ledger>>
      BY <1>6 DEF SendToKitchen
    <2>3. j \in Job
      BY <1>w, <2>2
    <2> HIDE DEF j
    <2> QED
      BY <1>b, <2>1, <2>2, <2>3 DEF Booking
  <1>7. ASSUME NEW l \in Lines, AddItem(w, o, l)
        PROVE  IInv'
    <2>1. PICK i \in Items \cup {NoItem}, q \in Quantities, p \in Prices :
            job' = [job EXCEPT ![w] =
                 [Begin("add", "insertLine", o) EXCEPT
                    !.line = l, !.delta = p * q,
                    !.row = [status |-> "new", order |-> o, item |-> i,
                             qty |-> q, price |-> p, discount |-> 0]]]
      BY <1>7 DEF AddItem
    <2> DEFINE j == job'[w]
    <2>2. /\ j.order = o /\ j.line = l /\ j.step = "insertLine" /\ j.op = "add"
          /\ ~j.mayOwe /\ j.row.status = "new" /\ j.row.order = o
      BY <1>t, <2>1 DEF TypeOK, Begin, NoJob
    <2>3. UNCHANGED <<orders, lines, tickets, sold, ledger>> /\ lines[l].status = "none"
      BY <1>7 DEF AddItem
    <2>4. ReadsHold(job[w])'
      BY <2>2, <2>3 DEF ReadsHold, Booking
    <2>5. \A v \in Workers \ {w} : job'[v] = job[v]
      BY <1>t, <2>1 DEF TypeOK
    <2>6. Keeps /\ LeavesFresh(w)
      BY <2>3, UntouchedReads DEF IInv
    <2>7. ASSUME NEW v \in Workers \ {w}, job[v].step # "idle"
          PROVE  ReadsHold(job[v])'
      <3>1. job[v] \in Job /\ ReadsHold(job[v])
        BY <1>t, <2>7 DEF IInv, TypeOK, ReadsStayTrue, At
      <3>2. job[v].step = "insertLine" => lines'[job[v].line].status = "none"
        BY <2>6 DEF LeavesFresh, At
      <3> SUFFICES ASSUME NEW k \in Job, k = job[v] PROVE ReadsHold(k)'
        BY <2>5, <3>1
      <3> QED
        BY <2>6, <3>1, <3>2, ReadsKept
    <2>8. \A v \in Workers \ {w} : job[v].step = "insertLine" => job[v].line # l
      BY <1>7 DEF AddItem, IInv, ReadsStayTrue, ReadsHold, At
    <2>9. ASSUME NEW u \in Workers, NEW v \in Workers \ {u},
                 job'[u].step = "insertLine", job'[v].step = "insertLine"
          PROVE  job'[v].line # job'[u].line
      BY <2>2, <2>5, <2>8, <2>9 DEF IInv, ReadsStayTrue, At
    <2>10. ASSUME NEW v \in Workers, job'[v].step # "idle" PROVE ReadsHold(job[v])'
      BY <2>4, <2>5, <2>7, <2>10
    <2>11. ReadsStayTrue'
      BY <2>9, <2>10 DEF ReadsStayTrue, At
    <2> QED
      BY <2>3, <2>11, UntouchedBooks DEF IInv
  <1>8. ASSUME NEW l \in Lines,
               RemoveItem(w, o, l) \/ UpdateItemQuantity(w, o, l) \/ SetItemDiscount(w, o, l)
        PROVE  IInv'
    <2> DEFINE j == job'[w]
    <2>1. /\ job' = [job EXCEPT ![w] = j]
          /\ j.step \in {"deleteLine", "readOrder", "readLine"}
          /\ j.order = o /\ j.line = l /\ ~j.mayOwe
      <3>1. CASE RemoveItem(w, o, l)
        <4> DEFINE row   == lines[l]
                   delta == -LineTotal(lines[l])
        <4>1. job' = [job EXCEPT ![w] =
                        [Begin("remove", "deleteLine", o) EXCEPT
                           !.step = "deleteLine", !.line = l, !.row = row, !.delta = delta]]
          BY <3>1 DEF RemoveItem, ReadToRemove
        <4> HIDE DEF row, delta
        <4> QED
          BY <1>t, <4>1 DEF TypeOK, Begin, NoJob
      <3>2. CASE UpdateItemQuantity(w, o, l)
        <4>1. PICK q \in Quantities :
                job' = [job EXCEPT ![w] =
                          [Begin("quantity", "readOrder", o) EXCEPT
                             !.line = l, !.row = lines[l], !.ask = q]]
          BY <3>2 DEF UpdateItemQuantity
        <4> QED
          BY <1>t, <4>1 DEF TypeOK, Begin, NoJob
      <3>3. CASE SetItemDiscount(w, o, l)
        <4>1. PICK d \in Discounts :
                job' = [job EXCEPT ![w] =
                          [Begin("lineDiscount", "readLine", o) EXCEPT
                             !.line = l, !.ask = d]]
          BY <3>3 DEF SetItemDiscount
        <4> QED
          BY <1>t, <4>1 DEF TypeOK, Begin, NoJob
      <3> QED
        BY <1>8, <3>1, <3>2, <3>3
    <2>2. UNCHANGED <<orders, lines, tickets, rooms, paid, sold, ledger>>
      BY <1>8 DEF RemoveItem, UpdateItemQuantity, SetItemDiscount
    <2>3. j \in Job
      BY <1>t
    <2>4. lines[l].status # "none"
      BY <1>8 DEF RemoveItem, UpdateItemQuantity, SetItemDiscount, TakesLine, LinesOf, Exists
    <2> HIDE DEF j
    <2> QED
      BY <1>b, <2>1, <2>2, <2>3, <2>4 DEF Booking
  <1>9. ASSUME NEW l \in Lines, UpdateItemStatus(w, o, l)
        PROVE  IInv'
    <2>1. l \in LinesOf(o) /\ At(w, "idle")
      BY <1>9 DEF UpdateItemStatus, TakesLine, Takes
    <2>2. /\ UNCHANGED <<orders, tickets, sold, ledger, job>>
          /\ lines'[l].status \in {"new", "processing", "dispatched", "paid", "other"}
          /\ lines'[l].order = lines[l].order
          /\ \A k \in Lines \ {l} : lines'[k] = lines[k]
      BY <1>9, <1>t, StatusesAssumption DEF UpdateItemStatus, TypeOK
    <2>3. Keeps /\ LeavesFresh(w)
      BY <2>1, <2>2 DEF IInv, ReadsStayTrue, ReadsHold, Keeps, LeavesFresh,
                        Closed, Exists, At, LinesOf
    <2>4. ReadsStayTrue'
      BY <1>s, <2>1, <2>2, <2>3
    <2>5. DebtIsVisible'
      BY <2>2 DEF IInv, DebtIsVisible
    <2>6. KeysSound'
      BY <2>1, <2>2 DEF IInv, KeysSound, Exists, LinesOf
    <2>7. BookedMeansClosed'
      BY <2>1, <2>2 DEF IInv, BookedMeansClosed, Closed, Exists, LinesOf
    <2> QED
      BY <2>4, <2>5, <2>6, <2>7 DEF IInv
  <1> QED
    BY <1>0, <1>1, <1>2, <1>3, <1>4, <1>5, <1>6, <1>7, <1>8, <1>9

LEMMA IInvContinue ==
  ASSUME IInv, NEW w \in Workers, Continue(w), TypeOK'
  PROVE  IInv'
  <1> DEFINE j == job[w]
             k == job'[w]
  <1>t. TypeOK /\ j \in Job /\ k \in Job
    BY DEF IInv, TypeOK
  <1>j. ReadsHold(j)
    <2>1. ~At(w, "idle")
      BY DEF Continue, BumpTotal, InsertLine, CheckIn, RereadLine, DeleteLine, ReadOrder,
             SetQuantity, ReadLine, SetDiscount, InsertTicket, MarkProcessing, RevertRooms,
             ReadCosts, CheckCost, InsertPayment, CloseOrder, CloseTab, MarkPaid,
             CompleteTickets, ReadSold, CreditLedger, InsertTicketItem, AddCost,
             DeductStock, At
    <2> QED
      BY <2>1 DEF IInv, ReadsStayTrue
  <1>k. ASSUME NEW m, job' = [job EXCEPT ![w] = m] PROVE m = k
    BY <1>k, <1>t DEF TypeOK
  \* The ways a step leaves its own request.
  <1>p. ASSUME NEW m \in Job, job' = [job EXCEPT ![w] = m],
               m.order = j.order, m.mayOwe = j.mayOwe, m.step \notin Delicate,
               Keeps, LeavesFresh(w)
        PROVE  ReadsStayTrue'
    <2>1. ReadsHold(m)'
      BY <1>j, <1>t, <1>p, PlainStep
    <2> QED
      BY <1>t, <1>p, <2>1, ReadsStep DEF IInv, Delicate
  <1>d. ASSUME Done(w), Keeps, LeavesFresh(w)
        PROVE  ReadsStayTrue'
    BY <1>t, <1>d, NoJobType, ReadsStep DEF Done, NoJob, IInv
  <1>g. ASSUME NEW step, Goto(w, step), step \notin Delicate, Keeps, LeavesFresh(w)
        PROVE  ReadsStayTrue'
    <2> DEFINE m == [j EXCEPT !.step = step]
    <2>1. job' = [job EXCEPT ![w] = m]
      BY <1>g DEF Goto
    <2>2. m.order = j.order /\ m.mayOwe = j.mayOwe /\ m.step = step
      BY <1>t DEF Job
    <2>3. m \in Job
      BY <1>k, <1>t, <2>1
    <2> HIDE DEF m
    <2> QED
      BY <1>g, <1>p, <2>1, <2>2, <2>3
  <1>q. ASSUME UNCHANGED <<orders, lines, tickets, sold, ledger>>,
               \/ Done(w)
               \/ \E step \in Steps \ Delicate : Goto(w, step)
        PROVE  IInv'
    <2>1. Keeps /\ LeavesFresh(w)
      BY <1>q, UntouchedReads DEF IInv
    <2>2. ReadsStayTrue'
      BY <1>q, <2>1, <1>d, <1>g
    <2> QED
      BY <1>q, <2>2, UntouchedBooks DEF IInv
  <1>r. ASSUME UNCHANGED <<orders, lines, tickets, sold, ledger>>,
               NEW m \in Job, job' = [job EXCEPT ![w] = m], m.order = j.order,
               m.mayOwe = j.mayOwe, m.step \notin Delicate
        PROVE  IInv'
    <2>1. Keeps /\ LeavesFresh(w)
      BY <1>r, UntouchedReads DEF IInv
    <2>2. ReadsStayTrue'
      BY <1>r, <2>1, <1>p
    <2> QED
      BY <1>r, <2>2, UntouchedBooks DEF IInv
  \* Steps that only read, or touch tables these invariants do not speak of.
  <1>1. CASE CheckIn(w) \/ RevertRooms(w)
    BY <1>1, <1>q DEF CheckIn, RevertRooms
  <1>2. CASE RereadLine(w)
    <2>1. UNCHANGED <<orders, lines, tickets, sold, ledger>>
      BY <1>2 DEF RereadLine
    <2>2. CASE j.line \in LinesOf(j.order)
      <3> DEFINE m == [j EXCEPT !.step = "deleteLine", !.line = j.line,
                                !.row = lines[j.line], !.delta = -LineTotal(lines[j.line])]
      <3>1. job' = [job EXCEPT ![w] = m]
        BY <1>2, <2>2 DEF RereadLine, ReadToRemove
      <3>2. m \in Job
        BY <1>k, <1>t, <3>1
      <3>3. m.order = j.order /\ m.mayOwe = j.mayOwe /\ m.step = "deleteLine" /\ m.line = j.line
        BY <1>t DEF Job
      <3>4. m.line \in Lines /\ lines[m.line].status # "none"
        BY <2>2, <3>3 DEF LinesOf, Exists
      <3>5. PICK n \in Job : n = m
        BY <3>2
      <3> HIDE DEF m
      <3>6. ReadsHold(n)'
        BY <1>j, <2>1, <3>3, <3>4, <3>5 DEF ReadsHold, Booking
      <3> QED
        BY <2>1, <3>1, <3>3, <3>5, <3>6, JobStep
    <2>3. CASE j.line \notin LinesOf(j.order)
      BY <1>2, <1>q, <2>3 DEF RereadLine
    <2> QED
      BY <2>2, <2>3
  <1>3. CASE ReadOrder(w)
    <2>1. UNCHANGED <<orders, lines, tickets, sold, ledger>>
      BY <1>3 DEF ReadOrder
    <2>2. CASE Done(w) \/ Goto(w, "rereadLine")
      BY <1>q, <2>1, <2>2 DEF Delicate, Booking, Steps
    <2>3. CASE ~(Done(w) \/ Goto(w, "rereadLine"))
      <3> DEFINE delta == LineTotal([j.row EXCEPT !.qty = j.ask]) - LineTotal(j.row)
      <3>1. job' = [job EXCEPT ![w].step = "setQuantity", ![w].delta = delta]
        BY <1>3, <2>3 DEF ReadOrder
      <3> HIDE DEF delta
      <3> DEFINE m == [j EXCEPT !.step = "setQuantity", !.delta = delta]
      <3>2. job' = [job EXCEPT ![w] = m]
        BY <3>1
      <3>3. m \in Job
        BY <1>k, <1>t, <3>2
      <3>4. m.order = j.order /\ m.mayOwe = j.mayOwe /\ m.step = "setQuantity"
        BY <1>t DEF Job
      <3> HIDE DEF m
      <3> QED
        BY <1>r, <2>1, <3>2, <3>3, <3>4 DEF Delicate, Booking
    <2> QED
      BY <2>2, <2>3
  <1>4. CASE ReadLine(w)
    <2>1. UNCHANGED <<orders, lines, tickets, sold, ledger>>
      BY <1>4 DEF ReadLine
    <2>2. CASE j.line \notin LinesOf(j.order)
      BY <1>4, <1>q, <2>2 DEF ReadLine
    <2>3. CASE j.line \in LinesOf(j.order)
      <3> DEFINE row   == lines[j.line]
                 ask   == Clamped(j.ask, row)
                 delta == row.discount - ask
      <3>1. job' = [job EXCEPT ![w].step = "setDiscount", ![w].row = row,
                                ![w].ask = ask, ![w].delta = delta]
        BY <1>4, <2>3 DEF ReadLine
      <3> HIDE DEF row, ask, delta
      <3> DEFINE m == [j EXCEPT !.step = "setDiscount", !.row = row,
                                !.ask = ask, !.delta = delta]
      <3>2. job' = [job EXCEPT ![w] = m]
        BY <3>1
      <3>3. m \in Job
        BY <1>k, <1>t, <3>2
      <3>4. m.order = j.order /\ m.mayOwe = j.mayOwe /\ m.step = "setDiscount"
        BY <1>t DEF Job
      <3> HIDE DEF m
      <3> QED
        BY <1>r, <2>1, <3>2, <3>3, <3>4 DEF Delicate, Booking
    <2> QED
      BY <2>2, <2>3
  <1>5. CASE ReadCosts(w)
    <2> DEFINE units == [l \in Lines |-> IF l \in LinesOf(j.order)
                                           THEN LineCost(lines[l]) ELSE 0]
    <2>1. job' = [job EXCEPT ![w].step = "addCosts", ![w].units = units]
      BY <1>5 DEF ReadCosts
    <2> HIDE DEF units
    <2> DEFINE m == [j EXCEPT !.step = "addCosts", !.units = units]
    <2>2. job' = [job EXCEPT ![w] = m]
      BY <2>1
    <2>3. m \in Job
      BY <1>k, <1>t, <2>2
    <2>4. m.order = j.order /\ m.mayOwe = j.mayOwe /\ m.step = "addCosts"
      BY <1>t DEF Job
    <2>5. UNCHANGED <<orders, lines, tickets, sold, ledger>>
      BY <1>5 DEF ReadCosts
    <2> HIDE DEF m
    <2> QED
      BY <1>r, <2>2, <2>3, <2>4, <2>5 DEF Delicate, Booking
  <1>6. ASSUME NEW l \in Lines, AddCost(w, l)
        PROVE  IInv'
    <2> DEFINE m == [j EXCEPT !.owed = @ + j.units[l], !.units[l] = 0]
    <2>1. job' = [job EXCEPT ![w] = m]
      BY <1>6 DEF AddCost
    <2>2. m \in Job
      BY <1>k, <1>t, <2>1
    <2>3. m.order = j.order /\ m.mayOwe = j.mayOwe /\ m.step = "addCosts"
      BY <1>6, <1>t DEF Job, AddCost, At
    <2>4. UNCHANGED <<orders, lines, tickets, sold, ledger>>
      BY <1>6 DEF AddCost
    <2> HIDE DEF m
    <2> QED
      BY <1>r, <2>1, <2>2, <2>3, <2>4 DEF Delicate, Booking
  <1>7. CASE CheckCost(w)
    <2>1. UNCHANGED <<orders, lines, tickets, sold, ledger>>
      BY <1>7 DEF CheckCost
    <2>2. CASE ~Accepts(j.owed, j.paid, j.mayOwe)
      BY <1>7, <1>q, <2>1, <2>2 DEF CheckCost
    <2>3. CASE Accepts(j.owed, j.paid, j.mayOwe)
      <3> DEFINE m == [j EXCEPT !.step = "insertPayments"]
      <3>1. job' = [job EXCEPT ![w] = m]
        BY <1>7, <2>3 DEF CheckCost, Goto
      <3>2. m \in Job
        BY <1>k, <1>t, <3>1
      <3>3. /\ m.order = j.order /\ m.mayOwe = j.mayOwe /\ m.step = "insertPayments"
            /\ m.owed = j.owed /\ m.paid = j.paid
        BY <1>t DEF Job
      <3>4. Balance(m) > 0 => j.mayOwe
        <4>1. j.owed \in Int /\ j.paid \in Nat
          BY <1>t DEF Job
        <4> QED
          BY <2>3, <3>3, <4>1 DEF Balance, AtLeast, Accepts
      <3>5. PICK n \in Job : n = m
        BY <3>2
      <3> HIDE DEF m
      <3>6. ReadsHold(n)'
        <4>1. Balance(n) > 0 => j.mayOwe
          BY <3>4, <3>5
        <4> QED
          BY <1>j, <2>1, <3>3, <3>5, <4>1 DEF ReadsHold, Booking
      <3> QED
        BY <2>1, <3>1, <3>3, <3>5, <3>6, JobStep
    <2> QED
      BY <2>2, <2>3
  <1>8. CASE InsertPayment(w)
    <2>1. PICK a \in 1..j.paying : job' = [job EXCEPT ![w].paying = @ - a]
      BY <1>8 DEF InsertPayment
    <2> DEFINE m == [j EXCEPT !.paying = @ - a]
    <2>2. job' = [job EXCEPT ![w] = m]
      BY <2>1
    <2>3. m \in Job
      BY <1>k, <1>t, <2>2
    <2>4. /\ m.order = j.order /\ m.mayOwe = j.mayOwe /\ m.step = "insertPayments"
          /\ m.owed = j.owed /\ m.paid = j.paid /\ j.step = "insertPayments"
      BY <1>8, <1>t DEF Job, InsertPayment, At
    <2>5. UNCHANGED <<orders, lines, tickets, sold, ledger>>
      BY <1>8 DEF InsertPayment
    <2>n. PICK n \in Job : n = m
      BY <2>3
    <2> HIDE DEF m
    <2>6. ReadsHold(n)'
      BY <1>j, <2>4, <2>5, <2>n DEF ReadsHold, Balance, Booking
    <2> QED
      BY <2>2, <2>4, <2>5, <2>6, <2>n, JobStep
  <1>9. CASE ReadSold(w)
    <2> DEFINE units == UnitsOf({l \in LinesOf(j.order) : lines[l].item # NoItem})
    <2>1. \A l \in Lines : units[l] # 0 => l \in LinesOf(j.order)
      BY DEF UnitsOf
    <2>2. job' = [job EXCEPT ![w].step = "deductStock", ![w].units = units]
      BY <1>9 DEF ReadSold
    <2> HIDE DEF units
    <2> DEFINE m == [j EXCEPT !.step = "deductStock", !.units = units]
    <2>3. job' = [job EXCEPT ![w] = m]
      BY <2>2
    <2>4. m \in Job
      BY <1>k, <1>t, <2>3
    <2>5. /\ m.order = j.order /\ m.mayOwe = j.mayOwe /\ m.step = "deductStock"
          /\ m.units = units
      BY <1>t DEF Job
    <2>6. UNCHANGED <<orders, lines, tickets, sold, ledger>> /\ j.step = "readSold"
      BY <1>9 DEF ReadSold, At
    <2>n. PICK n \in Job : n = m
      BY <2>4
    <2> HIDE DEF m
    <2>7. Closed(j.order)
      BY <1>j, <2>6 DEF ReadsHold, Booking
    <2>8. \A l \in Lines : units[l] # 0 =>
             lines'[l].status # "none" /\ lines'[l].order = j.order
      BY <2>1, <2>6 DEF LinesOf, Exists
    <2>9. ReadsHold(n)'
      BY <1>j, <2>5, <2>6, <2>7, <2>8, <2>n DEF ReadsHold, Booking, Closed
    <2> QED
      BY <2>3, <2>5, <2>6, <2>9, <2>n, JobStep
  \* Steps that change a bill.
  <1>10. CASE BumpTotal(w)
    <2>1. /\ UNCHANGED <<lines, tickets, sold, ledger>>
          /\ orders' = [orders EXCEPT ![j.order].total = @ + j.delta]
          /\ Goto(w, "checkIn") \/ Done(w)
      BY <1>10 DEF BumpTotal
    <2>2. \A o \in Orders : /\ orders'[o].status = orders[o].status
                             /\ orders'[o].balance = orders[o].balance
                             /\ orders'[o].customer = orders[o].customer
      BY <2>1, <1>t DEF TypeOK, OrderRow
    <2>3. Keeps /\ LeavesFresh(w)
      BY <2>1, <2>2 DEF IInv, ReadsStayTrue, ReadsHold, Keeps, LeavesFresh, Closed, Exists, At
    <2>4. ReadsStayTrue'
      BY <2>1, <2>3, <1>d, <1>g DEF Delicate, Booking
    <2>5. DebtIsVisible'
      BY <2>2 DEF IInv, DebtIsVisible
    <2>6. (BookedMeansClosed /\ KeysSound)'
      BY <2>1, <2>3, BooksKept DEF IInv
    <2> QED
      BY <2>4, <2>5, <2>6 DEF IInv
  <1>c. /\ Balance(j) > 0 => ClosingStatus(j) = "tab"
        /\ ~(Balance(j) > 0) => ClosingStatus(j) = "paid"
    BY DEF ClosingStatus
  <1>11. CASE CloseOrder(w)
    <2>1. /\ UNCHANGED <<lines, tickets, sold, ledger>>
          /\ orders' = [orders EXCEPT ![j.order].status = ClosingStatus(j),
                                      ![j.order].total = j.owed,
                                      ![j.order].balance = Balance(j)]
          /\ Goto(w, "markPaid") /\ j.step = "insertPayments"
      BY <1>11 DEF CloseOrder, At
    <2>2. /\ \A o \in Orders \ {j.order} : orders'[o] = orders[o]
          /\ j.order \in Orders
          /\ orders'[j.order].status = ClosingStatus(j)
          /\ orders'[j.order].balance = Balance(j)
          /\ orders'[j.order].customer = orders[j.order].customer
      BY <2>1, <1>j, <1>t DEF ReadsHold, TypeOK, OrderRow
    <2>3. Keeps /\ LeavesFresh(w)
      BY <2>1, <2>2, <1>c DEF IInv, ReadsStayTrue, ReadsHold, Keeps, LeavesFresh,
                              Closed, Exists, At
    <2>4. ReadsStayTrue'
      <3> DEFINE m == [j EXCEPT !.step = "markPaid"]
      <3>1. job' = [job EXCEPT ![w] = m]
        BY <2>1 DEF Goto
      <3>2. m \in Job
        BY <1>k, <1>t, <3>1
      <3>3. m.order = j.order /\ m.mayOwe = j.mayOwe /\ m.step = "markPaid"
        BY <1>t DEF Job
      <3>4. PICK n \in Job : n = m
        BY <3>2
      <3> HIDE DEF m
      <3>5. ReadsHold(n)'
        BY <1>j, <2>2, <3>3, <3>4, <1>c DEF ReadsHold, Booking, Closed
      <3> QED
        BY <1>t, <2>3, <3>1, <3>3, <3>4, <3>5, ReadsStep DEF IInv
    <2>5. DebtIsVisible'
      <3>1. Balance(j) > 0 => orders[j.order].customer # NoCustomer
        BY <1>j, <2>1 DEF ReadsHold
      <3> QED
        BY <2>2, <3>1, <1>c DEF IInv, DebtIsVisible
    <2>6. (BookedMeansClosed /\ KeysSound)'
      BY <2>1, <2>3, BooksKept DEF IInv
    <2> QED
      BY <2>4, <2>5, <2>6 DEF IInv
  <1>12. CASE CloseTab(w)
    <2>1. /\ UNCHANGED <<lines, tickets, sold, ledger>>
          /\ orders' = [orders EXCEPT ![j.order].status = ClosingStatus(j),
                                      ![j.order].balance = Balance(j)]
          /\ Done(w) /\ j.step = "insertPayments"
      BY <1>12 DEF CloseTab, At
    <2>2. /\ \A o \in Orders \ {j.order} : orders'[o] = orders[o]
          /\ j.order \in Orders
          /\ orders'[j.order].status = ClosingStatus(j)
          /\ orders'[j.order].balance = Balance(j)
          /\ orders'[j.order].customer = orders[j.order].customer
      BY <2>1, <1>j, <1>t DEF ReadsHold, TypeOK, OrderRow
    <2>3. Keeps /\ LeavesFresh(w)
      BY <2>1, <2>2, <1>c DEF IInv, ReadsStayTrue, ReadsHold, Keeps, LeavesFresh,
                              Closed, Exists, At
    <2>4. ReadsStayTrue'
      BY <2>1, <2>3, <1>d
    <2>5. DebtIsVisible'
      <3>1. Balance(j) > 0 => orders[j.order].customer # NoCustomer
        BY <1>j, <2>1 DEF ReadsHold
      <3> QED
        BY <2>2, <3>1, <1>c DEF IInv, DebtIsVisible
    <2>6. (BookedMeansClosed /\ KeysSound)'
      BY <2>1, <2>3, BooksKept DEF IInv
    <2> QED
      BY <2>4, <2>5, <2>6 DEF IInv
  \* Steps that leave the bills alone, and with them the debts.
  <1>o. ASSUME UNCHANGED orders PROVE DebtIsVisible'
    BY <1>o DEF IInv, DebtIsVisible
  <1>13. CASE InsertLine(w)
    <2>1. /\ UNCHANGED <<orders, tickets, sold, ledger>>
          /\ lines' = [lines EXCEPT ![j.line] = j.row]
          /\ Goto(w, "bumpTotal") /\ j.step = "insertLine"
      BY <1>13 DEF InsertLine, At
    <2>2. /\ j.line \in Lines /\ j.order \in Orders /\ lines[j.line].status = "none"
          /\ lines'[j.line].status = "new" /\ lines'[j.line].order = j.order
          /\ \A l \in Lines \ {j.line} : lines'[l] = lines[l]
      BY <2>1, <1>j, <1>t DEF ReadsHold, TypeOK
    <2>3. Keeps
      BY <2>1, <2>2 DEF Keeps, Closed, Exists
    <2>4. LeavesFresh(w)
      BY <2>1, <2>2 DEF IInv, ReadsStayTrue, ReadsHold, LeavesFresh, At
    <2>5. ReadsStayTrue'
      BY <2>1, <2>3, <2>4, <1>g DEF Delicate, Booking
    <2>6. KeysSound'
      BY <2>1, <2>2 DEF IInv, KeysSound, Exists
    <2>7. BookedMeansClosed'
      BY <2>1, <2>2 DEF IInv, BookedMeansClosed, KeysSound, Closed, Exists
    <2> QED
      BY <2>1, <2>5, <2>6, <2>7, <1>o DEF IInv
  <1>14. CASE DeleteLine(w)
    <2>1. UNCHANGED <<orders, tickets, sold, ledger>> /\ j.step = "deleteLine"
      BY <1>14 DEF DeleteLine, At
    <2>2. CASE OnTicket(j.line)
      BY <1>14, <1>q, <2>1, <2>2 DEF DeleteLine
    <2>3. CASE ~OnTicket(j.line)
      <3>1. /\ lines' = [lines EXCEPT ![j.line] = [NoRow EXCEPT !.status = "deleted"]]
            /\ Goto(w, "bumpTotal")
        BY <1>14, <2>3 DEF DeleteLine
      <3>2. /\ j.line \in Lines /\ lines[j.line].status # "none"
            /\ lines'[j.line].status = "deleted"
            /\ \A l \in Lines \ {j.line} : lines'[l] = lines[l]
        BY <2>1, <3>1, <1>j, <1>t DEF ReadsHold, TypeOK, NoRow
      <3>3. Keeps
        BY <2>1, <3>2 DEF Keeps, Closed, Exists
      <3>4. LeavesFresh(w)
        BY <3>2 DEF IInv, ReadsStayTrue, ReadsHold, LeavesFresh, At
      <3>5. ReadsStayTrue'
        BY <3>1, <3>3, <3>4, <1>g DEF Delicate, Booking
      <3>6. KeysSound'
        BY <2>1, <3>2 DEF IInv, KeysSound, Exists
      <3>7. BookedMeansClosed'
        BY <2>1, <3>2 DEF IInv, BookedMeansClosed, Closed, Exists
      <3> QED
        BY <2>1, <3>5, <3>6, <3>7, <1>o DEF IInv
    <2> QED
      BY <2>2, <2>3
  <1>l. ASSUME UNCHANGED <<orders, tickets, sold, ledger>>,
               \A l \in Lines : /\ lines'[l].status = lines[l].status
                                /\ lines'[l].order = lines[l].order,
               Goto(w, "bumpTotal")
        PROVE  IInv'
    <2>1. Keeps /\ LeavesFresh(w)
      BY <1>l DEF IInv, ReadsStayTrue, ReadsHold, Keeps, LeavesFresh, Closed, Exists, At
    <2>2. ReadsStayTrue'
      BY <1>l, <2>1, <1>g DEF Delicate, Booking
    <2>3. KeysSound'
      BY <1>l DEF IInv, KeysSound, Exists
    <2>4. BookedMeansClosed'
      BY <1>l DEF IInv, BookedMeansClosed, Closed, Exists
    <2> QED
      BY <2>2, <2>3, <2>4, <1>l, <1>o DEF IInv
  <1>15. CASE SetQuantity(w)
    <2>1. \A l \in Lines : /\ lines'[l].status = lines[l].status
                           /\ lines'[l].order = lines[l].order
      BY <1>15, <1>t DEF SetQuantity, TypeOK, LineRow
    <2> QED
      BY <1>15, <1>l, <2>1 DEF SetQuantity
  <1>16. CASE SetDiscount(w)
    <2>1. \A l \in Lines : /\ lines'[l].status = lines[l].status
                           /\ lines'[l].order = lines[l].order
      BY <1>16, <1>t DEF SetDiscount, TypeOK, LineRow
    <2> QED
      BY <1>16, <1>l, <2>1 DEF SetDiscount
  <1>17. CASE MarkProcessing(w)
    <2>1. UNCHANGED <<orders, tickets, sold, ledger>> /\ Done(w)
      BY <1>17 DEF MarkProcessing
    <2>2. \A l \in Lines :
             \/ lines'[l] = lines[l]
             \/ /\ lines[l].status = "new" /\ lines'[l].status = "processing"
                /\ lines'[l].order = lines[l].order
      BY <1>17, <1>t DEF MarkProcessing, TypeOK, LineRow
    <2>3. Keeps /\ LeavesFresh(w)
      BY <2>1, <2>2 DEF IInv, ReadsStayTrue, ReadsHold, Keeps, LeavesFresh, Closed, Exists, At
    <2>4. ReadsStayTrue'
      BY <2>1, <2>3, <1>d
    <2>5. KeysSound'
      BY <2>1, <2>2 DEF IInv, KeysSound, Exists
    <2>6. BookedMeansClosed'
      BY <2>1, <2>2 DEF IInv, BookedMeansClosed, Closed, Exists
    <2> QED
      BY <2>1, <2>4, <2>5, <2>6, <1>o DEF IInv
  <1>18. CASE MarkPaid(w)
    <2>1. /\ UNCHANGED <<orders, tickets, sold, ledger>>
          /\ Goto(w, "completeTickets") /\ Closed(j.order)
      BY <1>18, <1>j DEF MarkPaid, ReadsHold, Booking, At
    <2>2. \A l \in Lines :
             \/ lines'[l] = lines[l]
             \/ /\ Exists(l) /\ lines[l].order = j.order
                /\ lines'[l].status = "paid" /\ lines'[l].order = j.order
      BY <1>18, <1>t DEF MarkPaid, LinesOf, TypeOK, LineRow
    <2>3. Keeps /\ LeavesFresh(w)
      BY <2>1, <2>2 DEF IInv, ReadsStayTrue, ReadsHold, Keeps, LeavesFresh, Closed, Exists, At
    <2>4. ReadsStayTrue'
      <3> DEFINE m == [j EXCEPT !.step = "completeTickets"]
      <3>1. job' = [job EXCEPT ![w] = m]
        BY <2>1 DEF Goto
      <3>2. m \in Job
        BY <1>k, <1>t, <3>1
      <3>3. m.order = j.order /\ m.mayOwe = j.mayOwe /\ m.step = "completeTickets"
        BY <1>t DEF Job
      <3>4. PICK n \in Job : n = m
        BY <3>2
      <3> HIDE DEF m
      <3>5. ReadsHold(n)'
        BY <1>j, <2>1, <3>3, <3>4 DEF ReadsHold, Booking, Closed
      <3> QED
        BY <1>t, <2>3, <3>1, <3>3, <3>4, <3>5, ReadsStep DEF IInv
    <2>5. KeysSound'
      BY <2>1, <2>2, <1>j DEF IInv, KeysSound, Exists, ReadsHold
    <2>6. BookedMeansClosed'
      BY <2>1, <2>2 DEF IInv, BookedMeansClosed, Closed, Exists
    <2> QED
      BY <2>1, <2>4, <2>5, <2>6, <1>o DEF IInv
  \* Steps that leave bills and lines alone.
  <1>f. ASSUME UNCHANGED <<orders, lines>> PROVE Keeps /\ LeavesFresh(w)
    BY <1>f, UntouchedReads DEF IInv
  <1>19. CASE InsertTicket(w)
    <2>1. /\ UNCHANGED <<orders, lines, sold, ledger>> /\ Goto(w, "insertTicketItems")
          /\ tickets' = [tickets EXCEPT ![j.ticket].status = "pending",
                                        ![j.ticket].order = j.order]
      BY <1>19 DEF InsertTicket
    <2>2. \A t \in Tickets :
             \/ tickets'[t] = tickets[t]
             \/ tickets'[t].status = "pending" /\ tickets'[t].order = j.order
      BY <2>1, <1>t DEF TypeOK, TicketRow
    <2>3. ReadsStayTrue'
      BY <2>1, <1>f, <1>g DEF Delicate, Booking
    <2>4. KeysSound'
      BY <2>1, <2>2, <1>j DEF IInv, KeysSound, Exists, ReadsHold
    <2>5. BookedMeansClosed'
      BY <2>1, <2>2 DEF IInv, BookedMeansClosed, Closed, Exists
    <2> QED
      BY <2>1, <2>3, <2>4, <2>5, <1>o DEF IInv
  <1>20. ASSUME NEW l \in Lines, InsertTicketItem(w, l)
         PROVE  IInv'
    <2>1. UNCHANGED <<orders, lines, sold, ledger>>
      BY <1>20 DEF InsertTicketItem
    <2>2. \A t \in Tickets : /\ tickets'[t].status = tickets[t].status
                             /\ tickets'[t].order = tickets[t].order
      <3>1. CASE UNCHANGED tickets
        BY <3>1
      <3>2. CASE tickets' = [tickets EXCEPT ![j.ticket].items[l] = "new"]
        <4>1. \A r \in TicketRow : LET s == [r EXCEPT !.items[l] = "new"] IN
                 s.status = r.status /\ s.order = r.order
          BY DEF TicketRow
        <4>2. tickets' = [tickets EXCEPT ![j.ticket] =
                            [tickets[j.ticket] EXCEPT !.items[l] = "new"]]
          BY <3>2
        <4> QED
          BY <1>t, <4>1, <4>2 DEF TypeOK
      <3> QED
        BY <1>20, <3>1, <3>2 DEF InsertTicketItem
    <2>3. ReadsStayTrue'
      <3>1. CASE Done(w)
        BY <2>1, <3>1, <1>d, <1>f
      <3>2. CASE ~Done(w)
        <4> DEFINE m == [j EXCEPT !.units[l] = 0]
        <4>1. job' = [job EXCEPT ![w] = m]
          BY <1>20, <3>2 DEF InsertTicketItem
        <4>2. m \in Job
          BY <1>k, <1>t, <4>1
        <4>3. m.order = j.order /\ m.mayOwe = j.mayOwe /\ m.step = "insertTicketItems"
          BY <1>20, <1>t DEF Job, InsertTicketItem, At
        <4> HIDE DEF m
        <4> QED
          BY <2>1, <4>1, <4>2, <4>3, <1>f, <1>p DEF Delicate, Booking
      <3> QED
        BY <3>1, <3>2
    <2>4. KeysSound'
      BY <2>1, <2>2 DEF IInv, KeysSound, Exists
    <2>5. BookedMeansClosed'
      BY <2>1, <2>2 DEF IInv, BookedMeansClosed, Closed, Exists
    <2> QED
      BY <2>1, <2>3, <2>4, <2>5, <1>o DEF IInv
  <1>21. CASE CompleteTickets(w)
    <2>1. /\ UNCHANGED <<orders, lines, sold, ledger>>
          /\ Goto(w, "readSold") /\ Closed(j.order)
      BY <1>21, <1>j DEF CompleteTickets, ReadsHold, Booking, At
    <2>2. \A t \in Tickets :
             \/ tickets'[t] = tickets[t]
             \/ /\ tickets[t].order = j.order /\ tickets'[t].order = j.order
                /\ tickets'[t].status = "completed"
      BY <1>21, <1>t DEF CompleteTickets, TypeOK, TicketRow
    <2>3. ReadsStayTrue'
      <3> DEFINE m == [j EXCEPT !.step = "readSold"]
      <3>1. job' = [job EXCEPT ![w] = m]
        BY <2>1 DEF Goto
      <3>2. m \in Job
        BY <1>k, <1>t, <3>1
      <3>3. m.order = j.order /\ m.mayOwe = j.mayOwe /\ m.step = "readSold"
        BY <1>t DEF Job
      <3>4. PICK n \in Job : n = m
        BY <3>2
      <3> HIDE DEF m
      <3>5. ReadsHold(n)'
        BY <1>j, <2>1, <3>3, <3>4 DEF ReadsHold, Booking, Closed
      <3> QED
        BY <1>t, <2>1, <1>f, <3>1, <3>3, <3>4, <3>5, ReadsStep DEF IInv
    <2>4. KeysSound'
      BY <2>1, <2>2, <1>j DEF IInv, KeysSound, Exists, ReadsHold
    <2>5. BookedMeansClosed'
      BY <2>1, <2>2 DEF IInv, BookedMeansClosed, Closed, Exists
    <2> QED
      BY <2>1, <2>3, <2>4, <2>5, <1>o DEF IInv
  <1>22. ASSUME NEW l \in Lines, DeductStock(w, l)
         PROVE  IInv'
    <2>1. /\ UNCHANGED <<orders, lines, tickets, ledger>>
          /\ job' = [job EXCEPT ![w].units[l] = 0]
          /\ j.step = "deductStock" /\ j.units[l] # 0
      BY <1>22 DEF DeductStock, At
    <2>2. \A i \in Lines \ {l} : sold'[i] = sold[i]
      BY <1>22, <1>t DEF DeductStock, TypeOK
    <2>3. /\ lines[l].status # "none"
          /\ Exists(l) => lines[l].order = j.order
          /\ Closed(j.order)
      BY <2>1, <1>j DEF ReadsHold, Booking
    <2>4. ReadsStayTrue'
      <3> DEFINE m == [j EXCEPT !.units[l] = 0]
      <3>1. job' = [job EXCEPT ![w] = m]
        BY <2>1
      <3>2. m \in Job
        BY <1>k, <1>t, <3>1
      <3>3. /\ m.order = j.order /\ m.mayOwe = j.mayOwe /\ m.step = "deductStock"
            /\ \A i \in Lines : m.units[i] # 0 => j.units[i] # 0
        BY <1>t, <2>1 DEF Job
      <3>4. PICK n \in Job : n = m
        BY <3>2
      <3> HIDE DEF m
      <3>5. ReadsHold(n)'
        <4>1. \A i \in Lines : n.units[i] # 0 =>
                 lines[i].status # "none" /\ (Exists(i) => lines[i].order = j.order)
          BY <1>j, <2>1, <3>3, <3>4 DEF ReadsHold
        <4>2. n.step = "deductStock" /\ n.order = j.order /\ n.mayOwe = j.mayOwe
          BY <3>3, <3>4
        <4>3. Closed(j.order)' /\ j.order \in Orders
              /\ (j.mayOwe => orders'[j.order].customer # NoCustomer)
          BY <1>j, <2>1, <2>3 DEF Closed, ReadsHold
        <4> QED
          BY <2>1, <4>1, <4>2, <4>3 DEF ReadsHold, Exists
      <3> QED
        BY <1>t, <2>1, <1>f, <3>1, <3>3, <3>4, <3>5, ReadsStep DEF IInv
    <2>5. KeysSound'
      BY <2>1, <2>2, <2>3 DEF IInv, KeysSound, Exists
    <2>6. BookedMeansClosed'
      BY <2>1, <2>2, <2>3 DEF IInv, BookedMeansClosed, Closed, Exists
    <2> QED
      BY <2>1, <2>4, <2>5, <2>6, <1>o DEF IInv
  <1>23. CASE CreditLedger(w)
    <2>1. /\ UNCHANGED <<orders, lines, tickets, sold>> /\ Done(w)
          /\ j.step = "deductStock"
      BY <1>23 DEF CreditLedger, At
    <2>2. /\ \A o \in Orders \ {j.order} : ledger'[o] = ledger[o]
          /\ Closed(j.order)
      BY <1>23, <1>j, <1>t, <2>1 DEF CreditLedger, TypeOK, ReadsHold, Booking
    <2>3. ReadsStayTrue'
      BY <2>1, <1>d, <1>f
    <2>4. KeysSound'
      BY <2>1 DEF IInv, KeysSound, Exists
    <2>5. BookedMeansClosed'
      BY <2>1, <2>2 DEF IInv, BookedMeansClosed, Closed, Exists
    <2> QED
      BY <2>1, <2>3, <2>4, <2>5, <1>o DEF IInv
  <1> QED
    BY <1>1, <1>2, <1>3, <1>4, <1>5, <1>6, <1>7, <1>8, <1>9, <1>10, <1>11, <1>12,
       <1>13, <1>14, <1>15, <1>16, <1>17, <1>18, <1>19, <1>20, <1>21, <1>22, <1>23
       DEF Continue

LEMMA IInvStep == IInv /\ [Next]_vars => IInv'
  <1> SUFFICES ASSUME IInv, [Next]_vars PROVE IInv'
    OBVIOUS
  <1>1. TypeOK'
    BY TypeStep DEF IInv
  <1>2. ASSUME NEW w \in Workers, Interrupt(w) PROVE IInv'
    BY <1>1, <1>2, DoneStep DEF Interrupt
  <1>3. CASE UNCHANGED vars
    <2>1. (DebtIsVisible /\ BookedMeansClosed /\ KeysSound)'
      BY <1>3, UntouchedBooks DEF IInv, vars
    <2>2. ReadsStayTrue'
      BY <1>3 DEF IInv, vars, ReadsStayTrue, ReadsHold, Closed, Exists, At
    <2> QED
      BY <1>1, <2>1, <2>2 DEF IInv
  <1> QED
    BY <1>1, <1>2, <1>3, IInvArrive, IInvContinue DEF Next

\* However requests interleave and wherever they stop, money is owed exactly on the
\* tabs, and every tab has the customer whose balance shows it (checkout, pay_tab).
THEOREM DebtIsVisibleAlways == Spec => []DebtIsVisible
  <1>1. IInv => DebtIsVisible
    BY DEF IInv
  <1> QED
    BY <1>1, IInvInit, IInvStep, PTL DEF Spec

\* However requests of the point of sale interleave and wherever they stop, whatever
\* clients write into the status of a line, revenue, stock and 'completed' tickets are
\* only ever booked for a bill that was closed (checkout). Merges of tables take no part
\* in Spec; MergesKeepBooks (PosSerialProofs) speaks of them.
THEOREM BookedMeansClosedAlways == Spec => []BookedMeansClosed
  <1>1. IInv => BookedMeansClosed
    BY DEF IInv
  <1> QED
    BY <1>1, IInvInit, IInvStep, PTL DEF Spec

\* Nothing a handler read before its last statements is undone by another request
\* before it runs them: the fact the two theorems above rest on.
THEOREM ReadsStayTrueAlways == Spec => []ReadsStayTrue
  <1>1. IInv => ReadsStayTrue
    BY DEF IInv
  <1> QED
    BY <1>1, IInvInit, IInvStep, PTL DEF Spec

-----------------------------------------------------------------------------
(* The kitchen.                                                          *)

-----------------------------------------------------------------------------
(* What the properties rest on.                                            *)

CookOK ==
    /\ cook \in [Cooks -> [step : {"idle", "startItems", "markLine"},
                           ticket : Tickets \cup {NoTicket}, line : Lines \cup {NoLine}]]
    /\ \A c \in Cooks :
          /\ cook[c].step # "markLine" => cook[c].line = NoLine
          /\ cook[c].step = "startItems" =>
                /\ cook[c].ticket \in Tickets
                /\ tickets[cook[c].ticket].status # "none"
          /\ cook[c].step = "markLine" =>
                /\ cook[c].ticket \in Tickets /\ cook[c].line \in Lines
                /\ tickets[cook[c].ticket].items[cook[c].line] = "dispatched"

\* A ticket that is not there yet lists nothing, and no ticket lists a line that never was.
TicketsOK ==
    /\ \A t \in Tickets : tickets[t].status = "none" =>
          /\ tickets[t].order = NoOrder
          /\ \A l \in Lines : tickets[t].items[l] = "none"
    /\ \A t \in Tickets, l \in Lines :
          tickets[t].items[l] # "none" => lines[l].status # "none"

\* Each ticket is written by one request, which inserts no line twice.
Sending == {"insertTicket", "insertTicketItems"}

SendersOK ==
    \A w \in Workers : job[w].step \in Sending =>
        /\ job[w].ticket \in Tickets
        /\ \A v \in Workers \ {w} : job[v].step \in Sending => job[v].ticket # job[w].ticket
        /\ At(w, "insertTicket") <=> tickets[job[w].ticket].status = "none"
        /\ \A l \in Lines : job[w].units[l] # 0 => tickets[job[w].ticket].items[l] = "none"

KInv == IInv /\ CookOK /\ TicketsOK /\ SendersOK

-----------------------------------------------------------------------------
(* What a step of the point of sale does to tickets and lines.             *)

TicketMoves(t) ==
    /\ tickets[t].status # "none" => tickets'[t].status # "none"
    /\ \A l \in Lines :
          \/ tickets'[t].items[l] = tickets[t].items[l]
          \/ tickets[t].items[l] = "none" /\ tickets'[t].items[l] = "new"

LineMoves(l) ==
    \/ lines'[l].status = lines[l].status
    \/ lines[l].status = "none" /\ lines'[l].status = "new"
    \/ lines[l].status = "new" /\ lines'[l].status = "processing"
    \/ Exists(l) /\ lines'[l].status = "paid"
    \/ lines'[l].status = "deleted"

\* A request that is not about to write a ticket keeps what is known of those that are.
LEMMA SendersKept ==
  ASSUME TicketsOK, SendersOK, TypeOK, NEW w \in Workers,
         UNCHANGED tickets,
         \A l \in Lines : lines[l].status # "none" => lines'[l].status # "none",
         \A v \in Workers \ {w} : job'[v] = job[v],
         job'[w] = job[w] \/ job'[w].step \notin Sending
  PROVE  TicketsOK' /\ SendersOK'
<1>1. TicketsOK'
  BY DEF TicketsOK
<1>2. SendersOK'
  BY DEF SendersOK, At
<1> QED
  BY <1>1, <1>2

\* No statement that leaves the tickets alone makes a line new or unused again.
LEMMA LinesStayUsed ==
  ASSUME IInv, NEW w \in Workers, Arrive(w) \/ Continue(w) \/ Interrupt(w)
  PROVE  \A l \in Lines : lines[l].status # "none" => lines'[l].status # "none"
<1>t. TypeOK /\ job[w] \in Job
  BY DEF IInv, TypeOK
<1>1. CASE UNCHANGED lines
  BY <1>1
<1>2. ASSUME NEW o \in Orders, NEW k \in Lines, UpdateItemStatus(w, o, k)
      PROVE  \A l \in Lines : lines[l].status # "none" => lines'[l].status # "none"
  BY <1>t, <1>2, StatusesAssumption DEF UpdateItemStatus, TypeOK
<1>3. CASE InsertLine(w)
  <2>1. job[w].row.status = "new"
    BY <1>3 DEF InsertLine, IInv, ReadsStayTrue, ReadsHold, At
  <2> QED
    BY <1>3, <1>t, <2>1 DEF InsertLine, TypeOK
<1>4. CASE DeleteLine(w)
  BY <1>4, <1>t DEF DeleteLine, TypeOK, NoRow
<1>5. CASE SetQuantity(w)
  BY <1>5, <1>t DEF SetQuantity, TypeOK
<1>6. CASE SetDiscount(w)
  BY <1>6, <1>t DEF SetDiscount, TypeOK
<1>7. CASE MarkProcessing(w)
  BY <1>7, <1>t DEF MarkProcessing, TypeOK
<1>8. CASE MarkPaid(w)
  BY <1>8, <1>t DEF MarkPaid, TypeOK
<1> QED
  BY <1>1, <1>2, <1>3, <1>4, <1>5, <1>6, <1>7, <1>8
  DEF Arrive, Continue, Interrupt, CreateOrder, ApplyDiscount, AttachCustomer, VoidOrder,
      Checkout, PayTab, SendToKitchen, AddItem, RemoveItem, UpdateItemQuantity,
      SetItemDiscount, BumpTotal, CheckIn, RereadLine, ReadOrder, ReadLine, InsertTicket,
      RevertRooms, ReadCosts, CheckCost, InsertPayment, CloseOrder, CloseTab,
      CompleteTickets, ReadSold, CreditLedger, InsertTicketItem, AddCost, DeductStock

MarkedByHand(l) ==
    Exists(l) /\ lines'[l].status \in Statuses /\ l \in SetByHand

\* Every line moves as LineMoves says, or somebody sets its status by hand.
LEMMA LinesMove ==
  ASSUME IInv, NEW w \in Workers, Arrive(w) \/ Continue(w) \/ Interrupt(w),
         NEW l \in Lines
  PROVE  LineMoves(l) \/ MarkedByHand(l)
<1>t. TypeOK /\ job[w] \in Job
  BY DEF IInv, TypeOK
<1>1. CASE UNCHANGED lines
  BY <1>1 DEF LineMoves
<1>2. ASSUME NEW o \in Orders, NEW k \in Lines, UpdateItemStatus(w, o, k)
      PROVE  LineMoves(l) \/ MarkedByHand(l)
  <2>1. CASE l = k
    <3>1. l \in SetByHand
      BY <1>2, <2>1 DEF SetByHand
    <3>2. Exists(l)
      BY <1>2, <2>1 DEF UpdateItemStatus, TakesLine, LinesOf
    <3>3. lines'[l].status \in Statuses
      BY <1>t, <1>2, <2>1 DEF UpdateItemStatus, TypeOK
    <3> QED
      BY <3>1, <3>2, <3>3 DEF MarkedByHand
  <2>2. CASE l # k
    BY <1>t, <1>2, <2>2 DEF UpdateItemStatus, TypeOK, LineMoves
  <2> QED
    BY <2>1, <2>2
<1>3. CASE InsertLine(w)
  <2>1. job[w].row.status = "new" /\ lines[job[w].line].status = "none"
    BY <1>3 DEF InsertLine, IInv, ReadsStayTrue, ReadsHold, At
  <2> QED
    BY <1>3, <1>t, <2>1 DEF InsertLine, TypeOK, LineMoves
<1>4. CASE DeleteLine(w)
  BY <1>4, <1>t DEF DeleteLine, TypeOK, NoRow, LineMoves
<1>5. CASE SetQuantity(w)
  BY <1>5, <1>t DEF SetQuantity, TypeOK, LineMoves
<1>6. CASE SetDiscount(w)
  BY <1>6, <1>t DEF SetDiscount, TypeOK, LineMoves
<1>7. CASE MarkProcessing(w)
  BY <1>7, <1>t DEF MarkProcessing, TypeOK, LineMoves
<1>8. CASE MarkPaid(w)
  BY <1>8, <1>t DEF MarkPaid, TypeOK, LineMoves, LinesOf
<1> QED
  BY <1>1, <1>2, <1>3, <1>4, <1>5, <1>6, <1>7, <1>8
  DEF Arrive, Continue, Interrupt, CreateOrder, ApplyDiscount, AttachCustomer, VoidOrder,
      Checkout, PayTab, SendToKitchen, AddItem, RemoveItem, UpdateItemQuantity,
      SetItemDiscount, BumpTotal, CheckIn, RereadLine, ReadOrder, ReadLine, InsertTicket,
      RevertRooms, ReadCosts, CheckCost, InsertPayment, CloseOrder, CloseTab,
      CompleteTickets, ReadSold, CreditLedger, InsertTicketItem, AddCost, DeductStock

\* A request of the point of sale lists lines on tickets of its own, once each.
LEMMA TicketsMove ==
  ASSUME IInv, IInv', TicketsOK, SendersOK,
         NEW w \in Workers, Arrive(w) \/ Continue(w) \/ Interrupt(w)
  PROVE  TicketsOK' /\ SendersOK' /\ \A t \in Tickets : TicketMoves(t)
<1> DEFINE Goal == TicketsOK' /\ SendersOK' /\ \A t \in Tickets : TicketMoves(t)
<1>t. /\ TypeOK /\ job[w] \in Job /\ job \in [Workers -> Job]
      /\ tickets \in [Tickets -> TicketRow]
  BY DEF IInv, TypeOK
<1>l. \A l \in Lines : lines[l].status # "none" => lines'[l].status # "none"
  BY LinesStayUsed
<1>s. ASSUME UNCHANGED tickets, \A v \in Workers \ {w} : job'[v] = job[v],
             job'[w] = job[w] \/ job'[w].step \notin Sending
      PROVE  Goal
  BY <1>s, <1>t, <1>l, SendersKept DEF TicketMoves
<1>m. ASSUME NEW m, job' = [job EXCEPT ![w] = m], UNCHANGED tickets, m.step \notin Sending
      PROVE  Goal
  BY <1>m, <1>s, <1>t
<1>d. ASSUME Done(w), UNCHANGED tickets PROVE Goal
  BY <1>d, <1>m DEF Done, NoJob, Sending
<1>g. ASSUME NEW step, Goto(w, step), step \notin Sending, UNCHANGED tickets PROVE Goal
  <2>1. job' = [job EXCEPT ![w] = [job[w] EXCEPT !.step = step]]
    BY <1>g DEF Goto
  <2>2. [job[w] EXCEPT !.step = step].step = step
    BY <1>t DEF Job
  <2> QED
    BY <1>g, <1>m, <2>1, <2>2
<1>1. CASE UNCHANGED <<tickets, job>>
  BY <1>1, <1>s
<1>2. ASSUME NEW o \in Orders, VoidOrder(w, o) \/ Checkout(w, o) \/ PayTab(w, o)
      PROVE  Goal
  BY <1>2, <1>m DEF VoidOrder, Checkout, PayTab, CheckoutJob, Begin, NoJob, Sending
<1>3. ASSUME NEW o \in Orders, NEW l \in Lines,
             AddItem(w, o, l) \/ RemoveItem(w, o, l) \/ UpdateItemQuantity(w, o, l)
               \/ SetItemDiscount(w, o, l)
      PROVE  Goal
  BY <1>3, <1>m DEF AddItem, RemoveItem, UpdateItemQuantity, SetItemDiscount, ReadToRemove,
                    Begin, NoJob, Sending
<1>4. ASSUME NEW o \in Orders, NEW t \in Tickets, SendToKitchen(w, o, t) PROVE Goal
  <2> DEFINE m == job'[w]
  <2>1. /\ m.step = "insertTicket" /\ m.ticket = t
        /\ \A v \in Workers \ {w} : job'[v] = job[v]
    BY <1>4, <1>t DEF SendToKitchen, Begin, NoJob
  <2>2. tickets[t].status = "none" /\ \A v \in Workers : job[v].ticket # t
    BY <1>4 DEF SendToKitchen
  <2>3. UNCHANGED <<tickets, lines>>
    BY <1>4 DEF SendToKitchen
  <2>4. TicketsOK'
    BY <2>3 DEF TicketsOK
  <2>5. SendersOK'
    BY <2>1, <2>2, <2>3 DEF SendersOK, TicketsOK, At
  <2> QED
    BY <2>3, <2>4, <2>5 DEF TicketMoves
<1>5. CASE InsertTicket(w)
  <2> DEFINE t == job[w].ticket
  <2>1. /\ t \in Tickets /\ tickets[t].status = "none"
        /\ \A v \in Workers \ {w} : job[v].step \in Sending => job[v].ticket # t
        /\ \A l \in Lines : tickets[t].items[l] = "none"
    BY <1>5 DEF InsertTicket, SendersOK, TicketsOK, Sending, At
  <2>2. /\ \A v \in Workers \ {w} : job'[v] = job[v]
        /\ job'[w].step = "insertTicketItems" /\ job'[w].ticket = t
        /\ job'[w].units = job[w].units
    BY <1>5, <1>t DEF InsertTicket, Goto, Job
  <2>3. /\ tickets'[t].status = "pending" /\ tickets'[t].items = tickets[t].items
        /\ \A s \in Tickets \ {t} : tickets'[s] = tickets[s]
        /\ UNCHANGED lines
    BY <1>5, <1>t, <2>1 DEF InsertTicket, TicketRow
  <2>4. TicketsOK'
    BY <2>1, <2>3 DEF TicketsOK
  <2>5. SendersOK'
    BY <2>1, <2>2, <2>3 DEF SendersOK, At, Sending
  <2>6. \A s \in Tickets : TicketMoves(s)
    BY <2>1, <2>3 DEF TicketMoves
  <2> QED
    BY <2>4, <2>5, <2>6
<1>6. ASSUME NEW l \in Lines, InsertTicketItem(w, l) PROVE Goal
  <2> DEFINE t == job[w].ticket
  <2>1. /\ t \in Tickets /\ tickets[t].items[l] = "none"
        /\ \A v \in Workers \ {w} : job[v].step \in Sending => job[v].ticket # t
    BY <1>6 DEF InsertTicketItem, SendersOK, Sending, At
  <2>2. CASE Exists(l)
    <3>1. /\ \A v \in Workers \ {w} : job'[v] = job[v]
          /\ job'[w].step = "insertTicketItems" /\ job'[w].ticket = t
          /\ job'[w].units[l] = 0
          /\ \A k \in Lines \ {l} : job'[w].units[k] = job[w].units[k]
      BY <1>6, <1>t, <2>2 DEF InsertTicketItem, Job, At
    <3>2. /\ tickets'[t].status = tickets[t].status /\ tickets'[t].order = tickets[t].order
          /\ tickets'[t].items[l] = "new"
          /\ \A k \in Lines \ {l} : tickets'[t].items[k] = tickets[t].items[k]
          /\ \A s \in Tickets \ {t} : tickets'[s] = tickets[s]
          /\ UNCHANGED lines
      BY <1>6, <1>t, <2>1, <2>2 DEF InsertTicketItem, TicketRow
    <3>3. tickets[t].status # "none"
      BY <1>6, <2>1 DEF InsertTicketItem, SendersOK, Sending, At
    <3>4. TicketsOK'
      BY <2>2, <3>2, <3>3 DEF TicketsOK, Exists
    <3>5. SendersOK'
      BY <1>6, <2>1, <3>1, <3>2 DEF SendersOK, At, Sending, InsertTicketItem
    <3>6. \A s \in Tickets : TicketMoves(s)
      BY <2>1, <3>2 DEF TicketMoves
    <3> QED
      BY <3>4, <3>5, <3>6
  <2>3. CASE ~Exists(l)
    BY <1>6, <2>3, <1>d DEF InsertTicketItem
  <2> QED
    BY <2>2, <2>3
<1>7. CASE CompleteTickets(w)
  <2>1. job[w].order \in Orders
    BY <1>7 DEF CompleteTickets, IInv, ReadsStayTrue, ReadsHold, At
  <2>2. /\ \A v \in Workers \ {w} : job'[v] = job[v]
        /\ job'[w].step = "readSold"
    BY <1>7, <1>t DEF CompleteTickets, Goto, Job
  <2>3. /\ UNCHANGED lines
        /\ \A s \in Tickets : /\ tickets'[s].items = tickets[s].items
                              /\ tickets'[s].order = tickets[s].order
                              /\ \/ tickets'[s].status = tickets[s].status
                                 \/ tickets[s].order \in Orders /\ tickets'[s].status = "completed"
    BY <1>7, <1>t, <2>1 DEF CompleteTickets, TicketRow
  <2>4. \A s \in Tickets : tickets'[s].status = "none" <=> tickets[s].status = "none"
    BY <2>3, NullsAssumption DEF TicketsOK
  <2>5. TicketsOK'
    BY <2>3, <2>4 DEF TicketsOK
  <2>6. SendersOK'
    BY <2>2, <2>3, <2>4 DEF SendersOK, At, Sending
  <2>7. \A s \in Tickets : TicketMoves(s)
    BY <2>3, <2>4 DEF TicketMoves
  <2> QED
    BY <2>5, <2>6, <2>7
<1>8. CASE BumpTotal(w) \/ InsertLine(w) \/ CheckIn(w) \/ DeleteLine(w) \/ SetQuantity(w)
             \/ SetDiscount(w) \/ MarkProcessing(w) \/ RevertRooms(w) \/ CheckCost(w)
             \/ CloseOrder(w) \/ CloseTab(w) \/ MarkPaid(w) \/ CreditLedger(w)
  BY <1>8, <1>d, <1>g
  DEF BumpTotal, InsertLine, CheckIn, DeleteLine, SetQuantity, SetDiscount, MarkProcessing,
      RevertRooms, CheckCost, CloseOrder, CloseTab, MarkPaid, CreditLedger, Sending
<1>9. CASE RereadLine(w) \/ ReadOrder(w) \/ ReadLine(w)
  BY <1>9, <1>t, <1>d, <1>g, <1>m
  DEF RereadLine, ReadOrder, ReadLine, ReadToRemove, Sending, Job
<1>10. CASE ReadCosts(w) \/ InsertPayment(w) \/ ReadSold(w)
  BY <1>10, <1>t, <1>m DEF ReadCosts, InsertPayment, ReadSold, At, Sending, Job
<1>11. ASSUME NEW l \in Lines, AddCost(w, l) \/ DeductStock(w, l) PROVE Goal
  BY <1>11, <1>t, <1>m DEF AddCost, DeductStock, At, Sending, Job
<1>12. CASE Interrupt(w)
  BY <1>12, <1>d DEF Interrupt
<1> QED
  BY <1>1, <1>2, <1>3, <1>4, <1>5, <1>6, <1>7, <1>8, <1>9, <1>10, <1>11, <1>12
  DEF Arrive, Continue, CreateOrder, ApplyDiscount, AttachCustomer, UpdateItemStatus

-----------------------------------------------------------------------------
(* The invariant.                                                          *)

LEMMA KInvInit == KInit => KInv /\ DispatchShows /\ ShownWasDispatched
<1> SUFFICES ASSUME KInit PROVE KInv /\ DispatchShows /\ ShownWasDispatched
  OBVIOUS
<1> USE DEF KInit, Init
<1>1. IInv
  BY IInvInit
<1>2. CookOK
  BY DEF CookOK, NoCookJob
<1>3. TicketsOK /\ SendersOK
  BY DEF TicketsOK, SendersOK, NoJob, Sending
<1>4. DispatchShows /\ ShownWasDispatched
  BY DEF DispatchShows, ShownWasDispatched, NoRow
<1> QED
  BY <1>1, <1>2, <1>3, <1>4 DEF KInv

\* Tickets that only move forward keep what the requests of cooks rest on.
LEMMA CooksKept ==
  ASSUME CookOK, UNCHANGED cook, \A t \in Tickets : TicketMoves(t)
  PROVE  CookOK'
  BY DEF CookOK, TicketMoves

LEMMA KInvPos ==
  ASSUME KInv, [Next]_vars, UNCHANGED <<cook, unmarked>>
  PROVE  KInv' /\ \A t \in Tickets : TicketMoves(t)
<1>1. IInv'
  BY IInvStep DEF KInv
<1>2. TicketsOK' /\ SendersOK' /\ \A t \in Tickets : TicketMoves(t)
  <2>1. CASE UNCHANGED vars
    BY <2>1 DEF vars, KInv, TicketsOK, SendersOK, TicketMoves, At
  <2> QED
    BY <1>1, <2>1, TicketsMove DEF KInv, Next
<1>3. CookOK'
  BY <1>2, CooksKept DEF KInv
<1> QED
  BY <1>1, <1>2, <1>3 DEF KInv

\* How lines move in a step of the point of sale, or in none.
LEMMA LinesMovePos ==
  ASSUME KInv, [Next]_vars, NEW l \in Lines
  PROVE  LineMoves(l) \/ MarkedByHand(l)
<1>1. CASE UNCHANGED vars
  BY <1>1 DEF vars, LineMoves
<1> QED
  BY <1>1, LinesMove DEF KInv, Next

\* No step of the point of sale undoes a dispatch.
LEMMA DispatchShowsPos ==
  ASSUME KInv, DispatchShows, [Next]_vars, UNCHANGED <<cook, unmarked>>,
         Statuses \subseteq {"dispatched", "paid"}
  PROVE  DispatchShows'
<1> SUFFICES ASSUME NEW t \in Tickets, NEW l \in Lines,
                    tickets'[t].items[l] = "dispatched", Marked(l)', Exists(l)'
             PROVE  lines'[l].status \in {"dispatched", "paid"}
  BY DEF DispatchShows
<1>1. TicketMoves(t) /\ (LineMoves(l) \/ MarkedByHand(l))
  BY KInvPos, LinesMovePos
<1>2. tickets[t].items[l] = "dispatched" /\ Marked(l)
  BY <1>1 DEF TicketMoves, Marked
<1>3. Exists(l) => lines[l].status \in {"dispatched", "paid"}
  BY <1>2 DEF DispatchShows
<1>4. lines[l].status # "none"
  BY <1>2 DEF KInv, TicketsOK
<1> QED
  BY <1>1, <1>3, <1>4 DEF LineMoves, MarkedByHand, Exists

\* Nor does one show a dispatch that was not, unless somebody marks the line by hand.
LEMMA ShownPos ==
  ASSUME KInv, ShownWasDispatched, [Next]_vars, UNCHANGED <<cook, unmarked>>,
         byHand \subseteq byHand', SetByHand \subseteq byHand' \/ UNCHANGED vars
  PROVE  ShownWasDispatched'
<1> SUFFICES ASSUME NEW l \in Lines, l \notin byHand', lines'[l].status = "dispatched"
             PROVE  \E t \in Tickets : tickets'[t].items[l] = "dispatched"
  BY DEF ShownWasDispatched
<1>1. LineMoves(l)
  BY LinesMovePos DEF MarkedByHand, LineMoves, vars
<1>2. lines[l].status = "dispatched" /\ l \notin byHand
  BY <1>1 DEF LineMoves
<1>3. PICK t \in Tickets : tickets[t].items[l] = "dispatched"
  BY <1>2 DEF ShownWasDispatched
<1> QED
  BY <1>3, KInvPos DEF TicketMoves

-----------------------------------------------------------------------------
(* The statements of the kitchen.                                          *)

\* How a statement of the kitchen may change a ticket.
CookMoves(t) ==
    /\ tickets'[t].order = tickets[t].order
    /\ tickets'[t].status \in {tickets[t].status, "in_progress"}
    /\ tickets[t].status = "none" => tickets'[t].status = "none"
    /\ \A l \in Lines :
          \/ tickets'[t].items[l] = tickets[t].items[l]
          \/ tickets[t].items[l] = "new" /\ tickets'[t].items[l] = "processing"
          \/ tickets[t].items[l] # "none" /\ tickets'[t].items[l] = "dispatched"

LEMMA IInvKept ==
  ASSUME IInv, TypeOK', UNCHANGED <<orders, lines, rooms, paid, sold, ledger, job>>,
         \A t \in Tickets : CookMoves(t)
  PROVE  IInv'
<1>1. DebtIsVisible' /\ BookedMeansClosed' /\ KeysSound'
  BY DEF IInv, DebtIsVisible, BookedMeansClosed, KeysSound, Closed, Exists, CookMoves
<1>2. ReadsStayTrue'
  BY DEF IInv, ReadsStayTrue, ReadsHold, Closed, Exists, At
<1> QED
  BY <1>1, <1>2 DEF IInv

\* What was listed stays listed, and requests that write tickets are not disturbed.
LEMMA ListsKept ==
  ASSUME TicketsOK, SendersOK, UNCHANGED <<lines, job>>,
         \A t \in Tickets : CookMoves(t)
  PROVE  TicketsOK' /\ SendersOK'
<1>1. \A t \in Tickets :
        /\ tickets'[t].order = tickets[t].order
        /\ tickets'[t].status = "none" => tickets[t].status = "none"
        /\ tickets[t].status = "none" => tickets'[t].status = "none"
  BY DEF CookMoves
<1>2. \A t \in Tickets, l \in Lines :
        /\ tickets'[t].items[l] = "none" => tickets[t].items[l] = "none"
        /\ tickets[t].items[l] = "none" => tickets'[t].items[l] = "none"
  BY DEF CookMoves
<1>3. TicketsOK'
  <2>1. ASSUME NEW t \in Tickets, tickets'[t].status = "none"
        PROVE  tickets'[t].order = NoOrder /\ \A l \in Lines : tickets'[t].items[l] = "none"
    <3>1. tickets[t].status = "none"
      BY <1>1, <2>1
    <3>2. tickets[t].order = NoOrder /\ \A l \in Lines : tickets[t].items[l] = "none"
      BY <3>1 DEF TicketsOK
    <3> QED
      BY <1>1, <1>2, <3>2
  <2>2. ASSUME NEW t \in Tickets, NEW l \in Lines, tickets'[t].items[l] # "none"
        PROVE  lines'[l].status # "none"
    <3>1. tickets[t].items[l] # "none"
      BY <1>2, <2>2
    <3> QED
      BY <3>1 DEF TicketsOK
  <2> QED
    BY <2>1, <2>2 DEF TicketsOK
<1>4. SendersOK'
  BY <1>1, <1>2 DEF SendersOK, At
<1> QED
  BY <1>3, <1>4

\* Neither are the other cooks.
LEMMA OthersKept ==
  ASSUME CookOK, TicketsOK, NEW c \in Cooks, NEW k, cook' = [cook EXCEPT ![c] = k],
         k \in [step : {"idle", "startItems", "markLine"},
                ticket : Tickets \cup {NoTicket}, line : Lines \cup {NoLine}],
         \A t \in Tickets : CookMoves(t),
         k.step # "markLine" => k.line = NoLine,
         k.step = "startItems" => k.ticket \in Tickets /\ tickets'[k.ticket].status # "none",
         k.step = "markLine" => /\ k.ticket \in Tickets /\ k.line \in Lines
                                /\ tickets'[k.ticket].items[k.line] = "dispatched"
  PROVE  CookOK'
<1>1. /\ cook'[c] = k
      /\ \A d \in Cooks \ {c} : cook'[d] = cook[d]
      /\ cook' \in [Cooks -> [step : {"idle", "startItems", "markLine"},
                              ticket : Tickets \cup {NoTicket}, line : Lines \cup {NoLine}]]
  BY DEF CookOK
<1>2. \A t \in Tickets : /\ tickets[t].status # "none" => tickets'[t].status # "none"
                        /\ \A l \in Lines : tickets[t].items[l] = "dispatched"
                                              => tickets'[t].items[l] = "dispatched"
  BY DEF CookMoves
<1> QED
  BY <1>1, <1>2 DEF CookOK

LEMMA KInvCook ==
  ASSUME KInv, NEW c \in Cooks, KitchenStep(c)
  PROVE  KInv' /\ \A t \in Tickets : CookMoves(t)
<1> DEFINE Goal == KInv' /\ \A t \in Tickets : CookMoves(t)
<1>t. TypeOK /\ tickets \in [Tickets -> TicketRow] /\ CookOK
  BY DEF KInv, IInv, TypeOK
<1>n. NoCookJob \in [step : {"idle", "startItems", "markLine"},
                     ticket : Tickets \cup {NoTicket}, line : Lines \cup {NoLine}]
      /\ NoCookJob.step = "idle" /\ NoCookJob.line = NoLine
  BY DEF NoCookJob
\* Statements that write tickets.
<1>k. ASSUME UNCHANGED <<orders, lines, rooms, paid, sold, ledger, job>>,
             \A t \in Tickets : CookMoves(t), tickets' \in [Tickets -> TicketRow], CookOK'
      PROVE  Goal
  <2>1. TypeOK'
    BY <1>k, <1>t DEF TypeOK
  <2> QED
    BY <1>k, <2>1, IInvKept, ListsKept DEF KInv
<1>1. CASE StartItems(c)
  <2> DEFINE s == cook[c].ticket
  <2>1. s \in Tickets
    BY <1>1, <1>t DEF StartItems, CookOK
  <2>2. tickets' \in [Tickets -> TicketRow]
    BY <1>1, <1>t, <2>1 DEF StartItems, TicketRow
  <2>3. \A t \in Tickets : CookMoves(t)
    BY <1>1, <1>t, <2>1 DEF StartItems, TicketRow, CookMoves
  <2>4. CookOK'
    BY <1>1, <1>t, <1>n, <2>3, OthersKept DEF StartItems, Rest, KInv
  <2> QED
    BY <1>1, <1>k, <2>2, <2>3, <2>4 DEF StartItems
<1>2. ASSUME NEW t \in Tickets, AcknowledgeOrder(c, t) PROVE Goal
  <2> DEFINE k == [step |-> "startItems", ticket |-> t, line |-> NoLine]
  <2>2. tickets' \in [Tickets -> TicketRow]
    BY <1>2, <1>t DEF AcknowledgeOrder, TicketRow
  <2>3. \A s \in Tickets : CookMoves(s)
    BY <1>2, <1>t DEF AcknowledgeOrder, TicketRow, CookMoves
  <2>4. tickets'[t].status # "none"
    BY <1>2, <1>t DEF AcknowledgeOrder, TicketRow
  <2>5. CookOK'
    BY <1>2, <1>t, <2>3, <2>4, OthersKept DEF AcknowledgeOrder, KInv
  <2> QED
    BY <1>2, <1>k, <2>2, <2>3, <2>5 DEF AcknowledgeOrder
<1>3. ASSUME NEW t \in Tickets, NEW l \in Lines, DispatchItem(c, t, l) PROVE Goal
  <2>2. tickets' \in [Tickets -> TicketRow]
    BY <1>3, <1>t DEF DispatchItem, TicketRow
  <2>3. \A s \in Tickets : CookMoves(s)
    BY <1>3, <1>t DEF DispatchItem, TicketRow, CookMoves
  <2>4. tickets'[t].items[l] = "dispatched"
    BY <1>3, <1>t DEF DispatchItem, TicketRow
  <2>5. CookOK'
    BY <1>3, <1>t, <2>3, <2>4, OthersKept DEF DispatchItem, KInv
  <2> QED
    BY <1>3, <1>k, <2>2, <2>3, <2>5 DEF DispatchItem
<1>4. CASE CookInterrupted(c)
  <2>1. \A s \in Tickets : CookMoves(s)
    BY <1>4 DEF CookInterrupted, vars, CookMoves
  <2>2. CookOK'
    BY <1>4, <1>n, <2>1, OthersKept DEF CookInterrupted, Rest, KInv
  <2> QED
    BY <1>4, <1>k, <1>t, <2>1, <2>2 DEF CookInterrupted, vars
<1>5. CASE MarkLine(c)
  <2> DEFINE l == cook[c].line
  <2>1. l \in Lines
    BY <1>5, <1>t DEF MarkLine, CookOK
  <2>2. /\ lines' \in [Lines -> LineRow]
        /\ \A m \in Lines \ {l} : lines'[m] = lines[m]
        /\ lines'[l].order = lines[l].order
        /\ lines'[l].status = IF Exists(l) THEN "dispatched" ELSE lines[l].status
    BY <1>5, <1>t, <2>1 DEF MarkLine, TypeOK, LineRow
  <2>3. UNCHANGED <<orders, tickets, rooms, paid, sold, ledger, job>>
    BY <1>5 DEF MarkLine
  <2>4. ASSUME NEW m \in Lines
        PROVE  /\ Exists(m)' => Exists(m)
               /\ Exists(m) => Exists(m)'
               /\ lines'[m].order = lines[m].order
               /\ lines'[m].status = "none" => lines[m].status = "none"
               /\ lines[m].status = "none" => lines'[m].status = "none"
               /\ lines'[m].status = "paid" => lines[m].status = "paid"
    BY <2>1, <2>2 DEF Exists
  <2>5. TypeOK'
    BY <1>t, <2>2, <2>3 DEF TypeOK
  <2>6. DebtIsVisible' /\ BookedMeansClosed' /\ KeysSound'
    BY <2>3, <2>4 DEF KInv, IInv, DebtIsVisible, BookedMeansClosed, KeysSound, Closed
  <2>7. ReadsStayTrue'
    BY <2>3, <2>4 DEF KInv, IInv, ReadsStayTrue, ReadsHold, Closed, At
  <2>8. TicketsOK' /\ SendersOK'
    BY <2>3, <2>4 DEF KInv, TicketsOK, SendersOK, At
  <2>9. \A s \in Tickets : CookMoves(s)
    BY <2>3 DEF CookMoves
  <2>10. CookOK'
    BY <1>5, <1>n, <2>9, OthersKept DEF MarkLine, Rest, KInv
  <2> QED
    BY <2>5, <2>6, <2>7, <2>8, <2>9, <2>10 DEF KInv, IInv
<1> QED
  BY <1>1, <1>2, <1>3, <1>4, <1>5 DEF KitchenStep

\* A cook shows what was dispatched before calling it done.
LEMMA ShownCook ==
  ASSUME KInv, ShownWasDispatched, NEW c \in Cooks, KitchenStep(c)
  PROVE  ShownWasDispatched'
<1>m. \A t \in Tickets : CookMoves(t)
  BY KInvCook
<1>t. TypeOK /\ CookOK
  BY DEF KInv, IInv
<1>b. UNCHANGED byHand
  BY DEF KitchenStep, StartItems, MarkLine, CookInterrupted, AcknowledgeOrder, DispatchItem
<1>1. CASE UNCHANGED lines
  BY <1>1, <1>m, <1>b DEF ShownWasDispatched, CookMoves
<1>2. CASE MarkLine(c)
  <2> DEFINE k == cook[c].line
  <2>1. /\ k \in Lines /\ cook[c].ticket \in Tickets
        /\ tickets[cook[c].ticket].items[k] = "dispatched"
    BY <1>2, <1>t DEF MarkLine, CookOK
  <2>2. /\ \A l \in Lines \ {k} : lines'[l] = lines[l]
        /\ UNCHANGED tickets
    BY <1>2, <1>t, <2>1 DEF MarkLine, TypeOK, LineRow
  <2> QED
    BY <1>b, <2>1, <2>2 DEF ShownWasDispatched
<1> QED
  BY <1>1, <1>2 DEF KitchenStep, StartItems, CookInterrupted, AcknowledgeOrder, DispatchItem,
                    vars

LEMMA DispatchShowsCook ==
  ASSUME KInv, DispatchShows, NEW c \in Cooks, KitchenStep(c)
  PROVE  DispatchShows'
<1>m. \A t \in Tickets : CookMoves(t)
  BY KInvCook
<1>t. TypeOK /\ CookOK /\ tickets \in [Tickets -> TicketRow]
  BY DEF KInv, IInv, TypeOK
\* Statements that dispatch nothing and take no line from those unmarked.
<1>q. ASSUME UNCHANGED lines, \A l \in Lines : Marked(l)' => Marked(l),
             \A t \in Tickets, l \in Lines :
                tickets'[t].items[l] = "dispatched" => tickets[t].items[l] = "dispatched"
      PROVE  DispatchShows'
  BY <1>q DEF DispatchShows, Exists
<1>1. CASE StartItems(c)
  <2>1. cook'[c].line = cook[c].line /\ \A d \in Cooks \ {c} : cook'[d] = cook[d]
    BY <1>1, <1>t DEF StartItems, Rest, NoCookJob, CookOK
  <2>2. \A l \in Lines : Marked(l)' => Marked(l)
    BY <1>1, <2>1 DEF Marked, StartItems
  <2>3. \A t \in Tickets, l \in Lines :
           tickets'[t].items[l] = "dispatched" => tickets[t].items[l] = "dispatched"
    BY <1>1, <1>t DEF StartItems, CookOK, TicketRow
  <2> QED
    BY <1>1, <1>q, <2>2, <2>3 DEF StartItems
<1>2. ASSUME NEW s \in Tickets, AcknowledgeOrder(c, s) PROVE DispatchShows'
  <2>1. cook'[c].line = cook[c].line /\ \A d \in Cooks \ {c} : cook'[d] = cook[d]
    BY <1>2, <1>t DEF AcknowledgeOrder, Free, CookOK
  <2>2. \A l \in Lines : Marked(l)' => Marked(l)
    BY <1>2, <2>1 DEF Marked, AcknowledgeOrder
  <2>3. \A t \in Tickets, l \in Lines :
           tickets'[t].items[l] = "dispatched" => tickets[t].items[l] = "dispatched"
    BY <1>2, <1>t DEF AcknowledgeOrder, TicketRow
  <2> QED
    BY <1>2, <1>q, <2>2, <2>3 DEF AcknowledgeOrder
<1>3. ASSUME NEW s \in Tickets, NEW k \in Lines, DispatchItem(c, s, k) PROVE DispatchShows'
  <2>1. /\ cook[c].line = NoLine /\ cook'[c].line = k
        /\ \A d \in Cooks \ {c} : cook'[d] = cook[d]
    BY <1>3, <1>t DEF DispatchItem, Free, CookOK
  <2>2. \A l \in Lines : Marked(l)' => Marked(l) /\ l # k
    BY <1>3, <2>1, NullsAssumption DEF Marked, DispatchItem
  <2>3. \A t \in Tickets, l \in Lines :
           tickets'[t].items[l] = "dispatched" => tickets[t].items[l] = "dispatched" \/ l = k
    BY <1>3, <1>t DEF DispatchItem, TicketRow
  <2>4. UNCHANGED lines
    BY <1>3 DEF DispatchItem
  <2> QED
    BY <2>2, <2>3, <2>4 DEF DispatchShows, Exists
<1>4. CASE CookInterrupted(c)
  <2>1. /\ cook'[c].line = NoLine /\ \A d \in Cooks \ {c} : cook'[d] = cook[d]
        /\ UNCHANGED <<lines, tickets>>
    BY <1>4, <1>t DEF CookInterrupted, Rest, NoCookJob, CookOK, vars
  <2>2. \A l \in Lines : Marked(l)' => Marked(l)
    BY <1>4, <2>1 DEF Marked, CookInterrupted
  <2> QED
    BY <1>q, <2>1, <2>2
<1>5. CASE MarkLine(c)
  <2> DEFINE k == cook[c].line
  <2>1. /\ k \in Lines /\ cook[c].ticket \in Tickets
        /\ tickets[cook[c].ticket].items[k] = "dispatched"
    BY <1>5, <1>t DEF MarkLine, CookOK
  <2>2. /\ \A l \in Lines \ {k} : lines'[l] = lines[l]
        /\ lines'[k].status = IF Exists(k) THEN "dispatched" ELSE lines[k].status
        /\ UNCHANGED tickets
    BY <1>5, <1>t, <2>1 DEF MarkLine, TypeOK, LineRow
  <2>3. ASSUME NEW l \in Lines, Marked(l)', l # k PROVE Marked(l)
    BY <1>5, <1>t, <2>3 DEF Marked, MarkLine, Rest, CookOK
  <2> SUFFICES ASSUME NEW t \in Tickets, NEW l \in Lines,
                      tickets'[t].items[l] = "dispatched", Marked(l)', Exists(l)'
               PROVE  lines'[l].status \in {"dispatched", "paid"}
    BY DEF DispatchShows
  <2>4. CASE l = k
    BY <2>1, <2>2, <2>4 DEF Exists
  <2>5. CASE l # k
    BY <2>2, <2>3, <2>5 DEF Exists, DispatchShows
  <2> QED
    BY <2>4, <2>5
<1> QED
  BY <1>1, <1>2, <1>3, <1>4, <1>5 DEF KitchenStep

-----------------------------------------------------------------------------
(* The theorems.                                                           *)

LEMMA KInvStep == KInv /\ [KNext]_kVars => KInv'
<1> SUFFICES ASSUME KInv, [KNext]_kVars PROVE KInv'
  OBVIOUS
<1>1. CASE Next /\ UNCHANGED <<cook, unmarked>>
  BY <1>1, KInvPos
<1>2. CASE UNCHANGED kVars
  BY <1>2, KInvPos DEF kVars
<1> QED
  BY <1>1, <1>2, KInvCook DEF KNext

LEMMA KInvAlways == KSpec => []KInv
  BY KInvInit, KInvStep, PTL DEF KSpec

\* However requests of the point of sale and of kitchen screens interleave and wherever they
\* stop, no dish goes back to an earlier state: neither a second acknowledge, nor a card that
\* is out of date, nor a ticket still being written undoes a dispatch (acknowledge_order,
\* dispatch_item, send_to_kitchen).
THEOREM CookingMovesForwardAlways == KSpec => CookingMovesForward
<1>1. ASSUME KInv, [KNext]_kVars
      PROVE  [\A t \in Tickets, l \in Lines :
                Stage(tickets'[t].items[l]) >= Stage(tickets[t].items[l])]_kVars
  <2>t. TypeOK /\ TypeOK'
    BY <1>1, KInvStep DEF KInv, IInv
  <2>1. CASE Next /\ UNCHANGED <<cook, unmarked>>
    BY <1>1, <2>1, <2>t, KInvPos DEF TicketMoves, Stage, TypeOK, TicketRow
  <2>2. ASSUME NEW c \in Cooks, KitchenStep(c)
        PROVE  \A t \in Tickets, l \in Lines :
                 Stage(tickets'[t].items[l]) >= Stage(tickets[t].items[l])
    BY <1>1, <2>2, <2>t, KInvCook DEF CookMoves, Stage, TypeOK, TicketRow
  <2> QED
    BY <1>1, <2>1, <2>2 DEF KNext
<1> QED
  BY KInvAlways, <1>1, PTL DEF KSpec, CookingMovesForward

\* What the kitchen dispatched shows on the bill, unless the request that did it was cut off
\* between its two statements (dispatch_item against send_to_kitchen and checkout), and as
\* long as clients write no status by hand that undoes it: the screens write 'dispatched'.
THEOREM DispatchShowsAlways ==
  ASSUME Statuses \subseteq {"dispatched", "paid"}
  PROVE  KSpec => []DispatchShows
<1>1. KInv /\ DispatchShows /\ [KNext]_kVars => DispatchShows'
  <2> SUFFICES ASSUME KInv, DispatchShows, [KNext]_kVars PROVE DispatchShows'
    OBVIOUS
  <2>1. CASE Next /\ UNCHANGED <<cook, unmarked>>
    BY <2>1, DispatchShowsPos
  <2>2. CASE UNCHANGED kVars
    BY <2>2, DispatchShowsPos DEF kVars
  <2> QED
    BY <2>1, <2>2, DispatchShowsCook DEF KNext
<1> QED
  BY KInvAlways, KInvInit, <1>1, PTL DEF KSpec

\* A line that nobody marked at the order screen shows as dispatched only once the kitchen
\* has dispatched it: neither a late send_to_kitchen nor a checkout makes it up, whatever
\* statuses clients write on the other lines (README.md:399).
THEOREM ShownWasDispatchedAlways == KSpec => []ShownWasDispatched
<1>1. KInv /\ ShownWasDispatched /\ [KNext]_kVars => ShownWasDispatched'
  <2> SUFFICES ASSUME KInv, ShownWasDispatched, [KNext]_kVars PROVE ShownWasDispatched'
    OBVIOUS
  <2>1. CASE Next /\ UNCHANGED <<cook, unmarked>> /\ byHand' = byHand \cup SetByHand
    BY <2>1, ShownPos
  <2>2. CASE UNCHANGED kVars
    BY <2>2, ShownPos DEF kVars
  <2> QED
    BY <2>1, <2>2, ShownCook DEF KNext
<1> QED
  BY KInvAlways, KInvInit, <1>1, PTL DEF KSpec

=============================================================================

--------------------------- MODULE OrderPageProofs ---------------------------
(***************************************************************************)
(* Theorems about OrderPage, for any products, prices, discounts and       *)
(* bounds: a bill is closed once and its receipt shows what was booked,    *)
(* whatever is tapped again, lost on the way, overtaken, given up or cut   *)
(* off; the figures add up and are those the cashier was shown; and the    *)
(* screen ends up with the bill as it is. The pair implements Bill.        *)
(***************************************************************************)
EXTENDS OrderPage, SumLaws, SequenceTheorems, TLAPS

-----------------------------------------------------------------------------

Ops == {"get", "add", "remove", "quantity", "discount", "status", "send", "waitstaff",
        "attach", "void", "checkout"}

BillFields == {"status", "version", "customer", "waiter", "lines", "total", "next"}

CallFields == {"req", "phase", "heard"}
AnswerFields == CallFields \cup {"ok", "figures", "order", "fresh"}

\* A checkout that was answered as done brings the figures b of the books.
Truthful(c, b) ==
    /\ DOMAIN c = IF c.phase = "answered" THEN AnswerFields ELSE CallFields
    /\ c.req.op \in Ops
    /\ c.phase = "answered" /\ c.req.op = "checkout" /\ c.ok => b # NoFigures /\ c.figures = b

OInv ==
    /\ DOMAIN order = BillFields
    /\ order.status \in {"open", "voided"} => books = NoFigures
    /\ ClosedOnce /\ (\E S : takings \in Seq(S))
    /\ \E S : calls \in Seq(S)
    /\ \A j \in DOMAIN calls : Truthful(calls[j], books)
    /\ receipt \in {NoFigures, books}

\* What a receipt says was booked.
ReceiptIsBooked == receipt # NoFigures => receipt = books

-----------------------------------------------------------------------------
(* Requests at the server.                                                 *)

\* The bill keeps its fields, and its status but for three requests.
Edited(o, out) == DOMAIN out.order = BillFields /\ out.order.status = o.status /\ out.figures = NoFigures

LEMMA RefusedEdits ==
    ASSUME NEW o, DOMAIN o = BillFields
    PROVE  Edited(o, Refused(o)) /\ Refused(o).ok = FALSE
  BY DEF Edited, Refused

LEMMA DoneEdits ==
    ASSUME NEW o, NEW p, DOMAIN p = BillFields, p.status = o.status
    PROVE  Edited(o, Done(p))
  BY DEF Edited, Done, BillFields

LEMMA LineEdits ==
    ASSUME NEW o, DOMAIN o = BillFields, NEW p, NEW i, NEW q
    PROVE  /\ Edited(o, AddItem(o, p)) /\ Edited(o, RemoveItem(o, i))
           /\ Edited(o, UpdateItemQuantity(o, i, q)) /\ Edited(o, SetItemDiscount(o, i, q))
           /\ Edited(o, UpdateItemStatus(o, i))
<1> USE RefusedEdits, DoneEdits
<1>1. Edited(o, AddItem(o, p))
  <2> DEFINE n == [o EXCEPT !.lines = Put(@, o.next, NewLine(p)),
                            !.total = @ + Price[p], !.next = @ + 1]
  <2>1. DOMAIN n = BillFields /\ n.status = o.status
    BY DEF BillFields
  <2> HIDE DEF n
  <2>2. Edited(o, Done(n))
    BY <2>1
  <2> QED
    BY <2>2 DEF AddItem, n
<1>2. Edited(o, RemoveItem(o, i))
  <2> DEFINE n == [o EXCEPT !.lines = Restrict(@, DOMAIN @ \ {i}),
                            !.total = @ - LineTotal(o.lines[i])]
  <2>1. DOMAIN n = BillFields /\ n.status = o.status
    BY DEF BillFields
  <2> HIDE DEF n
  <2>2. Edited(o, Done(n))
    BY <2>1
  <2> QED
    BY <2>2 DEF RemoveItem, n
<1>3. Edited(o, UpdateItemQuantity(o, i, q))
  <2> DEFINE n == [o EXCEPT !.lines[i].qty = q,
                            !.total = @ + Price[o.lines[i].product] * (q - o.lines[i].qty)]
  <2>1. DOMAIN n = BillFields /\ n.status = o.status
    BY DEF BillFields
  <2> HIDE DEF n
  <2>2. Edited(o, Done(n))
    BY <2>1
  <2> QED
    BY <1>2, <2>2 DEF UpdateItemQuantity, n
<1>4. Edited(o, SetItemDiscount(o, i, q))
  <2> DEFINE clamped == Min({Max({q, 0}), ListTotal(o.lines[i])})
             n == [o EXCEPT !.lines[i].disc = clamped,
                            !.total = @ - (clamped - o.lines[i].disc)]
  <2>1. DOMAIN n = BillFields /\ n.status = o.status
    <3> HIDE DEF clamped
    <3> QED
      BY DEF BillFields
  <2> HIDE DEF n
  <2>2. Edited(o, Done(n))
    BY <2>1
  <2> QED
    BY <2>2 DEF SetItemDiscount, n
<1>5. Edited(o, UpdateItemStatus(o, i))
  <2> DEFINE n == [o EXCEPT !.lines[i].status = "dispatched"]
  <2>1. DOMAIN n = BillFields /\ n.status = o.status
    BY DEF BillFields
  <2> HIDE DEF n
  <2>2. Edited(o, Done(n))
    BY <2>1
  <2> QED
    BY <2>2 DEF UpdateItemStatus, n
<1> QED
  BY <1>1, <1>2, <1>3, <1>4, <1>5

LEMMA BillEdits ==
    ASSUME NEW o, DOMAIN o = BillFields
    PROVE  Edited(o, SendToKitchen(o)) /\ Edited(o, AttachCustomer(o)) /\ Edited(o, UpdateWaitstaff(o))
  BY DoneEdits DEF SendToKitchen, AttachCustomer, UpdateWaitstaff, BillFields

\* A request that is booked settles an open bill, with the figures it brings back.
Settles(o, out) ==
    /\ o.status = "open"
    /\ DOMAIN out.order = BillFields /\ out.order.status \in {"paid", "tab"}
    /\ out.figures # NoFigures

LEMMA FiguresAreFigures == \A o, r : Figures(o, r) # NoFigures
<1> SUFFICES ASSUME NEW o, NEW r
             PROVE  Figures(o, r) # NoFigures
  OBVIOUS
<1>1. "paid" \in DOMAIN Figures(o, r)
  BY DEF Figures
<1>2. "paid" \notin DOMAIN NoFigures
  BY DEF NoFigures
<1> QED
  BY <1>1, <1>2

LEMMA CheckoutSettles ==
    ASSUME NEW o, DOMAIN o = BillFields, NEW r
    PROVE  \/ Edited(o, Checkout(o, r)) /\ Checkout(o, r).ok = FALSE
           \/ Settles(o, Checkout(o, r))
<1> DEFINE f == Figures(o, r)
           n == [o EXCEPT !.status = IF f.owed > 0 THEN "tab" ELSE "paid", !.total = f.total,
                          !.lines = [i \in DOMAIN @ |-> [@[i] EXCEPT !.status = "paid"]]]
           d == Done(n)
<1>1. CASE ~TakesPayment(o) \/ (f.owed > 0 /\ ~(r.partial /\ o.customer))
  BY <1>1, RefusedEdits DEF Checkout
<1>2. CASE ~(~TakesPayment(o) \/ (f.owed > 0 /\ ~(r.partial /\ o.customer)))
  <2>1. Checkout(o, r) = [d EXCEPT !.figures = f]
    BY <1>2 DEF Checkout
  <2>2. f # NoFigures
    BY FiguresAreFigures
  <2>3. o.status = "open"
    BY <1>2 DEF TakesPayment
  <2>4. DOMAIN n = BillFields /\ n.status \in {"tab", "paid"}
    <3> HIDE DEF f
    <3> QED
      BY DEF BillFields
  <2> HIDE DEF f, n
  <2>5. d = [ok |-> TRUE, order |-> [n EXCEPT !.version = @ + 1], figures |-> NoFigures]
    BY DEF Done
  <2>6. DOMAIN [n EXCEPT !.version = @ + 1] = BillFields
        /\ [n EXCEPT !.version = @ + 1].status = n.status
    BY <2>4 DEF BillFields
  <2>7. Checkout(o, r).figures = f /\ Checkout(o, r).order = [n EXCEPT !.version = @ + 1]
    BY <2>1, <2>5
  <2> QED
    BY <2>2, <2>3, <2>4, <2>6, <2>7 DEF Settles
<1> QED
  BY <1>1, <1>2

\* Voiding is the other way to close a bill.
Voids(o, out) ==
    o.status = "open" /\ DOMAIN out.order = BillFields /\ out.order.status = "voided"
    /\ out.figures = NoFigures

LEMMA VoidVoids ==
    ASSUME NEW o, DOMAIN o = BillFields
    PROVE  Edited(o, VoidOrder(o)) \/ Voids(o, VoidOrder(o))
  BY RefusedEdits DEF VoidOrder, Voids, Done, BillFields

LEMMA Outcomes ==
    ASSUME NEW o, DOMAIN o = BillFields, NEW r, r.op \in Ops
    PROVE  /\ Edited(o, Outcome(o, r)) \/ Voids(o, Outcome(o, r)) \/ Settles(o, Outcome(o, r))
           /\ r.op = "checkout" /\ Outcome(o, r).ok => Settles(o, Outcome(o, r))
<1>1. CASE r.op = "get"
  BY <1>1 DEF Outcome, Edited
<1>2. CASE r.op = "checkout"
  BY <1>2, CheckoutSettles DEF Outcome
<1>3. CASE r.op = "void"
  BY <1>3, VoidVoids DEF Outcome
<1>4. CASE r.op \in {"add", "remove", "quantity", "discount", "status"}
  BY <1>4, LineEdits DEF Outcome
<1>5. CASE r.op \in {"send", "waitstaff", "attach"}
  BY <1>5, BillEdits DEF Outcome
<1> QED
  BY <1>1, <1>2, <1>3, <1>4, <1>5 DEF Ops

\* Cut short, a request does the same to the status of the bill and to the books.
Short(o, r, ticketed) == [order |-> CutShort(o, r, ticketed), figures |-> Outcome(o, r).figures]

LEMMA CutShortLikewise ==
    ASSUME NEW o, DOMAIN o = BillFields, NEW r, r.op \in Ops, NEW ticketed
    PROVE  \/ Edited(o, Short(o, r, ticketed)) \/ Voids(o, Short(o, r, ticketed))
           \/ Settles(o, Short(o, r, ticketed))
<1> DEFINE out == Outcome(o, r)
           bill == out.order
           left == CutShort(o, r, ticketed)
<1>1. Edited(o, out) \/ Voids(o, out) \/ Settles(o, out)
  BY Outcomes
<1>2. DOMAIN bill = BillFields
  BY <1>1 DEF Edited, Voids, Settles
<1>3. DOMAIN left = BillFields /\ left.status = bill.status
  <2> HIDE DEF out
  <2>1. \E m : left \in {[bill EXCEPT !.lines = m], [bill EXCEPT !.total = m]}
    BY DEF CutShort, out
  <2> HIDE DEF left, bill
  <2>2. \A m : /\ DOMAIN [bill EXCEPT !.lines = m] = BillFields
              /\ [bill EXCEPT !.lines = m].status = bill.status
              /\ DOMAIN [bill EXCEPT !.total = m] = BillFields
              /\ [bill EXCEPT !.total = m].status = bill.status
    BY <1>2 DEF BillFields
  <2> QED
    BY <2>1, <2>2
<1>4. Short(o, r, ticketed).order = left /\ Short(o, r, ticketed).figures = out.figures
  BY DEF Short
<1> HIDE DEF out, left
<1> QED
  BY <1>1, <1>3, <1>4 DEF Edited, Voids, Settles

LEMMA TakingsGrow ==
    ASSUME NEW S, NEW s \in Seq(S), NEW e, NEW t, t = Append(s, e)
    PROVE  /\ t \in Seq(S \cup {e}) /\ Len(t) = Len(s) + 1 /\ Len(s) \in Nat /\ t # <<>>
           /\ t[Len(t)] = e /\ DOMAIN t = DOMAIN s \cup {Len(t)} /\ DOMAIN s = 1..Len(s)
           /\ \A k \in DOMAIN s : t[k] = s[k] /\ k # Len(t)
<1>1. s \in Seq(S \cup {e}) /\ Len(s) \in Nat /\ DOMAIN s = 1..Len(s)
  OBVIOUS
<1>2. t \in Seq(S \cup {e}) /\ Len(t) = Len(s) + 1 /\ t[Len(s) + 1] = e
      /\ \A k \in 1..Len(s) : t[k] = s[k]
  BY <1>1
<1>3. DOMAIN t = 1..(Len(s) + 1)
  BY <1>1, <1>2
<1> QED
  BY <1>1, <1>2, <1>3

\* Booked, a request closes the bill with its figures or leaves the books alone; only an
\* open bill is closed.
LEMMA Booked ==
    ASSUME OInv, NEW out, Edited(order, out) \/ Voids(order, out) \/ Settles(order, out),
           Book(out.order, out.figures)
    PROVE  /\ DOMAIN order' = BillFields
           /\ order'.status \in {"open", "voided"} => books' = NoFigures
           /\ ClosedOnce' /\ (\E S : takings' \in Seq(S))
           /\ books # NoFigures => books' = books
           /\ Settles(order, out) => books' # NoFigures /\ out.figures = books'
<1>1. /\ order' = out.order
      /\ IF out.figures = NoFigures THEN UNCHANGED <<books, takings>>
         ELSE books' = out.figures
              /\ takings' = Append(takings, [paid |-> out.figures.paid, closed |-> TRUE])
  BY DEF Book
<1>2. CASE Edited(order, out) \/ Voids(order, out)
  <2>1. UNCHANGED <<books, takings>> /\ ~Settles(order, out)
    BY <1>1, <1>2 DEF Edited, Voids, Settles
  <2> QED
    BY <1>1, <1>2, <2>1 DEF Edited, Voids, OInv, ClosedOnce
<1>3. CASE Settles(order, out)
  <2>1. books = NoFigures /\ \A k \in DOMAIN takings : ~takings[k].closed
    BY <1>3 DEF OInv, ClosedOnce, Settles
  <2> DEFINE e == [paid |-> out.figures.paid, closed |-> TRUE]
  <2>2. books' = out.figures /\ books' # NoFigures /\ takings' = Append(takings, e)
    BY <1>1, <1>3 DEF Settles
  <2>3. e.closed /\ e.paid = books'.paid
    BY <2>2
  <2> HIDE DEF e
  <2>4. PICK S : takings \in Seq(S)
    BY DEF OInv
  <2>5. PICK t : t = takings'
    OBVIOUS
  <2>6. /\ t \in Seq(S \cup {e}) /\ t # <<>> /\ t[Len(t)] = e /\ DOMAIN t = DOMAIN takings \cup {Len(t)}
        /\ \A k \in DOMAIN takings : t[k] = takings[k] /\ k # Len(t)
    BY <2>2, <2>4, <2>5, TakingsGrow
  <2>7. \A k \in DOMAIN t : t[k].closed <=> k = Len(t)
    BY <2>1, <2>3, <2>6
  <2>8. ClosedOnce' /\ (\E T : takings' \in Seq(T))
    BY <2>2, <2>3, <2>5, <2>6, <2>7 DEF ClosedOnce
  <2> QED
    BY <1>1, <1>3, <2>1, <2>2, <2>8 DEF Settles
<1> QED
  BY <1>2, <1>3

\* Carried out, a request is booked or leaves the books alone; only an open bill is booked.
LEMMA Performed ==
    ASSUME OInv, NEW r, r.op \in Ops, Perform(r)
    PROVE  /\ DOMAIN order' = BillFields
           /\ order'.status \in {"open", "voided"} => books' = NoFigures
           /\ ClosedOnce' /\ (\E S : takings' \in Seq(S))
           /\ books # NoFigures => books' = books
           /\ r.op = "checkout" /\ Outcome(order, r).ok =>
                 books' # NoFigures /\ Outcome(order, r).figures = books'
<1>1. /\ \/ Edited(order, Outcome(order, r)) \/ Voids(order, Outcome(order, r))
         \/ Settles(order, Outcome(order, r))
      /\ r.op = "checkout" /\ Outcome(order, r).ok => Settles(order, Outcome(order, r))
  BY Outcomes DEF OInv
<1>2. Book(Outcome(order, r).order, Outcome(order, r).figures)
  BY DEF Perform
<1> QED
  BY <1>1, <1>2, Booked

\* Cut off, it may close the bill or leave payments recorded, never both.
LEMMA CutOffWorks ==
    ASSUME OInv, NEW j \in DOMAIN calls, CutOff(j)
    PROVE  /\ DOMAIN order' = BillFields
           /\ order'.status \in {"open", "voided"} => books' = NoFigures
           /\ ClosedOnce' /\ (\E S : takings' \in Seq(S))
           /\ books # NoFigures => books' = books
<1> DEFINE r == calls[j].req
<1>1. r.op \in Ops
  BY DEF OInv, Truthful
<1>2. \/ \E ticketed \in SUBSET NewLines(order) :
            Book(CutShort(order, r, ticketed), Outcome(order, r).figures)
      \/ RecordPayments(r)
  BY DEF CutOff
<1> HIDE DEF r
<1>3. ASSUME NEW ticketed, Book(CutShort(order, r, ticketed), Outcome(order, r).figures)
      PROVE  /\ DOMAIN order' = BillFields
             /\ order'.status \in {"open", "voided"} => books' = NoFigures
             /\ ClosedOnce' /\ (\E S : takings' \in Seq(S))
             /\ books # NoFigures => books' = books
  <2> DEFINE out == Short(order, r, ticketed)
  <2>1. Book(out.order, out.figures)
    BY <1>3 DEF Short
  <2>2. Edited(order, out) \/ Voids(order, out) \/ Settles(order, out)
    BY <1>1, CutShortLikewise DEF OInv
  <2> HIDE DEF out
  <2> QED
    BY <2>1, <2>2, Booked
<1>4. CASE RecordPayments(r)
  <2> DEFINE e == [paid |-> r.paid, closed |-> FALSE]
  <2>1. r.op = "checkout" /\ Outcome(order, r).ok /\ UNCHANGED <<order, books>>
        /\ takings' = Append(takings, e)
    BY <1>4 DEF RecordPayments
  <2>2. Settles(order, Outcome(order, r))
    BY <1>1, <2>1, Outcomes DEF OInv
  <2>3. books = NoFigures /\ \A k \in DOMAIN takings : ~takings[k].closed
    BY <2>2 DEF OInv, ClosedOnce, Settles
  <2>4. ~e.closed
    OBVIOUS
  <2> HIDE DEF e
  <2>5. PICK S : takings \in Seq(S)
    BY DEF OInv
  <2>6. PICK t : t = takings'
    OBVIOUS
  <2>7. /\ t \in Seq(S \cup {e}) /\ t[Len(t)] = e /\ DOMAIN t = DOMAIN takings \cup {Len(t)}
        /\ \A k \in DOMAIN takings : t[k] = takings[k]
    BY <2>1, <2>5, <2>6, TakingsGrow
  <2>8. \A k \in DOMAIN t : ~t[k].closed
    BY <2>3, <2>4, <2>7
  <2> QED
    BY <2>1, <2>3, <2>6, <2>7, <2>8 DEF ClosedOnce, OInv
<1> QED
  BY <1>2, <1>3, <1>4

-----------------------------------------------------------------------------
(* Calls under way.                                                        *)

LEMMA RestOfCalls ==
    ASSUME NEW S, NEW s \in Seq(S), NEW j \in DOMAIN s
    PROVE  /\ RemoveAt(s, j) \in Seq(S)
           /\ \A k \in DOMAIN RemoveAt(s, j) : \E m \in DOMAIN s : RemoveAt(s, j)[k] = s[m]
<1>1. Len(s) \in Nat /\ j \in 1..Len(s) /\ DOMAIN s = 1..Len(s)
  OBVIOUS
<1> DEFINE a == SubSeq(s, 1, j - 1)
           b == SubSeq(s, j + 1, Len(s))
<1>2. /\ a \in Seq(S) /\ Len(a) = j - 1
      /\ \A k \in 1..(j - 1) : a[k] = s[k]
  BY <1>1
<1>3. /\ b \in Seq(S) /\ Len(b) = Len(s) - j
      /\ \A k \in 1..(Len(s) - j) : b[k] = s[j + k]
  BY <1>1
<1>4. RemoveAt(s, j) = a \o b
  BY DEF RemoveAt
<1> HIDE DEF a, b
<1>5. a \o b \in Seq(S) /\ Len(a \o b) = Len(s) - 1
  <2>1. a \o b \in Seq(S) /\ Len(a \o b) = Len(a) + Len(b)
    BY <1>2, <1>3, ConcatProperties
  <2> QED
    BY <1>1, <1>2, <1>3, <2>1
<1>6. ASSUME NEW k \in DOMAIN (a \o b)
      PROVE  \E m \in DOMAIN s : (a \o b)[k] = s[m]
  <2>1. k \in 1..(Len(s) - 1)
    BY <1>5
  <2>2. CASE k <= j - 1
    <3>1. (a \o b)[k] = a[k]
      BY <1>1, <1>2, <1>3, <2>1, <2>2
    <3>2. k \in DOMAIN s /\ a[k] = s[k]
      BY <1>1, <1>2, <2>1, <2>2
    <3> QED
      BY <3>1, <3>2
  <2>3. CASE k > j - 1
    <3>1. (a \o b)[k] = b[k - (j - 1)] /\ k - (j - 1) \in 1..(Len(s) - j)
      BY <1>1, <1>2, <1>3, <2>1, <2>3
    <3>2. b[k - (j - 1)] = s[j + (k - (j - 1))] /\ j + (k - (j - 1)) \in DOMAIN s
      BY <1>1, <1>3, <2>1, <2>3, <3>1
    <3> QED
      BY <3>1, <3>2
  <2> QED
    BY <1>1, <2>1, <2>2, <2>3
<1> QED
  BY <1>4, <1>5, <1>6

\* The calls of a step come from those before it, the books keep what they have.
LEMMA CallsStay ==
    ASSUME OInv, NEW S, NEW cs \in Seq(S), calls' = cs, books # NoFigures => books' = books,
           \A k \in DOMAIN cs : Truthful(cs[k], books)
    PROVE  (\E T : calls' \in Seq(T)) /\ \A k \in DOMAIN calls' : Truthful(calls'[k], books')
  BY DEF Truthful

LEMMA NewCalls ==
    ASSUME NEW r, r.op \in Ops, NEW b
    PROVE  Truthful(Call(r), b)
  BY DEF Truthful, Call, CallFields

LEMMA Unheard ==
    ASSUME NEW c, NEW b, Truthful(c, b)
    PROVE  Truthful([c EXCEPT !.heard = FALSE], b)
<1>1. DOMAIN [c EXCEPT !.heard = FALSE] = DOMAIN c
  OBVIOUS
<1>2. "phase" \in DOMAIN c /\ "req" \in DOMAIN c
  BY DEF Truthful, CallFields, AnswerFields
<1>3. [c EXCEPT !.heard = FALSE].phase = c.phase /\ [c EXCEPT !.heard = FALSE].req = c.req
  BY <1>2
<1>4. ASSUME c.phase = "answered"
      PROVE  [c EXCEPT !.heard = FALSE].ok = c.ok /\ [c EXCEPT !.heard = FALSE].figures = c.figures
  <2>1. "ok" \in DOMAIN c /\ "figures" \in DOMAIN c
    BY <1>4 DEF Truthful, AnswerFields
  <2> QED
    BY <2>1
<1> DEFINE d == [c EXCEPT !.heard = FALSE]
<1> HIDE DEF d
<1>5. DOMAIN d = DOMAIN c /\ d.phase = c.phase /\ d.req = c.req
      /\ (c.phase = "answered" => d.ok = c.ok /\ d.figures = c.figures)
  BY <1>1, <1>3, <1>4 DEF d
<1>6. Truthful(d, b)
  BY <1>5 DEF Truthful
<1> QED
  BY <1>6 DEF d

\* What the screen does to calls and receipt; it does not reach the server otherwise.
LEMMA ScreenAsks ==
    ASSUME Screen
    PROVE  /\ UNCHANGED server
           /\ receipt' \in {receipt, NoFigures}
           /\ \/ UNCHANGED calls
              \/ \E r : r.op \in Ops /\ calls' = Append(calls, Call(r))
              \/ calls' = [j \in DOMAIN calls |-> [calls[j] EXCEPT !.heard = FALSE]]
<1> DEFINE Result == /\ UNCHANGED server
                     /\ receipt' \in {receipt, NoFigures}
                     /\ \/ UNCHANGED calls
                        \/ \E r : r.op \in Ops /\ calls' = Append(calls, Call(r))
                        \/ calls' = [j \in DOMAIN calls |-> [calls[j] EXCEPT !.heard = FALSE]]
<1> SUFFICES Result
  OBVIOUS
<1>1. ASSUME NEW r, r.op \in Ops, Ask(r)
      PROVE  Result
  BY <1>1 DEF Ask
<1>2. ASSUME Leave
      PROVE  Result
  BY <1>2 DEF Leave
<1>3. ASSUME NEW f, Fill(f)
      PROVE  Result
  BY <1>3 DEF Fill, wire
<1>4. ASSUME NEW d, Edit(d)
      PROVE  Result
  BY <1>4 DEF Edit, wire
<1> HIDE DEF Result
<1>5. ASSUME NEW i, NEW q, AddProduct(i) \/ RemoveLine(i) \/ MarkDispatched(i) \/ ChangeQuantity(i, q)
                          \/ Send \/ AssignWaitstaff \/ Attach \/ SaveItemDiscount(i)
                          \/ ProcessCheckout(i)
      PROVE  Result
  <2>1. PICK r : r.op \in Ops /\ Ask(r)
    BY <1>5 DEF AddProduct, RemoveLine, MarkDispatched, ChangeQuantity, Send, AssignWaitstaff,
                Attach, SaveItemDiscount, ProcessCheckout, Ops
  <2> QED
    BY <1>1, <2>1
<1>6. CASE Header \/ ReceiptModal
  BY <1>2, <1>6 DEF Header, ReceiptModal
<1>7. CASE ProductGrid \/ ActionBar \/ WaitstaffModal \/ CustomerModal
  BY <1>5, <1>7 DEF ProductGrid, ActionBar, WaitstaffModal, CustomerModal
<1>8. CASE CheckoutTab
  BY <1>3, <1>5, <1>8 DEF CheckoutTab, PaymentLine, ConfirmPaymentLine
<1>9. ASSUME NEW i, LineButtons(i)
      PROVE  Result
  BY <1>4, <1>5, <1>9 DEF LineButtons
<1>10. CASE DiscountModal
  BY <1>4, <1>5, <1>10 DEF DiscountModal
<1>11. CASE Enter
  <2>1. "get" \in Ops
    BY DEF Ops
  <2> QED
    BY <1>11, <2>1 DEF Enter, Reload, Result
<1> QED
  BY <1>6, <1>7, <1>8, <1>9, <1>10, <1>11 DEF Screen

-----------------------------------------------------------------------------
(* Steps.                                                                  *)

\* What follows from a step that leaves the server alone.
LEMMA ServerRests ==
    ASSUME OInv, UNCHANGED server, NEW S, NEW cs \in Seq(S), calls' = cs,
           \A k \in DOMAIN cs : Truthful(cs[k], books), receipt' \in {receipt, NoFigures, books}
    PROVE  OInv'
<1>1. (\E T : calls' \in Seq(T)) /\ \A k \in DOMAIN calls' : Truthful(calls'[k], books')
  BY CallsStay DEF server
<1> QED
  BY <1>1 DEF OInv, ClosedOnce, server

LEMMA ScreenKeeps ==
    ASSUME OInv, Screen
    PROVE  OInv'
<1>1. PICK S : calls \in Seq(S)
  BY DEF OInv
<1>2. \A k \in DOMAIN calls : Truthful(calls[k], books)
  BY DEF OInv
<1>3. UNCHANGED server /\ receipt' \in {receipt, NoFigures, books}
  BY ScreenAsks
<1>4. CASE UNCHANGED calls
  BY <1>1, <1>2, <1>3, <1>4, ServerRests
<1>5. ASSUME NEW r, r.op \in Ops, calls' = Append(calls, Call(r))
      PROVE  OInv'
  <2> DEFINE c == Call(r)
             cs == Append(calls, c)
  <2>1. Truthful(c, books)
    BY <1>5, NewCalls
  <2> HIDE DEF c
  <2>2. cs \in Seq(S \cup {c})
    BY <1>1
  <2>3. \A k \in DOMAIN cs : cs[k] = c \/ (k \in DOMAIN calls /\ cs[k] = calls[k])
    BY <1>1
  <2>4. \A k \in DOMAIN cs : Truthful(cs[k], books)
    BY <1>2, <2>1, <2>3
  <2>5. calls' = cs
    BY <1>5 DEF c
  <2> HIDE DEF cs
  <2> QED
    BY <1>3, <2>2, <2>4, <2>5, ServerRests
<1>6. CASE calls' = [j \in DOMAIN calls |-> [calls[j] EXCEPT !.heard = FALSE]]
  <2> DEFINE cs == [j \in DOMAIN calls |-> [calls[j] EXCEPT !.heard = FALSE]]
             T == {[c EXCEPT !.heard = FALSE] : c \in S}
  <2>1. cs \in Seq(T)
    <3>1. Len(calls) \in Nat /\ DOMAIN calls = 1..Len(calls)
      BY <1>1
    <3>2. \A j \in 1..Len(calls) : calls[j] \in S
      BY <1>1
    <3>3. cs = [j \in 1..Len(calls) |-> [calls[j] EXCEPT !.heard = FALSE]]
      BY <3>1
    <3>4. cs \in [1..Len(calls) -> T]
      BY <3>2, <3>3
    <3> HIDE DEF cs, T
    <3> QED
      BY <3>1, <3>4
  <2>2. ASSUME NEW k \in DOMAIN cs
        PROVE  Truthful(cs[k], books)
    <3>1. cs[k] = [calls[k] EXCEPT !.heard = FALSE] /\ Truthful(calls[k], books)
      BY <1>2
    <3> HIDE DEF cs
    <3> QED
      BY <3>1, Unheard
  <2>3. calls' = cs
    BY <1>6
  <2> HIDE DEF cs, T
  <2> QED
    BY <1>3, <2>1, <2>2, <2>3, ServerRests
<1> QED
  BY <1>4, <1>5, <1>6, ScreenAsks

\* Booked or not, what the calls brought before stays true.
LEMMA ServerWorks ==
    ASSUME OInv, DOMAIN order' = BillFields,
           order'.status \in {"open", "voided"} => books' = NoFigures,
           ClosedOnce', \E S : takings' \in Seq(S), books # NoFigures => books' = books,
           NEW S, NEW cs \in Seq(S), calls' = cs,
           \A k \in DOMAIN cs : Truthful(cs[k], books'), UNCHANGED receipt
    PROVE  OInv'
<1>1. receipt' \in {NoFigures, books'}
  BY DEF OInv
<1> QED
  BY <1>1 DEF OInv

LEMMA OthersKeep ==
    ASSUME OInv, Elsewhere
    PROVE  OInv'
<1>1. PICK r : r.op \in Ops /\ Perform(r)
  BY DEF Elsewhere, Ops
<1>2. PICK S : calls \in Seq(S)
  BY DEF OInv
<1>3. books # NoFigures => books' = books
  BY <1>1, Performed
<1>4. \A k \in DOMAIN calls : Truthful(calls[k], books')
  BY <1>3 DEF OInv, Truthful
<1>5. calls' = calls /\ UNCHANGED receipt
  BY DEF Elsewhere, page
<1> QED
  BY <1>1, <1>2, <1>4, <1>5, ServerWorks, Performed

LEMMA ServeKeeps ==
    ASSUME OInv, NEW j \in DOMAIN calls, Serve(j)
    PROVE  OInv'
<1> DEFINE c == calls[j]
<1>1. c.req.op \in Ops /\ Perform(c.req) /\ UNCHANGED receipt
  BY DEF OInv, Truthful, Serve, page
<1>2. PICK S : calls \in Seq(S)
  BY DEF OInv
<1>3. books # NoFigures => books' = books
  BY <1>1, Performed
<1>4. \A k \in DOMAIN calls : Truthful(calls[k], books')
  BY <1>3 DEF OInv, Truthful
<1>5. CASE c.heard
  <2> DEFINE a == Answered(c)
             cs == [calls EXCEPT ![j] = a]
  <2>1. Truthful(a, books')
    <3>1. /\ DOMAIN a = AnswerFields /\ a.phase = "answered" /\ a.req = c.req
          /\ a.ok = Outcome(order, c.req).ok /\ a.figures = Outcome(order, c.req).figures
      BY DEF Answered, AnswerFields, CallFields
    <3>2. c.req.op = "checkout" /\ Outcome(order, c.req).ok =>
             books' # NoFigures /\ Outcome(order, c.req).figures = books'
      BY <1>1, Performed
    <3> HIDE DEF a, c
    <3> QED
      BY <1>1, <3>1, <3>2 DEF Truthful
  <2>2. calls' = cs
    BY <1>5 DEF Serve
  <2> HIDE DEF a, c
  <2>3. cs \in Seq(S \cup {a})
    BY <1>2
  <2>4. \A k \in DOMAIN cs : Truthful(cs[k], books')
    BY <1>2, <1>4, <2>1
  <2> HIDE DEF cs
  <2> QED
    BY <1>1, <2>2, <2>3, <2>4, ServerWorks, Performed
<1>6. CASE ~c.heard
  <2>1. calls' = RemoveAt(calls, j)
    BY <1>6 DEF Serve
  <2>2. /\ RemoveAt(calls, j) \in Seq(S)
        /\ \A k \in DOMAIN RemoveAt(calls, j) : \E m \in DOMAIN calls : RemoveAt(calls, j)[k] = calls[m]
    BY <1>2, RestOfCalls
  <2>3. \A k \in DOMAIN RemoveAt(calls, j) : Truthful(RemoveAt(calls, j)[k], books')
    BY <1>4, <2>2
  <2> HIDE DEF c
  <2> QED
    BY <1>1, <2>1, <2>2, <2>3, ServerWorks, Performed
<1> QED
  BY <1>5, <1>6

LEMMA CutOffKeeps ==
    ASSUME OInv, NEW j \in DOMAIN calls, CutOff(j)
    PROVE  OInv'
<1> DEFINE rest == RemoveAt(calls, j)
<1>1. PICK S : calls \in Seq(S)
  BY DEF OInv
<1>2. rest \in Seq(S) /\ \A k \in DOMAIN rest : \E m \in DOMAIN calls : rest[k] = calls[m]
  BY <1>1, RestOfCalls
<1>3. calls' = rest /\ UNCHANGED receipt
  BY DEF CutOff, page
<1> HIDE DEF rest
<1>4. /\ DOMAIN order' = BillFields
      /\ order'.status \in {"open", "voided"} => books' = NoFigures
      /\ ClosedOnce' /\ (\E T : takings' \in Seq(T))
      /\ books # NoFigures => books' = books
  BY CutOffWorks
<1>5. \A k \in DOMAIN calls : Truthful(calls[k], books')
  BY <1>4 DEF OInv, Truthful
<1>6. \A k \in DOMAIN rest : Truthful(rest[k], books')
  BY <1>2, <1>5
<1> QED
  BY <1>2, <1>3, <1>4, <1>6, ServerWorks

\* The rest of a handler prints what its answer brought, or nothing.
LEMMA HandlerKeeps ==
    ASSUME OInv, NEW j \in DOMAIN calls, NEW ok, NEW S, NEW rest \in Seq(S),
           \A k \in DOMAIN rest : Truthful(rest[k], books),
           ok => calls[j].phase = "answered" /\ calls[j].ok, GoOn(j, ok, rest)
    PROVE  OInv'
<1> DEFINE next == IF ReloadsAfter(calls[j].req.op, ok) THEN <<Reload>> ELSE <<>>
           cs == rest \o next
<1>1. Truthful(Reload, books)
  BY NewCalls DEF Reload, Ops
<1>2. next \in Seq({Reload}) /\ \A k \in DOMAIN next : next[k] = Reload
  <2>1. CASE ReloadsAfter(calls[j].req.op, ok)
    <3>1. next = <<Reload>>
      BY <2>1
    <3> HIDE DEF next
    <3> QED
      BY <3>1
  <2>2. CASE ~ReloadsAfter(calls[j].req.op, ok)
    <3>1. next = <<>>
      BY <2>2
    <3> HIDE DEF next
    <3> QED
      BY <3>1
  <2> QED
    BY <2>1, <2>2
<1>3. UNCHANGED server /\ calls' = cs
  BY DEF GoOn
<1>4. receipt' \in {receipt, NoFigures, books}
  BY DEF GoOn, Printed, OInv, Truthful
<1> HIDE DEF next
<1>5. rest \in Seq(S \cup {Reload}) /\ next \in Seq(S \cup {Reload})
  BY <1>2
<1>6. /\ cs \in Seq(S \cup {Reload}) /\ Len(cs) = Len(rest) + Len(next)
      /\ \A k \in 1..Len(rest) + Len(next) : cs[k] = IF k <= Len(rest) THEN rest[k] ELSE next[k - Len(rest)]
  BY <1>5, ConcatProperties
<1> HIDE DEF cs
<1>7. ASSUME NEW k \in DOMAIN cs
      PROVE  Truthful(cs[k], books)
  <2>1. k \in 1..Len(rest) + Len(next) /\ Len(rest) \in Nat /\ Len(next) \in Nat
    BY <1>5, <1>6
  <2>2. CASE k <= Len(rest)
    <3>1. cs[k] = rest[k] /\ k \in DOMAIN rest
      BY <1>6, <2>1, <2>2
    <3> QED
      BY <3>1
  <2>3. CASE ~(k <= Len(rest))
    <3>1. cs[k] = next[k - Len(rest)] /\ k - Len(rest) \in DOMAIN next
      BY <1>5, <1>6, <2>1, <2>3
    <3> QED
      BY <1>1, <1>2, <3>1
  <2> QED
    BY <2>2, <2>3
<1> QED
  BY <1>3, <1>4, <1>6, <1>7, ServerRests

LEMMA ResolveKeeps ==
    ASSUME OInv, NEW j \in DOMAIN calls, Resolve(j)
    PROVE  OInv'
<1>1. PICK S : calls \in Seq(S)
  BY DEF OInv
<1> DEFINE rest == RemoveAt(calls, j)
<1>2. rest \in Seq(S) /\ \A k \in DOMAIN rest : \E m \in DOMAIN calls : rest[k] = calls[m]
  BY <1>1, RestOfCalls
<1> HIDE DEF rest
<1>3. \A k \in DOMAIN rest : Truthful(rest[k], books)
  BY <1>2 DEF OInv
<1>4. CASE Answer(j)
  <2>1. GoOn(j, calls[j].ok, rest) /\ calls[j].phase = "answered"
    BY <1>4 DEF Answer, rest
  <2> QED
    BY <1>2, <1>3, <2>1, HandlerKeeps
<1>5. CASE GiveUp(j)
  <2>1. CASE GoOn(j, FALSE, rest)
    BY <1>2, <1>3, <2>1, HandlerKeeps
  <2>2. CASE GoOn(j, FALSE, [calls EXCEPT ![j].heard = FALSE])
    <3> DEFINE d == [calls[j] EXCEPT !.heard = FALSE]
               cs == [calls EXCEPT ![j] = d]
    <3>1. Truthful(d, books)
      BY Unheard DEF OInv
    <3>2. GoOn(j, FALSE, cs)
      BY <2>2
    <3> HIDE DEF d
    <3>3. cs \in Seq(S \cup {d})
      BY <1>1
    <3>4. \A k \in DOMAIN cs : Truthful(cs[k], books)
      BY <1>1, <3>1 DEF OInv
    <3> HIDE DEF cs
    <3> QED
      BY <3>2, <3>3, <3>4, HandlerKeeps
  <2> QED
    BY <1>5, <2>1, <2>2 DEF GiveUp, rest
<1>6. CASE Drop(j)
  <2>1. UNCHANGED server /\ calls' = rest /\ receipt' \in {receipt, NoFigures, books}
    BY <1>6 DEF Drop, page, rest
  <2> QED
    BY <1>2, <1>3, <2>1, ServerRests
<1> QED
  BY <1>4, <1>5, <1>6, ServeKeeps, CutOffKeeps DEF Resolve

LEMMA InitKeeps == Init => OInv
<1> SUFFICES ASSUME Init
             PROVE  OInv
  OBVIOUS
<1>1. DOMAIN order = BillFields
  <2>1. /\ DOMAIN EmptyBill = BillFields
        /\ \A l, m, n : DOMAIN [EmptyBill EXCEPT !.lines = l, !.total = m, !.next = n] = BillFields
    BY DEF EmptyBill, BillFields
  <2> QED
    BY <2>1 DEF Init
<1>2. Truthful(Reload, books)
  BY NewCalls DEF Reload, Ops
<1>3. calls = <<Reload>> /\ calls \in Seq({Reload})
  <2>1. calls = <<Reload>>
    BY DEF Init
  <2> QED
    BY <2>1
<1> HIDE DEF Reload
<1>4. \A k \in DOMAIN calls : Truthful(calls[k], books)
  BY <1>2, <1>3
<1>5. takings \in Seq({}) /\ ClosedOnce
  <2>1. takings = <<>> /\ books = NoFigures
    BY DEF Init
  <2>2. takings \in Seq({}) /\ DOMAIN takings = {}
    BY <2>1
  <2> QED
    BY <2>1, <2>2 DEF ClosedOnce
<1> QED
  BY <1>1, <1>3, <1>4, <1>5 DEF Init, OInv

LEMMA NextKeeps ==
    ASSUME OInv, [Next]_vars
    PROVE  OInv'
<1>1. CASE UNCHANGED vars
  BY <1>1 DEF OInv, ClosedOnce, vars, server, wire, page
<1> QED
  BY <1>1, ScreenKeeps, OthersKeep, ResolveKeeps DEF Next

-----------------------------------------------------------------------------
\* The theorems.

LEMMA OrderPageInvariant == Spec => []OInv
  BY InitKeeps, NextKeeps, PTL DEF Spec

\* One checkout closes a bill, and nothing is recorded after it, however often it was asked
\* for and wherever a dropped one was cut off (checkout, processCheckout).
THEOREM ClosedOnceAlways == Spec => []ClosedOnce
<1>1. OInv => ClosedOnce
  BY DEF OInv
<1> QED
  BY OrderPageInvariant, <1>1, PTL

\* A receipt shows the figures that were booked, even one that arrives late or on another
\* copy of the bill (setReceipt, PosOrderPage.tsx:182-194).
THEOREM ReceiptIsBookedAlways == Spec => []ReceiptIsBooked
<1>1. OInv => ReceiptIsBooked
  BY DEF OInv, ReceiptIsBooked
<1> QED
  BY OrderPageInvariant, <1>1, PTL

-----------------------------------------------------------------------------
(* What the figures rest on: bills, requests and answers are what they     *)
(* look like, and what a cashier saw of a bill stays true until it changes.*)

LineRow == [product : Products, qty : Int, disc : Int,
            status : {"new", "processing", "dispatched", "paid"}, ticket : BOOLEAN]

LineMaps == UNION {[D -> LineRow] : D \in {E \in SUBSET Nat : IsFiniteSet(E)}}

BillRow == [status : {"open", "paid", "tab", "voided"}, version : Nat, customer : BOOLEAN,
            waiter : BOOLEAN, lines : LineMaps, total : Int, next : Nat]

FigureRow == [total : Int, paid : Nat, change : Int, owed : Int]

CheckoutRequests ==
    [op : {"checkout"}, paid : Nat, disc : Nat, rate : Rates, partial : BOOLEAN,
     version : Nat, typed : Int, change : Int]

Requests ==
    [op : {"get", "send", "waitstaff", "attach"}] \cup [op : {"add"}, product : Products] \cup
    [op : {"remove", "status"}, line : Nat] \cup [op : {"quantity", "discount"}, line : Nat, n : Int]
    \cup CheckoutRequests

Sent == [req : Requests, phase : {"sent"}, heard : BOOLEAN]
Answers == [req : Requests, phase : {"answered"}, heard : BOOLEAN, ok : BOOLEAN,
            figures : FigureRow \cup {NoFigures}, order : BillRow \cup {NoOrder}, fresh : BOOLEAN]

\* A copy of the bill is the bill, or an earlier one.
Copy(o) ==
    /\ o \in BillRow /\ o.version <= order.version
    /\ o.version = order.version => o = order

\* What a cashier was shown who asked for this checkout on a copy of this bill.
Seen(o, r) ==
    /\ r.typed >= 0 => r.disc = r.typed
    /\ r.paid >= o.total - r.typed \/ (r.partial /\ o.customer)
    /\ r.change = Max({0, r.paid - o.total + r.typed})

\* A checkout on the bill as it is was asked for by somebody who saw it.
AskedOn(r) ==
    /\ r.version <= order.version
    /\ r.version = order.version => Seen(order, r)

\* What was answered to somebody who saw the bill as it was.
Expected(c) ==
    /\ c.ok \/ c.req.rate = "directors_discount"
    /\ c.ok /\ c.req.rate = "none" /\ c.req.typed >= 0 => c.figures.change = c.req.change

CallOK(c) ==
    /\ c.req.op = "checkout" => AskedOn(c.req)
    /\ c.phase = "answered" /\ c.req.op = "get" => c.ok /\ Copy(c.order)
    /\ c.phase = "answered" /\ c.req.op = "checkout" /\ c.fresh => Expected(c)

Good == {c \in Sent \cup Answers : CallOK(c)}

Pays == {p \in [amt : Int, ok : BOOLEAN] : p.ok => p.amt > 0}
Forms == [cart : Int, partial : BOOLEAN, pays : Seq(Pays)]

PInv ==
    /\ order \in BillRow
    /\ calls \in Seq(Good)
    /\ shown = NoOrder \/ Copy(shown)
    /\ view = "open" => shown # NoOrder
    /\ form \in Forms
    /\ dialog.line \in Nat

\* Something under way will have the screen show the bill as it is.
Due(c) ==
    /\ c.heard
    /\ \/ c.req.op = "get" /\ c.phase = "sent"
       \/ c.req.op = "get" /\ c.phase = "answered" /\ c.order = order
       \/ c.req.op # "get" /\ c.phase = "answered" /\ c.ok

UpToDate ==
    view \in {"loading", "open"} /\ ~excuse /\ receipt = NoFigures =>
        shown = order \/ \E j \in DOMAIN calls : Due(calls[j])

-----------------------------------------------------------------------------
(* Numbers.                                                                *)

LEMMA MaxIs ==
    ASSUME NEW a \in Int, NEW b \in Int
    PROVE  Max({a, b}) = IF a >= b THEN a ELSE b
<1>1. \E x \in {a, b} : \A y \in {a, b} : x >= y
  OBVIOUS
<1>2. Max({a, b}) \in {a, b} /\ \A y \in {a, b} : Max({a, b}) >= y
  BY <1>1 DEF Max
<1> QED
  BY <1>2

LEMMA MinIs ==
    ASSUME NEW a \in Int, NEW b \in Int
    PROVE  Min({a, b}) = IF a <= b THEN a ELSE b
<1>1. \E x \in {a, b} : \A y \in {a, b} : x <= y
  OBVIOUS
<1>2. Min({a, b}) \in {a, b} /\ \A y \in {a, b} : Min({a, b}) <= y
  BY <1>1 DEF Min
<1> QED
  BY <1>2

LEMMA LineFigures ==
    ASSUME NEW l \in LineRow
    PROVE  ListTotal(l) \in Int /\ LineTotal(l) \in Int /\ Cost[l.product] * l.qty \in Int
<1>1. Price[l.product] \in Int /\ Cost[l.product] \in Int /\ l.qty \in Int /\ l.disc \in Int
  BY PricesAssumption DEF LineRow
<1>2. \A x, y \in Int : x * y \in Int
  OBVIOUS
<1> QED
  BY <1>1, <1>2 DEF ListTotal, LineTotal

-----------------------------------------------------------------------------
(* Bills.                                                                  *)

LEMMA LineMapParts ==
    ASSUME NEW m \in LineMaps
    PROVE  /\ DOMAIN m \in SUBSET Nat /\ IsFiniteSet(DOMAIN m)
           /\ m \in [DOMAIN m -> LineRow]
  BY DEF LineMaps

LEMMA LineMapOf ==
    ASSUME NEW D \in SUBSET Nat, IsFiniteSet(D), NEW m \in [D -> LineRow]
    PROVE  m \in LineMaps
  BY DEF LineMaps

\* What a request does to a bill: nothing, or something that is a newer bill.
Works(o, out) ==
    /\ out.ok \in BOOLEAN
    /\ out.order \in BillRow
    /\ IF out.ok THEN out.order.version = o.version + 1 ELSE out.order = o

LEMMA RefusedWorks ==
    ASSUME NEW o \in BillRow
    PROVE  Works(o, Refused(o))
  BY DEF Refused, Works

LEMMA DoneWorks ==
    ASSUME NEW o \in BillRow, NEW p \in BillRow, p.version = o.version
    PROVE  Works(o, Done(p))
<1> DEFINE n == [p EXCEPT !.version = @ + 1]
<1>1. n \in BillRow /\ n.version = o.version + 1
  BY DEF BillRow
<1>2. Done(p) = [ok |-> TRUE, order |-> n, figures |-> NoFigures]
  BY DEF Done
<1> HIDE DEF n
<1> QED
  BY <1>1, <1>2 DEF Works

\* The lines of a bill are rewritten, and its total with them.
Rewritten(o, m, total) == [o EXCEPT !.lines = m, !.total = total]
Extended(o, m, total, next) == [o EXCEPT !.lines = m, !.total = total, !.next = next]

LEMMA RewriteWorks ==
    ASSUME NEW o \in BillRow, NEW m \in LineMaps, NEW total \in Int
    PROVE  /\ Rewritten(o, m, total) \in BillRow
           /\ Rewritten(o, m, total).version = o.version
  BY DEF BillRow, Rewritten

LEMMA ExtendWorks ==
    ASSUME NEW o \in BillRow, NEW m \in LineMaps, NEW total \in Int, NEW next \in Nat
    PROVE  /\ Extended(o, m, total, next) \in BillRow
           /\ Extended(o, m, total, next).version = o.version
  BY DEF BillRow, Extended

LEMMA AddWorks ==
    ASSUME NEW o \in BillRow, NEW p \in Products
    PROVE  Works(o, AddItem(o, p))
<1> DEFINE m == Put(o.lines, o.next, NewLine(p))
           total == o.total + Price[p]
           next == o.next + 1
           n == [o EXCEPT !.lines = m, !.total = @ + Price[p], !.next = @ + 1]
<1>1. NewLine(p) \in LineRow
  BY DEF NewLine, LineRow
<1>2. o.lines \in LineMaps /\ o.next \in Nat /\ next \in Nat /\ total \in Int
  BY PricesAssumption DEF BillRow
<1>3. m \in LineMaps
  <2> DEFINE D == DOMAIN o.lines \cup {o.next}
  <2>1. D \in SUBSET Nat /\ IsFiniteSet(D)
    BY <1>2, LineMapParts, FS_AddElement
  <2>2. m \in [D -> LineRow]
    BY <1>1, <1>2, LineMapParts DEF Put
  <2> HIDE DEF D, m
  <2> QED
    BY <2>1, <2>2, LineMapOf
<1>4. n = Extended(o, m, total, next)
  BY DEF Extended
<1> HIDE DEF m, n, total, next
<1>5. n \in BillRow /\ n.version = o.version
  BY <1>2, <1>3, <1>4, ExtendWorks
<1>6. Works(o, Done(n))
  BY <1>5, DoneWorks
<1> QED
  BY <1>6, RefusedWorks DEF AddItem, n, m

LEMMA RemoveWorks ==
    ASSUME NEW o \in BillRow, NEW i
    PROVE  Works(o, RemoveItem(o, i))
<1> DEFINE m == Restrict(o.lines, DOMAIN o.lines \ {i})
           total == o.total - LineTotal(o.lines[i])
           n == [o EXCEPT !.lines = m, !.total = @ - LineTotal(o.lines[i])]
<1>1. ASSUME i \in DOMAIN o.lines
      PROVE  Works(o, Done(n))
  <2>1. o.lines \in LineMaps /\ o.total \in Int /\ o.lines[i] \in LineRow
    BY <1>1, LineMapParts DEF BillRow
  <2>2. m \in LineMaps
    <3> DEFINE D == DOMAIN o.lines \ {i}
    <3>1. D \in SUBSET Nat /\ IsFiniteSet(D)
      BY <2>1, LineMapParts, FS_RemoveElement
    <3>2. m \in [D -> LineRow]
      BY <2>1, LineMapParts DEF Restrict
    <3> HIDE DEF D, m
    <3> QED
      BY <3>1, <3>2, LineMapOf
  <2>3. total \in Int /\ n = Rewritten(o, m, total)
    BY <2>1, LineFigures DEF Rewritten
  <2> HIDE DEF m, n, total
  <2>4. n \in BillRow /\ n.version = o.version
    BY <2>2, <2>3, RewriteWorks
  <2> HIDE DEF n
  <2> QED
    BY <2>4, DoneWorks
<1> QED
  BY <1>1, RefusedWorks DEF RemoveItem

\* A line of the bill is replaced, and the total with it.
Replaced(o, i, l, total) == Rewritten(o, [o.lines EXCEPT ![i] = l], total)

LEMMA ReplaceWorks ==
    ASSUME NEW o \in BillRow, NEW i \in DOMAIN o.lines, NEW l \in LineRow, NEW total \in Int
    PROVE  Works(o, Done(Replaced(o, i, l, total)))
<1> DEFINE m == [o.lines EXCEPT ![i] = l]
<1>1. o.lines \in LineMaps
  BY DEF BillRow
<1>2. m \in LineMaps
  <2>1. m \in [DOMAIN o.lines -> LineRow]
    BY <1>1, LineMapParts
  <2> HIDE DEF m
  <2> QED
    BY <1>1, <2>1, LineMapParts, LineMapOf
<1>3. Replaced(o, i, l, total) = Rewritten(o, m, total)
  BY DEF Replaced
<1> HIDE DEF m
<1> QED
  BY <1>2, <1>3, RewriteWorks, DoneWorks

LEMMA QuantityWorks ==
    ASSUME NEW o \in BillRow, NEW i, NEW q \in Int
    PROVE  Works(o, UpdateItemQuantity(o, i, q))
<1>1. ASSUME i \in DOMAIN o.lines
      PROVE  Works(o, Done([o EXCEPT !.lines[i].qty = q,
                              !.total = @ + Price[o.lines[i].product] * (q - o.lines[i].qty)]))
  <2> DEFINE l == [o.lines[i] EXCEPT !.qty = q]
             total == o.total + Price[o.lines[i].product] * (q - o.lines[i].qty)
  <2>1. o.lines[i] \in LineRow
    BY <1>1, LineMapParts DEF BillRow
  <2>2. l \in LineRow
    BY <2>1 DEF LineRow
  <2>3. total \in Int
    <3>1. Price[o.lines[i].product] \in Int /\ q - o.lines[i].qty \in Int /\ o.total \in Int
      BY <2>1, PricesAssumption DEF LineRow, BillRow
    <3>2. \A x, y \in Int : x * y \in Int
      OBVIOUS
    <3> QED
      BY <3>1, <3>2
  <2>4. [o EXCEPT !.lines[i].qty = q,
                      !.total = @ + Price[o.lines[i].product] * (q - o.lines[i].qty)] = Replaced(o, i, l, total)
    BY DEF Replaced, Rewritten
  <2> HIDE DEF l, total
  <2> QED
    BY <1>1, <2>2, <2>3, <2>4, ReplaceWorks
<1> QED
  BY <1>1, RemoveWorks, RefusedWorks DEF UpdateItemQuantity

LEMMA DiscountWorks ==
    ASSUME NEW o \in BillRow, NEW i, NEW q \in Int
    PROVE  Works(o, SetItemDiscount(o, i, q))
<1> DEFINE clamped == Min({Max({q, 0}), ListTotal(o.lines[i])})
<1>1. ASSUME i \in DOMAIN o.lines
      PROVE  Works(o, Done([o EXCEPT !.lines[i].disc = clamped,
                                     !.total = @ - (clamped - o.lines[i].disc)]))
  <2> DEFINE l == [o.lines[i] EXCEPT !.disc = clamped]
             total == o.total - (clamped - o.lines[i].disc)
  <2>1. o.lines[i] \in LineRow
    BY <1>1, LineMapParts DEF BillRow
  <2>2. clamped \in Int
    BY <2>1, LineFigures, MaxIs, MinIs
  <2> HIDE DEF clamped
  <2>3. l \in LineRow
    BY <2>1, <2>2 DEF LineRow
  <2>4. total \in Int
    BY <2>1, <2>2 DEF LineRow, BillRow
  <2>5. [o EXCEPT !.lines[i].disc = clamped, !.total = @ - (clamped - o.lines[i].disc)] = Replaced(o, i, l, total)
    BY DEF Replaced, Rewritten
  <2> HIDE DEF l, total
  <2> QED
    BY <1>1, <2>3, <2>4, <2>5, ReplaceWorks
<1> QED
  BY <1>1, RefusedWorks DEF SetItemDiscount

LEMMA StatusWorks ==
    ASSUME NEW o \in BillRow, NEW i
    PROVE  Works(o, UpdateItemStatus(o, i))
<1>1. ASSUME i \in DOMAIN o.lines
      PROVE  Works(o, Done([o EXCEPT !.lines[i].status = "dispatched"]))
  <2> DEFINE l == [o.lines[i] EXCEPT !.status = "dispatched"]
  <2>1. o.lines[i] \in LineRow /\ o.total \in Int
    BY <1>1, LineMapParts DEF BillRow
  <2>2. l \in LineRow
    BY <2>1 DEF LineRow
  <2>3. [o EXCEPT !.lines[i].status = "dispatched"] = Replaced(o, i, l, o.total)
    <3>1. \A m : [o EXCEPT !.lines = m, !.total = o.total] = [o EXCEPT !.lines = m]
      BY DEF BillRow
    <3> QED
      BY <3>1 DEF Replaced, Rewritten
  <2> HIDE DEF l
  <2> QED
    BY <1>1, <2>1, <2>2, <2>3, ReplaceWorks
<1> QED
  BY <1>1, RefusedWorks DEF UpdateItemStatus

LEMMA BillWorks ==
    ASSUME NEW o \in BillRow
    PROVE  /\ Works(o, SendToKitchen(o)) /\ Works(o, AttachCustomer(o))
           /\ Works(o, UpdateWaitstaff(o)) /\ Works(o, VoidOrder(o))
<1>1. Works(o, SendToKitchen(o))
  <2> DEFINE m == [i \in DOMAIN o.lines |->
                     IF o.lines[i].status = "new"
                     THEN [o.lines[i] EXCEPT !.status = "processing", !.ticket = TRUE]
                     ELSE o.lines[i]]
             n == [o EXCEPT !.lines = m]
  <2>1. o.lines \in LineMaps
    BY DEF BillRow
  <2>2. m \in LineMaps
    <3>1. ASSUME NEW i \in DOMAIN o.lines PROVE m[i] \in LineRow
      <4>1. o.lines[i] \in LineRow
        BY <2>1, LineMapParts
      <4> QED
        BY <4>1 DEF LineRow
    <3>2. DOMAIN m = DOMAIN o.lines /\ m = [i \in DOMAIN o.lines |-> m[i]]
      OBVIOUS
    <3> HIDE DEF m
    <3>3. m \in [DOMAIN o.lines -> LineRow]
      BY <3>1, <3>2
    <3> QED
      BY <2>1, <3>3, LineMapParts, LineMapOf
  <2> HIDE DEF m
  <2>3. n \in BillRow /\ n.version = o.version
    BY <2>2 DEF BillRow
  <2> HIDE DEF n
  <2>4. Works(o, Done(n))
    BY <2>3, DoneWorks
  <2> QED
    BY <2>4 DEF SendToKitchen, n, m
<1>2. Works(o, AttachCustomer(o))
  <2> DEFINE n == [o EXCEPT !.customer = TRUE]
  <2>1. n \in BillRow /\ n.version = o.version
    BY DEF BillRow
  <2> HIDE DEF n
  <2>2. Works(o, Done(n))
    BY <2>1, DoneWorks
  <2> QED
    BY <2>2 DEF AttachCustomer, n
<1>3. Works(o, UpdateWaitstaff(o))
  <2> DEFINE n == [o EXCEPT !.waiter = TRUE]
  <2>1. n \in BillRow /\ n.version = o.version
    BY DEF BillRow
  <2> HIDE DEF n
  <2>2. Works(o, Done(n))
    BY <2>1, DoneWorks
  <2> QED
    BY <2>2 DEF UpdateWaitstaff, n
<1>4. Works(o, VoidOrder(o))
  <2> DEFINE n == [o EXCEPT !.status = "voided"]
  <2>1. n \in BillRow /\ n.version = o.version
    BY DEF BillRow
  <2> HIDE DEF n
  <2>2. Works(o, Done(n))
    BY <2>1, DoneWorks
  <2> QED
    BY <2>2, RefusedWorks DEF VoidOrder, n
<1> QED
  BY <1>1, <1>2, <1>3, <1>4

-----------------------------------------------------------------------------
(* What a checkout books.                                                  *)

LEMMA ChargedIsInt ==
    ASSUME NEW o \in BillRow, NEW r \in CheckoutRequests
    PROVE  Charged(o, r) \in Int
<1>1. AtCost(o) \in Int
  <2> DEFINE g == [i \in DOMAIN o.lines |-> Cost[o.lines[i].product] * o.lines[i].qty]
  <2>1. o.lines \in LineMaps
    BY DEF BillRow
  <2>2. \A i \in DOMAIN o.lines : g[i] \in Int
    BY <2>1, LineMapParts, LineFigures
  <2> HIDE DEF g
  <2>3. SumOver(g, DOMAIN o.lines) \in Int
    BY <2>1, <2>2, LineMapParts, SumIsInt
  <2> QED
    BY <2>3 DEF AtCost, g
<1>2. o.total - r.disc \in Int
  BY DEF BillRow, CheckoutRequests
<1> QED
  BY <1>1, <1>2 DEF Charged

\* What is paid or owed is the total, with the change.
LEMMA FiguresAddUp ==
    ASSUME NEW o \in BillRow, NEW r \in CheckoutRequests
    PROVE  Figures(o, r) \in FigureRow /\ Guest!AddsUp(Figures(o, r))
<1> DEFINE total == Charged(o, r)
           short == r.rate # "directors_promo" /\ r.paid < total
           change == IF short THEN 0 ELSE Max({r.paid - total, 0})
           owed == IF short THEN total - r.paid ELSE 0
<1>1. total \in Int /\ r.paid \in Nat
  BY ChargedIsInt DEF CheckoutRequests
<1>2. r.rate = "directors_promo" => total = 0
  BY DEF Charged
<1> HIDE DEF total
<1>3. Max({r.paid - total, 0}) = IF r.paid - total >= 0 THEN r.paid - total ELSE 0
  BY <1>1, MaxIs
<1>4. /\ change \in Int /\ owed \in Int /\ change >= 0 /\ owed >= 0
      /\ r.paid + owed = total + change
      /\ change = 0 \/ owed = 0
  BY <1>1, <1>2, <1>3
<1>5. Figures(o, r) = [total |-> total, paid |-> r.paid, change |-> change, owed |-> owed]
  BY DEF Figures, total
<1> HIDE DEF change, owed
<1> QED
  BY <1>1, <1>4, <1>5 DEF FigureRow, Guest!AddsUp

LEMMA CheckoutWorks ==
    ASSUME NEW o \in BillRow, NEW r \in CheckoutRequests
    PROVE  /\ Works(o, Checkout(o, r))
           /\ Checkout(o, r).figures = IF Checkout(o, r).ok THEN Figures(o, r) ELSE NoFigures
<1> DEFINE f == Figures(o, r)
           m == [i \in DOMAIN o.lines |-> [o.lines[i] EXCEPT !.status = "paid"]]
           status == IF f.owed > 0 THEN "tab" ELSE "paid"
           n == [o EXCEPT !.status = status, !.total = f.total, !.lines = m]
           d == Done(n)
<1>1. CASE ~TakesPayment(o) \/ (f.owed > 0 /\ ~(r.partial /\ o.customer))
  <2>1. Checkout(o, r) = Refused(o)
    BY <1>1 DEF Checkout
  <2> QED
    BY <2>1, RefusedWorks DEF Refused
<1>2. CASE ~(~TakesPayment(o) \/ (f.owed > 0 /\ ~(r.partial /\ o.customer)))
  <2>1. Checkout(o, r) = [d EXCEPT !.figures = f]
    BY <1>2 DEF Checkout
  <2>2. f.total \in Int /\ status \in {"paid", "tab"}
    BY FiguresAddUp DEF FigureRow
  <2> HIDE DEF f, status
  <2>3. m \in LineMaps
    <3>1. o.lines \in LineMaps
      BY DEF BillRow
    <3>2. ASSUME NEW i \in DOMAIN o.lines PROVE m[i] \in LineRow
      <4>1. o.lines[i] \in LineRow
        BY <3>1, LineMapParts
      <4> QED
        BY <4>1 DEF LineRow
    <3>3. m = [i \in DOMAIN o.lines |-> m[i]]
      OBVIOUS
    <3> HIDE DEF m
    <3>4. m \in [DOMAIN o.lines -> LineRow]
      BY <3>2, <3>3
    <3> QED
      BY <3>1, <3>4, LineMapParts, LineMapOf
  <2> HIDE DEF m
  <2>4. n \in BillRow /\ n.version = o.version
    BY <2>2, <2>3 DEF BillRow
  <2> HIDE DEF n
  <2>5. Works(o, d) /\ d = [ok |-> TRUE, order |-> d.order, figures |-> NoFigures]
    BY <2>4, DoneWorks DEF Done
  <2> HIDE DEF d
  <2>6. Checkout(o, r).ok = d.ok /\ Checkout(o, r).order = d.order /\ Checkout(o, r).figures = f
        /\ d.ok
    BY <2>1, <2>5
  <2> QED
    BY <2>5, <2>6 DEF Works, f
<1> QED
  BY <1>1, <1>2

\* A request the server knows: one of the screen, or the voiding of the floor plan.
LEMMA OutcomeWorks ==
    ASSUME NEW o \in BillRow, NEW r \in Requests \cup [op : {"void"}], r.op # "get"
    PROVE  /\ Works(o, Outcome(o, r))
           /\ Outcome(o, r).figures = IF r.op = "checkout" /\ Outcome(o, r).ok
                                      THEN Figures(o, r) ELSE NoFigures
           /\ r.op = "checkout" => r \in CheckoutRequests
<1>1. CASE r \in CheckoutRequests
  <2>1. r.op = "checkout"
    BY <1>1 DEF CheckoutRequests
  <2>2. Outcome(o, r) = Checkout(o, r)
    BY <2>1 DEF Outcome
  <2> QED
    BY <1>1, <2>1, <2>2, CheckoutWorks
<1>2. CASE r \notin CheckoutRequests
  <2>1. DOMAIN o = BillFields
    BY DEF BillRow, BillFields
  <2>2. CASE r \in [op : {"send", "waitstaff", "attach"}] \cup [op : {"void"}]
    <3>1. r.op \in {"send", "waitstaff", "attach", "void"}
      BY <2>2
    <3>2. Works(o, Outcome(o, r))
      BY <3>1, BillWorks DEF Outcome
    <3>3. Outcome(o, r).figures = NoFigures
      BY <2>1, <3>1, BillEdits, VoidVoids DEF Outcome, Edited, Voids
    <3> QED
      BY <3>1, <3>2, <3>3
  <2>3. CASE r \in [op : {"add"}, product : Products]
    <3>1. r.op = "add" /\ r.product \in Products
      BY <2>3
    <3>2. Works(o, Outcome(o, r))
      BY <3>1, AddWorks DEF Outcome
    <3>3. Outcome(o, r).figures = NoFigures
      BY <2>1, <3>1, LineEdits DEF Outcome, Edited
    <3> QED
      BY <3>1, <3>2, <3>3
  <2>4. CASE r \in [op : {"remove", "status"}, line : Nat]
    <3>1. r.op \in {"remove", "status"}
      BY <2>4
    <3>2. Works(o, Outcome(o, r))
      BY <3>1, RemoveWorks, StatusWorks DEF Outcome
    <3>3. Outcome(o, r).figures = NoFigures
      BY <2>1, <3>1, LineEdits DEF Outcome, Edited
    <3> QED
      BY <3>1, <3>2, <3>3
  <2>5. CASE r \in [op : {"quantity", "discount"}, line : Nat, n : Int]
    <3>1. r.op \in {"quantity", "discount"} /\ r.n \in Int
      BY <2>5
    <3>2. Works(o, Outcome(o, r))
      BY <3>1, QuantityWorks, DiscountWorks DEF Outcome
    <3>3. Outcome(o, r).figures = NoFigures
      BY <2>1, <3>1, LineEdits DEF Outcome, Edited
    <3> QED
      BY <3>1, <3>2, <3>3
  <2>6. CASE r \in [op : {"get"}]
    BY <2>6
  <2>7. r \in [op : {"get", "send", "waitstaff", "attach"}] =>
           r \in [op : {"get"}] \cup [op : {"send", "waitstaff", "attach"}]
    OBVIOUS
  <2> QED
    BY <1>2, <2>2, <2>3, <2>4, <2>5, <2>6, <2>7 DEF Requests
<1> QED
  BY <1>1, <1>2

-----------------------------------------------------------------------------
(* Copies.                                                                 *)

\* The bill the server has next is newer, or the same.
Newer == order' \in BillRow /\ (order' = order \/ order'.version = order.version + 1)

LEMMA CopiesStay ==
    ASSUME order \in BillRow, Newer, NEW o, Copy(o)
    PROVE  Copy(o)'
  BY DEF Newer, Copy, BillRow

LEMMA CallsStayGood ==
    ASSUME order \in BillRow, Newer
    PROVE  Good \subseteq Good'
<1> SUFFICES ASSUME NEW c \in Good PROVE c \in Good'
  OBVIOUS
<1>1. c \in Sent \cup Answers /\ CallOK(c)
  BY DEF Good
<1>2. c.req.op = "checkout" => AskedOn(c.req)'
  <2> SUFFICES ASSUME c.req.op = "checkout" PROVE AskedOn(c.req)'
    OBVIOUS
  <2>1. c.req \in CheckoutRequests
    <3>1. c.req \in Requests
      BY <1>1 DEF Sent, Answers
    <3> QED
      BY <3>1 DEF Requests
  <2>2. AskedOn(c.req) /\ c.req.version \in Nat
    BY <1>1, <2>1 DEF CallOK, CheckoutRequests
  <2>3. CASE order' = order
    BY <2>2, <2>3 DEF AskedOn, Seen
  <2>4. CASE order'.version = order.version + 1
    <3>1. order.version \in Nat
      BY DEF BillRow
    <3> QED
      BY <2>2, <2>4, <3>1 DEF AskedOn
  <2> QED
    BY <2>3, <2>4 DEF Newer
<1>3. c.phase = "answered" /\ c.req.op = "get" => c.ok /\ Copy(c.order)'
  BY <1>1, CopiesStay DEF CallOK
<1>4. CallOK(c)'
  BY <1>1, <1>2, <1>3 DEF CallOK, Expected
<1> QED
  BY <1>1, <1>4 DEF Good

\* A request that is carried out leaves the bill as it is, or newer.
LEMMA PerformWorks ==
    ASSUME order \in BillRow, NEW r \in Requests \cup [op : {"void"}], Perform(r)
    PROVE  /\ Newer
           /\ order' # order => Outcome(order, r).ok /\ r.op # "get"
           /\ r.op = "get" => Outcome(order, r).ok /\ order' = order
           /\ Outcome(order, r).ok \in BOOLEAN
<1>1. order' = Outcome(order, r).order
  BY DEF Perform, Book
<1>2. CASE r.op = "get"
  BY <1>1, <1>2 DEF Outcome, Newer
<1>3. CASE r.op # "get"
  <2>1. Works(order, Outcome(order, r))
    BY <1>3, OutcomeWorks
  <2> QED
    BY <1>1, <1>3, <2>1 DEF Works, Newer
<1> QED
  BY <1>2, <1>3

LEMMA CutShortIsBill ==
    ASSUME NEW o \in BillRow, NEW r \in Requests \cup [op : {"void"}], NEW ticketed
    PROVE  /\ CutShort(o, r, ticketed) \in BillRow
           /\ CutShort(o, r, ticketed) = o \/ CutShort(o, r, ticketed).version = o.version + 1
<1> DEFINE bill == Outcome(o, r).order
           marked == [i \in DOMAIN o.lines |-> [o.lines[i] EXCEPT !.ticket = @ \/ i \in ticketed]]
<1>1. bill \in BillRow /\ (bill = o \/ bill.version = o.version + 1)
  <2>1. CASE r.op = "get"
    BY <2>1 DEF Outcome
  <2>2. CASE r.op # "get"
    BY <2>2, OutcomeWorks DEF Works
  <2> QED
    BY <2>1, <2>2
<1>2. o.lines \in LineMaps /\ o.total \in Int
  BY DEF BillRow
<1>3. marked \in LineMaps
  <2>1. ASSUME NEW i \in DOMAIN o.lines PROVE marked[i] \in LineRow
    <3>1. o.lines[i] \in LineRow
      BY <1>2, LineMapParts
    <3> QED
      BY <3>1 DEF LineRow
  <2>2. DOMAIN marked = DOMAIN o.lines /\ marked = [i \in DOMAIN o.lines |-> marked[i]]
    OBVIOUS
  <2> HIDE DEF marked
  <2>3. marked \in [DOMAIN o.lines -> LineRow]
    BY <2>1, <2>2
  <2> QED
    BY <1>2, <2>3, LineMapParts, LineMapOf
<1>4. CutShort(o, r, ticketed) =
        CASE r.op = "checkout" -> [bill EXCEPT !.lines = o.lines]
          [] r.op = "send" -> [bill EXCEPT !.lines = marked]
          [] OTHER -> [bill EXCEPT !.total = o.total]
  BY DEF CutShort
<1> HIDE DEF bill, marked
<1>5. \A m \in LineMaps : [bill EXCEPT !.lines = m] \in BillRow
                         /\ [bill EXCEPT !.lines = m].version = bill.version
  BY <1>1 DEF BillRow
<1>6. [bill EXCEPT !.total = o.total] \in BillRow
      /\ [bill EXCEPT !.total = o.total].version = bill.version
  BY <1>1, <1>2 DEF BillRow
<1>7. [o EXCEPT !.lines = o.lines] = o /\ [o EXCEPT !.total = o.total] = o
  BY DEF BillRow
<1>8. r.op = "send" => bill.version = o.version + 1
  BY DEF Outcome, SendToKitchen, Done, BillRow, bill
<1>9. CASE r.op = "checkout"
  BY <1>1, <1>2, <1>4, <1>5, <1>7, <1>9
<1>10. CASE r.op = "send"
  BY <1>3, <1>4, <1>5, <1>8, <1>10
<1>11. CASE r.op \notin {"checkout", "send"}
  BY <1>1, <1>4, <1>6, <1>7, <1>11
<1> QED
  BY <1>9, <1>10, <1>11

\* So does one that is cut off.
LEMMA CutOffIsNewer ==
    ASSUME PInv, NEW j \in DOMAIN calls, CutOff(j)
    PROVE  Newer
<1> DEFINE r == calls[j].req
<1>1. order \in BillRow /\ r \in Requests \cup [op : {"void"}]
  BY DEF PInv, Good, Sent, Answers
<1>2. UNCHANGED order \/ \E ticketed : order' = CutShort(order, r, ticketed)
  BY DEF CutOff, Book, RecordPayments
<1> HIDE DEF r
<1> QED
  BY <1>1, <1>2, CutShortIsBill DEF Newer

\* The server lets through what the screen enabled on the bill as it is, and the change is
\* what the screen worked out.
LEMMA CheckoutExpected ==
    ASSUME NEW o \in BillRow, o.status = "open", NEW r \in CheckoutRequests, Seen(o, r)
    PROVE  /\ Checkout(o, r).ok \/ r.rate = "directors_discount"
           /\ Checkout(o, r).ok /\ r.rate = "none" /\ r.typed >= 0 =>
                Checkout(o, r).figures.change = r.change
<1>1. /\ r.paid \in Nat /\ r.disc \in Nat /\ r.typed \in Int /\ o.total \in Int
      /\ r.rate \in Rates
      /\ r.typed < 0 \/ r.disc = r.typed
  BY DEF CheckoutRequests, BillRow, Seen
<1>2. r.rate = "none" => Charged(o, r) = o.total - r.disc
  BY DEF Charged
<1> DEFINE f == Figures(o, r)
           total == Charged(o, r)
           short == r.rate # "directors_promo" /\ r.paid < total
<1>3. /\ f.owed = IF short THEN total - r.paid ELSE 0
      /\ f.change = IF short THEN 0 ELSE Max({r.paid - total, 0})
  BY DEF Figures
<1>4. total \in Int
  BY ChargedIsInt
<1> HIDE DEF f, total
<1>5. ASSUME r.rate # "directors_discount", ~(r.partial /\ o.customer)
      PROVE  ~(f.owed > 0)
  <2>1. r.paid >= o.total - r.typed
    BY <1>5 DEF Seen
  <2>2. r.rate = "none" => ~(r.paid < total)
    BY <1>1, <1>2, <2>1 DEF total
  <2> QED
    <3>1. ~short
      BY <1>1, <1>5, <2>2 DEF Rates
    <3> HIDE DEF short
    <3> QED
      BY <1>3, <3>1
<1>6. Checkout(o, r).ok \/ r.rate = "directors_discount"
  <2> SUFFICES ASSUME r.rate # "directors_discount" PROVE Checkout(o, r).ok
    OBVIOUS
  <2>1. ~(~TakesPayment(o) \/ (f.owed > 0 /\ ~(r.partial /\ o.customer)))
    BY <1>5 DEF TakesPayment
  <2>2. \A d : [d EXCEPT !.figures = f].ok = d.ok \/ "ok" \notin DOMAIN d
    OBVIOUS
  <2>3. \A n : Done(n).ok /\ "ok" \in DOMAIN Done(n)
    BY DEF Done
  <2>4. \A n : [Done(n) EXCEPT !.figures = f].ok
    BY <2>2, <2>3
  <2> QED
    BY <2>1, <2>4 DEF Checkout, f
<1>7. ASSUME r.rate = "none", r.typed >= 0 PROVE f.change = r.change
  <2>1. total = o.total - r.typed
    BY <1>1, <1>2, <1>7 DEF total
  <2>2. r.change = Max({0, r.paid - total})
    <3>1. r.paid - o.total + r.typed = r.paid - total
      BY <1>1, <2>1
    <3> QED
      BY <3>1 DEF Seen
  <2>3. r.change = IF 0 >= r.paid - total THEN 0 ELSE r.paid - total
    BY <1>1, <1>4, <2>2, MaxIs
  <2>4. Max({r.paid - total, 0}) = IF r.paid - total >= 0 THEN r.paid - total ELSE 0
    BY <1>1, <1>4, MaxIs
  <2> QED
    BY <1>1, <1>3, <1>4, <1>7, <2>3, <2>4
<1>8. Checkout(o, r).ok => Checkout(o, r).figures = f
  BY CheckoutWorks DEF f
<1> QED
  BY <1>6, <1>7, <1>8

LEMMA AnswerIsGood ==
    ASSUME order \in BillRow, NEW c \in Good, c.phase = "sent", Perform(c.req)
    PROVE  Answered(c) \in Good'
<1> DEFINE out == Outcome(order, c.req)
<1> SUFFICES ASSUME NEW a, a = Answered(c) PROVE a \in Good'
  OBVIOUS
<1>1. c.req \in Requests /\ c.req \in Requests \cup [op : {"void"}]
  BY DEF Good, Sent, Answers
<1>2. Newer /\ out.ok \in BOOLEAN /\ (c.req.op = "get" => out.ok /\ order' = order)
  BY <1>1, PerformWorks
<1>3. out.figures \in FigureRow \cup {NoFigures}
  <2>1. CASE c.req.op = "get"
    BY <2>1 DEF Outcome
  <2>2. CASE c.req.op # "get"
    BY <1>1, <2>2, OutcomeWorks, FiguresAddUp
  <2> QED
    BY <2>1, <2>2
<1>4. c.req.op = "get" => out.order = order
  BY DEF Outcome
<1>5. /\ a.req = c.req /\ a.phase = "answered" /\ a.ok = out.ok /\ a.figures = out.figures
      /\ a.fresh => order.status = "open" /\ c.req.version = order.version
      /\ a.order = IF c.req.op = "get" THEN out.order ELSE NoOrder
  BY DEF Answered
<1>6. a \in Answers
  <2>1. a = [req |-> c.req, phase |-> "answered", heard |-> TRUE, ok |-> out.ok,
             figures |-> out.figures,
             order |-> IF c.req.op = "get" THEN out.order ELSE NoOrder,
             fresh |-> /\ c.req.op = "checkout" /\ order.status = "open"
                       /\ c.req.version = order.version]
    BY DEF Answered
  <2> HIDE DEF out
  <2> QED
    BY <1>1, <1>2, <1>3, <1>4, <2>1 DEF Answers
<1>7. c.req.op = "checkout" =>
         /\ c.req \in CheckoutRequests /\ AskedOn(c.req) /\ AskedOn(c.req)'
         /\ out = Checkout(order, c.req)
  <2> SUFFICES ASSUME c.req.op = "checkout"
               PROVE  /\ c.req \in CheckoutRequests /\ AskedOn(c.req) /\ AskedOn(c.req)'
                      /\ out = Checkout(order, c.req)
    OBVIOUS
  <2>1. c \in Good' /\ c.req \in CheckoutRequests
    BY <1>1, <1>2, CallsStayGood DEF Requests
  <2> QED
    BY <2>1 DEF Good, CallOK, Outcome
<1> HIDE DEF out
<1>8. a.req.op = "checkout" /\ a.fresh => Expected(a)
  BY <1>5, <1>7, CheckoutExpected DEF AskedOn, Expected
<1>9. a.req.op = "get" => a.ok /\ Copy(a.order)'
  BY <1>2, <1>4, <1>5 DEF Copy, BillRow
<1>10. CallOK(a)'
  BY <1>5, <1>7, <1>8, <1>9 DEF CallOK, Expected
<1> QED
  BY <1>6, <1>10 DEF Good

LEMMA UnheardIsGood ==
    ASSUME NEW c \in Good
    PROVE  [c EXCEPT !.heard = FALSE] \in Good
<1> DEFINE d == [c EXCEPT !.heard = FALSE]
<1>1. c \in Sent \cup Answers /\ CallOK(c)
  BY DEF Good
<1>2. c \in Answers => d \in Answers /\ d.order = c.order /\ d.ok = c.ok /\ d.fresh = c.fresh
                       /\ d.figures = c.figures
  BY DEF Answers
<1>3. c \in Sent => d \in Sent /\ d.phase = "sent"
  BY DEF Sent
<1>4. c \in Answers \/ c.phase = "sent"
  BY <1>1 DEF Sent
<1>5. d.req = c.req /\ d.phase = c.phase
  BY <1>1 DEF Sent, Answers
<1> HIDE DEF d
<1>6. CallOK(d)
  BY <1>1, <1>2, <1>4, <1>5 DEF CallOK, Expected
<1> QED
  BY <1>1, <1>2, <1>3, <1>6 DEF Good, d

-----------------------------------------------------------------------------
(* Steps of the screen.                                                    *)

LEMMA SameBill ==
    ASSUME order \in BillRow, order' = order
    PROVE  Newer /\ Good \subseteq Good' /\ \A o : Copy(o) => Copy(o)'
  BY CallsStayGood, CopiesStay DEF Newer

\* What a cashier has confirmed so far, and what is missing.
LEMMA PaidSoFar ==
    ASSUME PInv, view = "open"
    PROVE  /\ TotalPaid \in Nat
           /\ Remaining \in Int
           /\ Remaining = 0 => TotalPaid >= shown.total - form.cart
           /\ shown \in BillRow
<1>1. shown \in BillRow /\ form.pays \in Seq(Pays) /\ form.cart \in Int
  BY DEF PInv, Copy, Forms
<1> DEFINE g == [k \in DOMAIN form.pays |-> form.pays[k].amt]
<1>2. TotalPaid \in Nat
  <2>1. IsFiniteSet(DOMAIN form.pays)
    <3>1. DOMAIN form.pays = 1..Len(form.pays) /\ Len(form.pays) \in Nat
      BY <1>1
    <3> QED
      BY <3>1, FS_Interval
  <2>2. IsFiniteSet(Confirmed)
    <3>1. Confirmed \subseteq DOMAIN form.pays
      BY DEF Confirmed
    <3> QED
      BY <2>1, <3>1, FS_Subset
  <2>3. \A k \in Confirmed : g[k] \in Nat
    BY <1>1 DEF Confirmed, Pays
  <2> HIDE DEF g
  <2>4. SumOver(g, Confirmed) \in Nat
    BY <2>2, <2>3, SumIsNat
  <2> QED
    BY <2>4 DEF TotalPaid, g
<1>3. shown.total \in Int
  BY <1>1 DEF BillRow
<1>4. Max({0, shown.total - form.cart - TotalPaid}) =
        IF 0 >= shown.total - form.cart - TotalPaid THEN 0
        ELSE shown.total - form.cart - TotalPaid
  BY <1>1, <1>2, <1>3, MaxIs
<1> QED
  BY <1>1, <1>2, <1>3, <1>4 DEF Remaining, Total

LEMMA AskKeeps ==
    ASSUME PInv, NEW r \in Requests, r.op = "checkout" => AskedOn(r), Ask(r), UNCHANGED dialog
    PROVE  PInv'
<1>1. Call(r) \in Good
  <2>1. Call(r) \in Sent /\ Call(r).req = r /\ Call(r).phase = "sent"
    BY DEF Call, Sent
  <2> QED
    BY <2>1 DEF Good, CallOK
<1>2. Append(calls, Call(r)) \in Seq(Good)
  BY <1>1 DEF PInv
<1>3. order' = order /\ calls' = Append(calls, Call(r)) /\ UNCHANGED <<view, shown, form>>
  BY DEF Ask, server
<1>4. calls' \in Seq(Good)
  BY <1>2, <1>3
<1> HIDE DEF Call
<1>5. Good \subseteq Good' /\ (shown = NoOrder \/ Copy(shown)')
  BY <1>3, SameBill DEF PInv
<1>6. calls' \in Seq(Good')
  BY <1>4, <1>5
<1>7. order' \in BillRow /\ (view' = "open" => shown' # NoOrder) /\ form' \in Forms /\ dialog'.line \in Nat
  BY <1>3 DEF PInv, Forms, Pays
<1>8. shown' = NoOrder \/ Copy(shown)'
  BY <1>3, <1>5
<1> QED
  BY <1>6, <1>7, <1>8 DEF PInv, Forms, Pays, BillRow

\* What the screen asks for when the button is pressed is what the cashier saw.
LEMMA CheckoutAsks ==
    ASSUME PInv, view = "open", NEW rate \in Rates, ProcessCheckout(rate)
    PROVE  \E r \in Requests : r.op = "checkout" /\ AskedOn(r) /\ Ask(r) /\ UNCHANGED dialog
<1> DEFINE r == [op |-> "checkout", paid |-> TotalPaid,
                 disc |-> IF form.cart > 0 THEN form.cart ELSE 0,
                 rate |-> rate, partial |-> CanOpenTab,
                 version |-> shown.version, typed |-> form.cart, change |-> ChangeDue]
<1>1. /\ TotalPaid \in Nat /\ Remaining \in Int /\ shown \in BillRow
      /\ Remaining = 0 => TotalPaid >= shown.total - form.cart
  BY PaidSoFar
<1>2. form.cart \in Int /\ form.partial \in BOOLEAN /\ shown.customer \in BOOLEAN
      /\ shown.total \in Int /\ shown.version \in Nat
  BY <1>1 DEF PInv, Forms, BillRow
<1>3. ChangeDue = Max({0, TotalPaid - shown.total + form.cart})
  BY DEF ChangeDue, Total
<1>4. Max({0, TotalPaid - shown.total + form.cart}) =
        IF 0 >= TotalPaid - shown.total + form.cart THEN 0
        ELSE TotalPaid - shown.total + form.cart
  BY <1>1, <1>2, MaxIs
<1>5. ChangeDue \in Int
  BY <1>1, <1>2, <1>3, <1>4
<1>6. CanOpenTab = (form.partial /\ shown.customer) /\ CanOpenTab \in BOOLEAN
  BY <1>2 DEF CanOpenTab
<1>7. CanComplete /\ Ask(r) /\ UNCHANGED dialog
  BY DEF ProcessCheckout
<1>8. Remaining = 0 \/ CanOpenTab
  BY <1>7 DEF CanComplete
<1>9. /\ r.op = "checkout" /\ r.paid = TotalPaid /\ r.typed = form.cart /\ r.change = ChangeDue
      /\ r.version = shown.version /\ r.partial = CanOpenTab
      /\ r.disc = IF form.cart > 0 THEN form.cart ELSE 0
  OBVIOUS
<1>10. r \in CheckoutRequests
  <2> DEFINE disc == IF form.cart > 0 THEN form.cart ELSE 0
  <2>1. disc \in Nat
    BY <1>2
  <2> HIDE DEF disc
  <2> QED
    BY <1>1, <1>2, <1>5, <1>6, <2>1 DEF CheckoutRequests
<1> HIDE DEF r
<1>11. Seen(shown, r)
  <2>1. r.typed >= 0 => r.disc = r.typed
    BY <1>2, <1>9
  <2>2. r.paid >= shown.total - r.typed \/ (r.partial /\ shown.customer)
    BY <1>1, <1>6, <1>8, <1>9
  <2>3. r.change = Max({0, r.paid - shown.total + r.typed})
    BY <1>3, <1>9
  <2> QED
    BY <2>1, <2>2, <2>3 DEF Seen
<1>12. Copy(shown)
  BY DEF PInv
<1>13. AskedOn(r)
  BY <1>9, <1>11, <1>12 DEF AskedOn, Copy
<1>14. r \in Requests
  BY <1>10 DEF Requests
<1> QED
  BY <1>7, <1>9, <1>13, <1>14

LEMMA FillKeeps ==
    ASSUME PInv, NEW f \in Forms, Fill(f)
    PROVE  PInv'
<1>1. UNCHANGED <<order, calls, view, shown, dialog>> /\ form' \in Forms
  BY DEF Fill, server, wire
<1>2. Good \subseteq Good' /\ (shown = NoOrder \/ Copy(shown)')
  BY <1>1, SameBill DEF PInv
<1>3. calls' \in Seq(Good') /\ (shown' = NoOrder \/ Copy(shown)')
  BY <1>1, <1>2 DEF PInv
<1> QED
  BY <1>1, <1>3 DEF PInv, Forms, Pays, BillRow

LEMMA EditKeeps ==
    ASSUME PInv, NEW d, d.line \in Nat, Edit(d)
    PROVE  PInv'
<1>1. UNCHANGED <<order, calls, view, shown, form>> /\ dialog' = d
  BY DEF Edit, server, wire
<1>2. Good \subseteq Good' /\ (shown = NoOrder \/ Copy(shown)')
  BY <1>1, SameBill DEF PInv
<1>3. calls' \in Seq(Good') /\ (shown' = NoOrder \/ Copy(shown)')
  BY <1>1, <1>2 DEF PInv
<1> QED
  BY <1>1, <1>3 DEF PInv, Forms, Pays, BillRow

LEMMA LeaveKeeps ==
    ASSUME PInv, Leave
    PROVE  PInv'
<1> DEFINE cs == [j \in DOMAIN calls |-> [calls[j] EXCEPT !.heard = FALSE]]
<1>1. calls \in Seq(Good) /\ DOMAIN calls = 1..Len(calls) /\ Len(calls) \in Nat
  BY DEF PInv
<1>2. cs \in Seq(Good)
  <2>1. ASSUME NEW j \in DOMAIN calls PROVE cs[j] \in Good
    <3>1. calls[j] \in Good
      BY <1>1
    <3> QED
      BY <3>1, UnheardIsGood
  <2>2. cs = [j \in 1..Len(calls) |-> cs[j]]
    BY <1>1
  <2> HIDE DEF cs
  <2>3. cs \in [1..Len(calls) -> Good]
    BY <1>1, <2>1, <2>2
  <2> QED
    BY <1>1, <2>3
<1>3. /\ order' = order /\ calls' = cs /\ view' = "away" /\ shown' = NoOrder
      /\ form' = EmptyForm /\ dialog' = NoDialog
  BY DEF Leave, server
<1>4. Good \subseteq Good'
  BY <1>3, SameBill DEF PInv
<1> HIDE DEF cs
<1>5. calls' \in Seq(Good')
  BY <1>2, <1>3, <1>4
<1>6. EmptyForm \in Forms
  <2>1. [amt |-> 0, ok |-> FALSE] \in Pays
    BY DEF Pays
  <2> QED
    BY <2>1 DEF EmptyForm, Forms
<1>7. NoDialog.line \in Nat
  BY DEF NoDialog
<1> QED
  BY <1>3, <1>5, <1>6, <1>7 DEF PInv, Forms, Pays, BillRow

LEMMA EnterKeeps ==
    ASSUME PInv, Enter
    PROVE  PInv'
<1>1. Reload \in Good
  <2>1. Reload \in Sent /\ Reload.req.op = "get" /\ Reload.phase = "sent"
    BY DEF Reload, Call, Sent, Requests
  <2> QED
    BY <2>1 DEF Good, CallOK
<1>2. UNCHANGED <<order, shown, form, dialog>> /\ calls' = Append(calls, Reload) /\ view' = "loading"
  BY DEF Enter, server
<1> HIDE DEF Reload
<1>3. Good \subseteq Good' /\ (shown = NoOrder \/ Copy(shown)')
  BY <1>2, SameBill DEF PInv
<1>4. calls' \in Seq(Good)
  BY <1>1, <1>2 DEF PInv
<1>5. calls' \in Seq(Good') /\ (shown' = NoOrder \/ Copy(shown)')
  BY <1>2, <1>3, <1>4
<1> QED
  BY <1>2, <1>5 DEF PInv, Forms, Pays, BillRow

\* The form keeps its shape.
LEMMA FormKeeps ==
    ASSUME PInv
    PROVE  /\ \A d \in Discounts : [form EXCEPT !.cart = d] \in Forms
           /\ [form EXCEPT !.partial = ~@] \in Forms
<1>1. form \in Forms
  BY DEF PInv
<1> QED
  BY <1>1, NumbersAssumption DEF Forms

LEMMA ConfirmFills ==
    ASSUME PInv, view = "open", NEW k \in DOMAIN form.pays, NEW amt \in Int,
           ConfirmPaymentLine(k, amt)
    PROVE  \E f \in Forms : Fill(f)
<1>0. form \in Forms /\ form.pays \in Seq(Pays)
  BY DEF PInv, Forms
<1> DEFINE left == Remaining - amt
           more == k = Len(form.pays) /\ left > 0
           first == [form.pays EXCEPT ![k] = [amt |-> amt, ok |-> TRUE]]
           next == IF more THEN <<[amt |-> left, ok |-> FALSE]>> ELSE <<>>
           pays == first \o next
<1>1. amt > 0 /\ Fill([form EXCEPT !.pays = pays])
  BY DEF ConfirmPaymentLine
<1>2. left \in Int
  BY PaidSoFar
<1>3. first \in Seq(Pays)
  <2>1. [amt |-> amt, ok |-> TRUE] \in Pays
    BY <1>1 DEF Pays
  <2> QED
    BY <1>0, <2>1
<1> HIDE DEF left
<1>4. next \in Seq(Pays)
  <2>1. [amt |-> left, ok |-> FALSE] \in Pays
    BY <1>2 DEF Pays
  <2> QED
    BY <2>1
<1> HIDE DEF first, next
<1>5. pays \in Seq(Pays)
  BY <1>3, <1>4, ConcatProperties
<1> HIDE DEF pays
<1>6. [form EXCEPT !.pays = pays] \in Forms
  BY <1>0, <1>5 DEF Forms
<1> QED
  BY <1>1, <1>6

\* All that the screen does.
ScreenDoes ==
    \/ \E r \in Requests : /\ r.op # "get" /\ (r.op = "checkout" => AskedOn(r))
                           /\ Ask(r) /\ UNCHANGED dialog
    \/ \E f \in Forms : Fill(f)
    \/ \E d : d.line \in Nat /\ Edit(d)
    \/ Leave
    \/ Enter

LEMMA ScreenOnlyDoes ==
    ASSUME PInv, Screen
    PROVE  ScreenDoes
<1>1. ASSUME NEW r \in Requests, r.op \notin {"get", "checkout"}, Ask(r), UNCHANGED dialog
      PROVE  ScreenDoes
  BY <1>1 DEF ScreenDoes
<1>2. ASSUME NEW p \in Products, AddProduct(p) PROVE ScreenDoes
  <2> DEFINE r == [op |-> "add", product |-> p]
  <2>1. r \in Requests /\ r.op = "add"
    BY DEF Requests
  <2>2. Ask(r) /\ UNCHANGED dialog
    BY <1>2 DEF AddProduct
  <2> HIDE DEF r
  <2> QED
    BY <1>1, <2>1, <2>2
<1>3. ASSUME NEW i \in Nat, RemoveLine(i) \/ MarkDispatched(i) PROVE ScreenDoes
  <2>1. PICK r \in [op : {"remove", "status"}, line : Nat] : Ask(r) /\ UNCHANGED dialog
    <3>1. ASSUME NEW op \in {"remove", "status"}
          PROVE  [op |-> op, line |-> i] \in [op : {"remove", "status"}, line : Nat]
      OBVIOUS
    <3> QED
      BY <1>3, <3>1 DEF RemoveLine, MarkDispatched
  <2>2. r \in Requests /\ r.op \in {"remove", "status"}
    BY DEF Requests
  <2> QED
    BY <1>1, <2>1, <2>2
<1>4. ASSUME NEW op \in {"quantity", "discount"}, NEW i \in Nat, NEW q \in Int,
             Ask([op |-> op, line |-> i, n |-> q]), UNCHANGED dialog
      PROVE  ScreenDoes
  <2> DEFINE r == [op |-> op, line |-> i, n |-> q]
  <2>1. r \in Requests /\ r.op = op
    BY DEF Requests
  <2> HIDE DEF r
  <2> QED
    BY <1>1, <1>4, <2>1 DEF r
<1>5. ASSUME NEW op \in {"send", "waitstaff", "attach"}, Ask([op |-> op]), UNCHANGED dialog
      PROVE  ScreenDoes
  <2> DEFINE r == [op |-> op]
  <2>1. r \in Requests /\ r.op = op
    BY DEF Requests
  <2> HIDE DEF r
  <2> QED
    BY <1>1, <1>5, <2>1 DEF r
<1>6. CASE Header \/ ReceiptModal
  BY <1>6 DEF Header, ReceiptModal, ScreenDoes
<1>7. CASE ProductGrid
  BY <1>2, <1>7, PricesAssumption DEF ProductGrid, Offered
<1>8. CASE ActionBar \/ WaitstaffModal \/ CustomerModal
  BY <1>5, <1>8 DEF ActionBar, WaitstaffModal, CustomerModal, Send, AssignWaitstaff, Attach
<1>9. CASE CheckoutTab
  <2>1. view = "open"
    BY <1>9 DEF CheckoutTab, Free
  <2>2. ASSUME NEW k \in DOMAIN form.pays, PaymentLine(k) PROVE ScreenDoes
    <3>1. PICK a \in Amounts \cup {IF form.pays[k].amt = 0 THEN Remaining ELSE form.pays[k].amt} :
             ConfirmPaymentLine(k, a)
      BY <2>2 DEF PaymentLine
    <3>2. form.pays[k].amt \in Int
      BY DEF PInv, Forms, Pays
    <3>3. a \in Int
      BY <2>1, <3>2, PaidSoFar, NumbersAssumption
    <3> QED
      BY <2>1, <3>1, <3>3, ConfirmFills DEF ScreenDoes
  <2>3. ASSUME NEW rate \in Rates, ProcessCheckout(rate) PROVE ScreenDoes
    <3>1. PICK r \in Requests : r.op = "checkout" /\ AskedOn(r) /\ Ask(r) /\ UNCHANGED dialog
      BY <2>1, <2>3, CheckoutAsks
    <3>2. r.op # "get"
      BY <3>1
    <3> QED
      BY <3>1, <3>2 DEF ScreenDoes
  <2> QED
    BY <1>9, <2>2, <2>3, FormKeeps DEF CheckoutTab, ScreenDoes
<1>10. ASSUME NEW i \in LineIds, view = "open", i \in DOMAIN shown.lines, LineButtons(i)
       PROVE  ScreenDoes
  <2>1. i \in Nat /\ \A q \in 0..MaxQuantity : q \in Int
    BY NumbersAssumption DEF LineIds
  <2>2. shown.lines[i].qty \in Int
    <3>1. shown.lines \in LineMaps
      BY <1>10, PaidSoFar DEF BillRow
    <3>2. shown.lines[i] \in LineRow
      BY <1>10, <3>1, LineMapParts
    <3> QED
      BY <3>2 DEF LineRow
  <2>3. ASSUME NEW q \in Int, ChangeQuantity(i, q) PROVE ScreenDoes
    BY <1>4, <2>1, <2>3 DEF ChangeQuantity
  <2>4. ASSUME Edit([line |-> i, was |-> shown.lines[i]]) PROVE ScreenDoes
    BY <2>1, <2>4 DEF ScreenDoes
  <2> QED
    BY <1>3, <1>10, <2>1, <2>2, <2>3, <2>4 DEF LineButtons
<1>11. CASE DiscountModal
  <2>1. dialog.line \in Nat
    BY DEF PInv
  <2>2. ASSUME NEW d \in Discounts \cup {0}, SaveItemDiscount(d) PROVE ScreenDoes
    <3>1. Ask([op |-> "discount", line |-> dialog.line, n |-> d]) /\ UNCHANGED dialog
      BY <2>2 DEF SaveItemDiscount
    <3>2. d \in Int
      BY NumbersAssumption
    <3> QED
      BY <1>4, <2>1, <3>1, <3>2
  <2>3. NoDialog.line \in Nat
    BY DEF NoDialog
  <2> QED
    BY <1>11, <2>2, <2>3 DEF DiscountModal, ScreenDoes
<1>12. CASE Enter
  BY <1>12 DEF ScreenDoes
<1> QED
  BY <1>6, <1>7, <1>8, <1>9, <1>10, <1>11, <1>12 DEF Screen

LEMMA ScreenKeepsFigures ==
    ASSUME PInv, Screen
    PROVE  PInv'
  BY ScreenOnlyDoes, AskKeeps, FillKeeps, EditKeeps, LeaveKeeps, EnterKeeps DEF ScreenDoes

-----------------------------------------------------------------------------
(* Steps of the server and of answers.                                     *)

LEMMA OthersPerform ==
    ASSUME PInv, Elsewhere
    PROVE  \E r \in Requests \cup [op : {"void"}] : Perform(r)
<1>1. [op |-> "void"] \in Requests \cup [op : {"void"}]
  OBVIOUS
<1>2. order.lines \in LineMaps
  BY DEF PInv, BillRow
<1>3. ASSUME NEW i \in DOMAIN order.lines, NEW q \in 0..MaxQuantity
      PROVE  [op |-> "quantity", line |-> i, n |-> q] \in Requests
  <2>1. i \in Nat /\ q \in Int
    BY <1>2, LineMapParts, NumbersAssumption
  <2> QED
    BY <2>1 DEF Requests
<1> QED
  BY <1>1, <1>3 DEF Elsewhere

LEMMA OthersKeepFigures ==
    ASSUME PInv, Elsewhere
    PROVE  PInv'
<1>1. PICK r \in Requests \cup [op : {"void"}] : Perform(r)
  BY OthersPerform
<1>2. Newer
  BY <1>1, PerformWorks DEF PInv
<1>3. UNCHANGED <<calls, view, shown, form, dialog>>
  BY DEF Elsewhere, page
<1>4. Good \subseteq Good' /\ (shown = NoOrder \/ Copy(shown)')
  <2>1. PICK s : s = shown
    OBVIOUS
  <2>2. s = NoOrder \/ Copy(s)'
    BY <1>2, <2>1, CopiesStay DEF PInv
  <2> QED
    BY <1>2, <1>3, <2>1, <2>2, CallsStayGood DEF PInv
<1>5. calls' \in Seq(Good') /\ (shown' = NoOrder \/ Copy(shown)')
  BY <1>3, <1>4 DEF PInv
<1> QED
  BY <1>2, <1>3, <1>5 DEF PInv, Newer, Forms, Pays, BillRow

LEMMA ServeKeepsFigures ==
    ASSUME PInv, NEW j \in DOMAIN calls, Serve(j)
    PROVE  PInv'
<1>1. PICK c \in Good : c = calls[j]
  BY DEF PInv
<1>2. /\ c.phase = "sent" /\ Perform(c.req)
      /\ calls' = IF c.heard THEN [calls EXCEPT ![j] = Answered(c)] ELSE RemoveAt(calls, j)
      /\ UNCHANGED <<view, shown, form, dialog>>
  BY <1>1 DEF Serve, page
<1>3. Newer
  <2>1. c.req \in Requests \cup [op : {"void"}]
    BY DEF Good, Sent, Answers
  <2> QED
    BY <1>2, <2>1, PerformWorks DEF PInv
<1>4. Good \subseteq Good' /\ (shown = NoOrder \/ Copy(shown)')
  <2>1. PICK s : s = shown
    OBVIOUS
  <2>2. s = NoOrder \/ Copy(s)'
    BY <1>3, <2>1, CopiesStay DEF PInv
  <2> QED
    BY <1>2, <1>3, <2>1, <2>2, CallsStayGood DEF PInv
<1>5. Answered(c) \in Good'
  BY <1>2, AnswerIsGood DEF PInv
<1>6. RemoveAt(calls, j) \in Seq(Good)
  BY RestOfCalls DEF PInv
<1>7. calls' \in Seq(Good')
  <2>1. calls \in Seq(Good') /\ RemoveAt(calls, j) \in Seq(Good')
    BY <1>4, <1>6 DEF PInv
  <2> QED
    BY <1>2, <1>5, <2>1
<1>8. shown' = NoOrder \/ Copy(shown)'
  BY <1>2, <1>4
<1> QED
  BY <1>2, <1>3, <1>7, <1>8 DEF PInv, Newer, Forms, Pays, BillRow

LEMMA CutOffKeepsFigures ==
    ASSUME PInv, NEW j \in DOMAIN calls, CutOff(j)
    PROVE  PInv'
<1>1. calls' = RemoveAt(calls, j) /\ UNCHANGED <<view, shown, form, dialog>>
  BY DEF CutOff, page
<1>2. Newer
  BY CutOffIsNewer
<1>3. Good \subseteq Good' /\ (shown = NoOrder \/ Copy(shown)')
  <2>1. PICK s : s = shown
    OBVIOUS
  <2>2. s = NoOrder \/ Copy(s)'
    BY <1>2, <2>1, CopiesStay DEF PInv
  <2> QED
    BY <1>1, <1>2, <2>1, <2>2, CallsStayGood DEF PInv
<1>4. RemoveAt(calls, j) \in Seq(Good)
  BY RestOfCalls DEF PInv
<1>5. calls' \in Seq(Good') /\ (shown' = NoOrder \/ Copy(shown)')
  BY <1>1, <1>3, <1>4
<1> QED
  BY <1>1, <1>2, <1>5 DEF PInv, Newer, Forms, Pays, BillRow

\* The rest of a handler.
LEMMA HandlerKeepsFigures ==
    ASSUME PInv, NEW j \in DOMAIN calls, NEW ok \in BOOLEAN, NEW rest \in Seq(Good),
           ok => calls[j].phase = "answered", GoOn(j, ok, rest)
    PROVE  PInv'
<1> DEFINE next == IF ReloadsAfter(calls[j].req.op, ok) THEN <<Reload>> ELSE <<>>
<1>1. calls[j] \in Good
  BY DEF PInv
<1>2. next \in Seq(Good)
  <2>1. Reload \in Sent /\ Reload.req.op = "get" /\ Reload.phase = "sent"
    BY DEF Reload, Call, Sent, Requests
  <2>2. Reload \in Good
    BY <2>1 DEF Good, CallOK
  <2> HIDE DEF Reload
  <2> QED
    BY <2>2
<1>3. calls' = rest \o next /\ UNCHANGED <<order, form>>
  BY DEF GoOn, server
<1> HIDE DEF next
<1>4. calls' \in Seq(Good)
  BY <1>2, <1>3, ConcatProperties
<1>5. Good \subseteq Good' /\ \A o : Copy(o) => Copy(o)'
  BY <1>3, SameBill DEF PInv
<1>6. ok /\ calls[j].req.op = "get" => Copy(calls[j].order)
  BY <1>1 DEF Good, CallOK
<1>7. shown' = IF ok /\ calls[j].req.op = "get" THEN calls[j].order ELSE shown
  BY DEF GoOn
<1>8. \A o : Copy(o) => o # NoOrder
  <2>1. NoOrder \notin BillRow
    BY DEF NoOrder, BillRow
  <2> QED
    BY <2>1 DEF Copy
<1>9. /\ shown' = NoOrder \/ Copy(shown')
      /\ view' = "open" => shown' # NoOrder
  <2>1. view' = IF view = "loading" /\ calls[j].req.op = "get"
                THEN IF ok THEN "open" ELSE "missing" ELSE view
    BY DEF GoOn
  <2> QED
    BY <1>6, <1>7, <1>8, <2>1 DEF PInv
<1>10. PICK s : s = shown'
  OBVIOUS
<1>11. shown' = NoOrder \/ Copy(shown)'
  <2>1. s = NoOrder \/ Copy(s)
    BY <1>9, <1>10
  <2>2. s = NoOrder \/ Copy(s)'
    BY <1>5, <2>1
  <2> QED
    BY <1>10, <2>2 DEF Copy
<1>12. dialog'.line \in Nat
  BY DEF GoOn, PInv, NoDialog
<1>13. calls' \in Seq(Good')
  BY <1>4, <1>5
<1> QED
  BY <1>3, <1>9, <1>11, <1>12, <1>13 DEF PInv, Forms, Pays, BillRow

LEMMA ResolveKeepsFigures ==
    ASSUME PInv, NEW j \in DOMAIN calls, Resolve(j)
    PROVE  PInv'
<1>1. calls \in Seq(Good) /\ calls[j] \in Good /\ RemoveAt(calls, j) \in Seq(Good)
  BY RestOfCalls DEF PInv
<1>2. CASE Answer(j)
  <2>1. GoOn(j, calls[j].ok, RemoveAt(calls, j)) /\ calls[j].phase = "answered"
    BY <1>2 DEF Answer
  <2>2. calls[j].ok \in BOOLEAN
    BY <1>1, <2>1 DEF Good, Sent, Answers
  <2> QED
    BY <1>1, <2>1, <2>2, HandlerKeepsFigures
<1>3. CASE GiveUp(j)
  <2>1. [calls EXCEPT ![j].heard = FALSE] \in Seq(Good)
    <3> DEFINE d == [calls[j] EXCEPT !.heard = FALSE]
    <3>1. d \in Good
      BY <1>1, UnheardIsGood
    <3> HIDE DEF d
    <3>2. [calls EXCEPT ![j] = d] \in Seq(Good)
      BY <1>1, <3>1
    <3> QED
      BY <3>2 DEF d
  <2>2. GoOn(j, FALSE, RemoveAt(calls, j)) \/ GoOn(j, FALSE, [calls EXCEPT ![j].heard = FALSE])
    BY <1>3 DEF GiveUp
  <2> QED
    BY <1>1, <2>1, <2>2, HandlerKeepsFigures
<1>4. CASE Drop(j)
  <2>1. calls' = RemoveAt(calls, j) /\ UNCHANGED <<order, view, shown, form, dialog>>
    BY <1>4 DEF Drop, server, page
  <2>2. Good \subseteq Good' /\ (shown = NoOrder \/ Copy(shown)')
    BY <2>1, SameBill DEF PInv
  <2>3. calls' \in Seq(Good') /\ (shown' = NoOrder \/ Copy(shown)')
    BY <1>1, <2>1, <2>2
  <2> QED
    BY <2>1, <2>3 DEF PInv, Forms, Pays, BillRow
<1> QED
  BY <1>2, <1>3, <1>4, ServeKeepsFigures, CutOffKeepsFigures DEF Resolve

-----------------------------------------------------------------------------
(* What the screen shows once nothing is under way.                        *)

\* Nothing else leaves the list.
LEMMA RestKeeps ==
    ASSUME NEW S, NEW s \in Seq(S), NEW j \in DOMAIN s, NEW m \in DOMAIN s \ {j}
    PROVE  \E k \in DOMAIN RemoveAt(s, j) : RemoveAt(s, j)[k] = s[m]
<1>1. Len(s) \in Nat /\ j \in 1..Len(s) /\ m \in 1..Len(s) /\ DOMAIN s = 1..Len(s) /\ m # j
  OBVIOUS
<1> DEFINE a == SubSeq(s, 1, j - 1)
           b == SubSeq(s, j + 1, Len(s))
<1>2. /\ a \in Seq(S) /\ Len(a) = j - 1
      /\ \A k \in 1..(j - 1) : a[k] = s[k]
  BY <1>1
<1>3. /\ b \in Seq(S) /\ Len(b) = Len(s) - j
      /\ \A k \in 1..(Len(s) - j) : b[k] = s[j + k]
  BY <1>1
<1>4. RemoveAt(s, j) = a \o b
  BY DEF RemoveAt
<1> HIDE DEF a, b
<1>5. /\ a \o b \in Seq(S) /\ Len(a \o b) = Len(a) + Len(b)
      /\ \A k \in 1..(Len(a) + Len(b)) : (a \o b)[k] = IF k <= Len(a) THEN a[k] ELSE b[k - Len(a)]
  BY <1>2, <1>3, ConcatProperties
<1>6. DOMAIN (a \o b) = 1..(Len(s) - 1)
  <2>1. Len(a \o b) = Len(s) - 1
    BY <1>1, <1>2, <1>3, <1>5
  <2>2. DOMAIN (a \o b) = 1..Len(a \o b)
    BY <1>5
  <2> QED
    BY <2>1, <2>2
<1>7. CASE m < j
  <2>1. m \in 1..(j - 1) /\ m \in 1..(Len(a) + Len(b)) /\ m <= Len(a) /\ m \in 1..(Len(s) - 1)
    BY <1>1, <1>2, <1>3, <1>7
  <2>2. (a \o b)[m] = s[m]
    BY <1>2, <1>5, <2>1
  <2> QED
    BY <1>4, <1>6, <2>1, <2>2
<1>8. CASE m > j
  <2>1. /\ m - j \in 1..(Len(s) - j) /\ m - 1 \in 1..(Len(a) + Len(b)) /\ ~(m - 1 <= Len(a))
        /\ m - 1 \in 1..(Len(s) - 1) /\ (m - 1) - Len(a) = m - j /\ j + (m - j) = m
    <3>1. Len(a) = j - 1 /\ Len(b) = Len(s) - j
      BY <1>2, <1>3
    <3>2. Len(s) \in Int /\ j \in Int /\ m \in Int /\ 1 <= j /\ j < m /\ m <= Len(s)
      BY <1>1, <1>8
    <3> QED
      BY <3>1, <3>2
  <2>2. (a \o b)[m - 1] = s[m]
    BY <1>3, <1>5, <2>1
  <2> QED
    BY <1>4, <1>6, <2>1, <2>2
<1> QED
  BY <1>1, <1>7, <1>8

\* What is due stays due while the bill is the same and its call is still there.
LEMMA DueStays ==
    ASSUME order' = order, NEW c, Due(c), NEW cs, calls' = cs, \E k \in DOMAIN cs : cs[k] = c
    PROVE  \E k \in DOMAIN calls' : Due(calls[k])'
<1>1. PICK k \in DOMAIN cs : cs[k] = c
  OBVIOUS
<1>2. Due(c)'
  BY DEF Due
<1>3. Due(calls[k])'
  BY <1>1, <1>2 DEF Due
<1> QED
  BY <1>1, <1>3

LEMMA ScreenShows ==
    ASSUME OInv, PInv, UpToDate, Screen
    PROVE  UpToDate'
<1> SUFFICES ASSUME view' \in {"loading", "open"}, ~excuse', receipt' = NoFigures
             PROVE  shown' = order' \/ \E j \in DOMAIN calls' : Due(calls[j])'
  BY DEF UpToDate
<1>1. calls \in Seq(Good)
  BY DEF PInv
<1>2. ASSUME UNCHANGED <<order, view, shown, receipt, excuse>>,
             UNCHANGED calls \/ \E c : calls' = Append(calls, c)
      PROVE  shown' = order' \/ \E j \in DOMAIN calls' : Due(calls[j])'
  <2>1. CASE shown = order
    BY <1>2, <2>1
  <2>2. ASSUME NEW j \in DOMAIN calls, Due(calls[j])
        PROVE  \E k \in DOMAIN calls' : Due(calls[k])'
    <3>1. PICK c : c = calls[j]
      OBVIOUS
    <3>2. PICK cs : cs = calls'
      OBVIOUS
    <3>3. j \in DOMAIN cs /\ cs[j] = c
      BY <1>1, <1>2, <2>2, <3>1, <3>2
    <3> QED
      BY <1>2, <2>2, <3>1, <3>2, <3>3, DueStays
  <2> QED
    BY <1>2, <2>1, <2>2 DEF UpToDate
<1>3. ASSUME NEW r \in Requests, Ask(r)
      PROVE  shown' = order' \/ \E j \in DOMAIN calls' : Due(calls[j])'
  BY <1>2, <1>3 DEF Ask, server
<1>4. ASSUME NEW f, Fill(f) \/ Edit(f)
      PROVE  shown' = order' \/ \E j \in DOMAIN calls' : Due(calls[j])'
  BY <1>2, <1>4 DEF Fill, Edit, server, wire
<1>5. CASE Leave
  BY <1>5 DEF Leave
<1>6. CASE Enter
  <2>1. calls' = Append(calls, Reload)
    BY <1>6 DEF Enter
  <2>2. calls' \in Seq(Good \cup {Reload}) /\ Len(calls') = Len(calls) + 1
        /\ calls'[Len(calls) + 1] = Reload /\ Len(calls) \in Nat
    BY <1>1, <2>1
  <2>3. Due(Reload)'
    BY DEF Due, Reload, Call
  <2>4. PICK n : n = Len(calls) + 1
    OBVIOUS
  <2>5. n \in DOMAIN calls' /\ calls'[n] = Reload
    BY <2>2, <2>4
  <2>6. Due(calls[n])'
    BY <2>3, <2>5 DEF Due, Reload, Call
  <2> QED
    BY <2>5, <2>6
<1> QED
  BY <1>3, <1>4, <1>5, <1>6, ScreenOnlyDoes DEF ScreenDoes

LEMMA ServeShows ==
    ASSUME OInv, PInv, UpToDate, NEW j \in DOMAIN calls, Serve(j)
    PROVE  UpToDate'
<1> SUFFICES ASSUME view' \in {"loading", "open"}, ~excuse', receipt' = NoFigures
             PROVE  shown' = order' \/ \E k \in DOMAIN calls' : Due(calls[k])'
  BY DEF UpToDate
<1>1. PICK c \in Good : c = calls[j]
  BY DEF PInv
<1>2. PICK a : a = Answered(c)
  OBVIOUS
<1>3. c.phase = "sent" /\ c.heard /\ Perform(c.req) /\ calls' = [calls EXCEPT ![j] = a]
      /\ UNCHANGED <<view, shown, receipt>> /\ ~excuse
  BY <1>1, <1>2 DEF Serve, page
<1>4. /\ a.req = c.req /\ a.phase = "answered" /\ a.ok = Outcome(order, c.req).ok /\ a.heard
      /\ c.req.op = "get" => a.order = Outcome(order, c.req).order
  BY <1>2 DEF Answered
<1>5. c.req \in Requests \cup [op : {"void"}]
  BY DEF Good, Sent, Answers
<1>6. /\ order' # order => Outcome(order, c.req).ok /\ c.req.op # "get"
      /\ c.req.op = "get" => Outcome(order, c.req).ok /\ order' = order
  BY <1>3, <1>5, PerformWorks DEF PInv
<1>7. PICK cs : cs = calls'
  OBVIOUS
<1>8. j \in DOMAIN cs /\ cs[j] = a /\ \A k \in DOMAIN calls \ {j} : k \in DOMAIN cs /\ cs[k] = calls[k]
  BY <1>3, <1>7 DEF PInv
<1>9. Due(a)' => \E k \in DOMAIN calls' : Due(calls[k])'
  BY <1>7, <1>8 DEF Due
<1>10. CASE order' # order
  BY <1>4, <1>6, <1>9, <1>10 DEF Due
<1>11. CASE order' = order
  <2>1. CASE shown = order
    BY <1>3, <1>11, <2>1
  <2>2. ASSUME NEW k \in DOMAIN calls, Due(calls[k])
        PROVE  \E m \in DOMAIN calls' : Due(calls[m])'
    <3>1. CASE k = j
      <4>1. c.req.op = "get"
        BY <1>1, <1>3, <2>2, <3>1 DEF Due
      <4>2. a.order = order'
        BY <1>4, <1>11, <4>1 DEF Outcome
      <4> QED
        BY <1>4, <1>9, <4>1, <4>2 DEF Due
    <3>2. CASE k # j
      <4>1. PICK d : d = calls[k]
        OBVIOUS
      <4> QED
        BY <1>7, <1>8, <1>11, <2>2, <3>2, <4>1, DueStays
    <3> QED
      BY <3>1, <3>2
  <2> QED
    BY <1>3, <2>1, <2>2 DEF UpToDate
<1> QED
  BY <1>10, <1>11

\* A handler leaves what else is due.
LEMMA HandlerLeaves ==
    ASSUME PInv, NEW j \in DOMAIN calls, NEW ok, GoOn(j, ok, RemoveAt(calls, j)),
           NEW k \in DOMAIN calls \ {j}, Due(calls[k])
    PROVE  \E m \in DOMAIN calls' : Due(calls[m])'
<1> DEFINE next == IF ReloadsAfter(calls[j].req.op, ok) THEN <<Reload>> ELSE <<>>
<1>1. calls \in Seq(Good)
  BY DEF PInv
<1>2. PICK rest : rest = RemoveAt(calls, j)
  OBVIOUS
<1>3. rest \in Seq(Good) /\ \E m \in DOMAIN rest : rest[m] = calls[k]
  BY <1>1, <1>2, RestOfCalls, RestKeeps
<1>4. PICK m \in DOMAIN rest : rest[m] = calls[k]
  BY <1>3
<1>5. calls' = rest \o next /\ order' = order
  BY <1>2 DEF GoOn, server
<1>6. next \in Seq({Reload})
  <2>1. <<Reload>> \in Seq({Reload}) /\ <<>> \in Seq({Reload})
    OBVIOUS
  <2> QED
    BY <2>1
<1> HIDE DEF next
<1>7. rest \in Seq(Good \cup {Reload}) /\ next \in Seq(Good \cup {Reload})
  BY <1>3, <1>6
<1>8. (rest \o next)[m] = rest[m] /\ m \in DOMAIN (rest \o next)
  <2>1. /\ (rest \o next) \in Seq(Good \cup {Reload})
        /\ Len(rest \o next) = Len(rest) + Len(next)
        /\ \A i \in 1..(Len(rest) + Len(next)) :
              (rest \o next)[i] = IF i <= Len(rest) THEN rest[i] ELSE next[i - Len(rest)]
    BY <1>7, ConcatProperties
  <2>2. m \in 1..(Len(rest) + Len(next)) /\ m <= Len(rest)
    BY <1>3, <1>4, <1>7
  <2> QED
    BY <2>1, <2>2
<1>9. PICK c : c = calls[k]
  OBVIOUS
<1>10. PICK cs : cs = calls'
  OBVIOUS
<1>11. m \in DOMAIN cs /\ cs[m] = c
  BY <1>4, <1>5, <1>8, <1>9, <1>10
<1> QED
  BY <1>5, <1>9, <1>10, <1>11, DueStays

LEMMA HandlerReloads ==
    ASSUME PInv, NEW j \in DOMAIN calls, NEW ok, GoOn(j, ok, RemoveAt(calls, j)),
           ReloadsAfter(calls[j].req.op, ok)
    PROVE  \E m \in DOMAIN calls' : Due(calls[m])'
<1>1. PICK rest : rest = RemoveAt(calls, j)
  OBVIOUS
<1>2. rest \in Seq(Good)
  BY <1>1, RestOfCalls DEF PInv
<1>3. calls' = rest \o <<Reload>>
  BY <1>1 DEF GoOn
<1>4. Due(Reload)'
  BY DEF Due, Reload, Call
<1>5. PICK n : n = Len(rest) + 1
  OBVIOUS
<1>6. n \in DOMAIN calls' /\ calls'[n] = Reload
  <2> HIDE DEF Reload
  <2>1. calls' = Append(rest, Reload)
    BY <1>2, <1>3
  <2> QED
    BY <1>2, <1>5, <2>1
<1>7. Due(calls[n])'
  BY <1>4, <1>6 DEF Due, Reload, Call
<1> QED
  BY <1>6, <1>7

LEMMA AnswerShows ==
    ASSUME OInv, PInv, UpToDate, NEW j \in DOMAIN calls, Answer(j)
    PROVE  UpToDate'
<1> SUFFICES ASSUME view' \in {"loading", "open"}, ~excuse', receipt' = NoFigures
             PROVE  shown' = order' \/ \E k \in DOMAIN calls' : Due(calls[k])'
  BY DEF UpToDate
<1>1. PICK c \in Good : c = calls[j]
  BY DEF PInv
<1>2. /\ c.phase = "answered" /\ c.heard /\ GoOn(j, c.ok, RemoveAt(calls, j))
      /\ excuse' = IF c.req.op # "get" THEN excuse
                   ELSE IF c.order = order THEN FALSE
                   ELSE excuse \/ (shown # NoOrder /\ c.order.version < shown.version)
  BY <1>1 DEF Answer
<1>3. /\ shown' = IF c.ok /\ c.req.op = "get" THEN c.order ELSE shown
      /\ view' = IF view = "loading" /\ c.req.op = "get"
                 THEN IF c.ok THEN "open" ELSE "missing" ELSE view
      /\ receipt' = IF c.ok /\ c.req.op = "checkout" THEN c.figures ELSE receipt
      /\ order' = order
  BY <1>1, <1>2 DEF GoOn, Printed, server
<1>4. ASSUME NEW k \in DOMAIN calls, Due(calls[k]), k # j
      PROVE  \E m \in DOMAIN calls' : Due(calls[m])'
  BY <1>2, <1>4, HandlerLeaves
<1>5. CASE c.req.op = "get"
  <2>1. c.ok /\ Copy(c.order)
    BY <1>2, <1>5 DEF Good, CallOK
  <2>2. CASE c.order = order
    BY <1>3, <1>5, <2>1, <2>2
  <2>3. CASE c.order # order
    <3>1. ~excuse /\ ~(shown # NoOrder /\ c.order.version < shown.version)
      BY <1>2, <1>5, <2>3
    <3>2. view \in {"loading", "open"} /\ receipt = NoFigures
      BY <1>3, <1>5, <2>1
    <3>3. shown # order
      <4>1. NoOrder \notin BillRow
        BY DEF NoOrder, BillRow
      <4>2. order \in BillRow /\ c.order.version <= order.version
            /\ c.order.version # order.version
            /\ c.order.version \in Nat /\ order.version \in Nat
        BY <2>1, <2>3 DEF PInv, Copy, BillRow
      <4> QED
        BY <3>1, <4>1, <4>2
    <3>4. PICK k \in DOMAIN calls : Due(calls[k])
      BY <3>1, <3>2, <3>3 DEF UpToDate
    <3>5. k # j
      BY <1>1, <1>2, <1>5, <2>3, <3>4 DEF Due
    <3> QED
      BY <1>4, <3>4, <3>5
  <2> QED
    BY <2>2, <2>3
<1>6. CASE c.req.op # "get"
  <2>1. ~excuse /\ view \in {"loading", "open"} /\ shown' = shown
    BY <1>2, <1>3, <1>6
  <2>2. CASE ReloadsAfter(c.req.op, c.ok)
    BY <1>1, <1>2, <2>2, HandlerReloads
  <2>3. CASE ~ReloadsAfter(c.req.op, c.ok)
    <3>1. ~(c.ok /\ c.req.op = "checkout")
      <4>1. c.ok /\ c.req.op = "checkout" => c.figures # NoFigures
        BY <1>1, <1>2 DEF OInv, Truthful
      <4> QED
        BY <1>3, <4>1
    <3>2. c.req.op \in {"get", "send", "waitstaff", "attach", "add", "remove", "status",
                        "quantity", "discount", "checkout"}
      <4>1. c.req \in Requests
        BY DEF Good, Sent, Answers
      <4> QED
        BY <4>1 DEF Requests, CheckoutRequests
    <3>3. ~c.ok
      BY <1>6, <2>3, <3>1, <3>2 DEF ReloadsAfter, ReloadsOnSuccess, AlwaysReloads
    <3>4. receipt = NoFigures
      BY <1>3, <3>3
    <3>5. CASE shown = order
      BY <1>3, <2>1, <3>5
    <3>6. CASE shown # order
      <4>1. PICK k \in DOMAIN calls : Due(calls[k])
        BY <2>1, <3>4, <3>6 DEF UpToDate
      <4>2. k # j
        BY <1>1, <1>2, <1>6, <3>3, <4>1 DEF Due
      <4> QED
        BY <1>4, <4>1, <4>2
    <3> QED
      BY <3>5, <3>6
  <2> QED
    BY <2>2, <2>3
<1> QED
  BY <1>5, <1>6

LEMMA ResolveShows ==
    ASSUME OInv, PInv, UpToDate, NEW j \in DOMAIN calls, Resolve(j)
    PROVE  UpToDate'
<1>1. CASE GiveUp(j)
  BY <1>1 DEF GiveUp, UpToDate
<1>2. CASE Drop(j)
  <2> SUFFICES ASSUME view' \in {"loading", "open"}, ~excuse', receipt' = NoFigures
               PROVE  shown' = order' \/ \E k \in DOMAIN calls' : Due(calls[k])'
    BY DEF UpToDate
  <2>1. /\ ~calls[j].heard /\ calls' = RemoveAt(calls, j)
        /\ UNCHANGED <<order, view, shown, receipt, excuse>>
    BY <1>2 DEF Drop, server, page
  <2>2. CASE shown = order
    BY <2>1, <2>2
  <2>3. ASSUME NEW k \in DOMAIN calls, Due(calls[k])
        PROVE  \E m \in DOMAIN calls' : Due(calls[m])'
    <3>1. k # j
      BY <2>1, <2>3 DEF Due
    <3>2. PICK c : c = calls[k]
      OBVIOUS
    <3>3. PICK cs : cs = calls'
      OBVIOUS
    <3>4. \E m \in DOMAIN cs : cs[m] = c
      BY <2>1, <3>1, <3>2, <3>3, RestKeeps DEF PInv
    <3> QED
      BY <2>1, <2>3, <3>2, <3>3, <3>4, DueStays
  <2> QED
    BY <2>1, <2>2, <2>3 DEF UpToDate
<1>3. CASE CutOff(j)
  BY <1>3 DEF CutOff, UpToDate
<1> QED
  BY <1>1, <1>2, <1>3, ServeShows, AnswerShows DEF Resolve

-----------------------------------------------------------------------------
(* A bill is settled, and a receipt shown, as Bill says.                   *)

KeepsBill == [Guest!Next]_(Guest!billVars)

LEMMA BookKeepsBill ==
    ASSUME OInv, PInv, NEW out, Edited(order, out) \/ Voids(order, out) \/ Settles(order, out),
           out.figures # NoFigures => Guest!AddsUp(out.figures),
           Book(out.order, out.figures), UNCHANGED receipt
    PROVE  KeepsBill
<1>1. /\ order' = out.order
      /\ IF out.figures = NoFigures THEN UNCHANGED books ELSE books' = out.figures
  BY DEF Book
<1>2. CASE Edited(order, out)
  BY <1>1, <1>2 DEF Edited, KeepsBill, Guest!billVars
<1>3. CASE Voids(order, out)
  BY <1>1, <1>3 DEF Voids, KeepsBill, Guest!Next, Guest!Void
<1>4. CASE Settles(order, out)
  BY <1>1, <1>4 DEF Settles, KeepsBill, Guest!Next, Guest!Settle, Guest!AddsUp
<1> QED
  BY <1>2, <1>3, <1>4

LEMMA OutcomeAddsUp ==
    ASSUME PInv, NEW r \in Requests \cup [op : {"void"}], Outcome(order, r).figures # NoFigures
    PROVE  Guest!AddsUp(Outcome(order, r).figures)
<1>1. r.op # "get"
  BY DEF Outcome
<1> QED
  BY <1>1, OutcomeWorks, FiguresAddUp DEF PInv

LEMMA PerformKeepsBill ==
    ASSUME OInv, PInv, NEW r \in Requests \cup [op : {"void"}], Perform(r), UNCHANGED receipt
    PROVE  KeepsBill
<1> DEFINE out == Outcome(order, r)
<1>1. r.op \in Ops
  BY DEF Requests, CheckoutRequests, Ops
<1>2. Edited(order, out) \/ Voids(order, out) \/ Settles(order, out)
  BY <1>1, Outcomes DEF OInv
<1>3. Book(out.order, out.figures)
  BY DEF Perform
<1>4. out.figures # NoFigures => Guest!AddsUp(out.figures)
  BY OutcomeAddsUp
<1> HIDE DEF out
<1> QED
  BY <1>2, <1>3, <1>4, BookKeepsBill

LEMMA CutOffKeepsBill ==
    ASSUME OInv, PInv, NEW j \in DOMAIN calls, CutOff(j)
    PROVE  KeepsBill
<1> DEFINE r == calls[j].req
<1>1. r.op \in Ops /\ r \in Requests \cup [op : {"void"}] /\ UNCHANGED receipt
  BY DEF OInv, Truthful, PInv, Good, Sent, Answers, CutOff, page
<1>2. \/ \E ticketed : Book(CutShort(order, r, ticketed), Outcome(order, r).figures)
      \/ UNCHANGED <<order, books>>
  BY DEF CutOff, RecordPayments
<1> HIDE DEF r
<1>3. ASSUME NEW ticketed, Book(CutShort(order, r, ticketed), Outcome(order, r).figures)
      PROVE  KeepsBill
  <2> DEFINE out == Short(order, r, ticketed)
  <2>1. Book(out.order, out.figures) /\ out.figures = Outcome(order, r).figures
    BY <1>3 DEF Short
  <2>2. Edited(order, out) \/ Voids(order, out) \/ Settles(order, out)
    BY <1>1, CutShortLikewise DEF OInv
  <2>3. out.figures # NoFigures => Guest!AddsUp(out.figures)
    BY <1>1, <2>1, OutcomeAddsUp
  <2> HIDE DEF out
  <2> QED
    BY <1>1, <2>1, <2>2, <2>3, BookKeepsBill
<1>4. CASE UNCHANGED <<order, books>>
  BY <1>1, <1>4 DEF KeepsBill, Guest!billVars
<1> QED
  BY <1>2, <1>3, <1>4

\* On the screen a receipt appears as it was booked, or goes.
LEMMA SlipKeepsBill ==
    ASSUME OInv, PInv, UNCHANGED server, receipt' \in {receipt, NoFigures, books}
    PROVE  KeepsBill
<1>1. UNCHANGED <<order, books>>
  BY DEF server
<1>2. CASE receipt' = receipt
  BY <1>1, <1>2 DEF KeepsBill, Guest!billVars
<1>3. CASE receipt' = NoFigures
  BY <1>1, <1>3 DEF KeepsBill, Guest!Next, Guest!PutAway
<1>4. CASE receipt' = books /\ receipt' # receipt /\ receipt' # NoFigures
  <2>1. order.status \in {"paid", "tab"}
    BY <1>4 DEF OInv, PInv, BillRow
  <2>2. receipt = NoFigures
    BY <1>4 DEF OInv
  <2> QED
    BY <1>1, <1>4, <2>1, <2>2 DEF KeepsBill, Guest!Next, Guest!ShowReceipt
<1> QED
  BY <1>2, <1>3, <1>4

LEMMA NextKeepsBill ==
    ASSUME OInv, PInv, [Next]_vars
    PROVE  KeepsBill
<1>1. CASE UNCHANGED vars
  BY <1>1, SlipKeepsBill DEF vars, page
<1>2. CASE Screen
  BY <1>2, ScreenAsks, SlipKeepsBill
<1>3. CASE Elsewhere
  <2>1. UNCHANGED receipt
    BY <1>3 DEF Elsewhere, page
  <2>2. PICK r \in Requests \cup [op : {"void"}] : Perform(r)
    BY <1>3, OthersPerform
  <2> QED
    BY <2>1, <2>2, PerformKeepsBill
<1>4. ASSUME NEW j \in DOMAIN calls, Serve(j) PROVE KeepsBill
  <2>1. Perform(calls[j].req) /\ UNCHANGED receipt
    BY <1>4 DEF Serve, page
  <2>2. calls[j].req \in Requests \cup [op : {"void"}]
    BY DEF PInv, Good, Sent, Answers
  <2> QED
    BY <2>1, <2>2, PerformKeepsBill
<1>5. ASSUME NEW j \in DOMAIN calls, Answer(j) PROVE KeepsBill
  <2>1. UNCHANGED server /\ calls[j].phase = "answered"
        /\ receipt' = IF calls[j].ok /\ calls[j].req.op = "checkout" THEN calls[j].figures ELSE receipt
    BY <1>5 DEF Answer, GoOn, Printed
  <2>2. receipt' \in {receipt, books}
    BY <2>1 DEF OInv, Truthful
  <2> QED
    BY <2>1, <2>2, SlipKeepsBill
<1>6. ASSUME NEW j \in DOMAIN calls, GiveUp(j) \/ Drop(j) PROVE KeepsBill
  <2>1. UNCHANGED <<server, receipt>>
    BY <1>6 DEF GiveUp, Drop, GoOn, page
  <2> QED
    BY <2>1, SlipKeepsBill
<1> QED
  BY <1>1, <1>2, <1>3, <1>4, <1>5, <1>6, CutOffKeepsBill DEF Next, Resolve

-----------------------------------------------------------------------------
(* The theorems.                                                           *)

LEMMA InitFigures == Init => PInv /\ UpToDate
<1> SUFFICES ASSUME Init PROVE PInv /\ UpToDate
  OBVIOUS
<1>1. EmptyBill \in BillRow
  <2>1. <<>> \in LineMaps
    <3>1. {} \in SUBSET Nat /\ IsFiniteSet({})
      BY FS_EmptySet
    <3>2. <<>> \in [{} -> LineRow]
      OBVIOUS
    <3> QED
      BY <3>1, <3>2, LineMapOf
  <2> QED
    BY <2>1 DEF EmptyBill, BillRow
<1>2. ASSUME NEW p \in Products
      PROVE  [EmptyBill EXCEPT !.lines = Put(@, 1, NewLine(p)), !.total = Price[p], !.next = 2]
               \in BillRow
  <2> DEFINE m == Put(EmptyBill.lines, 1, NewLine(p))
             total == Price[p]
  <2>1. NewLine(p) \in LineRow /\ total \in Int
    BY PricesAssumption DEF NewLine, LineRow
  <2>2. m \in LineMaps
    <3>1. EmptyBill.lines \in LineMaps
      BY <1>1 DEF BillRow
    <3>2. DOMAIN EmptyBill.lines \cup {1} \in SUBSET Nat
          /\ IsFiniteSet(DOMAIN EmptyBill.lines \cup {1})
      <4>1. PICK D : D = DOMAIN EmptyBill.lines
        OBVIOUS
      <4>2. D \in SUBSET Nat /\ IsFiniteSet(D)
        BY <3>1, <4>1, LineMapParts
      <4>3. IsFiniteSet(D \cup {1})
        BY <4>2, FS_AddElement
      <4> QED
        BY <4>1, <4>2, <4>3
    <3>3. m \in [DOMAIN EmptyBill.lines \cup {1} -> LineRow]
      BY <2>1, <3>1, LineMapParts DEF Put
    <3> HIDE DEF m
    <3> QED
      BY <3>2, <3>3, LineMapOf
  <2>3. [EmptyBill EXCEPT !.lines = Put(@, 1, NewLine(p)), !.total = Price[p], !.next = 2] =
          Extended(EmptyBill, m, total, 2)
    BY DEF Extended
  <2> HIDE DEF m, total
  <2> QED
    BY <1>1, <2>1, <2>2, <2>3, ExtendWorks
<1>3. order \in BillRow
  BY <1>1, <1>2, PricesAssumption DEF Init, Offered
<1>4. calls = <<Reload>> /\ shown = NoOrder /\ form = EmptyForm /\ dialog = NoDialog
      /\ view = "loading"
  BY DEF Init
<1>5. Reload \in Good /\ Due(Reload)
  <2>1. Reload \in Sent /\ Reload.req.op = "get" /\ Reload.phase = "sent" /\ Reload.heard
    BY DEF Reload, Call, Sent, Requests
  <2> QED
    BY <2>1 DEF Good, CallOK, Due
<1> HIDE DEF Reload
<1>6. calls \in Seq(Good) /\ 1 \in DOMAIN calls /\ Due(calls[1])
  BY <1>4, <1>5
<1>7. EmptyForm \in Forms /\ NoDialog.line \in Nat
  <2>1. [amt |-> 0, ok |-> FALSE] \in Pays
    BY DEF Pays
  <2> QED
    BY <2>1 DEF EmptyForm, Forms, NoDialog
<1> QED
  BY <1>3, <1>4, <1>6, <1>7 DEF PInv, UpToDate

LEMMA NextKeepsFigures ==
    ASSUME OInv, PInv, UpToDate, [Next]_vars
    PROVE  PInv' /\ UpToDate'
<1>1. CASE UNCHANGED vars
  <2>1. UNCHANGED <<order, calls, view, shown, form, dialog, receipt, excuse>>
    BY <1>1 DEF vars, server, wire, page
  <2>2. Good \subseteq Good'
    BY <2>1, SameBill DEF PInv
  <2>3. calls' \in Seq(Good') /\ (shown = NoOrder \/ Copy(shown)')
    BY <2>1, <2>2 DEF PInv, Copy, BillRow
  <2>4. PInv'
    BY <2>1, <2>3 DEF PInv, Forms, Pays, BillRow
  <2>5. UpToDate'
    BY <2>1 DEF UpToDate, Due
  <2> QED
    BY <2>4, <2>5
<1>2. CASE Elsewhere
  <2>1. UpToDate'
    BY <1>2 DEF Elsewhere, UpToDate
  <2> QED
    BY <1>2, <2>1, OthersKeepFigures
<1> QED
  BY <1>1, <1>2, ScreenKeepsFigures, ScreenShows, ResolveKeepsFigures, ResolveShows DEF Next

LEMMA FiguresInvariant == Spec => [](OInv /\ PInv /\ UpToDate)
<1>1. Init => OInv /\ PInv /\ UpToDate
  BY InitKeeps, InitFigures
<1>2. OInv /\ PInv /\ UpToDate /\ [Next]_vars => (OInv /\ PInv /\ UpToDate)'
  BY NextKeeps, NextKeepsFigures
<1> QED
  BY <1>1, <1>2, PTL DEF Spec

\* Whatever is lost, repeated or overtaken on the way, a bill is settled at most once, with
\* figures that add up, and a receipt shows those: the screen, the network and the server
\* together implement Bill.
THEOREM BillKeptAlways == Spec => BillKept
<1>1. Init => Guest!Init
  <2>1. ASSUME Init PROVE order.status = "open" /\ books = NoFigures /\ receipt = NoFigures
    <3>1. EmptyBill.status = "open"
      BY DEF EmptyBill
    <3>2. order.status = "open"
      <4>1. order \in {EmptyBill} \cup
               {[EmptyBill EXCEPT !.lines = Put(@, 1, NewLine(p)), !.total = Price[p], !.next = 2] :
                  p \in Offered}
        BY <2>1 DEF Init
      <4>2. ASSUME NEW p \in Offered,
                   order = [EmptyBill EXCEPT !.lines = Put(@, 1, NewLine(p)), !.total = Price[p],
                                             !.next = 2]
            PROVE  order.status = "open"
        BY <4>2 DEF EmptyBill
      <4> QED
        BY <3>1, <4>1, <4>2
    <3> QED
      BY <2>1, <3>2 DEF Init
  <2> QED
    BY <2>1 DEF Guest!Init
<1>2. OInv /\ PInv /\ [Next]_vars => KeepsBill
  BY NextKeepsBill
<1> QED
  BY <1>1, <1>2, FiguresInvariant, PTL DEF Spec, BillKept, Guest!Spec, KeepsBill

\* When nothing is under way the screen shows the bill as the server has it, but for what
\* the excuses name (the reloads of the handlers, PosOrderPage.tsx:74-194).
THEOREM QuietPageIsFreshAlways == Spec => []QuietPageIsFresh
<1>1. PInv /\ UpToDate => QuietPageIsFresh
  BY DEF UpToDate, QuietPageIsFresh
<1> QED
  BY <1>1, FiguresInvariant, PTL

\* The server takes every checkout that the screen enabled on the bill as it is
\* (canComplete, PosOrderPage.tsx:95).
THEOREM FreshCheckoutIsAcceptedAlways == Spec => []FreshCheckoutIsAccepted
<1>1. PInv => FreshCheckoutIsAccepted
  BY DEF PInv, Good, CallOK, Expected, FreshCheckoutIsAccepted
<1> QED
  BY <1>1, FiguresInvariant, PTL

\* The change the cashier was told to give is the change that is booked
\* (changeDue, PosOrderPage.tsx:93).
THEOREM ShownChangeIsGivenAlways == Spec => []ShownChangeIsGiven
<1>1. PInv => ShownChangeIsGiven
  BY DEF PInv, Good, CallOK, Expected, ShownChangeIsGiven
<1> QED
  BY <1>1, FiguresInvariant, PTL

=============================================================================

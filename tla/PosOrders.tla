------------------------------ MODULE PosOrders ------------------------------
(***************************************************************************)
(* The point-of-sale service of Smeazy POS (crates/smeazy-pos): orders,    *)
(* their lines, the kitchen tickets they produce, payments, tabs and the   *)
(* books written at checkout.                                              *)
(*                                                                         *)
(* The service runs every HTTP request as a task of its own over a pool    *)
(* of SQLite connections and opens no transaction: each SQL statement      *)
(* commits alone, so other requests run between any two statements of a    *)
(* handler, and a handler whose client disconnects, whose process dies or  *)
(* whose statement fails leaves the statements it had already executed.    *)
(* A worker of this module is one such request in flight; a step of a      *)
(* worker is one statement; Interrupt drops it between two of them.        *)
(* A request the code rejects changes nothing and is no step at all.       *)
(***************************************************************************)
EXTENDS Integers, FiniteSets, Sums

CONSTANTS
    Orders, Lines, Tickets,   \* primary keys the tables may come to hold
    Items, Rooms,             \* inventory items; the Accommodation ones
    Customers,
    Workers,                  \* how many requests may be in flight at once
    Ops,                      \* the kinds of request the clients send
    Prices, Quantities, Discounts, Payments,   \* amounts the requests carry
    Statuses,                 \* what clients write into a line's status by hand
    Cost,                     \* cost_price of every inventory item
    MaxTotal,                 \* bound: no request for a bill that drifted further
    MaxPaid,                  \* bound: no request for a bill with more money in
    Interruptions,            \* may a request stop between two statements?
    StaleScreens,             \* may a screen act on a bill closed meanwhile?
    OneEditorPerLine          \* do clients never edit one line concurrently?

OpNames == {"create", "add", "remove", "quantity", "lineDiscount", "discount",
            "status", "send", "attach", "void", "checkout", "payTab"}

ASSUME OpsAssumption == Ops \subseteq OpNames
ASSUME ItemsAssumption == Rooms \subseteq Items /\ Cost \in [Items -> Nat]
ASSUME StatusesAssumption ==
    Statuses \subseteq {"new", "processing", "dispatched", "paid", "other"}
ASSUME AmountsAssumption ==
    /\ Prices \subseteq Nat
    /\ Quantities \subseteq Int
    /\ Discounts \subseteq Int
    /\ Payments \subseteq Nat
    /\ MaxTotal \in Nat
    /\ MaxPaid \in Nat
ASSUME SwitchesAssumption ==
    {Interruptions, StaleScreens, OneEditorPerLine} \subseteq BOOLEAN

\* NULLs.
NoOrder    == "no order"
NoLine     == "no line"
NoTicket   == "no ticket"
NoItem     == "no item"
NoCustomer == "no customer"

ASSUME NullsAssumption ==
    /\ NoOrder \notin Orders /\ NoLine \notin Lines
    /\ NoItem \notin Items /\ NoCustomer \notin Customers

VARIABLES
    orders,    \* pos_orders
    lines,     \* pos_order_items
    tickets,   \* kitchen_orders with their kitchen_order_items
    rooms,     \* accommodation_rooms
    paid,      \* payment_records: the sum recorded for each order
    sold,      \* inventory_movements of type 'sale': units booked for each line
    ledger,    \* wallet_ledger: the sum credited for each order
    job        \* what each worker is doing, with the local variables it holds

vars == <<orders, lines, tickets, rooms, paid, sold, ledger, job>>

-----------------------------------------------------------------------------
\* The tables.

OrderRow ==
    [status: {"none", "open", "tab", "paid", "voided", "merged"},
     total: Int, discount: Int, balance: Nat,
     customer: Customers \cup {NoCustomer}]

LineRow ==
    [status: {"none", "new", "processing", "dispatched", "paid", "other", "deleted"},
     order: Orders \cup {NoOrder}, item: Items \cup {NoItem},
     qty: Int, price: Nat, discount: Int]

TicketRow ==
    [status: {"none", "pending", "in_progress", "completed"},
     order: Orders \cup {NoOrder},
     items: [Lines -> {"none", "new", "processing", "dispatched"}]]

RoomRow == [status: {"ready", "occupied", "readying"},
            order: Orders \cup {NoOrder}]

NoRow == [status |-> "none", order |-> NoOrder, item |-> NoItem,
          qty |-> 0, price |-> 0, discount |-> 0]

Steps == {"idle", "insertLine", "bumpTotal", "checkIn",
          "deleteLine", "readOrder", "rereadLine", "setQuantity",
          "readLine", "setDiscount",
          "insertTicket", "insertTicketItems", "markProcessing", "revertRooms",
          "readCosts", "addCosts", "insertPayments", "markPaid",
          "completeTickets", "readSold", "deductStock"}

(***************************************************************************)
(* A request: the step it is at, what it was asked for, and what it read.  *)
(*   row    the line to insert, or the line as this request read it        *)
(*   ask    the quantity or the discount asked for                         *)
(*   delta  what bumpTotal will add to total_amount                        *)
(*   owed   what the payments are held against: the bill, or the balance   *)
(*   mayOwe the client allows a tab, and the order read has a customer     *)
(*   paying how much of the payments is not yet recorded                   *)
(*   paid   all the payments of this request                               *)
(*   units  the lines read for a loop, and the quantity (or cost) of each  *)
(***************************************************************************)
Job ==
    [step: Steps, op: OpNames \cup {"none"},
     order: Orders \cup {NoOrder}, line: Lines \cup {NoLine},
     ticket: Tickets \cup {NoTicket},
     row: LineRow, ask: Int, delta: Int,
     owed: Int, mayOwe: BOOLEAN, paying: Nat, paid: Nat, units: [Lines -> Int]]

NoUnits == [l \in Lines |-> 0]

NoJob == [step |-> "idle", op |-> "none", order |-> NoOrder, line |-> NoLine,
          ticket |-> NoTicket, row |-> NoRow, ask |-> 0, delta |-> 0,
          owed |-> 0, mayOwe |-> FALSE, paying |-> 0, paid |-> 0, units |-> NoUnits]

TypeOK ==
    /\ orders  \in [Orders -> OrderRow]
    /\ lines   \in [Lines -> LineRow]
    /\ tickets \in [Tickets -> TicketRow]
    /\ rooms   \in [Rooms -> RoomRow]
    /\ paid    \in [Orders -> Nat]
    /\ sold    \in [Lines -> Int]
    /\ ledger  \in [Orders -> Int]
    /\ job     \in [Workers -> Job]

Init ==
    /\ orders  = [o \in Orders |-> [status |-> "none", total |-> 0, discount |-> 0,
                                    balance |-> 0, customer |-> NoCustomer]]
    /\ lines   = [l \in Lines |-> NoRow]
    /\ tickets = [t \in Tickets |-> [status |-> "none", order |-> NoOrder,
                                     items |-> [l \in Lines |-> "none"]]]
    /\ rooms   = [r \in Rooms |-> [status |-> "ready", order |-> NoOrder]]
    /\ paid    = [o \in Orders |-> 0]
    /\ sold    = [l \in Lines |-> 0]
    /\ ledger  = [o \in Orders |-> 0]
    /\ job     = [w \in Workers |-> NoJob]

-----------------------------------------------------------------------------
\* Rows and requests.

Exists(l)    == lines[l].status \notin {"none", "deleted"}
LinesOf(o)   == {l \in Lines : Exists(l) /\ lines[l].order = o}
OnTicket(l)  == \E t \in Tickets : tickets[t].items[l] # "none"
ListTotal(r) == r.price * r.qty
LineTotal(r) == ListTotal(r) - r.discount
BillOf(o)    == SumOver([l \in Lines |-> LineTotal(lines[l])], LinesOf(o))
AtMost(a, b) == IF a < b THEN a ELSE b
AtLeast(a, b) == IF a > b THEN a ELSE b

\* Mutant: every line counts for one.
OneUnitEach(S) == [l \in Lines |-> IF l \in S THEN 1 ELSE 0]

\* The quantities of a set of lines, as a SELECT returns them.
UnitsOf(S) == [l \in Lines |-> IF l \in S THEN lines[l].qty ELSE 0]

At(w, step) == job[w].step = step
Goto(w, step) == job' = [job EXCEPT ![w].step = step]
Done(w) == job' = [job EXCEPT ![w] = NoJob]
Begin(op, step, o) ==
    [NoJob EXCEPT !.op = op, !.step = step, !.order = o]

\* A free worker takes a request of this kind for order o.
Takes(w, op, o) ==
    /\ op \in Ops
    /\ At(w, "idle")
    /\ orders[o].status # "none"
    /\ StaleScreens \/ op = "payTab" \/ orders[o].status = "open"
    /\ orders[o].total <= MaxTotal /\ orders[o].total >= -MaxTotal
    /\ paid[o] <= MaxPaid

TakesLine(w, op, o, l) ==
    /\ Takes(w, op, o)
    /\ l \in LinesOf(o)
    /\ OneEditorPerLine => \A v \in Workers : job[v].line # l

\* The request stops here: the client hung up, the server died, a statement failed.
Interrupt(w) ==
    /\ Interruptions
    /\ ~At(w, "idle")
    /\ Done(w)
    /\ UNCHANGED <<orders, lines, tickets, rooms, paid, sold, ledger>>

-----------------------------------------------------------------------------
\* Opening a bill, and the handlers that are one statement.

CreateOrder(w, o) ==
    /\ "create" \in Ops /\ At(w, "idle")
    /\ orders[o].status = "none"
    /\ orders' = [orders EXCEPT ![o].status = "open"]
    /\ UNCHANGED <<lines, tickets, rooms, paid, sold, ledger, job>>

ApplyDiscount(w, o) ==
    /\ Takes(w, "discount", o)
    /\ \E d \in Discounts : orders' = [orders EXCEPT ![o].discount = d]
    /\ UNCHANGED <<lines, tickets, rooms, paid, sold, ledger, job>>

AttachCustomer(w, o) ==
    /\ Takes(w, "attach", o)
    /\ \E c \in Customers : orders' = [orders EXCEPT ![o].customer = c]
    /\ UNCHANGED <<lines, tickets, rooms, paid, sold, ledger, job>>

\* Writes whatever text the request holds, on a bill in any state: "other" is every
\* text that no statement of the code compares a status with.
UpdateItemStatus(w, o, l) ==
    /\ TakesLine(w, "status", o, l)
    /\ \E s \in Statuses : lines' = [lines EXCEPT ![l].status = s]
    /\ UNCHANGED <<orders, tickets, rooms, paid, sold, ledger, job>>

-----------------------------------------------------------------------------
\* The statement most editing handlers end with:
\* UPDATE pos_orders SET total_amount = total_amount + delta.

BumpTotal(w) ==
    /\ At(w, "bumpTotal")
    /\ orders' = [orders EXCEPT ![job[w].order].total = @ + job[w].delta]
    /\ IF job[w].op = "add" /\ job[w].row.item \in Rooms
         THEN Goto(w, "checkIn")
         ELSE Done(w)
    /\ UNCHANGED <<lines, tickets, rooms, paid, sold, ledger>>

\* add_item

AddItem(w, o, l) ==
    /\ Takes(w, "add", o)
    /\ orders[o].status = "open"
    /\ lines[l].status = "none"
    /\ \A v \in Workers : job[v].op = "add" => job[v].line # l
    /\ \E i \in Items \cup {NoItem}, q \in Quantities, p \in Prices :
          /\ q > 0     \* the product grid adds one at a time
          /\ job' = [job EXCEPT ![w] =
               [Begin("add", "insertLine", o) EXCEPT
                  !.line = l, !.delta = p * q,
                  !.row = [status |-> "new", order |-> o, item |-> i,
                           qty |-> q, price |-> p, discount |-> 0]]]
    /\ UNCHANGED <<orders, lines, tickets, rooms, paid, sold, ledger>>

InsertLine(w) ==
    /\ At(w, "insertLine")
    /\ lines' = [lines EXCEPT ![job[w].line] = job[w].row]
    /\ Goto(w, "bumpTotal")
    /\ UNCHANGED <<orders, tickets, rooms, paid, sold, ledger>>

\* mark_occupied_if_room; the caller ignores its errors.
CheckIn(w) ==
    /\ At(w, "checkIn")
    /\ rooms' = [rooms EXCEPT ![job[w].row.item] =
                   [status |-> "occupied", order |-> job[w].order]]
    /\ Done(w)
    /\ UNCHANGED <<orders, lines, tickets, paid, sold, ledger>>

-----------------------------------------------------------------------------
\* remove_item: asked for by the client, or by update_item_quantity with
\* a quantity of zero, which reads the line once more.

\* Mutant: the removed line's discount is forgotten.
RemoveUndiscounted(w, j, l) ==
    job' = [job EXCEPT ![w] =
              [j EXCEPT !.step = "deleteLine", !.line = l, !.row = lines[l],
                        !.delta = -ListTotal(lines[l])]]

ReadToRemove(w, j, l) ==
    job' = [job EXCEPT ![w] =
              [j EXCEPT !.step = "deleteLine", !.line = l, !.row = lines[l],
                        !.delta = -LineTotal(lines[l])]]

RemoveItem(w, o, l) ==
    /\ TakesLine(w, "remove", o, l)
    /\ ReadToRemove(w, Begin("remove", "deleteLine", o), l)
    /\ UNCHANGED <<orders, lines, tickets, rooms, paid, sold, ledger>>

RereadLine(w) ==
    /\ At(w, "rereadLine")
    /\ IF job[w].line \in LinesOf(job[w].order)
         THEN ReadToRemove(w, job[w], job[w].line)
         ELSE Done(w)
    /\ UNCHANGED <<orders, lines, tickets, rooms, paid, sold, ledger>>

\* The DELETE succeeds when the row is already gone, and fails on the foreign
\* key when the line is on a kitchen ticket.
DeleteLine(w) ==
    /\ At(w, "deleteLine")
    /\ IF OnTicket(job[w].line)
         THEN Done(w) /\ UNCHANGED lines
         ELSE /\ lines' = [lines EXCEPT ![job[w].line] =
                             [NoRow EXCEPT !.status = "deleted"]]
              /\ Goto(w, "bumpTotal")
    /\ UNCHANGED <<orders, tickets, rooms, paid, sold, ledger>>

-----------------------------------------------------------------------------
\* update_item_quantity

UpdateItemQuantity(w, o, l) ==
    /\ TakesLine(w, "quantity", o, l)
    /\ \E q \in Quantities :
          job' = [job EXCEPT ![w] =
                    [Begin("quantity", "readOrder", o) EXCEPT
                       !.line = l, !.row = lines[l], !.ask = q]]
    /\ UNCHANGED <<orders, lines, tickets, rooms, paid, sold, ledger>>

ReadOrder(w) ==
    /\ At(w, "readOrder")
    /\ IF orders[job[w].order].status # "open" THEN Done(w)
       ELSE IF job[w].ask <= 0 THEN Goto(w, "rereadLine")
       ELSE job' = [job EXCEPT ![w].step = "setQuantity",
                      ![w].delta = LineTotal([job[w].row EXCEPT !.qty = job[w].ask])
                                   - LineTotal(job[w].row)]
    /\ UNCHANGED <<orders, lines, tickets, rooms, paid, sold, ledger>>

\* An UPDATE of a row that is gone matches nothing and reports no error.
SetQuantity(w) ==
    /\ At(w, "setQuantity")
    /\ lines' = [lines EXCEPT ![job[w].line].qty =
                   IF Exists(job[w].line) THEN job[w].ask ELSE @]
    /\ Goto(w, "bumpTotal")
    /\ UNCHANGED <<orders, tickets, rooms, paid, sold, ledger>>

\* set_item_discount

SetItemDiscount(w, o, l) ==
    /\ TakesLine(w, "lineDiscount", o, l)
    /\ orders[o].status = "open"
    /\ \E d \in Discounts :
          job' = [job EXCEPT ![w] =
                    [Begin("lineDiscount", "readLine", o) EXCEPT
                       !.line = l, !.ask = d]]
    /\ UNCHANGED <<orders, lines, tickets, rooms, paid, sold, ledger>>

\* The amount asked for, clamped to what the line costs before discount.
Clamped(d, row) == AtMost(AtLeast(d, 0), ListTotal(row))

ReadLine(w) ==
    /\ At(w, "readLine")
    /\ LET row == lines[job[w].line] IN
       IF job[w].line \notin LinesOf(job[w].order) THEN Done(w)
       ELSE job' = [job EXCEPT ![w].step = "setDiscount", ![w].row = row,
                      ![w].ask = Clamped(@, row),
                      ![w].delta = row.discount - Clamped(job[w].ask, row)]
    /\ UNCHANGED <<orders, lines, tickets, rooms, paid, sold, ledger>>

SetDiscount(w) ==
    /\ At(w, "setDiscount")
    /\ lines' = [lines EXCEPT ![job[w].line].discount =
                   IF Exists(job[w].line) THEN job[w].ask ELSE @]
    /\ Goto(w, "bumpTotal")
    /\ UNCHANGED <<orders, tickets, rooms, paid, sold, ledger>>

-----------------------------------------------------------------------------
\* send_to_kitchen

SendToKitchen(w, o, t) ==
    /\ Takes(w, "send", o)
    /\ tickets[t].status = "none"
    /\ \A v \in Workers : job[v].ticket # t
    /\ job' = [job EXCEPT ![w] =
                 [Begin("send", "insertTicket", o) EXCEPT
                    !.ticket = t,
                    !.units = UnitsOf({l \in LinesOf(o) : lines[l].status = "new"})]]
    /\ UNCHANGED <<orders, lines, tickets, rooms, paid, sold, ledger>>

InsertTicket(w) ==
    /\ At(w, "insertTicket")
    /\ tickets' = [tickets EXCEPT ![job[w].ticket].status = "pending",
                                  ![job[w].ticket].order = job[w].order]
    /\ Goto(w, "insertTicketItems")
    /\ UNCHANGED <<orders, lines, rooms, paid, sold, ledger>>

\* One INSERT per line read; it fails on the foreign key if the line is gone.
InsertTicketItem(w, l) ==
    /\ At(w, "insertTicketItems")
    /\ job[w].units[l] # 0
    /\ IF Exists(l)
         THEN /\ tickets' = [tickets EXCEPT ![job[w].ticket].items[l] = "new"]
              /\ job' = [job EXCEPT ![w].units[l] = 0]
         ELSE Done(w) /\ UNCHANGED tickets
    /\ UNCHANGED <<orders, lines, rooms, paid, sold, ledger>>

\* UPDATE ... WHERE order_id = ? AND status = 'new': every such line, read or not.
MarkProcessing(w) ==
    /\ At(w, "insertTicketItems")
    /\ job[w].units = NoUnits
    /\ lines' = [l \in Lines |->
                   IF l \in LinesOf(job[w].order) /\ lines[l].status = "new"
                     THEN [lines[l] EXCEPT !.status = "processing"]
                     ELSE lines[l]]
    /\ Done(w)
    /\ UNCHANGED <<orders, tickets, rooms, paid, sold, ledger>>

-----------------------------------------------------------------------------
\* void_order: a conditional UPDATE, then revert_rooms_for_voided_order.

\* Mutant: the UPDATE without AND status = 'open'.
VoidAnything(w, o) ==
    /\ Takes(w, "void", o)
    /\ orders' = [orders EXCEPT ![o].status = "voided"]
    /\ job' = [job EXCEPT ![w] = Begin("void", "revertRooms", o)]
    /\ UNCHANGED <<lines, tickets, rooms, paid, sold, ledger>>

VoidOrder(w, o) ==
    /\ Takes(w, "void", o)
    /\ orders[o].status = "open"
    /\ orders' = [orders EXCEPT ![o].status = "voided"]
    /\ job' = [job EXCEPT ![w] = Begin("void", "revertRooms", o)]
    /\ UNCHANGED <<lines, tickets, rooms, paid, sold, ledger>>

RevertRooms(w) ==
    /\ At(w, "revertRooms")
    /\ rooms' = [r \in Rooms |->
                   IF rooms[r].order = job[w].order
                     THEN [status |-> "ready", order |-> NoOrder] ELSE rooms[r]]
    /\ Done(w)
    /\ UNCHANGED <<orders, lines, tickets, paid, sold, ledger>>

-----------------------------------------------------------------------------
\* checkout

\* A shortfall is refused unless a tab was allowed and has someone to owe it.
Accepts(owed, payment, mayOwe) == payment < owed => mayOwe

CheckoutJob(o, step, owed, payment, mayOwe) ==
    [Begin("checkout", step, o) EXCEPT
       !.owed = owed, !.mayOwe = mayOwe, !.paying = payment, !.paid = payment]

\* The order is read once, here; its status, total and customer are not read again.
Checkout(w, o) ==
    /\ Takes(w, "checkout", o)
    /\ orders[o].status = "open"
    /\ \E p \in Payments, mayOwe \in BOOLEAN :
         /\ mayOwe => orders[o].customer # NoCustomer
         /\ \/ \E d \in Discounts :
                 LET owed == orders[o].total - orders[o].discount - d IN
                 /\ Accepts(owed, p, mayOwe)
                 /\ job' = [job EXCEPT ![w] =
                              CheckoutJob(o, "insertPayments", owed, p, mayOwe)]
            \/ \* directors_promo: free of charge
               job' = [job EXCEPT ![w] = CheckoutJob(o, "insertPayments", 0, p, mayOwe)]
            \/ \* directors_discount: at cost price
               job' = [job EXCEPT ![w] = CheckoutJob(o, "readCosts", 0, p, mayOwe)]
    /\ UNCHANGED <<orders, lines, tickets, rooms, paid, sold, ledger>>

\* The cost of a line: its list price when no inventory item is linked.
LineCost(r) == r.qty * (IF r.item = NoItem THEN r.price ELSE Cost[r.item])

ReadCosts(w) ==
    /\ At(w, "readCosts")
    /\ job' = [job EXCEPT ![w].step = "addCosts",
                 ![w].units = [l \in Lines |-> IF l \in LinesOf(job[w].order)
                                                 THEN LineCost(lines[l]) ELSE 0]]
    /\ UNCHANGED <<orders, lines, tickets, rooms, paid, sold, ledger>>

AddCost(w, l) ==
    /\ At(w, "addCosts")
    /\ job[w].units[l] # 0
    /\ job' = [job EXCEPT ![w].owed = @ + job[w].units[l], ![w].units[l] = 0]
    /\ UNCHANGED <<orders, lines, tickets, rooms, paid, sold, ledger>>

CheckCost(w) ==
    /\ At(w, "addCosts")
    /\ job[w].units = NoUnits
    /\ IF Accepts(job[w].owed, job[w].paid, job[w].mayOwe)
         THEN Goto(w, "insertPayments") ELSE Done(w)
    /\ UNCHANGED <<orders, lines, tickets, rooms, paid, sold, ledger>>

\* One payment of the split: the payments of a request are any way to cut the
\* amount handed over into positive parts.
InsertPayment(w) ==
    /\ At(w, "insertPayments")
    /\ \E a \in 1..job[w].paying :
          /\ paid' = [paid EXCEPT ![job[w].order] = @ + a]
          /\ job' = [job EXCEPT ![w].paying = @ - a]
    /\ UNCHANGED <<orders, lines, tickets, rooms, sold, ledger>>

\* Mutant: no max(0).
BalanceUnclamped(j) == j.owed - j.paid
\* Mutant: the subtraction the wrong way round.
BalanceReversed(j) == AtLeast(j.paid - j.owed, 0)

Balance(j) == AtLeast(j.owed - j.paid, 0)

\* Mutant: a bill with a debt stays open.
TabLeftOpen(j) == IF Balance(j) > 0 THEN "open" ELSE "paid"

ClosingStatus(j) == IF Balance(j) > 0 THEN "tab" ELSE "paid"

\* Mutant: the UPDATE with AND status = 'open'.
CloseIfOpen(w) ==
    /\ At(w, "insertPayments") /\ job[w].op = "checkout" /\ job[w].paying = 0
    /\ orders' = IF orders[job[w].order].status # "open" THEN orders
                 ELSE [orders EXCEPT ![job[w].order].status = ClosingStatus(job[w]),
                                     ![job[w].order].total = job[w].owed,
                                     ![job[w].order].balance = Balance(job[w])]
    /\ Goto(w, "markPaid")
    /\ UNCHANGED <<lines, tickets, rooms, paid, sold, ledger>>

\* The UPDATE that closes the bill names the order by id alone.
CloseOrder(w) ==
    /\ At(w, "insertPayments") /\ job[w].op = "checkout" /\ job[w].paying = 0
    /\ orders' = [orders EXCEPT ![job[w].order].status = ClosingStatus(job[w]),
                                ![job[w].order].total = job[w].owed,
                                ![job[w].order].balance = Balance(job[w])]
    /\ Goto(w, "markPaid")
    /\ UNCHANGED <<lines, tickets, rooms, paid, sold, ledger>>

MarkPaid(w) ==
    /\ At(w, "markPaid")
    /\ lines' = [l \in Lines |->
                   IF l \in LinesOf(job[w].order)
                     THEN [lines[l] EXCEPT !.status = "paid"] ELSE lines[l]]
    /\ Goto(w, "completeTickets")
    /\ UNCHANGED <<orders, tickets, rooms, paid, sold, ledger>>

CompleteTickets(w) ==
    /\ At(w, "completeTickets")
    /\ tickets' = [t \in Tickets |->
                     IF tickets[t].order = job[w].order
                       THEN [tickets[t] EXCEPT !.status = "completed"]
                       ELSE tickets[t]]
    /\ Goto(w, "readSold")
    /\ UNCHANGED <<orders, lines, rooms, paid, sold, ledger>>

ReadSold(w) ==
    /\ At(w, "readSold")
    /\ job' = [job EXCEPT ![w].step = "deductStock",
                 ![w].units = UnitsOf({l \in LinesOf(job[w].order) :
                                         lines[l].item # NoItem})]
    /\ UNCHANGED <<orders, lines, tickets, rooms, paid, sold, ledger>>

\* deduct_stock_on_sale for one line; the loop ignores its errors.
DeductStock(w, l) ==
    /\ At(w, "deductStock")
    /\ job[w].units[l] # 0
    /\ \/ sold' = [sold EXCEPT ![l] = @ + job[w].units[l]]
       \/ Interruptions /\ UNCHANGED sold
    /\ job' = [job EXCEPT ![w].units[l] = 0]
    /\ UNCHANGED <<orders, lines, tickets, rooms, paid, ledger>>

CreditLedger(w) ==
    /\ At(w, "deductStock")
    /\ job[w].units = NoUnits
    /\ ledger' = [ledger EXCEPT ![job[w].order] = @ + job[w].owed]
    /\ Done(w)
    /\ UNCHANGED <<orders, lines, tickets, rooms, paid, sold>>

-----------------------------------------------------------------------------
\* pay_tab

PayTab(w, o) ==
    /\ Takes(w, "payTab", o)
    /\ orders[o].status = "tab"
    /\ \E p \in Payments \ {0} :
          job' = [job EXCEPT ![w] =
                    [Begin("payTab", "insertPayments", o) EXCEPT
                       !.owed = orders[o].balance, !.paying = p, !.paid = p]]
    /\ UNCHANGED <<orders, lines, tickets, rooms, paid, sold, ledger>>

\* The balance written is the one read before the payments, less the payments.
CloseTab(w) ==
    /\ At(w, "insertPayments") /\ job[w].op = "payTab" /\ job[w].paying = 0
    /\ orders' = [orders EXCEPT ![job[w].order].status = ClosingStatus(job[w]),
                                ![job[w].order].balance = Balance(job[w])]
    /\ Done(w)
    /\ UNCHANGED <<lines, tickets, rooms, paid, sold, ledger>>

-----------------------------------------------------------------------------

\* A request arrives and takes its first step.
Arrive(w) ==
    \E o \in Orders :
       \/ CreateOrder(w, o)
       \/ ApplyDiscount(w, o)
       \/ AttachCustomer(w, o)
       \/ VoidOrder(w, o)
       \/ Checkout(w, o)
       \/ PayTab(w, o)
       \/ \E t \in Tickets : SendToKitchen(w, o, t)
       \/ \E l \in Lines :
             \/ AddItem(w, o, l)
             \/ RemoveItem(w, o, l)
             \/ UpdateItemQuantity(w, o, l)
             \/ SetItemDiscount(w, o, l)
             \/ UpdateItemStatus(w, o, l)

\* The next statement of the request in flight.
Continue(w) ==
    \/ BumpTotal(w) \/ InsertLine(w) \/ CheckIn(w)
    \/ RereadLine(w) \/ DeleteLine(w)
    \/ ReadOrder(w) \/ SetQuantity(w)
    \/ ReadLine(w) \/ SetDiscount(w)
    \/ InsertTicket(w) \/ MarkProcessing(w)
    \/ RevertRooms(w)
    \/ ReadCosts(w) \/ CheckCost(w)
    \/ InsertPayment(w) \/ CloseOrder(w) \/ CloseTab(w)
    \/ MarkPaid(w) \/ CompleteTickets(w) \/ ReadSold(w) \/ CreditLedger(w)
    \/ \E l \in Lines :
          InsertTicketItem(w, l) \/ AddCost(w, l) \/ DeductStock(w, l)

Next == \E w \in Workers : Arrive(w) \/ Continue(w) \/ Interrupt(w)

Spec == Init /\ [][Next]_vars

\* Tokio polls every ready task and SQLite answers every statement, so a request
\* that is not interrupted reaches its next statement. Clients owe us nothing.
FairSpec == Spec /\ \A w \in Workers : WF_vars(Continue(w))

-----------------------------------------------------------------------------
\* Correctness.

Closed(o) == orders[o].status \in {"tab", "paid"}
Quiet(o)  == \A w \in Workers : job[w].order # o

\* An open bill that nobody is editing shows the sum of its lines: total_amount
\* is a running figure that five handlers bump by what they believe they changed.
BillInStep ==
    \A o \in Orders : orders[o].status = "open" /\ Quiet(o) =>
        orders[o].total = BillOf(o)

\* Money is owed on an order exactly when it is a tab, and then a customer owes it:
\* the customer's balance sums the tabs only, so any other debt would never be seen.
DebtIsVisible ==
    \A o \in Orders :
        /\ orders[o].balance > 0 <=> orders[o].status = "tab"
        /\ orders[o].status = "tab" => orders[o].customer # NoCustomer

\* Stock taken, revenue credited and 'completed' tickets are what a sale books: however
\* requests of the point of sale interleave, only a closed bill ever has any of it,
\* never one that was voided meanwhile. (The 'paid' of a line is no such mark: a client
\* may write it. A merge of tables that overtakes a checkout is outside: see PosFloor.)
BookedMeansClosed ==
    /\ \A o \in Orders : ledger[o] # 0 => Closed(o)
    /\ \A l \in Lines : Exists(l) /\ sold[l] # 0 => Closed(lines[l].order)
    /\ \A t \in Tickets : tickets[t].status = "completed" => Closed(tickets[t].order)

\* What a handler read before its last statements is still true when it runs them,
\* whoever ran in between: a bill about to be closed with a debt has a customer, a
\* bill whose sale is being booked stays closed, and a line it is about to insert or
\* to take from stock is still the one it read.
Booking == {"markPaid", "completeTickets", "readSold", "deductStock"}

ReadsHold(j) ==
    /\ j.order \in Orders
    /\ j.mayOwe => orders[j.order].customer # NoCustomer
    /\ j.step = "insertPayments" /\ Balance(j) > 0 =>
          orders[j.order].customer # NoCustomer
    /\ j.step \in Booking => Closed(j.order)
    /\ j.step = "insertLine" =>
          /\ j.op = "add" /\ j.line \in Lines /\ j.row.status = "new"
          /\ j.row.order = j.order
          /\ lines[j.line].status = "none"
    /\ j.step = "deleteLine" => j.line \in Lines /\ lines[j.line].status # "none"
    /\ j.step = "deductStock" =>
          \A l \in Lines : j.units[l] # 0 =>
             /\ lines[l].status # "none"
             /\ Exists(l) => lines[l].order = j.order

ReadsStayTrue ==
    \A w \in Workers : ~At(w, "idle") =>
        /\ ReadsHold(job[w])
        /\ \A v \in Workers \ {w} :
              At(v, "insertLine") /\ At(w, "insertLine") => job[v].line # job[w].line

\* What was paid and what is still owed cover the bill, also after requests that
\* stopped half way and were sent again.
NeverUndercollected ==
    \A o \in Orders : Closed(o) => paid[o] + orders[o].balance >= orders[o].total

\* A checkout leaves the books agreeing with the bill: the revenue credited is the
\* total, the balance is what no payment covers, every line is 'paid', every linked
\* one left stock, every ticket is done.
BooksMatchBill ==
    \A o \in Orders : Quiet(o) /\ Closed(o) =>
        /\ ledger[o] = orders[o].total
        /\ orders[o].balance = AtLeast(orders[o].total - paid[o], 0)
        /\ \A l \in LinesOf(o) :
              /\ lines[l].status = "paid"
              /\ lines[l].item # NoItem => sold[l] = lines[l].qty
        /\ \A t \in Tickets : tickets[t].order = o => tickets[t].status = "completed"

\* However often requests stop and are sent again, no sale is booked twice.
NoSaleBookedTwice ==
    \A o \in Orders :
        /\ ledger[o] \in {0, orders[o].total}
        /\ \A l \in LinesOf(o) : sold[l] \in {0, lines[l].qty}

\* Once a payment is recorded for a bill, the bill gets closed: no customer has paid
\* for an order that stays open (or voided).
MoneyClosesBill ==
    \A o \in Orders : paid[o] > 0 ~> Closed(o)

=============================================================================

------------------------------- MODULE PosFloor -------------------------------
(***************************************************************************)
(* The floor plan (crates/smeazy-tables) over the bills of the point of    *)
(* sale: opening a table, transferring one to another, and merging two     *)
(* into one bill, interleaved with the requests of PosOrders. A merge is   *)
(* six statements that move lines and money between two open bills.        *)
(***************************************************************************)
EXTENDS PosOrders

CONSTANTS
    Tables,
    Hosts,           \* how many requests to merge may be in flight at once
    OneAtATime,      \* does no request start before the last one ended?
    MergeWithSelf    \* may a client merge a table with itself?

ASSUME FloorAssumption == {OneAtATime, MergeWithSelf} \subseteq BOOLEAN

VARIABLES
    seat,    \* pos_orders.table_id
    host,    \* what each request to merge is doing
    torn     \* history: the bills a request that was cut off was working on

fVars == <<vars, seat, host, torn>>

NoTable == "no table"

NoHostJob == [step |-> "idle", from |-> NoOrder, to |-> NoOrder,
              table |-> NoTable, sum |-> 0]

FInit ==
    /\ Init
    /\ seat = [o \in Orders |-> NoTable]
    /\ host = [h \in Hosts |-> NoHostJob]
    /\ torn = {}

-----------------------------------------------------------------------------

OpenAt(b) == {o \in Orders : orders[o].status = "open" /\ seat[o] = b}

Resting == /\ \A w \in Workers : At(w, "idle")
           /\ \A h \in Hosts : host[h].step = "idle"

\* A new bill is opened at a table; the page offers the ones without a bill.
Seat ==
    \E b \in Tables :
       seat' = [o \in Orders |-> IF orders[o].status = "none" /\ orders'[o].status # "none"
                                   THEN b ELSE seat[o]]

\* transfer_table: one UPDATE of every open order of the first table. The page offers
\* the tables it believes available.
TransferTable(a, b) ==
    /\ OpenAt(a) # {}
    /\ a # b
    /\ seat' = [o \in Orders |-> IF o \in OpenAt(a) THEN b ELSE seat[o]]
    /\ UNCHANGED <<vars, host, torn>>

\* merge_tables: SELECT ... LIMIT 1 of each table, then four statements if both exist.

MergeTables(h, a, b) ==
    /\ host[h].step = "idle"
    /\ MergeWithSelf \/ a # b
    /\ \A o \in OpenAt(b) : orders[o].total <= MaxTotal
    /\ \E o \in OpenAt(a) :
          host' = [host EXCEPT ![h] =
                     [NoHostJob EXCEPT !.step = "readTarget", !.from = o, !.table = b]]
    /\ UNCHANGED <<vars, seat, torn>>

ReadTarget(h) ==
    /\ host[h].step = "readTarget"
    /\ \/ OpenAt(host[h].table) = {} /\ host' = [host EXCEPT ![h] = NoHostJob]
       \/ \E o \in OpenAt(host[h].table) :
             host' = [host EXCEPT ![h].step = "sumSource", ![h].to = o]
    /\ UNCHANGED <<vars, seat, torn>>

\* Mutant: the discounts of the lines are forgotten.
SumListTotals(h) ==
    /\ host[h].step = "sumSource"
    /\ host' = [host EXCEPT ![h].step = "moveLines",
                  ![h].sum = SumOver([l \in Lines |-> ListTotal(lines[l])],
                                     LinesOf(host[h].from))]
    /\ UNCHANGED <<vars, seat, torn>>

SumSource(h) ==
    /\ host[h].step = "sumSource"
    /\ host' = [host EXCEPT ![h].step = "moveLines",
                  ![h].sum = BillOf(host[h].from)]
    /\ UNCHANGED <<vars, seat, torn>>

\* Mutant: the bill is closed before its lines are moved.
CloseFirst(h) ==
    /\ host[h].step = "moveLines"
    /\ \/ /\ orders[host[h].from].status = "open"
          /\ orders' = [orders EXCEPT ![host[h].from].status = "merged"]
          /\ UNCHANGED <<lines, host>>
       \/ /\ orders[host[h].from].status # "open"
          /\ lines' = [l \in Lines |-> IF l \in LinesOf(host[h].from)
                                         THEN [lines[l] EXCEPT !.order = host[h].to]
                                         ELSE lines[l]]
          /\ host' = [host EXCEPT ![h].step = "bumpTarget"]
          /\ UNCHANGED orders
    /\ UNCHANGED <<tickets, rooms, paid, sold, ledger, job, seat, torn>>

MoveLines(h) ==
    /\ host[h].step = "moveLines"
    /\ lines' = [l \in Lines |-> IF l \in LinesOf(host[h].from)
                                   THEN [lines[l] EXCEPT !.order = host[h].to]
                                   ELSE lines[l]]
    /\ host' = [host EXCEPT ![h].step = "bumpTarget"]
    /\ UNCHANGED <<orders, tickets, rooms, paid, sold, ledger, job, seat, torn>>

BumpTarget(h) ==
    /\ host[h].step = "bumpTarget"
    /\ orders' = [orders EXCEPT ![host[h].to].total = @ + host[h].sum]
    /\ host' = [host EXCEPT ![h].step = "closeSource"]
    /\ UNCHANGED <<lines, tickets, rooms, paid, sold, ledger, job, seat, torn>>

\* Named by id alone, like the UPDATE that closes a bill.
CloseSource(h) ==
    /\ host[h].step = "closeSource"
    /\ orders' = [orders EXCEPT ![host[h].from].status = "merged"]
    /\ host' = [host EXCEPT ![h] = NoHostJob]
    /\ UNCHANGED <<lines, tickets, rooms, paid, sold, ledger, job, seat, torn>>

HostInterrupted(h) ==
    /\ Interruptions
    /\ host[h].step # "idle"
    /\ host' = [host EXCEPT ![h] = NoHostJob]
    /\ torn' = torn \cup ({host[h].from, host[h].to} \cap Orders)
    /\ UNCHANGED <<vars, seat>>

\* A request of PosOrders is cut off.
RequestInterrupted(w) ==
    /\ Interrupt(w)
    /\ torn' = torn \cup ({job[w].order} \cap Orders)
    /\ UNCHANGED <<seat, host>>

FloorArrives ==
    \E a, b \in Tables :
       \/ TransferTable(a, b)
       \/ \E h \in Hosts : MergeTables(h, a, b)

FloorContinues ==
    \E h \in Hosts :
       \/ ReadTarget(h) \/ SumSource(h) \/ MoveLines(h)
       \/ BumpTarget(h) \/ CloseSource(h) \/ HostInterrupted(h)

FNext ==
    \/ /\ OneAtATime => Resting
       /\ \/ FloorArrives
          \/ (\E w \in Workers : Arrive(w)) /\ Seat /\ UNCHANGED <<host, torn>>
    \/ FloorContinues
    \/ (\E w \in Workers : Continue(w)) /\ UNCHANGED <<seat, host, torn>>
    \/ \E w \in Workers : RequestInterrupted(w)

FSpec == FInit /\ [][FNext]_fVars

-----------------------------------------------------------------------------
\* Correctness.

\* Neither a POS request nor a merge is at work on this bill, or was when it was cut off.
Settled(o) ==
    /\ Quiet(o) /\ o \notin torn
    /\ \A h \in Hosts : o \notin {host[h].from, host[h].to}

\* Wherever its lines came from, an open bill shows their sum: a merge takes along
\* discounts and quantities, and leaves nothing behind. Requests that are cut off put
\* no other bill out of step than those they were working on.
MergedBillInStep ==
    \A o \in Orders : orders[o].status = "open" /\ Settled(o) =>
        orders[o].total = BillOf(o)

\* No line is left on a bill that was merged away, where nobody could pay for it, at
\* whatever statement a merge stops.
NoLineLeftBehind ==
    \A l \in Lines : Exists(l) => orders[lines[l].order].status # "merged"

=============================================================================

------------------------------ MODULE PosKitchen ------------------------------
(***************************************************************************)
(* The kitchen display (crates/smeazy-kitchen) at work on the tickets of   *)
(* the point of sale: PosOrders with the requests of kitchen screens       *)
(* interleaved. Its two handlers are unconditional UPDATEs of tickets and  *)
(* lines that the point of sale writes too.                                *)
(***************************************************************************)
EXTENDS PosOrders

CONSTANTS
    Cooks,         \* how many requests of kitchen screens may be in flight
    StaleBoards    \* may a cook press a button of a card that has changed since?

ASSUME BoardsAssumption == StaleBoards \in BOOLEAN

VARIABLES
    cook,          \* what each kitchen request is doing
    unmarked,      \* history: lines dispatched by a request that was cut off
    byHand         \* history: lines whose status a waiter has set at the order screen

kVars == <<vars, cook, unmarked, byHand>>

NoCookJob == [step |-> "idle", ticket |-> NoTicket, line |-> NoLine]

KInit ==
    /\ Init
    /\ cook = [c \in Cooks |-> NoCookJob]
    /\ unmarked = {}
    /\ byHand = {}

-----------------------------------------------------------------------------

Free(c) == cook[c].step = "idle"
Rest(c) == cook' = [cook EXCEPT ![c] = NoCookJob]

\* The kitchen screen shows pending and in_progress tickets.
OnScreen(t) == tickets[t].status \in {"pending", "in_progress"}

\* acknowledge_order

\* UPDATE kitchen_orders SET status = 'in_progress' WHERE id = ?: of any ticket. The
\* screen has the button on pending cards.
AcknowledgeOrder(c, t) ==
    /\ Free(c)
    /\ tickets[t].status # "none"
    /\ StaleBoards \/ tickets[t].status = "pending"
    /\ tickets' = [tickets EXCEPT ![t].status = "in_progress"]
    /\ cook' = [cook EXCEPT ![c] = [step |-> "startItems", ticket |-> t, line |-> NoLine]]
    /\ UNCHANGED <<orders, lines, rooms, paid, sold, ledger, job, unmarked, byHand>>

\* Mutant: the UPDATE without AND status = 'new'.
RestartItems(c) ==
    /\ cook[c].step = "startItems"
    /\ tickets' = [tickets EXCEPT ![cook[c].ticket].items =
                     [l \in Lines |-> IF @[l] # "none" THEN "processing" ELSE @[l]]]
    /\ Rest(c)
    /\ UNCHANGED <<orders, lines, rooms, paid, sold, ledger, job, unmarked, byHand>>

StartItems(c) ==
    /\ cook[c].step = "startItems"
    /\ tickets' = [tickets EXCEPT ![cook[c].ticket].items =
                     [l \in Lines |-> IF @[l] = "new" THEN "processing" ELSE @[l]]]
    /\ Rest(c)
    /\ UNCHANGED <<orders, lines, rooms, paid, sold, ledger, job, unmarked, byHand>>

\* dispatch_item: the ticket's line, then the bill's. Nothing ever changes which line
\* of the bill a line of a ticket stands for, so reading it is no step of its own.

\* Mutant: the bill's line first.
DispatchLineFirst(c, t, l) ==
    /\ Free(c)
    /\ tickets[t].items[l] # "none"
    /\ StaleBoards \/ (OnScreen(t) /\ tickets[t].items[l] # "dispatched")
    /\ lines' = [lines EXCEPT ![l].status = IF Exists(l) THEN "dispatched" ELSE @]
    /\ cook' = [cook EXCEPT ![c] = [step |-> "markLine", ticket |-> t, line |-> l]]
    /\ UNCHANGED <<orders, tickets, rooms, paid, sold, ledger, job, unmarked, byHand>>

DispatchItem(c, t, l) ==
    /\ Free(c)
    /\ tickets[t].items[l] # "none"
    /\ StaleBoards \/ (OnScreen(t) /\ tickets[t].items[l] # "dispatched")
    /\ tickets' = [tickets EXCEPT ![t].items[l] = "dispatched"]
    /\ cook' = [cook EXCEPT ![c] = [step |-> "markLine", ticket |-> t, line |-> l]]
    /\ UNCHANGED <<orders, lines, rooms, paid, sold, ledger, job, unmarked, byHand>>

\* Mutant: the linked line is left alone.
MarkNoLine(c) ==
    /\ cook[c].step = "markLine"
    /\ Rest(c)
    /\ UNCHANGED <<vars, unmarked, byHand>>

MarkLine(c) ==
    /\ cook[c].step = "markLine"
    /\ lines' = [lines EXCEPT ![cook[c].line].status =
                   IF Exists(cook[c].line) THEN "dispatched" ELSE @]
    /\ Rest(c)
    /\ UNCHANGED <<orders, tickets, rooms, paid, sold, ledger, job, unmarked, byHand>>

CookInterrupted(c) ==
    /\ Interruptions
    /\ ~Free(c)
    /\ Rest(c)
    /\ unmarked' = unmarked \cup ({cook[c].line} \cap Lines)
    /\ UNCHANGED <<vars, byHand>>

KitchenStep(c) ==
    \/ StartItems(c) \/ MarkLine(c) \/ CookInterrupted(c)
    \/ \E t \in Tickets :
          \/ AcknowledgeOrder(c, t)
          \/ \E l \in Lines : DispatchItem(c, t, l)

\* The lines whose status this step of the point of sale sets by hand.
SetByHand == {l \in Lines : \E w \in Workers, o \in Orders : UpdateItemStatus(w, o, l)}

KNext ==
    \/ /\ Next
       /\ byHand' = byHand \cup SetByHand
       /\ UNCHANGED <<cook, unmarked>>
    \/ \E c \in Cooks : KitchenStep(c)

KSpec == KInit /\ [][KNext]_kVars

-----------------------------------------------------------------------------
\* Correctness.

\* No dispatch of this line is under way or was cut off between its two statements.
Marked(l) == l \notin unmarked /\ \A c \in Cooks : cook[c].line # l

\* What the kitchen has dispatched shows as dispatched, or paid, on the bill, also
\* when it was dispatched while its order was still being sent, sent twice at once,
\* paid meanwhile, or marked by hand as well (README.md:399).
DispatchShows ==
    \A t \in Tickets, l \in Lines :
        tickets[t].items[l] = "dispatched" /\ Marked(l) /\ Exists(l)
            => lines[l].status \in {"dispatched", "paid"}

\* The other way round: a line that nobody marked at the order screen shows as
\* dispatched only once the kitchen has dispatched it, wherever a request stops.
ShownWasDispatched ==
    \A l \in Lines \ byHand : lines[l].status = "dispatched" =>
        \E t \in Tickets : tickets[t].items[l] = "dispatched"

\* Cooking only moves forward: whatever is acknowledged or dispatched twice, or from
\* an old card, no line of a ticket goes back to an earlier state.
Stage(s) == CASE s = "none" -> 0 [] s = "new" -> 1 [] s = "processing" -> 2
              [] s = "dispatched" -> 3

CookingMovesForward ==
    [][\A t \in Tickets, l \in Lines :
          Stage(tickets'[t].items[l]) >= Stage(tickets[t].items[l])]_kVars

=============================================================================

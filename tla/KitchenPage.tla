----------------------------- MODULE KitchenPage -----------------------------
(***************************************************************************)
(* The kitchen display of a till (frontend/src/pages/KitchenPage.tsx) and  *)
(* the tickets behind it. The page reads the tickets every 8 seconds and   *)
(* after its own changes. Here a ticket has one line; what the two         *)
(* handlers of the server do to the lines of bills is PosKitchen's         *)
(* subject.                                                                *)
(***************************************************************************)
EXTENDS Terminal, SequencesExt, TLC

ASSUME TicketsAssumption == \A s \in Shifts : s.tickets \in Nat

VARIABLE tickets      \* the tickets sent so far

Active == {k \in DOMAIN tickets : tickets[k].status # "completed"}
CardsNow == [k \in Active |-> tickets[k]]

-------------------------------------------------------------------------------
(* The page.                                                                 *)

AskKitchen(op, k) ==
    /\ sent < shift.requests
    /\ Len(calls) < shift.inFlight
    /\ calls' = Append(calls, [op |-> op, args |-> k, phase |-> "sent", mine |-> TRUE, heard |-> TRUE])
    /\ sent' = sent + 1
    /\ UNCHANGED <<tickets, shift, business, user, locked, timer, signIns, page, local, tries, lost>>

Acknowledge(k) == local.cards[k].status = "pending" /\ AskKitchen("ack", k)
Dispatch(k) == local.cards[k].item # "dispatched" /\ AskKitchen("dispatch", k)

KitchenScreen ==
    /\ page = "kitchen" /\ ~locked /\ ~local.loading
    /\ \E k \in DOMAIN local.cards : Acknowledge(k) \/ Dispatch(k)

\* The tick of the interval changes no spinner; the button does.
PollKitchen ==
    /\ page = "kitchen"
    /\ Len(calls) < shift.inFlight
    /\ \/ calls' = Append(calls, Read("silent")) /\ UNCHANGED local
       \/ /\ ~locked
          /\ calls' = Append(calls, Read("tickets"))
          /\ local' = [local EXCEPT !.loading = TRUE]
    /\ UNCHANGED <<tickets, shift, business, user, locked, timer, signIns, page, tries, sent, lost>>

-------------------------------------------------------------------------------
(* The server.                                                               *)

KitchenOps == {"tickets", "silent", "ack", "dispatch"}

Cooked(c) ==
    CASE c.op = "ack" -> [tickets EXCEPT ![c.args].status = "in_progress",
                                         ![c.args].item = IF @ = "new" THEN "processing" ELSE @]
      [] c.op = "dispatch" -> [tickets EXCEPT ![c.args].item = "dispatched"]
      [] OTHER -> tickets

ServeKitchen(j) ==
    LET c == calls[j]
        answer == IF c.op \in Reads THEN Answered(c, "data", CardsNow)
                  ELSE Answered(c, "done", TRUE)
    IN  /\ c.op \in KitchenOps /\ c.phase = "sent"
        /\ tickets' = Cooked(c)
        /\ calls' = IF c.heard THEN [calls EXCEPT ![j] = answer]
                    ELSE RemoveAt(calls, j)
        /\ UNCHANGED <<shift, business, user, locked, timer, signIns, page, local, tries, sent, lost>>

\* A till sends a ticket, or settles the bill of one.
FromTheFloor ==
    /\ sent < shift.requests
    /\ sent' = sent + 1
    /\ \/ /\ Len(tickets) < shift.tickets
          /\ tickets' = Append(tickets, [status |-> "pending", item |-> "new"])
       \/ \E k \in Active : tickets' = [tickets EXCEPT ![k].status = "completed"]
    /\ UNCHANGED <<shift, business, user, locked, timer, signIns, page, local, calls, tries, lost>>

-------------------------------------------------------------------------------
(* Answers.                                                                  *)

\* The bell it may ring on the way is left out.
Displayed(cards) == [local EXCEPT !.cards = cards]

\* Mutant: the spinner stops when there is something to show.
LoadingAfterSuccess(c, ok) == IF c.op = "tickets" /\ ok THEN FALSE ELSE local.loading

LoadingAfter(c, ok) == IF c.op = "tickets" THEN FALSE ELSE local.loading

GoOnKitchen(c, ok, rest) ==
    /\ local' = IF ~c.mine \/ c.op \notin Reads THEN local
                ELSE [IF ok THEN Displayed(c.data) ELSE local
                      EXCEPT !.loading = LoadingAfter(c, ok)]
    /\ calls' = rest \o IF c.mine /\ ok /\ c.op \notin Reads THEN <<Read("silent")>> ELSE <<>>
    /\ UNCHANGED <<shift, business, user, locked, timer, signIns, page>>

AnswerKitchen(j) ==
    /\ calls[j].op \in KitchenOps /\ calls[j].phase = "answered"
    /\ GoOnKitchen(calls[j], TRUE, RemoveAt(calls, j))
    /\ UNCHANGED <<tickets, tries, sent, lost>>

GiveUpKitchen(j) ==
    LET c == calls[j] IN
    /\ c.op \in KitchenOps /\ c.heard
    /\ lost < shift.lost
    /\ lost' = lost + 1
    /\ \/ GoOnKitchen(c, FALSE, RemoveAt(calls, j))
       \/ /\ c.phase = "sent" /\ c.op \notin Reads
          /\ GoOnKitchen(c, FALSE, [calls EXCEPT ![j].heard = FALSE])
    /\ UNCHANGED <<tickets, tries, sent>>

DropKitchen(j) ==
    /\ calls[j].op \in KitchenOps /\ ~calls[j].heard
    /\ calls' = RemoveAt(calls, j)
    /\ UNCHANGED <<tickets, shift, business, user, locked, timer, signIns, page, local, tries, sent, lost>>

ResolveKitchen(j) == ServeKitchen(j) \/ AnswerKitchen(j) \/ GiveUpKitchen(j) \/ DropKitchen(j)

-------------------------------------------------------------------------------

KitchenInit == tickets = <<>>

KitchenNext ==
    \/ KitchenScreen \/ PollKitchen \/ FromTheFloor
    \/ \E j \in DOMAIN calls : ResolveKitchen(j)

-------------------------------------------------------------------------------

\* The display comes to show the tickets as they are, once they stop changing, and its
\* spinner does not stay when a read fails (KitchenPage.tsx:50-68).
KitchenCatchesUp ==
    /\ <>[](page = "kitchen" /\ ~local.loading => local.cards = CardsNow)
    /\ []<>~(page = "kitchen" /\ local.loading)

===============================================================================

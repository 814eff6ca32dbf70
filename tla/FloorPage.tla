------------------------------ MODULE FloorPage ------------------------------
(***************************************************************************)
(* The floor plan of a till (frontend/src/pages/FloorPlanPage.tsx) and the *)
(* tables and bills behind it. The page shows a board that it reads every  *)
(* 15 seconds and after its own changes; menus and dialogs act on the      *)
(* table as it was when they were opened, and stay open under the lock.    *)
(***************************************************************************)
EXTENDS Terminal, FiniteSetsExt, SequencesExt

CONSTANTS
    AreaOf     \* the areas of the tables that there are or may be added

ASSUME AreasAssumption ==
    /\ DOMAIN AreaOf \subseteq Nat \ {0}
    /\ \A s \in Shifts : s.tables \subseteq DOMAIN AreaOf /\ s.bills \in Nat
                      /\ s.opened \subseteq s.tables

VARIABLES
    tables,    \* the tables on the floor
    bills,     \* the bills opened so far
    crowded    \* history: a table got a second bill that the till could have known of

floor == <<tables, bills, crowded>>

OpenAmong(bs, t) == {b \in DOMAIN bs : bs[b].status = "open" /\ bs[b].table = t}
OpenBills(t) == OpenAmong(bills, t)

\* The server lists the newest open bill of each table.
BillOn(t) == IF OpenBills(t) = {} THEN 0 ELSE Max(OpenBills(t))
BoardNow == [t \in tables |-> BillOn(t)]

-------------------------------------------------------------------------------
(* Requests of the page.                                                     *)

\* The page shows of table t what the server would list.
ShownAsItIs(t) == local.board[t] = BillOn(t)

\* The table that a request puts a bill on.
Puts(c) == c.op \in {"create", "transfer"}
Target(c) == IF c.op = "create" THEN c.args.table ELSE c.args.to

Opening == Cardinality({j \in DOMAIN calls : calls[j].op = "create"})

AskFloor(op, args, calm) ==
    /\ sent < shift.requests
    /\ Len(calls) < shift.inFlight
    /\ op = "create" => Len(bills) + Opening < shift.bills
    /\ calls' = Append(calls, [op |-> op, args |-> args, phase |-> "sent", mine |-> TRUE,
                               heard |-> TRUE, calm |-> calm])
    /\ sent' = sent + 1
    /\ UNCHANGED <<floor, shift, business, user, locked, timer, signIns, page, tries, lost>>

AtFloor == page = "floor" /\ ~locked /\ ~local.loading

\* Something on the page is opened, closed or chosen.
Turn(l) ==
    /\ local' = l
    /\ UNCHANGED <<floor, shift, business, user, locked, timer, signIns, page, calls, tries, sent, lost>>

\* The menu is opened with the table as it is shown.
HandleContextMenu(t) == Turn([local EXCEPT !.menu = [table |-> t, bill |-> local.board[t]]])

\* So is the dialog; it is calm, a history, for as long as it was opened on a table that was
\* shown as it was and to which no bill has come since.
OpenDialog(t) == Turn([local EXCEPT !.modal = [table |-> t, calm |-> ShownAsItIs(t)]])

\* Mutant: the dialog is opened whatever the table is shown with.
OpenAnyTable(t) == OpenDialog(t)

OpenTable(t) ==
    IF local.board[t] = 0 THEN OpenDialog(t)
    ELSE Goto("pos", calls) /\ UNCHANGED <<floor, tries, sent, lost>>

\* Mutant: who serves the table is settled when somebody is chosen.
WaiterAsChosen == IF local.waiter # Nobody THEN local.waiter ELSE user

\* Waitstaff open tables in their own name; others may choose somebody.
WaiterFor == IF IsWaitstaffOnly(Roles[user]) \/ local.waiter = Nobody THEN user ELSE local.waiter

\* The bill is asked for whatever the page shows of the table by now.
CreateOrder ==
    /\ ~local.opening
    /\ AskFloor("create",
                [table |-> local.modal.table, waiter |-> WaiterFor, opener |-> user],
                local.modal.calm)
    /\ local' = [local EXCEPT !.opening = TRUE]

\* The list to choose from: everybody with a PIN.
Waitstaff == shift.staff \cap HasPin

OpenModal ==
    \/ CreateOrder
    \/ Turn([local EXCEPT !.modal = NoMenu])
    \/ /\ ~IsWaitstaffOnly(Roles[user])
       /\ \E w \in Waitstaff \cup {Nobody} : w # local.waiter /\ Turn([local EXCEPT !.waiter = w])

\* Mutant: any other table will do.
AnyOther(t, area) ==
    {to \in DOMAIN local.board : to # t /\ area \in {"All", AreaOf[to]}}

\* The tables the page may transfer a bill to, with the chosen area on the screen.
FreeTables(t, area) ==
    {to \in DOMAIN local.board : /\ to # t /\ local.board[to] = 0
                                 /\ area \in {"All", AreaOf[to]}}

Transfer ==
    LET t == local.menu.table IN
    /\ \E area \in {"All", AreaOf[t]} :
         LET to == Min(FreeTables(t, area))
         IN  /\ FreeTables(t, area) # {}
             /\ AskFloor("transfer", [from |-> t, to |-> to], ShownAsItIs(to))
    /\ UNCHANGED local

BillToClear == local.menu.bill

\* The menu closes before the question is asked; who says no has closed the menu.
ClearTable ==
    /\ AskFloor("void", [bill |-> BillToClear], FALSE)
    /\ local' = [local EXCEPT !.menu = NoMenu]

ContextMenu ==
    \/ Turn([local EXCEPT !.menu = NoMenu])
    \/ /\ local.menu.bill # 0
       /\ \/ Goto("pos", calls) /\ UNCHANGED <<floor, tries, sent, lost>>
          \/ Transfer
          \/ /\ ~IsWaitstaffOnly(Roles[user])
             /\ Turn([local EXCEPT !.assign = local.menu.bill, !.menu = NoMenu])
          \/ BillToClear # 0 /\ ClearTable

AssignModal ==
    \/ Turn([local EXCEPT !.assign = 0])
    \/ /\ \E w \in Waitstaff : AskFloor("assign", [bill |-> local.assign, waiter |-> w], FALSE)
       /\ UNCHANGED local

AddTable ==
    /\ \E t \in DOMAIN AreaOf \ tables : AskFloor("addTable", [table |-> t], FALSE)
    /\ UNCHANGED local

Grid ==
    \E t \in DOMAIN local.board : OpenTable(t) \/ HandleContextMenu(t)

FloorScreen ==
    /\ AtFloor
    /\ \/ local.menu # NoMenu /\ ContextMenu
       \/ local.modal # NoMenu /\ OpenModal
       \/ local.assign # 0 /\ AssignModal
       \/ ~Covered /\ (Grid \/ AddTable)

\* Mutant: the interval rests under the lock.
TicksUnlocked == page = "floor" /\ ~locked

Ticks == page = "floor"

\* The tick of the interval, and the button that reads the board again.
PollFloor ==
    /\ Ticks
    /\ Len(calls) < shift.inFlight
    /\ calls' = calls \o Polls(page)
    /\ UNCHANGED <<floor, shift, business, user, locked, timer, signIns, page, local, tries, sent, lost>>

-------------------------------------------------------------------------------
(* The server.                                                               *)

FloorOps == {"tables", "create", "transfer", "void", "assign", "addTable"}

Carried(c) ==
    LET a == c.args IN
    CASE c.op = "create" ->
           Append(bills, [status |-> "open", table |-> a.table, waiter |-> a.waiter,
                          opener |-> a.opener])
      \* every open bill of the table, whatever is on the other
      [] c.op = "transfer" ->
           [b \in DOMAIN bills |-> IF b \in OpenBills(a.from) THEN [bills[b] EXCEPT !.table = a.to]
                                   ELSE bills[b]]
      [] c.op = "void" ->
           [bills EXCEPT ![a.bill] =
              IF @.status = "open" THEN [@ EXCEPT !.status = "voided"] ELSE @]
      [] c.op = "assign" ->
           [bills EXCEPT ![a.bill] = [@ EXCEPT !.waiter = a.waiter, !.opener = Nobody]]
      [] OTHER -> bills

Accepts(c) == c.op = "void" => bills[c.args.bill].status = "open"

\* A bill comes to table t once bs are the bills.
Comes(bs, t) == ~(OpenAmong(bs, t) \subseteq OpenBills(t))

\* What was asked for, or is about to be, on a table that a bill has come to.
Disturbed(cs, bs) ==
    [j \in DOMAIN cs |-> IF Puts(cs[j]) /\ Comes(bs, Target(cs[j])) THEN [cs[j] EXCEPT !.calm = FALSE]
                         ELSE cs[j]]
DialogAfter(bs) ==
    IF page = "floor" /\ local.modal # NoMenu /\ Comes(bs, local.modal.table)
    THEN [local EXCEPT !.modal.calm = FALSE] ELSE local

\* A bill is put where another is, by a till that was shown the table as it was.
Crowds(c) ==
    /\ Puts(c) /\ c.calm
    /\ OpenBills(Target(c)) # {} /\ Comes(Carried(c), Target(c))

ServeFloor(j) ==
    LET c == calls[j]
        answer == IF c.op = "tables" THEN Answered(c, "data", BoardNow)
                  ELSE Answered(c, "ok", Accepts(c))
        rest == Disturbed(calls, Carried(c))
    IN  /\ c.op \in FloorOps /\ c.phase = "sent"
        /\ bills' = Carried(c)
        /\ tables' = IF c.op = "addTable" THEN tables \cup {c.args.table} ELSE tables
        /\ crowded' = (crowded \/ Crowds(c))
        /\ calls' = IF c.heard THEN [rest EXCEPT ![j] = answer] ELSE RemoveAt(rest, j)
        /\ local' = DialogAfter(Carried(c))
        /\ UNCHANGED <<shift, business, user, locked, timer, signIns, page, tries, sent, lost>>

\* Another till opens a bill, or settles one.
OtherTill ==
    /\ sent < shift.requests
    /\ sent' = sent + 1
    /\ \/ /\ Len(bills) + Opening < shift.bills
          /\ \E t \in tables :
               bills' = Append(bills, [status |-> "open", table |-> t, waiter |-> Nobody,
                                       opener |-> Nobody])
       \/ \E b \in DOMAIN bills :
            bills[b].status = "open" /\ bills' = [bills EXCEPT ![b].status = "paid"]
    /\ calls' = Disturbed(calls, bills')
    /\ local' = DialogAfter(bills')
    /\ UNCHANGED <<tables, crowded, shift, business, user, locked, timer, signIns, page, tries, lost>>

-------------------------------------------------------------------------------
(* Answers.                                                                  *)

\* What the page becomes once the request was answered, or given up.
FloorAfter(c, ok) ==
    CASE c.op = "tables"   -> [local EXCEPT !.loading = FALSE,
                                 !.board = IF ok THEN c.data ELSE @]
      [] c.op = "create"   -> [local EXCEPT !.opening = FALSE, !.modal = IF ok THEN NoMenu ELSE @]
      [] c.op = "transfer" -> [local EXCEPT !.menu = IF ok THEN NoMenu ELSE @]
      [] c.op = "assign"   -> [local EXCEPT !.assign = IF ok THEN 0 ELSE @]
      [] OTHER             -> local

ReadsBoardAgain == {"transfer", "void", "assign", "addTable"}

\* The rest of the handler.
GoOnFloor(c, ok, rest) ==
    /\ local' = IF c.mine THEN FloorAfter(c, ok) ELSE local
    /\ calls' = rest \o IF c.mine /\ ok /\ c.op \in ReadsBoardAgain THEN Polls("floor") ELSE <<>>
    /\ UNCHANGED <<shift, business, user, locked, timer, signIns, page>>

\* A bill that was opened is shown wherever the till is by now.
AnswerFloor(j) ==
    LET c == calls[j]
        rest == RemoveAt(calls, j)
    IN  /\ c.op \in FloorOps /\ c.phase = "answered"
        /\ \/ c.op = "create" /\ LeadTo("pos", rest)
           \/ c.op # "create" /\ GoOnFloor(c, IF c.op = "tables" THEN TRUE ELSE c.ok, rest)
        /\ UNCHANGED <<floor, tries, sent, lost>>

\* The network fails or 15 seconds pass; a change may still be carried out later.
GiveUpFloor(j) ==
    LET c == calls[j] IN
    /\ c.op \in FloorOps /\ c.heard
    /\ lost < shift.lost
    /\ lost' = lost + 1
    /\ \/ GoOnFloor(c, FALSE, RemoveAt(calls, j))
       \/ /\ c.phase = "sent" /\ c.op # "tables"
          /\ GoOnFloor(c, FALSE, [calls EXCEPT ![j].heard = FALSE])
    /\ UNCHANGED <<floor, tries, sent>>

\* What nobody waits for gets lost.
DropFloor(j) ==
    /\ calls[j].op \in FloorOps /\ ~calls[j].heard
    /\ calls' = RemoveAt(calls, j)
    /\ UNCHANGED <<floor, shift, business, user, locked, timer, signIns, page, local, tries, sent, lost>>

ResolveFloor(j) == ServeFloor(j) \/ AnswerFloor(j) \/ GiveUpFloor(j) \/ DropFloor(j)

-------------------------------------------------------------------------------

FloorInit ==
    /\ tables = shift.tables
    /\ bills \in {<<>>} \cup {<<[status |-> "open", table |-> t, waiter |-> Nobody,
                               opener |-> Nobody]>> : t \in shift.opened}
    /\ crowded = FALSE

FloorNext ==
    \/ FloorScreen \/ PollFloor \/ OtherTill
    \/ \E j \in DOMAIN calls : ResolveFloor(j)

-------------------------------------------------------------------------------

\* Tables that waitstaff open are served by themselves (createOrder, FloorPlanPage.tsx:80),
\* also from a dialog in which somebody else had chosen a name before the screen locked.
OwnTable ==
    \A b \in DOMAIN bills :
        LET u == bills[b].opener
        IN  u # Nobody /\ Roles[u] = {"operational_staff"} => bills[b].waiter = u

\* A table that was shown as it was, when its dialog was opened or a bill was sent to it, gets a
\* second bill only if another had come to it since, however late the request is carried out
\* and whatever was lost before: the server never asks (create_order, transfer_table), so
\* openTable and the menu have to (FloorPlanPage.tsx:65-72, 219-225). What it excuses is real:
\* a dialog left open while the board goes on to show the table occupied, and a second try of
\* a bill whose answer was lost, do put a second bill on the table (createOrder, 74-91).
FreshBoardNeverCrowds == ~crowded

\* The board comes to show the tables as they are, once they stop changing, also under the
\* lock: polls may overtake each other or fail, and their answers may be older than what is
\* shown (load and its interval, FloorPlanPage.tsx:43-56). The spinner does not stay.
FloorCatchesUp ==
    /\ <>[](page = "floor" /\ ~local.loading => local.board = BoardNow)
    /\ []<>~(page = "floor" /\ local.loading)

===============================================================================

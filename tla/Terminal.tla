------------------------------- MODULE Terminal -------------------------------
(***************************************************************************)
(* One till: who is signed in, which page is on the screen, and the lock   *)
(* over it (frontend/src/App.tsx, hooks/useAuth.ts, PosLockGuard.tsx, the  *)
(* sign-in and onboarding pages, the sidebar). FloorPage and KitchenPage   *)
(* add what happens on the two pages that follow the server by polling;    *)
(* of the other pages only coming and going is modelled here.              *)
(***************************************************************************)
EXTENDS Permissions, Integers, Sequences, FiniteSets

CONSTANTS
    Staff,     \* who works here
    Roles,     \* their roles
    Shifts     \* the stretches of work that are looked at: see Shift

\* A stretch of work at one till bounds what happens in it.
Shift(s) ==
    /\ s.staff \subseteq Staff                 \* who comes by
    /\ s.onboarded \in BOOLEAN                 \* a business is registered on this device
    /\ s.pages \subseteq GuardedPages          \* the pages links are followed to
    /\ s.signIns \in Nat                       \* sign-ins that may be asked for, and restarts
    /\ s.requests \in Nat                      \* changes that may be asked for
    /\ s.lost \in Nat                          \* requests that may fail on the way
    /\ s.inFlight \in Nat                      \* requests of a page under way at once
    /\ s.expires \in BOOLEAN                   \* the session may reach its 24 hours

ASSUME StaffAssumption == Nobody \notin Staff /\ Roles \in [Staff -> SUBSET DOMAIN RoleCaps]
ASSUME ShiftsAssumption == \A s \in Shifts : Shift(s)

VARIABLES
    shift,         \* the bounds of this behaviour, never changed
    business,      \* this device knows its business; survives a restart
    user, locked,  \* the session
    timer,         \* the idle timer of the lock is running
    signIns,       \* sign-ins under way
    page, local,   \* the page on the screen and its state
    calls,         \* requests of pages under way, and answers on their way back, oldest first
    tries, sent, lost     \* how many sign-ins and changes were asked for, and requests failed

frame == <<shift, business, user, locked, timer, signIns, page, local, calls, tries, sent, lost>>

Lockable == {u \in Staff : Roles[u] \cap LockingRoles # {}}

\* The seeded owner has a password only; everybody else has a PIN too.
HasPin == {u \in Staff : "entrepreneur" \notin Roles[u]}

-------------------------------------------------------------------------------
(* Pages come and go.                                                        *)

NoMenu == [table |-> 0]
Nothing == [mode |-> "none"]

FreshFloor == [loading |-> TRUE, board |-> <<>>, menu |-> NoMenu, modal |-> NoMenu,
               waiter |-> Nobody, opening |-> FALSE, assign |-> 0]
FreshKitchen == [loading |-> TRUE, cards |-> <<>>]

\* What a page starts with.
Fresh(p) ==
    CASE p \in {"login", "register"} -> [mode |-> "choose"]
      [] p = "floor" -> FreshFloor
      [] p = "kitchen" -> FreshKitchen
      [] OTHER -> Nothing

\* Reads of the pages; everything else a page asks for changes something.
Reads == {"tables", "tickets", "silent"}

Read(op) == [op |-> op, phase |-> "sent", mine |-> TRUE, heard |-> TRUE]

\* A request on its way back, with what it brings.
Answered(c, part, v) ==
    [f \in DOMAIN c \cup {part} |-> IF f = part THEN v ELSE IF f = "phase" THEN "answered" ELSE c[f]]

\* What a page asks for when it appears.
Polls(p) ==
    CASE p = "floor" -> <<Read("tables")>>
      [] p = "kitchen" -> <<Read("tickets")>>
      [] OTHER -> <<>>

\* The requests of cs at the places in K, in their order.
Only(cs, K) == [n \in 1..Cardinality(K) |-> cs[CHOOSE i \in K : Cardinality({k \in K : k <= i}) = n]]

Changes(cs) == Only(cs, {j \in DOMAIN cs : cs[j].op \notin Reads})

\* A page that left does not care for what it read; the rest of its handlers still runs.
Unmounted(cs) == [j \in DOMAIN Changes(cs) |-> [Changes(cs)[j] EXCEPT !.mine = FALSE]]

\* A reload forgets every handler; what was asked for may still be carried out.
Abandoned(cs) ==
    LET unserved == Only(cs, {j \in DOMAIN cs : cs[j].op \notin Reads /\ cs[j].phase = "sent"})
    IN  [j \in DOMAIN unserved |-> [unserved[j] EXCEPT !.mine = FALSE, !.heard = FALSE]]

\* The lock stays mounted from one page that asks for a capability to another.
SameGuard(p, q) == p \in DOMAIN CapOf /\ q \in DOMAIN CapOf

\* Which forms still wait for their sign-in once q is on the screen.
StillMine(S, q) ==
    {[s EXCEPT !.mine = @ /\ (q = page \/ (s.op = "unlock" /\ SameGuard(page, q)))] : s \in S}

NotMine(S) == {[s EXCEPT !.mine = FALSE] : s \in S}

\* Page q is on the screen, after which cs is under way.
Show(q, cs) ==
    /\ page' = q
    /\ local' = IF q = page THEN local ELSE Fresh(q)
    /\ calls' = IF q = page THEN cs ELSE Unmounted(cs) \o Polls(q)

\* Mutant: every session is locked.
ArmedForAll(u, l, p) == u # Nobody /\ ~l /\ p \in GuardedPages

Armed(u, l, p) == u \in Lockable /\ ~l /\ p \in GuardedPages

\* Nobody is signed in any more: the store is empty and every path leads to the sign-in.
ToSignIn(cs) ==
    /\ user' = Nobody
    /\ locked' = FALSE
    /\ timer' = FALSE
    /\ page' = "login"
    /\ local' = Fresh("login")
    /\ calls' = cs
    /\ UNCHANGED <<shift, business>>

\* Somebody signed in follows a path.
Goto(path, cs) ==
    LET q == Land(Roles[user], path)
    IN  /\ Show(q, cs)
        /\ signIns' = StillMine(signIns, q)
        /\ timer' = Armed(user, locked, q)
        /\ UNCHANGED <<shift, business, user, locked>>

\* A handler leads there, wherever the till is by now. With nobody signed in the path ends at
\* a sign-in that starts afresh.
LeadTo(path, cs) ==
    \/ user # Nobody /\ Goto(path, cs)
    \/ user = Nobody /\ ToSignIn(Unmounted(cs)) /\ signIns' = NotMine(signIns)

\* The page is loaded again: after a 401, and when the program is started.
Reload == ToSignIn(Abandoned(calls)) /\ signIns' = {}

-------------------------------------------------------------------------------
(* Signing in.                                                               *)

\* A form whose sign-in is under way does not take another.
Waits(op) == \E s \in signIns : s.mine /\ (op = "unlock" <=> s.op = "unlock")

AskSignIn(op, who) ==
    /\ tries < shift.signIns
    /\ ~Waits(op)
    /\ signIns' = signIns \cup {[op |-> op, who |-> who, mine |-> TRUE]}
    /\ tries' = tries + 1
    /\ UNCHANGED <<shift, business, user, locked, timer, page, local, calls, sent, lost>>

\* A wrong password or PIN is Nobody's.
AdminLogin(who) == page = "login" /\ local.mode = "admin" /\ AskSignIn("login", who)

PosLogin(who) ==
    /\ page = "login" /\ local.mode = "pos"
    /\ business
    /\ who \in HasPin \cup {Nobody}
    /\ AskSignIn("pin", who)

Register(who) ==
    /\ page = "register" /\ local.mode = "new"
    /\ Roles[who] = {"entrepreneur"}
    /\ AskSignIn("register", who)

\* The pad over a locked page.
PressPin(who) ==
    /\ locked /\ business
    /\ who \in HasPin \cup {Nobody}
    /\ AskSignIn("unlock", who)

\* The cards and the Back buttons of the two pages.
ModesFrom ==
    CASE page = "login"    -> IF local.mode = "choose" THEN {"admin", "pos"} ELSE {"choose"}
      [] page = "register" -> IF local.mode = "choose" THEN {"new", "network"}
                              ELSE IF local.mode = "network" THEN {"choose", "new"}
                              ELSE {"choose"}
      [] OTHER -> {}

ChooseMode ==
    /\ \E m \in ModesFrom : local' = [mode |-> m]
    /\ UNCHANGED <<shift, business, user, locked, timer, signIns, page, calls, tries, sent, lost>>

\* The links between the two.
Link ==
    /\ \/ page = "login" /\ local.mode = "choose" /\ ~business
       \/ page = "register" /\ local.mode \in {"choose", "new"}
    /\ LET q == LandSignedOut(business, IF page = "login" THEN "register" ELSE "login")
       IN  Show(q, calls) /\ signIns' = StillMine(signIns, q)
    /\ UNCHANGED <<shift, business, user, locked, timer, tries, sent, lost>>

\* Mutant: the idle timer is not started again for the roles it was running for.
TimerForgotten(u, q) == Armed(u, FALSE, q) /\ ~(locked /\ user \in Lockable)

\* The timer's effect runs again because the lock is gone.
TimerAfter(u, q) == Armed(u, FALSE, q)

\* setAuth, and the way home: PINs lead to the floor, passwords to the dashboard.
SignedIn(s) ==
    LET q == Land(Roles[s.who], IF s.op \in {"pin", "unlock"} THEN "floor" ELSE "dashboard")
    IN  /\ s.who # Nobody
        /\ user' = s.who
        /\ locked' = FALSE
        /\ business' = TRUE
        /\ Show(q, calls)
        /\ signIns' = StillMine(signIns \ {s}, q)
        /\ timer' = TimerAfter(s.who, q)
        /\ UNCHANGED <<shift, tries, sent, lost>>

\* The server answers 401 to a wrong password or PIN, and whatever page asked is loaded again.
WrongPin(s) == s.who = Nobody /\ Reload /\ UNCHANGED <<tries, sent, lost>>

\* The address was taken, or the request failed: the form may be sent again.
SignInFailed(s) ==
    /\ s.op = "register" \/ lost < shift.lost
    /\ signIns' = signIns \ {s}
    /\ lost' = IF s.op = "register" THEN lost ELSE lost + 1
    /\ UNCHANGED <<shift, business, user, locked, timer, page, local, calls, tries, sent>>

AnswerSignIn == \E s \in signIns : SignedIn(s) \/ WrongPin(s) \/ SignInFailed(s)

-------------------------------------------------------------------------------
(* The session goes on, locks and ends.                                      *)

\* A dialog or a menu covers the floor.
Covered ==
    /\ page = "floor"
    /\ local.menu # NoMenu \/ local.modal # NoMenu \/ local.assign # 0

\* The sidebar and the tiles of the dashboard, the header of the floor plan, and that of the
\* kitchen display.
OfficeLinks(roles) == {q \in DOMAIN CapOf \ {"pos"} : Can(roles, CapOf[q])} \cup {"profile"}
FloorLinks(roles) == IF IsWaitstaffOnly(roles) THEN {} ELSE {"dashboard"}
KitchenLinks(roles) == {q \in {"dashboard", "floor"} : Can(roles, CapOf[q])} \cup
                       {IF Can(roles, "dashboard") THEN "dashboard" ELSE "floor"}

LinksOf(p, roles) ==
    CASE p \in OfficePages -> OfficeLinks(roles)
      [] p = "floor" -> FloorLinks(roles)
      [] p = "kitchen" -> KitchenLinks(roles)
      [] p = "pos" -> {"floor"}
      [] OTHER -> {}

Follow ==
    /\ user # Nobody /\ ~locked /\ ~Covered
    /\ \E p \in (LinksOf(page, Roles[user]) \cap shift.pages) \ {page} : Goto(p, calls)
    /\ UNCHANGED <<tries, sent, lost>>

SignOut ==
    /\ page \in OfficePages /\ ~locked
    /\ ToSignIn(Unmounted(calls))
    /\ signIns' = NotMine(signIns)
    /\ UNCHANGED <<tries, sent, lost>>

\* 15 seconds without a touch, which is as long as a request asked for by the last touch takes.
Lock ==
    /\ timer
    /\ signIns = {}
    /\ \A j \in DOMAIN calls : calls[j].op \notin Reads => ~calls[j].heard
    /\ locked' = TRUE
    /\ timer' = FALSE
    /\ UNCHANGED <<shift, business, user, signIns, page, local, calls, tries, sent, lost>>

\* A crash, or the program is closed and started again.
Restart ==
    /\ tries < shift.signIns
    /\ tries' = tries + 1
    /\ Reload
    /\ UNCHANGED <<sent, lost>>

\* After 24 hours the next answer is a 401, for whoever is at the till.
Expired ==
    /\ shift.expires
    /\ \E j \in DOMAIN calls : calls[j].heard
    /\ Reload
    /\ UNCHANGED <<tries, sent, lost>>

-------------------------------------------------------------------------------

FrameInit ==
    /\ shift \in Shifts
    /\ business = shift.onboarded
    /\ user = Nobody /\ locked = FALSE /\ timer = FALSE
    /\ signIns = {} /\ calls = <<>> /\ tries = 0 /\ sent = 0 /\ lost = 0
    /\ page = "login" /\ local = Fresh("login")

FrameNext ==
    \/ \E who \in shift.staff \cup {Nobody} :
         AdminLogin(who) \/ PosLogin(who) \/ PressPin(who)
    \/ \E who \in shift.staff : Register(who)
    \/ ChooseMode \/ Link \/ AnswerSignIn
    \/ Follow \/ SignOut \/ Lock \/ Restart \/ Expired

-------------------------------------------------------------------------------

\* The page on the screen is one the person signed in has the capability for, whoever was
\* there before (RequireCap, App.tsx:29-37, with the redirects after a sign-in); it stays
\* empty only for someone who has no page to be sent to, and nobody signed in sees the
\* sign-in or the onboarding.
PageFits ==
    /\ user = Nobody <=> page \in {"login", "register"}
    /\ page \in DOMAIN CapOf => Can(Roles[user], CapOf[page])
    /\ page = "blank" => ~Can(Roles[user], "dashboard") /\ Roles[user] # {"operational_staff"}

\* A till that operational staff or a cashier left is locked in the end (only for them does
\* the guard run its timer, PosLockGuard.tsx:28-51), unless somebody signed out, the
\* session ended, or nobody was there any more.
LeftOpen ==
    /\ user # Nobody
    /\ \E r \in {"operational_staff", "cashier"} : r \in Roles[user]
    /\ ~locked
    /\ page # "blank"
LockComes == LeftOpen ~> ~LeftOpen

\* The till keeps the promise of Session.
Till == INSTANCE Session WITH asked <- {s.who : s \in signIns} \ {Nobody}

SessionKept == Till!Spec

===============================================================================

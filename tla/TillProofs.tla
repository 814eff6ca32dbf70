----------------------------- MODULE TillProofs -----------------------------
(***************************************************************************)
(* Theorems about Till, for any staff, roles, shifts and tables: the page  *)
(* on the screen fits who is signed in, and the till keeps the promise of  *)
(* Session; waitstaff serve the tables they open, and a table that was     *)
(* shown as it was gets no second bill unless one had come to it since.    *)
(***************************************************************************)
EXTENDS Till, SumLaws, SequenceTheorems, TLAPS

-----------------------------------------------------------------------------
(* The session and the page over it, which hold together by themselves.    *)

SignIn == [op : {"login", "pin", "unlock", "register"}, who : Staff \cup {Nobody}, mine : BOOLEAN]

SessionOK ==
    /\ shift \in Shifts
    /\ user \in Staff \cup {Nobody} /\ locked \in BOOLEAN
    /\ signIns \subseteq SignIn
    /\ page \in Pages
    /\ user = Nobody <=> page \in {"login", "register"}
    /\ locked => user \in Lockable
    /\ timer => user \in Lockable /\ ~locked

TInv == SessionOK /\ PageFits

-----------------------------------------------------------------------------
\* Where a path ends for somebody with these roles.

LEMMA LandFits ==
    ASSUME NEW roles \in SUBSET DOMAIN RoleCaps,
           NEW path \in GuardedPages \cup {"login", "register"}
    PROVE  LET p == Land(roles, path)
           IN  /\ p \in Pages \ {"login", "register"}
               /\ p \in DOMAIN CapOf => Can(roles, CapOf[p])
               /\ p = "blank" => ~Can(roles, "dashboard") /\ roles # {"operational_staff"}
<1> DEFINE wanted == IF path \in {"login", "register"} THEN HomeFor(roles) ELSE path
           May(p) == p = "profile" \/ Can(roles, CapOf[p])
<1>1. HomeFor(roles) \in {"floor", "dashboard"} /\ HomeFor(roles) \in GuardedPages
  BY DEF HomeFor, GuardedPages, CapOf
<1>2. wanted \in GuardedPages
  BY <1>1
<1>3. \/ Land(roles, path) = wanted /\ May(wanted)
      \/ Land(roles, path) = HomeFor(roles) /\ May(HomeFor(roles))
      \/ Land(roles, path) = "blank" /\ ~May(HomeFor(roles))
  BY DEF Land
<1>4. GuardedPages \subseteq Pages \ {"login", "register"} /\ "blank" \in Pages \ {"login", "register"}
  BY DEF Pages, GuardedPages, CapOf
<1>5. "blank" \notin DOMAIN CapOf /\ "profile" \notin DOMAIN CapOf /\ "blank" \notin GuardedPages
  BY DEF CapOf, GuardedPages
<1>6. ~May(HomeFor(roles)) => ~Can(roles, "dashboard") /\ roles # {"operational_staff"}
  <2>1. CASE roles = {"operational_staff"}
    <3>1. "pos" \in RoleCaps["operational_staff"]
      BY DEF RoleCaps
    <3>2. Can(roles, "pos")
      BY <2>1, <3>1 DEF Can, CapabilitiesOf
    <3> QED
      BY <2>1, <3>2 DEF HomeFor, IsWaitstaffOnly, CapOf
  <2>2. CASE roles # {"operational_staff"}
    BY <2>2 DEF HomeFor, IsWaitstaffOnly, CapOf
  <2> QED
    BY <2>1, <2>2
<1> HIDE DEF wanted
<1> QED
  BY <1>1, <1>2, <1>3, <1>4, <1>5, <1>6

-----------------------------------------------------------------------------
(* Steps of the promise.                                                   *)

Asked == {s.who : s \in signIns} \ {Nobody}

\* What the promise sees of a step.
Promised == [Till!Next]_(Till!sessionVars)

LEMMA PromiseRests ==
    ASSUME UNCHANGED <<user, locked, Asked>>
    PROVE  Promised
  BY DEF Promised, Asked, Till!sessionVars

LEMMA PromiseForgets ==
    ASSUME Asked' \subseteq Asked, UNCHANGED <<user, locked>>
    PROVE  Promised
  BY DEF Promised, Asked, Till!Next, Till!Forget

LEMMA PromiseEnds ==
    ASSUME Asked' \subseteq Asked, user' = Nobody, locked' = FALSE
    PROVE  Promised
  BY DEF Promised, Asked, Till!Next, Till!SignOut

LEMMA PromiseAsks ==
    ASSUME NEW who \in Staff, ~(user # Nobody /\ ~locked), Asked' = Asked \cup {who},
           UNCHANGED <<user, locked>>
    PROVE  Promised
  BY DEF Promised, Asked, Till!Next, Till!Ask, Till!AtWork

LEMMA PromiseBegins ==
    ASSUME NEW who \in Staff, who \in Asked, Asked' \subseteq Asked, user' = who, locked' = FALSE
    PROVE  Promised
  BY DEF Promised, Asked, Till!Next, Till!SignIn

LEMMA PromiseLocks ==
    ASSUME user \in Lockable, ~locked, locked' = TRUE, UNCHANGED <<user, signIns>>
    PROVE  Promised
  BY DEF Promised, Till!Next, Till!Lock

\* Whose a form is does not change who asked.
LEMMA FormsKeepNames ==
    ASSUME NEW S \in SUBSET SignIn, NEW q
    PROVE  /\ StillMine(S, q) \subseteq SignIn /\ NotMine(S) \subseteq SignIn
           /\ {s.who : s \in StillMine(S, q)} = {s.who : s \in S}
           /\ {s.who : s \in NotMine(S)} = {s.who : s \in S}
<1>1. ASSUME NEW s \in S, NEW b \in BOOLEAN
      PROVE  [s EXCEPT !.mine = b] \in SignIn /\ [s EXCEPT !.mine = b].who = s.who
  BY DEF SignIn
<1> DEFINE Kept(s) == s.mine /\ (q = page \/ (s.op = "unlock" /\ SameGuard(page, q)))
<1>2. \A s \in S : Kept(s) \in BOOLEAN
  BY DEF SignIn
<1>3. StillMine(S, q) = {[s EXCEPT !.mine = Kept(s)] : s \in S}
  BY DEF StillMine
<1>4. NotMine(S) = {[s EXCEPT !.mine = FALSE] : s \in S}
  BY DEF NotMine
<1> HIDE DEF Kept
<1>5. StillMine(S, q) \subseteq SignIn /\ NotMine(S) \subseteq SignIn
  BY <1>1, <1>2, <1>3, <1>4
<1>6. {s.who : s \in StillMine(S, q)} = {s.who : s \in S}
  <2>1. \A t \in StillMine(S, q) : \E s \in S : t.who = s.who
    BY <1>1, <1>2, <1>3
  <2>2. ASSUME NEW s \in S
        PROVE  \E t \in StillMine(S, q) : t.who = s.who
    <3>1. [s EXCEPT !.mine = Kept(s)] \in StillMine(S, q)
      BY <1>3
    <3> QED
      BY <1>1, <1>2, <3>1
  <2> QED
    BY <2>1, <2>2
<1>7. {s.who : s \in NotMine(S)} = {s.who : s \in S}
  <2>1. \A t \in NotMine(S) : \E s \in S : t.who = s.who
    BY <1>1, <1>4
  <2>2. ASSUME NEW s \in S
        PROVE  \E t \in NotMine(S) : t.who = s.who
    <3>1. [s EXCEPT !.mine = FALSE] \in NotMine(S)
      BY <1>4
    <3> QED
      BY <1>1, <3>1
  <2> QED
    BY <2>1, <2>2
<1> QED
  BY <1>5, <1>6, <1>7

-----------------------------------------------------------------------------
(* Steps of the till.                                                      *)

Moves == TInv' /\ Promised

LEMMA NothingMoves ==
    ASSUME TInv, UNCHANGED <<shift, user, locked, timer, signIns, page>>
    PROVE  Moves
<1>1. Promised
  BY PromiseRests DEF Asked
<1>2. TInv'
  BY DEF TInv, SessionOK, PageFits
<1> QED
  BY <1>1, <1>2 DEF Moves

LEMMA GotoMoves ==
    ASSUME TInv, user # Nobody, NEW path \in GuardedPages, NEW cs, Goto(path, cs)
    PROVE  Moves
<1> DEFINE q == Land(Roles[user], path)
<1>1. user \in Staff /\ Roles[user] \in SUBSET DOMAIN RoleCaps
  BY StaffAssumption DEF TInv, SessionOK
<1>2. /\ q \in Pages \ {"login", "register"}
      /\ q \in DOMAIN CapOf => Can(Roles[user], CapOf[q])
      /\ q = "blank" => ~Can(Roles[user], "dashboard") /\ Roles[user] # {"operational_staff"}
  BY <1>1, LandFits
<1>3. /\ page' = q /\ signIns' = StillMine(signIns, q) /\ timer' = Armed(user, locked, q)
      /\ UNCHANGED <<shift, user, locked>>
  BY DEF Goto, Show
<1> HIDE DEF q
<1>4. signIns' \subseteq SignIn /\ Asked' = Asked
  BY <1>3, FormsKeepNames DEF TInv, SessionOK, Asked
<1>5. Promised
  BY <1>3, <1>4, PromiseRests
<1>6. SessionOK'
  BY <1>2, <1>3, <1>4 DEF TInv, SessionOK, Armed
<1>7. PageFits'
  BY <1>2, <1>3 DEF TInv, PageFits, SessionOK
<1> QED
  BY <1>5, <1>6, <1>7 DEF Moves, TInv

LEMMA SignInPageFits ==
    ASSUME TInv, NEW cs, ToSignIn(cs), signIns' \subseteq SignIn
    PROVE  TInv'
<1>1. user' = Nobody /\ locked' = FALSE /\ timer' = FALSE /\ page' = "login" /\ shift' \in Shifts
  BY DEF ToSignIn, TInv, SessionOK
<1>2. "login" \in Pages /\ "login" \notin DOMAIN CapOf
  BY DEF Pages, CapOf
<1> QED
  BY <1>1, <1>2 DEF TInv, SessionOK, PageFits

LEMMA EndMoves ==
    ASSUME TInv, NEW cs, ToSignIn(cs), signIns' \in {{}, NotMine(signIns)}
    PROVE  Moves
<1>1. signIns' \subseteq SignIn /\ Asked' \subseteq Asked
  BY FormsKeepNames DEF TInv, SessionOK, Asked
<1>2. Promised
  BY <1>1, PromiseEnds DEF ToSignIn
<1> QED
  BY <1>1, <1>2, SignInPageFits DEF Moves

LEMMA ReloadMoves ==
    ASSUME TInv, Reload
    PROVE  Moves
  BY EndMoves DEF Reload

LEMMA LeadToMoves ==
    ASSUME TInv, NEW path \in GuardedPages, NEW cs, LeadTo(path, cs)
    PROVE  Moves
  BY GotoMoves, EndMoves DEF LeadTo

LEMMA AskMoves ==
    ASSUME TInv, NEW op \in {"login", "pin", "unlock", "register"},
           NEW who \in Staff \cup {Nobody}, ~(user # Nobody /\ ~locked), AskSignIn(op, who)
    PROVE  Moves
<1> DEFINE new == [op |-> op, who |-> who, mine |-> TRUE]
<1>1. new \in SignIn /\ new.who = who
  BY DEF SignIn
<1>2. signIns' = signIns \cup {new} /\ UNCHANGED <<shift, user, locked, timer, page>>
  BY DEF AskSignIn
<1> HIDE DEF new
<1>3. signIns' \subseteq SignIn /\ Asked' = Asked \cup ({who} \ {Nobody})
  BY <1>1, <1>2 DEF TInv, SessionOK, Asked
<1>4. Promised
  <2>1. CASE who = Nobody
    BY <1>2, <1>3, <2>1, PromiseRests
  <2>2. CASE who # Nobody
    BY <1>2, <1>3, <2>2, PromiseAsks
  <2> QED
    BY <2>1, <2>2
<1>5. TInv'
  BY <1>2, <1>3 DEF TInv, SessionOK, PageFits
<1> QED
  BY <1>4, <1>5 DEF Moves

\* Nobody is at work where a sign-in is asked for.
LEMMA SignInsMove ==
    ASSUME TInv, NEW who \in Staff \cup {Nobody},
           \/ AdminLogin(who) \/ PosLogin(who) \/ PressPin(who)
           \/ who \in Staff /\ Register(who)
    PROVE  Moves
<1>1. PICK op \in {"login", "pin", "unlock", "register"} :
        AskSignIn(op, who) /\ (page \in {"login", "register"} \/ locked)
  BY DEF AdminLogin, PosLogin, PressPin, Register
<1>2. ~(user # Nobody /\ ~locked)
  BY <1>1 DEF TInv, SessionOK
<1> QED
  BY <1>1, <1>2, AskMoves

LEMMA SignedInMoves ==
    ASSUME TInv, NEW s \in signIns, SignedIn(s)
    PROVE  Moves
<1> DEFINE path == IF s.op \in {"pin", "unlock"} THEN "floor" ELSE "dashboard"
           q == Land(Roles[s.who], path)
<1>1. s \in SignIn /\ s.who \in Staff /\ s.who \in Asked
  BY DEF TInv, SessionOK, SignIn, SignedIn, Asked
<1>2. Roles[s.who] \in SUBSET DOMAIN RoleCaps /\ path \in GuardedPages
  BY <1>1, StaffAssumption DEF GuardedPages, CapOf
<1>3. /\ q \in Pages \ {"login", "register"}
      /\ q \in DOMAIN CapOf => Can(Roles[s.who], CapOf[q])
      /\ q = "blank" => ~Can(Roles[s.who], "dashboard") /\ Roles[s.who] # {"operational_staff"}
  BY <1>2, LandFits
<1>4. /\ user' = s.who /\ locked' = FALSE /\ page' = q
      /\ signIns' = StillMine(signIns \ {s}, q) /\ timer' = TimerAfter(s.who, q) /\ shift' \in Shifts
  BY DEF SignedIn, Show, TInv, SessionOK
<1> HIDE DEF q
<1>5. signIns' \subseteq SignIn /\ Asked' \subseteq Asked
  <2>1. signIns \ {s} \in SUBSET SignIn
    BY DEF TInv, SessionOK
  <2>2. signIns' \subseteq SignIn
    BY <1>4, <2>1, FormsKeepNames
  <2>3. {t.who : t \in signIns'} = {t.who : t \in signIns \ {s}}
    BY <1>4, <2>1, FormsKeepNames
  <2> QED
    BY <2>2, <2>3 DEF Asked
<1>6. Promised
  BY <1>1, <1>4, <1>5, PromiseBegins
<1>7. SessionOK'
  BY <1>1, <1>3, <1>4, <1>5, StaffAssumption DEF SessionOK, TimerAfter, Armed
<1>8. PageFits'
  BY <1>3, <1>4, <1>7 DEF PageFits, SessionOK
<1> QED
  BY <1>6, <1>7, <1>8 DEF Moves, TInv

LEMMA AnswersMove ==
    ASSUME TInv, AnswerSignIn
    PROVE  Moves
<1>1. PICK s \in signIns : SignedIn(s) \/ WrongPin(s) \/ SignInFailed(s)
  BY DEF AnswerSignIn
<1>2. CASE SignedIn(s)
  BY <1>2, SignedInMoves
<1>3. CASE WrongPin(s)
  BY <1>3, ReloadMoves DEF WrongPin
<1>4. CASE SignInFailed(s)
  <2>1. signIns' = signIns \ {s} /\ UNCHANGED <<shift, user, locked, timer, page>>
    BY <1>4 DEF SignInFailed
  <2>2. Promised
    BY <2>1, PromiseForgets DEF Asked
  <2>3. TInv'
    BY <2>1 DEF TInv, SessionOK, PageFits
  <2> QED
    BY <2>2, <2>3 DEF Moves
<1> QED
  BY <1>1, <1>2, <1>3, <1>4

\* From the sign-in to the onboarding and back.
LEMMA LinkMoves ==
    ASSUME TInv, Link
    PROVE  Moves
<1> DEFINE q == LandSignedOut(business, IF page = "login" THEN "register" ELSE "login")
<1>1. q \in {"login", "register"} /\ page \in {"login", "register"}
  BY DEF LandSignedOut, Link
<1>2. page' = q /\ signIns' = StillMine(signIns, q) /\ UNCHANGED <<shift, user, locked, timer>>
  BY DEF Link, Show
<1>3. "login" \in Pages /\ "register" \in Pages /\ "login" \notin DOMAIN CapOf /\ "register" \notin DOMAIN CapOf
  BY DEF Pages, CapOf
<1> HIDE DEF q
<1>4. signIns' \subseteq SignIn /\ Asked' = Asked
  BY <1>2, FormsKeepNames DEF TInv, SessionOK, Asked
<1>5. Promised
  BY <1>2, <1>4, PromiseRests
<1>6. TInv'
  BY <1>1, <1>2, <1>3, <1>4 DEF TInv, SessionOK, PageFits
<1> QED
  BY <1>5, <1>6 DEF Moves

LEMMA FollowMoves ==
    ASSUME TInv, Follow
    PROVE  Moves
<1>1. PICK p \in LinksOf(page, Roles[user]) : Goto(p, calls)
  BY DEF Follow
<1>2. LinksOf(page, Roles[user]) \subseteq GuardedPages
  BY DEF LinksOf, OfficeLinks, FloorLinks, KitchenLinks, GuardedPages, CapOf
<1> QED
  BY <1>1, <1>2, GotoMoves DEF Follow

\* The timer only runs for those who can unlock the screen again.
LEMMA LockMoves ==
    ASSUME TInv, Lock
    PROVE  Moves
<1>1. user \in Lockable /\ ~locked
  BY DEF Lock, TInv, SessionOK
<1>2. Promised
  BY <1>1, PromiseLocks DEF Lock
<1>3. TInv'
  BY <1>1 DEF Lock, TInv, SessionOK, PageFits
<1> QED
  BY <1>2, <1>3 DEF Moves

LEMMA FrameMoves ==
    ASSUME TInv, FrameNext
    PROVE  Moves
<1>0. shift.staff \subseteq Staff
  BY ShiftsAssumption DEF Shift, TInv, SessionOK
<1>1. CASE ChooseMode
  BY <1>1, NothingMoves DEF ChooseMode
<1>2. CASE SignOut
  BY <1>2, EndMoves DEF SignOut
<1>3. CASE Restart \/ Expired
  BY <1>3, ReloadMoves DEF Restart, Expired
<1>4. ASSUME NEW who \in shift.staff, Register(who)
      PROVE  Moves
  <2>1. who \in Staff
    BY <1>0, <1>4
  <2> QED
    BY <1>4, <2>1, SignInsMove
<1>5. ASSUME NEW who \in shift.staff \cup {Nobody},
             AdminLogin(who) \/ PosLogin(who) \/ PressPin(who)
      PROVE  Moves
  BY <1>0, <1>5, SignInsMove
<1> QED
  BY <1>1, <1>2, <1>3, <1>4, <1>5, AnswersMove, LinkMoves, FollowMoves, LockMoves DEF FrameNext

-----------------------------------------------------------------------------
(* Steps of the two pages.                                                 *)

\* Of everything the floor plan does only three things lead elsewhere.
LEMMA FloorMoves ==
    ASSUME TInv, FloorNext
    PROVE  Moves
<1>1. "pos" \in GuardedPages
  BY DEF GuardedPages, CapOf
<1>2. CASE FloorScreen
  <2>1. user # Nobody
    BY <1>2 DEF FloorScreen, AtFloor, TInv, SessionOK
  <2>2. \/ Goto("pos", calls)
        \/ UNCHANGED <<shift, user, locked, timer, signIns, page>>
    BY <1>2 DEF FloorScreen, ContextMenu, OpenModal, AssignModal, Grid, AddTable, OpenTable,
                OpenDialog, HandleContextMenu, Turn, Transfer, ClearTable, CreateOrder, AskFloor
  <2> QED
    BY <1>1, <2>1, <2>2, GotoMoves, NothingMoves
<1>3. CASE PollFloor \/ OtherTill
  BY <1>3, NothingMoves DEF PollFloor, OtherTill
<1>4. ASSUME NEW j \in DOMAIN calls, ResolveFloor(j)
      PROVE  Moves
  <2>1. CASE ServeFloor(j)
    BY <2>1, NothingMoves DEF ServeFloor
  <2>2. CASE AnswerFloor(j)
    <3>1. \/ \E rest : LeadTo("pos", rest)
          \/ UNCHANGED <<shift, user, locked, timer, signIns, page>>
      BY <2>2 DEF AnswerFloor, GoOnFloor
    <3> QED
      BY <1>1, <3>1, LeadToMoves, NothingMoves
  <2>3. CASE GiveUpFloor(j) \/ DropFloor(j)
    BY <2>3, NothingMoves DEF GiveUpFloor, DropFloor, GoOnFloor
  <2> QED
    BY <1>4, <2>1, <2>2, <2>3 DEF ResolveFloor
<1> QED
  BY <1>2, <1>3, <1>4 DEF FloorNext

LEMMA KitchenMoves ==
    ASSUME TInv, KitchenNext
    PROVE  Moves
<1>1. UNCHANGED <<shift, user, locked, timer, signIns, page>>
  BY DEF KitchenNext, KitchenScreen, PollKitchen, FromTheFloor, ResolveKitchen, Acknowledge,
         Dispatch, AskKitchen, ServeKitchen, AnswerKitchen, GiveUpKitchen, DropKitchen, GoOnKitchen
<1> QED
  BY <1>1, NothingMoves

LEMMA InitFits == Init => TInv /\ Till!Init
<1> SUFFICES ASSUME Init
             PROVE  TInv /\ Till!Init
  OBVIOUS
<1>1. user = Nobody /\ locked = FALSE /\ timer = FALSE /\ signIns = {} /\ page = "login" /\ shift \in Shifts
  BY DEF Init, FrameInit
<1>2. "login" \in Pages /\ "login" \notin DOMAIN CapOf
  BY DEF Pages, CapOf
<1>3. TInv
  BY <1>1, <1>2 DEF TInv, SessionOK, PageFits
<1> QED
  BY <1>1, <1>3 DEF Till!Init

LEMMA EveryStepMoves ==
    ASSUME TInv, [Next]_vars
    PROVE  Moves
<1>1. CASE UNCHANGED vars
  BY <1>1, NothingMoves DEF vars, frame
<1>2. CASE Next
  BY <1>2, FrameMoves, FloorMoves, KitchenMoves DEF Next
<1> QED
  BY <1>1, <1>2

-----------------------------------------------------------------------------
\* The theorems.

LEMMA TillInvariant == Spec => []TInv
  BY InitFits, EveryStepMoves, PTL DEF Moves, Spec

\* The page on the screen is one that whoever is signed in may see, wherever answers, links,
\* locks and restarts lead (RequireCap, App.tsx:29-37).
THEOREM PageFitsAlways == Spec => []PageFits
<1>1. TInv => PageFits
  BY DEF TInv
<1> QED
  BY TillInvariant, <1>1, PTL

\* The till keeps the promise of Session: each of its steps is a step of Session, or none.
THEOREM SessionKeptAlways == Spec => SessionKept
<1>1. ASSUME TInv, [Next]_vars
      PROVE  [Till!Next]_(Till!sessionVars)
  BY <1>1, EveryStepMoves DEF Moves, Promised
<1> QED
  BY InitFits, TillInvariant, <1>1, PTL DEF Spec, SessionKept, Till!Spec

\* A locked screen asks for a PIN that its owner has (PosLockGuard.tsx:28-51).
THEOREM LockedHasOwnerAlways == Spec => []Till!LockedHasOwner
<1>1. TInv => Till!LockedHasOwner
  BY DEF TInv, SessionOK, Till!LockedHasOwner
<1> QED
  BY TillInvariant, <1>1, PTL

\* Whoever takes over a session had asked for it before.
THEOREM HandoverAlways == Spec => Till!Handover
<1>1. ASSUME TInv, [Next]_vars
      PROVE  [user' # user /\ user' # Nobody => user' \in Asked]_(Till!sessionVars)
  <2>1. [Till!Next]_(Till!sessionVars)
    BY <1>1, EveryStepMoves DEF Moves, Promised
  <2> QED
    BY <2>1 DEF Asked, Till!Next, Till!Ask, Till!SignIn, Till!Lock, Till!Forget, Till!SignOut,
                Till!sessionVars
<1> QED
  BY TillInvariant, <1>1, PTL DEF Spec, Till!Handover, Asked

-----------------------------------------------------------------------------
(* Lists of requests.                                                      *)

\* What lists are made of: each request of ds was one of cs.
From(ds, cs) == \A k \in DOMAIN ds : \E m \in DOMAIN cs : ds[k] = cs[m]

\* A place that is kept is the n-th of those kept, for every n there is.
LEMMA Ranked ==
    ASSUME NEW N \in Nat, NEW K, K \subseteq 1..N, NEW n \in 1..Cardinality(K)
    PROVE  \E i \in K : Cardinality({k \in K : k <= i}) = n
<1> DEFINE Upto(i) == {k \in K : k <= i}
           T == {i \in 1..N : Cardinality(Upto(i)) >= n}
<1>1. IsFiniteSet(K) /\ Cardinality(K) \in Nat
  <2>1. 1 \in Int /\ N \in Int
    OBVIOUS
  <2>2. IsFiniteSet(1..N)
    BY <2>1, FS_Interval
  <2> QED
    BY <2>2, FS_Subset, FS_CardinalityType
<1>2. \A i \in Int : IsFiniteSet(Upto(i)) /\ Cardinality(Upto(i)) \in Nat
  BY <1>1, FS_Subset, FS_CardinalityType
<1>a. \A i, k : k \in Upto(i) <=> k \in K /\ k <= i
  OBVIOUS
<1>b. \A k \in K : k \in Int /\ 1 <= k /\ k <= N
  OBVIOUS
<1>c. Upto(0) = {} /\ Upto(N) = K
  <2>1. \A k \in K : ~(k <= 0) /\ k <= N
    BY <1>b
  <2> QED
    BY <1>a, <2>1
<1> HIDE DEF Upto
<1>3. N \in T
  <2>1. K # {}
    <3>1. ASSUME K = {} PROVE FALSE
      <4>1. Cardinality(K) = 0
        BY <3>1, FS_EmptySet
      <4> QED
        BY <4>1
    <3> QED
      BY <3>1
  <2>2. N >= 1
    <3>1. PICK k \in K : TRUE
      BY <2>1
    <3>2. k \in Int /\ 1 <= k /\ k <= N
      BY <1>b, <3>1
    <3> QED
      BY <3>2
  <2> QED
    BY <1>1, <1>c, <2>2
<1>4. PICK i \in T : \A m \in T : i <= m
  <2>1. T \subseteq Nat
    OBVIOUS
  <2> HIDE DEF T
  <2> QED
    BY <1>3, <2>1, Smallest
<1>5. i \in Int /\ 1 <= i /\ i <= N /\ Cardinality(Upto(i)) >= n
  BY <1>4
<1>6. i - 1 \in Int /\ Cardinality(Upto(i)) \in Nat /\ Cardinality(Upto(i - 1)) \in Nat /\ n \in Nat
  BY <1>1, <1>2, <1>5
<1>7. ~(Cardinality(Upto(i - 1)) >= n)
  <2>1. CASE i = 1
    <3>1. Cardinality(Upto(i - 1)) = 0
      BY <1>c, <2>1, FS_EmptySet
    <3> QED
      BY <3>1
  <2>2. CASE i # 1
    <3>1. i - 1 \in 1..N /\ ~(i <= i - 1)
      BY <1>5, <2>2
    <3>2. i - 1 \notin T
      BY <1>4, <3>1
    <3> QED
      BY <3>1, <3>2
  <2> QED
    BY <2>1, <2>2
<1>d. \A k \in K : k <= i <=> k <= i - 1 \/ k = i
  BY <1>5, <1>b
<1>8. i \in K
  <2>1. ASSUME i \notin K PROVE FALSE
    <3>1. Upto(i) = Upto(i - 1)
      BY <1>a, <1>d, <2>1
    <3> QED
      BY <1>5, <1>7, <3>1
  <2> QED
    BY <2>1
<1>9. Cardinality(Upto(i)) = Cardinality(Upto(i - 1)) + 1
  <2>1. Upto(i) = Upto(i - 1) \cup {i}
    BY <1>a, <1>d, <1>8
  <2>2. i \notin Upto(i - 1)
    BY <1>a, <1>5
  <2>3. IsFiniteSet(Upto(i - 1))
    BY <1>2, <1>6
  <2> QED
    BY <2>1, <2>2, <2>3, FS_AddElement
<1>10. Cardinality(Upto(i)) = n
  BY <1>5, <1>6, <1>7, <1>9
<1>11. Upto(i) = {k \in K : k <= i}
  BY DEF Upto
<1> QED
  BY <1>8, <1>10, <1>11

LEMMA OnlyIsFrom ==
    ASSUME NEW T, NEW cs \in Seq(T), NEW K, K \subseteq DOMAIN cs
    PROVE  /\ Only(cs, K) \in Seq(T)
           /\ \A n \in DOMAIN Only(cs, K) : \E i \in K : Only(cs, K)[n] = cs[i]
<1>1. K \subseteq 1..Len(cs) /\ Len(cs) \in Nat
  OBVIOUS
<1>2. Cardinality(K) \in Nat
  <2>1. 1 \in Int /\ Len(cs) \in Int
    BY <1>1
  <2>2. IsFiniteSet(1..Len(cs))
    BY <2>1, FS_Interval
  <2> QED
    BY <1>1, <2>2, FS_Subset, FS_CardinalityType
<1> DEFINE At(n) == CHOOSE i \in K : Cardinality({k \in K : k <= i}) = n
<1>3. \A n \in 1..Cardinality(K) : At(n) \in K
  BY <1>1, Ranked
<1>4. Only(cs, K) = [n \in 1..Cardinality(K) |-> cs[At(n)]]
  BY DEF Only
<1> HIDE DEF At
<1>5. \A n \in 1..Cardinality(K) : cs[At(n)] \in T
  BY <1>3
<1>6. Only(cs, K) \in Seq(T)
  BY <1>2, <1>4, <1>5
<1>7. DOMAIN Only(cs, K) = 1..Cardinality(K)
  BY <1>4
<1> QED
  BY <1>3, <1>4, <1>6, <1>7

LEMMA RestIsFrom ==
    ASSUME NEW T, NEW cs \in Seq(T), NEW j \in DOMAIN cs
    PROVE  RemoveAt(cs, j) \in Seq(T) /\ From(RemoveAt(cs, j), cs)
<1>1. Len(cs) \in Nat /\ j \in 1..Len(cs) /\ DOMAIN cs = 1..Len(cs)
  OBVIOUS
<1> DEFINE a == SubSeq(cs, 1, j - 1)
           b == SubSeq(cs, j + 1, Len(cs))
<1>2. /\ a \in Seq(T) /\ Len(a) = j - 1
      /\ \A k \in 1..(j - 1) : a[k] = cs[k]
  BY <1>1
<1>3. /\ b \in Seq(T) /\ Len(b) = Len(cs) - j
      /\ \A k \in 1..(Len(cs) - j) : b[k] = cs[j + k]
  BY <1>1
<1>4. RemoveAt(cs, j) = a \o b
  BY DEF RemoveAt
<1> HIDE DEF a, b
<1>5. a \o b \in Seq(T) /\ Len(a \o b) = Len(cs) - 1
  <2>1. a \o b \in Seq(T) /\ Len(a \o b) = Len(a) + Len(b)
    BY <1>2, <1>3, ConcatProperties
  <2> QED
    BY <1>1, <1>2, <1>3, <2>1
<1>6. ASSUME NEW k \in DOMAIN (a \o b)
      PROVE  \E m \in DOMAIN cs : (a \o b)[k] = cs[m]
  <2>1. k \in 1..(Len(cs) - 1)
    BY <1>5
  <2>2. CASE k <= j - 1
    <3>1. (a \o b)[k] = a[k]
      BY <1>1, <1>2, <1>3, <2>1, <2>2
    <3>2. k \in DOMAIN cs /\ a[k] = cs[k]
      BY <1>1, <1>2, <2>1, <2>2
    <3> QED
      BY <3>1, <3>2
  <2>3. CASE k > j - 1
    <3>1. (a \o b)[k] = b[k - (j - 1)] /\ k - (j - 1) \in 1..(Len(cs) - j)
      BY <1>1, <1>2, <1>3, <2>1, <2>3
    <3>2. b[k - (j - 1)] = cs[j + (k - (j - 1))] /\ j + (k - (j - 1)) \in DOMAIN cs
      BY <1>1, <1>3, <2>1, <2>3, <3>1
    <3> QED
      BY <3>1, <3>2
  <2> QED
    BY <1>1, <2>1, <2>2, <2>3
<1> QED
  BY <1>4, <1>5, <1>6 DEF From

\* A list with others behind it.
LEMMA BehindEachOther ==
    ASSUME NEW S, NEW T, NEW a \in Seq(S), NEW b \in Seq(T), NEW k \in DOMAIN (a \o b)
    PROVE  \/ \E m \in DOMAIN a : (a \o b)[k] = a[m]
           \/ \E m \in DOMAIN b : (a \o b)[k] = b[m]
<1>1. a \in Seq(S \cup T) /\ b \in Seq(S \cup T)
  BY SeqMonotonic
<1>2. /\ a \o b \in Seq(S \cup T)
      /\ Len(a \o b) = Len(a) + Len(b)
      /\ \A i \in 1 .. (Len(a) + Len(b)) : (a \o b)[i] = IF i <= Len(a) THEN a[i] ELSE b[i - Len(a)]
  BY <1>1, ConcatProperties
<1>3. /\ Len(a) \in Nat /\ Len(b) \in Nat /\ DOMAIN a = 1..Len(a) /\ DOMAIN b = 1..Len(b)
      /\ DOMAIN (a \o b) = 1..(Len(a) + Len(b))
  BY <1>2
<1>4. CASE k <= Len(a)
  BY <1>2, <1>3, <1>4
<1>5. CASE ~(k <= Len(a))
  <2>1. (a \o b)[k] = b[k - Len(a)] /\ k - Len(a) \in DOMAIN b
    BY <1>2, <1>3, <1>5
  <2> QED
    BY <2>1
<1> QED
  BY <1>4, <1>5

-----------------------------------------------------------------------------
(* Tables, bills and what is asked for on the floor.                       *)

\* BillRow
OwnName(r) == r.opener # Nobody /\ Roles[r.opener] = {"operational_staff"} => r.waiter = r.opener

Row(r) == {"status", "table", "waiter", "opener"} \subseteq DOMAIN r /\ OwnName(r)

Rows(bs) == (\E T : bs \in Seq(T)) /\ \A b \in DOMAIN bs : Row(bs[b])

FloorChanges == {"create", "transfer", "void", "assign", "addTable"}

\* A request that may be under way, or its answer, on page p.
Fits(c, p, ts, bs) ==
    /\ {"op", "phase", "mine", "heard"} \subseteq DOMAIN c
    /\ c.op \in FloorOps \cup KitchenOps
    /\ c.op \in Reads \/ c.mine => p = IF c.op \in FloorOps THEN "floor" ELSE "kitchen"
    /\ c.op \in FloorChanges => {"args", "calm"} \subseteq DOMAIN c
    /\ c.op = "create" => OwnName(c.args)
    /\ c.op = "addTable" => c.args.table \in DOMAIN AreaOf
    /\ c.op = "tables" /\ c.phase = "answered" => "data" \in DOMAIN c /\ DOMAIN c.data \subseteq ts
    \* what was asked for calmly finds no bill on its table
    /\ Puts(c) /\ c.phase = "sent" /\ c.calm => OpenAmong(bs, Target(c)) = {}

AllFit(cs, p, ts, bs) ==
    (\E T : cs \in Seq(T)) /\ \A k \in DOMAIN cs : Fits(cs[k], p, ts, bs)

\* What the floor plan shows.
FloorFits(l, p, ts, bs) == p = "floor" =>
    /\ {"loading", "board", "menu", "modal", "waiter", "opening", "assign"} \subseteq DOMAIN l
    /\ DOMAIN l.board \subseteq ts
    /\ l.menu # NoMenu => l.menu.table \in ts
    /\ l.modal # NoMenu => DOMAIN l.modal = {"table", "calm"}
    /\ l.modal # NoMenu /\ l.modal.calm => OpenAmong(bs, l.modal.table) = {}

FloorInv ==
    /\ tables \subseteq DOMAIN AreaOf
    /\ Rows(bills)
    /\ FloorFits(local, page, tables, bills)
    /\ AllFit(calls, page, tables, bills)
    /\ ~crowded

-----------------------------------------------------------------------------
(* Requests that change on the way.                                        *)

LEMMA FitsAgain ==
    ASSUME NEW c, NEW d, NEW p, NEW q, NEW ts, NEW us, NEW bs, NEW cs, Fits(c, p, ts, bs),
           {"op", "phase", "mine", "heard"} \subseteq DOMAIN d, d.op = c.op, ts \subseteq us,
           d.mine => c.mine,
           c.op \in Reads \/ d.mine => q = p,
           c.op \in FloorChanges => {"args", "calm"} \subseteq DOMAIN d /\ d.args = c.args,
           c.op = "tables" /\ d.phase = "answered" => "data" \in DOMAIN d /\ DOMAIN d.data \subseteq us,
           Puts(c) /\ d.phase = "sent" /\ d.calm =>
               /\ c.phase = "sent" /\ c.calm
               /\ OpenAmong(bs, Target(c)) = {} => OpenAmong(cs, Target(c)) = {}
    PROVE  Fits(d, q, us, cs)
<1>1. c.op \in Reads \/ d.mine => q = IF c.op \in FloorOps THEN "floor" ELSE "kitchen"
  BY DEF Fits
<1>2. Puts(c) /\ d.phase = "sent" /\ d.calm => OpenAmong(cs, Target(c)) = {}
  BY DEF Fits
<1>3. c.op \in {"create", "transfer"} => d.args = c.args
  BY DEF FloorChanges
<1>4. Puts(d) /\ d.phase = "sent" /\ d.calm => OpenAmong(cs, Target(d)) = {}
  <2>1. Puts(d) => Puts(c) /\ Target(d) = Target(c)
    BY <1>3 DEF Puts, Target
  <2> QED
    BY <1>2, <2>1
<1>5. c.op = "create" => OwnName(d.args)
  BY <1>3 DEF Fits
<1>6. c.op = "addTable" => d.args.table \in DOMAIN AreaOf
  BY DEF Fits, FloorChanges
<1> QED
  BY <1>1, <1>4, <1>5, <1>6 DEF Fits

\* A handler whose page has left, or that nobody waits for.
LEMMA ForgottenFits ==
    ASSUME NEW c, NEW p, NEW ts, NEW bs, Fits(c, p, ts, bs)
    PROVE  /\ c.op \notin Reads => \A q : Fits([c EXCEPT !.mine = FALSE], q, ts, bs)
           /\ c.op \notin Reads => \A q : Fits([c EXCEPT !.mine = FALSE, !.heard = FALSE], q, ts, bs)
           /\ Fits([c EXCEPT !.heard = FALSE], p, ts, bs)
<1>0. {"op", "phase", "mine", "heard"} \subseteq DOMAIN c
  BY DEF Fits
<1>1. ASSUME c.op \notin Reads, NEW q PROVE Fits([c EXCEPT !.mine = FALSE], q, ts, bs)
  <2> DEFINE d == [c EXCEPT !.mine = FALSE]
  <2>1. /\ DOMAIN d = DOMAIN c /\ d.op = c.op /\ d.phase = c.phase /\ d.mine = FALSE
        /\ "args" \in DOMAIN c => d.args = c.args
        /\ "calm" \in DOMAIN c => d.calm = c.calm
        /\ "data" \in DOMAIN c => d.data = c.data
    BY <1>0
  <2> HIDE DEF d
  <2>2. c.op \in FloorChanges => {"args", "calm"} \subseteq DOMAIN c
    BY DEF Fits
  <2>3. Puts(c) => c.op \in FloorChanges
    BY DEF FloorChanges, Puts
  <2>4. c.op # "tables"
    BY <1>1 DEF Reads
  <2>5. Fits(d, q, ts, bs)
    BY <1>0, <1>1, <2>1, <2>2, <2>3, <2>4, FitsAgain
  <2> QED
    BY <2>5 DEF d
<1>2. ASSUME c.op \notin Reads, NEW q PROVE Fits([c EXCEPT !.mine = FALSE, !.heard = FALSE], q, ts, bs)
  <2> DEFINE d == [c EXCEPT !.mine = FALSE, !.heard = FALSE]
  <2>1. /\ DOMAIN d = DOMAIN c /\ d.op = c.op /\ d.phase = c.phase /\ d.mine = FALSE
        /\ "args" \in DOMAIN c => d.args = c.args
        /\ "calm" \in DOMAIN c => d.calm = c.calm
        /\ "data" \in DOMAIN c => d.data = c.data
    BY <1>0
  <2> HIDE DEF d
  <2>2. c.op \in FloorChanges => {"args", "calm"} \subseteq DOMAIN c
    BY DEF Fits
  <2>3. Puts(c) => c.op \in FloorChanges
    BY DEF FloorChanges, Puts
  <2>4. c.op # "tables"
    BY <1>2 DEF Reads
  <2>5. Fits(d, q, ts, bs)
    BY <1>0, <1>2, <2>1, <2>2, <2>3, <2>4, FitsAgain
  <2> QED
    BY <2>5 DEF d
<1>3. Fits([c EXCEPT !.heard = FALSE], p, ts, bs)
  <2> DEFINE d == [c EXCEPT !.heard = FALSE]
  <2>1. /\ DOMAIN d = DOMAIN c /\ d.op = c.op /\ d.phase = c.phase /\ d.mine = c.mine
        /\ "args" \in DOMAIN c => d.args = c.args
        /\ "calm" \in DOMAIN c => d.calm = c.calm
        /\ "data" \in DOMAIN c => d.data = c.data
    BY <1>0
  <2> HIDE DEF d
  <2>2. /\ c.op \in FloorChanges => {"args", "calm"} \subseteq DOMAIN c
        /\ c.op = "tables" /\ c.phase = "answered" => "data" \in DOMAIN c /\ DOMAIN c.data \subseteq ts
    BY DEF Fits
  <2>3. Puts(c) => c.op \in FloorChanges
    BY DEF FloorChanges, Puts
  <2>5. Fits(d, p, ts, bs)
    BY <1>0, <2>1, <2>2, <2>3, FitsAgain
  <2> QED
    BY <2>5 DEF d
<1> QED
  BY <1>1, <1>2, <1>3

\* What became of the table in the meantime.
LEMMA DisturbedFits ==
    ASSUME NEW c, NEW p, NEW ts, NEW us, NEW news, Fits(c, p, ts, bills), ts \subseteq us
    PROVE  Fits(IF Puts(c) /\ Comes(news, Target(c)) THEN [c EXCEPT !.calm = FALSE] ELSE c, p, us, news)
<1> DEFINE d == IF Puts(c) /\ Comes(news, Target(c)) THEN [c EXCEPT !.calm = FALSE] ELSE c
<1>0. {"op", "phase", "mine", "heard"} \subseteq DOMAIN c
  BY DEF Fits
<1>1. /\ DOMAIN d = DOMAIN c /\ d.op = c.op /\ d.phase = c.phase /\ d.mine = c.mine
      /\ "args" \in DOMAIN c => d.args = c.args
      /\ "data" \in DOMAIN c => d.data = c.data
      /\ "calm" \in DOMAIN c /\ Puts(c) =>
            d.calm = IF Comes(news, Target(c)) THEN FALSE ELSE c.calm
  BY <1>0
<1>2. ~Comes(news, Target(c)) /\ OpenAmong(bills, Target(c)) = {} => OpenAmong(news, Target(c)) = {}
  BY DEF Comes, OpenBills
<1> HIDE DEF d
<1>3. /\ c.op \in FloorChanges => {"args", "calm"} \subseteq DOMAIN c
      /\ c.op = "tables" /\ c.phase = "answered" => "data" \in DOMAIN c /\ DOMAIN c.data \subseteq ts
  BY DEF Fits
<1>4. Puts(c) => c.op \in FloorChanges
  BY DEF FloorChanges, Puts
<1>5. Puts(c) /\ d.phase = "sent" /\ d.calm =>
          /\ c.phase = "sent" /\ c.calm
          /\ OpenAmong(bills, Target(c)) = {} => OpenAmong(news, Target(c)) = {}
  BY <1>1, <1>2, <1>3, <1>4
<1>6. Fits(d, p, us, news)
  BY <1>0, <1>1, <1>3, <1>5, FitsAgain
<1> QED
  BY <1>6 DEF d

\* What comes back.
LEMMA AnswerFits ==
    ASSUME NEW c, NEW p, NEW ts, NEW us, NEW bs, NEW cs, Fits(c, p, ts, bs), ts \subseteq us,
           NEW v, NEW part \in {"ok", "data", "done"},
           c.op = "tables" => part = "data" /\ DOMAIN v \subseteq us
    PROVE  Fits(Answered(c, part, v), p, us, cs)
<1> DEFINE d == Answered(c, part, v)
<1>0. {"op", "phase", "mine", "heard"} \subseteq DOMAIN c
  BY DEF Fits
<1>1. /\ DOMAIN d = DOMAIN c \cup {part} /\ d.op = c.op /\ d.phase = "answered" /\ d.mine = c.mine
      /\ "args" \in DOMAIN c => d.args = c.args
      /\ part = "data" => d.data = v
  BY <1>0 DEF Answered
<1> HIDE DEF d
<1>2. c.op \in FloorChanges => {"args", "calm"} \subseteq DOMAIN c
  BY DEF Fits
<1>4. Fits(d, p, us, cs)
  BY <1>0, <1>1, <1>2, FitsAgain
<1> QED
  BY <1>4 DEF d

-----------------------------------------------------------------------------
(* Lists of requests that fit.                                             *)

LEMMA FitFrom ==
    ASSUME NEW cs, NEW ds, NEW p, NEW ts, NEW bs, AllFit(cs, p, ts, bs), From(ds, cs),
           \E T : ds \in Seq(T)
    PROVE  AllFit(ds, p, ts, bs)
  BY DEF AllFit, From

LEMMA FitRest ==
    ASSUME NEW cs, NEW j \in DOMAIN cs, NEW p, NEW ts, NEW bs, AllFit(cs, p, ts, bs)
    PROVE  AllFit(RemoveAt(cs, j), p, ts, bs)
  BY RestIsFrom, FitFrom DEF AllFit

LEMMA FitBehind ==
    ASSUME NEW a, NEW b, NEW p, NEW ts, NEW bs, AllFit(a, p, ts, bs), AllFit(b, p, ts, bs)
    PROVE  AllFit(a \o b, p, ts, bs)
<1>1. PICK S : a \in Seq(S)
  BY DEF AllFit
<1>2. PICK T : b \in Seq(T)
  BY DEF AllFit
<1>3. a \o b \in Seq(S \cup T)
  <2>1. a \in Seq(S \cup T) /\ b \in Seq(S \cup T)
    BY <1>1, <1>2, SeqMonotonic
  <2> QED
    BY <2>1, ConcatProperties
<1>4. ASSUME NEW k \in DOMAIN (a \o b) PROVE Fits((a \o b)[k], p, ts, bs)
  <2>1. \/ \E m \in DOMAIN a : (a \o b)[k] = a[m]
        \/ \E m \in DOMAIN b : (a \o b)[k] = b[m]
    BY <1>1, <1>2, BehindEachOther
  <2> QED
    BY <2>1 DEF AllFit
<1> QED
  BY <1>3, <1>4 DEF AllFit

LEMMA FitOne ==
    ASSUME NEW d, NEW p, NEW ts, NEW bs, Fits(d, p, ts, bs)
    PROVE  AllFit(<<d>>, p, ts, bs)
<1>1. <<d>> \in Seq({d}) /\ \A k \in DOMAIN <<d>> : <<d>>[k] = d
  OBVIOUS
<1> QED
  BY <1>1 DEF AllFit

LEMMA FitNone ==
    ASSUME NEW p, NEW ts, NEW bs
    PROVE  AllFit(<<>>, p, ts, bs)
<1>1. <<>> \in Seq({}) /\ DOMAIN <<>> = {}
  OBVIOUS
<1> QED
  BY <1>1 DEF AllFit

LEMMA FitNext ==
    ASSUME NEW cs, NEW d, NEW p, NEW ts, NEW bs, AllFit(cs, p, ts, bs), Fits(d, p, ts, bs)
    PROVE  AllFit(Append(cs, d), p, ts, bs)
<1>1. PICK S : cs \in Seq(S)
  BY DEF AllFit
<1>2. Append(cs, d) = cs \o <<d>>
  <2>1. cs \in Seq(S \cup {d}) /\ d \in S \cup {d}
    BY <1>1, SeqMonotonic
  <2> QED
    BY <2>1, AppendIsConcat
<1> QED
  BY <1>2, FitOne, FitBehind

LEMMA FitInPlace ==
    ASSUME NEW cs, NEW j \in DOMAIN cs, NEW d, NEW p, NEW ts, NEW bs, AllFit(cs, p, ts, bs),
           Fits(d, p, ts, bs)
    PROVE  AllFit([cs EXCEPT ![j] = d], p, ts, bs)
<1>1. PICK S : cs \in Seq(S)
  BY DEF AllFit
<1>2. [cs EXCEPT ![j] = d] \in Seq(S \cup {d})
  <2>1. cs \in Seq(S \cup {d}) /\ j \in 1..Len(cs)
    BY <1>1, SeqMonotonic
  <2> QED
    BY <2>1, ExceptSeq
<1>3. \A k \in DOMAIN [cs EXCEPT ![j] = d] :
        k \in DOMAIN cs /\ [cs EXCEPT ![j] = d][k] = IF k = j THEN d ELSE cs[k]
  OBVIOUS
<1> QED
  BY <1>2, <1>3 DEF AllFit

LEMMA FitPolls ==
    ASSUME NEW p, NEW ts, NEW bs
    PROVE  AllFit(Polls(p), p, ts, bs)
<1>1. \A op \in {"tables", "tickets", "silent"} :
        /\ DOMAIN Read(op) = {"op", "phase", "mine", "heard"}
        /\ Read(op).op = op /\ Read(op).phase = "sent"
  BY DEF Read
<1>2. p = "floor" => Fits(Read("tables"), p, ts, bs)
  BY <1>1 DEF Fits, Puts, FloorOps, KitchenOps, FloorChanges
<1>3. p = "kitchen" => Fits(Read("tickets"), p, ts, bs)
  BY <1>1 DEF Fits, Puts, FloorOps, KitchenOps, FloorChanges
<1> QED
  BY <1>2, <1>3, FitOne, FitNone DEF Polls

\* What is left under way when a page is left, and after a restart.
LEMMA FitUnmounted ==
    ASSUME NEW cs, NEW p, NEW q, NEW ts, NEW bs, AllFit(cs, p, ts, bs)
    PROVE  AllFit(Unmounted(cs), q, ts, bs) /\ AllFit(Abandoned(cs), q, ts, bs)
<1>1. PICK S : cs \in Seq(S)
  BY DEF AllFit
<1> DEFINE K == {j \in DOMAIN cs : cs[j].op \notin Reads}
           L == {j \in DOMAIN cs : cs[j].op \notin Reads /\ cs[j].phase = "sent"}
           a == Only(cs, K)
           b == Only(cs, L)
<1>2. a \in Seq(S) /\ \A n \in DOMAIN a : \E i \in K : a[n] = cs[i]
  <2>1. K \subseteq DOMAIN cs
    OBVIOUS
  <2> HIDE DEF K
  <2> QED
    BY <1>1, <2>1, OnlyIsFrom
<1>3. b \in Seq(S) /\ \A n \in DOMAIN b : \E i \in L : b[n] = cs[i]
  <2>1. L \subseteq DOMAIN cs
    OBVIOUS
  <2> HIDE DEF L
  <2> QED
    BY <1>1, <2>1, OnlyIsFrom
<1>4. /\ Unmounted(cs) = [j \in DOMAIN a |-> [a[j] EXCEPT !.mine = FALSE]]
      /\ Abandoned(cs) = [j \in DOMAIN b |-> [b[j] EXCEPT !.mine = FALSE, !.heard = FALSE]]
  BY DEF Unmounted, Changes, Abandoned
<1>5. \A n \in DOMAIN a : a[n].op \notin Reads /\ Fits(a[n], p, ts, bs)
  BY <1>2 DEF AllFit
<1>6. \A n \in DOMAIN b : b[n].op \notin Reads /\ Fits(b[n], p, ts, bs)
  BY <1>3 DEF AllFit
<1> HIDE DEF a, b
<1> DEFINE A == {[a[j] EXCEPT !.mine = FALSE] : j \in DOMAIN a}
           B == {[b[j] EXCEPT !.mine = FALSE, !.heard = FALSE] : j \in DOMAIN b}
<1>7. Unmounted(cs) \in Seq(A) /\ DOMAIN Unmounted(cs) = DOMAIN a
  <2>1. DOMAIN a = 1..Len(a) /\ Len(a) \in Nat
    BY <1>2
  <2>2. DOMAIN Unmounted(cs) = DOMAIN a /\ \A j \in DOMAIN a : Unmounted(cs)[j] \in A
    BY <1>4
  <2>3. Unmounted(cs) = [j \in 1..Len(a) |-> Unmounted(cs)[j]]
    BY <1>4, <2>1
  <2> HIDE DEF A
  <2> QED
    BY <2>1, <2>2, <2>3
<1>8. Abandoned(cs) \in Seq(B) /\ DOMAIN Abandoned(cs) = DOMAIN b
  <2>1. DOMAIN b = 1..Len(b) /\ Len(b) \in Nat
    BY <1>3
  <2>2. DOMAIN Abandoned(cs) = DOMAIN b /\ \A j \in DOMAIN b : Abandoned(cs)[j] \in B
    BY <1>4
  <2>3. Abandoned(cs) = [j \in 1..Len(b) |-> Abandoned(cs)[j]]
    BY <1>4, <2>1
  <2> HIDE DEF B
  <2> QED
    BY <2>1, <2>2, <2>3
<1>9. \A n \in DOMAIN Unmounted(cs) : Fits(Unmounted(cs)[n], q, ts, bs)
  <2>1. ASSUME NEW n \in DOMAIN a PROVE Fits([a[n] EXCEPT !.mine = FALSE], q, ts, bs)
    BY <1>5, ForgottenFits
  <2> QED
    BY <1>4, <2>1
<1>10. \A n \in DOMAIN Abandoned(cs) : Fits(Abandoned(cs)[n], q, ts, bs)
  <2>1. ASSUME NEW n \in DOMAIN b PROVE Fits([b[n] EXCEPT !.mine = FALSE, !.heard = FALSE], q, ts, bs)
    BY <1>6, ForgottenFits
  <2> QED
    BY <1>4, <2>1
<1> QED
  BY <1>7, <1>8, <1>9, <1>10 DEF AllFit

LEMMA FitDisturbed ==
    ASSUME NEW cs, NEW p, NEW ts, NEW us, NEW news, AllFit(cs, p, ts, bills), ts \subseteq us
    PROVE  AllFit(Disturbed(cs, news), p, us, news) /\ DOMAIN Disturbed(cs, news) = DOMAIN cs
<1>1. PICK S : cs \in Seq(S)
  BY DEF AllFit
<1> DEFINE D(c) == IF Puts(c) /\ Comes(news, Target(c)) THEN [c EXCEPT !.calm = FALSE] ELSE c
<1>2. Disturbed(cs, news) = [j \in DOMAIN cs |-> D(cs[j])]
  BY DEF Disturbed
<1>3. \A j \in DOMAIN cs : Fits(D(cs[j]), p, us, news)
  BY DisturbedFits DEF AllFit
<1> HIDE DEF D
<1>4. DOMAIN cs = 1..Len(cs) /\ Len(cs) \in Nat
  BY <1>1
<1>5. Disturbed(cs, news) \in Seq({D(cs[j]) : j \in DOMAIN cs})
  BY <1>2, <1>4
<1> QED
  BY <1>2, <1>3, <1>5 DEF AllFit

\* The dialog that is open.
LEMMA DialogFits ==
    ASSUME FloorFits(local, page, tables, bills), NEW ts, tables \subseteq ts, NEW news
    PROVE  FloorFits(DialogAfter(news), page, ts, news)
<1> DEFINE m == local.modal
           l == DialogAfter(news)
<1>1. CASE page = "floor" /\ m # NoMenu /\ Comes(news, m.table)
  <2>1. l = [local EXCEPT !.modal.calm = FALSE]
    BY <1>1 DEF DialogAfter
  <2>2. DOMAIN m = {"table", "calm"} /\ "modal" \in DOMAIN local
    BY <1>1 DEF FloorFits
  <2>3. l.modal.calm = FALSE /\ DOMAIN l.modal = {"table", "calm"}
    BY <2>1, <2>2
  <2>4. DOMAIN l = DOMAIN local /\ l.board = local.board /\ l.menu = local.menu
    BY <1>1, <2>1 DEF FloorFits
  <2> HIDE DEF l
  <2> QED
    BY <1>1, <2>3, <2>4 DEF FloorFits, l
<1>2. CASE ~(page = "floor" /\ m # NoMenu /\ Comes(news, m.table))
  <2>1. l = local
    BY <1>2 DEF DialogAfter
  <2>2. page = "floor" /\ m # NoMenu /\ m.calm => OpenAmong(news, m.table) = {}
    BY <1>2 DEF FloorFits, Comes, OpenBills
  <2> HIDE DEF l
  <2> QED
    BY <2>1, <2>2 DEF FloorFits, l
<1> QED
  BY <1>1, <1>2

-----------------------------------------------------------------------------
(* Steps that leave tables and bills alone.                                *)

LEMMA FloorStays ==
    ASSUME FloorInv, UNCHANGED floor, FloorFits(local', page', tables, bills),
           AllFit(calls', page', tables, bills)
    PROVE  FloorInv'
  BY DEF FloorInv, floor

LEMMA FloorSleeps ==
    ASSUME FloorInv, UNCHANGED <<floor, local, page, calls>>
    PROVE  FloorInv'
  BY FloorStays DEF FloorInv

\* Every page starts afresh.
LEMMA FreshFits == \A q, ts, bs : FloorFits(Fresh(q), q, ts, bs)
  BY DEF FloorFits, Fresh, FreshFloor

LEMMA ShowFits ==
    ASSUME FloorInv, UNCHANGED floor, NEW cs, AllFit(cs, page, tables, bills), NEW q, Show(q, cs)
    PROVE  FloorInv'
<1>1. CASE q = page
  BY <1>1, FloorStays DEF Show, FloorInv
<1>2. CASE q # page
  <2>1. page' = q /\ local' = Fresh(q) /\ calls' = Unmounted(cs) \o Polls(q)
    BY <1>2 DEF Show
  <2>2. AllFit(Unmounted(cs) \o Polls(q), q, tables, bills)
    BY FitUnmounted, FitPolls, FitBehind
  <2> QED
    BY <2>1, <2>2, FreshFits, FloorStays
<1> QED
  BY <1>1, <1>2

LEMMA SignInFits ==
    ASSUME FloorInv, UNCHANGED floor, NEW cs, AllFit(cs, "login", tables, bills), ToSignIn(cs)
    PROVE  FloorInv'
<1>1. page' = "login" /\ local' = Fresh("login") /\ calls' = cs
  BY DEF ToSignIn
<1> QED
  BY <1>1, FreshFits, FloorStays

LEMMA ReloadFits ==
    ASSUME FloorInv, UNCHANGED floor, Reload
    PROVE  FloorInv'
<1>1. AllFit(Abandoned(calls), "login", tables, bills)
  BY FitUnmounted DEF FloorInv
<1> QED
  BY <1>1, SignInFits DEF Reload

LEMMA LeadsFit ==
    ASSUME FloorInv, UNCHANGED floor, NEW cs, AllFit(cs, page, tables, bills), NEW path,
           Goto(path, cs) \/ LeadTo(path, cs)
    PROVE  FloorInv'
<1>1. CASE Goto(path, cs)
  BY <1>1, ShowFits DEF Goto
<1>2. CASE ToSignIn(Unmounted(cs))
  BY <1>2, FitUnmounted, SignInFits
<1> QED
  BY <1>1, <1>2 DEF LeadTo

LEMMA FrameFits ==
    ASSUME FloorInv, UNCHANGED floor, FrameNext
    PROVE  FloorInv'
<1>0. AllFit(calls, page, tables, bills)
  BY DEF FloorInv
<1>1. ASSUME NEW who, AdminLogin(who) \/ PosLogin(who) \/ PressPin(who) \/ Register(who)
      PROVE  FloorInv'
  BY <1>1, FloorSleeps DEF AdminLogin, PosLogin, PressPin, Register, AskSignIn
<1>2. CASE ChooseMode
  <2>1. page \in {"login", "register"} /\ UNCHANGED <<page, calls>>
    BY <1>2 DEF ChooseMode, ModesFrom
  <2>2. FloorFits(local', page', tables, bills)
    BY <2>1 DEF FloorFits
  <2> QED
    BY <1>0, <2>1, <2>2, FloorStays
<1>3. CASE Link
  BY <1>0, <1>3, ShowFits DEF Link
<1>4. CASE AnswerSignIn
  <2>1. PICK s \in signIns : SignedIn(s) \/ WrongPin(s) \/ SignInFailed(s)
    BY <1>4 DEF AnswerSignIn
  <2>2. CASE SignedIn(s)
    BY <1>0, <2>2, ShowFits DEF SignedIn
  <2>3. CASE WrongPin(s)
    BY <2>3, ReloadFits DEF WrongPin
  <2>4. CASE SignInFailed(s)
    BY <2>4, FloorSleeps DEF SignInFailed
  <2> QED
    BY <2>1, <2>2, <2>3, <2>4
<1>5. CASE Follow
  BY <1>0, <1>5, LeadsFit DEF Follow
<1>6. CASE SignOut
  BY <1>0, <1>6, FitUnmounted, SignInFits DEF SignOut
<1>7. CASE Lock
  BY <1>7, FloorSleeps DEF Lock
<1>8. CASE Restart \/ Expired
  BY <1>8, ReloadFits DEF Restart, Expired
<1> QED
  BY <1>1, <1>2, <1>3, <1>4, <1>5, <1>6, <1>7, <1>8 DEF FrameNext

\* The kitchen display asks for nothing on the floor, and changes no other page.
LEMMA KitchenFits ==
    ASSUME FloorInv, UNCHANGED floor, KitchenNext
    PROVE  FloorInv'
<1>0. AllFit(calls, page, tables, bills) /\ FloorFits(local, page, tables, bills)
  BY DEF FloorInv
<1>1. ASSUME NEW op \in {"ack", "dispatch"}, NEW k, AskKitchen(op, k), page = "kitchen"
      PROVE  FloorInv'
  <2> DEFINE d == [op |-> op, args |-> k, phase |-> "sent", mine |-> TRUE, heard |-> TRUE]
  <2>1. Fits(d, page, tables, bills)
    BY <1>1 DEF Fits, Puts, FloorOps, KitchenOps, FloorChanges
  <2>2. calls' = Append(calls, d) /\ UNCHANGED <<page, local>>
    BY <1>1 DEF AskKitchen
  <2> HIDE DEF d
  <2>3. AllFit(calls', page', tables, bills)
    BY <1>0, <2>1, <2>2, FitNext
  <2> QED
    BY <1>0, <2>2, <2>3, FloorStays
<1>2. CASE KitchenScreen
  BY <1>1, <1>2 DEF KitchenScreen, Acknowledge, Dispatch
<1>3. \A op \in {"silent", "tickets"} : page = "kitchen" => Fits(Read(op), page, tables, bills)
  BY DEF Fits, Puts, FloorOps, KitchenOps, FloorChanges, Read
<1>4. CASE PollKitchen
  <2>1. PICK op \in {"silent", "tickets"} : calls' = Append(calls, Read(op))
    BY <1>4 DEF PollKitchen
  <2>2. page = "kitchen" /\ page' = page
    BY <1>4 DEF PollKitchen
  <2>3. AllFit(calls', page', tables, bills)
    BY <1>0, <1>3, <2>1, <2>2, FitNext
  <2>4. FloorFits(local', page', tables, bills)
    BY <2>2 DEF FloorFits
  <2> QED
    BY <2>3, <2>4, FloorStays
<1>5. CASE FromTheFloor
  BY <1>5, FloorSleeps DEF FromTheFloor
<1>6. ASSUME NEW j \in DOMAIN calls, ResolveKitchen(j)
      PROVE  FloorInv'
  <2>0. Fits(calls[j], page, tables, bills) /\ AllFit(RemoveAt(calls, j), page, tables, bills)
    BY <1>0, FitRest DEF AllFit
  <2>1. calls[j].op \in KitchenOps /\ calls[j].op \notin FloorOps
    BY <1>6 DEF ResolveKitchen, ServeKitchen, AnswerKitchen, GiveUpKitchen, DropKitchen,
                KitchenOps, FloorOps
  <2>2. CASE ServeKitchen(j)
    <3>1. \A v, part : part \in {"data", "done"} =>
            Fits(Answered(calls[j], part, v), page, tables, bills)
      BY <2>0, <2>1, AnswerFits DEF FloorOps
    <3>2. calls' \in {[calls EXCEPT ![j] = Answered(calls[j], "data", CardsNow)],
                      [calls EXCEPT ![j] = Answered(calls[j], "done", TRUE)], RemoveAt(calls, j)}
      BY <2>2 DEF ServeKitchen
    <3>3. UNCHANGED <<page, local>>
      BY <2>2 DEF ServeKitchen
    <3>4. /\ AllFit([calls EXCEPT ![j] = Answered(calls[j], "data", CardsNow)], page, tables, bills)
          /\ AllFit([calls EXCEPT ![j] = Answered(calls[j], "done", TRUE)], page, tables, bills)
      BY <1>0, <3>1, FitInPlace
    <3>5. AllFit(calls', page', tables, bills)
      BY <2>0, <3>2, <3>3, <3>4
    <3> QED
      BY <1>0, <3>3, <3>5, FloorStays
  <2>3. ASSUME NEW ok, NEW rest, AllFit(rest, page, tables, bills), GoOnKitchen(calls[j], ok, rest)
        PROVE  FloorInv'
    <3>1. page' = page /\ (calls[j].mine => page = "kitchen")
      BY <2>0, <2>1, <2>3 DEF GoOnKitchen, Fits
    <3>2. FloorFits(local', page', tables, bills)
      <4>1. CASE calls[j].mine
        BY <3>1, <4>1 DEF FloorFits
      <4>2. CASE ~calls[j].mine
        BY <1>0, <2>3, <3>1, <4>2 DEF GoOnKitchen
      <4> QED
        BY <4>1, <4>2
    <3>3. AllFit(calls', page', tables, bills)
      <4>1. CASE calls[j].mine
        <5>1. AllFit(<<Read("silent")>>, page, tables, bills)
          BY <1>3, <3>1, <4>1, FitOne
        <5>2. calls' \in {rest \o <<Read("silent")>>, rest \o <<>>}
          BY <2>3 DEF GoOnKitchen
        <5> QED
          BY <2>3, <3>1, <5>1, <5>2, FitBehind, FitNone
      <4>2. CASE ~calls[j].mine
        <5>1. calls' = rest \o <<>>
          BY <2>3, <4>2 DEF GoOnKitchen
        <5> QED
          BY <2>3, <3>1, <5>1, FitBehind, FitNone
      <4> QED
        BY <4>1, <4>2
    <3> QED
      BY <3>2, <3>3, FloorStays
  <2>4. CASE AnswerKitchen(j)
    BY <2>0, <2>3, <2>4 DEF AnswerKitchen
  <2>5. CASE GiveUpKitchen(j)
    <3>1. \/ GoOnKitchen(calls[j], FALSE, RemoveAt(calls, j))
          \/ GoOnKitchen(calls[j], FALSE, [calls EXCEPT ![j].heard = FALSE])
      BY <2>5 DEF GiveUpKitchen
    <3>2. AllFit([calls EXCEPT ![j].heard = FALSE], page, tables, bills)
      <4>1. [calls EXCEPT ![j].heard = FALSE] = [calls EXCEPT ![j] = [calls[j] EXCEPT !.heard = FALSE]]
        OBVIOUS
      <4>2. Fits([calls[j] EXCEPT !.heard = FALSE], page, tables, bills)
        BY <2>0, ForgottenFits
      <4> QED
        BY <1>0, <4>1, <4>2, FitInPlace
    <3> QED
      BY <2>0, <2>3, <3>1, <3>2
  <2>6. CASE DropKitchen(j)
    BY <1>0, <2>0, <2>6, FloorStays DEF DropKitchen
  <2> QED
    BY <1>6, <2>2, <2>4, <2>5, <2>6 DEF ResolveKitchen
<1> QED
  BY <1>2, <1>4, <1>5, <1>6 DEF KitchenNext

-----------------------------------------------------------------------------
(* The floor plan asks.                                                    *)

LEMMA AskFits ==
    ASSUME FloorInv, page = "floor", NEW op \in FloorChanges, NEW args, NEW calm,
           op = "create" => OwnName(args),
           op = "addTable" => args.table \in DOMAIN AreaOf,
           op = "create" /\ calm => OpenBills(args.table) = {},
           op = "transfer" /\ calm => OpenBills(args.to) = {},
           AskFloor(op, args, calm), FloorFits(local', page, tables, bills)
    PROVE  FloorInv'
<1> DEFINE d == [op |-> op, args |-> args, phase |-> "sent", mine |-> TRUE, heard |-> TRUE, calm |-> calm]
<1>1. calls' = Append(calls, d) /\ page' = page /\ UNCHANGED floor
  BY DEF AskFloor
<1>2. Fits(d, page, tables, bills)
  <2>1. /\ DOMAIN d = {"op", "args", "phase", "mine", "heard", "calm"}
        /\ d.op = op /\ d.args = args /\ d.phase = "sent" /\ d.mine = TRUE /\ d.calm = calm
    OBVIOUS
  <2>2. Puts(d) /\ calm => OpenAmong(bills, Target(d)) = {}
    BY DEF Puts, Target, OpenBills
  <2>3. op \in FloorOps /\ op \notin Reads
    BY DEF FloorChanges, FloorOps, Reads
  <2> HIDE DEF d
  <2> QED
    BY <2>1, <2>2, <2>3 DEF Fits, FloorOps
<1> HIDE DEF d
<1>3. AllFit(calls', page', tables, bills)
  BY <1>1, <1>2, FitNext DEF FloorInv
<1> QED
  BY <1>1, <1>3, FloorStays

\* A table that is shown free, and as it is, has no open bill.
LEMMA BoardTells ==
    ASSUME FloorInv, NEW t, ShownAsItIs(t), local.board[t] = 0
    PROVE  OpenBills(t) = {}
<1> DEFINE S == OpenBills(t)
           n == Len(bills)
<1>1. S \subseteq 1..n /\ n \in Nat
  BY DEF FloorInv, Rows, OpenBills, OpenAmong
<1>2. ASSUME S # {} PROVE FALSE
  <2> DEFINE T == {n - b : b \in S}
  <2> HIDE DEF S, n
  <2>1. T \subseteq Nat /\ T # {}
    <3>1. ASSUME NEW b \in S PROVE n - b \in Nat
      <4>1. b \in 1..n
        BY <1>1
      <4> QED
        BY <1>1, <4>1
    <3>2. PICK b \in S : TRUE
      BY <1>2
    <3>3. n - b \in T
      BY <3>2
    <3> QED
      BY <3>1, <3>3
  <2>2. PICK k \in T : \A m \in T : k <= m
    BY <2>1, Smallest
  <2>3. PICK x \in S : k = n - x
    BY <2>2
  <2>4. \A y \in S : x >= y
    BY <1>1, <2>2, <2>3
  <2>5. Max(S) \in S
    BY <2>4 DEF Max
  <2>6. BillOn(t) = Max(S)
    BY <1>2 DEF BillOn, S
  <2>7. BillOn(t) = 0
    BY DEF ShownAsItIs
  <2>8. 0 \in 1..n
    BY <1>1, <2>5, <2>6, <2>7
  <2> QED
    BY <1>1, <2>8
<1> QED
  BY <1>2

LEMMA TurnFits ==
    ASSUME FloorInv, page = "floor", NEW l, FloorFits(l, page, tables, bills), Turn(l)
    PROVE  FloorInv'
  BY FloorStays DEF Turn, FloorInv

\* What a button changes of the page.
LEMMA ButtonFits ==
    ASSUME FloorInv, page = "floor"
    PROVE  /\ \A t \in DOMAIN local.board :
                /\ FloorFits([local EXCEPT !.menu = [table |-> t, bill |-> local.board[t]]],
                             page, tables, bills)
                /\ local.board[t] = 0 =>
                      FloorFits([local EXCEPT !.modal = [table |-> t, calm |-> ShownAsItIs(t)]],
                                page, tables, bills)
           /\ FloorFits([local EXCEPT !.menu = NoMenu], page, tables, bills)
           /\ FloorFits([local EXCEPT !.modal = NoMenu], page, tables, bills)
           /\ FloorFits([local EXCEPT !.opening = TRUE], page, tables, bills)
           /\ \A w : FloorFits([local EXCEPT !.waiter = w], page, tables, bills)
           /\ \A b : FloorFits([local EXCEPT !.assign = b], page, tables, bills)
           /\ \A b : FloorFits([local EXCEPT !.assign = b, !.menu = NoMenu], page, tables, bills)
<1>1. FloorFits(local, page, tables, bills)
  BY DEF FloorInv
<1>2. ASSUME NEW t \in DOMAIN local.board, local.board[t] = 0
      PROVE  FloorFits([local EXCEPT !.modal = [table |-> t, calm |-> ShownAsItIs(t)]],
                       page, tables, bills)
  <2> DEFINE m == [table |-> t, calm |-> ShownAsItIs(t)]
  <2>1. DOMAIN m = {"table", "calm"} /\ (m.calm => OpenAmong(bills, m.table) = {})
    BY <1>2, BoardTells DEF OpenBills
  <2> HIDE DEF m
  <2>2. FloorFits([local EXCEPT !.modal = m], page, tables, bills)
    BY <1>1, <2>1 DEF FloorFits
  <2> QED
    BY <2>2 DEF m
<1>3. ASSUME NEW t \in DOMAIN local.board
      PROVE  FloorFits([local EXCEPT !.menu = [table |-> t, bill |-> local.board[t]]],
                       page, tables, bills)
  BY <1>1 DEF FloorFits
<1> QED
  BY <1>1, <1>2, <1>3 DEF FloorFits

LEMMA CreateFits ==
    ASSUME FloorInv, page = "floor", local.modal # NoMenu, CreateOrder
    PROVE  FloorInv'
<1> DEFINE args == [table |-> local.modal.table, waiter |-> WaiterFor, opener |-> user]
           calm == local.modal.calm
<1>1. AskFloor("create", args, calm) /\ local' = [local EXCEPT !.opening = TRUE]
  BY DEF CreateOrder
<1>2. OwnName(args)
  BY DEF OwnName, WaiterFor, IsWaitstaffOnly
<1>3. calm => OpenBills(args.table) = {}
  BY DEF FloorInv, FloorFits, OpenBills
<1> HIDE DEF args, calm
<1>4. FloorFits(local', page, tables, bills)
  BY <1>1, ButtonFits
<1> QED
  BY <1>1, <1>2, <1>3, <1>4, AskFits DEF FloorChanges

LEMMA TransferFits ==
    ASSUME FloorInv, page = "floor", Transfer
    PROVE  FloorInv'
<1> DEFINE t == local.menu.table
<1>1. PICK area \in {"All", AreaOf[t]} :
        /\ FreeTables(t, area) # {}
        /\ AskFloor("transfer", [from |-> t, to |-> Min(FreeTables(t, area))],
                    ShownAsItIs(Min(FreeTables(t, area))))
  BY DEF Transfer
<1> DEFINE args == [from |-> t, to |-> Min(FreeTables(t, area))]
           calm == ShownAsItIs(args.to)
<1>2. ASSUME calm PROVE OpenBills(args.to) = {}
  <2>1. FreeTables(t, area) \subseteq {x \in DOMAIN local.board : local.board[x] = 0}
    BY DEF FreeTables
  <2>2. DOMAIN local.board \subseteq Nat
    BY AreasAssumption DEF FloorInv, FloorFits
  <2>3. Min(FreeTables(t, area)) \in FreeTables(t, area)
    <3>1. PICK n \in FreeTables(t, area) : \A m \in FreeTables(t, area) : n <= m
      BY <1>1, <2>1, <2>2, Smallest
    <3> QED
      BY <3>1 DEF Min
  <2>4. local.board[args.to] = 0
    BY <2>1, <2>3
  <2> QED
    BY <1>2, <2>4, BoardTells
<1>3. AskFloor("transfer", args, calm) /\ local' = local
  BY <1>1 DEF Transfer
<1> HIDE DEF args, calm
<1> QED
  BY <1>2, <1>3, AskFits DEF FloorChanges, FloorInv

LEMMA ScreenFits ==
    ASSUME FloorInv, FloorScreen
    PROVE  FloorInv'
<1>0. page = "floor" /\ AllFit(calls, page, tables, bills) /\ FloorFits(local, page, tables, bills)
  BY DEF FloorScreen, AtFloor, FloorInv
<1>1. ASSUME Goto("pos", calls) /\ UNCHANGED <<floor, tries, sent, lost>>
      PROVE  FloorInv'
  BY <1>0, <1>1, LeadsFit
<1>2. ASSUME NEW t \in DOMAIN local.board, OpenTable(t) \/ HandleContextMenu(t)
      PROVE  FloorInv'
  BY <1>0, <1>1, <1>2, ButtonFits, TurnFits DEF OpenTable, OpenDialog, HandleContextMenu
<1>3. CASE local.modal # NoMenu /\ OpenModal
  BY <1>0, <1>3, CreateFits, ButtonFits, TurnFits DEF OpenModal
<1>4. CASE local.menu # NoMenu /\ ContextMenu
  <2>1. CASE ClearTable
    <3>1. AskFloor("void", [bill |-> BillToClear], FALSE) /\ FloorFits(local', page, tables, bills)
      BY <1>0, <2>1, ButtonFits DEF ClearTable
    <3> QED
      BY <1>0, <3>1, AskFits DEF FloorChanges
  <2>2. CASE Transfer /\ local.menu.bill # 0
    BY <1>0, <1>4, <2>2, TransferFits
  <2> QED
    BY <1>0, <1>1, <1>4, <2>1, <2>2, ButtonFits, TurnFits DEF ContextMenu
<1>5. CASE AssignModal
  <2>1. CASE Turn([local EXCEPT !.assign = 0])
    BY <1>0, <2>1, ButtonFits, TurnFits
  <2>2. ASSUME NEW w, AskFloor("assign", [bill |-> local.assign, waiter |-> w], FALSE), local' = local
        PROVE  FloorInv'
    BY <1>0, <2>2, AskFits DEF FloorChanges
  <2> QED
    BY <1>5, <2>1, <2>2 DEF AssignModal
<1>6. CASE AddTable
  <2>1. PICK t \in DOMAIN AreaOf : AskFloor("addTable", [table |-> t], FALSE) /\ local' = local
    BY <1>6 DEF AddTable
  <2> QED
    BY <1>0, <2>1, AskFits DEF FloorChanges
<1> QED
  BY <1>2, <1>3, <1>4, <1>5, <1>6 DEF FloorScreen, Grid

LEMMA PollFits ==
    ASSUME FloorInv, PollFloor
    PROVE  FloorInv'
<1>1. calls' = calls \o Polls(page) /\ UNCHANGED <<floor, local, page>>
  BY DEF PollFloor
<1>2. AllFit(calls', page, tables, bills)
  BY <1>1, FitPolls, FitBehind DEF FloorInv
<1> QED
  BY <1>1, <1>2, FloorStays DEF FloorInv

-----------------------------------------------------------------------------
(* Tables and bills change.                                                *)

LEMMA RowsAppend ==
    ASSUME NEW bs, Rows(bs), NEW r, Row(r)
    PROVE  Rows(Append(bs, r))
<1>0. PICK T : bs \in Seq(T)
  BY DEF Rows
<1>1. bs \in Seq(T \cup {r}) /\ r \in T \cup {r}
  BY <1>0, SeqMonotonic
<1>2. /\ Append(bs, r) \in Seq(T \cup {r})
      /\ Len(Append(bs, r)) = Len(bs) + 1
      /\ \A i \in 1..Len(bs) : Append(bs, r)[i] = bs[i]
      /\ Append(bs, r)[Len(bs) + 1] = r
  BY <1>1, AppendProperties
<1>3. Len(bs) \in Nat /\ DOMAIN bs = 1..Len(bs) /\ DOMAIN Append(bs, r) = 1..(Len(bs) + 1)
  BY <1>2
<1>4. ASSUME NEW b \in DOMAIN Append(bs, r) PROVE Row(Append(bs, r)[b])
  <2>1. b \in 1..Len(bs) \/ b = Len(bs) + 1
    BY <1>3
  <2> QED
    BY <1>2, <1>3, <2>1 DEF Rows
<1> QED
  BY <1>2, <1>4 DEF Rows

LEMMA RowsInPlace ==
    ASSUME NEW bs, Rows(bs), NEW i, NEW r, i \in DOMAIN bs => Row(r)
    PROVE  Rows([bs EXCEPT ![i] = r])
<1>0. PICK T : bs \in Seq(T)
  BY DEF Rows
<1>1. CASE i \in DOMAIN bs
  <2>1. bs \in Seq(T \cup {r}) /\ i \in 1..Len(bs)
    BY <1>0, <1>1, SeqMonotonic
  <2>2. [bs EXCEPT ![i] = r] \in Seq(T \cup {r})
    BY <2>1, ExceptSeq
  <2>3. \A b \in DOMAIN bs : [bs EXCEPT ![i] = r][b] = IF b = i THEN r ELSE bs[b]
    OBVIOUS
  <2>4. DOMAIN [bs EXCEPT ![i] = r] = DOMAIN bs
    OBVIOUS
  <2> QED
    BY <1>1, <2>2, <2>3, <2>4 DEF Rows
<1>2. CASE i \notin DOMAIN bs
  <2>1. [bs EXCEPT ![i] = r] = bs
    BY <1>0, <1>2
  <2> QED
    BY <2>1
<1> QED
  BY <1>1, <1>2

\* What the server makes of a request leaves every row whole, and its name.
LEMMA CarriedRows ==
    ASSUME FloorInv, NEW c, Fits(c, page, tables, bills)
    PROVE  Rows(Carried(c))
<1>0. Rows(bills)
  BY DEF FloorInv
<1>1. DOMAIN bills = 1..Len(bills) /\ Len(bills) \in Nat /\ \A b \in DOMAIN bills : Row(bills[b])
  BY <1>0 DEF Rows
<1>2. CASE c.op = "create"
  <2> DEFINE r == [status |-> "open", table |-> c.args.table, waiter |-> c.args.waiter,
                   opener |-> c.args.opener]
  <2>1. Carried(c) = Append(bills, r)
    BY <1>2 DEF Carried
  <2>2. Row(r)
    BY <1>2 DEF Fits, Row, OwnName
  <2> HIDE DEF r
  <2> QED
    BY <1>0, <2>1, <2>2, RowsAppend
<1>3. CASE c.op = "transfer"
  <2> DEFINE R(b) == IF b \in OpenBills(c.args.from) THEN [bills[b] EXCEPT !.table = c.args.to]
                     ELSE bills[b]
  <2>1. Carried(c) = [b \in DOMAIN bills |-> R(b)]
    BY <1>3 DEF Carried
  <2>2. ASSUME NEW b \in DOMAIN bills PROVE Row(R(b))
    BY <1>1 DEF Row, OwnName
  <2> HIDE DEF R
  <2>4. Carried(c) \in Seq({R(b) : b \in DOMAIN bills})
    BY <1>1, <2>1
  <2> QED
    BY <2>1, <2>2, <2>4 DEF Rows
<1>4. CASE c.op = "void"
  <2> DEFINE i == c.args.bill
             r == IF bills[i].status = "open" THEN [bills[i] EXCEPT !.status = "voided"] ELSE bills[i]
  <2>1. Carried(c) = [bills EXCEPT ![i] = r]
    BY <1>4 DEF Carried
  <2>2. i \in DOMAIN bills => Row(r)
    BY <1>1 DEF Row, OwnName
  <2> HIDE DEF i, r
  <2>3. Rows([bills EXCEPT ![i] = r])
    BY <1>0, <2>2, RowsInPlace
  <2> QED
    BY <2>1, <2>3
<1>5. CASE c.op = "assign"
  <2> DEFINE i == c.args.bill
             r == [bills[i] EXCEPT !.waiter = c.args.waiter, !.opener = Nobody]
  <2>1. Carried(c) = [bills EXCEPT ![i] = r]
    BY <1>5 DEF Carried
  <2>2. i \in DOMAIN bills => Row(r)
    BY <1>1 DEF Row, OwnName
  <2> HIDE DEF i, r
  <2>3. Rows([bills EXCEPT ![i] = r])
    BY <1>0, <2>2, RowsInPlace
  <2> QED
    BY <2>1, <2>3
<1>6. CASE c.op \notin {"create", "transfer", "void", "assign"}
  <2>1. Carried(c) = bills
    BY <1>6 DEF Carried
  <2> QED
    BY <1>0, <2>1
<1> QED
  BY <1>2, <1>3, <1>4, <1>5, <1>6

LEMMA OtherTillFits ==
    ASSUME FloorInv, OtherTill
    PROVE  FloorInv'
<1>0. Rows(bills)
  BY DEF FloorInv
<1>1. /\ UNCHANGED <<tables, crowded, page>>
      /\ calls' = Disturbed(calls, bills') /\ local' = DialogAfter(bills')
  BY DEF OtherTill
<1>2. AllFit(calls', page, tables, bills')
  BY <1>1, FitDisturbed DEF FloorInv
<1>6. FloorFits(local', page, tables, bills')
  BY <1>1, DialogFits DEF FloorInv
<1>3. ASSUME NEW t, bills' = Append(bills, [status |-> "open", table |-> t, waiter |-> Nobody,
                                            opener |-> Nobody])
      PROVE  Rows(bills')
  <2> DEFINE r == [status |-> "open", table |-> t, waiter |-> Nobody, opener |-> Nobody]
  <2>1. Row(r)
    BY DEF Row, OwnName
  <2>2. bills' = Append(bills, r)
    BY <1>3
  <2> HIDE DEF r
  <2> QED
    BY <1>0, <2>1, <2>2, RowsAppend
<1>4. ASSUME NEW i \in DOMAIN bills, bills' = [bills EXCEPT ![i].status = "paid"]
      PROVE  Rows(bills')
  <2> DEFINE r == [bills[i] EXCEPT !.status = "paid"]
  <2>1. Row(r)
    BY <1>0 DEF Rows, Row, OwnName
  <2>2. bills' = [bills EXCEPT ![i] = r]
    BY <1>4
  <2> HIDE DEF r
  <2> QED
    BY <1>0, <2>1, <2>2, RowsInPlace
<1>5. Rows(bills')
  BY <1>3, <1>4 DEF OtherTill
<1> QED
  BY <1>1, <1>2, <1>5, <1>6 DEF FloorInv

LEMMA ServeFits ==
    ASSUME FloorInv, NEW j \in DOMAIN calls, ServeFloor(j)
    PROVE  FloorInv'
<1> DEFINE c == calls[j]
           answer == IF c.op = "tables" THEN Answered(c, "data", BoardNow)
                     ELSE Answered(c, "ok", Accepts(c))
           rest == Disturbed(calls, Carried(c))
<1>0. Fits(c, page, tables, bills)
  BY DEF FloorInv, AllFit
<1>1. /\ c.op \in FloorOps /\ c.phase = "sent"
      /\ bills' = Carried(c)
      /\ tables' = IF c.op = "addTable" THEN tables \cup {c.args.table} ELSE tables
      /\ crowded' = (crowded \/ Crowds(c))
      /\ calls' = IF c.heard THEN [rest EXCEPT ![j] = answer] ELSE RemoveAt(rest, j)
      /\ local' = DialogAfter(Carried(c)) /\ page' = page
  BY DEF ServeFloor
<1>2. Rows(bills')
  BY <1>0, <1>1, CarriedRows
<1>3. tables \subseteq tables' /\ tables' \subseteq DOMAIN AreaOf
  BY <1>0, <1>1 DEF Fits, FloorInv
<1>4. ~crowded'
  BY <1>0, <1>1 DEF FloorInv, Crowds, Fits, OpenBills
<1>5. AllFit(rest, page, tables', bills') /\ DOMAIN rest = DOMAIN calls
  <2>1. AllFit(calls, page, tables, bills)
    BY DEF FloorInv
  <2> QED
    BY <1>1, <1>3, <2>1, FitDisturbed
<1>6. Fits(answer, page, tables', bills')
  <2>1. CASE c.op = "tables"
    <3>1. DOMAIN BoardNow \subseteq tables'
      BY <1>3 DEF BoardNow
    <3>2. answer = Answered(c, "data", BoardNow)
      BY <2>1
    <3> HIDE DEF answer, c
    <3> QED
      BY <1>0, <1>3, <3>1, <3>2, AnswerFits
  <2>2. CASE c.op # "tables"
    <3>2. answer = Answered(c, "ok", Accepts(c))
      BY <2>2
    <3> HIDE DEF answer, c
    <3> QED
      BY <1>0, <1>3, <2>2, <3>2, AnswerFits
  <2> QED
    BY <2>1, <2>2
<1>7. AllFit(calls', page, tables', bills')
  <2> HIDE DEF answer, rest, c
  <2>1. AllFit([rest EXCEPT ![j] = answer], page, tables', bills')
    BY <1>5, <1>6, FitInPlace
  <2>2. AllFit(RemoveAt(rest, j), page, tables', bills')
    BY <1>5, FitRest
  <2> QED
    BY <1>1, <2>1, <2>2
<1>8. FloorFits(local', page, tables', bills')
  BY <1>1, <1>3, DialogFits DEF FloorInv
<1> QED
  BY <1>1, <1>2, <1>3, <1>4, <1>7, <1>8 DEF FloorInv

-----------------------------------------------------------------------------
(* The floor plan hears.                                                   *)

LEMMA GoOnFits ==
    ASSUME FloorInv, UNCHANGED floor, NEW c, Fits(c, page, tables, bills), c.op \in FloorOps,
           NEW ok, c.op = "tables" /\ ok => c.phase = "answered",
           NEW rest, AllFit(rest, page, tables, bills), GoOnFloor(c, ok, rest)
    PROVE  FloorInv'
<1>1. page' = page /\ (c.mine => page = "floor")
  BY DEF GoOnFloor, Fits
<1>2. AllFit(calls', page', tables, bills)
  <2>1. page = "floor" => AllFit(Polls("floor"), page, tables, bills)
    BY FitPolls
  <2>2. calls' \in {rest \o Polls("floor"), rest \o <<>>} /\ (~c.mine => calls' = rest \o <<>>)
    BY DEF GoOnFloor
  <2> QED
    BY <1>1, <2>1, <2>2, FitBehind, FitNone
<1>3. FloorFits(local', page', tables, bills)
  <2>0. FloorFits(local, page, tables, bills)
    BY DEF FloorInv
  <2>1. CASE ~c.mine
    BY <1>1, <2>0, <2>1 DEF GoOnFloor
  <2>2. CASE c.mine
    <3>1. local' = FloorAfter(c, ok)
      BY <2>2 DEF GoOnFloor
    <3>2. CASE c.op = "tables"
      <4>1. ok => DOMAIN c.data \subseteq tables
        BY <3>2 DEF Fits
      <4>2. local' = [local EXCEPT !.loading = FALSE, !.board = IF ok THEN c.data ELSE @]
        BY <3>1, <3>2 DEF FloorAfter
      <4> QED
        BY <1>1, <2>0, <4>1, <4>2 DEF FloorFits
    <3>3. CASE c.op = "create"
      <4>1. local' = [local EXCEPT !.opening = FALSE, !.modal = IF ok THEN NoMenu ELSE @]
        BY <3>1, <3>3 DEF FloorAfter
      <4> QED
        BY <1>1, <2>0, <4>1 DEF FloorFits
    <3>4. CASE c.op = "transfer"
      <4>1. local' = [local EXCEPT !.menu = IF ok THEN NoMenu ELSE @]
        BY <3>1, <3>4 DEF FloorAfter
      <4> QED
        BY <1>1, <2>0, <4>1 DEF FloorFits
    <3>5. CASE c.op = "assign"
      <4>1. local' = [local EXCEPT !.assign = IF ok THEN 0 ELSE @]
        BY <3>1, <3>5 DEF FloorAfter
      <4> QED
        BY <1>1, <2>0, <4>1 DEF FloorFits
    <3>6. CASE c.op \notin {"tables", "create", "transfer", "assign"}
      BY <1>1, <2>0, <3>1, <3>6 DEF FloorAfter
    <3> QED
      BY <3>2, <3>3, <3>4, <3>5, <3>6
  <2> QED
    BY <2>1, <2>2
<1> QED
  BY <1>2, <1>3, FloorStays

LEMMA HearFits ==
    ASSUME FloorInv, NEW j \in DOMAIN calls, AnswerFloor(j) \/ GiveUpFloor(j) \/ DropFloor(j)
    PROVE  FloorInv'
<1> DEFINE c == calls[j]
           rest == RemoveAt(calls, j)
<1>0. Fits(c, page, tables, bills) /\ AllFit(calls, page, tables, bills)
  BY DEF FloorInv, AllFit
<1>1. AllFit(rest, page, tables, bills)
  BY <1>0, FitRest
<1>2. UNCHANGED floor /\ c.op \in FloorOps
  BY DEF AnswerFloor, GiveUpFloor, DropFloor
<1>3. CASE AnswerFloor(j)
  <2>1. CASE LeadTo("pos", rest)
    BY <1>1, <1>2, <2>1, LeadsFit
  <2>2. CASE c.op # "create" /\ GoOnFloor(c, IF c.op = "tables" THEN TRUE ELSE c.ok, rest)
    <3>1. c.phase = "answered"
      BY <1>3 DEF AnswerFloor
    <3> HIDE DEF c, rest
    <3> QED
      BY <1>0, <1>1, <1>2, <2>2, <3>1, GoOnFits
  <2> QED
    BY <1>3, <2>1, <2>2 DEF AnswerFloor
<1>4. CASE GiveUpFloor(j)
  <2>1. GoOnFloor(c, FALSE, rest) \/ GoOnFloor(c, FALSE, [calls EXCEPT ![j].heard = FALSE])
    BY <1>4 DEF GiveUpFloor
  <2>2. AllFit([calls EXCEPT ![j].heard = FALSE], page, tables, bills)
    <3>1. [calls EXCEPT ![j].heard = FALSE] = [calls EXCEPT ![j] = [calls[j] EXCEPT !.heard = FALSE]]
      OBVIOUS
    <3>2. Fits([calls[j] EXCEPT !.heard = FALSE], page, tables, bills)
      BY <1>0, ForgottenFits
    <3> QED
      BY <1>0, <3>1, <3>2, FitInPlace
  <2> HIDE DEF c, rest
  <2> QED
    BY <1>0, <1>1, <1>2, <2>1, <2>2, GoOnFits
<1>5. CASE DropFloor(j)
  <2>1. calls' = rest /\ UNCHANGED <<page, local>>
    BY <1>5 DEF DropFloor
  <2>2. FloorFits(local, page, tables, bills)
    BY DEF FloorInv
  <2> QED
    BY <1>1, <1>2, <2>1, <2>2, FloorStays
<1> QED
  BY <1>3, <1>4, <1>5

-----------------------------------------------------------------------------

LEMMA FloorInvariant == Spec => []FloorInv
<1>1. Init => FloorInv
  <2> SUFFICES ASSUME Init PROVE FloorInv
    OBVIOUS
  <2>1. tables \subseteq DOMAIN AreaOf
    BY AreasAssumption DEF Init, FrameInit, FloorInit
  <2>2. Rows(bills)
    <3>1. CASE bills = <<>>
      <4>1. bills \in Seq({}) /\ DOMAIN bills = {}
        BY <3>1
      <4> QED
        BY <4>1 DEF Rows
    <3>2. ASSUME NEW t, bills = <<[status |-> "open", table |-> t, waiter |-> Nobody, opener |-> Nobody]>>
          PROVE  Rows(bills)
      <4> DEFINE r == [status |-> "open", table |-> t, waiter |-> Nobody, opener |-> Nobody]
      <4>1. Row(r)
        BY DEF Row, OwnName
      <4>2. bills = <<r>>
        BY <3>2
      <4> HIDE DEF r
      <4>3. bills \in Seq({r}) /\ \A b \in DOMAIN bills : bills[b] = r
        BY <4>2
      <4> QED
        BY <4>1, <4>3 DEF Rows
    <3> QED
      BY <3>1, <3>2 DEF Init, FloorInit
  <2>3. FloorFits(local, page, tables, bills)
    BY DEF Init, FrameInit, FloorFits
  <2>4. AllFit(calls, page, tables, bills)
    BY FitNone DEF Init, FrameInit
  <2> QED
    BY <2>1, <2>2, <2>3, <2>4 DEF FloorInv, Init, FloorInit
<1>2. FloorInv /\ [Next]_vars => FloorInv'
  <2> SUFFICES ASSUME FloorInv, [Next]_vars PROVE FloorInv'
    OBVIOUS
  <2>1. CASE FrameNext /\ UNCHANGED <<floor, tickets>>
    BY <2>1, FrameFits
  <2>2. CASE FloorNext
    BY <2>2, ScreenFits, PollFits, OtherTillFits, ServeFits, HearFits DEF FloorNext, ResolveFloor
  <2>3. CASE KitchenNext /\ UNCHANGED floor
    BY <2>3, KitchenFits
  <2>4. CASE UNCHANGED vars
    <3>1. UNCHANGED <<floor, local, page, calls>>
      BY <2>4 DEF vars, frame, floor
    <3> QED
      BY <3>1, FloorSleeps
  <2> QED
    BY <2>1, <2>2, <2>3, <2>4 DEF Next
<1> QED
  BY <1>1, <1>2, PTL DEF Spec

\* Tables that waitstaff open are served by themselves, at every till and on every shift: what
\* the request says was settled by who was signed in when it was asked for, not by the name that
\* the dialog still holds (createOrder, FloorPlanPage.tsx:80).
THEOREM OwnTableAlways == Spec => []OwnTable
<1>1. FloorInv => OwnTable
  BY DEF FloorInv, OwnTable, Rows, Row, OwnName
<1> QED
  BY <1>1, FloorInvariant, PTL

\* However many requests are under way, whatever answers were lost, and whoever else opens, moves
\* or settles bills: a dialog opened on a table that was shown free and was free, or a transfer
\* sent to one, puts no second bill there unless another bill came to that table in between
\* (openTable and the transfer menu, FloorPlanPage.tsx:65-72, 219-225). The exception is needed:
\* neither createOrder nor the server looks at the table again.
THEOREM FreshBoardNeverCrowdsAlways == Spec => []FreshBoardNeverCrowds
<1>1. FloorInv => FreshBoardNeverCrowds
  BY DEF FloorInv, FreshBoardNeverCrowds
<1> QED
  BY <1>1, FloorInvariant, PTL

===============================================================================

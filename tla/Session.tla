------------------------------- MODULE Session -------------------------------
(***************************************************************************)
(* What the staff may rely on about who is signed in at a till: a session  *)
(* begins with a sign-in that was asked for while nobody was at work       *)
(* there, the screen locks only for those who can unlock it, and a locked  *)
(* screen opens to no one but who signed in. Terminal implements it.       *)
(***************************************************************************)
CONSTANTS Staff, Lockable, Nobody

VARIABLES
    user,      \* who is signed in
    locked,    \* is the screen locked
    asked      \* whose sign-ins may still be answered

sessionVars == <<user, locked, asked>>

Init == user = Nobody /\ locked = FALSE /\ asked = {}

AtWork == user # Nobody /\ ~locked

Ask(u) ==
    /\ ~AtWork
    /\ asked' = asked \cup {u}
    /\ UNCHANGED <<user, locked>>

\* Of two sign-ins that overlap the later answer wins.
SignIn(u) ==
    /\ u \in asked
    /\ user' = u
    /\ locked' = FALSE
    /\ asked' \in SUBSET asked

Lock ==
    /\ user \in Lockable
    /\ ~locked
    /\ locked' = TRUE
    /\ UNCHANGED <<user, asked>>

Forget ==
    /\ asked' \in SUBSET asked
    /\ UNCHANGED <<user, locked>>

\* Signed out, refused, expired or restarted.
SignOut ==
    /\ user' = Nobody
    /\ locked' = FALSE
    /\ asked' \in SUBSET asked

Next ==
    \/ \E u \in Staff : Ask(u) \/ SignIn(u)
    \/ Lock \/ Forget \/ SignOut

Spec == Init /\ [][Next]_sessionVars

------------------------------------------------------------------------------

TypeOK == user \in Staff \cup {Nobody} /\ locked \in BOOLEAN /\ asked \in SUBSET Staff

\* Whoever is asked for a PIN is someone who has one.
LockedHasOwner == locked => user \in Lockable

\* A session that is at work is never handed to somebody who had not asked before it began,
\* or who asked while it was at work: the sign-in was under way already.
Handover == [][user' # user /\ user' # Nobody => user' \in asked]_sessionVars

==============================================================================

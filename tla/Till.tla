--------------------------------- MODULE Till ---------------------------------
(***************************************************************************)
(* One till at work: Terminal with the floor plan and the kitchen display. *)
(***************************************************************************)
EXTENDS FloorPage, KitchenPage

vars == <<frame, floor, tickets>>

Init == FrameInit /\ FloorInit /\ KitchenInit

Next ==
    \/ FrameNext /\ UNCHANGED <<floor, tickets>>
    \/ FloorNext /\ UNCHANGED tickets
    \/ KitchenNext /\ UNCHANGED floor

Resolve(j) ==
    \/ ResolveFloor(j) /\ UNCHANGED tickets
    \/ ResolveKitchen(j) /\ UNCHANGED floor

\* Every request ends within 15 seconds, intervals tick while their page is shown, and a till
\* is left alone for 15 seconds sooner or later.
Fairness ==
    /\ WF_vars(calls # <<>> /\ Resolve(1))
    /\ WF_vars(AnswerSignIn /\ UNCHANGED <<floor, tickets>>)
    /\ WF_vars(PollFloor /\ UNCHANGED tickets)
    /\ WF_vars(PollKitchen /\ UNCHANGED floor)
    /\ WF_vars(Lock /\ UNCHANGED <<floor, tickets>>)

Spec == Init /\ [][Next]_vars /\ Fairness

===============================================================================

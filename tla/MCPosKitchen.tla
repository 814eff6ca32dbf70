----------------------------- MODULE MCPosKitchen -----------------------------
(***************************************************************************)
(* Values for the constants of PosKitchen that a .cfg file cannot write.   *)
(***************************************************************************)
EXTENDS PosKitchen, TLC

UnitCosts == [i \in Items |-> 1]

Symmetry == Permutations(Lines) \cup Permutations(Tickets)
            \cup Permutations(Workers) \cup Permutations(Cooks)

=============================================================================

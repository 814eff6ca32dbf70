------------------------------ MODULE MCPosFloor ------------------------------
(***************************************************************************)
(* Values for the constants of PosFloor that a .cfg file cannot write.     *)
(***************************************************************************)
EXTENDS PosFloor, TLC

UnitCosts == [i \in Items |-> 1]

Symmetry == Permutations(Orders) \cup Permutations(Lines) \cup Permutations(Tickets)
            \cup Permutations(Tables)

=============================================================================

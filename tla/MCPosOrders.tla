----------------------------- MODULE MCPosOrders -----------------------------
(***************************************************************************)
(* Values for the constants of PosOrders that a .cfg file cannot write,    *)
(* and the symmetries of its sets of keys.                                 *)
(***************************************************************************)
EXTENDS PosOrders, TLC

\* Every item costs the business 1, below every price the runs use.
UnitCosts == [i \in Items |-> 1]

\* Lines, tickets, customers and workers are only ever compared.
Symmetry == Permutations(Lines) \cup Permutations(Tickets)
            \cup Permutations(Customers) \cup Permutations(Workers)

=============================================================================

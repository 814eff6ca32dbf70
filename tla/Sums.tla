--------------------------------- MODULE Sums ---------------------------------
(***************************************************************************)
(* Adding up: the SELECT SUM(...) of the services, the reduce of the       *)
(* screens.                                                                *)
(***************************************************************************)
EXTENDS Integers, Functions

\* The sum of f[x] for the x of S; none is zero.
SumOver(f, S) == FoldFunctionOnSet(+, 0, f, S)

===============================================================================

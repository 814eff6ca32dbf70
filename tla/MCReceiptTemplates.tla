-------------------------- MODULE MCReceiptTemplates --------------------------
(***************************************************************************)
(* ReceiptTemplates for TLC: keys are only compared.                       *)
(***************************************************************************)
EXTENDS ReceiptTemplates, TLC

Symmetry == Permutations(Templates) \cup Permutations(Admins)

=============================================================================

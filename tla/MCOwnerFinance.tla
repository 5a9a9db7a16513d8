--------------------------- MODULE MCOwnerFinance ---------------------------
(***************************************************************************)
(* Values for the constants of OwnerFinance.                               *)
(***************************************************************************)
EXTENDS OwnerFinance, TLC

CallerSymmetry == Permutations(Callers)
=============================================================================

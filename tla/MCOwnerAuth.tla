---------------------------- MODULE MCOwnerAuth ----------------------------
(***************************************************************************)
(* OwnerAuth for TLC.                                                      *)
(***************************************************************************)
EXTENDS OwnerAuth, TLC

\* Threads are interchangeable: none is named in a definition.
CallerSymmetry == Permutations(Callers)
=============================================================================

--------------------------- MODULE MCAgentWallet ---------------------------
(***************************************************************************)
(* Values for the constants of AgentWallet.                                *)
(***************************************************************************)
EXTENDS AgentWallet, TLC

\* A chosen key stands for an invoke() that asserts 1.
MCIntent == [k \in CallerKeys |-> [kind |-> "fixed", cost |-> 1]]

\* Callers are interchangeable: none is named in a definition.
CallerSymmetry == Permutations(Callers)
=============================================================================

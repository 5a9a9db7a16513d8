-------------------------- MODULE MCSynapseClient --------------------------
(***************************************************************************)
(* Values for the constants of SynapseClient.                              *)
(***************************************************************************)
EXTENDS ClientRefinement, TLC

\* Every chosen key stands for one call, here a rediscovery asserting 1.
MCIntentRediscovery == [k \in CallerKeys |-> [kind |-> "rediscovery", cost |-> 1]]

\* Callers are interchangeable: none is named in a definition.
CallerSymmetry == Permutations(Callers)
=============================================================================

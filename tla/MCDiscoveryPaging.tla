-------------------------- MODULE MCDiscoveryPaging --------------------------
(***************************************************************************)
(* Values for the constants of DiscoveryPaging.                            *)
(***************************************************************************)
EXTENDS DiscoveryPaging

\* No limit that suits a caller is excluded, and some suit no caller.
MCLimits == -1..5
=============================================================================

------------------------- MODULE MCProviderServices -------------------------
(***************************************************************************)
(* Values for the constants of ProviderServices.                           *)
(***************************************************************************)
EXTENDS ProviderServices, TLC

\* Two names give one id, and one of no letter or digit gives none.
MCSlug == [n \in Names |-> IF ToString(n) = "symbols" THEN Blank ELSE CHOOSE i \in Ids : TRUE]

\* A free service, and a fixed-price model with the price of tokens alone, which
\* raises ValueError.
MCOffers ==
    {[kind |-> "api", model |-> None, base |-> 0, input |-> None],
     [kind |-> "llm", model |-> "fixed", base |-> None, input |-> 1]}

ProgramSymmetry == Permutations(Programs)
=============================================================================

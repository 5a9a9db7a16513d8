---------------------------- MODULE ServiceTerms ----------------------------
(***************************************************************************)
(* The terms of a service: what register_provider_service makes of a       *)
(* provider's options (python/synapse_client/_auth_provider_control.py)    *)
(* and how a consumer reads them back from discovery (models.py).  Prices  *)
(* are whole numbers; Odd is a string that Decimal cannot read, which no   *)
(* side looks at before a consumer does.                                   *)
(***************************************************************************)
EXTENDS Naturals

CONSTANTS
    Prices,     \* what a provider may ask
    Odd,        \* a price that is no number
    None        \* an option left out, a field not there

ASSUME ServiceTermsAssumption ==
    Prices \subseteq Nat /\ Odd \notin Nat /\ None \notin Nat /\ Odd # None

Kinds == {"api", "llm"}
Models == {"fixed", "token_metered"}
Asked == Prices \cup {Odd}

\* Pricing of the options of register_provider_service; input stands for the
\* prices of input and output tokens.
Options == [kind : Kinds, model : Models \cup {None}, base : Asked \cup {None}, input : Asked \cup {None}]
Terms == [kind : Kinds, model : Models, amount : Asked \cup {None}, input : Asked \cup {None}]

PriceModel(o) ==
    CASE o.model # None -> o.model
      [] o.model = None /\ o.kind = "llm" -> "token_metered"
      [] OTHER -> "fixed"

\* register_llm_service
AsLlm(o) == [o EXCEPT !.kind = "llm", !.model = "token_metered"]

\* Mutant: the kind decides which price must be there, the model what is sent.
PricedByKind(o) == IF o.kind = "llm" THEN o.input # None ELSE o.base # None

\* Otherwise _provider_pricing raises ValueError.
Priced(o) == IF PriceModel(o) = "token_metered" THEN o.input # None ELSE o.base # None

\* _provider_pricing: the amount of a token-metered service is left out.
TermsOf(o) ==
    LET metered == PriceModel(o) = "token_metered"
    IN [kind |-> o.kind, model |-> PriceModel(o),
        amount |-> IF metered THEN None ELSE o.base, input |-> IF metered THEN o.input ELSE None]

\* ServicePricing.amount
Amount(t) == IF t.amount = None THEN 0 ELSE t.amount

\* DiscoveredService.price_usdc
PriceUsdc(t) == IF Amount(t) = Odd THEN None ELSE Amount(t)
=============================================================================

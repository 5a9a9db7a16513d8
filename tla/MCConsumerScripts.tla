-------------------------- MODULE MCConsumerScripts --------------------------
(***************************************************************************)
(* Values for the constants of ConsumerScripts.                            *)
(***************************************************************************)
EXTENDS ConsumerScripts, TLC

\* The echo service is free, has a price, or is metered by the token; the other
\* has a price that is no number, or is metered.
Fixed(amount) == [kind |-> "api", model |-> "fixed", amount |-> amount, input |-> None]
Metered == [kind |-> "api", model |-> "token_metered", amount |-> None, input |-> 1]
MCOffers == [s \in Services |->
    IF s = Echo THEN {Fixed(0), Fixed(2), Metered} ELSE {Fixed(Odd), Metered}]

\* Free services only, found by searching, without a request id.
MCFree == [scripts |-> {"free_service_smoke", "e2e", "consumer_wallet_to_invoke"}, targets |-> {},
           freeOnly |-> TRUE, allowPaid |-> FALSE, givenId |-> FALSE]

\* A service may be told, its price is whatever it is.
MCTold == [scripts |-> {"e2e"}, targets |-> {Echo},
           freeOnly |-> FALSE, allowPaid |-> FALSE, givenId |-> FALSE]

\* Runs that are given one request id, and a service or not.
MCReruns == [scripts |-> {"smoke_test", "consumer_call_provider"}, targets |-> {Echo},
             freeOnly |-> FALSE, allowPaid |-> FALSE, givenId |-> TRUE]

MCPaid == [scripts |-> {"consumer_wallet_to_invoke", "llm_smoke"}, targets |-> {},
           freeOnly |-> FALSE, allowPaid |-> TRUE, givenId |-> FALSE]

MCSettings == {MCFree, MCTold, MCReruns, MCPaid}
=============================================================================

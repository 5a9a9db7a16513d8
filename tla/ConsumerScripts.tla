--------------------------- MODULE ConsumerScripts ---------------------------
(***************************************************************************)
(* The consumer scripts under python/examples, one run after another       *)
(* against services that providers publish, change and take down: a        *)
(* script searches, selects a service by its terms, invokes it at the      *)
(* price that it saw, and reads the receipt.  SynapseClient.invoke is here *)
(* what the module SynapseClient shows of it: it returns a final status    *)
(* and a charge within the price asserted, or raises, and then the gateway *)
(* may have taken the call or not.  Discovery, books and credit limits are *)
(* the gateway's (external).                                               *)
(***************************************************************************)
EXTENDS ServiceTerms, FiniteSets

CONSTANTS
    Services, Echo, \* service ids, and svc_synapse_echo among them
    Llm,            \* SYNAPSE_E2E_LLM_SERVICE_ID
    Offers,         \* Offers[s]: the terms that s may have
    Settings,       \* environments that scripts are run in, one of which is given
    MaxCost,        \* SYNAPSE_E2E_LLM_MAX_COST_USDC
    MaxRuns         \* bound: runs

AllScripts == {"free_service_smoke", "llm_smoke", "e2e", "smoke_test",
               "consumer_wallet_to_invoke", "consumer_call_provider"}
Final == {"SUCCEEDED", "SETTLED", "FAILED"} \* FAILED_RETRYABLE or FAILED_FINAL
\* The price model that its script saw in the search, if it did search, and
\* that of the service when the gateway took the call are history.
Invocation == [service : Services, charged : Prices, status : Final, by : AllScripts,
               seen : Models \cup {None}, model : Models]

\* The scripts that are run, the services that a run may be told instead of
\* searching, SYNAPSE_E2E_FREE_ONLY, --allow-paid, and whether --request-id is
\* given, the same for every run.
Setting == [scripts : SUBSET AllScripts, targets : SUBSET Services,
            freeOnly : BOOLEAN, allowPaid : BOOLEAN, givenId : BOOLEAN]

ASSUME ConsumerScriptsAssumption ==
    /\ Settings \subseteq Setting
    /\ {Echo, Llm} \subseteq Services /\ None \notin Services \cup Invocation
    /\ \A s \in Services : Offers[s] \subseteq Terms
    /\ MaxCost \in Prices /\ 0 \in Prices
    /\ MaxRuns \in Nat

VARIABLES
    given,      \* the environment and arguments of all runs
    run,        \* the run: its script, stage, selection, keys and how it ended; history:
                \* the price model seen
    runs,       \* runs so far
    reported,   \* what passed runs under the request id reported
    market,     \* external: the terms of each service, None while it is not live
    ledger      \* external: the invocation under each key, None where there is none

vars == <<given, run, runs, reported, market, ledger>>

\* The key of the request id, and two for the fixed-price and the LLM call of
\* each run.
RequestKey == 0
Keys == 0..(2 * MaxRuns)
OnSale == {s \in Services : market[s] # None}

\* These scripts make their key of the request id, the others of uuid4.
ByRequestId == {"consumer_call_provider", "smoke_test"}

\* Mutant: a key of its own for every run.
FixedKeyFresh == 2 * runs - 1

FixedKey ==
    IF run.script \in ByRequestId /\ given.givenId THEN RequestKey ELSE 2 * runs - 1

\* creditLimit=0 if not args.allow_paid else 5: the wallet script issues its
\* own credential; None is the credential of the other scripts, without limit.
\* Mutant: issue_credential leaves out a limit of zero.
CreditFalsy == IF run.script = "consumer_wallet_to_invoke" /\ given.allowPaid THEN 5 ELSE None

Credit ==
    CASE run.script # "consumer_wallet_to_invoke" -> None
      [] given.allowPaid -> 5
      [] OTHER -> 0

Affordable(a) == Credit # None => a <= Credit

-----------------------------------------------------------------------------
\* Which services a script selects.
\* Mutant: the price alone.
FreeFixedByPrice(t) == PriceUsdc(t) = 0

FreeFixed(t) == t.kind = "api" /\ t.model = "fixed" /\ Amount(t) = 0

\* price_string(None) is "0", and is_zero_usdc of that is True.
ZeroString(t) == PriceUsdc(t) \in {0, None}

Selects(script, t) ==
    CASE script \in {"free_service_smoke", "e2e"} -> FreeFixed(t)
      [] script = "consumer_wallet_to_invoke" -> given.allowPaid \/ ZeroString(t)
      [] script = "smoke_test" -> TRUE
      [] OTHER -> PriceUsdc(t) # None

\* Mutant: no price is asserted for None.
AssertedNone(t) == PriceUsdc(t)

\* The price that a script asserts: as selected, None counting for zero; the
\* smoke test sends the amount as it is.
Asserted(t) ==
    CASE run.script = "smoke_test" -> Amount(t)
      [] run.script # "smoke_test" /\ PriceUsdc(t) = None -> 0
      [] OTHER -> PriceUsdc(t)

-----------------------------------------------------------------------------
\* The gateway (external).  A token-metered service takes a call with a fixed
\* price, or refuses it; it charges what was used within the hold.
Charges(s, cost, llm) ==
    LET t == market[s]
    IN CASE t = None -> {}
         [] t # None /\ t.model = "token_metered" -> {a \in Prices : llm => a <= MaxCost}
         [] OTHER -> IF Amount(t) \in Prices /\ ~llm /\ cost = Amount(t) THEN {cost} ELSE {}

Take(key, s, cost, llm) ==
    \E a \in {0} \cup Charges(s, cost, llm), status \in Final :
        /\ Charges(s, cost, llm) # {} /\ Affordable(a)
        /\ a > 0 => status \in {"SUCCEEDED", "SETTLED"}
        /\ ledger' = [ledger EXCEPT ![key] =
             [service |-> s, charged |-> a, status |-> status, by |-> run.script,
              seen |-> run.seen, model |-> market[s].model]]

\* Providers register a service, and change its price, kind or price model: by
\* a patch, which is sent as it is, or by deleting and registering it anew.
Publish ==
    \E s \in Services : \E t \in Offers[s] :
        /\ market' = [market EXCEPT ![s] = t]
        /\ UNCHANGED <<run, runs, reported, ledger>>

TakeDown ==
    \E s \in OnSale :
        /\ market' = [market EXCEPT ![s] = None]
        /\ UNCHANGED <<run, runs, reported, ledger>>

-----------------------------------------------------------------------------
Ended == {"passed", "failed", "no terminal status"}
Go(stage) == run' = [run EXCEPT !.stage = stage]

\* A run of script that has nothing yet, or that has failed and left nothing.
Blank(script, stage) ==
    [script |-> script, stage |-> stage, service |-> None, cost |-> 0, seen |-> None,
     fixed |-> None, llm |-> None]
Exit(stage) == run' = Blank(run.script, stage)

FirstStage(script) ==
    CASE script = "llm_smoke" -> "llm"
      [] script \in {"free_service_smoke", "e2e"} -> "search echo"
      [] OTHER -> "search"

\* A run begins with what may fail before the search: arguments and keys of
\* the environment, the health check and the negative tests of e2e, the
\* authentication and the credential of consumer_wallet_to_invoke.
Start ==
    /\ run.stage \in Ended /\ runs < MaxRuns
    /\ \E script \in given.scripts : run' = Blank(script, FirstStage(script))
    /\ runs' = runs + 1
    /\ UNCHANGED <<reported, market, ledger>>

\* Any request or check of a run fails: the script reports it and exits 1.
Fail ==
    /\ run.stage \notin Ended
    /\ Exit("failed")
    /\ UNCHANGED <<runs, reported, market, ledger>>

Searches == {"search echo", "search", "search free"}

\* The first service of the page that passes the script's test; the gateway's
\* order and what it finds are its own.
Select ==
    /\ run.stage \in Searches
    /\ \E s \in OnSale :
         /\ run.stage = "search echo" => s = Echo
         /\ Selects(run.script, market[s])
         /\ run' = [run EXCEPT !.stage = "invoke", !.service = s, !.cost = Asserted(market[s]),
                              !.seen = market[s].model]
    /\ UNCHANGED <<runs, reported, market, ledger>>

\* SYNAPSE_E2E_FIXED_SERVICE_ID and _COST_USDC; --service-id and --cost-usdc.
Told ==
    /\ run.stage \in Searches /\ run.script \in {"e2e"} \cup ByRequestId
    /\ \E s \in given.targets, cost \in Prices :
         run' = [run EXCEPT !.stage = "invoke", !.service = s, !.cost = cost]
    /\ UNCHANGED <<runs, reported, market, ledger>>

SearchAgain ==
    /\ run.stage = "search echo"
    /\ Go("search free")
    /\ UNCHANGED <<runs, reported, market, ledger>>

\* The call is taken, or was under the same key before.
Called(key, s, cost, llm) ==
    IF ledger[key] # None THEN UNCHANGED ledger ELSE Take(key, s, cost, llm)

InvokeReturns ==
    /\ run.stage = "invoke"
    /\ Called(FixedKey, run.service, run.cost, FALSE)
    /\ run' = [run EXCEPT !.fixed = FixedKey, !.stage = IF run.script = "e2e" THEN "await" ELSE "receipt"]
    /\ UNCHANGED <<runs, reported, market>>

InvokeLlmReturns ==
    /\ run.stage = "llm"
    /\ Called(2 * runs, Llm, 0, TRUE)
    /\ run' = [run EXCEPT !.llm = 2 * runs, !.stage = IF run.script = "e2e" THEN "await llm" ELSE "receipt"]
    /\ UNCHANGED <<runs, reported, market>>

\* SynapseClient raises although the gateway has taken the call.
InvokeLost ==
    /\ run.stage \in {"invoke", "llm"}
    /\ IF run.stage = "invoke" THEN Called(FixedKey, run.service, run.cost, FALSE)
       ELSE Called(2 * runs, Llm, 0, TRUE)
    /\ Exit("failed")
    /\ UNCHANGED <<runs, reported, market>>

\* A service charges while the script waits: a succeeded call gets settled.
Settle ==
    /\ \E k \in Keys :
         /\ ledger[k] # None /\ ledger[k].status = "SUCCEEDED"
         /\ ledger' = [ledger EXCEPT ![k].status = "SETTLED"]
    /\ UNCHANGED <<run, runs, reported, market>>

\* The check of the charge of an LLM call, in llm_smoke and e2e.
Overcharged == run.llm # None /\ ledger[run.llm].charged > MaxCost

\* The scripts other than e2e print what they got, whatever its status.
Receipt ==
    /\ run.stage = "receipt"
    /\ Go(IF Overcharged THEN "failed" ELSE "passed")
    /\ reported' = IF run.script \in ByRequestId
                   THEN reported \cup {<<run.fixed, ledger[run.fixed].charged>>} ELSE reported
    /\ UNCHANGED <<runs, market, ledger>>

Awaited == ledger[IF run.llm = None THEN run.fixed ELSE run.llm]

\* Mutant: any terminal status will do.
GoodReceiptTerminal(status) == status \in Final

GoodReceipt(status) == status \in {"SUCCEEDED", "SETTLED"}

\* await_receipt of e2e, which goes on to the LLM call or ends.
AwaitReceipt ==
    /\ run.stage \in {"await", "await llm"}
    /\ GoodReceipt(Awaited.status)
    /\ Go(CASE run.stage = "await" -> IF given.freeOnly THEN "passed" ELSE "llm"
            [] Overcharged -> "failed"
            [] OTHER -> "passed")
    /\ UNCHANGED <<runs, reported, market, ledger>>

\* Mutant: the deadline is not looked at.
AwaitTimesOutNever == FALSE

\* The deadline of SYNAPSE_E2E_RECEIPT_TIMEOUT_S has passed after a look.
AwaitTimesOut ==
    /\ run.stage \in {"await", "await llm"}
    /\ ~GoodReceipt(Awaited.status)
    /\ Exit("no terminal status")
    /\ UNCHANGED <<runs, reported, market, ledger>>

Init ==
    /\ given \in Settings
    /\ run = Blank("llm_smoke", "failed")
    /\ runs = 0
    /\ reported = {}
    /\ market = [s \in Services |-> None]
    /\ ledger = [k \in Keys |-> None]

Proceed ==
    \/ Select \/ Told \/ SearchAgain \/ InvokeReturns \/ InvokeLlmReturns \/ InvokeLost
    \/ Receipt \/ AwaitReceipt \/ AwaitTimesOut

Next == (Start \/ Proceed \/ Fail \/ Publish \/ TakeDown \/ Settle) /\ UNCHANGED given

Spec == Init /\ [][Next]_vars

\* Requests have timeouts, e2e a deadline, and an empty search ends a run: one
\* that can proceed, or fail for want of a service, does.
Stuck == run.stage \in {"search", "search free", "invoke", "llm"} /\ Fail

FairSpec == Spec /\ WF_vars((Proceed \/ Stuck) /\ UNCHANGED given)
-----------------------------------------------------------------------------
Stages == Ended \cup Searches \cup {"invoke", "receipt", "await", "llm", "await llm"}
Run == [script : AllScripts, stage : Stages, service : Services \cup {None}, cost : Asked,
        seen : Models \cup {None}, fixed : Keys \cup {None}, llm : Keys \cup {None}]

\* Shape of the state.
TypeOK ==
    /\ given \in Settings
    /\ run \in Run
    /\ runs \in 0..MaxRuns
    /\ reported \subseteq Keys \X Prices
    /\ market \in [Services -> Terms \cup {None}]
    /\ ledger \in [Keys -> Invocation \cup {None}]

\* The scripts that promise to use free services charge nobody anything,
\* whatever the providers do between the search and the call, with one
\* exception: a service that its provider turned from a fixed price to metering
\* after the search showed it may charge, although the script asserts zero.
\* The wallet script, which takes a metered service for a free one, pays
\* nothing even then, as its credential allows nothing.
FreeScripts ==
    {"free_service_smoke"} \cup (IF given.freeOnly /\ given.targets = {} THEN {"e2e"} ELSE {})
    \cup (IF given.allowPaid THEN {} ELSE {"consumer_wallet_to_invoke"})

FreeFlowsStayFree ==
    \A k \in Keys :
        ledger[k] # None /\ ledger[k].by \in FreeScripts /\ ledger[k].charged > 0 =>
            /\ ledger[k].seen = "fixed" /\ ledger[k].model = "token_metered"
            /\ ledger[k].by # "consumer_wallet_to_invoke"

\* A passing e2e run means that its calls succeeded, the LLM one within the
\* maximum, and the fixed-price one at the price it asserted, unless the
\* service was metered when the gateway took the call: e2e does not compare.
PassingE2eIsGood ==
    run.script = "e2e" /\ run.stage = "passed" =>
        /\ ledger[run.fixed].status \in {"SUCCEEDED", "SETTLED"}
        /\ ledger[run.fixed].charged \in {0, run.cost} \/ ledger[run.fixed].model = "token_metered"
        /\ ~given.freeOnly => /\ ledger[run.llm].status \in {"SUCCEEDED", "SETTLED"}
                       /\ ledger[run.llm].charged <= MaxCost

\* A script may be run again with the same request id, after an exception or
\* not: all runs that pass report one invocation.
RerunsReportOneCall == given.givenId => Cardinality(reported) <= 1

\* Every run ends, also when a receipt never gets better.
RunsEnd == run.stage \notin Ended ~> run.stage \in Ended
=============================================================================

------------------------ MODULE ConsumerScriptsProofs ------------------------
(***************************************************************************)
(* Proofs about the consumer scripts, for any services, offers, settings   *)
(* and number of runs: when those which promise to use free services may   *)
(* pay, what a passing e2e run says of its calls, and that runs under one  *)
(* request id report one invocation.                                       *)
(*                                                                         *)
(* All three rest on what is known of a key before the call that uses it   *)
(* (UnusedOK); the first two on the price that the gateway compares when   *)
(* it takes the call, whatever the script saw before (FixedCharge).        *)
(***************************************************************************)
EXTENDS ConsumerScripts, FiniteSetTheorems, TLAPS

\* The stages at which a run has a service, a key or an invocation, and whose.
RunOK ==
    /\ run.stage \notin Ended => runs >= 1 /\ run.script \in given.scripts
    /\ run.stage = "invoke" => run.service \in Services
    /\ run.stage \in Searches \cup {"invoke", "await"} => run.llm = None
    /\ run.stage \in {"await", "await llm"} => run.script = "e2e"
    /\ run.stage = "receipt" => run.script # "e2e"
    /\ run.stage \in {"llm", "await llm"} =>
         run.script = "llm_smoke" \/ (run.script = "e2e" /\ ~given.freeOnly)
    /\ run.stage = "receipt" /\ run.script \in ByRequestId =>
         /\ run.fixed \in Keys /\ ledger[run.fixed] # None
         /\ given.givenId => run.fixed = RequestKey

StateInv == TypeOK /\ RunOK

\* A script that found a free fixed-price service, by its own search, asserts 0.
FreeOK ==
    run.stage = "invoke" /\ run.script \in FreeScripts \ {"consumer_wallet_to_invoke"} =>
        run.cost = 0 /\ run.seen = "fixed"

\* Keys that no call has used yet.
UnusedOK ==
    /\ \A k \in Keys : k > 2 * runs => ledger[k] = None
    /\ run.stage \in Searches \cup {"invoke"} => ledger[2 * runs - 1] = None

\* How far the invocations of an e2e run have come.
LateStages == {"llm", "await llm", "passed"}
E2eOK ==
    run.script = "e2e" =>
        /\ run.stage \in {"await"} \cup LateStages => run.fixed \in Keys /\ ledger[run.fixed] # None
        /\ run.stage \in LateStages => GoodReceipt(ledger[run.fixed].status)
        /\ run.stage = "await llm" \/ (run.stage = "passed" /\ ~given.freeOnly) =>
             run.llm \in Keys /\ ledger[run.llm] # None
        /\ run.stage = "passed" /\ ~given.freeOnly =>
             GoodReceipt(ledger[run.llm].status) /\ ledger[run.llm].charged <= MaxCost

\* What the fixed-price call of an e2e run is charged.
FairCharge(e) == e.charged \in {0, run.cost} \/ e.model = "token_metered"

PricedOK ==
    run.script = "e2e" /\ run.stage \in {"await"} \cup LateStages => FairCharge(ledger[run.fixed])

\* What is reported of a request id is what its one invocation was charged.
ReportedOK ==
    given.givenId => \A x \in reported :
        ledger[RequestKey] # None /\ x = <<RequestKey, ledger[RequestKey].charged>>

ScriptsInv == StateInv /\ FreeOK /\ FreeFlowsStayFree /\ UnusedOK /\ E2eOK /\ PricedOK /\ ReportedOK

-----------------------------------------------------------------------------
LEMMA Constants ==
    /\ Prices \subseteq Nat /\ 0 \in Prices /\ MaxCost \in Prices /\ MaxRuns \in Nat
    /\ None \notin Nat /\ None \notin Services /\ None \notin Invocation
    /\ Keys \subseteq Nat /\ 0 \in Keys
BY ServiceTermsAssumption, ConsumerScriptsAssumption DEF Keys

LEMMA GivenTyped ==
    ASSUME TypeOK
    PROVE  given.scripts \subseteq AllScripts /\ given.targets \subseteq Services
BY ConsumerScriptsAssumption DEF TypeOK, Setting

\* A run that has nothing.
LEMMA BlankTyped ==
    ASSUME NEW script \in AllScripts, NEW stage \in Stages
    PROVE  Blank(script, stage) \in Run
BY Constants DEF Blank, Run, Asked

\* The keys of the run under way.
LEMMA KeysOfRun ==
    ASSUME StateInv, run.stage \notin Ended
    PROVE  /\ runs \in Nat /\ runs >= 1 /\ runs <= MaxRuns
           /\ 2 * runs - 1 \in Keys /\ 2 * runs \in Keys /\ FixedKey \in Keys
<1>1. runs \in 0..MaxRuns /\ runs >= 1 /\ MaxRuns \in Nat
  BY Constants DEF StateInv, TypeOK, RunOK
<1>2. 2 * runs - 1 \in Keys /\ 2 * runs \in Keys
  BY <1>1 DEF Keys
<1> QED
  BY <1>1, <1>2, Constants DEF FixedKey, RequestKey

-----------------------------------------------------------------------------
\* The gateway's side.  An invocation keeps its charge and its caller, and one
\* that succeeded stays so.
Kept(k) ==
    ledger[k] # None =>
        /\ ledger'[k] # None
        /\ ledger'[k].charged = ledger[k].charged /\ ledger'[k].by = ledger[k].by
        /\ ledger'[k].seen = ledger[k].seen /\ ledger'[k].model = ledger[k].model
        /\ GoodReceipt(ledger[k].status) => GoodReceipt(ledger'[k].status)

LEMMA ChargesTyped ==
    ASSUME StateInv, NEW s \in Services, NEW cost, NEW llm \in BOOLEAN
    PROVE  Charges(s, cost, llm) \subseteq Prices
BY DEF Charges

\* A service that is not metered charges what the call asserts or nothing.
LEMMA FixedCharge ==
    ASSUME NEW s \in Services, market[s] = None \/ market[s].model # "token_metered", NEW cost
    PROVE  Charges(s, cost, FALSE) \subseteq {cost}
BY DEF Charges

\* A call writes an invocation of its own, or finds the one of its key.
LEMMA CallWrites ==
    ASSUME StateInv, NEW key \in Keys, NEW s \in Services, NEW cost, NEW llm \in BOOLEAN,
           Called(key, s, cost, llm)
    PROVE  /\ ledger' \in [Keys -> Invocation \cup {None}]
           /\ ledger'[key] # None
           /\ \A k \in Keys : Kept(k) /\ (k # key => ledger'[k] = ledger[k])
           /\ ledger[key] = None =>
                /\ ledger'[key].by = run.script
                /\ ledger'[key].seen = run.seen
                /\ ledger'[key].charged \in {0} \cup Charges(s, cost, llm)
                /\ market[s] # None /\ ledger'[key].model = market[s].model
                /\ Affordable(ledger'[key].charged)
<1>1. /\ ledger \in [Keys -> Invocation \cup {None}]
      /\ run.script \in AllScripts /\ run.seen \in Models \cup {None}
  BY DEF StateInv, TypeOK, Run
<1>2. CASE ledger[key] # None
  BY <1>1, <1>2 DEF Called, Kept
<1>3. CASE ledger[key] = None
  <2>1. PICK a \in {0} \cup Charges(s, cost, llm), status \in Final :
          /\ Charges(s, cost, llm) # {} /\ Affordable(a)
          /\ ledger' = [ledger EXCEPT ![key] =
               [service |-> s, charged |-> a, status |-> status, by |-> run.script,
                seen |-> run.seen, model |-> market[s].model]]
    BY <1>3 DEF Called, Take
  <2> DEFINE e == [service |-> s, charged |-> a, status |-> status, by |-> run.script,
                   seen |-> run.seen, model |-> market[s].model]
  <2>2. a \in Prices
    BY <2>1, ChargesTyped, Constants
  <2>3. market[s] # None /\ market[s].model \in Models
    BY <2>1 DEF Charges, StateInv, TypeOK, Terms
  <2>4. /\ e \in Invocation /\ e.charged = a /\ e.by = run.script
        /\ e.seen = run.seen /\ e.model = market[s].model
    BY <1>1, <2>2, <2>3 DEF Invocation
  <2>5. ledger' = [ledger EXCEPT ![key] = e] /\ e # None
    BY <2>1, <2>4, Constants
  <2> HIDE DEF e
  <2> QED
    BY <1>1, <1>3, <2>1, <2>3, <2>4, <2>5 DEF Kept
<1> QED
  BY <1>2, <1>3

-----------------------------------------------------------------------------
\* Steps that leave the ledger alone report nothing new and charge nothing.
LEMMA LedgerStill ==
    ASSUME FreeFlowsStayFree, ReportedOK, UNCHANGED <<given, reported, ledger>>
    PROVE  FreeFlowsStayFree' /\ ReportedOK'
BY DEF FreeFlowsStayFree, FreeScripts, ReportedOK

\* Steps that leave the run alone while invocations are only settled.
LEMMA RunStill ==
    ASSUME ScriptsInv, StateInv', UNCHANGED <<given, run, runs, reported>>,
           \A k \in Keys : Kept(k) /\ (ledger[k] = None => ledger'[k] = None)
    PROVE  ScriptsInv'
<1>1. /\ StateInv /\ FreeOK /\ FreeFlowsStayFree /\ UnusedOK /\ E2eOK /\ PricedOK /\ ReportedOK
  BY DEF ScriptsInv
<1>2. FreeOK'
  BY <1>1 DEF FreeOK, FreeScripts
<1>3. FreeFlowsStayFree'
  BY <1>1 DEF FreeFlowsStayFree, FreeScripts, Kept
<1>4. UnusedOK'
  <2>1. run.stage \in Searches \cup {"invoke"} => 2 * runs - 1 \in Keys
    BY <1>1, KeysOfRun DEF Ended, Searches
  <2> QED
    BY <1>1, <2>1 DEF UnusedOK
<1>5. E2eOK'
  BY <1>1 DEF E2eOK, Kept
<1>6. PricedOK'
  BY <1>1 DEF PricedOK, FairCharge, LateStages, E2eOK, Kept
<1>7. ReportedOK'
  BY <1>1, Constants DEF ReportedOK, Kept, RequestKey
<1> QED
  BY <1>2, <1>3, <1>4, <1>5, <1>6, <1>7 DEF ScriptsInv

LEMMA PublishInv ==
    ASSUME ScriptsInv, Publish, UNCHANGED given
    PROVE  ScriptsInv'
<1>1. PICK s \in Services : \E t \in Offers[s] : market' = [market EXCEPT ![s] = t]
  BY DEF Publish
<1>2. UNCHANGED <<run, runs, reported, ledger>>
  BY DEF Publish
<1>3. TypeOK /\ RunOK
  BY DEF ScriptsInv, StateInv
<1>4. TypeOK'
  BY <1>1, <1>2, <1>3, ConsumerScriptsAssumption DEF TypeOK
<1>5. RunOK'
  BY <1>2, <1>3 DEF RunOK
<1> QED
  BY <1>2, <1>4, <1>5, RunStill DEF StateInv, Kept

LEMMA TakeDownInv ==
    ASSUME ScriptsInv, TakeDown, UNCHANGED given
    PROVE  ScriptsInv'
<1>1. PICK s \in Services : market' = [market EXCEPT ![s] = None]
  BY DEF TakeDown, OnSale
<1>2. UNCHANGED <<run, runs, reported, ledger>>
  BY DEF TakeDown
<1>3. TypeOK /\ RunOK
  BY DEF ScriptsInv, StateInv
<1>4. TypeOK'
  BY <1>1, <1>2, <1>3 DEF TypeOK
<1>5. RunOK'
  BY <1>2, <1>3 DEF RunOK
<1> QED
  BY <1>2, <1>4, <1>5, RunStill DEF StateInv, Kept

LEMMA SettleInv ==
    ASSUME ScriptsInv, Settle, UNCHANGED given
    PROVE  ScriptsInv'
<1>1. PICK k \in Keys : /\ ledger[k] # None /\ ledger[k].status = "SUCCEEDED"
                        /\ ledger' = [ledger EXCEPT ![k].status = "SETTLED"]
  BY DEF Settle
<1>2. UNCHANGED <<run, runs, reported, market>>
  BY DEF Settle
<1>3. TypeOK /\ RunOK
  BY DEF ScriptsInv, StateInv
<1> DEFINE e == [ledger[k] EXCEPT !.status = "SETTLED"]
<1>4. /\ e \in Invocation /\ e.charged = ledger[k].charged /\ e.by = ledger[k].by
      /\ e.status = "SETTLED"
  BY <1>1, <1>3 DEF TypeOK, Invocation, Final
<1>5. ledger' = [ledger EXCEPT ![k] = e] /\ e # None
  BY <1>1, <1>3, <1>4, Constants DEF TypeOK
<1> HIDE DEF e
<1>6. \A j \in Keys : Kept(j) /\ (ledger[j] = None => ledger'[j] = None)
  BY <1>1, <1>3, <1>4, <1>5 DEF TypeOK, Kept, GoodReceipt
<1>7. TypeOK'
  BY <1>2, <1>3, <1>4, <1>5 DEF TypeOK
<1>8. RunOK'
  BY <1>2, <1>3, <1>6 DEF RunOK, Kept
<1> QED
  BY <1>2, <1>6, <1>7, <1>8, RunStill DEF StateInv

-----------------------------------------------------------------------------
\* The steps of a run.
LEMMA StartInv ==
    ASSUME ScriptsInv, Start, UNCHANGED given
    PROVE  ScriptsInv'
<1>1. PICK script \in given.scripts : run' = Blank(script, FirstStage(script))
  BY DEF Start
<1>2. runs < MaxRuns /\ runs' = runs + 1 /\ UNCHANGED <<reported, market, ledger>>
  BY DEF Start
<1>3. TypeOK /\ RunOK /\ FreeFlowsStayFree /\ UnusedOK /\ ReportedOK
  BY DEF ScriptsInv, StateInv
<1>4. script \in AllScripts /\ runs \in Nat /\ runs + 1 \in 0..MaxRuns
  BY <1>2, <1>3, GivenTyped, Constants DEF TypeOK
<1>5. /\ FirstStage(script) \in {"llm", "search echo", "search"}
      /\ FirstStage(script) = "llm" => script = "llm_smoke"
  BY DEF FirstStage
<1>6. /\ run'.script = script /\ run'.stage = FirstStage(script) /\ run'.llm = None
      /\ run'.service = None /\ run'.cost = 0 /\ run'.fixed = None
  BY <1>1 DEF Blank
<1>7. TypeOK'
  <2>1. run' \in Run
    BY <1>1, <1>4, <1>5, BlankTyped DEF Stages, Searches
  <2> QED
    BY <1>2, <1>3, <1>4, <2>1 DEF TypeOK
<1>8. RunOK'
  <2>1. runs' >= 1 /\ run'.script \in given'.scripts /\ run'.llm = None
    BY <1>2, <1>4, <1>6
  <2>2. /\ run'.stage \notin {"invoke", "await", "await llm", "receipt"}
        /\ run'.stage = "llm" => run'.script = "llm_smoke"
    BY <1>5, <1>6
  <2> QED
    BY <2>1, <2>2 DEF RunOK
<1>9. FreeOK' /\ E2eOK' /\ PricedOK'
  BY <1>5, <1>6 DEF FreeOK, E2eOK, PricedOK, FairCharge, LateStages
<1>10. UnusedOK'
  <2>1. 2 * runs' - 1 \in Keys /\ 2 * runs' - 1 > 2 * runs
    BY <1>2, <1>4, Constants DEF Keys
  <2>2. \A k \in Keys : k > 2 * runs' => k > 2 * runs
    BY <1>2, <1>4, Constants
  <2> QED
    BY <1>2, <1>3, <2>1, <2>2 DEF UnusedOK
<1>11. FreeFlowsStayFree' /\ ReportedOK'
  BY <1>2, <1>3, LedgerStill
<1> QED
  BY <1>7, <1>8, <1>9, <1>10, <1>11 DEF ScriptsInv, StateInv

\* A run that ends without having passed.
LEMMA EndInv ==
    ASSUME ScriptsInv, UNCHANGED <<given, runs, reported, market, ledger>>,
           NEW stage \in {"failed", "no terminal status"}, Exit(stage)
    PROVE  ScriptsInv'
<1>1. TypeOK /\ RunOK /\ FreeFlowsStayFree /\ UnusedOK /\ ReportedOK
  BY DEF ScriptsInv, StateInv
<1>2. run' \in Run /\ run'.stage = stage
  <2>1. run.script \in AllScripts /\ stage \in Stages
    BY <1>1 DEF TypeOK, Run, Stages, Ended
  <2> QED
    BY <2>1, BlankTyped DEF Exit, Blank
<1>3. TypeOK'
  BY <1>1, <1>2 DEF TypeOK
<1>4. RunOK'
  BY <1>2 DEF RunOK, Ended, Searches
<1>5. FreeOK' /\ E2eOK' /\ PricedOK'
  BY <1>2 DEF FreeOK, E2eOK, PricedOK, FairCharge, LateStages
<1>6. UnusedOK'
  BY <1>1, <1>2 DEF UnusedOK, Searches
<1> QED
  BY <1>1, <1>3, <1>4, <1>5, <1>6, LedgerStill DEF ScriptsInv, StateInv

\* A run that has its service: found by its own search, or told.
LEMMA ChosenInv ==
    ASSUME ScriptsInv, UNCHANGED <<given, runs, reported, market, ledger>>,
           run.stage \in Searches, NEW s \in Services, NEW cost \in Asked,
           NEW seen \in Models \cup {None},
           run' = [run EXCEPT !.stage = "invoke", !.service = s, !.cost = cost, !.seen = seen],
           run.script \in FreeScripts \ {"consumer_wallet_to_invoke"} =>
               cost = 0 /\ seen = "fixed"
    PROVE  ScriptsInv'
<1>1. TypeOK /\ RunOK /\ FreeFlowsStayFree /\ UnusedOK /\ ReportedOK
  BY DEF ScriptsInv, StateInv
<1>2. run \in Run
  BY <1>1 DEF TypeOK
<1>3. /\ run' \in Run /\ run'.stage = "invoke" /\ run'.service = s /\ run'.cost = cost
      /\ run'.seen = seen /\ run'.script = run.script /\ run'.llm = run.llm
  BY <1>2 DEF Run, Stages
<1>4. TypeOK'
  BY <1>1, <1>3 DEF TypeOK
<1>5. RunOK'
  BY <1>1, <1>3 DEF RunOK, Ended, Searches
<1>6. FreeOK' /\ E2eOK' /\ PricedOK'
  BY <1>3 DEF FreeOK, E2eOK, PricedOK, FairCharge, LateStages, FreeScripts
<1>7. UnusedOK'
  BY <1>1, <1>3 DEF UnusedOK
<1> QED
  BY <1>1, <1>4, <1>5, <1>6, <1>7, LedgerStill DEF ScriptsInv, StateInv

LEMMA SelectInv ==
    ASSUME ScriptsInv, Select, UNCHANGED given
    PROVE  ScriptsInv'
<1>1. PICK s \in OnSale :
        /\ Selects(run.script, market[s])
        /\ run' = [run EXCEPT !.stage = "invoke", !.service = s, !.cost = Asserted(market[s]),
                              !.seen = market[s].model]
  BY DEF Select
<1>2. run.stage \in Searches /\ UNCHANGED <<runs, reported, market, ledger>>
  BY DEF Select
<1>3. s \in Services /\ market[s] \in Terms
  BY DEF ScriptsInv, StateInv, TypeOK, OnSale
<1> DEFINE t == market[s]
<1>4. t.amount \in Asked \cup {None} /\ 0 \in Asked /\ Amount(t) \in Asked
  BY <1>3, Constants DEF Terms, Amount, Asked
<1>5. Asserted(t) \in Asked
  BY <1>4 DEF Asserted, PriceUsdc
<1>6. run.script \in {"free_service_smoke", "e2e"} => Asserted(t) = 0 /\ t.model = "fixed"
  BY <1>1 DEF Selects, FreeFixed, Asserted, PriceUsdc
<1>7. t.model \in Models \cup {None}
  BY <1>3 DEF Terms
<1> HIDE DEF t
<1>8. run.script \in FreeScripts \ {"consumer_wallet_to_invoke"} =>
        run.script \in {"free_service_smoke", "e2e"}
  BY DEF FreeScripts
<1> QED
  BY <1>1, <1>2, <1>3, <1>5, <1>6, <1>7, <1>8, ChosenInv DEF t

LEMMA ToldInv ==
    ASSUME ScriptsInv, Told, UNCHANGED given
    PROVE  ScriptsInv'
<1>1. PICK s \in given.targets, cost \in Prices :
        run' = [run EXCEPT !.stage = "invoke", !.service = s, !.cost = cost]
  BY DEF Told
<1>2. /\ run.stage \in Searches /\ run.script \in {"e2e"} \cup ByRequestId
      /\ UNCHANGED <<runs, reported, market, ledger>>
  BY DEF Told
<1>3. TypeOK /\ RunOK
  BY DEF ScriptsInv, StateInv
<1>4. s \in Services /\ cost \in Asked
  BY <1>3, GivenTyped DEF Asked
<1>5. run.script \notin FreeScripts \ {"consumer_wallet_to_invoke"}
  BY <1>1, <1>2 DEF FreeScripts, ByRequestId
<1>6. run' = [run EXCEPT !.stage = "invoke", !.service = s, !.cost = cost, !.seen = run.seen]
      /\ run.seen \in Models \cup {None}
  BY <1>1, <1>3 DEF TypeOK, Run
<1> QED
  BY <1>2, <1>4, <1>5, <1>6, ChosenInv

LEMMA SearchAgainInv ==
    ASSUME ScriptsInv, SearchAgain, UNCHANGED given
    PROVE  ScriptsInv'
<1>1. /\ run.stage = "search echo" /\ run' = [run EXCEPT !.stage = "search free"]
      /\ UNCHANGED <<runs, reported, market, ledger>>
  BY DEF SearchAgain, Go
<1>2. TypeOK /\ RunOK /\ FreeFlowsStayFree /\ UnusedOK /\ ReportedOK
  BY DEF ScriptsInv, StateInv
<1>3. run' \in Run /\ run'.stage = "search free" /\ run'.script = run.script /\ run'.llm = run.llm
  BY <1>1, <1>2 DEF TypeOK, Run, Stages, Searches
<1>4. TypeOK'
  BY <1>1, <1>2, <1>3 DEF TypeOK
<1>5. RunOK'
  BY <1>1, <1>2, <1>3 DEF RunOK, Ended, Searches
<1>6. FreeOK' /\ E2eOK' /\ PricedOK'
  BY <1>3 DEF FreeOK, E2eOK, PricedOK, FairCharge, LateStages
<1>7. UnusedOK'
  BY <1>1, <1>2, <1>3 DEF UnusedOK, Searches
<1> QED
  BY <1>1, <1>2, <1>4, <1>5, <1>6, <1>7, LedgerStill DEF ScriptsInv, StateInv

\* The fixed-price call of a run is taken, whether or not the answer arrives.
LEMMA InvokeWrites ==
    ASSUME ScriptsInv, UNCHANGED <<given, runs, reported, market>>, run.stage = "invoke",
           Called(FixedKey, run.service, run.cost, FALSE)
    PROVE  /\ FixedKey \in Keys
           /\ ledger' \in [Keys -> Invocation \cup {None}] /\ ledger'[FixedKey] # None
           /\ \A k \in Keys : Kept(k) /\ (k # FixedKey => ledger'[k] = ledger[k])
           /\ FreeFlowsStayFree' /\ ReportedOK'
           /\ \A k \in Keys : k > 2 * runs => ledger'[k] = None
           /\ run.script = "e2e" => FairCharge(ledger'[FixedKey])
<1>1. /\ StateInv /\ TypeOK /\ RunOK /\ FreeOK /\ FreeFlowsStayFree /\ UnusedOK /\ PricedOK
      /\ ReportedOK
  BY DEF ScriptsInv, StateInv
<1>2. run.service \in Services /\ run.script \in AllScripts
  BY <1>1 DEF RunOK, TypeOK, Run
<1>3. /\ runs \in Nat /\ runs >= 1 /\ 2 * runs - 1 \in Keys /\ FixedKey \in Keys
  BY <1>1, KeysOfRun DEF Ended
<1>4. FixedKey <= 2 * runs - 1 /\ FixedKey \in Nat
  BY <1>3 DEF FixedKey, RequestKey
<1>5. /\ ledger' \in [Keys -> Invocation \cup {None}] /\ ledger'[FixedKey] # None
      /\ \A k \in Keys : Kept(k) /\ (k # FixedKey => ledger'[k] = ledger[k])
      /\ ledger[FixedKey] = None =>
           /\ ledger'[FixedKey].by = run.script /\ ledger'[FixedKey].seen = run.seen
           /\ ledger'[FixedKey].charged \in {0} \cup Charges(run.service, run.cost, FALSE)
           /\ market[run.service] # None
           /\ ledger'[FixedKey].model = market[run.service].model
           /\ Affordable(ledger'[FixedKey].charged)
  <2> DEFINE key == FixedKey
             s == run.service
             cost == run.cost
  <2>1. key \in Keys /\ s \in Services /\ Called(key, s, cost, FALSE)
    BY <1>2, <1>3
  <2> HIDE DEF key, s, cost
  <2>2. /\ ledger' \in [Keys -> Invocation \cup {None}] /\ ledger'[key] # None
        /\ \A k \in Keys : Kept(k) /\ (k # key => ledger'[k] = ledger[k])
        /\ ledger[key] = None =>
             /\ ledger'[key].by = run.script /\ ledger'[key].seen = run.seen
             /\ ledger'[key].charged \in {0} \cup Charges(s, cost, FALSE)
             /\ market[s] # None
             /\ ledger'[key].model = market[s].model
             /\ Affordable(ledger'[key].charged)
    BY <1>1, <2>1, CallWrites
  <2> QED
    BY <2>2 DEF key, s, cost
<1>6. ledger[FixedKey] = None => FairCharge(ledger'[FixedKey])
  BY <1>2, <1>5, FixedCharge DEF FairCharge
<1>7. ASSUME ledger[FixedKey] = None, run.script \in FreeScripts,
             ledger'[FixedKey].charged > 0
      PROVE  /\ ledger'[FixedKey].seen = "fixed" /\ ledger'[FixedKey].model = "token_metered"
             /\ run.script # "consumer_wallet_to_invoke"
  <2>1. ledger'[FixedKey].charged # 0
    BY <1>7
  <2>2. CASE run.script = "consumer_wallet_to_invoke"
    <3>1. Credit = 0 /\ Credit # None
      BY <1>7, <2>2, Constants DEF Credit, FreeScripts
    <3>2. ledger'[FixedKey].charged <= 0 /\ ledger'[FixedKey].charged \in Prices
      BY <1>1, <1>2, <1>5, <1>7, <3>1, ChargesTyped, Constants DEF Affordable
    <3>3. ledger'[FixedKey].charged \in Nat
      BY <3>2, ServiceTermsAssumption
    <3> QED
      BY <2>1, <3>2, <3>3
  <2>3. CASE run.script # "consumer_wallet_to_invoke"
    <3>1. run.cost = 0 /\ run.seen = "fixed"
      BY <1>1, <1>7, <2>3 DEF FreeOK
    <3> QED
      BY <1>5, <1>6, <1>7, <2>1, <2>3, <3>1 DEF FairCharge
  <2> QED
    BY <2>2, <2>3
<1>8. FreeFlowsStayFree'
  <2> SUFFICES ASSUME NEW k \in Keys, ledger'[k] # None, ledger'[k].by \in FreeScripts,
                      ledger'[k].charged > 0
               PROVE  /\ ledger'[k].seen = "fixed" /\ ledger'[k].model = "token_metered"
                      /\ ledger'[k].by # "consumer_wallet_to_invoke"
    BY DEF FreeFlowsStayFree, FreeScripts
  <2>1. CASE ledger[k] # None
    BY <1>1, <1>5, <2>1 DEF FreeFlowsStayFree, Kept
  <2>2. CASE ledger[k] = None
    BY <1>5, <1>7, <2>2
  <2> QED
    BY <2>1, <2>2
<1>9. ReportedOK'
  BY <1>1, <1>5, Constants DEF ReportedOK, Kept, RequestKey
<1>10. \A k \in Keys : k > 2 * runs => ledger'[k] = None
  BY <1>1, <1>3, <1>4, <1>5, Constants DEF UnusedOK
<1>11. ASSUME run.script = "e2e"
       PROVE  FairCharge(ledger'[FixedKey])
  <2>1. FixedKey = 2 * runs - 1
    BY <1>11 DEF FixedKey, ByRequestId
  <2> QED
    BY <1>1, <1>6, <2>1 DEF UnusedOK
<1> QED
  BY <1>3, <1>5, <1>8, <1>9, <1>10, <1>11

LEMMA InvokeReturnsInv ==
    ASSUME ScriptsInv, InvokeReturns, UNCHANGED given
    PROVE  ScriptsInv'
<1> DEFINE key == FixedKey
           next == IF run.script = "e2e" THEN "await" ELSE "receipt"
<1>1. /\ run.stage = "invoke" /\ run' = [run EXCEPT !.fixed = key, !.stage = next]
      /\ Called(key, run.service, run.cost, FALSE) /\ UNCHANGED <<runs, reported, market>>
  BY DEF InvokeReturns
<1>2. TypeOK /\ RunOK /\ run \in Run
  BY DEF ScriptsInv, StateInv, TypeOK
<1>3. /\ key \in Keys
      /\ ledger' \in [Keys -> Invocation \cup {None}] /\ ledger'[key] # None
      /\ FreeFlowsStayFree' /\ ReportedOK'
      /\ \A k \in Keys : k > 2 * runs => ledger'[k] = None
      /\ run.script = "e2e" => FairCharge(ledger'[key])
  BY <1>1, InvokeWrites
<1>4. run.script \in ByRequestId /\ given.givenId => key = RequestKey
  BY DEF FixedKey
<1> HIDE DEF key
<1>5. /\ run' \in Run /\ run'.stage = next /\ run'.fixed = key
      /\ run'.script = run.script /\ run'.llm = run.llm /\ run'.cost = run.cost
  BY <1>1, <1>2, <1>3 DEF Run, Stages
<1>6. TypeOK'
  BY <1>1, <1>2, <1>3, <1>5 DEF TypeOK
<1>7. RunOK'
  <2>1. runs >= 1 /\ run.script \in given.scripts /\ run.llm = None
    BY <1>1, <1>2 DEF RunOK, Ended
  <2> QED
    BY <1>1, <1>3, <1>4, <1>5, <2>1 DEF RunOK, Searches
<1>8. FreeOK' /\ E2eOK' /\ PricedOK'
  BY <1>3, <1>5 DEF FreeOK, E2eOK, PricedOK, FairCharge, LateStages
<1>9. UnusedOK'
  BY <1>1, <1>3, <1>5 DEF UnusedOK, Searches
<1> QED
  BY <1>3, <1>6, <1>7, <1>8, <1>9 DEF ScriptsInv, StateInv

\* The LLM call of a run is taken.
LEMMA LlmWrites ==
    ASSUME ScriptsInv, UNCHANGED <<given, runs, reported, market>>, run.stage = "llm",
           Called(2 * runs, Llm, 0, TRUE)
    PROVE  /\ 2 * runs \in Keys
           /\ ledger' \in [Keys -> Invocation \cup {None}] /\ ledger'[2 * runs] # None
           /\ \A k \in Keys : Kept(k)
           /\ FreeFlowsStayFree' /\ ReportedOK'
           /\ \A k \in Keys : k > 2 * runs => ledger'[k] = None
<1>1. StateInv /\ RunOK /\ FreeFlowsStayFree /\ UnusedOK /\ ReportedOK
  BY DEF ScriptsInv, StateInv
<1>2. runs \in Nat /\ 2 * runs \in Keys /\ Llm \in Services
  BY <1>1, KeysOfRun, ConsumerScriptsAssumption DEF Ended
<1> DEFINE key == 2 * runs
<1>3. /\ ledger' \in [Keys -> Invocation \cup {None}] /\ ledger'[key] # None
      /\ \A k \in Keys : Kept(k) /\ (k # key => ledger'[k] = ledger[k])
      /\ ledger[key] = None => ledger'[key].by = run.script
  BY <1>1, <1>2, CallWrites
<1>4. run.script \notin FreeScripts
  BY <1>1 DEF RunOK, FreeScripts
<1>5. \A k \in Keys : k > 2 * runs => ledger'[k] = None
  BY <1>1, <1>2, <1>3, Constants DEF UnusedOK
<1> HIDE DEF key
<1>6. FreeFlowsStayFree'
  <2> SUFFICES ASSUME NEW k \in Keys, ledger'[k] # None, ledger'[k].by \in FreeScripts,
                      ledger'[k].charged > 0
               PROVE  /\ ledger'[k].seen = "fixed" /\ ledger'[k].model = "token_metered"
                      /\ ledger'[k].by # "consumer_wallet_to_invoke"
    BY DEF FreeFlowsStayFree, FreeScripts
  <2> QED
    BY <1>1, <1>3, <1>4 DEF FreeFlowsStayFree, Kept
<1>7. ReportedOK'
  BY <1>1, <1>3, Constants DEF ReportedOK, Kept, RequestKey
<1> QED
  BY <1>2, <1>3, <1>5, <1>6, <1>7 DEF key

LEMMA InvokeLlmReturnsInv ==
    ASSUME ScriptsInv, InvokeLlmReturns, UNCHANGED given
    PROVE  ScriptsInv'
<1> DEFINE key == 2 * runs
           next == IF run.script = "e2e" THEN "await llm" ELSE "receipt"
<1>1. /\ run.stage = "llm" /\ run' = [run EXCEPT !.llm = key, !.stage = next]
      /\ Called(key, Llm, 0, TRUE) /\ UNCHANGED <<runs, reported, market>>
  BY DEF InvokeLlmReturns
<1>2. /\ TypeOK /\ RunOK /\ E2eOK /\ PricedOK /\ run \in Run
  BY DEF ScriptsInv, StateInv, TypeOK
<1>3. /\ key \in Keys
      /\ ledger' \in [Keys -> Invocation \cup {None}] /\ ledger'[key] # None
      /\ \A k \in Keys : Kept(k)
      /\ FreeFlowsStayFree' /\ ReportedOK'
      /\ \A k \in Keys : k > 2 * runs => ledger'[k] = None
  BY <1>1, LlmWrites
<1> HIDE DEF key
<1>4. /\ run' \in Run /\ run'.stage = next /\ run'.llm = key
      /\ run'.script = run.script /\ run'.fixed = run.fixed /\ run'.cost = run.cost
  BY <1>1, <1>2, <1>3 DEF Run, Stages
<1>5. TypeOK'
  BY <1>1, <1>2, <1>3, <1>4 DEF TypeOK
<1>6. RunOK'
  <2>1. /\ runs >= 1 /\ run.script \in given.scripts
        /\ run.script = "llm_smoke" \/ (run.script = "e2e" /\ ~given.freeOnly)
    BY <1>1, <1>2 DEF RunOK, Ended
  <2>2. /\ run'.stage \in {"await llm", "receipt"}
        /\ run'.stage = "await llm" <=> run'.script = "e2e"
    BY <1>4
  <2>3. runs' >= 1 /\ run'.script \in given'.scripts
    BY <1>1, <1>4, <2>1
  <2>4. run'.script = "llm_smoke" \/ (run'.script = "e2e" /\ ~given'.freeOnly)
    BY <1>4, <2>1
  <2> QED
    BY <2>2, <2>3, <2>4 DEF RunOK, Searches, ByRequestId
<1>7. FreeOK'
  BY <1>4 DEF FreeOK
<1>8. E2eOK'
  BY <1>1, <1>2, <1>3, <1>4 DEF E2eOK, LateStages, Kept
<1>9. PricedOK'
  BY <1>1, <1>2, <1>3, <1>4 DEF E2eOK, PricedOK, FairCharge, LateStages, Kept
<1>10. UnusedOK'
  BY <1>1, <1>3, <1>4 DEF UnusedOK, Searches
<1> QED
  BY <1>3, <1>5, <1>6, <1>7, <1>8, <1>9, <1>10 DEF ScriptsInv, StateInv

LEMMA InvokeLostInv ==
    ASSUME ScriptsInv, InvokeLost, UNCHANGED given
    PROVE  ScriptsInv'
<1>1. /\ run.stage \in {"invoke", "llm"} /\ run' = Blank(run.script, "failed")
      /\ UNCHANGED <<runs, reported, market>>
  BY DEF InvokeLost, Exit
<1>2. TypeOK /\ RunOK /\ run \in Run
  BY DEF ScriptsInv, StateInv, TypeOK
<1>3. /\ ledger' \in [Keys -> Invocation \cup {None}]
      /\ FreeFlowsStayFree' /\ ReportedOK'
      /\ \A k \in Keys : k > 2 * runs => ledger'[k] = None
  <2>1. CASE run.stage = "invoke"
    BY <1>1, <2>1, InvokeWrites DEF InvokeLost
  <2>2. CASE run.stage = "llm"
    BY <1>1, <2>2, LlmWrites DEF InvokeLost
  <2> QED
    BY <1>1, <2>1, <2>2
<1>4. run' \in Run /\ run'.stage = "failed"
  <2>1. run.script \in AllScripts /\ "failed" \in Stages
    BY <1>2 DEF Run, Stages, Ended
  <2> QED
    BY <1>1, <2>1, BlankTyped DEF Blank
<1>5. TypeOK'
  BY <1>1, <1>2, <1>3, <1>4 DEF TypeOK
<1>6. RunOK'
  BY <1>4 DEF RunOK, Ended, Searches
<1>7. FreeOK' /\ E2eOK' /\ PricedOK'
  BY <1>4 DEF FreeOK, E2eOK, PricedOK, FairCharge, LateStages
<1>8. UnusedOK'
  BY <1>1, <1>3, <1>4 DEF UnusedOK, Searches
<1> QED
  BY <1>3, <1>5, <1>6, <1>7, <1>8 DEF ScriptsInv, StateInv

LEMMA ReceiptInv ==
    ASSUME ScriptsInv, Receipt, UNCHANGED given
    PROVE  ScriptsInv'
<1> DEFINE next == IF Overcharged THEN "failed" ELSE "passed"
           row == <<run.fixed, ledger[run.fixed].charged>>
<1>1. /\ run.stage = "receipt" /\ run' = [run EXCEPT !.stage = next]
      /\ reported' = IF run.script \in ByRequestId THEN reported \cup {row} ELSE reported
      /\ UNCHANGED <<runs, market, ledger>>
  BY DEF Receipt, Go
<1>2. /\ TypeOK /\ RunOK /\ FreeFlowsStayFree /\ UnusedOK /\ ReportedOK
      /\ run \in Run
  BY DEF ScriptsInv, StateInv, TypeOK
<1>3. /\ run' \in Run /\ run'.stage \in {"failed", "passed"} /\ run'.script = run.script
      /\ run.script # "e2e"
  BY <1>1, <1>2 DEF Run, Stages, Ended, RunOK
<1>4. run.script \in ByRequestId =>
        /\ run.fixed \in Keys /\ ledger[run.fixed] \in Invocation
        /\ ledger[run.fixed] # None
        /\ given.givenId => run.fixed = RequestKey
  BY <1>1, <1>2 DEF RunOK, TypeOK
<1>5. run.script \in ByRequestId => row \in Keys \X Prices
  BY <1>4 DEF Invocation
<1>6. TypeOK'
  BY <1>1, <1>2, <1>3, <1>5 DEF TypeOK
<1>7. RunOK'
  BY <1>3 DEF RunOK, Ended, Searches
<1>8. FreeOK' /\ E2eOK' /\ PricedOK'
  BY <1>3 DEF FreeOK, E2eOK, PricedOK, FairCharge
<1>9. UnusedOK'
  BY <1>1, <1>2, <1>3 DEF UnusedOK, Searches
<1>10. FreeFlowsStayFree'
  BY <1>1, <1>2 DEF FreeFlowsStayFree, FreeScripts
<1>11. ReportedOK'
  BY <1>1, <1>2, <1>4 DEF ReportedOK
<1> QED
  BY <1>6, <1>7, <1>8, <1>9, <1>10, <1>11 DEF ScriptsInv, StateInv

LEMMA AwaitReceiptInv ==
    ASSUME ScriptsInv, AwaitReceipt, UNCHANGED given
    PROVE  ScriptsInv'
<1>1. /\ run.stage \in {"await", "await llm"} /\ GoodReceipt(Awaited.status)
      /\ UNCHANGED <<runs, reported, market, ledger>>
  BY DEF AwaitReceipt
<1>2. /\ TypeOK /\ RunOK /\ FreeFlowsStayFree /\ UnusedOK /\ E2eOK /\ PricedOK
      /\ ReportedOK /\ run \in Run /\ run.script = "e2e"
  BY <1>1 DEF ScriptsInv, StateInv, TypeOK, RunOK
<1>3. FreeFlowsStayFree' /\ ReportedOK'
  BY <1>1, <1>2, LedgerStill
<1>4. runs >= 1 /\ run.script \in given.scripts
  BY <1>1, <1>2 DEF RunOK, Ended
<1>5. CASE run.stage = "await"
  <2> DEFINE next == IF given.freeOnly THEN "passed" ELSE "llm"
  <2>1. run.llm = None /\ GoodReceipt(ledger[run.fixed].status)
    BY <1>1, <1>2, <1>5 DEF RunOK, Awaited
  <2>2. run' = [run EXCEPT !.stage = next]
    <3>1. ~Overcharged
      BY <2>1 DEF Overcharged
    <3> QED
      BY <1>5, <3>1 DEF AwaitReceipt, Go
  <2>3. /\ run' \in Run /\ run'.stage = next /\ run'.script = run.script
        /\ run'.fixed = run.fixed /\ run'.cost = run.cost /\ run'.llm = run.llm
    BY <1>2, <2>2 DEF Run, Stages, Ended
  <2>4. TypeOK'
    BY <1>1, <1>2, <2>3 DEF TypeOK
  <2>5. RunOK'
    BY <1>1, <1>2, <1>4, <2>3 DEF RunOK, Ended, Searches
  <2>6. FreeOK'
    BY <2>3 DEF FreeOK
  <2>7. E2eOK'
    BY <1>1, <1>2, <1>5, <2>1, <2>3 DEF E2eOK, LateStages
  <2>8. PricedOK'
    BY <1>1, <1>2, <1>5, <2>3 DEF PricedOK, FairCharge, LateStages
  <2>9. UnusedOK'
    BY <1>1, <1>2, <2>3 DEF UnusedOK, Searches
  <2> QED
    BY <1>3, <2>4, <2>5, <2>6, <2>7, <2>8, <2>9 DEF ScriptsInv, StateInv
<1>6. CASE run.stage = "await llm"
  <2> DEFINE next == IF Overcharged THEN "failed" ELSE "passed"
  <2>1. run' = [run EXCEPT !.stage = next]
    BY <1>6 DEF AwaitReceipt, Go
  <2>2. /\ run.llm \in Keys /\ ledger[run.llm] # None /\ run.llm # None
        /\ ledger[run.llm] \in Invocation
    BY <1>2, <1>6, Constants DEF E2eOK, TypeOK
  <2>3. GoodReceipt(ledger[run.llm].status)
    BY <1>1, <2>2 DEF Awaited
  <2>4. next = "passed" => ledger[run.llm].charged <= MaxCost
    <3>1. next = "passed" => ~(ledger[run.llm].charged > MaxCost)
      BY <2>2 DEF Overcharged
    <3>2. ledger[run.llm].charged \in Nat /\ MaxCost \in Nat
      BY <2>2, ServiceTermsAssumption, ConsumerScriptsAssumption DEF Invocation
    <3> HIDE DEF next
    <3> QED
      BY <3>1, <3>2
  <2>5. /\ run' \in Run /\ run'.stage = next /\ run'.script = run.script
        /\ run'.fixed = run.fixed /\ run'.cost = run.cost /\ run'.llm = run.llm
    BY <1>2, <2>1 DEF Run, Stages, Ended
  <2>6. TypeOK'
    BY <1>1, <1>2, <2>5 DEF TypeOK
  <2>7. RunOK'
    BY <2>5 DEF RunOK, Ended, Searches
  <2>8. FreeOK'
    BY <2>5 DEF FreeOK
  <2>9. E2eOK'
    BY <1>1, <1>2, <1>6, <2>2, <2>3, <2>4, <2>5 DEF E2eOK, LateStages
  <2>10. PricedOK'
    BY <1>1, <1>2, <1>6, <2>5 DEF PricedOK, FairCharge, LateStages
  <2>11. UnusedOK'
    BY <1>1, <1>2, <2>5 DEF UnusedOK, Searches
  <2> QED
    BY <1>3, <2>6, <2>7, <2>8, <2>9, <2>10, <2>11 DEF ScriptsInv, StateInv
<1> QED
  BY <1>1, <1>5, <1>6

-----------------------------------------------------------------------------
LEMMA NextInv ==
    ASSUME ScriptsInv, [Next]_vars
    PROVE  ScriptsInv'
<1>1. CASE Fail /\ UNCHANGED given
  BY <1>1, EndInv DEF Fail
<1>2. CASE AwaitTimesOut /\ UNCHANGED given
  BY <1>2, EndInv DEF AwaitTimesOut
<1>3. CASE UNCHANGED vars
  <2>1. StateInv'
    BY <1>3 DEF vars, ScriptsInv, StateInv, TypeOK, RunOK
  <2> QED
    BY <1>3, <2>1, RunStill DEF vars, Kept
<1> QED
  BY <1>1, <1>2, <1>3, StartInv, PublishInv, TakeDownInv, SettleInv, SelectInv, ToldInv,
     SearchAgainInv, InvokeReturnsInv, InvokeLlmReturnsInv, InvokeLostInv, ReceiptInv,
     AwaitReceiptInv DEF Next, Proceed

LEMMA InitInv == ASSUME Init PROVE ScriptsInv
<1>1. run.stage = "failed" /\ run.script = "llm_smoke" /\ runs = 0 /\ reported = {}
  BY DEF Init, Blank
<1>2. TypeOK
  <2>1. run \in Run
    BY BlankTyped DEF Init, AllScripts, Stages, Ended
  <2> QED
    BY <2>1, Constants DEF Init, TypeOK
<1>3. RunOK
  BY <1>1 DEF Init, RunOK, Ended, Searches
<1>4. FreeOK /\ FreeFlowsStayFree /\ UnusedOK /\ E2eOK /\ PricedOK /\ ReportedOK
  BY <1>1 DEF Init, FreeOK, FreeFlowsStayFree, UnusedOK, Searches, E2eOK, PricedOK, ReportedOK
<1> QED
  BY <1>2, <1>3, <1>4 DEF ScriptsInv, StateInv

LEMMA ScriptsInvariant == Spec => []ScriptsInv
  BY InitInv, NextInv, PTL DEF Spec

\* Shape of the state: a run asks for a service, a key and an invocation only
\* when it has them.
THEOREM ScriptsTypeCorrect == Spec => []TypeOK
<1>1. ScriptsInv => TypeOK
  BY DEF ScriptsInv, StateInv
<1> QED
  BY <1>1, ScriptsInvariant, PTL

\* free_service_smoke, and e2e with SYNAPSE_E2E_FREE_ONLY and no service told,
\* pay only a service that they saw with a fixed price of zero and that its
\* provider metered before the call; the wallet script without --allow-paid
\* pays nothing.  Providers may change any term of a service at any time.
THEOREM FreeScriptsPayNoFixedPrice == Spec => []FreeFlowsStayFree
<1>1. ScriptsInv => FreeFlowsStayFree
  BY DEF ScriptsInv
<1> QED
  BY <1>1, ScriptsInvariant, PTL

\* A passing e2e run means that its calls succeeded, the LLM call within its
\* maximum and the other at what it asserted or nothing, if its service had a
\* fixed price when the gateway took the call.
THEOREM PassedRunsAreGood == Spec => []PassingE2eIsGood
<1>1. ScriptsInv => PassingE2eIsGood
  BY DEF ScriptsInv, E2eOK, PricedOK, FairCharge, LateStages, GoodReceipt, PassingE2eIsGood
<1> QED
  BY <1>1, ScriptsInvariant, PTL

\* Runs of smoke_test and consumer_call_provider that are given one request id
\* report one invocation at one charge, whichever of them it was that made it.
THEOREM RerunsReportOne == Spec => []RerunsReportOneCall
<1>1. ScriptsInv => RerunsReportOneCall
  <2> SUFFICES ASSUME ScriptsInv, given.givenId PROVE Cardinality(reported) <= 1
    BY DEF RerunsReportOneCall
  <2> DEFINE row == <<RequestKey, ledger[RequestKey].charged>>
  <2>1. \A x \in reported : x = row
    BY DEF ScriptsInv, ReportedOK
  <2> HIDE DEF row
  <2>2. CASE reported = {}
    BY <2>2, FS_EmptySet
  <2>3. CASE reported # {}
    <3>1. reported = {row}
      BY <2>1, <2>3
    <3>2. Cardinality({row}) = 1
      BY FS_Singleton
    <3> QED
      BY <3>1, <3>2
  <2> QED
    BY <2>2, <2>3
<1> QED
  BY <1>1, ScriptsInvariant, PTL
=============================================================================

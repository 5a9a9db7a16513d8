--------------------------- MODULE SynapseClient ---------------------------
(***************************************************************************)
(* The consumer runtime of the Python SDK (python/synapse_client/          *)
(* client.py): a price-asserted invocation, the receipt polling that       *)
(* follows it, and invoke_with_rediscovery.  Several callers (threads)     *)
(* share one client object, which keeps no mutable state of its own; the   *)
(* state below is the local state of each call plus the gateway's ledger   *)
(* of invocations, which is external and modelled by what the client       *)
(* relies on: a POST whose idempotency key is known is answered with the   *)
(* invocation that key already names, a POST that asserts another price    *)
(* than the live one is refused, and an invocation is charged at most the  *)
(* price it was accepted at.                                               *)
(*                                                                         *)
(* Amounts are whole micro-USDC, the resolution of round(x, 6); times are  *)
(* seconds.                                                                *)
(***************************************************************************)
EXTENDS Integers, Sequences, FiniteSets

CONSTANTS
    Callers,        \* threads that call the shared client
    EntryPoints,    \* methods they use: invoke, invoke_llm, ..._with_rediscovery
    CallerKeys,     \* idempotency keys that callers choose, and may repeat
    NoKey,          \* idempotency_key=None
    Intent,         \* the one call, kind and price, that each chosen key is for
    Prices,         \* prices the provider may publish, and so the charges
    RetryLimits,    \* values callers give max_rediscovery_retries
    MaxWait,        \* poll_timeout_sec, max_wait_sec
    PollInterval,   \* poll_interval_sec
    MaxLatency,     \* the longest that one receipt request takes
    MaxInvokes      \* bound: invoke() runs of one caller

Kinds == {"fixed", "llm", "rediscovery"}
AutoKeys == Callers \X (0..MaxInvokes)    \* uuid4: a key of its own per run
Keys == CallerKeys \cup AutoKeys

ASSUME ClientAssumption ==
    /\ EntryPoints \subseteq Kinds
    /\ Prices \subseteq Nat
    /\ RetryLimits \subseteq Int
    /\ MaxWait \in Int /\ PollInterval \in Int
    /\ MaxLatency \in Nat /\ MaxInvokes \in Nat
    /\ NoKey \notin CallerKeys
    /\ CallerKeys \cap AutoKeys = {}
    /\ Intent \in [CallerKeys -> [kind : Kinds, cost : Prices]]

TERMINAL_STATUSES == {"SUCCEEDED", "FAILED_RETRYABLE", "FAILED_FINAL", "SETTLED"}
Statuses == TERMINAL_STATUSES \cup {"PENDING"}

\* Mutant: any answer will do.
IsFinalIfAny(status) == status \in Statuses

IsFinal(status) == status \in TERMINAL_STATUSES

\* max(1, poll_interval_sec)
Step == IF PollInterval < 1 THEN 1 ELSE PollInterval

VARIABLES
    pc,         \* where each caller's current call stands
    call,       \* arguments of the call and the keys it has POSTed
    invokes,    \* invoke() runs each caller has begun: the source of AutoKeys
    elapsed,    \* time since wait_for_invocation started
    fallback,   \* current_price_usdc of the PriceMismatchError being handled
    charged,    \* charged_usdc of the result that the call returned
    error,      \* exception that the call raised
    ledger,     \* external: the gateway's invocation of each key
    late,       \* external: requests given up on that may yet be handled
    livePrice   \* external: the provider's current price

gatewayVars == <<ledger, late, livePrice>>
vars == <<pc, call, invokes, elapsed, fallback, charged, error, gatewayVars>>

NoCall == [kind |-> "none", chosen |-> NoKey, keys |-> <<>>, cost |-> 0, retries |-> 0]
Nothing == [status |-> "none", charged |-> 0, kind |-> "none", cost |-> 0]

Call == [kind : Kinds, chosen : CallerKeys \cup {NoKey}, keys : Seq(Keys),
         cost : Prices \cup {0}, retries : RetryLimits \cup {0}]
Entry == [status : Statuses, charged : Prices \cup {0}, kind : Kinds, cost : Prices]
Request == [key : Keys, kind : Kinds, cost : Prices]

Busy == {"posting", "polling", "sleeping", "searching"}

-----------------------------------------------------------------------------
\* What a failed HTTP response raises: _raise_for_error and _payment_error.
Errors == {"AuthenticationError", "InsufficientFundsError", "BudgetExceededError",
           "PriceMismatchError", "InvokeError", "DiscoveryError", "TimeoutError",
           "ValueError", "TransportError", "TypeError"}

\* Mutant: other statuses keep the SDK's base class.
ErrorOfBase(response, default) ==
    CASE response.http = 401 -> "AuthenticationError"
      [] response.http = 402 -> "BudgetExceededError"
      [] response.http = 422 /\ response.code = "PRICE_MISMATCH" -> "PriceMismatchError"
      [] OTHER -> "SynapseClientError"

ErrorOf(response, default) ==
    CASE response.http = 401 -> "AuthenticationError"
      [] response.http = 402 ->
            IF response.code \in {"BUDGET_EXHAUSTED", "CREDENTIAL_CREDIT_LIMIT_EXCEEDED"}
            THEN "InsufficientFundsError" ELSE "BudgetExceededError"
      [] response.http = 422 /\ response.code = "PRICE_MISMATCH" -> "PriceMismatchError"
      [] OTHER -> default

\* Error responses that say the gateway did not take the request; "OTHER" is any
\* code that the client does not look at, or none.
Refusals == [http : {402}, code : {"BUDGET_EXHAUSTED", "CREDENTIAL_CREDIT_LIMIT_EXCEEDED", "OTHER"}]
            \cup [http : {422}, code : {"PRICE_MISMATCH", "OTHER"}]
            \cup [http : {401}, code : {"OTHER"}]
ServerError == [http |-> 500, code |-> "OTHER"]

-----------------------------------------------------------------------------
\* The gateway's ledger (external).
Charges(r, status) ==
    CASE status \notin {"SUCCEEDED", "SETTLED"} -> {0}
      [] status \in {"SUCCEEDED", "SETTLED"} /\ r.kind # "llm" -> {r.cost}
      [] OTHER -> {p \in Prices : p <= r.cost}

\* The request becomes an invocation, at once terminal or still pending.
Accept(r) ==
    /\ ledger[r.key] = Nothing
    /\ r.kind = "llm" \/ r.cost = livePrice
    /\ \E s \in Statuses : \E amount \in Charges(r, s) :
         ledger' = [ledger EXCEPT ![r.key] = [status |-> s, charged |-> amount,
                                              kind |-> r.kind, cost |-> r.cost]]

\* Answered by a new invocation, or by the one its key already names.
Answered(r) == Accept(r) \/ (ledger[r.key] # Nothing /\ UNCHANGED ledger)

\* The provider finishes a pending invocation; a success is settled later.
Resolve(k) ==
    /\ ledger[k].status = "PENDING"
    /\ \E s \in TERMINAL_STATUSES : \E amount \in Charges(ledger[k], s) :
         ledger' = [ledger EXCEPT ![k].status = s, ![k].charged = amount]
    /\ UNCHANGED <<pc, call, invokes, elapsed, fallback, charged, error, late, livePrice>>

Settle(k) ==
    /\ ledger[k].status = "SUCCEEDED"
    /\ ledger' = [ledger EXCEPT ![k].status = "SETTLED"]
    /\ UNCHANGED <<pc, call, invokes, elapsed, fallback, charged, error, late, livePrice>>

\* A request whose caller has stopped waiting is handled, or is lost.
LateArrival(r) ==
    /\ late' = late \ {r}
    /\ Accept(r) \/ UNCHANGED ledger
    /\ UNCHANGED <<pc, call, invokes, elapsed, fallback, charged, error, livePrice>>

ChangePrice(p) ==
    /\ p # livePrice
    /\ livePrice' = p
    /\ UNCHANGED <<pc, call, invokes, elapsed, fallback, charged, error, ledger, late>>

-----------------------------------------------------------------------------
\* How a call ends.
Return(c, amount) ==
    /\ pc' = [pc EXCEPT ![c] = "returned"]
    /\ charged' = [charged EXCEPT ![c] = amount]
    /\ UNCHANGED error

Raise(c, exception) ==
    /\ pc' = [pc EXCEPT ![c] = "raised"]
    /\ error' = [error EXCEPT ![c] = exception]
    /\ UNCHANGED charged

Goto(c, where) ==
    /\ pc' = [pc EXCEPT ![c] = where]
    /\ UNCHANGED <<charged, error>>

\* Mutant: the generated key is drawn once per client.
InvocationKeyOnce(c, chosen) == IF chosen = NoKey THEN <<c, 0>> ELSE chosen

\* The idempotency key of the invoke() run that the caller begins next.
InvocationKey(c, chosen) == IF chosen = NoKey THEN <<c, invokes[c]>> ELSE chosen

LastKey(c) == call[c].keys[Len(call[c].keys)]
RequestOf(c) == [key |-> LastKey(c), kind |-> call[c].kind, cost |-> call[c].cost]

\* invoke, invoke_llm or invoke_with_rediscovery gets to its first POST.
StartCall(c, k, chosen, price, limit) ==
    /\ pc[c] = "idle"
    /\ invokes[c] + 2 <= MaxInvokes
    /\ chosen # NoKey => Intent[chosen] = [kind |-> k, cost |-> price]
    /\ call' = [call EXCEPT ![c] = [kind |-> k, chosen |-> chosen, cost |-> price,
                                    keys |-> <<InvocationKey(c, chosen)>>,
                                    retries |-> limit]]
    /\ invokes' = [invokes EXCEPT ![c] = @ + 1]
    /\ Goto(c, "posting")
    /\ UNCHANGED <<elapsed, fallback, gatewayVars>>

\* Arguments that are refused before any request: a blank service_id, no
\* cost_usdc, stream=True for an LLM.
RejectArguments(c, exception) ==
    /\ pc[c] = "idle"
    /\ Raise(c, exception)
    /\ UNCHANGED <<call, invokes, elapsed, fallback, gatewayVars>>

-----------------------------------------------------------------------------
\* The POST of invoke().  The gateway's decision and the arrival of its
\* answer are one step: nothing that happens in between can be told from
\* its happening before or after.

PostAnswered(c) ==
    /\ pc[c] = "posting"
    /\ Answered(RequestOf(c))
    /\ LET invocation == ledger'[LastKey(c)]
       IN \/ /\ IsFinal(invocation.status)
             /\ Return(c, invocation.charged)
             /\ UNCHANGED elapsed
          \/ /\ ~IsFinal(invocation.status)
             /\ Goto(c, "polling")
             /\ elapsed' = [elapsed EXCEPT ![c] = 0]
    /\ UNCHANGED <<call, invokes, fallback, late, livePrice>>

\* A 2xx body that is not a JSON object reads as a pending invocation with a
\* blank id, which get_invocation_receipt refuses.
PostUnreadable(c) ==
    /\ pc[c] = "posting"
    /\ Answered(RequestOf(c))
    /\ Raise(c, "ValueError")
    /\ UNCHANGED <<call, invokes, elapsed, fallback, late, livePrice>>

\* The conditions under which the gateway gives the refusal (external).
MayRefuse(r, response) ==
    /\ response.http # 401 => ledger[r.key] = Nothing
    /\ response.code = "PRICE_MISMATCH" => r.kind # "llm" /\ r.cost # livePrice

\* Only the first POST of invoke_with_rediscovery is inside its try block.
Rediscovers(c, exception) ==
    /\ exception = "PriceMismatchError"
    /\ call[c].kind = "rediscovery" /\ Len(call[c].keys) = 1
    /\ call[c].retries > 0

PostRefused(c) ==
    /\ pc[c] = "posting"
    /\ \E response \in Refusals :
         /\ MayRefuse(RequestOf(c), response)
         /\ LET exception == ErrorOf(response, "InvokeError")
            IN \/ /\ Rediscovers(c, exception)
                  /\ \E p \in {livePrice, 0} : fallback' = [fallback EXCEPT ![c] = p]
                  /\ Goto(c, "searching")
               \/ /\ ~Rediscovers(c, exception)
                  /\ Raise(c, exception)
                  /\ UNCHANGED fallback
    /\ UNCHANGED <<call, invokes, elapsed, gatewayVars>>

\* Mutant: rediscovery also retries when the first POST was not answered.
PostLostRetries(c) ==
    /\ pc[c] = "posting"
    /\ Answered(RequestOf(c)) \/ UNCHANGED ledger
    /\ IF call[c].kind = "rediscovery" /\ Len(call[c].keys) = 1
       THEN Goto(c, "searching") ELSE Raise(c, "TransportError")
    /\ UNCHANGED <<call, invokes, elapsed, fallback, late, livePrice>>

\* A timeout, a broken connection or a 5xx: the request was handled, never
\* will be, or is still on its way.
PostLost(c) ==
    /\ pc[c] = "posting"
    /\ \/ Answered(RequestOf(c)) /\ UNCHANGED late
       \/ UNCHANGED <<ledger, late>>
       \/ late' = late \cup {RequestOf(c)} /\ UNCHANGED ledger
    /\ \E exception \in {"TransportError", ErrorOf(ServerError, "InvokeError")} :
         Raise(c, exception)
    /\ UNCHANGED <<call, invokes, elapsed, fallback, livePrice>>

-----------------------------------------------------------------------------
\* wait_for_invocation: one receipt request and the decision that follows.
\* A receipt whose body is not a JSON object reads as PENDING.
\* Mutants: no look ahead before a sleep; a clock that starts anew each round.
GivesUpLate(t) == t > MaxWait
AfterSleepAnew(t) == 0

GivesUp(t) == t + Step > MaxWait
AfterSleep(t) == t + Step

Poll(c) ==
    /\ pc[c] = "polling"
    /\ \E latency \in 0..MaxLatency, status \in {ledger[LastKey(c)].status, "PENDING"} :
         /\ elapsed' = [elapsed EXCEPT ![c] = @ + latency]
         /\ \/ /\ IsFinal(status)
               /\ Return(c, ledger[LastKey(c)].charged)
            \/ /\ ~IsFinal(status) /\ GivesUp(elapsed[c] + latency)
               /\ Raise(c, "TimeoutError")
            \/ /\ ~IsFinal(status) /\ ~GivesUp(elapsed[c] + latency)
               /\ Goto(c, "sleeping")
    /\ UNCHANGED <<call, invokes, fallback, gatewayVars>>

PollFailed(c) ==
    /\ pc[c] = "polling"
    /\ \E latency \in 0..MaxLatency : elapsed' = [elapsed EXCEPT ![c] = @ + latency]
    /\ \/ Raise(c, "TransportError")
       \/ \E status \in {401, 500} :
            Raise(c, ErrorOf([http |-> status, code |-> "OTHER"], "InvokeError"))
    /\ UNCHANGED <<call, invokes, fallback, gatewayVars>>

Sleep(c) ==
    /\ pc[c] = "sleeping"
    /\ elapsed' = [elapsed EXCEPT ![c] = AfterSleep(@)]
    /\ Goto(c, "polling")
    /\ UNCHANGED <<call, invokes, fallback, gatewayVars>>

-----------------------------------------------------------------------------
\* _rediscovered_price and the second invoke().  The service is found with its
\* price, found without a readable amount (None, so the fallback, or "0"), or
\* not found.
Reinvoke(c, price) ==
    /\ call' = [call EXCEPT ![c].keys = Append(@, InvocationKey(c, call[c].chosen)),
                            ![c].cost = price]
    /\ invokes' = [invokes EXCEPT ![c] = @ + 1]
    /\ Goto(c, "posting")

Search(c) ==
    /\ pc[c] = "searching"
    /\ \E price \in {livePrice, fallback[c], 0} :
         \/ price > 0 /\ Reinvoke(c, price)
         \/ price <= 0 /\ Raise(c, "PriceMismatchError") /\ UNCHANGED <<call, invokes>>
    /\ UNCHANGED <<elapsed, fallback, gatewayVars>>

\* search() maps errors with DiscoveryError as the default, and what it raises
\* replaces the PriceMismatchError.
SearchFailed(c) ==
    /\ pc[c] = "searching"
    /\ \/ Raise(c, "TransportError")
       \/ \E status \in {401, 402, 500} :
            Raise(c, ErrorOf([http |-> status, code |-> "OTHER"], "DiscoveryError"))
    /\ UNCHANGED <<call, invokes, elapsed, fallback, gatewayVars>>

\* The caller takes the result or the exception, and may call again.
Forget(c) ==
    /\ call' = [call EXCEPT ![c] = NoCall]
    /\ elapsed' = [elapsed EXCEPT ![c] = 0]
    /\ fallback' = [fallback EXCEPT ![c] = 0]
    /\ charged' = [charged EXCEPT ![c] = 0]
    /\ error' = [error EXCEPT ![c] = "none"]
    /\ pc' = [pc EXCEPT ![c] = "idle"]
    /\ UNCHANGED <<invokes, gatewayVars>>

Consume(c) == pc[c] \in {"returned", "raised"} /\ Forget(c)

-----------------------------------------------------------------------------
Init ==
    /\ pc = [c \in Callers |-> "idle"]
    /\ call = [c \in Callers |-> NoCall]
    /\ invokes = [c \in Callers |-> 0]
    /\ elapsed = [c \in Callers |-> 0]
    /\ fallback = [c \in Callers |-> 0]
    /\ charged = [c \in Callers |-> 0]
    /\ error = [c \in Callers |-> "none"]
    /\ ledger = [k \in Keys |-> Nothing]
    /\ late = {}
    /\ livePrice \in Prices

\* A call under way moves on by itself: every request has timeout_sec.
CallStep(c) ==
    \/ PostAnswered(c) \/ PostUnreadable(c) \/ PostRefused(c) \/ PostLost(c)
    \/ Poll(c) \/ PollFailed(c) \/ Sleep(c)
    \/ Search(c) \/ SearchFailed(c)

GatewayStep ==
    \/ \E k \in Keys : Resolve(k) \/ Settle(k)
    \/ \E r \in late : LateArrival(r)
    \/ \E p \in Prices : ChangePrice(p)

Begin(c) ==
    \/ \E k \in EntryPoints, chosen \in CallerKeys \cup {NoKey}, price \in Prices :
         \E limit \in (IF k = "rediscovery" THEN RetryLimits ELSE {0}) :
           StartCall(c, k, chosen, price, limit)
    \/ \E exception \in {"ValueError", "InvokeError"} : RejectArguments(c, exception)

Next ==
    \/ \E c \in Callers : Begin(c) \/ CallStep(c) \/ Consume(c)
    \/ GatewayStep

Spec == Init /\ [][Next]_vars
FairSpec == Spec /\ \A c \in Callers : WF_vars(CallStep(c))

-----------------------------------------------------------------------------
\* Shape of the state.
DataOK ==
    /\ call \in [Callers -> Call \cup {NoCall}]
    /\ invokes \in [Callers -> 0..MaxInvokes]
    /\ elapsed \in [Callers -> Nat]
    /\ fallback \in [Callers -> Prices \cup {0}]
    /\ charged \in [Callers -> Prices \cup {0}]
    /\ error \in [Callers -> Errors \cup {"none"}]
    /\ ledger \in [Keys -> Entry \cup {Nothing}]
    /\ late \subseteq Request
    /\ livePrice \in Prices

TypeOK == pc \in [Callers -> Busy \cup {"idle", "returned", "raised"}] /\ DataOK

\* wait_for_invocation looks ahead one interval before it sleeps, so whatever
\* the receipts say and however slow they are, it never spends more than
\* max_wait_sec and one request (one request alone when max_wait_sec <= 0).
WaitBounded ==
    \A c \in Callers :
        elapsed[c] <= (IF MaxWait < 0 THEN 0 ELSE MaxWait) + MaxLatency

\* A call that returns, at once or after polling, gives the final word of the
\* gateway on its own invocation: the invocation can no longer change its
\* charge, and that charge is the one in the result.
ResultIsFinal ==
    \A c \in Callers : pc[c] = "returned" =>
        /\ ledger[LastKey(c)].status \in TERMINAL_STATUSES
        /\ ledger[LastKey(c)].charged = charged[c]

\* Threads that repeat one idempotent call at the same time, whichever of them
\* is first, refused, repriced or kept waiting, are told the same charge.
RepeatsAgree ==
    \A c, d \in Callers :
        /\ pc[c] = "returned" /\ pc[d] = "returned"
        /\ LastKey(c) = LastKey(d)
        => charged[c] = charged[d]

\* The second POST of invoke_with_rediscovery carries a key of its own when
\* the caller gave none, and yet one call never has two invocations: the first
\* POST was refused, not merely unanswered.
OneInvocationPerCall ==
    \A c \in Callers : \A i, j \in 1..Len(call[c].keys) :
        /\ ledger[call[c].keys[i]] # Nothing
        /\ ledger[call[c].keys[j]] # Nothing
        => call[c].keys[i] = call[c].keys[j]

\* The price assertion protects the caller: a result is never charged above
\* the cost_usdc last asserted, the max_cost_usdc of an LLM call, or, when the
\* key repeats an earlier rediscovery, the price that one asserted.
ChargeWithinAssertedPrice ==
    \A c \in Callers : pc[c] = "returned" =>
        \/ charged[c] <= call[c].cost
        \/ call[c].kind = "rediscovery" /\ call[c].chosen # NoKey

\* The errors that mean "not taken": whoever gets one of them from a call with
\* a key of its own will not find a charge for that call, then or later, and
\* may call again.  (A TimeoutError, AuthenticationError, InvokeError,
\* ValueError or transport error says nothing of the kind.)
NotTaken == {"InsufficientFundsError", "BudgetExceededError", "PriceMismatchError",
             "DiscoveryError"}

RefusalMeansUncharged ==
    \A c \in Callers :
        pc[c] = "raised" /\ error[c] \in NotTaken /\ call[c].chosen = NoKey =>
            \A i \in 1..Len(call[c].keys) :
                /\ ledger[call[c].keys[i]] = Nothing
                /\ \A r \in late : r.key # call[c].keys[i]

\* What "retrying once by default" makes of max_rediscovery_retries: a price
\* mismatch met on a retry comes out only when as many retries as the caller
\* allowed have been made.
RetriesAreUsed ==
    \A c \in Callers :
        /\ pc[c] = "raised" /\ error[c] = "PriceMismatchError"
        /\ Len(call[c].keys) > 1
        => Len(call[c].keys) > call[c].retries

\* Even if the gateway never settles anything, each call comes to an end: the
\* polling loop is cut by its deadline and rediscovery tries only once.
CallsEnd ==
    \A c \in Callers : pc[c] \in Busy ~> pc[c] \in {"returned", "raised"}
=============================================================================

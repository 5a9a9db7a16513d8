------------------------ MODULE SynapseClientProofs ------------------------
(***************************************************************************)
(* Proofs about SynapseClient, for every value of its constants, in three  *)
(* parts: the types and the bound on waiting, what a call is charged and   *)
(* told, and that the runtime implements PaidCalls.                        *)
(***************************************************************************)
EXTENDS ClientRefinement, SequenceTheorems, TLAPS

\* What the types alone do not say: a call under way has a key and a price,
\* and one that may still POST again has an invoke() run left to do it.
CallOK ==
    \A c \in Callers :
        /\ pc[c] \in Busy \cup {"returned", "adding"} =>
               call[c] \in Call /\ call[c].keys # <<>> /\ call[c].cost \in Prices
        /\ pc[c] = "searching" => Len(call[c].keys) = 1
        /\ pc[c] \in {"posting", "searching"} /\ Len(call[c].keys) = 1 =>
               invokes[c] < MaxInvokes

\* Where a call can stand, in a wallet too.
Places == Busy \cup {"idle", "returned", "adding", "raised"}

\* The invariant behind TypeOK, kept by the steps of a wallet as well.
CallInv == pc \in [Callers -> Places] /\ DataOK /\ CallOK

LEMMA KeyTyped ==
    ASSUME CallInv, NEW c \in Callers, pc[c] \in Busy \cup {"returned", "adding"}
    PROVE  LastKey(c) \in Keys /\ RequestOf(c) \in Request
<1>1. call[c] \in Call /\ call[c].keys # <<>> /\ call[c].cost \in Prices
  BY DEF CallInv, CallOK
<1>2. call[c].keys \in Seq(Keys) /\ call[c].kind \in Kinds
  BY <1>1 DEF Call
<1>3. Len(call[c].keys) \in 1..Len(call[c].keys)
  BY <1>1, <1>2
<1>4. LastKey(c) \in Keys
  BY <1>2, <1>3 DEF LastKey
<1> QED
  BY <1>1, <1>2, <1>4 DEF RequestOf, Request

LEMMA ChargesTyped ==
    ASSUME NEW r, r.cost \in Prices, NEW s, NEW amount \in Charges(r, s)
    PROVE  amount \in Prices \cup {0}
BY DEF Charges

LEMMA AcceptTyped ==
    ASSUME ledger \in [Keys -> Entry \cup {Nothing}], NEW r \in Request, Accept(r)
    PROVE  ledger' \in [Keys -> Entry \cup {Nothing}]
<1>1. PICK s \in Statuses : \E amount \in Charges(r, s) :
        ledger' = [ledger EXCEPT ![r.key] = [status |-> s, charged |-> amount,
                                             kind |-> r.kind, cost |-> r.cost]]
  BY DEF Accept
<1>2. PICK amount \in Charges(r, s) :
        ledger' = [ledger EXCEPT ![r.key] = [status |-> s, charged |-> amount,
                                             kind |-> r.kind, cost |-> r.cost]]
  BY <1>1
<1>3. r.key \in Keys /\ r.kind \in Kinds /\ r.cost \in Prices
  BY DEF Request
<1>4. amount \in Prices \cup {0}
  BY <1>2, <1>3, ChargesTyped
<1>5. [status |-> s, charged |-> amount, kind |-> r.kind, cost |-> r.cost] \in Entry
  BY <1>3, <1>4 DEF Entry
<1> QED
  BY <1>2, <1>5

LEMMA AnsweredTyped ==
    ASSUME ledger \in [Keys -> Entry \cup {Nothing}], NEW r \in Request, Answered(r)
    PROVE  ledger' \in [Keys -> Entry \cup {Nothing}]
BY AcceptTyped DEF Answered

LEMMA InitCallInv == ASSUME Init PROVE CallInv
<1>1. 0 \in 0..MaxInvokes
  BY ClientAssumption
<1>2. call \in [Callers -> Call \cup {NoCall}] /\ invokes \in [Callers -> 0..MaxInvokes]
  BY <1>1 DEF Init
<1>3. pc \in [Callers -> Places] /\ \A c \in Callers : pc[c] = "idle"
  BY DEF Init, Places
<1>4. ledger \in [Keys -> Entry \cup {Nothing}]
  BY DEF Init
<1>5. DataOK
  BY <1>2, <1>4 DEF Init, DataOK
<1>6. CallOK
  BY <1>3 DEF CallOK, Busy
<1> QED
  BY <1>3, <1>5, <1>6 DEF CallInv

-----------------------------------------------------------------------------
\* A step that moves one call on, without a new invoke(), keeps CallInv if it
\* keeps the types of what it changes and makes no call active.
LEMMA MoveOn ==
    ASSUME CallInv, NEW c \in Callers, NEW where \in Places,
           pc' = [pc EXCEPT ![c] = where],
           where \in Busy \cup {"returned", "adding"} => pc[c] \in Busy \cup {"returned", "adding"},
           where # "posting",
           where = "searching" => Len(call[c].keys) = 1 /\ pc[c] = "posting",
           UNCHANGED <<call, invokes>>,
           elapsed' \in [Callers -> Nat], fallback' \in [Callers -> Prices \cup {0}],
           charged' \in [Callers -> Prices \cup {0}],
           error' \in [Callers -> Errors \cup {"none"}],
           ledger' \in [Keys -> Entry \cup {Nothing}],
           late' \subseteq Request, livePrice' \in Prices
    PROVE  CallInv'
<1>1. pc' \in [Callers -> Places]
  BY DEF CallInv
<1>2. DataOK'
  BY DEF CallInv, DataOK
<1>3. ASSUME NEW d \in Callers
      PROVE  /\ pc'[d] \in Busy \cup {"returned", "adding"} =>
                    call[d] \in Call /\ call[d].keys # <<>> /\ call[d].cost \in Prices
             /\ pc'[d] = "searching" => Len(call[d].keys) = 1
             /\ pc'[d] \in {"posting", "searching"} /\ Len(call[d].keys) = 1 =>
                    invokes[d] < MaxInvokes
  BY DEF CallInv, CallOK, Places, Busy
<1> QED
  BY <1>1, <1>2, <1>3 DEF CallInv, CallOK

-----------------------------------------------------------------------------
\* The steps of a call.
LEMMA PostAnsweredInv ==
    ASSUME CallInv, NEW c \in Callers, PostAnswered(c)
    PROVE  CallInv'
<1>1. LastKey(c) \in Keys /\ RequestOf(c) \in Request
  BY KeyTyped DEF PostAnswered, Busy
<1>2. ledger' \in [Keys -> Entry \cup {Nothing}]
  BY <1>1, AnsweredTyped DEF PostAnswered, CallInv, DataOK
<1>3. /\ pc[c] = "posting" /\ UNCHANGED <<call, invokes, fallback, late, livePrice>>
      /\ \/ IsFinal(ledger'[LastKey(c)].status) /\ Return(c, ledger'[LastKey(c)].charged)
                                                  /\ UNCHANGED elapsed
         \/ Goto(c, "polling") /\ elapsed' = [elapsed EXCEPT ![c] = 0]
  BY DEF PostAnswered
<1>4. CASE IsFinal(ledger'[LastKey(c)].status) /\ Return(c, ledger'[LastKey(c)].charged)
                                              /\ UNCHANGED elapsed
  <2>1. ledger'[LastKey(c)] \in Entry
    BY <1>1, <1>2, <1>4 DEF IsFinal, TERMINAL_STATUSES, Nothing
  <2>2. ledger'[LastKey(c)].charged \in Prices \cup {0}
    BY <2>1 DEF Entry
  <2>3. charged' \in [Callers -> Prices \cup {0}]
    BY <1>4, <2>2 DEF Return, CallInv, DataOK
  <2> QED
    BY <1>2, <1>3, <1>4, <2>3, MoveOn DEF Return, CallInv, DataOK, Places, Busy
<1>5. CASE Goto(c, "polling") /\ elapsed' = [elapsed EXCEPT ![c] = 0]
  BY <1>2, <1>3, <1>5, MoveOn DEF Goto, CallInv, DataOK, Places, Busy
<1> QED
  BY <1>3, <1>4, <1>5

LEMMA ErrorTyped ==
    ASSUME NEW response, NEW default \in Errors
    PROVE  ErrorOf(response, default) \in Errors
BY DEF ErrorOf, Errors

LEMMA RaiseInv ==
    ASSUME CallInv, NEW c \in Callers, NEW exception \in Errors, Raise(c, exception),
           UNCHANGED <<call, invokes>>,
           elapsed' \in [Callers -> Nat], fallback' \in [Callers -> Prices \cup {0}],
           ledger' \in [Keys -> Entry \cup {Nothing}],
           late' \subseteq Request, livePrice' \in Prices
    PROVE  CallInv'
<1>1. /\ pc' = [pc EXCEPT ![c] = "raised"] /\ UNCHANGED charged
      /\ error' = [error EXCEPT ![c] = exception]
  BY DEF Raise
<1>2. error' \in [Callers -> Errors \cup {"none"}] /\ charged' \in [Callers -> Prices \cup {0}]
  BY <1>1 DEF CallInv, DataOK
<1> QED
  BY <1>1, <1>2, MoveOn DEF Places, Busy

LEMMA PostUnreadableInv ==
    ASSUME CallInv, NEW c \in Callers, PostUnreadable(c)
    PROVE  CallInv'
<1>1. RequestOf(c) \in Request
  BY KeyTyped DEF PostUnreadable, Busy
<1>2. ledger' \in [Keys -> Entry \cup {Nothing}]
  BY <1>1, AnsweredTyped DEF PostUnreadable, CallInv, DataOK
<1>3. Raise(c, "ValueError") /\ UNCHANGED <<call, invokes, elapsed, fallback, late, livePrice>>
  BY DEF PostUnreadable
<1>4. "ValueError" \in Errors
  BY DEF Errors
<1> QED
  BY <1>2, <1>3, <1>4, RaiseInv DEF CallInv, DataOK

LEMMA PostRefusedInv ==
    ASSUME CallInv, NEW c \in Callers, PostRefused(c)
    PROVE  CallInv'
<1>1. PICK response \in Refusals :
        \/ /\ Rediscovers(c, ErrorOf(response, "InvokeError"))
           /\ \E p \in {livePrice, 0} : fallback' = [fallback EXCEPT ![c] = p]
           /\ Goto(c, "searching")
        \/ /\ Raise(c, ErrorOf(response, "InvokeError"))
           /\ UNCHANGED fallback
  BY DEF PostRefused
<1>2. pc[c] = "posting" /\ UNCHANGED <<call, invokes, elapsed, ledger, late, livePrice>>
  BY DEF PostRefused, gatewayVars
<1>3. CASE Raise(c, ErrorOf(response, "InvokeError")) /\ UNCHANGED fallback
  <2>1. ErrorOf(response, "InvokeError") \in Errors
    BY ErrorTyped DEF Errors
  <2> QED
    BY <1>2, <1>3, <2>1, RaiseInv DEF CallInv, DataOK
<1>4. CASE /\ Rediscovers(c, ErrorOf(response, "InvokeError"))
           /\ \E p \in {livePrice, 0} : fallback' = [fallback EXCEPT ![c] = p]
           /\ Goto(c, "searching")
  <2>1. fallback' \in [Callers -> Prices \cup {0}]
    BY <1>4 DEF CallInv, DataOK
  <2>2. Len(call[c].keys) = 1
    BY <1>4 DEF Rediscovers
  <2> QED
    BY <1>2, <1>4, <2>1, <2>2, MoveOn DEF Goto, CallInv, DataOK, Places, Busy
<1> QED
  BY <1>1, <1>3, <1>4

LEMMA PostLostInv ==
    ASSUME CallInv, NEW c \in Callers, PostLost(c)
    PROVE  CallInv'
<1>1. RequestOf(c) \in Request
  BY KeyTyped DEF PostLost, Busy
<1>2. ledger' \in [Keys -> Entry \cup {Nothing}] /\ late' \subseteq Request
  BY <1>1, AnsweredTyped DEF PostLost, CallInv, DataOK
<1>3. PICK exception \in {"TransportError", ErrorOf(ServerError, "InvokeError")} :
        Raise(c, exception)
  BY DEF PostLost
<1>4. exception \in Errors
  BY <1>3, ErrorTyped DEF Errors
<1>5. UNCHANGED <<call, invokes, elapsed, fallback, livePrice>>
  BY DEF PostLost
<1> QED
  BY <1>2, <1>3, <1>4, <1>5, RaiseInv DEF CallInv, DataOK

LEMMA PollInv ==
    ASSUME CallInv, NEW c \in Callers, Poll(c)
    PROVE  CallInv'
<1>1. /\ pc[c] = "polling"
      /\ UNCHANGED <<call, invokes, fallback, ledger, late, livePrice>>
  BY DEF Poll, gatewayVars
<1>2. PICK latency \in 0..MaxLatency, status \in {ledger[LastKey(c)].status, "PENDING"} :
        /\ elapsed' = [elapsed EXCEPT ![c] = @ + latency]
        /\ \/ IsFinal(status) /\ Return(c, ledger[LastKey(c)].charged)
           \/ Raise(c, "TimeoutError")
           \/ Goto(c, "sleeping")
  BY DEF Poll
<1>3. elapsed' \in [Callers -> Nat]
  BY <1>2, ClientAssumption DEF CallInv, DataOK
<1>4. CASE IsFinal(status) /\ Return(c, ledger[LastKey(c)].charged)
  <2>1. LastKey(c) \in Keys
    BY <1>1, KeyTyped DEF Busy
  <2>2. ledger[LastKey(c)] \in Entry
    BY <1>2, <1>4, <2>1 DEF IsFinal, TERMINAL_STATUSES, Nothing, CallInv, DataOK
  <2>3. charged' \in [Callers -> Prices \cup {0}]
    BY <1>4, <2>2 DEF Return, Entry, CallInv, DataOK
  <2> QED
    BY <1>1, <1>3, <1>4, <2>3, MoveOn DEF Return, CallInv, DataOK, Places, Busy
<1>5. CASE Raise(c, "TimeoutError")
  BY <1>1, <1>3, <1>5, RaiseInv DEF CallInv, DataOK, Errors
<1>6. CASE Goto(c, "sleeping")
  BY <1>1, <1>3, <1>6, MoveOn DEF Goto, CallInv, DataOK, Places, Busy
<1> QED
  BY <1>2, <1>4, <1>5, <1>6

LEMMA PollFailedInv ==
    ASSUME CallInv, NEW c \in Callers, PollFailed(c)
    PROVE  CallInv'
<1>1. UNCHANGED <<call, invokes, fallback, ledger, late, livePrice>>
  BY DEF PollFailed, gatewayVars
<1>2. PICK latency \in 0..MaxLatency : elapsed' = [elapsed EXCEPT ![c] = @ + latency]
  BY DEF PollFailed
<1>3. elapsed' \in [Callers -> Nat]
  BY <1>2, ClientAssumption DEF CallInv, DataOK
<1>4. CASE Raise(c, "TransportError")
  BY <1>1, <1>3, <1>4, RaiseInv DEF CallInv, DataOK, Errors
<1>5. ASSUME NEW status \in {401, 500},
             Raise(c, ErrorOf([http |-> status, code |-> "OTHER"], "InvokeError"))
      PROVE  CallInv'
  <2>1. ErrorOf([http |-> status, code |-> "OTHER"], "InvokeError") \in Errors
    BY ErrorTyped DEF Errors
  <2> QED
    BY <1>1, <1>3, <1>5, <2>1, RaiseInv DEF CallInv, DataOK
<1> QED
  BY <1>4, <1>5 DEF PollFailed

LEMMA StepTyped == Step \in Nat /\ Step >= 1
BY ClientAssumption DEF Step

LEMMA SleepInv ==
    ASSUME CallInv, NEW c \in Callers, Sleep(c)
    PROVE  CallInv'
<1>1. /\ pc[c] = "sleeping" /\ Goto(c, "polling")
      /\ UNCHANGED <<call, invokes, fallback, ledger, late, livePrice>>
  BY DEF Sleep, gatewayVars
<1>2. elapsed' \in [Callers -> Nat]
  BY StepTyped DEF Sleep, AfterSleep, CallInv, DataOK
<1> QED
  BY <1>1, <1>2, MoveOn DEF Goto, CallInv, DataOK, Places, Busy

LEMMA SearchInv ==
    ASSUME CallInv, NEW c \in Callers, Search(c)
    PROVE  CallInv'
<1>1. PICK price \in {livePrice, fallback[c], 0} :
        \/ price > 0 /\ Reinvoke(c, price)
        \/ Raise(c, "PriceMismatchError") /\ UNCHANGED <<call, invokes>>
  BY DEF Search
<1>2. pc[c] = "searching" /\ UNCHANGED <<elapsed, fallback, ledger, late, livePrice>>
  BY DEF Search, gatewayVars
<1>3. CASE Raise(c, "PriceMismatchError") /\ UNCHANGED <<call, invokes>>
  BY <1>2, <1>3, RaiseInv DEF CallInv, DataOK, Errors
<1>4. CASE price > 0 /\ Reinvoke(c, price)
  <2> DEFINE k == InvocationKey(c, call[c].chosen)
             new == [call[c] EXCEPT !.keys = Append(@, k), !.cost = price]
  <2>1. /\ call[c] \in Call /\ Len(call[c].keys) = 1
        /\ invokes[c] \in 0..MaxInvokes /\ invokes[c] < MaxInvokes
    BY <1>2 DEF CallInv, CallOK, DataOK, Busy
  <2>2. price \in Prices
    BY <1>4, <1>2 DEF CallInv, DataOK
  <2>3. k \in Keys
    BY <2>1 DEF InvocationKey, Keys, AutoKeys, Call
  <2>4. call[c].keys \in Seq(Keys)
    BY <2>1 DEF Call
  <2> HIDE DEF k
  <2>5. /\ Append(call[c].keys, k) \in Seq(Keys) /\ Append(call[c].keys, k) # <<>>
        /\ Len(Append(call[c].keys, k)) = 2
    <3>1. /\ Append(call[c].keys, k) \in Seq(Keys) /\ Append(call[c].keys, k) # <<>>
          /\ Len(Append(call[c].keys, k)) = Len(call[c].keys) + 1
      BY <2>3, <2>4, AppendProperties
    <3> QED
      BY <2>1, <3>1
  <2>6. new \in Call /\ new.keys = Append(call[c].keys, k) /\ new.cost = price
    BY <2>1, <2>2, <2>5 DEF Call
  <2>7. /\ call' = [call EXCEPT ![c] = new] /\ invokes' = [invokes EXCEPT ![c] = @ + 1]
        /\ pc' = [pc EXCEPT ![c] = "posting"] /\ UNCHANGED <<charged, error>>
    BY <1>4 DEF Reinvoke, Goto, k
  <2> HIDE DEF new
  <2>8. DataOK'
    BY <1>2, <2>1, <2>6, <2>7, ClientAssumption DEF CallInv, DataOK
  <2>9. CallOK'
    BY <1>2, <2>2, <2>5, <2>6, <2>7 DEF CallInv, CallOK, DataOK, Busy, Places
  <2>10. pc' \in [Callers -> Places]
    BY <2>7 DEF CallInv, Places, Busy
  <2> QED
    BY <2>8, <2>9, <2>10 DEF CallInv
<1> QED
  BY <1>1, <1>3, <1>4

LEMMA SearchFailedInv ==
    ASSUME CallInv, NEW c \in Callers, SearchFailed(c)
    PROVE  CallInv'
<1>1. UNCHANGED <<call, invokes, elapsed, fallback, ledger, late, livePrice>>
  BY DEF SearchFailed, gatewayVars
<1>2. CASE Raise(c, "TransportError")
  BY <1>1, <1>2, RaiseInv DEF CallInv, DataOK, Errors
<1>3. ASSUME NEW status \in {401, 402, 500},
             Raise(c, ErrorOf([http |-> status, code |-> "OTHER"], "DiscoveryError"))
      PROVE  CallInv'
  <2>1. ErrorOf([http |-> status, code |-> "OTHER"], "DiscoveryError") \in Errors
    BY ErrorTyped DEF Errors
  <2> QED
    BY <1>1, <1>3, <2>1, RaiseInv DEF CallInv, DataOK
<1> QED
  BY <1>2, <1>3 DEF SearchFailed

LEMMA CallStepInv ==
    ASSUME CallInv, NEW c \in Callers, CallStep(c)
    PROVE  CallInv'
BY PostAnsweredInv, PostUnreadableInv, PostRefusedInv, PostLostInv, PollInv,
   PollFailedInv, SleepInv, SearchInv, SearchFailedInv DEF CallStep

-----------------------------------------------------------------------------
\* The steps of a caller, and of the gateway.
LEMMA StartCallInv ==
    ASSUME CallInv, NEW c \in Callers, NEW k \in Kinds, NEW chosen \in CallerKeys \cup {NoKey},
           NEW price \in Prices, NEW limit \in RetryLimits \cup {0},
           StartCall(c, k, chosen, price, limit)
    PROVE  CallInv'
<1> DEFINE first == InvocationKey(c, chosen)
           new == [kind |-> k, chosen |-> chosen, cost |-> price, keys |-> <<first>>,
                   retries |-> limit]
<1>1. /\ call' = [call EXCEPT ![c] = new] /\ invokes' = [invokes EXCEPT ![c] = @ + 1]
      /\ pc' = [pc EXCEPT ![c] = "posting"]
      /\ UNCHANGED <<charged, error, elapsed, fallback, ledger, late, livePrice>>
      /\ invokes[c] + 2 <= MaxInvokes
  BY DEF StartCall, Goto, gatewayVars
<1>2. invokes[c] \in Nat
  BY ClientAssumption DEF CallInv, DataOK
<1>3. first \in Keys
  BY <1>1, <1>2, ClientAssumption DEF InvocationKey, Keys, AutoKeys
<1> HIDE DEF first
<1>4. <<first>> \in Seq(Keys) /\ <<first>> # <<>> /\ Len(<<first>>) = 1
  BY <1>3
<1>5. new \in Call /\ new.keys # <<>> /\ new.cost \in Prices /\ Len(new.keys) = 1
  BY <1>4 DEF Call
<1> HIDE DEF new
<1>6. DataOK'
  BY <1>1, <1>2, <1>5, ClientAssumption DEF CallInv, DataOK
<1>7. CallOK'
  BY <1>1, <1>2, <1>5, ClientAssumption DEF CallInv, CallOK, DataOK, Busy, Places
<1>8. pc' \in [Callers -> Places]
  BY <1>1 DEF CallInv, Places, Busy
<1> QED
  BY <1>6, <1>7, <1>8 DEF CallInv

LEMMA RejectArgumentsInv ==
    ASSUME CallInv, NEW c \in Callers, NEW exception \in Errors, RejectArguments(c, exception)
    PROVE  CallInv'
BY RaiseInv DEF RejectArguments, gatewayVars, CallInv, DataOK

LEMMA ForgetInv ==
    ASSUME CallInv, NEW c \in Callers, Forget(c)
    PROVE  CallInv'
<1>1. /\ call' = [call EXCEPT ![c] = NoCall] /\ pc' = [pc EXCEPT ![c] = "idle"]
      /\ UNCHANGED <<invokes, ledger, late, livePrice>>
  BY DEF Forget, gatewayVars
<1>2. DataOK'
  BY <1>1 DEF Forget, CallInv, DataOK
<1>3. CallOK'
  BY <1>1 DEF CallInv, CallOK, DataOK, Busy, Places
<1>4. pc' \in [Callers -> Places]
  BY <1>1 DEF CallInv, Places
<1> QED
  BY <1>2, <1>3, <1>4 DEF CallInv

\* The gateway and the provider leave every call where it stands.
LEMMA GatewayInv ==
    ASSUME CallInv, UNCHANGED <<pc, call, invokes, elapsed, fallback, charged, error>>,
           ledger' \in [Keys -> Entry \cup {Nothing}],
           late' \subseteq Request, livePrice' \in Prices
    PROVE  CallInv'
BY DEF CallInv, DataOK, CallOK

LEMMA GatewayStepInv ==
    ASSUME CallInv, GatewayStep
    PROVE  CallInv'
<1>1. /\ ledger \in [Keys -> Entry \cup {Nothing}]
      /\ late \subseteq Request /\ livePrice \in Prices
  BY DEF CallInv, DataOK
<1>2. ASSUME NEW k \in Keys, Resolve(k) PROVE CallInv'
  <2>1. ledger[k] \in Entry
    BY <1>1, <1>2 DEF Resolve, Nothing
  <2>2. PICK s \in TERMINAL_STATUSES : \E amount \in Charges(ledger[k], s) :
          ledger' = [ledger EXCEPT ![k].status = s, ![k].charged = amount]
    BY <1>2 DEF Resolve
  <2> PICK amount \in Charges(ledger[k], s) :
          ledger' = [ledger EXCEPT ![k].status = s, ![k].charged = amount]
    BY <2>2
  <2>3. amount \in Prices \cup {0}
    BY <2>1, ChargesTyped DEF Entry
  <2>4. ledger' \in [Keys -> Entry \cup {Nothing}]
    BY <1>1, <2>1, <2>2, <2>3 DEF Entry, Statuses
  <2> QED
    BY <1>1, <1>2, <2>4, GatewayInv DEF Resolve
<1>3. ASSUME NEW k \in Keys, Settle(k) PROVE CallInv'
  <2>1. ledger[k] \in Entry
    BY <1>1, <1>3 DEF Settle, Nothing
  <2>2. ledger' \in [Keys -> Entry \cup {Nothing}]
    BY <1>1, <1>3, <2>1 DEF Settle, Entry, Statuses, TERMINAL_STATUSES
  <2> QED
    BY <1>1, <1>3, <2>2, GatewayInv DEF Settle
<1>4. ASSUME NEW r \in late, LateArrival(r) PROVE CallInv'
  <2>1. r \in Request
    BY <1>1
  <2>2. ledger' \in [Keys -> Entry \cup {Nothing}] /\ late' \subseteq Request
    BY <1>1, <1>4, <2>1, AcceptTyped DEF LateArrival
  <2> QED
    BY <1>1, <1>4, <2>2, GatewayInv DEF LateArrival
<1>5. ASSUME NEW p \in Prices, ChangePrice(p) PROVE CallInv'
  BY <1>1, <1>5, GatewayInv DEF ChangePrice
<1> QED
  BY <1>2, <1>3, <1>4, <1>5 DEF GatewayStep

LEMMA NextInv ==
    ASSUME CallInv, [Next]_vars
    PROVE  CallInv'
<1>1. ASSUME NEW c \in Callers, Begin(c) PROVE CallInv'
  <2>1. ASSUME NEW k \in EntryPoints, NEW chosen \in CallerKeys \cup {NoKey},
               NEW price \in Prices,
               NEW limit \in (IF k = "rediscovery" THEN RetryLimits ELSE {0}),
               StartCall(c, k, chosen, price, limit)
        PROVE  CallInv'
    <3>1. k \in Kinds /\ limit \in RetryLimits \cup {0}
      BY ClientAssumption
    <3> QED
      BY <2>1, <3>1, StartCallInv
  <2>2. ASSUME NEW exception \in {"ValueError", "InvokeError"}, RejectArguments(c, exception)
        PROVE  CallInv'
    BY <2>2, RejectArgumentsInv DEF Errors
  <2> QED
    BY <1>1, <2>1, <2>2 DEF Begin
<1>2. ASSUME NEW c \in Callers, CallStep(c) PROVE CallInv'
  BY <1>2, CallStepInv
<1>3. ASSUME NEW c \in Callers, Consume(c) PROVE CallInv'
  BY <1>3, ForgetInv DEF Consume
<1>4. CASE GatewayStep
  BY <1>4, GatewayStepInv
<1>5. CASE UNCHANGED vars
  BY <1>5 DEF vars, gatewayVars, CallInv, DataOK, CallOK
<1> QED
  BY <1>1, <1>2, <1>3, <1>4, <1>5 DEF Next

\* Where one step can take a call: nobody but AgentWallet uses "adding".
ClientPlaces == Busy \cup {"idle", "returned", "raised"}

LEMMA PlacesInv ==
    ASSUME pc \in [Callers -> ClientPlaces], [Next]_vars
    PROVE  pc' \in [Callers -> ClientPlaces]
<1>1. ASSUME NEW c \in Callers, Begin(c)
      PROVE  \E p \in ClientPlaces : pc' = [pc EXCEPT ![c] = p]
  BY <1>1 DEF Begin, StartCall, RejectArguments, Goto, Raise, ClientPlaces, Busy
<1>2. ASSUME NEW c \in Callers, CallStep(c)
      PROVE  \E p \in ClientPlaces : pc' = [pc EXCEPT ![c] = p]
  <2>1. CASE PostAnswered(c) \/ PostUnreadable(c)
    BY <2>1 DEF PostAnswered, PostUnreadable, Return, Goto, Raise, ClientPlaces, Busy
  <2>2. CASE PostRefused(c) \/ PostLost(c)
    BY <2>2 DEF PostRefused, PostLost, Goto, Raise, ClientPlaces, Busy
  <2>3. CASE Poll(c) \/ PollFailed(c) \/ Sleep(c)
    BY <2>3 DEF Poll, PollFailed, Sleep, Return, Goto, Raise, ClientPlaces, Busy
  <2>4. CASE Search(c) \/ SearchFailed(c)
    BY <2>4 DEF Search, SearchFailed, Reinvoke, Goto, Raise, ClientPlaces, Busy
  <2> QED
    BY <1>2, <2>1, <2>2, <2>3, <2>4 DEF CallStep
<1>3. ASSUME NEW c \in Callers, Consume(c)
      PROVE  \E p \in ClientPlaces : pc' = [pc EXCEPT ![c] = p]
  BY <1>3 DEF Consume, Forget, ClientPlaces
<1>4. GatewayStep => pc' = pc
  BY DEF GatewayStep, Resolve, Settle, LateArrival, ChangePrice
<1>5. UNCHANGED vars => pc' = pc
  BY DEF vars
<1> QED
  BY <1>1, <1>2, <1>3, <1>4, <1>5 DEF Next

\* Type correctness: every call of the client keeps to its states and every
\* charge, key and price it handles is one that exists.
THEOREM TypeCorrect == Spec => []TypeOK
<1> DEFINE Inv == CallInv /\ TypeOK
<1>1. Init => Inv
  BY InitCallInv DEF CallInv, TypeOK, Init, Busy
<1>2. Inv /\ [Next]_vars => Inv'
  BY NextInv, PlacesInv DEF CallInv, TypeOK, ClientPlaces
<1>3. Inv => TypeOK
  OBVIOUS
<1> QED
  BY <1>1, <1>2, <1>3, PTL DEF Spec

-----------------------------------------------------------------------------
\* Why polling is bounded: a sleep is begun only if it ends before the
\* deadline, so a request begins by the deadline, or as the first one.
Patience == IF MaxWait < 0 THEN 0 ELSE MaxWait

WaitInv ==
    \A c \in Callers :
        /\ elapsed[c] <= Patience + MaxLatency
        /\ pc[c] = "polling" => elapsed[c] <= Patience
        /\ pc[c] = "sleeping" => elapsed[c] + Step <= MaxWait

\* A step that leaves the clocks alone, or stops one, and starts no waiting.
LEMMA WaitFrame ==
    ASSUME CallInv, WaitInv, NEW c \in Callers, NEW where,
           where \notin {"polling", "sleeping"}, pc' = [pc EXCEPT ![c] = where],
           UNCHANGED elapsed \/ elapsed' = [elapsed EXCEPT ![c] = 0]
    PROVE  WaitInv'
BY ClientAssumption DEF CallInv, DataOK, WaitInv, Patience

LEMMA WaitStep ==
    ASSUME CallInv, WaitInv, NEW c \in Callers, CallStep(c)
    PROVE  WaitInv'
<1>1. CASE PostAnswered(c)
  <2>1. \/ pc' = [pc EXCEPT ![c] = "returned"] /\ UNCHANGED elapsed
        \/ pc' = [pc EXCEPT ![c] = "polling"] /\ elapsed' = [elapsed EXCEPT ![c] = 0]
    BY <1>1 DEF PostAnswered, Return, Goto
  <2>2. CASE pc' = [pc EXCEPT ![c] = "polling"] /\ elapsed' = [elapsed EXCEPT ![c] = 0]
    BY <2>2, ClientAssumption DEF CallInv, DataOK, WaitInv, Patience
  <2> QED
    BY <2>1, <2>2, WaitFrame
<1>2. CASE PostUnreadable(c) \/ PostRefused(c) \/ PostLost(c)
  <2>1. /\ \E p \in {"searching", "raised"} : pc' = [pc EXCEPT ![c] = p]
        /\ UNCHANGED elapsed
    BY <1>2 DEF PostUnreadable, PostRefused, PostLost, Goto, Raise
  <2> QED
    BY <2>1, WaitFrame
<1>3. CASE Poll(c)
  <2>1. PICK latency \in 0..MaxLatency :
          /\ elapsed' = [elapsed EXCEPT ![c] = @ + latency]
          /\ \/ pc' = [pc EXCEPT ![c] = "returned"]
             \/ pc' = [pc EXCEPT ![c] = "raised"]
             \/ pc' = [pc EXCEPT ![c] = "sleeping"] /\ ~GivesUp(elapsed[c] + latency)
    BY <1>3 DEF Poll, Return, Raise, Goto
  <2>2. elapsed[c] \in Nat /\ elapsed[c] <= Patience
    BY <1>3 DEF Poll, WaitInv, CallInv, DataOK
  <2>3. elapsed[c] + latency <= Patience + MaxLatency
    BY <2>2, ClientAssumption DEF Patience
  <2>4. ~GivesUp(elapsed[c] + latency) => elapsed[c] + latency + Step <= MaxWait
    BY <2>2, StepTyped, ClientAssumption DEF GivesUp
  <2> QED
    BY <2>1, <2>2, <2>3, <2>4, ClientAssumption DEF WaitInv, CallInv, DataOK
<1>4. CASE PollFailed(c)
  <2>1. PICK latency \in 0..MaxLatency :
          /\ elapsed' = [elapsed EXCEPT ![c] = @ + latency]
          /\ pc[c] = "polling" /\ pc' = [pc EXCEPT ![c] = "raised"]
    <3>1. pc[c] = "polling" /\ pc' = [pc EXCEPT ![c] = "raised"]
      BY <1>4 DEF PollFailed, Raise
    <3>2. \E latency \in 0..MaxLatency : elapsed' = [elapsed EXCEPT ![c] = @ + latency]
      BY <1>4 DEF PollFailed
    <3> QED
      BY <3>1, <3>2
  <2>2. elapsed[c] \in Nat /\ elapsed[c] <= Patience
    BY <2>1 DEF WaitInv, CallInv, DataOK
  <2>3. elapsed[c] + latency <= Patience + MaxLatency
    BY <2>2, ClientAssumption DEF Patience
  <2> QED
    BY <2>1, <2>2, <2>3, ClientAssumption DEF WaitInv, CallInv, DataOK
<1>5. CASE Sleep(c)
  <2>1. /\ pc[c] = "sleeping" /\ pc' = [pc EXCEPT ![c] = "polling"]
        /\ elapsed' = [elapsed EXCEPT ![c] = elapsed[c] + Step]
    BY <1>5 DEF Sleep, AfterSleep, Goto, CallInv, DataOK
  <2>2. elapsed[c] \in Nat /\ elapsed[c] + Step <= MaxWait
    BY <2>1 DEF WaitInv, CallInv, DataOK
  <2>3. elapsed[c] + Step <= Patience /\ Patience <= Patience + MaxLatency
    BY <2>2, StepTyped, ClientAssumption DEF Patience
  <2>4. elapsed[c] + Step <= Patience + MaxLatency
    BY <2>2, <2>3, StepTyped, ClientAssumption DEF Patience
  <2> QED
    BY <2>1, <2>2, <2>3, <2>4 DEF WaitInv, CallInv, DataOK
<1>6. CASE Search(c) \/ SearchFailed(c)
  <2>1. /\ \E p \in {"posting", "raised"} : pc' = [pc EXCEPT ![c] = p]
        /\ UNCHANGED elapsed
    BY <1>6 DEF Search, SearchFailed, Reinvoke, Goto, Raise
  <2> QED
    BY <2>1, WaitFrame
<1> QED
  BY <1>1, <1>2, <1>3, <1>4, <1>5, <1>6 DEF CallStep

LEMMA WaitNext ==
    ASSUME CallInv, WaitInv, [Next]_vars
    PROVE  WaitInv'
<1>1. ASSUME NEW c \in Callers, Begin(c) PROVE WaitInv'
  <2>1. /\ \E p \in {"posting", "raised"} : pc' = [pc EXCEPT ![c] = p]
        /\ UNCHANGED elapsed
    BY <1>1 DEF Begin, StartCall, RejectArguments, Goto, Raise
  <2> QED
    BY <2>1, WaitFrame
<1>2. ASSUME NEW c \in Callers, Consume(c) PROVE WaitInv'
  BY <1>2, WaitFrame DEF Consume, Forget
<1>3. CASE GatewayStep \/ UNCHANGED vars
  BY <1>3 DEF GatewayStep, Resolve, Settle, LateArrival, ChangePrice, vars, WaitInv
<1> QED
  BY <1>1, <1>2, <1>3, WaitStep DEF Next

\* However the receipts read and however long they take within MaxLatency,
\* waiting is bounded by max_wait_sec and one request.
THEOREM WaitIsBounded == Spec => []WaitBounded
<1>1. Init => CallInv /\ WaitInv
  BY InitCallInv, ClientAssumption DEF Init, WaitInv, Patience
<1>2. CallInv /\ WaitInv /\ [Next]_vars => (CallInv /\ WaitInv)'
  BY NextInv, WaitNext
<1>3. WaitInv => WaitBounded
  BY DEF WaitInv, WaitBounded, Patience
<1> QED
  BY <1>1, <1>2, <1>3, PTL DEF Spec

-----------------------------------------------------------------------------
\* The steps that a call has ahead of it at most: a round of polling and sleeping
\* takes one unit of the time left, a first POST may be followed by a search and
\* a second one.
Ahead(c) ==
    CASE pc[c] = "posting" -> 2 * Patience + (IF Len(call[c].keys) = 1 THEN 5 ELSE 3)
      [] pc[c] = "searching" -> 2 * Patience + 4
      [] pc[c] = "polling" -> 2 * (Patience - elapsed[c]) + 2
      [] pc[c] = "sleeping" -> 2 * (Patience - elapsed[c]) + 1
      [] OTHER -> 0

LEMMA AheadTyped ==
    ASSUME CallInv, WaitInv, NEW c \in Callers
    PROVE  Ahead(c) \in 0..(2 * Patience + 5) /\ (Ahead(c) = 0 <=> pc[c] \notin Busy)
<1>1. Patience \in Nat /\ MaxWait <= Patience /\ Step \in Nat \ {0}
  BY StepTyped, ClientAssumption DEF Patience
<1>2. elapsed[c] \in Nat
  BY DEF CallInv, DataOK
<1>3. pc[c] = "sleeping" => elapsed[c] <= Patience
  BY <1>1, <1>2, ClientAssumption DEF WaitInv
<1>4. pc[c] = "polling" => elapsed[c] <= Patience
  BY DEF WaitInv
<1> QED
  BY <1>1, <1>2, <1>3, <1>4 DEF Ahead, Busy

LEMMA AheadFalls ==
    ASSUME CallInv, WaitInv, CallInv', WaitInv', NEW c \in Callers, CallStep(c)
    PROVE  Ahead(c)' < Ahead(c)
<1>1. /\ Patience \in Nat /\ Patience' = Patience /\ Step \in Nat /\ Step > 0
      /\ elapsed[c] \in Nat /\ elapsed'[c] \in Nat
  BY StepTyped, ClientAssumption DEF Patience, CallInv, DataOK
<1>2. Ahead(c) \in Nat /\ (pc[c] \in Busy => Ahead(c) > 0)
  BY AheadTyped
<1>3. ASSUME pc[c] \in Busy, pc'[c] \in {"returned", "raised"} PROVE Ahead(c)' < Ahead(c)
  BY <1>2, <1>3 DEF Ahead
<1>4. CASE PostAnswered(c)
  <2>1. /\ pc[c] = "posting" /\ pc \in [Callers -> Places] /\ elapsed \in [Callers -> Nat]
        /\ \/ pc' = [pc EXCEPT ![c] = "returned"]
           \/ pc' = [pc EXCEPT ![c] = "polling"] /\ elapsed' = [elapsed EXCEPT ![c] = 0]
    BY <1>4 DEF PostAnswered, Return, Goto, CallInv, DataOK
  <2>2. CASE pc'[c] = "polling" /\ elapsed'[c] = 0
    BY <1>1, <2>1, <2>2 DEF Ahead
  <2> QED
    BY <1>3, <2>1, <2>2 DEF Busy
<1>5. CASE PostUnreadable(c) \/ PostLost(c) \/ PollFailed(c) \/ SearchFailed(c)
  <2>1. pc[c] \in Busy /\ pc' = [pc EXCEPT ![c] = "raised"] /\ pc \in [Callers -> Places]
    BY <1>5 DEF PostUnreadable, PostLost, PollFailed, SearchFailed, Raise, Busy, CallInv
  <2> QED
    BY <1>3, <2>1
<1>6. CASE PostRefused(c)
  <2>1. /\ pc[c] = "posting" /\ pc \in [Callers -> Places]
        /\ \/ pc' = [pc EXCEPT ![c] = "raised"]
           \/ pc' = [pc EXCEPT ![c] = "searching"] /\ Len(call[c].keys) = 1
    BY <1>6 DEF PostRefused, Raise, Goto, Rediscovers, CallInv
  <2>2. CASE pc'[c] = "searching" /\ Len(call[c].keys) = 1
    BY <1>1, <2>1, <2>2 DEF Ahead
  <2> QED
    BY <1>3, <2>1, <2>2 DEF Busy
<1>7. CASE Poll(c)
  <2>1. PICK latency \in 0..MaxLatency :
          /\ elapsed' = [elapsed EXCEPT ![c] = @ + latency]
          /\ \E p \in {"returned", "raised", "sleeping"} : pc' = [pc EXCEPT ![c] = p]
    BY <1>7 DEF Poll, Return, Raise, Goto
  <2>2. /\ pc[c] = "polling" /\ pc \in [Callers -> Places] /\ elapsed \in [Callers -> Nat]
        /\ latency \in Nat
    BY <1>7, ClientAssumption DEF Poll, CallInv, DataOK
  <2>3. elapsed'[c] = elapsed[c] + latency
    BY <2>1, <2>2
  <2>4. CASE pc'[c] = "sleeping"
    BY <1>1, <2>2, <2>3, <2>4 DEF Ahead
  <2> QED
    BY <1>3, <2>1, <2>2, <2>4 DEF Busy
<1>8. CASE Sleep(c)
  <2>1. /\ pc[c] = "sleeping" /\ pc' = [pc EXCEPT ![c] = "polling"]
        /\ elapsed'[c] = elapsed[c] + Step /\ pc \in [Callers -> Places]
    BY <1>8 DEF Sleep, AfterSleep, Goto, CallInv, DataOK
  <2> QED
    BY <1>1, <2>1 DEF Ahead
<1>9. CASE Search(c)
  <2>1. /\ pc[c] = "searching" /\ pc \in [Callers -> Places]
        /\ \/ pc' = [pc EXCEPT ![c] = "raised"]
           \/ pc' = [pc EXCEPT ![c] = "posting"] /\ Len(call'[c].keys) = 2
    <3>1. pc[c] = "searching" /\ pc \in [Callers -> Places]
      BY <1>9 DEF Search, CallInv
    <3>2. PICK price : \/ Reinvoke(c, price)
                       \/ pc' = [pc EXCEPT ![c] = "raised"]
      BY <1>9 DEF Search, Raise
    <3>3. /\ call[c].keys \in Seq(Keys) /\ Len(call[c].keys) = 1
          /\ call \in [Callers -> Call \cup {NoCall}] /\ call[c] \in Call
      BY <3>1 DEF CallInv, CallOK, DataOK, Call, Busy
    <3>4. ASSUME Reinvoke(c, price) PROVE Len(call'[c].keys) = 2
      <4>1. call'[c].keys = Append(call[c].keys, InvocationKey(c, call[c].chosen))
        BY <3>3, <3>4 DEF Reinvoke, Call
      <4> QED
        BY <3>3, <4>1
    <3> QED
      BY <3>1, <3>2, <3>4 DEF Reinvoke, Goto
  <2>2. CASE pc'[c] = "posting" /\ Len(call'[c].keys) = 2
    BY <1>1, <2>1, <2>2 DEF Ahead
  <2> QED
    BY <1>3, <2>1, <2>2 DEF Busy
<1> QED
  BY <1>4, <1>5, <1>6, <1>7, <1>8, <1>9 DEF CallStep

\* What others do, callers or gateway, leaves a call where it is.
LEMMA AheadStays ==
    ASSUME CallInv, NEW c \in Callers, pc[c] \in Busy, [Next]_vars, ~CallStep(c)
    PROVE  Ahead(c)' = Ahead(c)
<1>1. CASE GatewayStep \/ UNCHANGED vars
  BY <1>1 DEF GatewayStep, Resolve, Settle, LateArrival, ChangePrice, vars, Ahead, Patience
<1>2. ASSUME NEW d \in Callers, Begin(d) \/ CallStep(d) \/ Consume(d) PROVE Ahead(c)' = Ahead(c)
  <2>1. d # c
    BY <1>2 DEF Begin, StartCall, RejectArguments, Consume, Busy
  <2>2. pc'[c] = pc[c] /\ elapsed'[c] = elapsed[c] /\ call'[c] = call[c]
    <3>1. CASE Begin(d)
      <4>1. /\ \E p \in {"posting", "raised"} : pc' = [pc EXCEPT ![d] = p]
            /\ UNCHANGED elapsed
            /\ UNCHANGED call \/ \E r : call' = [call EXCEPT ![d] = r]
        BY <3>1 DEF Begin, StartCall, RejectArguments, Goto, Raise
      <4> QED
        BY <2>1, <4>1 DEF CallInv, DataOK
    <3>2. CASE PostAnswered(d) \/ PostUnreadable(d) \/ PostRefused(d) \/ PostLost(d)
      BY <2>1, <3>2 DEF PostAnswered, PostUnreadable, PostRefused, PostLost, Goto, Raise, Return,
           CallInv, DataOK
    <3>3. CASE Poll(d) \/ PollFailed(d) \/ Sleep(d)
      BY <2>1, <3>3 DEF Poll, PollFailed, Sleep, Goto, Raise, Return, CallInv, DataOK
    <3>4. CASE Search(d) \/ SearchFailed(d)
      BY <2>1, <3>4 DEF Search, SearchFailed, Reinvoke, Goto, Raise, CallInv, DataOK
    <3>5. CASE Consume(d)
      BY <2>1, <3>5 DEF Consume, Forget, CallInv, DataOK
    <3> QED
      BY <1>2, <3>1, <3>2, <3>3, <3>4, <3>5 DEF CallStep
  <2> QED
    BY <2>2 DEF Ahead, Patience
<1> QED
  BY <1>1, <1>2 DEF Next

\* Why every call ends, whatever the gateway answers and however many threads
\* share the client: it has finitely many steps ahead, 2 * max_wait_sec + 5 at
\* most, each of its own takes one off at least, and no step of others adds any.
THEOREM CallsRunOut ==
    Spec => /\ [](\A c \in Callers :
                    Ahead(c) \in 0..(2 * Patience + 5) /\ (Ahead(c) = 0 <=> pc[c] \notin Busy))
            /\ [][\A c \in Callers : pc[c] \in Busy =>
                    IF CallStep(c) THEN Ahead(c)' < Ahead(c) ELSE Ahead(c)' = Ahead(c)]_vars
<1> DEFINE Inv == CallInv /\ WaitInv
           Typed == \A c \in Callers :
                      Ahead(c) \in 0..(2 * Patience + 5) /\ (Ahead(c) = 0 <=> pc[c] \notin Busy)
           Falls == \A c \in Callers : pc[c] \in Busy =>
                      IF CallStep(c) THEN Ahead(c)' < Ahead(c) ELSE Ahead(c)' = Ahead(c)
<1>1. Init => Inv
  BY InitCallInv, ClientAssumption DEF Init, WaitInv, Patience
<1>2. Inv /\ [Next]_vars => Inv'
  BY NextInv, WaitNext
<1>3. Inv => Typed
  BY AheadTyped
<1>4. Inv /\ Inv' /\ [Next]_vars => Falls
  BY AheadFalls, AheadStays
<1> QED
  BY <1>1, <1>2, <1>3, <1>4, PTL DEF Spec

-----------------------------------------------------------------------------
(***************************************************************************)
(* What a call is charged and told.  The invariant has two halves: what    *)
(* the gateway holds for each key (LedgerOK) and how each call's keys      *)
(* relate to it (CallerOK).  A key is fresh while the gateway has no       *)
(* invocation for it and no late request may make one.                     *)
(***************************************************************************)
Fresh(k) == ledger[k] = Nothing /\ \A r \in late : r.key # k

\* A record with a kind and a price is one that the chosen key k stands for;
\* a rediscovery may have changed the price since.
Honours(k, r) ==
    /\ r.kind = Intent[k].kind
    /\ r.kind # "rediscovery" => r.cost = Intent[k].cost

LedgerOK ==
    /\ \A k \in Keys : ledger[k] # Nothing => ledger[k].charged <= ledger[k].cost
    /\ \A k \in CallerKeys : ledger[k] # Nothing => Honours(k, ledger[k])
    /\ \A r \in late : r.key \in CallerKeys => Honours(r.key, r)
    /\ \A c \in Callers, n \in 0..MaxInvokes : n >= invokes[c] => Fresh(<<c, n>>)

\* The keys of a call are the chosen one, or generated ones in order.
KeysOK(c) ==
    /\ Len(call[c].keys) <= 2
    /\ call[c].chosen = NoKey =>
         \A i \in 1..Len(call[c].keys) :
            /\ invokes[c] - Len(call[c].keys) + i - 1 \in 0..MaxInvokes
            /\ call[c].keys[i] = <<c, invokes[c] - Len(call[c].keys) + i - 1>>
    /\ call[c].chosen # NoKey =>
         /\ Honours(call[c].chosen, call[c])
         /\ \A i \in 1..Len(call[c].keys) : call[c].keys[i] = call[c].chosen

\* No invocation can have come of a POST that is yet to be answered, or was
\* refused.
UnansweredOK(c) ==
    call[c].chosen = NoKey =>
        \A i \in 1..Len(call[c].keys) :
            \/ i < Len(call[c].keys)
            \/ pc[c] \in {"posting", "searching"}
            \/ pc[c] = "raised" /\ error[c] \in NotTaken
            => Fresh(call[c].keys[i])

\* A call that was answered has its invocation, and a result is its last word;
\* one that searches is a rediscovery, and a caller at rest has no keys.
AnsweredOK(c) ==
    /\ pc[c] = "idle" => call[c].keys = <<>> /\ call[c].chosen = NoKey
    /\ pc[c] = "searching" => call[c].kind = "rediscovery"
    /\ pc[c] \in {"polling", "sleeping", "returned", "adding"} =>
         /\ ledger[LastKey(c)] # Nothing
         /\ call[c].chosen = NoKey =>
              ledger[LastKey(c)].kind = call[c].kind /\ ledger[LastKey(c)].cost = call[c].cost
    /\ pc[c] \in {"returned", "adding"} =>
         IsFinal(ledger[LastKey(c)].status) /\ ledger[LastKey(c)].charged = charged[c]

CallerOK(c) == KeysOK(c) /\ UnansweredOK(c) /\ AnsweredOK(c)

ChargeInv == LedgerOK /\ \A c \in Callers : CallerOK(c)

-----------------------------------------------------------------------------
\* What a step does to the gateway's side: invocations are never taken back
\* nor final ones changed, and no key loses its freshness but those of S.
GatewayMove(S) ==
    /\ \A k \in Keys : ledger[k] # Nothing =>
         /\ ledger'[k] # Nothing
         /\ ledger'[k].kind = ledger[k].kind /\ ledger'[k].cost = ledger[k].cost
         /\ IsFinal(ledger[k].status) =>
              IsFinal(ledger'[k].status) /\ ledger'[k].charged = ledger[k].charged
    /\ \A k \in Keys \ S : Fresh(k) => Fresh(k)'
    /\ \A k \in Keys : ledger'[k] # Nothing => ledger'[k].charged <= ledger'[k].cost
    /\ \A k \in CallerKeys : ledger'[k] # Nothing => Honours(k, ledger'[k])
    /\ \A r \in late' : r.key \in CallerKeys => Honours(r.key, r)

LEMMA IdleMove ==
    ASSUME LedgerOK, UNCHANGED ledger, late' \subseteq late
    PROVE  GatewayMove({})
BY DEF GatewayMove, LedgerOK, Fresh

\* Writing an invocation e for key k, where none was or where e continues it.
LEMMA WriteMove ==
    ASSUME CallInv, LedgerOK, NEW k \in Keys, NEW e \in Entry, NEW S,
           ledger' = [ledger EXCEPT ![k] = e], late' \subseteq late,
           e.charged <= e.cost, k \in CallerKeys => Honours(k, e),
           Fresh(k) => k \in S,
           ledger[k] # Nothing =>
             /\ e.kind = ledger[k].kind /\ e.cost = ledger[k].cost
             /\ IsFinal(ledger[k].status) => IsFinal(e.status) /\ e.charged = ledger[k].charged
    PROVE  GatewayMove(S)
<1>1. e # Nothing
  BY DEF Entry, Nothing, Statuses, TERMINAL_STATUSES
<1>2. ASSUME NEW j \in Keys PROVE ledger'[j] = IF j = k THEN e ELSE ledger[j]
  BY DEF CallInv, DataOK
<1>3. CallerKeys \subseteq Keys
  BY DEF Keys
<1> QED
  BY <1>1, <1>2, <1>3 DEF GatewayMove, LedgerOK, Fresh

LEMMA AcceptWrites ==
    ASSUME CallInv, NEW r \in Request, Accept(r)
    PROVE  /\ ledger[r.key] = Nothing
           /\ \E e \in Entry : /\ ledger' = [ledger EXCEPT ![r.key] = e]
                               /\ e.kind = r.kind /\ e.cost = r.cost
                               /\ e.charged <= e.cost
<1>1. PICK s \in Statuses : \E amount \in Charges(r, s) :
        ledger' = [ledger EXCEPT ![r.key] = [status |-> s, charged |-> amount,
                                             kind |-> r.kind, cost |-> r.cost]]
  BY DEF Accept
<1>2. PICK amount \in Charges(r, s) :
        ledger' = [ledger EXCEPT ![r.key] = [status |-> s, charged |-> amount,
                                             kind |-> r.kind, cost |-> r.cost]]
  BY <1>1
<1>3. r.kind \in Kinds /\ r.cost \in Prices /\ r.cost \in Nat
  BY ClientAssumption DEF Request
<1>4. amount \in Prices \cup {0} /\ amount <= r.cost
  BY <1>2, <1>3, ClientAssumption DEF Charges
<1> DEFINE e == [status |-> s, charged |-> amount, kind |-> r.kind, cost |-> r.cost]
<1>5. e \in Entry /\ e.kind = r.kind /\ e.cost = r.cost /\ e.charged <= e.cost
  BY <1>3, <1>4 DEF Entry
<1> QED
  BY <1>2, <1>5 DEF Accept

LEMMA AnsweredMove ==
    ASSUME CallInv, LedgerOK, NEW r \in Request, Answered(r), UNCHANGED late,
           r.key \in CallerKeys => Honours(r.key, r)
    PROVE  /\ GatewayMove({r.key})
           /\ ledger'[r.key] # Nothing
           /\ ledger[r.key] = Nothing =>
                ledger'[r.key].kind = r.kind /\ ledger'[r.key].cost = r.cost
<1>1. r.key \in Keys
  BY DEF Request
<1>2. CASE Accept(r)
  <2>1. PICK e \in Entry : /\ ledger' = [ledger EXCEPT ![r.key] = e]
                           /\ e.kind = r.kind /\ e.cost = r.cost /\ e.charged <= e.cost
    BY <1>2, AcceptWrites
  <2>2. ledger[r.key] = Nothing
    BY <1>2, AcceptWrites
  <2>3. r.key \in CallerKeys => Honours(r.key, e)
    BY <2>1 DEF Honours
  <2>4. GatewayMove({r.key})
    BY <1>1, <2>1, <2>2, <2>3, WriteMove
  <2>5. ledger'[r.key] = e /\ e # Nothing
    BY <1>1, <2>1 DEF CallInv, DataOK, Entry, Nothing, Statuses, TERMINAL_STATUSES
  <2> QED
    BY <2>1, <2>4, <2>5
<1>3. CASE ledger[r.key] # Nothing /\ UNCHANGED ledger
  BY <1>3, IdleMove DEF GatewayMove
<1> QED
  BY <1>2, <1>3 DEF Answered

LEMMA GatewayStepMove ==
    ASSUME CallInv, LedgerOK, GatewayStep
    PROVE  GatewayMove({})
<1>1. ASSUME NEW k \in Keys, Resolve(k) PROVE GatewayMove({})
  <2>1. ledger[k] \in Entry /\ ledger[k] # Nothing
    BY <1>1 DEF Resolve, Nothing, CallInv, DataOK
  <2>2. PICK s \in TERMINAL_STATUSES : \E amount \in Charges(ledger[k], s) :
          ledger' = [ledger EXCEPT ![k].status = s, ![k].charged = amount]
    BY <1>1 DEF Resolve
  <2> PICK amount \in Charges(ledger[k], s) :
          ledger' = [ledger EXCEPT ![k].status = s, ![k].charged = amount]
    BY <2>2
  <2>3. ledger[k].cost \in Prices /\ ledger[k].cost \in Nat
    BY <2>1, ClientAssumption DEF Entry
  <2>4. amount \in Prices \cup {0} /\ amount <= ledger[k].cost
    BY <2>3, ClientAssumption DEF Charges
  <2> DEFINE e == [ledger[k] EXCEPT !.status = s, !.charged = amount]
  <2>5. e \in Entry /\ e.charged <= e.cost /\ e.kind = ledger[k].kind /\ e.cost = ledger[k].cost
    BY <2>1, <2>4 DEF Entry, Statuses
  <2>6. ledger' = [ledger EXCEPT ![k] = e]
    BY <2>1 DEF CallInv, DataOK
  <2>7. ~IsFinal(ledger[k].status)
    BY <1>1 DEF Resolve, IsFinal, TERMINAL_STATUSES
  <2>8. k \in CallerKeys => Honours(k, e)
    BY <2>1, <2>5 DEF LedgerOK, Honours
  <2> HIDE DEF e
  <2> QED
    BY <1>1, <2>1, <2>5, <2>6, <2>7, <2>8, WriteMove DEF Resolve, Fresh
<1>2. ASSUME NEW k \in Keys, Settle(k) PROVE GatewayMove({})
  <2>1. ledger[k] \in Entry /\ ledger[k] # Nothing
    BY <1>2 DEF Settle, Nothing, CallInv, DataOK
  <2> DEFINE e == [ledger[k] EXCEPT !.status = "SETTLED"]
  <2>2. /\ e \in Entry /\ e.charged = ledger[k].charged
        /\ e.kind = ledger[k].kind /\ e.cost = ledger[k].cost /\ IsFinal(e.status)
    BY <2>1 DEF Entry, Statuses, TERMINAL_STATUSES, IsFinal
  <2>3. ledger' = [ledger EXCEPT ![k] = e]
    BY <1>2, <2>1 DEF Settle, CallInv, DataOK
  <2>4. e.charged <= e.cost /\ (k \in CallerKeys => Honours(k, e))
    BY <2>1, <2>2 DEF LedgerOK, Honours
  <2> HIDE DEF e
  <2> QED
    BY <1>2, <2>1, <2>2, <2>3, <2>4, WriteMove DEF Settle, Fresh
<1>3. ASSUME NEW r \in late, LateArrival(r) PROVE GatewayMove({})
  <2>1. r \in Request /\ r.key \in Keys
    BY DEF CallInv, DataOK, Request
  <2>2. late' \subseteq late /\ ~Fresh(r.key) /\ (r.key \in CallerKeys => Honours(r.key, r))
    BY <1>3 DEF LateArrival, Fresh, LedgerOK
  <2>3. CASE Accept(r)
    <3>1. PICK e \in Entry : /\ ledger' = [ledger EXCEPT ![r.key] = e]
                             /\ e.kind = r.kind /\ e.cost = r.cost /\ e.charged <= e.cost
      BY <2>1, <2>3, AcceptWrites
    <3>2. ledger[r.key] = Nothing
      BY <2>1, <2>3, AcceptWrites
    <3>3. r.key \in CallerKeys => Honours(r.key, e)
      BY <2>2, <3>1 DEF Honours
    <3> QED
      BY <2>1, <2>2, <3>1, <3>2, <3>3, WriteMove
  <2> QED
    BY <1>3, <2>2, <2>3, IdleMove DEF LateArrival
<1>4. ASSUME NEW p \in Prices, ChangePrice(p) PROVE GatewayMove({})
  BY <1>4, IdleMove DEF ChangePrice
<1> QED
  BY <1>1, <1>2, <1>3, <1>4 DEF GatewayStep

-----------------------------------------------------------------------------
\* A caller whose own state stays, while only keys of no concern to it are
\* taken up.
LEMMA BystanderOK ==
    ASSUME CallInv, NEW c \in Callers, CallerOK(c), NEW S, GatewayMove(S),
           pc'[c] = pc[c], call'[c] = call[c], invokes'[c] = invokes[c],
           charged'[c] = charged[c], error'[c] = error[c],
           \A n \in 0..MaxInvokes : <<c, n>> \notin S
    PROVE  CallerOK(c)'
<1>1. KeysOK(c)'
  BY DEF CallerOK, KeysOK, Honours
<1>2. UnansweredOK(c)'
  <2> SUFFICES ASSUME call[c].chosen = NoKey, NEW i \in 1..Len(call[c].keys),
                      \/ i < Len(call[c].keys)
                      \/ pc[c] \in {"posting", "searching"}
                      \/ pc[c] = "raised" /\ error[c] \in NotTaken
               PROVE  Fresh(call[c].keys[i])'
    BY DEF UnansweredOK
  <2>1. Fresh(call[c].keys[i])
    BY DEF CallerOK, UnansweredOK
  <2>2. \E n \in 0..MaxInvokes : call[c].keys[i] = <<c, n>>
    BY DEF CallerOK, KeysOK
  <2>3. call[c].keys[i] \in Keys \ S
    BY <2>2 DEF Keys, AutoKeys
  <2> QED
    BY <2>1, <2>3 DEF GatewayMove, Fresh
<1>3. AnsweredOK(c)'
  <2>1. CASE pc[c] \in {"polling", "sleeping", "returned", "adding"}
    <3>1. LastKey(c) \in Keys /\ LastKey(c)' = LastKey(c)
      BY <2>1, KeyTyped DEF Busy, LastKey
    <3> QED
      BY <2>1, <3>1 DEF CallerOK, AnsweredOK, GatewayMove
  <2>2. CASE pc[c] \notin {"polling", "sleeping", "returned", "adding"}
    BY <2>2 DEF CallerOK, AnsweredOK
  <2> QED
    BY <2>1, <2>2
<1> QED
  BY <1>1, <1>2, <1>3 DEF CallerOK

\* The gateway's side of the invariant, while no unborn key is taken up.
LEMMA LedgerMoves ==
    ASSUME CallInv, LedgerOK, NEW S, GatewayMove(S),
           \A c \in Callers : invokes'[c] >= invokes[c] /\ invokes'[c] \in Nat,
           \A c \in Callers, n \in 0..MaxInvokes : n >= invokes'[c] => <<c, n>> \notin S
    PROVE  LedgerOK'
<1>1. ASSUME NEW c \in Callers, NEW n \in 0..MaxInvokes, n >= invokes'[c]
      PROVE  Fresh(<<c, n>>)'
  <2>1. invokes[c] \in Nat /\ n >= invokes[c]
    BY <1>1, ClientAssumption DEF CallInv, DataOK
  <2>2. Fresh(<<c, n>>) /\ <<c, n>> \in Keys \ S
    BY <1>1, <2>1 DEF LedgerOK, Keys, AutoKeys
  <2> QED
    BY <2>2 DEF GatewayMove
<1>2. /\ \A k \in Keys : ledger'[k] # Nothing => ledger'[k].charged <= ledger'[k].cost
      /\ \A k \in CallerKeys : ledger'[k] # Nothing => Honours(k, ledger'[k])
      /\ \A r \in late' : r.key \in CallerKeys => Honours(r.key, r)
  BY DEF GatewayMove
<1> QED
  BY <1>1, <1>2 DEF LedgerOK, Honours, Fresh

\* What is known of the key that a call under way has POSTed last.
LEMMA LastKeyFacts ==
    ASSUME CallInv, NEW c \in Callers, CallerOK(c), pc[c] \in Busy \cup {"returned", "adding"}
    PROVE  /\ LastKey(c) \in Keys
           /\ call[c].chosen = NoKey =>
                /\ LastKey(c) = <<c, invokes[c] - 1>>
                /\ \A i \in 1..Len(call[c].keys) : i < Len(call[c].keys) =>
                      call[c].keys[i] \in Keys /\ call[c].keys[i] # LastKey(c)
           /\ call[c].chosen # NoKey => LastKey(c) = call[c].chosen
           /\ LastKey(c) \in CallerKeys => call[c].chosen # NoKey
           /\ \A d \in Callers, n \in 0..MaxInvokes :
                <<d, n>> = LastKey(c) => d = c /\ n < invokes[c]
<1>1. call[c] \in Call /\ call[c].keys \in Seq(Keys) /\ call[c].keys # <<>>
  BY DEF CallInv, CallOK, Call
<1>2. Len(call[c].keys) \in Nat /\ Len(call[c].keys) \in 1..Len(call[c].keys)
  BY <1>1
<1>3. invokes[c] \in Nat /\ call[c].chosen \in CallerKeys \cup {NoKey}
  BY <1>1, ClientAssumption DEF CallInv, DataOK, Call
<1>4. LastKey(c) \in Keys
  BY KeyTyped
<1>5. CASE call[c].chosen = NoKey
  <2>1. ASSUME NEW i \in 1..Len(call[c].keys)
        PROVE  call[c].keys[i] = <<c, invokes[c] - Len(call[c].keys) + i - 1>>
    BY <1>5 DEF CallerOK, KeysOK
  <2>2. LastKey(c) = <<c, invokes[c] - 1>>
    <3>1. LastKey(c) = <<c, invokes[c] - Len(call[c].keys) + Len(call[c].keys) - 1>>
      BY <2>1, <1>2 DEF LastKey
    <3> QED
      BY <3>1, <1>2, <1>3
  <2>3. ASSUME NEW i \in 1..Len(call[c].keys), i < Len(call[c].keys)
        PROVE  call[c].keys[i] \in Keys /\ call[c].keys[i] # LastKey(c)
    <3>1. call[c].keys[i] \in Keys
      BY <1>1
    <3>2. invokes[c] - Len(call[c].keys) + i - 1 # invokes[c] - 1
      BY <1>2, <1>3, <2>3
    <3> QED
      BY <2>1, <2>2, <3>1, <3>2
  <2>4. invokes[c] - 1 \in 0..MaxInvokes
    <3>1. Len(call[c].keys) <= invokes[c] /\ invokes[c] <= MaxInvokes
      BY <1>5 DEF CallInv, DataOK, CallerOK, KeysOK
    <3>2. MaxInvokes \in Nat /\ Len(call[c].keys) >= 1
      BY <1>2, ClientAssumption
    <3> QED
      BY <1>2, <1>3, <3>1, <3>2
  <2>5. LastKey(c) \in AutoKeys
    BY <2>2, <2>4 DEF AutoKeys
  <2>6. LastKey(c) \notin CallerKeys
    BY <2>5, ClientAssumption
  <2>7. ASSUME NEW d \in Callers, NEW n \in 0..MaxInvokes, <<d, n>> = LastKey(c)
        PROVE  d = c /\ n < invokes[c]
    <3>1. d = c /\ n = invokes[c] - 1
      BY <2>2, <2>7
    <3> QED
      BY <3>1, <1>3
  <2> QED
    BY <1>4, <1>5, <2>2, <2>3, <2>6, <2>7
<1>6. CASE call[c].chosen # NoKey
  <2>1. LastKey(c) = call[c].chosen /\ LastKey(c) \in CallerKeys
    BY <1>2, <1>3, <1>6 DEF CallerOK, KeysOK, LastKey
  <2>2. LastKey(c) \notin AutoKeys
    BY <2>1, ClientAssumption
  <2>3. ASSUME NEW d \in Callers, NEW n \in 0..MaxInvokes PROVE <<d, n>> # LastKey(c)
    BY <2>2 DEF AutoKeys
  <2> QED
    BY <1>4, <1>6, <2>1, <2>3
<1> QED
  BY <1>5, <1>6

\* A step of c that keeps its keys, and may hand the last of them over.
LEMMA CallMoves ==
    ASSUME CallInv, CallInv', ChargeInv, NEW c \in Callers, pc[c] \in Busy,
           GatewayMove({LastKey(c)}), UNCHANGED <<call, invokes>>,
           \A d \in Callers \ {c} : pc'[d] = pc[d] /\ charged'[d] = charged[d]
                                                  /\ error'[d] = error[d],
           \/ pc'[c] \in {"posting", "searching"}
           \/ pc'[c] = "raised" /\ error'[c] \in NotTaken
           => (call[c].chosen = NoKey => Fresh(LastKey(c))'),
           AnsweredOK(c)'
    PROVE  ChargeInv'
<1>1. CallerOK(c) /\ LedgerOK
  BY DEF ChargeInv
<1>2. \A d \in Callers, n \in 0..MaxInvokes : <<d, n>> = LastKey(c) => d = c /\ n < invokes[c]
  BY <1>1, LastKeyFacts
<1>3. \A d \in Callers : invokes[d] \in Nat
  BY ClientAssumption DEF CallInv, DataOK
<1>4. LedgerOK'
  <2>1. ASSUME NEW d \in Callers, NEW n \in 0..MaxInvokes, n >= invokes'[d]
        PROVE  <<d, n>> \notin {LastKey(c)}
    BY <1>2, <1>3, <2>1
  <2> QED
    BY <1>1, <1>3, <2>1, LedgerMoves
<1>5. ASSUME NEW d \in Callers \ {c} PROVE CallerOK(d)'
  <2>1. \A n \in 0..MaxInvokes : <<d, n>> \notin {LastKey(c)}
    BY <1>2
  <2> QED
    BY <2>1, BystanderOK DEF ChargeInv
<1>6. KeysOK(c)'
  BY <1>1 DEF CallerOK, KeysOK, Honours
<1>7. UnansweredOK(c)'
  <2> SUFFICES ASSUME call[c].chosen = NoKey, NEW i \in 1..Len(call[c].keys),
                      \/ i < Len(call[c].keys)
                      \/ pc'[c] \in {"posting", "searching"}
                      \/ pc'[c] = "raised" /\ error'[c] \in NotTaken
               PROVE  Fresh(call[c].keys[i])'
    BY DEF UnansweredOK
  <2>1. CASE i < Len(call[c].keys)
    <3>1. Fresh(call[c].keys[i])
      BY <1>1, <2>1 DEF CallerOK, UnansweredOK
    <3>2. call[c].keys[i] \in Keys \ {LastKey(c)}
      BY <1>1, <2>1, LastKeyFacts
    <3> QED
      BY <3>1, <3>2 DEF GatewayMove
  <2>2. CASE i = Len(call[c].keys)
    BY <2>2 DEF LastKey
  <2> QED
    <3>1. Len(call[c].keys) \in Nat
      BY DEF CallInv, CallOK, Call
    <3> QED
      BY <2>1, <2>2, <3>1
<1> QED
  BY <1>4, <1>5, <1>6, <1>7 DEF ChargeInv, CallerOK

-----------------------------------------------------------------------------
\* The steps of a call.
LEMMA RequestHonours ==
    ASSUME CallInv, NEW c \in Callers, CallerOK(c), pc[c] \in Busy
    PROVE  /\ RequestOf(c) \in Request /\ RequestOf(c).key = LastKey(c)
           /\ RequestOf(c).kind = call[c].kind /\ RequestOf(c).cost = call[c].cost
           /\ LastKey(c) \in CallerKeys => Honours(LastKey(c), RequestOf(c))
<1>1. RequestOf(c) \in Request
  BY KeyTyped
<1>2. LastKey(c) \in CallerKeys => LastKey(c) = call[c].chosen /\ call[c].chosen # NoKey
  BY LastKeyFacts
<1>3. LastKey(c) \in CallerKeys => Honours(LastKey(c), call[c])
  BY <1>2 DEF CallerOK, KeysOK
<1> QED
  BY <1>1, <1>3 DEF RequestOf, Honours

LEMMA PostingFresh ==
    ASSUME CallInv, NEW c \in Callers, CallerOK(c), pc[c] \in {"posting", "searching"},
           call[c].chosen = NoKey
    PROVE  Fresh(LastKey(c))
<1>1. Len(call[c].keys) \in 1..Len(call[c].keys)
  <2>1. call[c].keys \in Seq(Keys) /\ call[c].keys # <<>>
    BY DEF CallInv, CallOK, Call, Busy
  <2> QED
    BY <2>1
<1> QED
  BY <1>1 DEF CallerOK, UnansweredOK, LastKey

LEMMA PostAnsweredCharge ==
    ASSUME CallInv, CallInv', ChargeInv, NEW c \in Callers, PostAnswered(c)
    PROVE  ChargeInv'
<1>1. /\ pc[c] = "posting" /\ UNCHANGED <<call, invokes, late>>
      /\ Answered(RequestOf(c)) /\ UNCHANGED error
      /\ \/ /\ IsFinal(ledger'[LastKey(c)].status)
            /\ pc' = [pc EXCEPT ![c] = "returned"]
            /\ charged' = [charged EXCEPT ![c] = ledger'[LastKey(c)].charged]
         \/ pc' = [pc EXCEPT ![c] = "polling"] /\ UNCHANGED charged
  BY DEF PostAnswered, Return, Goto
<1>2. CallerOK(c) /\ LedgerOK
  BY DEF ChargeInv
<1>3. /\ RequestOf(c) \in Request /\ RequestOf(c).key = LastKey(c)
      /\ RequestOf(c).kind = call[c].kind /\ RequestOf(c).cost = call[c].cost
      /\ LastKey(c) \in CallerKeys => Honours(LastKey(c), RequestOf(c))
  BY <1>1, <1>2, RequestHonours DEF Busy
<1>4. /\ GatewayMove({LastKey(c)}) /\ ledger'[LastKey(c)] # Nothing
      /\ ledger[LastKey(c)] = Nothing =>
            ledger'[LastKey(c)].kind = call[c].kind /\ ledger'[LastKey(c)].cost = call[c].cost
  BY <1>1, <1>2, <1>3, AnsweredMove
<1>5. call[c].chosen = NoKey => ledger[LastKey(c)] = Nothing
  BY <1>1, <1>2, PostingFresh DEF Fresh
<1>6. LastKey(c)' = LastKey(c)
  BY <1>1 DEF LastKey
<1>7. pc \in [Callers -> Places] /\ charged \in [Callers -> Prices \cup {0}]
  BY DEF CallInv, DataOK
<1>8. /\ pc'[c] \in {"returned", "polling"}
      /\ pc'[c] = "returned" => IsFinal(ledger'[LastKey(c)].status)
                                 /\ charged'[c] = ledger'[LastKey(c)].charged
      /\ \A d \in Callers \ {c} : pc'[d] = pc[d] /\ charged'[d] = charged[d]
                                                /\ error'[d] = error[d]
  BY <1>1, <1>7
<1>9. AnsweredOK(c)'
  BY <1>1, <1>4, <1>5, <1>6, <1>8 DEF AnsweredOK
<1> QED
  BY <1>1, <1>4, <1>8, <1>9, CallMoves DEF Busy

\* A call that ends with an exception: what is to show is that a NotTaken one
\* leaves its own last key fresh.
LEMMA RaiseCharge ==
    ASSUME CallInv, CallInv', ChargeInv, NEW c \in Callers, NEW exception, pc[c] \in Busy,
           Raise(c, exception), UNCHANGED <<call, invokes>>, GatewayMove({LastKey(c)}),
           exception \in NotTaken /\ call[c].chosen = NoKey => Fresh(LastKey(c))'
    PROVE  ChargeInv'
<1>1. /\ pc'[c] = "raised" /\ error'[c] = exception
      /\ \A d \in Callers \ {c} : pc'[d] = pc[d] /\ charged'[d] = charged[d]
                                                /\ error'[d] = error[d]
  BY DEF Raise, CallInv, DataOK
<1>2. AnsweredOK(c)'
  BY <1>1 DEF AnsweredOK
<1> QED
  BY <1>1, <1>2, CallMoves

\* The gateway's side stays as it is.
LEMMA StillMove ==
    ASSUME LedgerOK, UNCHANGED <<ledger, late>>, NEW S
    PROVE  GatewayMove(S)
BY IdleMove DEF GatewayMove

LEMMA PostUnreadableCharge ==
    ASSUME CallInv, CallInv', ChargeInv, NEW c \in Callers, PostUnreadable(c)
    PROVE  ChargeInv'
<1>1. /\ pc[c] = "posting" /\ UNCHANGED <<call, invokes, late>>
      /\ Answered(RequestOf(c)) /\ Raise(c, "ValueError")
  BY DEF PostUnreadable
<1>2. CallerOK(c) /\ LedgerOK
  BY DEF ChargeInv
<1>3. GatewayMove({LastKey(c)})
  BY <1>1, <1>2, RequestHonours, AnsweredMove DEF Busy
<1> QED
  BY <1>1, <1>3, RaiseCharge DEF Busy, NotTaken

LEMMA PostRefusedCharge ==
    ASSUME CallInv, CallInv', ChargeInv, NEW c \in Callers, PostRefused(c)
    PROVE  ChargeInv'
<1>1. /\ pc[c] = "posting" /\ UNCHANGED <<call, invokes, ledger, late>>
      /\ \/ Goto(c, "searching") /\ call[c].kind = "rediscovery"
         \/ \E exception : Raise(c, exception)
  BY DEF PostRefused, Rediscovers, gatewayVars
<1>2. CallerOK(c) /\ LedgerOK
  BY DEF ChargeInv
<1>3. GatewayMove({LastKey(c)})
  BY <1>1, <1>2, StillMove
<1>4. call[c].chosen = NoKey => Fresh(LastKey(c))'
  BY <1>1, <1>2, PostingFresh DEF Fresh, LastKey
<1>5. CASE Goto(c, "searching") /\ call[c].kind = "rediscovery"
  <2>1. /\ pc'[c] = "searching"
        /\ \A d \in Callers \ {c} : pc'[d] = pc[d] /\ charged'[d] = charged[d]
                                                  /\ error'[d] = error[d]
    BY <1>5 DEF Goto, CallInv
  <2>2. AnsweredOK(c)'
    BY <1>1, <1>5, <2>1 DEF AnsweredOK
  <2> QED
    BY <1>1, <1>3, <1>4, <2>1, <2>2, CallMoves DEF Busy
<1>6. CASE \E exception : Raise(c, exception)
  BY <1>1, <1>3, <1>4, <1>6, RaiseCharge DEF Busy
<1> QED
  BY <1>1, <1>5, <1>6

LEMMA PostLostCharge ==
    ASSUME CallInv, CallInv', ChargeInv, NEW c \in Callers, PostLost(c)
    PROVE  ChargeInv'
<1>1. /\ pc[c] = "posting" /\ UNCHANGED <<call, invokes>>
      /\ \/ Answered(RequestOf(c)) /\ UNCHANGED late
         \/ UNCHANGED <<ledger, late>>
         \/ late' = late \cup {RequestOf(c)} /\ UNCHANGED ledger
  BY DEF PostLost
<1>2. PICK exception : exception \in {"TransportError", "InvokeError"} /\ Raise(c, exception)
  <2>1. ErrorOf(ServerError, "InvokeError") = "InvokeError"
    BY DEF ErrorOf, ServerError
  <2> QED
    BY <2>1 DEF PostLost
<1>3. CallerOK(c) /\ LedgerOK
  BY DEF ChargeInv
<1>4. /\ RequestOf(c) \in Request /\ RequestOf(c).key = LastKey(c)
      /\ LastKey(c) \in CallerKeys => Honours(LastKey(c), RequestOf(c))
  BY <1>1, <1>3, RequestHonours DEF Busy
<1>5. GatewayMove({LastKey(c)})
  <2>1. CASE Answered(RequestOf(c)) /\ UNCHANGED late
    BY <1>3, <1>4, <2>1, AnsweredMove
  <2>2. CASE UNCHANGED <<ledger, late>>
    BY <1>3, <2>2, StillMove
  <2>3. CASE late' = late \cup {RequestOf(c)} /\ UNCHANGED ledger
    BY <1>3, <1>4, <2>3 DEF GatewayMove, LedgerOK, Fresh
  <2> QED
    BY <1>1, <2>1, <2>2, <2>3
<1> QED
  BY <1>1, <1>2, <1>5, RaiseCharge DEF Busy, NotTaken

LEMMA PollCharge ==
    ASSUME CallInv, CallInv', ChargeInv, NEW c \in Callers, Poll(c)
    PROVE  ChargeInv'
<1>1. pc[c] = "polling" /\ UNCHANGED <<call, invokes, ledger, late>>
  BY DEF Poll, gatewayVars
<1>2. \/ IsFinal(ledger[LastKey(c)].status) /\ Return(c, ledger[LastKey(c)].charged)
      \/ Raise(c, "TimeoutError")
      \/ Goto(c, "sleeping")
  BY DEF Poll, IsFinal, TERMINAL_STATUSES
<1>3. CallerOK(c) /\ LedgerOK
  BY DEF ChargeInv
<1>4. GatewayMove({LastKey(c)})
  BY <1>1, <1>3, StillMove
<1>5. CASE Raise(c, "TimeoutError")
  BY <1>1, <1>4, <1>5, RaiseCharge DEF Busy, NotTaken
<1>6. CASE \/ IsFinal(ledger[LastKey(c)].status) /\ Return(c, ledger[LastKey(c)].charged)
           \/ Goto(c, "sleeping")
  <2>1. /\ \/ /\ pc'[c] = "returned" /\ IsFinal(ledger[LastKey(c)].status)
              /\ charged'[c] = ledger[LastKey(c)].charged
           \/ pc'[c] = "sleeping"
        /\ \A d \in Callers \ {c} : pc'[d] = pc[d] /\ charged'[d] = charged[d]
                                                  /\ error'[d] = error[d]
    BY <1>6 DEF Return, Goto, CallInv, DataOK
  <2>2. LastKey(c)' = LastKey(c)
    BY <1>1 DEF LastKey
  <2>3. AnsweredOK(c)'
    BY <1>1, <1>3, <2>1, <2>2 DEF AnsweredOK, CallerOK
  <2> QED
    BY <1>1, <1>4, <2>1, <2>3, CallMoves DEF Busy
<1> QED
  BY <1>2, <1>5, <1>6

LEMMA OtherErrors ==
    ASSUME NEW response, NEW default, response.http \notin {402, 422}
    PROVE  ErrorOf(response, default) \in {"AuthenticationError", default}
BY DEF ErrorOf

LEMMA PollFailedCharge ==
    ASSUME CallInv, CallInv', ChargeInv, NEW c \in Callers, PollFailed(c)
    PROVE  ChargeInv'
<1>1. pc[c] = "polling" /\ UNCHANGED <<call, invokes, ledger, late>>
  BY DEF PollFailed, gatewayVars
<1>2. GatewayMove({LastKey(c)})
  BY <1>1, StillMove DEF ChargeInv
<1>3. CASE Raise(c, "TransportError")
  BY <1>1, <1>2, <1>3, RaiseCharge DEF Busy, NotTaken
<1>4. ASSUME NEW status \in {401, 500},
             Raise(c, ErrorOf([http |-> status, code |-> "OTHER"], "InvokeError"))
      PROVE  ChargeInv'
  <2>1. ErrorOf([http |-> status, code |-> "OTHER"], "InvokeError")
            \in {"AuthenticationError", "InvokeError"}
    BY OtherErrors
  <2> QED
    BY <1>1, <1>2, <1>4, <2>1, RaiseCharge DEF Busy, NotTaken
<1> QED
  BY <1>3, <1>4 DEF PollFailed

LEMMA SleepCharge ==
    ASSUME CallInv, CallInv', ChargeInv, NEW c \in Callers, Sleep(c)
    PROVE  ChargeInv'
<1>1. pc[c] = "sleeping" /\ UNCHANGED <<call, invokes, ledger, late>>
  BY DEF Sleep, gatewayVars
<1>2. /\ pc'[c] = "polling"
      /\ \A d \in Callers \ {c} : pc'[d] = pc[d] /\ charged'[d] = charged[d]
                                                /\ error'[d] = error[d]
  BY DEF Sleep, Goto, CallInv
<1>3. GatewayMove({LastKey(c)})
  BY <1>1, StillMove DEF ChargeInv
<1>4. AnsweredOK(c)'
  BY <1>1, <1>2 DEF ChargeInv, CallerOK, AnsweredOK, LastKey
<1> QED
  BY <1>1, <1>2, <1>3, <1>4, CallMoves DEF Busy

LEMMA SearchFailedCharge ==
    ASSUME CallInv, CallInv', ChargeInv, NEW c \in Callers, SearchFailed(c)
    PROVE  ChargeInv'
<1>1. pc[c] = "searching" /\ UNCHANGED <<call, invokes, ledger, late>>
  BY DEF SearchFailed, gatewayVars
<1>2. PICK exception : Raise(c, exception)
  BY DEF SearchFailed
<1>3. GatewayMove({LastKey(c)})
  BY <1>1, StillMove DEF ChargeInv
<1>4. call[c].chosen = NoKey => Fresh(LastKey(c))'
  BY <1>1, PostingFresh DEF ChargeInv, Fresh, LastKey
<1> QED
  BY <1>1, <1>2, <1>3, <1>4, RaiseCharge DEF Busy
\* An invoke() run begins: its keys are in order, and fresh if generated.
LEMMA NewRunCharge ==
    ASSUME CallInv, CallInv', ChargeInv, NEW c \in Callers,
           UNCHANGED <<charged, error, ledger, late>>,
           pc' = [pc EXCEPT ![c] = "posting"], invokes' = [invokes EXCEPT ![c] = @ + 1],
           \A d \in Callers \ {c} : call'[d] = call[d],
           KeysOK(c)',
           call'[c].chosen = NoKey =>
               \A i \in 1..Len(call'[c].keys) : Fresh(call'[c].keys[i])
    PROVE  ChargeInv'
<1>1. LedgerOK /\ GatewayMove({})
  BY StillMove DEF ChargeInv
<1>2. \A d \in Callers : invokes'[d] >= invokes[d] /\ invokes'[d] \in Nat
  BY ClientAssumption DEF CallInv, DataOK
<1>3. LedgerOK'
  BY <1>1, <1>2, LedgerMoves
<1>4. ASSUME NEW d \in Callers \ {c} PROVE CallerOK(d)'
  <2>1. pc'[d] = pc[d] /\ invokes'[d] = invokes[d]
    BY DEF CallInv, DataOK
  <2> QED
    BY <1>1, <2>1, BystanderOK DEF ChargeInv
<1>5. UnansweredOK(c)'
  BY DEF UnansweredOK, Fresh
<1>6. AnsweredOK(c)'
  <2>1. pc'[c] = "posting"
    BY DEF CallInv
  <2> QED
    BY <2>1 DEF AnsweredOK
<1> QED
  BY <1>3, <1>4, <1>5, <1>6 DEF ChargeInv, CallerOK

LEMMA SearchCharge ==
    ASSUME CallInv, CallInv', ChargeInv, NEW c \in Callers, Search(c)
    PROVE  ChargeInv'
<1>1. pc[c] = "searching" /\ UNCHANGED <<ledger, late>>
  BY DEF Search, gatewayVars
<1>2. PICK price \in {livePrice, fallback[c], 0} :
        \/ price > 0 /\ Reinvoke(c, price)
        \/ Raise(c, "PriceMismatchError") /\ UNCHANGED <<call, invokes>>
  BY DEF Search
<1>3. CallerOK(c) /\ LedgerOK
  BY DEF ChargeInv
<1>4. call[c].chosen = NoKey => Fresh(LastKey(c))
  BY <1>1, <1>3, PostingFresh
<1>5. CASE Raise(c, "PriceMismatchError") /\ UNCHANGED <<call, invokes>>
  <2>1. GatewayMove({LastKey(c)})
    BY <1>1, <1>3, StillMove
  <2>2. call[c].chosen = NoKey => Fresh(LastKey(c))'
    BY <1>1, <1>4, <1>5 DEF Fresh, LastKey
  <2> QED
    BY <1>1, <1>5, <2>1, <2>2, RaiseCharge DEF Busy
<1>6. CASE Reinvoke(c, price)
  <2> DEFINE k == InvocationKey(c, call[c].chosen)
             new == [call[c] EXCEPT !.keys = Append(@, k), !.cost = price]
  <2>1. /\ call[c] \in Call /\ Len(call[c].keys) = 1 /\ call[c].keys \in Seq(Keys)
        /\ invokes[c] \in 0..MaxInvokes /\ invokes[c] < MaxInvokes
    BY <1>1 DEF CallInv, CallOK, DataOK, Busy, Call
  <2>2. /\ call[c].chosen = NoKey => k = <<c, invokes[c]>>
        /\ call[c].chosen # NoKey => k = call[c].chosen
        /\ k \in Keys
    BY <2>1 DEF InvocationKey, Call, Keys, AutoKeys
  <2> HIDE DEF k
  <2>3. /\ call' = [call EXCEPT ![c] = new] /\ invokes' = [invokes EXCEPT ![c] = @ + 1]
        /\ pc' = [pc EXCEPT ![c] = "posting"] /\ UNCHANGED <<charged, error>>
    BY <1>6 DEF Reinvoke, Goto, k
  <2>4. /\ Len(Append(call[c].keys, k)) = 2
        /\ Append(call[c].keys, k)[1] = call[c].keys[1]
        /\ Append(call[c].keys, k)[2] = k
    <3>1. call[c].keys \in Seq(Keys) /\ k \in Keys
      BY <2>1, <2>2
    <3>2. /\ Len(Append(call[c].keys, k)) = Len(call[c].keys) + 1
          /\ \A i \in 1..Len(call[c].keys) : Append(call[c].keys, k)[i] = call[c].keys[i]
          /\ Append(call[c].keys, k)[Len(call[c].keys) + 1] = k
      BY <3>1, AppendProperties
    <3> QED
      BY <2>1, <3>2
  <2>5. /\ call'[c] = new /\ new.keys = Append(call[c].keys, k)
        /\ new.chosen = call[c].chosen /\ new.kind = call[c].kind
        /\ invokes'[c] = invokes[c] + 1
        /\ \A d \in Callers \ {c} : call'[d] = call[d]
    BY <2>1, <2>3 DEF CallInv, DataOK, Call
  <2> HIDE DEF new
  <2>6. call[c].keys[1] = LastKey(c)
    BY <2>1 DEF LastKey
  <2>7. KeysOK(c)'
    <3>1. CASE call[c].chosen = NoKey
      <4>1. call[c].keys[1] = <<c, invokes[c] - 1>> /\ invokes[c] - 1 \in 0..MaxInvokes
        <5>1. /\ invokes[c] - 1 + 1 - 1 \in 0..MaxInvokes
              /\ call[c].keys[1] = <<c, invokes[c] - 1 + 1 - 1>>
          BY <1>3, <2>1, <3>1 DEF CallerOK, KeysOK
        <5> QED
          BY <2>1, <5>1
      <4>2. /\ Len(call'[c].keys) = 2 /\ call'[c].chosen = NoKey
            /\ call'[c].keys[1] = <<c, invokes[c] - 1>>
            /\ call'[c].keys[2] = <<c, invokes[c]>>
        BY <2>2, <2>4, <2>5, <3>1, <4>1
      <4>3. invokes'[c] - 2 + 1 - 1 = invokes[c] - 1 /\ invokes'[c] - 2 + 2 - 1 = invokes[c]
        BY <2>1, <2>5, ClientAssumption
      <4>4. ASSUME NEW i \in 1..2
            PROVE  /\ invokes'[c] - 2 + i - 1 \in 0..MaxInvokes
                   /\ call'[c].keys[i] = <<c, invokes'[c] - 2 + i - 1>>
        <5>1. CASE i = 1
          BY <4>1, <4>2, <4>3, <5>1
        <5>2. CASE i = 2
          BY <2>1, <4>2, <4>3, <5>2
        <5> QED
          BY <5>1, <5>2
      <4> QED
        BY <4>2, <4>4 DEF KeysOK
    <3>2. CASE call[c].chosen # NoKey
      <4>1. call[c].keys[1] = call[c].chosen
        BY <1>3, <2>1, <3>2 DEF CallerOK, KeysOK
      <4>2. new.kind = "rediscovery" /\ new.kind = Intent[new.chosen].kind
        BY <1>1, <1>3, <2>5, <3>2 DEF CallerOK, AnsweredOK, KeysOK, Honours
      <4> QED
        BY <2>2, <2>4, <2>5, <3>2, <4>1, <4>2 DEF KeysOK, Honours
    <3> QED
      BY <3>1, <3>2
  <2>8. call[c].chosen = NoKey => Fresh(call[c].keys[1]) /\ Fresh(k)
    BY <1>3, <1>4, <2>1, <2>2, <2>6 DEF LedgerOK
  <2>9. ASSUME call'[c].chosen = NoKey, NEW i \in 1..Len(call'[c].keys)
        PROVE  Fresh(call'[c].keys[i])
    <3>1. i = 1 \/ i = 2
      BY <2>4, <2>5
    <3> QED
      BY <2>4, <2>5, <2>8, <2>9, <3>1
  <2> QED
    BY <1>1, <2>3, <2>5, <2>7, <2>9, NewRunCharge
<1> QED
  BY <1>2, <1>5, <1>6

LEMMA CallStepCharge ==
    ASSUME CallInv, CallInv', ChargeInv, NEW c \in Callers, CallStep(c)
    PROVE  ChargeInv'
BY PostAnsweredCharge, PostUnreadableCharge, PostRefusedCharge, PostLostCharge, PollCharge,
   PollFailedCharge, SleepCharge, SearchCharge, SearchFailedCharge DEF CallStep

-----------------------------------------------------------------------------
\* The steps of a caller at rest, and of the gateway.
LEMMA StartCallCharge ==
    ASSUME CallInv, CallInv', ChargeInv, NEW c \in Callers, NEW k \in Kinds,
           NEW chosen \in CallerKeys \cup {NoKey}, NEW price \in Prices,
           NEW limit \in RetryLimits \cup {0}, StartCall(c, k, chosen, price, limit)
    PROVE  ChargeInv'
<1> DEFINE first == InvocationKey(c, chosen)
           new == [kind |-> k, chosen |-> chosen, cost |-> price, keys |-> <<first>>,
                   retries |-> limit]
<1>1. /\ call' = [call EXCEPT ![c] = new] /\ invokes' = [invokes EXCEPT ![c] = @ + 1]
      /\ pc' = [pc EXCEPT ![c] = "posting"]
      /\ UNCHANGED <<charged, error, ledger, late>>
      /\ invokes[c] + 2 <= MaxInvokes
      /\ chosen # NoKey => Intent[chosen] = [kind |-> k, cost |-> price]
  BY DEF StartCall, Goto, gatewayVars
<1>2. invokes[c] \in Nat
  BY ClientAssumption DEF CallInv, DataOK
<1>3. /\ chosen = NoKey => first = <<c, invokes[c]>>
      /\ chosen # NoKey => first = chosen
  BY DEF InvocationKey
<1> HIDE DEF first
<1>4. /\ call'[c].keys = <<first>> /\ call'[c].chosen = chosen
      /\ call'[c].kind = k /\ call'[c].cost = price
      /\ invokes'[c] = invokes[c] + 1
      /\ \A d \in Callers \ {c} : call'[d] = call[d]
  BY <1>1 DEF CallInv, DataOK
<1>5. KeysOK(c)'
  <2>1. Len(call'[c].keys) = 1 /\ call'[c].keys[1] = first
    BY <1>4
  <2>2. chosen = NoKey => /\ invokes'[c] - 1 + 1 - 1 \in 0..MaxInvokes
                          /\ first = <<c, invokes'[c] - 1 + 1 - 1>>
    BY <1>1, <1>2, <1>3, <1>4, ClientAssumption
  <2>3. chosen # NoKey => Honours(chosen, call'[c])
    BY <1>1, <1>4 DEF Honours
  <2>4. \A i \in 1..1 : i = 1
    OBVIOUS
  <2> QED
    BY <1>3, <1>4, <2>1, <2>2, <2>3, <2>4 DEF KeysOK, Honours
<1>6. chosen = NoKey => Fresh(first)
  BY <1>1, <1>2, <1>3, ClientAssumption DEF ChargeInv, LedgerOK
<1>7. ASSUME call'[c].chosen = NoKey, NEW i \in 1..Len(call'[c].keys)
      PROVE  Fresh(call'[c].keys[i])
  <2>1. i = 1 /\ call'[c].keys[1] = first
    BY <1>4
  <2> QED
    BY <1>4, <1>6, <1>7, <2>1
<1> QED
  BY <1>1, <1>4, <1>5, <1>7, NewRunCharge

\* A caller at rest, or at the end of a call, that POSTs nothing.
LEMMA AtRestCharge ==
    ASSUME CallInv, ChargeInv, NEW c \in Callers,
           call'[c].keys = <<>>, call'[c].chosen = NoKey,
           pc'[c] \in {"idle", "raised"}, UNCHANGED <<invokes, ledger, late>>,
           \A d \in Callers \ {c} : /\ pc'[d] = pc[d] /\ call'[d] = call[d]
                                    /\ charged'[d] = charged[d] /\ error'[d] = error[d]
    PROVE  ChargeInv'
<1>1. LedgerOK /\ GatewayMove({})
  BY StillMove DEF ChargeInv
<1>2. \A d \in Callers : invokes'[d] >= invokes[d] /\ invokes'[d] \in Nat
  BY ClientAssumption DEF CallInv, DataOK
<1>3. LedgerOK'
  BY <1>1, <1>2, LedgerMoves
<1>4. ASSUME NEW d \in Callers \ {c} PROVE CallerOK(d)'
  BY <1>1, BystanderOK DEF ChargeInv
<1>5. CallerOK(c)'
  BY DEF CallerOK, KeysOK, UnansweredOK, AnsweredOK
<1> QED
  BY <1>3, <1>4, <1>5 DEF ChargeInv

LEMMA RejectArgumentsCharge ==
    ASSUME CallInv, ChargeInv, NEW c \in Callers, NEW exception,
           RejectArguments(c, exception)
    PROVE  ChargeInv'
<1>1. call[c].keys = <<>> /\ call[c].chosen = NoKey
  BY DEF RejectArguments, ChargeInv, CallerOK, AnsweredOK
<1> QED
  BY <1>1, AtRestCharge DEF RejectArguments, Raise, gatewayVars, CallInv, DataOK

LEMMA ForgetCharge ==
    ASSUME CallInv, ChargeInv, NEW c \in Callers, Forget(c)
    PROVE  ChargeInv'
BY AtRestCharge DEF Forget, NoCall, gatewayVars, CallInv, DataOK

\* Nothing moves.
LEMMA StutterCharge == ASSUME ChargeInv, UNCHANGED vars PROVE ChargeInv'
<1>1. LedgerOK'
  BY DEF vars, gatewayVars, ChargeInv, LedgerOK, Fresh, Honours
<1>2. ASSUME NEW c \in Callers PROVE CallerOK(c)'
  <2>1. CallerOK(c)
    BY DEF ChargeInv
  <2> QED
    BY <2>1 DEF vars, gatewayVars, Fresh, Honours, CallerOK, KeysOK,
                UnansweredOK, AnsweredOK, LastKey
<1> QED
  BY <1>1, <1>2 DEF ChargeInv

LEMMA GatewayStepCharge ==
    ASSUME CallInv, ChargeInv, GatewayStep
    PROVE  ChargeInv'
<1>1. UNCHANGED <<pc, call, invokes, charged, error>>
  BY DEF GatewayStep, Resolve, Settle, LateArrival, ChangePrice
<1>2. LedgerOK /\ GatewayMove({})
  BY GatewayStepMove DEF ChargeInv
<1>3. \A d \in Callers : invokes'[d] >= invokes[d] /\ invokes'[d] \in Nat
  BY <1>1, ClientAssumption DEF CallInv, DataOK
<1>4. LedgerOK'
  BY <1>2, <1>3, LedgerMoves
<1>5. ASSUME NEW d \in Callers PROVE CallerOK(d)'
  BY <1>1, <1>2, BystanderOK DEF ChargeInv
<1> QED
  BY <1>4, <1>5 DEF ChargeInv
-----------------------------------------------------------------------------
LEMMA InitCharge == ASSUME Init PROVE ChargeInv
<1>1. ASSUME NEW c \in Callers, NEW n \in 0..MaxInvokes PROVE Fresh(<<c, n>>)
  BY DEF Init, Fresh, Keys, AutoKeys
<1>2. LedgerOK
  BY <1>1 DEF Init, LedgerOK, Keys
<1>3. ASSUME NEW c \in Callers PROVE CallerOK(c)
  <2>1. call[c].keys = <<>> /\ call[c].chosen = NoKey /\ pc[c] = "idle"
    BY DEF Init, NoCall
  <2> QED
    BY <2>1 DEF CallerOK, KeysOK, UnansweredOK, AnsweredOK
<1> QED
  BY <1>2, <1>3 DEF ChargeInv

LEMMA NextCharge ==
    ASSUME CallInv, CallInv', ChargeInv, [Next]_vars
    PROVE  ChargeInv'
<1>1. ASSUME NEW c \in Callers, Begin(c) PROVE ChargeInv'
  <2>1. ASSUME NEW k \in EntryPoints, NEW chosen \in CallerKeys \cup {NoKey},
               NEW price \in Prices,
               NEW limit \in (IF k = "rediscovery" THEN RetryLimits ELSE {0}),
               StartCall(c, k, chosen, price, limit)
        PROVE  ChargeInv'
    <3>1. k \in Kinds /\ limit \in RetryLimits \cup {0}
      BY ClientAssumption
    <3> QED
      BY <2>1, <3>1, StartCallCharge
  <2> QED
    BY <1>1, <2>1, RejectArgumentsCharge DEF Begin
<1>2. ASSUME NEW c \in Callers, CallStep(c) PROVE ChargeInv'
  BY <1>2, CallStepCharge
<1>3. ASSUME NEW c \in Callers, Consume(c) PROVE ChargeInv'
  BY <1>3, ForgetCharge DEF Consume
<1>4. CASE GatewayStep
  BY <1>4, GatewayStepCharge
<1>5. CASE UNCHANGED vars
  BY <1>5, StutterCharge
<1> QED
  BY <1>1, <1>2, <1>3, <1>4, <1>5 DEF Next

\* The invariant that the theorems below are read off.
LEMMA ChargeInvariant == Spec => [](CallInv /\ ChargeInv)
<1>1. Init => CallInv /\ ChargeInv
  BY InitCallInv, InitCharge
<1>2. CallInv /\ ChargeInv /\ [Next]_vars => (CallInv /\ ChargeInv)'
  BY NextInv, NextCharge
<1> QED
  BY <1>1, <1>2, PTL DEF Spec

\* A call that returns, at once or after any number of polls, reports the
\* final charge of its own invocation (client.py: invoke, wait_for_invocation).
THEOREM ResultsAreFinal == Spec => []ResultIsFinal
<1>1. CallInv /\ ChargeInv => ResultIsFinal
  BY DEF ChargeInv, CallerOK, AnsweredOK, ResultIsFinal, IsFinal
<1> QED
  BY <1>1, ChargeInvariant, PTL

\* However many threads repeat one idempotent call, those that return are told
\* the same charge.
THEOREM RepeatsAgreeAlways == Spec => []RepeatsAgree
<1>1. CallInv /\ ChargeInv => RepeatsAgree
  BY DEF ChargeInv, CallerOK, AnsweredOK, RepeatsAgree
<1> QED
  BY <1>1, ChargeInvariant, PTL

\* invoke_with_rediscovery never has two invocations at the gateway: the key of
\* its first POST is refused for good before the second is drawn.
THEOREM CallsInvokeOnce == Spec => []OneInvocationPerCall
<1>1. ASSUME ChargeInv, NEW c \in Callers,
             NEW i \in 1..Len(call[c].keys), NEW j \in 1..Len(call[c].keys),
             ledger[call[c].keys[i]] # Nothing, ledger[call[c].keys[j]] # Nothing
      PROVE  call[c].keys[i] = call[c].keys[j]
  <2>1. KeysOK(c) /\ UnansweredOK(c)
    BY <1>1 DEF ChargeInv, CallerOK
  <2>2. CASE call[c].chosen = NoKey
    <3>1. ~(i < Len(call[c].keys)) /\ ~(j < Len(call[c].keys))
      BY <1>1, <2>1, <2>2 DEF UnansweredOK, Fresh
    <3>2. i = j
      BY <3>1
    <3> QED
      BY <3>2
  <2>3. CASE call[c].chosen # NoKey
    BY <2>1, <2>3 DEF KeysOK
  <2> QED
    BY <2>2, <2>3
<1>2. ChargeInv => OneInvocationPerCall
  BY <1>1 DEF OneInvocationPerCall
<1> QED
  BY <1>2, ChargeInvariant, PTL

\* A result is charged at most what its own call asserted, unless the key is a
\* repeated rediscovery's.
LEMMA ChargeBound ==
    ASSUME CallInv, ChargeInv, NEW c \in Callers, pc[c] \in {"returned", "adding"},
           ~(call[c].kind = "rediscovery" /\ call[c].chosen # NoKey)
    PROVE  charged[c] <= call[c].cost
<1>1. LedgerOK /\ CallerOK(c)
  BY DEF ChargeInv
<1>2. /\ LastKey(c) \in Keys
      /\ call[c].chosen # NoKey => LastKey(c) = call[c].chosen
  BY <1>1, LastKeyFacts
<1>3. /\ ledger[LastKey(c)] # Nothing /\ ledger[LastKey(c)].charged = charged[c]
      /\ call[c].chosen = NoKey => ledger[LastKey(c)].cost = call[c].cost
  BY <1>1 DEF CallerOK, AnsweredOK
<1>4. charged[c] <= ledger[LastKey(c)].cost
  BY <1>1, <1>2, <1>3 DEF LedgerOK
<1>5. CASE call[c].chosen # NoKey
  <2>1. call[c].chosen \in CallerKeys
    BY <1>5 DEF CallInv, CallOK, Call
  <2>2. Honours(call[c].chosen, ledger[LastKey(c)]) /\ Honours(call[c].chosen, call[c])
    BY <1>1, <1>2, <1>3, <1>5, <2>1 DEF LedgerOK, CallerOK, KeysOK
  <2>3. ledger[LastKey(c)].cost = call[c].cost
    BY <1>5, <2>2 DEF Honours
  <2> QED
    BY <1>4, <2>3
<1> QED
  BY <1>3, <1>4, <1>5

\* A result never costs more than the price the call asserted (cost_usdc,
\* max_cost_usdc, or the rediscovered one).
THEOREM ChargesAreAsserted == Spec => []ChargeWithinAssertedPrice
<1>1. CallInv /\ ChargeInv => ChargeWithinAssertedPrice
  BY ChargeBound DEF ChargeWithinAssertedPrice
<1> QED
  BY <1>1, ChargeInvariant, PTL

\* An InsufficientFundsError, BudgetExceededError, PriceMismatchError or
\* DiscoveryError means that nothing of the call was or ever will be charged.
THEOREM RefusalsAreUncharged == Spec => []RefusalMeansUncharged
<1>1. ChargeInv => RefusalMeansUncharged
  BY DEF ChargeInv, CallerOK, UnansweredOK, Fresh, RefusalMeansUncharged
<1> QED
  BY <1>1, ChargeInvariant, PTL

-----------------------------------------------------------------------------
(***************************************************************************)
(* The proof that SynapseClient implements PaidCalls.  What the charge     *)
(* invariant does not say already is that a caller without a call has left *)
(* nothing behind, and that whatever the gateway has taken or may yet take *)
(* under a generated key is within the price its call asserts (LimitOK).   *)
(***************************************************************************)
\* The caller is the only one to use the keys of its call.
Owns(c) == call[c].kind # "none" /\ call[c].chosen = NoKey

RestOK(c) ==
    /\ pc[c] = "idle" => call[c].kind = "none"
    /\ call[c].kind = "none" =>
         call[c] = NoCall /\ charged[c] = 0 /\ pc[c] \in {"idle", "raised"}

LimitOK(c) ==
    Owns(c) => \A k \in KeysOf(c) :
        /\ ledger[k] # Nothing => ledger[k].cost <= call[c].cost
        /\ \A r \in late : r.key = k => r.cost <= call[c].cost

MapInv == \A c \in Callers : RestOK(c) /\ LimitOK(c)

ClientInv == CallInv /\ ChargeInv /\ MapInv

\* A request that the gateway may be about to handle.
Posted(r) == r \in late \/ \E c \in Callers : pc[c] = "posting" /\ r = RequestOf(c)

-----------------------------------------------------------------------------
\* Whose key it is.
LEMMA KeysOfTyped ==
    ASSUME CallInv, NEW c \in Callers
    PROVE  /\ call[c] \in Call \/ call[c] = NoCall
           /\ Len(call[c].keys) \in Nat
           /\ \A i \in 1..Len(call[c].keys) : call[c].keys[i] \in Keys
           /\ KeysOf(c) \subseteq Keys
<1>1. call[c] \in Call \/ call[c] = NoCall
  BY DEF CallInv, DataOK
<1>2. CASE call[c] \in Call
  BY <1>2 DEF Call, KeysOf
<1>3. CASE call[c] = NoCall
  <2>1. call[c].keys = <<>> /\ Len(call[c].keys) = 0
    BY <1>3 DEF NoCall
  <2> QED
    BY <1>3, <2>1 DEF KeysOf
<1> QED
  BY <1>1, <1>2, <1>3

LEMMA CostTyped ==
    ASSUME CallInv, NEW c \in Callers
    PROVE  call[c].cost \in Prices \cup {0} /\ call[c].cost \in Nat
<1>1. call[c] \in Call => call[c].cost \in Prices \cup {0}
  BY DEF Call
<1>2. call[c] = NoCall => call[c].cost = 0
  BY DEF NoCall
<1>3. call[c] \in Call \/ call[c] = NoCall
  BY DEF CallInv, DataOK
<1>4. call[c].cost \in Prices \cup {0}
  BY <1>1, <1>2, <1>3
<1>5. \A x \in Prices \cup {0} : x \in Nat
  BY ClientAssumption
<1> QED
  BY ONLY <1>4, <1>5

LEMMA OwnedKeys ==
    ASSUME CallInv, ChargeInv, NEW c \in Callers, Owns(c)
    PROVE  /\ KeysOf(c) \subseteq {<<c, n>> : n \in 0..MaxInvokes}
           /\ KeysOf(c) \cap CallerKeys = {}
<1>1. KeysOK(c)
  BY DEF ChargeInv, CallerOK
<1>2. \A i \in 1..Len(call[c].keys) : \E n \in 0..MaxInvokes : call[c].keys[i] = <<c, n>>
  BY <1>1 DEF KeysOK, Owns
<1>3. \A k \in KeysOf(c) : \E n \in 0..MaxInvokes : k = <<c, n>>
  BY <1>2 DEF KeysOf
<1>4. \A k \in KeysOf(c) : k \in AutoKeys
  BY <1>3 DEF AutoKeys
<1> QED
  BY <1>3, <1>4, ClientAssumption

\* A call that chose its key has no other.
LEMMA ChosenKeys ==
    ASSUME CallInv, ChargeInv, NEW c \in Callers, call[c].chosen # NoKey
    PROVE  \A k \in KeysOf(c) : k = call[c].chosen /\ k \in CallerKeys
<1>1. KeysOK(c)
  BY DEF ChargeInv, CallerOK
<1>2. call[c].chosen \in CallerKeys
  BY KeysOfTyped DEF Call, NoCall
<1> QED
  BY <1>1, <1>2 DEF KeysOK, KeysOf

\* A generated key is used by no other caller.
LEMMA AutoApart ==
    ASSUME CallInv, ChargeInv, NEW c \in Callers, NEW d \in Callers, c # d,
           NEW n \in 0..MaxInvokes
    PROVE  <<c, n>> \notin KeysOf(d)
<1>1. <<c, n>> \notin CallerKeys
  BY ClientAssumption DEF AutoKeys
<1>2. CASE call[d].chosen # NoKey
  BY <1>1, <1>2, ChosenKeys
<1>3. CASE call[d].chosen = NoKey
  <2>1. \A i \in 1..Len(call[d].keys) : \E m \in 0..MaxInvokes : call[d].keys[i] = <<d, m>>
    BY <1>3 DEF ChargeInv, CallerOK, KeysOK
  <2>2. \A j \in KeysOf(d) : \E m \in 0..MaxInvokes : j = <<d, m>>
    BY <2>1 DEF KeysOf
  <2> QED
    BY <2>2
<1> QED
  BY <1>2, <1>3

\* Two calls share a key only if both chose it.
LEMMA KeysApart ==
    ASSUME CallInv, ChargeInv, NEW c \in Callers, NEW d \in Callers, c # d,
           Owns(c), NEW k \in KeysOf(c)
    PROVE  k \notin KeysOf(d)
<1>1. PICK n \in 0..MaxInvokes : k = <<c, n>>
  BY OwnedKeys
<1> QED
  BY <1>1, AutoApart

\* The last key of a call under way is one of its keys.
LEMMA LastKeyOf ==
    ASSUME CallInv, NEW c \in Callers, pc[c] \in Busy \cup {"returned"}
    PROVE  /\ LastKey(c) \in KeysOf(c) /\ LastKey(c) \in Keys
           /\ call[c].kind # "none" /\ call[c] \in Call
<1>1. call[c] \in Call /\ call[c].keys # <<>>
  BY DEF CallInv, CallOK
<1>2. Len(call[c].keys) \in 1..Len(call[c].keys)
  BY <1>1 DEF Call
<1>3. call[c].kind # "none"
  BY <1>1 DEF Call, Kinds
<1> QED
  BY <1>1, <1>2, <1>3, KeyTyped DEF LastKey, KeysOf

\* Of the keys of a call that owns them, one at most is not fresh, and none of
\* a refused call.
LEMMA OwnedFresh ==
    ASSUME ClientInv, NEW c \in Callers, Owns(c), NEW k \in KeysOf(c), ~Fresh(k)
    PROVE  /\ k = LastKey(c) /\ pc[c] \notin {"posting", "searching"}
           /\ PhaseOf(c) # "refused"
           /\ \A j \in KeysOf(c) \ {k} : Fresh(j)
<1>1. UnansweredOK(c) /\ call[c].chosen = NoKey
  BY DEF ClientInv, ChargeInv, CallerOK, Owns
<1>2. PICK i \in 1..Len(call[c].keys) : k = call[c].keys[i]
  BY DEF KeysOf
<1>3. Len(call[c].keys) \in Nat
  BY KeysOfTyped DEF ClientInv
<1>4. ~(i < Len(call[c].keys))
  BY <1>1, <1>2 DEF UnansweredOK
<1>5. i = Len(call[c].keys)
  BY <1>3, <1>4
<1>6. k = LastKey(c)
  BY <1>2, <1>5 DEF LastKey
<1>7. pc[c] \notin {"posting", "searching"} /\ ~(pc[c] = "raised" /\ error[c] \in NotTaken)
  BY <1>1, <1>2 DEF UnansweredOK
<1>8. PhaseOf(c) # "refused"
  BY <1>7 DEF PhaseOf
<1>9. ASSUME NEW j \in KeysOf(c) \ {k} PROVE Fresh(j)
  <2>1. PICK n \in 1..Len(call[c].keys) : j = call[c].keys[n]
    BY DEF KeysOf
  <2>2. n < Len(call[c].keys)
    BY <1>3, <1>2, <1>5, <2>1
  <2> QED
    BY <1>1, <2>1, <2>2 DEF UnansweredOK
<1> QED
  BY <1>6, <1>7, <1>8, <1>9

\* A request that may be handled is within what the owner of its key asserts.
LEMMA PostedWithin ==
    ASSUME ClientInv, NEW r, Posted(r), NEW c \in Callers, Owns(c), r.key \in KeysOf(c)
    PROVE  /\ r.cost <= call[c].cost
           /\ PhaseOf(c) # "refused"
           /\ \A j \in KeysOf(c) \ {r.key} : Fresh(j)
<1>1. CASE r \in late
  <2>1. ~Fresh(r.key)
    BY <1>1 DEF Fresh
  <2>2. r.cost <= call[c].cost
    BY <1>1 DEF ClientInv, MapInv, LimitOK
  <2> QED
    BY <2>1, <2>2, OwnedFresh
<1>2. ASSUME NEW d \in Callers, pc[d] = "posting", r = RequestOf(d)
      PROVE  /\ r.cost <= call[c].cost
             /\ PhaseOf(c) # "refused"
             /\ \A j \in KeysOf(c) \ {r.key} : Fresh(j)
  <2>1. LastKey(d) \in KeysOf(d)
    BY <1>2, LastKeyOf DEF ClientInv, Busy
  <2>2. r.key = LastKey(d) /\ r.cost = call[d].cost
    BY <1>2 DEF RequestOf
  <2>3. d = c
    BY <2>1, <2>2, KeysApart DEF ClientInv
  <2>4. r.cost <= call[c].cost
    <3>1. call[c].cost \in Nat
      BY <1>2, <2>3, ClientAssumption DEF ClientInv, CallInv, CallOK, Busy
    <3> QED
      BY <2>2, <2>3, <3>1
  <2>5. PhaseOf(c) # "refused"
    BY <1>2, <2>3 DEF PhaseOf
  <2>6. ASSUME NEW j \in KeysOf(c) \ {r.key} PROVE Fresh(j)
    BY <1>2, <2>2, <2>3, OwnedFresh
  <2> QED
    BY <2>4, <2>5, <2>6
<1> QED
  BY <1>1, <1>2 DEF Posted
-----------------------------------------------------------------------------
\* The steps of the abstract specification, in terms of the mapping.
LEMMA AllowedIf ==
    ASSUME CallInv, NEW k \in Keys, NEW a,
           \A c \in Callers : Owns(c) /\ k \in KeysOf(c) =>
              /\ PhaseOf(c) # "refused"
              /\ a <= call[c].cost
              /\ \A j \in KeysOf(c) \ {k} : Fresh(j)
    PROVE  Paid!Allowed(k, a)
<1>1. \A c \in Callers : KeysOf(c) \subseteq Keys
  BY KeysOfTyped
<1>2. \A j \in Keys : Fresh(j) => BookedAs(j) = "free"
  BY DEF Fresh, BookedAs, Nothing
<1>3. ASSUME NEW c \in Callers, Owns(c), k \in KeysOf(c)
      PROVE  /\ PhaseOf(c) # "refused"
             /\ a <= call[c].cost
             /\ \A j \in KeysOf(c) \ {k} : j \in Keys /\ BookedAs(j) = "free"
  BY <1>1, <1>2, <1>3
<1> QED
  BY <1>3 DEF Paid!Allowed, Paid!Free, Owns

LEMMA AcceptBooks ==
    ASSUME ClientInv, NEW r \in Request, Posted(r), Accept(r), NEW k, k = r.key
    PROVE  Paid!Book(k)
<1>1. PICK s \in Statuses : \E amount \in Charges(r, s) :
        ledger' = [ledger EXCEPT ![r.key] = [status |-> s, charged |-> amount,
                                             kind |-> r.kind, cost |-> r.cost]]
  BY DEF Accept
<1>2. PICK amount \in Charges(r, s) :
        ledger' = [ledger EXCEPT ![r.key] = [status |-> s, charged |-> amount,
                                             kind |-> r.kind, cost |-> r.cost]]
  BY <1>1
<1>3. r.key \in Keys /\ r.cost \in Prices /\ r.cost \in Nat
  BY ClientAssumption DEF Request
<1>4. amount \in Prices \cup {0} /\ amount <= r.cost /\ amount \in Nat
  BY <1>2, <1>3, ClientAssumption DEF Charges
<1> DEFINE as == IF s = "PENDING" THEN "taken" ELSE "final"
<1>5. ledger[r.key] = Nothing /\ BookedAs(r.key) = "free"
  BY DEF Accept, BookedAs, Nothing
<1>6. ASSUME NEW j \in Keys
      PROVE  /\ BookedAs(j)' = IF j = r.key THEN as ELSE BookedAs(j)
             /\ ledger'[j].charged = IF j = r.key THEN amount ELSE ledger[j].charged
  BY <1>2, <1>3 DEF ClientInv, CallInv, DataOK, BookedAs, Statuses, TERMINAL_STATUSES
<1>7. Paid!Allowed(r.key, amount)
  <2>1. ASSUME NEW c \in Callers, Owns(c), r.key \in KeysOf(c)
        PROVE  /\ PhaseOf(c) # "refused"
               /\ amount <= call[c].cost
               /\ \A j \in KeysOf(c) \ {r.key} : Fresh(j)
    <3>1. /\ r.cost <= call[c].cost /\ PhaseOf(c) # "refused"
          /\ \A j \in KeysOf(c) \ {r.key} : Fresh(j)
      BY <2>1, PostedWithin
    <3>2. call[c].cost \in Nat
      BY CostTyped DEF ClientInv
    <3>3. amount <= call[c].cost
      BY <1>3, <1>4, <3>1, <3>2
    <3> QED
      BY <3>1, <3>3
  <2> QED
    BY <1>3, <2>1, AllowedIf DEF ClientInv
<1>8. as \in {"taken", "final"}
  OBVIOUS
<1> HIDE DEF as
<1>9. [j \in Keys |-> BookedAs(j)]' = [[j \in Keys |-> BookedAs(j)] EXCEPT ![k] = as]
  BY <1>6
<1>10. [j \in Keys |-> ledger[j].charged]'
         = [[j \in Keys |-> ledger[j].charged] EXCEPT ![k] = amount]
  BY <1>6
<1> QED
  BY <1>3, <1>4, <1>5, <1>7, <1>8, <1>9, <1>10 DEF Paid!Book, Paid!Free

\* A call keeps its keys, its limit and whether it owns them.
LEMMA CallKept ==
    ASSUME UNCHANGED call
    PROVE  /\ UNCHANGED [c \in Callers |-> KeysOf(c)]
           /\ UNCHANGED [c \in Callers |-> call[c].kind # "none" /\ call[c].chosen = NoKey]
           /\ UNCHANGED [c \in Callers |-> call[c].cost]
BY DEF KeysOf

LEMMA PhaseMoves ==
    ASSUME CallInv, NEW c \in Callers,
           \A d \in Callers \ {c} : /\ pc'[d] = pc[d] /\ error'[d] = error[d]
                                    /\ call'[d] = call[d]
    PROVE  [d \in Callers |-> PhaseOf(d)]'
             = [[d \in Callers |-> PhaseOf(d)] EXCEPT ![c] = PhaseOf(c)']
<1>1. ASSUME NEW d \in Callers \ {c} PROVE PhaseOf(d)' = PhaseOf(d)
  BY DEF PhaseOf
<1> QED
  BY <1>1

LEMMA BooksKept ==
    ASSUME UNCHANGED ledger
    PROVE  /\ UNCHANGED [k \in Keys |-> BookedAs(k)]
           /\ UNCHANGED [k \in Keys |-> ledger[k].charged]
BY DEF BookedAs
-----------------------------------------------------------------------------
\* What a step does to the gateway's side: what it newly holds or may handle
\* was posted before.
Handles ==
    /\ \A k \in Keys : ledger'[k] # Nothing =>
         \/ ledger[k] # Nothing /\ ledger'[k].cost = ledger[k].cost
         \/ \E r \in Request : Posted(r) /\ r.key = k /\ ledger'[k].cost = r.cost
    /\ \A r \in late' : Posted(r)

LEMMA StillHandles ==
    ASSUME UNCHANGED ledger, \A r \in late' : Posted(r)
    PROVE  Handles
BY DEF Handles

LEMMA AcceptHandles ==
    ASSUME CallInv, NEW r \in Request, Posted(r), Accept(r), late' \subseteq late
    PROVE  Handles
<1>1. PICK e \in Entry : /\ ledger' = [ledger EXCEPT ![r.key] = e]
                         /\ e.kind = r.kind /\ e.cost = r.cost
  BY AcceptWrites
<1>2. \A j \in Keys : ledger'[j] = IF j = r.key THEN e ELSE ledger[j]
  BY <1>1 DEF CallInv, DataOK
<1>3. \A q \in late' : Posted(q)
  BY DEF Posted
<1> QED
  BY <1>1, <1>2, <1>3 DEF Handles

LEMMA LimitMoves ==
    ASSUME ClientInv, Handles, NEW c \in Callers, call'[c] = call[c]
    PROVE  LimitOK(c)'
<1> SUFFICES ASSUME Owns(c), NEW k \in KeysOf(c)
             PROVE  /\ ledger'[k] # Nothing => ledger'[k].cost <= call[c].cost
                    /\ \A r \in late' : r.key = k => r.cost <= call[c].cost
  BY DEF LimitOK, Owns, KeysOf
<1>1. k \in Keys
  BY KeysOfTyped DEF ClientInv
<1>2. LimitOK(c)
  BY DEF ClientInv, MapInv
<1>3. \A r : Posted(r) /\ r.key = k => r.cost <= call[c].cost
  BY PostedWithin
<1>4. ledger'[k] # Nothing => ledger'[k].cost <= call[c].cost
  BY <1>1, <1>2, <1>3 DEF LimitOK, Handles
<1> QED
  BY <1>3, <1>4 DEF Handles

\* A step of a call that posts nothing new.
LEMMA CallMap ==
    ASSUME ClientInv, NEW c \in Callers, UNCHANGED call, Handles,
           call[c].kind # "none", pc'[c] # "idle",
           \A d \in Callers \ {c} : pc'[d] = pc[d] /\ charged'[d] = charged[d]
    PROVE  MapInv'
<1>1. \A d \in Callers : LimitOK(d)'
  BY LimitMoves
<1>2. ASSUME NEW d \in Callers PROVE RestOK(d)'
  <2>1. RestOK(d)
    BY DEF ClientInv, MapInv
  <2> QED
    BY <2>1 DEF RestOK, NoCall
<1> QED
  BY <1>1, <1>2 DEF MapInv

LEMMA RequestPosted ==
    ASSUME CallInv, NEW c \in Callers, pc[c] = "posting"
    PROVE  /\ RequestOf(c) \in Request /\ Posted(RequestOf(c))
           /\ RequestOf(c).key = LastKey(c)
           /\ LastKey(c) \in KeysOf(c) /\ LastKey(c) \in Keys
           /\ call[c].kind # "none" /\ PhaseOf(c) = "open"
<1>1. RequestOf(c) \in Request
  BY KeyTyped DEF Busy
<1>2. /\ LastKey(c) \in KeysOf(c) /\ LastKey(c) \in Keys
      /\ call[c].kind # "none"
  BY LastKeyOf DEF Busy
<1> QED
  BY <1>1, <1>2 DEF Posted, RequestOf, PhaseOf

LEMMA AnsweredHandles ==
    ASSUME CallInv, NEW c \in Callers, pc[c] = "posting", Answered(RequestOf(c)),
           UNCHANGED late
    PROVE  Handles
<1>1. RequestOf(c) \in Request /\ Posted(RequestOf(c))
  BY RequestPosted
<1>2. CASE Accept(RequestOf(c))
  BY <1>1, <1>2, AcceptHandles
<1>3. CASE UNCHANGED ledger
  BY <1>3, StillHandles DEF Posted
<1> QED
  BY <1>2, <1>3 DEF Answered

LEMMA AnsweredBooks ==
    ASSUME ClientInv, NEW c \in Callers, pc[c] = "posting", Answered(RequestOf(c))
    PROVE  Paid!BookedBy(c)
<1>1. /\ RequestOf(c) \in Request /\ Posted(RequestOf(c))
      /\ RequestOf(c).key = LastKey(c) /\ LastKey(c) \in KeysOf(c)
  BY RequestPosted DEF ClientInv
<1>2. CASE Accept(RequestOf(c))
  <2>1. PICK k \in KeysOf(c) : k = RequestOf(c).key
    BY <1>1
  <2>2. Paid!Book(k)
    BY <1>1, <1>2, <2>1, AcceptBooks
  <2> QED
    BY <2>2 DEF Paid!BookedBy
<1>3. CASE UNCHANGED ledger
  BY <1>3, BooksKept DEF Paid!BookedBy, Paid!bookVars
<1> QED
  BY <1>2, <1>3 DEF Answered

-----------------------------------------------------------------------------
\* The end of a call, as the abstract specification has it.
LEMMA GiveUpStep ==
    ASSUME CallInv, NEW c \in Callers, UNCHANGED <<call, charged>>, Paid!BookedBy(c),
           PhaseOf(c) = "open", PhaseOf(c)' = "unsure",
           \A d \in Callers \ {c} : pc'[d] = pc[d] /\ error'[d] = error[d]
    PROVE  Paid!GiveUp(c)
<1>1. [d \in Callers |-> PhaseOf(d)]' = [[d \in Callers |-> PhaseOf(d)] EXCEPT ![c] = "unsure"]
  BY PhaseMoves
<1> QED
  BY <1>1, CallKept DEF Paid!GiveUp

LEMMA RefuseStep ==
    ASSUME CallInv, NEW c \in Callers, UNCHANGED <<call, charged, ledger>>,
           Owns(c) => \A k \in KeysOf(c) : Fresh(k),
           PhaseOf(c) = "open", PhaseOf(c)' = "refused",
           \A d \in Callers \ {c} : pc'[d] = pc[d] /\ error'[d] = error[d]
    PROVE  Paid!Refuse(c)
<1>1. [d \in Callers |-> PhaseOf(d)]' = [[d \in Callers |-> PhaseOf(d)] EXCEPT ![c] = "refused"]
  BY PhaseMoves
<1>2. Owns(c) => \A k \in KeysOf(c) : k \in Keys /\ BookedAs(k) = "free"
  BY KeysOfTyped DEF Fresh, BookedAs, Nothing
<1> QED
  BY <1>1, <1>2, CallKept, BooksKept DEF Paid!Refuse, Paid!Free, Paid!bookVars, Owns

LEMMA TellStep ==
    ASSUME CallInv, NEW c \in Callers, UNCHANGED call, Paid!BookedBy(c),
           PhaseOf(c) = "open", PhaseOf(c)' = "told",
           NEW k \in KeysOf(c), BookedAs(k)' = "final",
           charged' = [charged EXCEPT ![c] = ledger'[k].charged],
           \A d \in Callers \ {c} : pc'[d] = pc[d] /\ error'[d] = error[d]
    PROVE  Paid!Tell(c)
<1>1. [d \in Callers |-> PhaseOf(d)]' = [[d \in Callers |-> PhaseOf(d)] EXCEPT ![c] = "told"]
  BY PhaseMoves
<1>2. k \in Keys
  BY KeysOfTyped
<1> QED
  BY <1>1, <1>2, CallKept DEF Paid!Tell

LEMMA GoOnStep ==
    ASSUME CallInv, NEW c \in Callers, NEW k \in Keys, NEW price \in Prices \cup {0},
           UNCHANGED <<charged, ledger>>, PhaseOf(c) = "open",
           UNCHANGED [d \in Callers |-> PhaseOf(d)],
           Owns(c) => Fresh(k) /\ \A j \in KeysOf(c) : Fresh(j),
           Owns(c) => \A d \in Callers \ {c} : k \notin KeysOf(d),
           \A d \in Callers \ {c} : call'[d] = call[d],
           call'[c].kind = call[c].kind, call'[c].chosen = call[c].chosen,
           call'[c].cost = price, KeysOf(c)' = KeysOf(c) \cup {k}
    PROVE  Paid!GoOn(c)
<1>1. Owns(c) => \A j \in KeysOf(c) \cup {k} : j \in Keys /\ BookedAs(j) = "free"
  BY KeysOfTyped DEF Fresh, BookedAs, Nothing
<1>2. \A d \in Callers \ {c} : KeysOf(d)' = KeysOf(d)
  BY DEF KeysOf
<1>3. [d \in Callers |-> KeysOf(d)]'
        = [[d \in Callers |-> KeysOf(d)] EXCEPT ![c] = KeysOf(c) \cup {k}]
  BY <1>2
<1>4. [d \in Callers |-> call[d].cost]'
        = [[d \in Callers |-> call[d].cost] EXCEPT ![c] = price]
  OBVIOUS
<1>5. UNCHANGED [d \in Callers |-> call[d].kind # "none" /\ call[d].chosen = NoKey]
  OBVIOUS
<1>6. [d \in Callers |-> call[d].kind # "none" /\ call[d].chosen = NoKey][c] => Owns(c)
  BY DEF Owns
<1>7. Owns(c) => \A j \in KeysOf(c) \cup {k} : Paid!Free(j)
  BY <1>1 DEF Paid!Free
<1>8. Owns(c) => \A d \in Callers \ {c} : k \notin [e \in Callers |-> KeysOf(e)][d]
  OBVIOUS
<1>9. UNCHANGED <<[j \in Keys |-> BookedAs(j)], [j \in Keys |-> ledger[j].charged]>>
  BY BooksKept
<1> QED
  BY ONLY c \in Callers, k \in Keys, price \in Prices \cup {0}, UNCHANGED charged,
          PhaseOf(c) = "open", UNCHANGED [d \in Callers |-> PhaseOf(d)],
          <1>3, <1>4, <1>5, <1>6, <1>7, <1>8, <1>9
     DEF Paid!GoOn, Paid!bookVars

LEMMA OpenStep ==
    ASSUME NEW c \in Callers, NEW k \in Keys, NEW price \in Prices, NEW chosen,
           UNCHANGED <<charged, ledger>>, PhaseOf(c) = "none",
           [d \in Callers |-> PhaseOf(d)]' = [[d \in Callers |-> PhaseOf(d)] EXCEPT ![c] = "open"],
           chosen = NoKey => Fresh(k) /\ \A d \in Callers : k \notin KeysOf(d),
           chosen # NoKey => \A d \in Callers : k \in KeysOf(d) => ~Owns(d),
           \A d \in Callers \ {c} : call'[d] = call[d] /\ KeysOf(d)' = KeysOf(d),
           call'[c].kind # "none", call'[c].chosen = chosen,
           call'[c].cost = price, KeysOf(c)' = {k}
    PROVE  Paid!Open(c)
<1>1. [d \in Callers |-> KeysOf(d)]' = [[d \in Callers |-> KeysOf(d)] EXCEPT ![c] = {k}]
  OBVIOUS
<1>2. [d \in Callers |-> call[d].cost]'
        = [[d \in Callers |-> call[d].cost] EXCEPT ![c] = price]
  OBVIOUS
<1>3. UNCHANGED <<charged, Paid!bookVars>>
  BY BooksKept DEF Paid!bookVars
<1>4. CASE chosen = NoKey
  <2>1. [d \in Callers |-> call[d].kind # "none" /\ call[d].chosen = NoKey]'
          = [[d \in Callers |-> call[d].kind # "none" /\ call[d].chosen = NoKey]
                EXCEPT ![c] = TRUE]
    BY <1>4
  <2>2. Paid!Free(k) /\ \A d \in Callers : k \notin [e \in Callers |-> KeysOf(e)][d]
    BY <1>4 DEF Paid!Free, Fresh, BookedAs, Nothing
  <2> QED
    BY ONLY c \in Callers, k \in Keys, price \in Prices, PhaseOf(c) = "none",
            [d \in Callers |-> PhaseOf(d)]'
               = [[d \in Callers |-> PhaseOf(d)] EXCEPT ![c] = "open"],
            <1>1, <1>2, <1>3, <2>1, <2>2
       DEF Paid!Open
<1>5. CASE chosen # NoKey
  <2>1. [d \in Callers |-> call[d].kind # "none" /\ call[d].chosen = NoKey]'
          = [[d \in Callers |-> call[d].kind # "none" /\ call[d].chosen = NoKey]
                EXCEPT ![c] = FALSE]
    BY <1>5
  <2>2. \A d \in Callers : k \in [e \in Callers |-> KeysOf(e)][d] =>
           ~[e \in Callers |-> call[e].kind # "none" /\ call[e].chosen = NoKey][d]
    BY <1>5 DEF Owns
  <2> QED
    BY ONLY c \in Callers, k \in Keys, price \in Prices, PhaseOf(c) = "none",
            [d \in Callers |-> PhaseOf(d)]'
               = [[d \in Callers |-> PhaseOf(d)] EXCEPT ![c] = "open"],
            <1>1, <1>2, <1>3, <2>1, <2>2
       DEF Paid!Open
<1> QED
  BY <1>4, <1>5

LEMMA CloseStep ==
    ASSUME NEW c \in Callers, UNCHANGED ledger,
           PhaseOf(c) \in {"told", "refused", "unsure"},
           [d \in Callers |-> PhaseOf(d)]' = [[d \in Callers |-> PhaseOf(d)] EXCEPT ![c] = "none"],
           charged' = [charged EXCEPT ![c] = 0],
           \A d \in Callers \ {c} : call'[d] = call[d],
           KeysOf(c)' = {}, ~Owns(c)', call'[c].cost = 0
    PROVE  Paid!Close(c)
<1>1. \A d \in Callers \ {c} : KeysOf(d)' = KeysOf(d)
  BY DEF KeysOf
<1>2. [d \in Callers |-> KeysOf(d)]' = [[d \in Callers |-> KeysOf(d)] EXCEPT ![c] = {}]
  BY <1>1
<1>3. [d \in Callers |-> call[d].cost]' = [[d \in Callers |-> call[d].cost] EXCEPT ![c] = 0]
  OBVIOUS
<1>4. [d \in Callers |-> call[d].kind # "none" /\ call[d].chosen = NoKey]'
        = [[d \in Callers |-> call[d].kind # "none" /\ call[d].chosen = NoKey]
              EXCEPT ![c] = FALSE]
  BY DEF Owns
<1>5. UNCHANGED <<[j \in Keys |-> BookedAs(j)], [j \in Keys |-> ledger[j].charged]>>
  BY BooksKept
<1> QED
  BY <1>2, <1>3, <1>4, <1>5 DEF Paid!Close, Paid!bookVars

\* A step that the abstract specification does not see.
LEMMA Unseen ==
    ASSUME CallInv, UNCHANGED <<call, charged>>,
           \A d \in Callers : PhaseOf(d)' = PhaseOf(d),
           \A k \in Keys : BookedAs(k)' = BookedAs(k) /\ ledger'[k].charged = ledger[k].charged
    PROVE  UNCHANGED Paid!vars
BY CallKept DEF Paid!vars, Paid!callVars, Paid!bookVars
-----------------------------------------------------------------------------
\* The steps of a call.
AbstractStep == Paid!Next \/ UNCHANGED Paid!vars

LEMMA CallerStep ==
    ASSUME NEW c \in Callers,
           \/ Paid!Open(c) \/ Paid!GoOn(c) \/ Paid!Tell(c)
           \/ Paid!Refuse(c) \/ Paid!GiveUp(c) \/ Paid!Close(c)
    PROVE  AbstractStep
BY DEF AbstractStep, Paid!Next

LEMMA OtherErrorsUnsure ==
    /\ \A default : ErrorOf([http |-> 401, code |-> "OTHER"], default) \notin NotTaken
    /\ \A default : ErrorOf([http |-> 500, code |-> "OTHER"], default) = default
    /\ ErrorOf(ServerError, "InvokeError") \notin NotTaken
    /\ "InvokeError" \notin NotTaken /\ "TransportError" \notin NotTaken
    /\ "TimeoutError" \notin NotTaken /\ "ValueError" \notin NotTaken
BY DEF ErrorOf, ServerError, NotTaken

\* The phase in which a call ends, and the callers that stand by.
LEMMA RaisedPhase ==
    ASSUME CallInv, NEW c \in Callers, NEW exception, Raise(c, exception),
           UNCHANGED call, call[c].kind # "none"
    PROVE  /\ PhaseOf(c)' = IF exception \in NotTaken THEN "refused" ELSE "unsure"
           /\ pc'[c] # "idle" /\ UNCHANGED charged
           /\ \A d \in Callers \ {c} : pc'[d] = pc[d] /\ error'[d] = error[d]
<1>1. /\ pc'[c] = "raised" /\ error'[c] = exception
      /\ \A d \in Callers \ {c} : pc'[d] = pc[d] /\ error'[d] = error[d]
  BY DEF Raise, CallInv, DataOK
<1> QED
  BY <1>1 DEF PhaseOf, Raise

LEMMA PostAnsweredMaps ==
    ASSUME ClientInv, NEW c \in Callers, PostAnswered(c)
    PROVE  AbstractStep
<1>1. /\ pc[c] = "posting" /\ UNCHANGED <<call, late>> /\ Answered(RequestOf(c))
      /\ UNCHANGED error
  BY DEF PostAnswered, Return, Goto
<1>2. /\ LastKey(c) \in KeysOf(c) /\ LastKey(c) \in Keys
      /\ call[c].kind # "none" /\ PhaseOf(c) = "open"
  BY <1>1, RequestPosted DEF ClientInv
<1>3. pc \in [Callers -> Places]
  BY DEF ClientInv, CallInv
<1>4. CASE IsFinal(ledger'[LastKey(c)].status) /\ Return(c, ledger'[LastKey(c)].charged)
  <2>1. pc' = [pc EXCEPT ![c] = "returned"]
    BY <1>4 DEF Return
  <2>2. PhaseOf(c)' = "told" /\ \A d \in Callers \ {c} : pc'[d] = pc[d] /\ error'[d] = error[d]
    BY <1>1, <1>2, <1>3, <2>1 DEF PhaseOf
  <2>3. PICK k \in KeysOf(c) : k = LastKey(c)
    BY <1>2
  <2>4. BookedAs(k)' = "final"
    BY <1>4, <2>3 DEF BookedAs, IsFinal, TERMINAL_STATUSES
  <2>5. charged' = [charged EXCEPT ![c] = ledger'[k].charged]
    BY <1>4, <2>3 DEF Return
  <2>6. Paid!BookedBy(c)
    BY <1>1, AnsweredBooks
  <2>7. Paid!Tell(c)
    BY <1>1, <1>2, <2>2, <2>4, <2>5, <2>6, TellStep DEF ClientInv
  <2> QED
    BY <2>7, CallerStep
<1>5. CASE Goto(c, "polling")
  <2>1. UNCHANGED <<call, charged>> /\ pc' = [pc EXCEPT ![c] = "polling"]
    BY <1>1, <1>5 DEF Goto
  <2>2. \A d \in Callers : PhaseOf(d)' = PhaseOf(d)
    BY <1>1, <1>2, <1>3, <2>1 DEF PhaseOf
  <2>3. CASE UNCHANGED ledger
    <3>1. UNCHANGED Paid!vars
      BY <2>1, <2>2, <2>3, Unseen DEF ClientInv, BookedAs
    <3> QED
      BY <3>1 DEF AbstractStep
  <2>4. CASE Accept(RequestOf(c))
    <3>1. /\ RequestOf(c) \in Request /\ Posted(RequestOf(c))
          /\ RequestOf(c).key = LastKey(c)
      BY <1>1, RequestPosted DEF ClientInv
    <3>2. PICK k \in Keys : k = RequestOf(c).key
      BY <1>2, <3>1
    <3>3. Paid!Book(k)
      BY <2>4, <3>1, <3>2, AcceptBooks
    <3>4. UNCHANGED Paid!callVars
      BY <2>1, <2>2, CallKept DEF Paid!callVars
    <3>5. Paid!BookAlone(k)
      BY <3>3, <3>4 DEF Paid!BookAlone
    <3> QED
      BY <3>5 DEF AbstractStep, Paid!Next
  <2> QED
    BY <1>1, <2>3, <2>4 DEF Answered
<1> QED
  BY <1>4, <1>5 DEF PostAnswered

\* A call that ends without an answer, whatever became of its request.
LEMMA UnsureMaps ==
    ASSUME CallInv, NEW c \in Callers, NEW exception, Raise(c, exception),
           exception \notin NotTaken, UNCHANGED call, Paid!BookedBy(c), pc[c] \in Busy
    PROVE  AbstractStep
<1>1. call[c].kind # "none" /\ PhaseOf(c) = "open"
  BY LastKeyOf DEF PhaseOf, Busy
<1>2. Paid!GiveUp(c)
  BY <1>1, RaisedPhase, GiveUpStep
<1> QED
  BY <1>2, CallerStep

\* A call that is told it was not taken.
LEMMA RefusedMaps ==
    ASSUME ClientInv, NEW c \in Callers, NEW exception, Raise(c, exception),
           exception \in NotTaken, UNCHANGED <<call, ledger>>,
           pc[c] \in {"posting", "searching"}
    PROVE  AbstractStep
<1>1. call[c].kind # "none" /\ PhaseOf(c) = "open"
  BY LastKeyOf DEF PhaseOf, Busy, ClientInv
<1>2. Owns(c) => \A k \in KeysOf(c) : Fresh(k)
  BY OwnedFresh
<1>3. Paid!Refuse(c)
  BY <1>1, <1>2, RaisedPhase, RefuseStep DEF ClientInv
<1> QED
  BY <1>3, CallerStep

LEMMA StillBookedBy == ASSUME UNCHANGED ledger, NEW c PROVE Paid!BookedBy(c)
BY BooksKept DEF Paid!BookedBy, Paid!bookVars

LEMMA PostUnreadableMaps ==
    ASSUME ClientInv, NEW c \in Callers, PostUnreadable(c)
    PROVE  AbstractStep
<1>1. Paid!BookedBy(c)
  BY AnsweredBooks DEF PostUnreadable
<1> QED
  BY <1>1, UnsureMaps, OtherErrorsUnsure DEF PostUnreadable, ClientInv, Busy

\* A step of a call that goes on, its keys and the books as they were.
LEMMA GoesOnUnseen ==
    ASSUME CallInv, NEW c \in Callers, NEW where \in Busy, Goto(c, where), pc[c] \in Busy,
           UNCHANGED <<call, ledger>>
    PROVE  AbstractStep
<1>1. UNCHANGED <<charged, error>> /\ pc' = [pc EXCEPT ![c] = where]
  BY DEF Goto
<1>2. call[c].kind # "none"
  BY LastKeyOf
<1>3. \A d \in Callers : PhaseOf(d)' = PhaseOf(d)
  BY <1>1, <1>2 DEF PhaseOf, Busy, CallInv
<1>4. UNCHANGED Paid!vars
  BY <1>1, <1>3, Unseen DEF BookedAs
<1> QED
  BY <1>4 DEF AbstractStep

LEMMA PostRefusedMaps ==
    ASSUME ClientInv, NEW c \in Callers, PostRefused(c)
    PROVE  AbstractStep
<1>1. pc[c] = "posting" /\ UNCHANGED <<call, ledger>>
  BY DEF PostRefused, gatewayVars
<1>2. PICK response \in Refusals :
        Goto(c, "searching") \/ Raise(c, ErrorOf(response, "InvokeError"))
  BY DEF PostRefused
<1>3. CASE Goto(c, "searching")
  BY <1>1, <1>3, GoesOnUnseen DEF Busy, ClientInv
<1>4. ASSUME NEW exception, exception = ErrorOf(response, "InvokeError"), Raise(c, exception)
      PROVE  AbstractStep
  <2>1. CASE exception \in NotTaken
    BY <1>1, <1>4, <2>1, RefusedMaps
  <2>2. CASE exception \notin NotTaken
    <3>1. Paid!BookedBy(c)
      BY <1>1, StillBookedBy
    <3> QED
      BY <1>1, <1>4, <2>2, <3>1, UnsureMaps DEF Busy, ClientInv
  <2> QED
    BY <2>1, <2>2
<1> QED
  BY <1>2, <1>3, <1>4

LEMMA PostLostMaps ==
    ASSUME ClientInv, NEW c \in Callers, PostLost(c)
    PROVE  AbstractStep
<1>1. pc[c] = "posting" /\ UNCHANGED call
      /\ (Answered(RequestOf(c)) \/ UNCHANGED ledger)
  BY DEF PostLost
<1>2. PICK exception \in {"TransportError", ErrorOf(ServerError, "InvokeError")} :
        Raise(c, exception)
  BY DEF PostLost
<1>3. Paid!BookedBy(c)
  BY <1>1, AnsweredBooks, StillBookedBy
<1>4. exception \notin NotTaken
  BY OtherErrorsUnsure
<1> QED
  BY <1>1, <1>2, <1>3, <1>4, UnsureMaps DEF Busy, ClientInv

LEMMA PollMaps ==
    ASSUME ClientInv, NEW c \in Callers, Poll(c)
    PROVE  AbstractStep
<1>1. pc[c] = "polling" /\ UNCHANGED <<call, ledger>>
  BY DEF Poll, gatewayVars
<1>2. Paid!BookedBy(c)
  BY <1>1, StillBookedBy
<1>3. PICK status \in {ledger[LastKey(c)].status, "PENDING"} :
        \/ IsFinal(status) /\ Return(c, ledger[LastKey(c)].charged)
        \/ Raise(c, "TimeoutError")
        \/ Goto(c, "sleeping")
  BY DEF Poll
<1>4. CASE IsFinal(status) /\ Return(c, ledger[LastKey(c)].charged)
  <2>1. pc' = [pc EXCEPT ![c] = "returned"] /\ UNCHANGED error
    BY <1>4 DEF Return
  <2>2. /\ LastKey(c) \in KeysOf(c) /\ call[c].kind # "none" /\ PhaseOf(c) = "open"
    BY <1>1, LastKeyOf DEF PhaseOf, Busy, ClientInv
  <2>3. PhaseOf(c)' = "told" /\ \A d \in Callers \ {c} : pc'[d] = pc[d] /\ error'[d] = error[d]
    BY <1>1, <2>1, <2>2 DEF PhaseOf, ClientInv, CallInv
  <2>4. PICK k \in KeysOf(c) : k = LastKey(c)
    BY <2>2
  <2>5. BookedAs(k)' = "final"
    BY <1>1, <1>3, <1>4, <2>4 DEF BookedAs, IsFinal, TERMINAL_STATUSES
  <2>6. charged' = [charged EXCEPT ![c] = ledger'[k].charged]
    BY <1>1, <1>4, <2>4 DEF Return
  <2>7. Paid!Tell(c)
    BY <1>1, <1>2, <2>2, <2>3, <2>5, <2>6, TellStep DEF ClientInv
  <2> QED
    BY <2>7, CallerStep
<1>5. CASE Raise(c, "TimeoutError")
  BY <1>1, <1>2, <1>5, UnsureMaps, OtherErrorsUnsure DEF Busy, ClientInv
<1>6. CASE Goto(c, "sleeping")
  BY <1>1, <1>6, GoesOnUnseen DEF Busy, ClientInv
<1> QED
  BY <1>3, <1>4, <1>5, <1>6

LEMMA PollFailedMaps ==
    ASSUME ClientInv, NEW c \in Callers, PollFailed(c)
    PROVE  AbstractStep
<1>1. pc[c] = "polling" /\ UNCHANGED <<call, ledger>>
  BY DEF PollFailed, gatewayVars
<1>2. Paid!BookedBy(c)
  BY <1>1, StillBookedBy
<1>3. PICK exception : exception \notin NotTaken /\ Raise(c, exception)
  BY OtherErrorsUnsure DEF PollFailed
<1> QED
  BY <1>1, <1>2, <1>3, UnsureMaps DEF Busy, ClientInv

LEMMA SleepMaps == ASSUME ClientInv, NEW c \in Callers, Sleep(c) PROVE AbstractStep
BY GoesOnUnseen DEF Sleep, Busy, ClientInv, gatewayVars

LEMMA SearchFailedMaps ==
    ASSUME ClientInv, NEW c \in Callers, SearchFailed(c)
    PROVE  AbstractStep
<1>1. pc[c] = "searching" /\ UNCHANGED <<call, ledger>>
  BY DEF SearchFailed, gatewayVars
<1>2. Paid!BookedBy(c)
  BY <1>1, StillBookedBy
<1>3. PICK exception : Raise(c, exception)
  BY DEF SearchFailed
<1>4. CASE exception \in NotTaken
  BY <1>1, <1>3, <1>4, RefusedMaps
<1>5. CASE exception \notin NotTaken
  BY <1>1, <1>2, <1>3, <1>5, UnsureMaps DEF Busy, ClientInv
<1> QED
  BY <1>4, <1>5

LEMMA SearchMaps ==
    ASSUME ClientInv, NEW c \in Callers, Search(c)
    PROVE  AbstractStep
<1>1. pc[c] = "searching" /\ UNCHANGED ledger
  BY DEF Search, gatewayVars
<1>2. PICK price \in {livePrice, fallback[c], 0} :
        \/ Reinvoke(c, price)
        \/ Raise(c, "PriceMismatchError") /\ UNCHANGED <<call, invokes>>
  BY DEF Search
<1>3. CASE Raise(c, "PriceMismatchError") /\ UNCHANGED <<call, invokes>>
  BY <1>1, <1>3, RefusedMaps DEF NotTaken
<1>4. CASE Reinvoke(c, price)
  <2> DEFINE new == InvocationKey(c, call[c].chosen)
  <2>1. /\ call' = [call EXCEPT ![c].keys = Append(@, new), ![c].cost = price]
        /\ pc' = [pc EXCEPT ![c] = "posting"] /\ UNCHANGED <<charged, error>>
    BY <1>4 DEF Reinvoke, Goto
  <2>2. /\ call[c] \in Call /\ call[c].kind # "none" /\ call[c].keys \in Seq(Keys)
        /\ PhaseOf(c) = "open" /\ invokes[c] \in 0..MaxInvokes
    BY <1>1, LastKeyOf DEF ClientInv, CallInv, DataOK, Busy, Call, PhaseOf
  <2>3. PICK k \in Keys : k = new
    BY <2>2 DEF Call, InvocationKey, Keys, AutoKeys
  <2> HIDE DEF new
  <2>4. /\ call'[c].keys = Append(call[c].keys, k) /\ call'[c].cost = price
        /\ call'[c].chosen = call[c].chosen /\ call'[c].kind = call[c].kind
        /\ \A d \in Callers \ {c} : call'[d] = call[d]
    BY <2>1, <2>2, <2>3 DEF ClientInv, CallInv, DataOK, Call
  <2>5. KeysOf(c)' = KeysOf(c) \cup {k}
    <3>1. /\ Len(Append(call[c].keys, k)) = Len(call[c].keys) + 1
          /\ \A i \in 1..Len(call[c].keys) : Append(call[c].keys, k)[i] = call[c].keys[i]
          /\ Append(call[c].keys, k)[Len(call[c].keys) + 1] = k
          /\ Len(call[c].keys) \in Nat
      BY <2>2, AppendProperties
    <3> QED
      BY <2>4, <3>1 DEF KeysOf
  <2>6. Owns(c) => Fresh(k)
    BY <2>2, <2>3 DEF Owns, new, InvocationKey, ClientInv, ChargeInv, LedgerOK
  <2>7. Owns(c) => \A d \in Callers \ {c} : k \notin KeysOf(d)
    BY <2>2, <2>3, AutoApart DEF Owns, new, InvocationKey, ClientInv
  <2>8. PhaseOf(c)' = "open"
    BY <2>1, <2>2, <2>4 DEF PhaseOf, ClientInv, CallInv
  <2>9. [d \in Callers |-> PhaseOf(d)]' = [d \in Callers |-> PhaseOf(d)]
    BY <2>1, <2>2, <2>4, <2>8 DEF PhaseOf, ClientInv, CallInv
  <2>10. price \in Prices \cup {0}
    BY DEF ClientInv, CallInv, DataOK
  <2>11. Owns(c) => \A j \in KeysOf(c) : Fresh(j)
    BY <1>1, OwnedFresh
  <2>12. UNCHANGED charged
    BY <2>1
  <2>13. Paid!GoOn(c)
    BY ONLY <1>1, <2>2, <2>4, <2>5, <2>6, <2>7, <2>9, <2>10, <2>11, <2>12, GoOnStep,
            ClientInv DEF ClientInv
  <2> QED
    BY <2>13, CallerStep
<1> QED
  BY <1>2, <1>3, <1>4
-----------------------------------------------------------------------------
\* The steps of a caller at rest, and of the gateway.
LEMMA StartCallMaps ==
    ASSUME ClientInv, NEW c \in Callers, NEW kind \in Kinds,
           NEW chosen \in CallerKeys \cup {NoKey}, NEW price \in Prices,
           NEW limit, StartCall(c, kind, chosen, price, limit)
    PROVE  AbstractStep
<1> DEFINE first == InvocationKey(c, chosen)
           new == [kind |-> kind, chosen |-> chosen, cost |-> price, keys |-> <<first>>,
                   retries |-> limit]
<1>1. /\ call' = [call EXCEPT ![c] = new] /\ pc' = [pc EXCEPT ![c] = "posting"]
      /\ UNCHANGED <<charged, error, ledger>> /\ pc[c] = "idle"
  BY DEF StartCall, Goto, gatewayVars
<1>2. call[c] = NoCall /\ call[c].kind = "none" /\ invokes[c] \in 0..MaxInvokes
  BY <1>1 DEF ClientInv, MapInv, RestOK, NoCall, CallInv, DataOK
<1>3. PICK k \in Keys : k = first
  BY <1>2 DEF InvocationKey, Keys, AutoKeys
<1> HIDE DEF first
<1>4. /\ call'[c].keys = <<k>> /\ call'[c].chosen = chosen
      /\ call'[c].kind = kind /\ call'[c].cost = price
      /\ \A d \in Callers \ {c} : call'[d] = call[d]
  BY <1>1, <1>3 DEF ClientInv, CallInv, DataOK
<1> HIDE DEF new
<1>5. KeysOf(c)' = {k} /\ \A d \in Callers \ {c} : KeysOf(d)' = KeysOf(d)
  BY <1>4 DEF KeysOf
<1>6. PhaseOf(c) = "none" /\ PhaseOf(c)' = "open"
  BY <1>1, <1>2, <1>4 DEF PhaseOf, Kinds, ClientInv, CallInv
<1>7. [d \in Callers |-> PhaseOf(d)]' = [[d \in Callers |-> PhaseOf(d)] EXCEPT ![c] = "open"]
  BY <1>1, <1>4, <1>6, PhaseMoves DEF ClientInv, CallInv
<1>8. KeysOf(c) = {} /\ ~Owns(c)
  BY <1>2 DEF KeysOf, NoCall, Owns
<1>9. chosen = NoKey => Fresh(k) /\ \A d \in Callers : k \notin KeysOf(d)
  BY <1>2, <1>3, <1>8, AutoApart DEF first, InvocationKey, ClientInv, ChargeInv, LedgerOK
<1>10. chosen # NoKey => \A d \in Callers : k \in KeysOf(d) => ~Owns(d)
  BY <1>3, OwnedKeys DEF first, InvocationKey, ClientInv
<1>11. call'[c].kind # "none"
  BY <1>4 DEF Kinds
<1>12. Paid!Open(c)
  BY ONLY c \in Callers, k \in Keys, price \in Prices, <1>1, <1>4, <1>5, <1>6, <1>7, <1>9,
          <1>10, <1>11, OpenStep
<1> QED
  BY <1>12, CallerStep

\* A caller without a call leaves no trace.
LEMMA RejectArgumentsMaps ==
    ASSUME ClientInv, NEW c \in Callers, NEW exception, RejectArguments(c, exception)
    PROVE  AbstractStep
<1>1. /\ pc[c] = "idle" /\ UNCHANGED <<call, charged, ledger>>
      /\ pc' = [pc EXCEPT ![c] = "raised"] /\ error' = [error EXCEPT ![c] = exception]
  BY DEF RejectArguments, Raise, gatewayVars
<1>2. call[c].kind = "none"
  BY <1>1 DEF ClientInv, MapInv, RestOK
<1>3. \A d \in Callers : PhaseOf(d)' = PhaseOf(d)
  BY <1>1, <1>2 DEF PhaseOf, ClientInv, CallInv, DataOK
<1>4. UNCHANGED Paid!vars
  BY <1>1, <1>3, Unseen DEF BookedAs, ClientInv
<1> QED
  BY <1>4 DEF AbstractStep

LEMMA ForgetMaps ==
    ASSUME ClientInv, NEW c \in Callers, pc[c] \in {"returned", "adding", "raised"}, Forget(c)
    PROVE  AbstractStep
<1>1. /\ call' = [call EXCEPT ![c] = NoCall] /\ pc' = [pc EXCEPT ![c] = "idle"]
      /\ charged' = [charged EXCEPT ![c] = 0] /\ error' = [error EXCEPT ![c] = "none"]
      /\ UNCHANGED ledger
  BY DEF Forget, gatewayVars
<1>2. /\ call'[c] = NoCall /\ charged'[c] = 0
      /\ \A d \in Callers \ {c} : /\ call'[d] = call[d] /\ pc'[d] = pc[d]
                                  /\ charged'[d] = charged[d] /\ error'[d] = error[d]
  BY <1>1 DEF ClientInv, CallInv, DataOK
<1>3. PhaseOf(c)' = "none" /\ KeysOf(c)' = {} /\ ~Owns(c)' /\ call'[c].cost = 0
  BY <1>2 DEF PhaseOf, KeysOf, Owns, NoCall
<1>4. CASE call[c].kind = "none"
  <2>1. call[c] = NoCall /\ charged[c] = 0 /\ PhaseOf(c) = "none"
    BY <1>4 DEF ClientInv, MapInv, RestOK, PhaseOf
  <2>2. UNCHANGED <<call, charged>>
    BY <1>1, <2>1 DEF ClientInv, CallInv, DataOK
  <2>3. \A d \in Callers : PhaseOf(d)' = PhaseOf(d)
    BY <1>2, <1>3, <2>1 DEF PhaseOf
  <2>4. UNCHANGED Paid!vars
    BY <1>1, <2>2, <2>3, Unseen DEF BookedAs, ClientInv
  <2> QED
    BY <2>4 DEF AbstractStep
<1>5. CASE call[c].kind # "none"
  <2>1. PhaseOf(c) \in {"told", "refused", "unsure"}
    BY <1>1, <1>5 DEF PhaseOf
  <2>2. [d \in Callers |-> PhaseOf(d)]' = [[d \in Callers |-> PhaseOf(d)] EXCEPT ![c] = "none"]
    BY <1>2, <1>3, PhaseMoves DEF ClientInv
  <2>3. Paid!Close(c)
    BY ONLY c \in Callers, <1>1, <1>2, <1>3, <2>1, <2>2, CloseStep
  <2> QED
    BY <2>3, CallerStep
<1> QED
  BY <1>4, <1>5

\* While the callers stand still, only the books can move.
LEMMA CallersStill ==
    ASSUME UNCHANGED <<pc, call, error, charged>>
    PROVE  /\ \A d \in Callers : PhaseOf(d)' = PhaseOf(d)
           /\ UNCHANGED Paid!callVars
<1>1. \A d \in Callers : PhaseOf(d)' = PhaseOf(d)
  BY DEF PhaseOf
<1> QED
  BY <1>1, CallKept DEF Paid!callVars

LEMMA StillMaps ==
    ASSUME UNCHANGED <<pc, call, error, charged, ledger>>
    PROVE  AbstractStep
BY CallersStill, BooksKept DEF AbstractStep, Paid!vars, Paid!bookVars

LEMMA ResolveMaps == ASSUME ClientInv, NEW k \in Keys, Resolve(k) PROVE AbstractStep
<1>1. PICK s \in TERMINAL_STATUSES : \E amount \in Charges(ledger[k], s) :
        ledger' = [ledger EXCEPT ![k].status = s, ![k].charged = amount]
  BY DEF Resolve
<1>2. PICK amount \in Charges(ledger[k], s) :
        ledger' = [ledger EXCEPT ![k].status = s, ![k].charged = amount]
  BY <1>1
<1>3. ledger[k] \in Entry /\ ledger[k] # Nothing /\ ledger[k].status = "PENDING"
  BY DEF Resolve, Nothing, ClientInv, CallInv, DataOK
<1>4. ledger[k].cost \in Prices /\ ledger[k].cost \in Nat
  BY <1>3, ClientAssumption DEF Entry
<1>5. amount \in Prices \cup {0} /\ amount <= ledger[k].cost /\ amount \in Nat
  BY <1>4, ClientAssumption DEF Charges
<1>6. ASSUME NEW j \in Keys
      PROVE  /\ BookedAs(j)' = IF j = k THEN "final" ELSE BookedAs(j)
             /\ ledger'[j].charged = IF j = k THEN amount ELSE ledger[j].charged
  BY <1>2, <1>3 DEF ClientInv, CallInv, DataOK, BookedAs, TERMINAL_STATUSES, Entry
<1>7. /\ [j \in Keys |-> BookedAs(j)]' = [[j \in Keys |-> BookedAs(j)] EXCEPT ![k] = "final"]
      /\ [j \in Keys |-> ledger[j].charged]'
           = [[j \in Keys |-> ledger[j].charged] EXCEPT ![k] = amount]
      /\ BookedAs(k) = "taken"
  BY <1>3, <1>6 DEF BookedAs
<1>8. ASSUME NEW c \in Callers, Owns(c), k \in KeysOf(c)
      PROVE  /\ PhaseOf(c) # "refused"
             /\ amount <= call[c].cost
             /\ \A j \in KeysOf(c) \ {k} : Fresh(j)
  <2>1. ~Fresh(k) /\ ledger[k].cost <= call[c].cost
    BY <1>3, <1>8 DEF Fresh, ClientInv, MapInv, LimitOK
  <2>2. call[c].cost \in Nat
    BY CostTyped DEF ClientInv
  <2>3. amount <= call[c].cost
    BY ONLY <1>4, <1>5, <2>1, <2>2
  <2> QED
    BY <1>8, <2>1, <2>3, OwnedFresh
<1>9. Paid!Allowed(k, amount)
  BY <1>8, AllowedIf DEF ClientInv
<1>10. UNCHANGED Paid!callVars
  BY CallersStill DEF Resolve
<1>11. Paid!Finish(k)
  BY <1>5, <1>7, <1>9, <1>10 DEF Paid!Finish
<1> QED
  BY <1>11 DEF AbstractStep, Paid!Next

LEMMA SettleMaps == ASSUME ClientInv, NEW k \in Keys, Settle(k) PROVE AbstractStep
<1>1. ledger[k] \in Entry
  BY DEF Settle, Nothing, ClientInv, CallInv, DataOK
<1>2. \A j \in Keys : BookedAs(j)' = BookedAs(j) /\ ledger'[j].charged = ledger[j].charged
  BY <1>1 DEF Settle, BookedAs, ClientInv, CallInv, DataOK, Entry
<1>3. UNCHANGED Paid!vars
  BY <1>2, CallersStill, Unseen DEF Settle, ClientInv
<1> QED
  BY <1>3 DEF AbstractStep

LEMMA LateArrivalMaps == ASSUME ClientInv, NEW r \in late, LateArrival(r) PROVE AbstractStep
<1>1. r \in Request /\ r.key \in Keys /\ Posted(r)
  BY DEF ClientInv, CallInv, DataOK, Request, Posted
<1>2. CASE Accept(r)
  <2>1. PICK k \in Keys : k = r.key
    BY <1>1
  <2>2. Paid!Book(k)
    BY <1>1, <1>2, <2>1, AcceptBooks
  <2>3. UNCHANGED Paid!callVars
    BY CallersStill DEF LateArrival
  <2>4. Paid!BookAlone(k)
    BY <2>2, <2>3 DEF Paid!BookAlone
  <2> QED
    BY <2>4 DEF AbstractStep, Paid!Next
<1>3. CASE UNCHANGED ledger
  BY <1>3, StillMaps DEF LateArrival
<1> QED
  BY <1>2, <1>3 DEF LateArrival

LEMMA CallStepMaps == ASSUME ClientInv, NEW c \in Callers, CallStep(c) PROVE AbstractStep
BY PostAnsweredMaps, PostUnreadableMaps, PostRefusedMaps, PostLostMaps, PollMaps,
   PollFailedMaps, SleepMaps, SearchMaps, SearchFailedMaps DEF CallStep

LEMMA GatewayStepMaps == ASSUME ClientInv, GatewayStep PROVE AbstractStep
<1>1. ASSUME NEW p \in Prices, ChangePrice(p) PROVE AbstractStep
  BY <1>1, StillMaps DEF ChangePrice
<1> QED
  BY <1>1, ResolveMaps, SettleMaps, LateArrivalMaps DEF GatewayStep

\* Every step of the runtime is one of the abstract specification, or unseen.
LEMMA NextMaps == ASSUME ClientInv, [Next]_vars PROVE AbstractStep
<1>1. ASSUME NEW c \in Callers, Begin(c) PROVE AbstractStep
  <2>1. ASSUME NEW k \in EntryPoints, NEW chosen \in CallerKeys \cup {NoKey},
               NEW price \in Prices,
               NEW limit \in (IF k = "rediscovery" THEN RetryLimits ELSE {0}),
               StartCall(c, k, chosen, price, limit)
        PROVE  AbstractStep
    <3>1. k \in Kinds
      BY ClientAssumption
    <3> QED
      BY <2>1, <3>1, StartCallMaps
  <2> QED
    BY <1>1, <2>1, RejectArgumentsMaps DEF Begin
<1>2. CASE UNCHANGED vars
  BY <1>2, StillMaps DEF vars, gatewayVars
<1> QED
  BY <1>1, <1>2, CallStepMaps, ForgetMaps, GatewayStepMaps DEF Next, Consume
-----------------------------------------------------------------------------
\* MapInv is an invariant.  A call that is opened, or goes on under a further
\* key, posts fresh keys only.
LEMMA NewCallMap ==
    ASSUME ClientInv, ChargeInv', NEW c \in Callers, UNCHANGED <<ledger, late>>,
           pc'[c] = "posting", call'[c].kind # "none",
           \A d \in Callers \ {c} : /\ pc'[d] = pc[d] /\ call'[d] = call[d]
                                    /\ charged'[d] = charged[d]
    PROVE  MapInv'
<1>1. Handles
  BY StillHandles DEF Posted
<1>2. ASSUME NEW d \in Callers PROVE RestOK(d)'
  BY DEF ClientInv, MapInv, RestOK
<1>3. \A d \in Callers \ {c} : LimitOK(d)'
  BY <1>1, LimitMoves
<1>4. LimitOK(c)'
  <2> SUFFICES ASSUME Owns(c)', NEW k \in KeysOf(c)' PROVE Fresh(k)
    BY DEF LimitOK, Fresh
  <2>1. PICK i \in 1..Len(call'[c].keys) : k = call'[c].keys[i]
    BY DEF KeysOf
  <2>2. UnansweredOK(c)' /\ call'[c].chosen = NoKey
    BY DEF ChargeInv, CallerOK, Owns
  <2>3. Fresh(call'[c].keys[i])
    BY <2>2 DEF UnansweredOK, Fresh
  <2> QED
    BY <2>1, <2>3
<1> QED
  BY <1>2, <1>3, <1>4 DEF MapInv

LEMMA CallStepMap ==
    ASSUME ClientInv, ChargeInv', NEW c \in Callers, CallStep(c)
    PROVE  MapInv'
<1>1. pc[c] \in Busy /\ call[c].kind # "none"
  BY LastKeyOf DEF CallStep, PostAnswered, PostUnreadable, PostRefused, PostLost, Poll,
                   PollFailed, Sleep, Search, SearchFailed, Busy, ClientInv
<1>2. pc \in [Callers -> Places] /\ charged \in [Callers -> Prices \cup {0}]
  BY DEF ClientInv, CallInv, DataOK
<1>3. ASSUME \/ \E amount : Return(c, amount)
             \/ \E exception : Raise(c, exception)
             \/ Goto(c, "polling") \/ Goto(c, "sleeping") \/ Goto(c, "searching")
      PROVE  pc'[c] # "idle" /\ \A d \in Callers \ {c} : pc'[d] = pc[d] /\ charged'[d] = charged[d]
  BY <1>2, <1>3 DEF Return, Raise, Goto
<1>4. CASE PostAnswered(c)
  <2>1. pc[c] = "posting" /\ UNCHANGED <<call, late>> /\ Answered(RequestOf(c))
        /\ (Return(c, ledger'[LastKey(c)].charged) \/ Goto(c, "polling"))
    BY <1>4 DEF PostAnswered
  <2>2. Handles
    BY <2>1, AnsweredHandles DEF ClientInv
  <2> QED
    BY <1>1, <1>3, <2>1, <2>2, CallMap
<1>5. CASE PostUnreadable(c)
  <2>1. Handles
    BY <1>5, AnsweredHandles DEF PostUnreadable, ClientInv
  <2> QED
    BY <1>1, <1>3, <1>5, <2>1, CallMap DEF PostUnreadable
<1>6. CASE PostLost(c)
  <2>1. Handles
    <3>1. CASE Answered(RequestOf(c)) /\ UNCHANGED late
      BY <1>6, <3>1, AnsweredHandles DEF PostLost, ClientInv
    <3>2. CASE UNCHANGED <<ledger, late>>
      BY <3>2, StillHandles DEF Posted
    <3>3. CASE late' = late \cup {RequestOf(c)} /\ UNCHANGED ledger
      <4>1. \A r \in late' : Posted(r)
        BY <1>6, <3>3 DEF PostLost, Posted
      <4> QED
        BY <3>3, <4>1, StillHandles
    <3> QED
      BY <1>6, <3>1, <3>2, <3>3 DEF PostLost
  <2>2. UNCHANGED call /\ \E exception : Raise(c, exception)
    BY <1>6 DEF PostLost
  <2> QED
    BY <1>1, <1>3, <2>1, <2>2, CallMap
<1>7. ASSUME UNCHANGED <<call, ledger, late>>,
             \/ \E amount : Return(c, amount)
             \/ \E exception : Raise(c, exception)
             \/ Goto(c, "polling") \/ Goto(c, "sleeping") \/ Goto(c, "searching")
      PROVE  MapInv'
  <2>1. Handles
    BY <1>7, StillHandles DEF Posted
  <2> QED
    BY <1>1, <1>3, <1>7, <2>1, CallMap
<1>8. CASE PostRefused(c)
  <2>1. UNCHANGED <<call, ledger, late>>
        /\ (Goto(c, "searching") \/ \E exception : Raise(c, exception))
    BY <1>8 DEF PostRefused, gatewayVars
  <2> QED
    BY <1>7, <2>1
<1>9. CASE Poll(c) \/ PollFailed(c) \/ Sleep(c)
  BY <1>7, <1>9 DEF Poll, PollFailed, Sleep, gatewayVars
<1>10. CASE SearchFailed(c)
  BY <1>7, <1>10 DEF SearchFailed, gatewayVars
<1>11. CASE Search(c)
  <2>1. UNCHANGED <<ledger, late>>
    BY <1>11 DEF Search, gatewayVars
  <2>2. PICK price :
          \/ Reinvoke(c, price)
          \/ Raise(c, "PriceMismatchError") /\ UNCHANGED <<call, invokes>>
    BY <1>11 DEF Search
  <2>3. CASE Reinvoke(c, price)
    <3>1. /\ pc'[c] = "posting" /\ UNCHANGED charged
          /\ \A d \in Callers \ {c} : pc'[d] = pc[d] /\ call'[d] = call[d]
      BY <1>2, <2>3 DEF Reinvoke, Goto, ClientInv, CallInv, DataOK
    <3>2. call'[c].kind # "none"
      <4>1. call[c] \in Call /\ call \in [Callers -> Call \cup {NoCall}]
        BY <1>1, LastKeyOf DEF ClientInv, CallInv, DataOK
      <4>2. call'[c].kind = call[c].kind
        BY <2>3, <4>1 DEF Reinvoke, Call
      <4> QED
        BY <1>1, <4>2
    <3> QED
      BY <2>1, <3>1, <3>2, NewCallMap
  <2>4. CASE Raise(c, "PriceMismatchError") /\ UNCHANGED <<call, invokes>>
    BY <1>7, <2>1, <2>4
  <2> QED
    BY <2>2, <2>3, <2>4
<1> QED
  BY <1>4, <1>5, <1>6, <1>8, <1>9, <1>10, <1>11 DEF CallStep

LEMMA GatewayStepMap == ASSUME ClientInv, GatewayStep PROVE MapInv'
<1>1. UNCHANGED <<pc, call, charged>>
  BY DEF GatewayStep, Resolve, Settle, LateArrival, ChangePrice
<1>2. Handles
  <2>1. ASSUME NEW k \in Keys, Resolve(k) \/ Settle(k) PROVE Handles
    <3>1. \A j \in Keys : ledger'[j] # Nothing =>
            ledger[j] # Nothing /\ ledger'[j].cost = ledger[j].cost
      <4>1. ledger[k] \in Entry /\ ledger[k] # Nothing
        BY <2>1 DEF Resolve, Settle, Nothing, ClientInv, CallInv, DataOK
      <4>2. /\ \A j \in Keys \ {k} : ledger'[j] = ledger[j]
            /\ ledger'[k].cost = ledger[k].cost
        <5>1. ledger \in [Keys -> Entry \cup {Nothing}]
          BY DEF ClientInv, CallInv, DataOK
        <5>2. CASE Resolve(k)
          BY <4>1, <5>1, <5>2 DEF Resolve, Entry
        <5>3. CASE Settle(k)
          BY <4>1, <5>1, <5>3 DEF Settle, Entry
        <5> QED
          BY <2>1, <5>2, <5>3
      <4> QED
        BY <4>1, <4>2
    <3>2. UNCHANGED late
      BY <2>1 DEF Resolve, Settle
    <3> QED
      BY <3>1, <3>2 DEF Handles, Posted
  <2>2. ASSUME NEW r \in late, LateArrival(r) PROVE Handles
    <3>1. r \in Request /\ Posted(r) /\ late' \subseteq late
      BY <2>2 DEF ClientInv, CallInv, DataOK, Posted, LateArrival
    <3>2. CASE Accept(r)
      BY <3>1, <3>2, AcceptHandles DEF ClientInv
    <3>3. CASE UNCHANGED ledger
      BY <3>1, <3>3, StillHandles DEF Posted
    <3> QED
      BY <2>2, <3>2, <3>3 DEF LateArrival
  <2>3. ASSUME NEW p \in Prices, ChangePrice(p) PROVE Handles
    BY <2>3, StillHandles DEF ChangePrice, Posted
  <2> QED
    BY <2>1, <2>2, <2>3 DEF GatewayStep
<1>3. \A d \in Callers : LimitOK(d)'
  BY <1>1, <1>2, LimitMoves
<1> QED
  BY <1>1, <1>3 DEF ClientInv, MapInv, RestOK, NoCall

LEMMA StartCallMap ==
    ASSUME ClientInv, ChargeInv', NEW c \in Callers, NEW k \in Kinds, NEW chosen, NEW price,
           NEW limit, StartCall(c, k, chosen, price, limit)
    PROVE  MapInv'
<1>1. /\ UNCHANGED <<ledger, late, charged>>
      /\ call' = [call EXCEPT ![c] = [kind |-> k, chosen |-> chosen, cost |-> price,
                                      keys |-> <<InvocationKey(c, chosen)>>,
                                      retries |-> limit]]
      /\ pc' = [pc EXCEPT ![c] = "posting"]
  BY DEF StartCall, Goto, gatewayVars
<1>2. /\ pc'[c] = "posting" /\ call'[c].kind = k
      /\ \A d \in Callers \ {c} : pc'[d] = pc[d] /\ call'[d] = call[d]
  BY <1>1 DEF ClientInv, CallInv, DataOK
<1>3. k # "none"
  BY DEF Kinds
<1> QED
  BY <1>1, <1>2, <1>3, NewCallMap

LEMMA RejectArgumentsMap ==
    ASSUME ClientInv, NEW c \in Callers, NEW exception, RejectArguments(c, exception)
    PROVE  MapInv'
<1>1. /\ UNCHANGED <<ledger, late, charged, call>> /\ pc[c] = "idle"
      /\ pc' = [pc EXCEPT ![c] = "raised"]
  BY DEF RejectArguments, Raise, gatewayVars
<1>2. \A d \in Callers : LimitOK(d)'
  BY <1>1, StillHandles, LimitMoves DEF Posted
<1>3. ASSUME NEW d \in Callers PROVE RestOK(d)'
  <2>1. RestOK(d)
    BY DEF ClientInv, MapInv
  <2> QED
    BY <1>1, <2>1 DEF RestOK, NoCall, ClientInv, CallInv
<1> QED
  BY <1>2, <1>3 DEF MapInv

LEMMA ForgetMap ==
    ASSUME ClientInv, NEW c \in Callers, Forget(c)
    PROVE  MapInv'
<1>1. /\ UNCHANGED <<ledger, late>> /\ call' = [call EXCEPT ![c] = NoCall]
      /\ pc' = [pc EXCEPT ![c] = "idle"] /\ charged' = [charged EXCEPT ![c] = 0]
  BY DEF Forget, gatewayVars
<1>2. /\ call'[c] = NoCall /\ pc'[c] = "idle" /\ charged'[c] = 0
      /\ \A d \in Callers \ {c} : /\ pc'[d] = pc[d] /\ call'[d] = call[d]
                                  /\ charged'[d] = charged[d]
  BY <1>1 DEF ClientInv, CallInv, DataOK
<1>3. \A d \in Callers \ {c} : LimitOK(d)'
  BY <1>1, <1>2, StillHandles, LimitMoves DEF Posted
<1>4. LimitOK(c)'
  BY <1>2 DEF LimitOK, Owns, NoCall
<1>5. ASSUME NEW d \in Callers PROVE RestOK(d)'
  BY <1>2 DEF ClientInv, MapInv, RestOK, NoCall
<1> QED
  BY <1>3, <1>4, <1>5 DEF MapInv

LEMMA StutterMap == ASSUME ClientInv, UNCHANGED vars PROVE MapInv'
<1>1. UNCHANGED <<pc, call, charged, ledger, late>>
  BY DEF vars, gatewayVars
<1>2. \A d \in Callers : LimitOK(d)'
  BY <1>1, StillHandles, LimitMoves DEF Posted
<1> QED
  BY <1>1, <1>2 DEF ClientInv, MapInv, RestOK, NoCall

LEMMA NextMap == ASSUME ClientInv, ChargeInv', [Next]_vars PROVE MapInv'
<1>1. ASSUME NEW c \in Callers, Begin(c) PROVE MapInv'
  <2>1. ASSUME NEW k \in EntryPoints, NEW chosen, NEW price, NEW limit,
               StartCall(c, k, chosen, price, limit)
        PROVE  MapInv'
    <3>1. k \in Kinds
      BY ClientAssumption
    <3> QED
      BY <2>1, <3>1, StartCallMap
  <2> QED
    BY <1>1, <2>1, RejectArgumentsMap DEF Begin
<1> QED
  BY <1>1, CallStepMap, ForgetMap, GatewayStepMap, StutterMap DEF Next, Consume

LEMMA InitMap == ASSUME Init PROVE MapInv
BY DEF Init, MapInv, RestOK, LimitOK, Owns, NoCall

LEMMA InitMaps == ASSUME Init PROVE Paid!Init
<1>1. \A c \in Callers : /\ PhaseOf(c) = "none" /\ KeysOf(c) = {}
                         /\ ~(call[c].kind # "none" /\ call[c].chosen = NoKey)
                         /\ call[c].cost = 0 /\ charged[c] = 0
  BY DEF Init, NoCall, PhaseOf, KeysOf
<1>2. \A k \in Keys : BookedAs(k) = "free" /\ ledger[k].charged = 0
  BY DEF Init, Nothing, BookedAs
<1>3. charged = [c \in Callers |-> 0]
  BY DEF Init
<1> QED
  BY ONLY <1>1, <1>2, <1>3 DEF Paid!Init

\* The runtime implements the paid calls: whatever is lost, repeated, repriced
\* or late, a call is booked under one of its keys at most, at most at what it
\* asserts, never after it was refused, and what it is told is final
\* (client.py: invoke, invoke_llm, wait_for_invocation, invoke_with_rediscovery).
THEOREM ClientImplementsPaidCalls == Spec => ImplementsPaidCalls
<1>1. Init => ClientInv /\ Paid!Init
  BY InitCallInv, InitCharge, InitMap, InitMaps DEF ClientInv
<1>2. ClientInv /\ [Next]_vars => ClientInv'
  BY NextInv, NextCharge, NextMap DEF ClientInv
<1>3. ClientInv /\ [Next]_vars => [Paid!Next]_(Paid!vars)
  BY NextMaps DEF AbstractStep
<1> QED
  BY <1>1, <1>2, <1>3, PTL DEF Spec, ImplementsPaidCalls, Paid!Spec
=============================================================================

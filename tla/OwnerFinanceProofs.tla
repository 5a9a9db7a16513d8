------------------------- MODULE OwnerFinanceProofs -------------------------
(***************************************************************************)
(* Proofs about OwnerFinance, for every number of programs, needs, limits  *)
(* and requests under way.  The invariant says what a request may carry    *)
(* (RequestOK), how the books relate to the keys and events they were      *)
(* written under (BooksOK), and what a known cap excludes (CapOK).         *)
(***************************************************************************)
EXTENDS OwnerFinance, FiniteSetTheorems, TLAPS

\* A need that has a key of its own is booked under that key only.
OwnKey(k) == k[1] \in Keyed => k = <<k[1], 0>>

RequestOK(r) ==
    /\ r.op = "move" => r.key \in Keys /\ OwnKey(r.key)
    /\ r.op = "confirm" => r.key \in Keys /\ r.key[1] \in Deposits /\ r.event = <<r.key[1], 0>>
    /\ r.op = "limit" => r.limit = r.asked /\ r.limit \in Caps
    /\ r.op \in {"none", "move", "confirm", "limit"}

RequestsOK ==
    /\ \A c \in Callers : RequestOK(request[c])
    /\ \A r \in late : RequestOK(r)

BooksOK ==
    /\ \A k \in books : OwnKey(k)
    /\ \A n \in Deposits : credited[n] = IF <<n, 0>> \in confirmed THEN 1 ELSE 0

\* Once the owner knows a cap, the limit in force is within it and nothing
\* under way will change that.
CapOK ==
    cap # Unlimited =>
        /\ limit # Unlimited /\ limit <= cap /\ spent <= cap
        /\ \A c \in Callers : request[c].op # "limit"
        /\ \A r \in late : r.op # "limit"

FinanceInv == TypeOK /\ RequestsOK /\ BooksOK /\ ReturnsAreBooked /\ CapOK

-----------------------------------------------------------------------------
\* What handling a request does to the books.
LEMMA HandleKeeps ==
    ASSUME FinanceInv, NEW r \in Request, RequestOK(r), Handle(r)
    PROVE  /\ books \subseteq books' /\ books' \subseteq Keys
           /\ confirmed' \subseteq Keys /\ credited' \in [Deposits -> Nat] /\ limit' \in Caps
           /\ BooksOK'
           /\ \A n \in Deposits : credited[n] > 0 => credited'[n] > 0
           /\ r.op = "move" => r.key \in books'
           /\ r.op = "confirm" => credited'[r.key[1]] > 0
           /\ r.op # "limit" => limit' = limit
           /\ r.op = "limit" => limit' = r.limit
<1>1. r.op \in {"none", "move", "confirm", "limit"}
  BY DEF RequestOK
<1>2. /\ books \subseteq Keys /\ confirmed \subseteq Keys
      /\ credited \in [Deposits -> Nat] /\ limit \in Caps
  BY DEF FinanceInv, TypeOK
<1>3. CASE r.op = "move"
  <2>1. /\ books' = books \cup {r.key} /\ UNCHANGED <<confirmed, credited, limit>>
        /\ r.key \in Keys /\ OwnKey(r.key)
    BY <1>3 DEF Handle, RequestOK
  <2>2. BooksOK'
    BY <2>1 DEF FinanceInv, BooksOK, OwnKey
  <2> QED
    BY <1>2, <1>3, <2>1, <2>2
<1>4. CASE r.op = "confirm"
  <2>1. UNCHANGED <<books, limit>>
    BY <1>4 DEF Handle
  <2>2. PICK n \in Deposits : r.key[1] = n /\ r.event = <<n, 0>>
    BY <1>4 DEF RequestOK
  <2>3. <<n, 0>> \in Keys
    BY OwnerFinanceAssumption DEF Keys, Needs
  <2>4. CASE <<n, 0>> \notin confirmed
    <3>1. /\ confirmed' = confirmed \cup {<<n, 0>>}
          /\ credited' = [credited EXCEPT ![n] = @ + 1]
      BY <1>4, <2>2, <2>4 DEF Handle
    <3>2. credited[n] = 0
      BY <2>4 DEF FinanceInv, BooksOK
    <3>3. BooksOK'
      BY <1>2, <2>1, <3>1, <3>2 DEF FinanceInv, BooksOK, OwnKey
    <3> QED
      BY <1>2, <1>4, <2>1, <2>2, <2>3, <3>1, <3>2, <3>3
  <2>5. CASE <<n, 0>> \in confirmed
    <3>1. UNCHANGED <<confirmed, credited>>
      BY <1>4, <2>2, <2>5 DEF Handle
    <3>2. credited[n] = 1
      BY <2>5 DEF FinanceInv, BooksOK
    <3>3. BooksOK'
      BY <2>1, <3>1 DEF FinanceInv, BooksOK, OwnKey
    <3> QED
      BY <1>2, <1>4, <2>1, <2>2, <3>1, <3>2, <3>3
  <2> QED
    BY <2>4, <2>5
<1>5. CASE r.op = "limit"
  <2>1. /\ UNCHANGED <<books, confirmed, credited>> /\ limit' = r.limit /\ r.limit \in Caps
    BY <1>5 DEF Handle, RequestOK
  <2>2. BooksOK'
    BY <2>1 DEF FinanceInv, BooksOK, OwnKey
  <2> QED
    BY <1>2, <1>5, <2>1, <2>2
<1>6. CASE r.op = "none"
  <2>1. UNCHANGED <<books, limit, confirmed, credited>>
    BY <1>6 DEF Handle
  <2>2. BooksOK'
    BY <2>1 DEF FinanceInv, BooksOK, OwnKey
  <2> QED
    BY <1>2, <1>6, <2>1, <2>2
<1> QED
  BY <1>1, <1>3, <1>4, <1>5, <1>6
-----------------------------------------------------------------------------
\* The steps.
LEMMA InitInv == ASSUME Init PROVE FinanceInv
<1>1. TypeOK
  BY OwnerFinanceAssumption DEF Init, TypeOK, Request, Caps, Amounts
<1>2. RequestsOK
  BY DEF Init, RequestsOK, RequestOK, NoRequest
<1> QED
  BY <1>1, <1>2 DEF Init, FinanceInv, BooksOK, ReturnsAreBooked, CapOK

\* A request is sent: nothing of the books changes, and a known cap stays so
\* unless the request is to change the limit.
LEMMA SendInv ==
    ASSUME FinanceInv, NEW c \in Callers, NEW r \in Request, RequestOK(r), Send(c, r),
           cap' \in {cap, Unlimited}, r.op = "limit" => cap' = Unlimited,
           drawn' \in [Needs -> 0..MaxDraws]
    PROVE  FinanceInv'
<1>1. /\ request' = [request EXCEPT ![c] = r]
      /\ UNCHANGED <<told, paidIn, books, confirmed, credited, limit, spent, late>>
  BY DEF Send, bookVars
<1>2. request \in [Callers -> Request]
  BY DEF FinanceInv, TypeOK
<1>3. request' \in [Callers -> Request]
  BY <1>1, <1>2
<1>4. TypeOK'
  BY <1>1, <1>3 DEF FinanceInv, TypeOK, Caps
<1>5. RequestsOK'
  BY <1>1, <1>2 DEF FinanceInv, RequestsOK
<1>6. CapOK'
  BY <1>1, <1>2 DEF FinanceInv, CapOK
<1> QED
  BY <1>1, <1>4, <1>5, <1>6 DEF FinanceInv, BooksOK, ReturnsAreBooked

LEMMA MoveInv ==
    ASSUME FinanceInv, NEW c \in Callers, NEW n \in Needs, Move(c, n)
    PROVE  FinanceInv'
<1> DEFINE key == IdempotencyKey(n)
           r == [op |-> "move", key |-> key]
<1>1. drawn[n] \in Nat /\ drawn \in [Needs -> 0..MaxDraws]
  BY OwnerFinanceAssumption DEF FinanceInv, TypeOK
<1>2. key = <<n, key[2]>> /\ key[2] \in Nat /\ (n \in Keyed => key = <<n, 0>>)
  BY <1>1 DEF IdempotencyKey
<1>3. /\ key[2] <= MaxDraws /\ Send(c, r) /\ UNCHANGED cap
      /\ drawn' = [drawn EXCEPT ![n] = IF key[2] = 0 THEN @ ELSE key[2]]
  BY DEF Move
<1>4. key \in Keys /\ OwnKey(key)
  <2>1. key[2] \in 0..MaxDraws
    BY <1>2, <1>3, OwnerFinanceAssumption
  <2> HIDE DEF key
  <2> QED
    BY <1>2, <2>1 DEF Keys, OwnKey
<1>5. drawn' \in [Needs -> 0..MaxDraws]
  <2>1. key[2] \in 0..MaxDraws
    BY <1>2, <1>3, OwnerFinanceAssumption
  <2> HIDE DEF key
  <2> QED
    BY <1>1, <1>3, <2>1
<1> HIDE DEF key
<1>6. r \in Request /\ RequestOK(r) /\ r.op # "limit"
  BY <1>4 DEF Request, RequestOK
<1> HIDE DEF r
<1> QED
  BY <1>3, <1>5, <1>6, SendInv

LEMMA ConfirmInv ==
    ASSUME FinanceInv, NEW c \in Callers, NEW intent \in books, ConfirmDeposit(c, intent)
    PROVE  FinanceInv'
<1> DEFINE r == [op |-> "confirm", key |-> intent, event |-> EventKey(intent)]
<1>1. intent \in Keys /\ intent[1] \in Deposits /\ <<intent[1], 0>> \in Keys
  BY OwnerFinanceAssumption DEF ConfirmDeposit, FinanceInv, TypeOK, Keys, Needs
<1>2. r \in Request /\ RequestOK(r) /\ r.op # "limit"
  BY <1>1 DEF Request, RequestOK, EventKey
<1>3. Send(c, r) /\ UNCHANGED <<drawn, cap>>
  BY DEF ConfirmDeposit
<1>4. drawn \in [Needs -> 0..MaxDraws]
  BY DEF FinanceInv, TypeOK
<1> HIDE DEF r
<1> QED
  BY <1>2, <1>3, <1>4, SendInv

LEMMA SetLimitInv ==
    ASSUME FinanceInv, NEW c \in Callers, NEW l \in Caps, SetSpendingLimit(c, l)
    PROVE  FinanceInv'
<1> DEFINE r == [op |-> "limit", limit |-> LimitBody(l), asked |-> l]
<1>1. r \in Request /\ RequestOK(r)
  BY DEF Request, RequestOK, LimitBody
<1>2. Send(c, r) /\ cap' = Unlimited /\ UNCHANGED drawn
  BY DEF SetSpendingLimit
<1>3. drawn \in [Needs -> 0..MaxDraws]
  BY DEF FinanceInv, TypeOK
<1> HIDE DEF r
<1> QED
  BY <1>1, <1>2, <1>3, SendInv

LEMMA AnsweredInv == ASSUME FinanceInv, NEW c \in Callers, Answered(c) PROVE FinanceInv'
<1> DEFINE r == request[c]
<1>1. /\ r # NoRequest /\ Handle(r) /\ r \in Request /\ RequestOK(r)
      /\ request' = [request EXCEPT ![c] = NoRequest] /\ UNCHANGED <<drawn, spent, late>>
      /\ request \in [Callers -> Request] /\ NoRequest \in Request
  BY DEF Answered, FinanceInv, TypeOK, RequestsOK, Request
<1>2. /\ told' = IF r.op = "move" THEN told \cup {r.key} ELSE told
      /\ paidIn' = IF r.op = "confirm" THEN paidIn \cup {r.key[1]} ELSE paidIn
      /\ cap' = IF r.op = "limit" THEN CapAfter(c) ELSE cap
  BY DEF Answered
<1>3. /\ r.op = "move" => r.key \in Keys
      /\ r.op = "confirm" => r.key[1] \in Deposits
      /\ r.op = "limit" => r.limit = r.asked /\ r.asked \in Caps
  BY <1>1 DEF RequestOK
<1>4. /\ books \subseteq books' /\ books' \subseteq Keys
      /\ confirmed' \subseteq Keys /\ credited' \in [Deposits -> Nat] /\ limit' \in Caps
      /\ BooksOK'
      /\ \A n \in Deposits : credited[n] > 0 => credited'[n] > 0
      /\ r.op = "move" => r.key \in books'
      /\ r.op = "confirm" => credited'[r.key[1]] > 0
      /\ r.op # "limit" => limit' = limit
      /\ r.op = "limit" => limit' = r.limit
  BY <1>1, HandleKeeps
<1>5. /\ \A d \in Callers \ {c} : request'[d] = request[d]
      /\ request'[c] = NoRequest /\ request'[c].op = "none"
  BY <1>1 DEF NoRequest
<1>6. spent \in Amounts /\ spent \in Nat
  BY OwnerFinanceAssumption DEF FinanceInv, TypeOK, Amounts
<1>7. cap' \in Amounts \cup Caps
  BY <1>2, <1>3, <1>6 DEF CapAfter, FinanceInv, TypeOK, Caps
<1>8. told' \subseteq Keys /\ paidIn' \subseteq Deposits
  BY <1>2, <1>3 DEF FinanceInv, TypeOK
<1>9. request' \in [Callers -> Request]
  BY <1>1
<1>10. TypeOK'
  BY <1>1, <1>4, <1>7, <1>8, <1>9 DEF FinanceInv, TypeOK
<1>11. RequestsOK'
  BY <1>1, <1>5 DEF FinanceInv, RequestsOK, RequestOK
<1>12. ReturnsAreBooked'
  <2>1. told \subseteq books /\ paidIn \subseteq Deposits /\ \A n \in paidIn : credited[n] > 0
    BY DEF FinanceInv, ReturnsAreBooked, TypeOK
  <2>2. told' \subseteq books'
    BY <1>2, <1>4, <2>1
  <2>3. ASSUME NEW n \in paidIn' PROVE credited'[n] > 0
    <3>1. CASE n \in paidIn
      BY <1>4, <2>1, <3>1
    <3>2. CASE n \notin paidIn
      <4>1. r.op = "confirm" /\ n = r.key[1]
        BY <1>2, <3>2
      <4> QED
        BY <1>4, <4>1
    <3> QED
      BY <3>1, <3>2
  <2> QED
    BY <2>2, <2>3 DEF ReturnsAreBooked
<1>13. CapOK'
  <2>1. CASE r.op # "limit"
    BY <1>1, <1>2, <1>4, <1>5, <2>1 DEF FinanceInv, CapOK
  <2>2. CASE r.op = "limit" /\ cap' # Unlimited
    <3>1. ~LimitsUnderWay(c) /\ r.asked # Unlimited
          /\ cap' = IF r.asked < spent THEN spent ELSE r.asked
      BY <1>2, <2>2 DEF CapAfter
    <3>2. r.asked \in Nat /\ limit' = r.asked /\ limit' # Unlimited
      BY <1>3, <1>4, <2>2, <3>1, OwnerFinanceAssumption DEF Caps
    <3>3. limit' <= cap' /\ spent' <= cap'
      BY <1>1, <1>6, <3>1, <3>2
    <3>4. /\ \A d \in Callers : request'[d].op # "limit"
          /\ \A q \in late' : q.op # "limit"
      BY <1>1, <1>5, <3>1 DEF LimitsUnderWay
    <3> QED
      BY <3>2, <3>3, <3>4 DEF CapOK
  <2> QED
    BY <2>1, <2>2 DEF CapOK
<1> QED
  BY <1>4, <1>10, <1>11, <1>12, <1>13 DEF FinanceInv

\* Nobody is told of what becomes of the request.
LEMMA UntoldInv ==
    ASSUME FinanceInv, NEW r \in Request, RequestOK(r),
           r.op = "limit" => cap = Unlimited,
           Handle(r) \/ UNCHANGED bookVars,
           UNCHANGED <<told, paidIn, cap, drawn, spent>>,
           request' \in [Callers -> Request], late' \subseteq Request,
           \A c \in Callers : request'[c] \in {request[c], NoRequest},
           late' \subseteq late \cup {r}
    PROVE  FinanceInv'
<1>1. /\ books \subseteq books' /\ books' \subseteq Keys
      /\ confirmed' \subseteq Keys /\ credited' \in [Deposits -> Nat] /\ limit' \in Caps
      /\ BooksOK'
      /\ \A n \in Deposits : credited[n] > 0 => credited'[n] > 0
      /\ r.op # "limit" => limit' = limit
  <2>1. CASE Handle(r)
    BY <2>1, HandleKeeps
  <2>2. CASE UNCHANGED bookVars
    BY <2>2 DEF bookVars, FinanceInv, TypeOK, BooksOK, OwnKey
  <2> QED
    BY <2>1, <2>2
<1>2. TypeOK'
  BY <1>1 DEF FinanceInv, TypeOK
<1>3. RequestsOK'
  BY DEF FinanceInv, RequestsOK, RequestOK, NoRequest
<1>4. ReturnsAreBooked'
  BY <1>1 DEF FinanceInv, ReturnsAreBooked, TypeOK
<1>5. CapOK'
  BY <1>1 DEF FinanceInv, CapOK, NoRequest
<1> QED
  BY <1>1, <1>2, <1>3, <1>4, <1>5 DEF FinanceInv

LEMMA FailsInv == ASSUME FinanceInv, NEW c \in Callers, Fails(c) PROVE FinanceInv'
<1> DEFINE r == request[c]
<1>1. /\ r \in Request /\ r # NoRequest /\ RequestOK(r) /\ (r.op = "limit" => cap = Unlimited)
  BY DEF Fails, FinanceInv, TypeOK, RequestsOK, CapOK
<1>2. /\ request' = [request EXCEPT ![c] = NoRequest]
      /\ Handle(r) \/ UNCHANGED bookVars
      /\ late' = late \/ late' = late \cup {r}
      /\ UNCHANGED <<told, paidIn, cap, drawn, spent>>
  BY DEF Fails
<1>3. /\ request \in [Callers -> Request] /\ late \subseteq Request /\ NoRequest \in Request
  BY DEF FinanceInv, TypeOK, Request
<1>4. /\ request' \in [Callers -> Request] /\ late' \subseteq Request
      /\ \A d \in Callers : request'[d] \in {request[d], NoRequest}
      /\ late' \subseteq late \cup {r}
  BY <1>1, <1>2, <1>3
<1> HIDE DEF r
<1> QED
  BY <1>1, <1>2, <1>4, UntoldInv

LEMMA LateArrivalInv ==
    ASSUME FinanceInv, NEW r \in late, LateArrival(r)
    PROVE  FinanceInv'
<1>1. /\ r \in Request /\ RequestOK(r) /\ (r.op = "limit" => cap = Unlimited)
  BY DEF FinanceInv, TypeOK, RequestsOK, CapOK
<1>2. /\ UNCHANGED <<request, told, paidIn, cap, drawn, spent>>
      /\ late' = late \ {r} /\ (Handle(r) \/ UNCHANGED bookVars)
  BY DEF LateArrival, callerVars
<1>3. request' \in [Callers -> Request] /\ late' \subseteq Request
  BY <1>2 DEF FinanceInv, TypeOK
<1> QED
  BY <1>1, <1>2, <1>3, UntoldInv

LEMMA SpendInv == ASSUME FinanceInv, Spend PROVE FinanceInv'
<1>1. /\ UNCHANGED <<request, told, paidIn, cap, drawn, books, confirmed, credited, limit, late>>
      /\ spent < MaxSpent /\ spent' = spent + 1 /\ (limit # Unlimited => spent < limit)
  BY DEF Spend, callerVars, bookVars
<1>2. spent \in 0..MaxSpent /\ spent' \in Amounts
  BY <1>1, OwnerFinanceAssumption DEF FinanceInv, TypeOK, Amounts
<1>3. TypeOK'
  BY <1>1, <1>2 DEF FinanceInv, TypeOK
<1>4. CapOK'
  <2>1. limit \in Nat \/ limit = Unlimited
    BY OwnerFinanceAssumption DEF FinanceInv, TypeOK, Caps
  <2>2. cap \in Nat \/ cap = Unlimited
    BY OwnerFinanceAssumption DEF FinanceInv, TypeOK, Caps, Amounts
  <2>3. cap # Unlimited => spent + 1 <= cap
    BY <1>1, <1>2, <2>1, <2>2, OwnerFinanceAssumption DEF FinanceInv, CapOK
  <2> QED
    BY <1>1, <2>3 DEF FinanceInv, CapOK
<1> QED
  BY <1>1, <1>3, <1>4 DEF FinanceInv, RequestsOK, RequestOK, BooksOK, OwnKey, ReturnsAreBooked

LEMMA NextInv == ASSUME FinanceInv, [Next]_vars PROVE FinanceInv'
<1>1. ASSUME NEW c \in Callers,
             RegisterDepositIntent(c) \/ RedeemVoucher(c) \/ CreateWithdrawalIntent(c)
      PROVE  FinanceInv'
  BY <1>1, MoveInv DEF RegisterDepositIntent, RedeemVoucher, CreateWithdrawalIntent, Needs
<1>2. CASE UNCHANGED vars
  BY <1>2 DEF vars, callerVars, bookVars, FinanceInv, TypeOK, RequestsOK, RequestOK, BooksOK,
              OwnKey, ReturnsAreBooked, CapOK
<1> QED
  BY <1>1, <1>2, ConfirmInv, SetLimitInv, AnsweredInv, FailsInv, LateArrivalInv, SpendInv
     DEF Next

LEMMA FinanceInvariant == Spec => []FinanceInv
BY InitInv, NextInv, PTL DEF Spec

-----------------------------------------------------------------------------
\* Requests, books and figures keep to their types, for any number of programs.
THEOREM FinanceTypeCorrect == Spec => []TypeOK
<1>1. FinanceInv => TypeOK
  BY DEF FinanceInv
<1> QED
  BY <1>1, FinanceInvariant, PTL

\* However often a need with an idempotency key of its own is retried, by
\* however many programs and in whatever order the requests arrive, it is booked
\* once (_auth_finance.py: register_deposit_intent, redeem_voucher;
\* create_provider_withdrawal_intent).
THEOREM KeyedNeedsBookedOnce == Spec => []KeyedNeedsMoveOnce
<1>1. ASSUME FinanceInv, NEW n \in Keyed PROVE Cardinality(KeysOf(n)) <= 1
  <2>1. KeysOf(n) \subseteq {<<n, 0>>}
    BY <1>1 DEF FinanceInv, BooksOK, OwnKey, KeysOf
  <2>2. KeysOf(n) = {} \/ KeysOf(n) = {<<n, 0>>}
    BY <2>1
  <2> QED
    BY <2>2, FS_EmptySet, FS_Singleton
<1>2. FinanceInv => KeyedNeedsMoveOnce
  BY <1>1 DEF KeyedNeedsMoveOnce
<1> QED
  BY <1>2, FinanceInvariant, PTL

\* A chain transaction is credited once, under however many intents it was
\* registered and confirmed (confirm_deposit and resolved_event_key).
THEOREM DepositsCreditedOnce == Spec => []DepositsCreditOnce
<1>1. ASSUME FinanceInv, NEW n \in Deposits PROVE credited[n] <= 1
  <2>1. credited[n] = 0 \/ credited[n] = 1
    BY <1>1 DEF FinanceInv, BooksOK
  <2> QED
    BY <2>1
<1>2. FinanceInv => DepositsCreditOnce
  BY <1>1 DEF DepositsCreditOnce
<1> QED
  BY <1>2, FinanceInvariant, PTL

\* An owner who got no exception can rely on the books, whatever was lost.
THEOREM ReturnsAlwaysBooked == Spec => []ReturnsAreBooked
<1>1. FinanceInv => ReturnsAreBooked
  BY DEF FinanceInv
<1> QED
  BY <1>1, FinanceInvariant, PTL

\* A spending limit that was set holds, zero included, until another is asked
\* for (set_spending_limit).
THEOREM LimitsCapSpending == Spec => []LimitCapsSpending
<1>1. FinanceInv => LimitCapsSpending
  BY DEF FinanceInv, CapOK, LimitCapsSpending
<1> QED
  BY <1>1, FinanceInvariant, PTL
=============================================================================

---------------------------- MODULE OwnerFinance ----------------------------
(***************************************************************************)
(* Moving an owner's money (python/synapse_client/_auth_finance.py and     *)
(* create_provider_withdrawal_intent): programs of one owner register and  *)
(* confirm deposits, redeem vouchers, ask for withdrawals and set the      *)
(* spending limit, and try again after an exception, for none tells them   *)
(* whether the request was handled.  The SDK keeps nothing; the books are  *)
(* the gateway's (external).                                               *)
(*                                                                         *)
(* A need is one thing an owner wants done: the deposit of one chain       *)
(* transaction, one voucher, one withdrawal.  Several programs may pursue  *)
(* the same need, one of them after another has crashed.                   *)
(***************************************************************************)
EXTENDS Naturals, FiniteSets

CONSTANTS
    Callers,        \* programs, or threads, of one owner
    Deposits, Vouchers, Withdrawals,    \* the needs
    Keyed,          \* needs pursued under a non-blank idempotency_key of their own
    Limits,         \* spending limits that may be set
    Unlimited,      \* spending_limit_usdc = None
    Faults,         \* what can go wrong with a request: "lost", "late"
    MaxDraws,       \* bound: keys generated for one need
    MaxSpent,       \* bound: what is spent
    MaxLate         \* bound: requests on their way without a caller

Needs == Deposits \cup Vouchers \cup Withdrawals
Amounts == 0..MaxSpent
Caps == Limits \cup {Unlimited}

ASSUME OwnerFinanceAssumption ==
    /\ Keyed \subseteq Needs
    /\ Deposits \cap (Vouchers \cup Withdrawals) = {} /\ Vouchers \cap Withdrawals = {}
    /\ Limits \subseteq Nat /\ Unlimited \notin Nat
    /\ Faults \subseteq {"lost", "late"}
    /\ MaxDraws \in Nat /\ MaxSpent \in Nat /\ MaxLate \in Nat

VARIABLES
    request,    \* the request that each caller waits for
    told,       \* keys of moves that returned without an exception
    paidIn,     \* deposits whose confirmation did
    cap,        \* what may be spent as far as the owner can know
    drawn,      \* keys generated so far for each need
    books,      \* external: keys under which something is booked
    confirmed,  \* external: event keys that have been confirmed
    credited,   \* external: how often each deposit was credited
    limit,      \* external: the spending limit in force
    spent,      \* external: what the agents have spent
    late        \* external: requests given up on that may yet be handled

callerVars == <<request, told, paidIn, cap, drawn>>
bookVars == <<books, confirmed, credited, limit>>
vars == <<callerVars, bookVars, spent, late>>

NoRequest == [op |-> "none"]

\* X-Idempotency-Key: <<n, 0>> is the caller's own for n, <<n, i>> the i-th
\* that uuid4 gave.
Keys == Needs \X (0..MaxDraws)
KeysOf(n) == {k \in books : k[1] = n}

\* Mutant: the caller's key is passed over.
IdempotencyKeyFresh(n) == <<n, drawn[n] + 1>>

IdempotencyKey(n) == IF n \in Keyed THEN <<n, 0>> ELSE <<n, drawn[n] + 1>>

\* Mutant: each intent has an event of its own.
EventKeyOfIntent(intent) == intent

\* Mutant: no fallback to the transaction, None for an intent without event key.
EventKeyNone(intent) == <<intent[1], Unlimited>>

\* DepositIntentRecord.resolved_event_key: the event of the chain transaction,
\* whichever intent names it.
EventKey(intent) == <<intent[1], 0>>

\* Mutant: a limit of zero counts as none.
LimitBodyFalsy(l) == IF l = 0 THEN Unlimited ELSE l

\* The body of set_spending_limit: only None allows unlimited spending.
LimitBody(l) == l

-----------------------------------------------------------------------------
\* The gateway (external): it replays a known key, takes a voucher once and an
\* event key once, and does not know an intent it has not booked.
Accepts(r) ==
    CASE r.op = "move" -> r.key \in books \/ r.key[1] \notin Vouchers \/ KeysOf(r.key[1]) = {}
      [] r.op = "confirm" -> r.key \in books
      [] OTHER -> TRUE

Handle(r) ==
    /\ Accepts(r)
    /\ books' = IF r.op = "move" THEN books \cup {r.key} ELSE books
    /\ limit' = IF r.op = "limit" THEN r.limit ELSE limit
    /\ IF r.op = "confirm" /\ r.event \notin confirmed
         THEN /\ confirmed' = confirmed \cup {r.event}
              /\ credited' = [credited EXCEPT ![r.key[1]] = @ + 1]
         ELSE UNCHANGED <<confirmed, credited>>

LateArrival(r) ==
    /\ late' = late \ {r}
    /\ Handle(r) \/ UNCHANGED bookVars
    /\ UNCHANGED <<callerVars, spent>>

\* An agent of the owner spends, as far as the limit allows.
Spend ==
    /\ spent < MaxSpent
    /\ limit # Unlimited => spent < limit
    /\ spent' = spent + 1
    /\ UNCHANGED <<callerVars, bookVars, late>>

-----------------------------------------------------------------------------
Send(c, r) ==
    /\ request[c] = NoRequest
    /\ request' = [request EXCEPT ![c] = r]
    /\ UNCHANGED <<told, paidIn, bookVars, spent, late>>

Move(c, n) ==
    /\ LET key == IdempotencyKey(n)
       IN /\ key[2] <= MaxDraws
          /\ Send(c, [op |-> "move", key |-> key])
          /\ drawn' = [drawn EXCEPT ![n] = IF key[2] = 0 THEN @ ELSE key[2]]
    /\ UNCHANGED cap

RegisterDepositIntent(c) == \E n \in Deposits : Move(c, n)

\* A blank voucher code raises ValueError before anything is sent.
RedeemVoucher(c) == \E n \in Vouchers : Move(c, n)

CreateWithdrawalIntent(c) == \E n \in Withdrawals : Move(c, n)

\* confirm_deposit, with the id and the event key of an intent that some
\* program of the owner got.
ConfirmDeposit(c, intent) ==
    /\ intent \in told /\ intent[1] \in Deposits
    /\ Send(c, [op |-> "confirm", key |-> intent, event |-> EventKey(intent)])
    /\ UNCHANGED <<drawn, cap>>

SetSpendingLimit(c, l) ==
    /\ Send(c, [op |-> "limit", limit |-> LimitBody(l), asked |-> l])
    /\ cap' = Unlimited
    /\ UNCHANGED drawn

\* Other requests to change the limit may still be handled.
LimitsUnderWay(c) ==
    \/ \E d \in Callers \ {c} : request[d].op = "limit"
    \/ \E r \in late : r.op = "limit"

CapAfter(c) ==
    LET asked == request[c].asked
    IN IF LimitsUnderWay(c) \/ asked = Unlimited THEN Unlimited
       ELSE IF asked < spent THEN spent ELSE asked

Answered(c) ==
    /\ request[c] # NoRequest
    /\ Handle(request[c])
    /\ told' = IF request[c].op = "move" THEN told \cup {request[c].key} ELSE told
    /\ paidIn' = IF request[c].op = "confirm" THEN paidIn \cup {request[c].key[1]} ELSE paidIn
    /\ cap' = IF request[c].op = "limit" THEN CapAfter(c) ELSE cap
    /\ request' = [request EXCEPT ![c] = NoRequest]
    /\ UNCHANGED <<drawn, spent, late>>

\* Mutant: an HTTP error is taken for an empty answer, whose status reads "success".
FailsSilently(c) ==
    /\ request[c] # NoRequest
    /\ told' = IF request[c].op = "move" THEN told \cup {request[c].key} ELSE told
    /\ request' = [request EXCEPT ![c] = NoRequest]
    /\ UNCHANGED <<paidIn, cap, drawn, bookVars, spent, late>>

\* An HTTP error (an AuthenticationError whatever its cause), a timeout or a
\* broken connection: not handled, handled with the answer lost, or on its way.
Fails(c) ==
    /\ request[c] # NoRequest
    /\ request' = [request EXCEPT ![c] = NoRequest]
    /\ \/ UNCHANGED <<bookVars, late>>
       \/ "lost" \in Faults /\ Handle(request[c]) /\ UNCHANGED late
       \/ /\ "late" \in Faults /\ Cardinality(late) < MaxLate
          /\ late' = late \cup {request[c]} /\ UNCHANGED bookVars
    /\ UNCHANGED <<told, paidIn, cap, drawn, spent>>

Init ==
    /\ request = [c \in Callers |-> NoRequest]
    /\ told = {}
    /\ paidIn = {}
    /\ cap = Unlimited
    /\ drawn = [n \in Needs |-> 0]
    /\ books = {}
    /\ confirmed = {}
    /\ credited = [n \in Deposits |-> 0]
    /\ limit = Unlimited
    /\ spent = 0
    /\ late = {}

Next ==
    \/ \E c \in Callers :
         \/ RegisterDepositIntent(c) \/ RedeemVoucher(c) \/ CreateWithdrawalIntent(c)
         \/ \E intent \in books : ConfirmDeposit(c, intent)
         \/ \E l \in Caps : SetSpendingLimit(c, l)
         \/ Answered(c) \/ Fails(c)
    \/ \E r \in late : LateArrival(r)
    \/ Spend

Spec == Init /\ [][Next]_vars
-----------------------------------------------------------------------------
Request ==
    {NoRequest} \cup [op : {"move"}, key : Keys]
    \cup [op : {"confirm"}, key : Keys, event : Keys]
    \cup [op : {"limit"}, limit : Caps, asked : Caps]

\* Shape of the state.
TypeOK ==
    /\ request \in [Callers -> Request]
    /\ told \subseteq Keys
    /\ paidIn \subseteq Deposits
    /\ cap \in Amounts \cup Caps
    /\ drawn \in [Needs -> 0..MaxDraws]
    /\ books \subseteq Keys
    /\ confirmed \subseteq Keys
    /\ credited \in [Deposits -> Nat]
    /\ limit \in Caps
    /\ spent \in Amounts
    /\ late \subseteq Request

\* A need pursued under a key of its own is booked once, however often and by
\* however many programs it is retried, also when an earlier try arrives last.
KeyedNeedsMoveOnce == \A n \in Keyed : Cardinality(KeysOf(n)) <= 1

\* A deposit is credited once, although a retry without a key registers
\* another intent and every intent may be confirmed: all name one event.
DepositsCreditOnce == \A n \in Deposits : credited[n] <= 1

\* What returned without an exception is in the books.
ReturnsAreBooked ==
    /\ told \subseteq books
    /\ \A n \in paidIn : credited[n] > 0

\* Once set_spending_limit has returned, no more is spent than the limit, or
\* than had been spent by then, until somebody sets another; no limit request
\* sent before may be under way.
LimitCapsSpending == cap = Unlimited \/ spent <= cap
=============================================================================

------------------------- MODULE AgentWalletProofs -------------------------
(***************************************************************************)
(* Proof that threads that take turns keep a wallet's books within its     *)
(* budget, and what the books have to do with the charges.  The guard of   *)
(* AgentWallet.invoke compares the price the call asserts; the books take  *)
(* what the call is charged.  That the second is at most the first is      *)
(* ChargeInv of SynapseClientProofs, which the wallet's steps keep as the  *)
(* client's own do.  A sum of charges is the number of their units, so     *)
(* that adding a charge is a union of disjoint sets (TotalAdds).           *)
(***************************************************************************)
EXTENDS AgentWallet, SynapseClientProofs, FiniteSetTheorems

Pending == Busy \cup {"returned", "adding"}

\* The wallet's own state; every call it lets through is an invoke().
BooksTyped ==
    /\ spent \in Nat /\ loaded \in [Callers -> Nat] /\ recorded \subseteq Keys
    /\ overlapped \in BOOLEAN
    /\ \A c \in Callers : pc[c] \in Pending => call[c].kind = "fixed"

\* Of threads that take turns: one call at most is under way, what is spent and
\* what it may yet be charged fit in the budget together, and an addition under
\* way has read the latest figure.
BooksOK ==
    ~overlapped =>
        /\ spent <= Budget
        /\ \A c, d \in Callers : pc[c] \in Pending /\ pc[d] \in Pending => c = d
        /\ \A c \in Callers :
             /\ pc[c] \in Pending => spent + call[c].cost <= Budget
             /\ pc[c] = "adding" => loaded[c] = spent

WalletInv == CallInv /\ ChargeInv /\ BooksTyped /\ BooksOK

\* While no key is repeated, the key of a call under way is not recorded yet, nor
\* is any that is still to be drawn.
UnrecordedOK ==
    \A c \in Callers, n \in 0..MaxInvokes :
        n >= invokes[c] - Len(call[c].keys) => <<c, n>> \notin recorded

\* What is recorded has its last charge, and no figure a thread holds exceeds it.
SumOK ==
    /\ IsFiniteSet(Units(recorded))
    /\ \A k \in recorded : ledger[k] # Nothing /\ IsFinal(ledger[k].status)
    /\ spent <= Total(recorded)
    /\ \A c \in Callers : loaded[c] <= Total(recorded)
    /\ ~overlapped => spent = Total(recorded)

SumInv == CallerKeys = {} => UnrecordedOK /\ SumOK
-----------------------------------------------------------------------------
\* A step that lets no new call in and leaves the wallet's own state alone.
LEMMA WalletBooksKept ==
    ASSUME BooksTyped, BooksOK, UNCHANGED walletVars,
           \A d \in Callers :
               /\ pc'[d] \in Pending => pc[d] \in Pending /\ call'[d] = call[d]
               /\ pc'[d] = "adding" => pc[d] = "adding"
    PROVE  BooksTyped' /\ BooksOK'
<1>1. UNCHANGED <<spent, loaded, recorded, overlapped>>
  BY DEF walletVars
<1>2. BooksTyped'
  BY <1>1 DEF BooksTyped
<1>3. BooksOK'
  BY <1>1 DEF BooksOK
<1> QED
  BY <1>2, <1>3

LEMMA WalletInvokeInv ==
    ASSUME WalletInv, NEW c \in Callers, NEW chosen \in CallerKeys \cup {NoKey},
           NEW price \in Prices, WalletInvoke(c, chosen, price)
    PROVE  WalletInv'
<1>1. CallInv /\ ChargeInv /\ BooksTyped /\ BooksOK
  BY DEF WalletInv
<1>2. /\ spent + price <= Budget /\ UNCHANGED <<spent, loaded, recorded>>
      /\ overlapped' = (overlapped \/ Invoking # {})
  BY DEF WalletInvoke, Affords
<1>3. CASE StartCall(c, "fixed", chosen, price, 0)
  <2>1. "fixed" \in Kinds /\ 0 \in RetryLimits \cup {0}
    BY DEF Kinds
  <2>2. CallInv'
    BY <1>1, <1>3, <2>1, StartCallInv
  <2>3. ChargeInv'
    BY <1>1, <1>3, <2>1, <2>2, StartCallCharge
  <2>4. /\ call'[c].kind = "fixed" /\ call'[c].cost = price /\ pc'[c] = "posting"
        /\ \A d \in Callers \ {c} : call'[d] = call[d] /\ pc'[d] = pc[d]
    BY <1>1, <1>3 DEF StartCall, Goto, CallInv, DataOK
  <2>5. BooksTyped'
    BY <1>1, <1>2, <2>4 DEF BooksTyped
  <2>6. BooksOK'
    <3> SUFFICES ASSUME ~overlapped' PROVE BooksOK'
      BY DEF BooksOK
    <3>1. \A d \in Callers : pc[d] \notin Pending
      BY <1>2 DEF Invoking, Pending, Busy
    <3>2. spent <= Budget
      BY <1>1, <1>2 DEF BooksOK, BooksTyped
    <3>3. \A d \in Callers : d # c => pc'[d] \notin Pending
      BY <2>4, <3>1
    <3> QED
      BY <1>2, <2>4, <3>2, <3>3 DEF BooksOK, Pending
  <2> QED
    BY <2>2, <2>3, <2>5, <2>6 DEF WalletInv
<1>4. CASE RejectArguments(c, "ValueError")
  <2>1. CallInv'
    BY <1>1, <1>4, RejectArgumentsInv DEF Errors
  <2>2. ChargeInv'
    BY <1>1, <1>4, RejectArgumentsCharge
  <2>3. /\ UNCHANGED call /\ \A d \in Callers \ {c} : pc'[d] = pc[d]
        /\ pc'[c] = "raised"
    BY <1>1, <1>4 DEF RejectArguments, Raise, CallInv
  <2>4. BooksTyped'
    BY <1>1, <1>2, <2>3 DEF BooksTyped, Pending, Busy
  <2>5. BooksOK'
    BY <1>1, <1>2, <2>3 DEF BooksOK, BooksTyped, Pending, Busy
  <2> QED
    BY <2>1, <2>2, <2>4, <2>5 DEF WalletInv
<1> QED
  BY <1>3, <1>4 DEF WalletInvoke

LEMMA WalletRefusesInv ==
    ASSUME WalletInv, NEW c \in Callers, NEW price \in Prices, WalletRefuses(c, price)
    PROVE  WalletInv'
<1>1. CallInv /\ ChargeInv /\ BooksTyped /\ BooksOK
  BY DEF WalletInv
<1>2. RejectArguments(c, "InsufficientFundsError") /\ UNCHANGED walletVars
  BY DEF WalletRefuses
<1>3. CallInv'
  BY <1>1, <1>2, RejectArgumentsInv DEF Errors
<1>4. ChargeInv'
  BY <1>1, <1>2, RejectArgumentsCharge
<1>5. UNCHANGED call /\ pc' = [pc EXCEPT ![c] = "raised"]
  BY <1>2 DEF RejectArguments, Raise
<1>6. BooksTyped' /\ BooksOK'
  BY <1>1, <1>2, <1>5, WalletBooksKept DEF CallInv, Pending, Busy
<1> QED
  BY <1>3, <1>4, <1>6 DEF WalletInv

LEMMA WalletOtherInv ==
    ASSUME WalletInv, NEW c \in Callers, NEW k \in EntryPoints, WalletOther(c, k)
    PROVE  WalletInv'
<1>1. CallInv /\ ChargeInv /\ BooksTyped /\ BooksOK
  BY DEF WalletInv
<1>2. RejectArguments(c, "TypeError") /\ UNCHANGED walletVars
  BY DEF WalletOther
<1>3. CallInv'
  BY <1>1, <1>2, RejectArgumentsInv DEF Errors
<1>4. ChargeInv'
  BY <1>1, <1>2, RejectArgumentsCharge
<1>5. UNCHANGED call /\ pc' = [pc EXCEPT ![c] = "raised"]
  BY <1>2 DEF RejectArguments, Raise
<1>6. BooksTyped' /\ BooksOK'
  BY <1>1, <1>2, <1>5, WalletBooksKept DEF CallInv, Pending, Busy
<1> QED
  BY <1>3, <1>4, <1>6 DEF WalletInv

LEMMA WalletLoadInv ==
    ASSUME WalletInv, NEW c \in Callers, WalletLoad(c)
    PROVE  WalletInv'
<1>1. CallInv /\ ChargeInv /\ BooksTyped /\ BooksOK
  BY DEF WalletInv
<1>2. /\ pc[c] = "returned" /\ pc' = [pc EXCEPT ![c] = "adding"]
      /\ UNCHANGED <<charged, error, call, invokes, elapsed, fallback, ledger, late, livePrice>>
      /\ loaded' = [loaded EXCEPT ![c] = spent] /\ UNCHANGED <<spent, recorded, overlapped>>
  BY DEF WalletLoad, Goto, gatewayVars
<1>3. CallInv'
  BY <1>1, <1>2, MoveOn DEF CallInv, DataOK, Places, Busy
<1>4. LedgerOK /\ GatewayMove({})
  BY <1>1, <1>2, StillMove DEF ChargeInv
<1>5. LedgerOK'
  BY <1>2, <1>4 DEF LedgerOK, Fresh, Honours
<1>6. pc'[c] = "adding" /\ \A d \in Callers \ {c} : pc'[d] = pc[d]
  BY <1>1, <1>2 DEF CallInv
<1>7. ASSUME NEW d \in Callers \ {c} PROVE CallerOK(d)'
  BY <1>1, <1>2, <1>4, <1>6, BystanderOK DEF ChargeInv
<1>8. CallerOK(c)'
  <2>1. CallerOK(c) /\ pc[c] = "returned"
    BY <1>1, <1>2 DEF ChargeInv
  <2> QED
    BY <1>2, <1>6, <2>1 DEF CallerOK, KeysOK, Honours, UnansweredOK, AnsweredOK,
                            Fresh, LastKey
<1>9. ChargeInv'
  BY <1>5, <1>7, <1>8 DEF ChargeInv
<1>10. BooksTyped'
  BY <1>1, <1>2, <1>6 DEF BooksTyped, Pending
<1>11. BooksOK'
  BY <1>1, <1>2, <1>6 DEF BooksOK, BooksTyped, Pending
<1> QED
  BY <1>3, <1>9, <1>10, <1>11 DEF WalletInv

LEMMA WalletStoreInv ==
    ASSUME WalletInv, NEW c \in Callers, WalletStore(c)
    PROVE  WalletInv'
<1>1. CallInv /\ ChargeInv /\ BooksTyped /\ BooksOK
  BY DEF WalletInv
<1>2. /\ pc[c] = "adding" /\ Forget(c) /\ spent' = loaded[c] + charged[c]
      /\ recorded' = recorded \cup {LastKey(c)} /\ loaded' = [loaded EXCEPT ![c] = 0]
      /\ UNCHANGED overlapped
  BY DEF WalletStore, Added
<1>3. CallInv' /\ ChargeInv'
  BY <1>1, <1>2, ForgetInv, ForgetCharge
<1>4. /\ pc'[c] = "idle"
      /\ \A d \in Callers \ {c} : pc'[d] = pc[d] /\ call'[d] = call[d]
  BY <1>1, <1>2 DEF Forget, CallInv, DataOK
<1>5. loaded[c] \in Nat /\ charged[c] \in Nat /\ call[c].cost \in Nat /\ LastKey(c) \in Keys
  BY <1>1, <1>2, KeyTyped, ClientAssumption DEF CallInv, DataOK, CallOK, BooksTyped
<1>6. BooksTyped'
  BY <1>1, <1>2, <1>4, <1>5 DEF BooksTyped, Pending, Busy
<1>7. charged[c] <= call[c].cost
  <2>1. call[c].kind = "fixed"
    BY <1>1, <1>2 DEF BooksTyped, Pending
  <2> QED
    BY <1>1, <1>2, <2>1, ChargeBound
<1>8. BooksOK'
  <2> SUFFICES ASSUME ~overlapped
               PROVE  spent' <= Budget /\ \A d \in Callers : pc'[d] \notin Pending
    BY <1>2 DEF BooksOK, Pending, Busy
  <2>1. spent + call[c].cost <= Budget /\ loaded[c] = spent
    BY <1>1, <1>2 DEF BooksOK, Pending
  <2>2. spent' <= Budget
    BY <1>1, <1>2, <1>5, <1>7, <2>1, BudgetAssumption DEF BooksTyped
  <2>3. \A d \in Callers \ {c} : pc[d] \notin Pending
    BY <1>1, <1>2 DEF BooksOK, Pending
  <2> QED
    BY <1>4, <2>2, <2>3 DEF Pending, Busy
<1> QED
  BY <1>3, <1>6, <1>8 DEF WalletInv

LEMMA WalletRaisesInv ==
    ASSUME WalletInv, NEW c \in Callers, WalletRaises(c)
    PROVE  WalletInv'
<1>1. CallInv /\ ChargeInv /\ BooksTyped /\ BooksOK
  BY DEF WalletInv
<1>2. Forget(c) /\ UNCHANGED walletVars
  BY DEF WalletRaises
<1>3. CallInv' /\ ChargeInv'
  BY <1>1, <1>2, ForgetInv, ForgetCharge
<1>4. /\ pc'[c] = "idle"
      /\ \A d \in Callers \ {c} : pc'[d] = pc[d] /\ call'[d] = call[d]
  BY <1>1, <1>2 DEF Forget, CallInv, DataOK
<1>5. BooksTyped' /\ BooksOK'
  BY <1>1, <1>2, <1>4, WalletBooksKept DEF Pending, Busy
<1> QED
  BY <1>3, <1>5 DEF WalletInv

\* An invoke() under way keeps its price: it never searches for another.
LEMMA FixedCallStep ==
    ASSUME CallInv, ChargeInv, NEW c \in Callers, CallStep(c), call[c].kind = "fixed"
    PROVE  /\ pc[c] \in Busy /\ UNCHANGED call
           /\ \E where \in Busy \cup {"returned", "raised"} : pc' = [pc EXCEPT ![c] = where]
<1>1. pc[c] # "searching"
  BY DEF ChargeInv, CallerOK, AnsweredOK
<1>2. CASE PostAnswered(c) \/ PostUnreadable(c)
  BY <1>2 DEF PostAnswered, PostUnreadable, Return, Goto, Raise, Busy
<1>3. CASE PostRefused(c) \/ PostLost(c)
  BY <1>3 DEF PostRefused, PostLost, Goto, Raise, Busy
<1>4. CASE Poll(c) \/ PollFailed(c) \/ Sleep(c)
  BY <1>4 DEF Poll, PollFailed, Sleep, Return, Goto, Raise, Busy
<1> QED
  BY <1>1, <1>2, <1>3, <1>4 DEF CallStep, Search, SearchFailed

LEMMA WalletCallStepInv ==
    ASSUME WalletInv, NEW c \in Callers, CallStep(c), UNCHANGED walletVars
    PROVE  WalletInv'
<1>1. CallInv /\ ChargeInv /\ BooksTyped /\ BooksOK
  BY DEF WalletInv
<1>2. CallInv'
  BY <1>1, CallStepInv
<1>3. ChargeInv'
  BY <1>1, <1>2, CallStepCharge
<1>4. pc[c] \in Busy
  BY DEF CallStep, PostAnswered, PostUnreadable, PostRefused, PostLost, Poll, PollFailed,
         Sleep, Search, SearchFailed, Busy
<1>5. call[c].kind = "fixed"
  BY <1>1, <1>4 DEF BooksTyped, Pending
<1>6. UNCHANGED call /\ \E where \in Busy \cup {"returned", "raised"} :
                            pc' = [pc EXCEPT ![c] = where]
  BY <1>1, <1>5, FixedCallStep
<1>7. BooksTyped' /\ BooksOK'
  BY <1>1, <1>4, <1>6, WalletBooksKept DEF CallInv, Pending, Busy
<1> QED
  BY <1>2, <1>3, <1>7 DEF WalletInv

LEMMA WalletGatewayInv ==
    ASSUME WalletInv, GatewayStep, UNCHANGED walletVars
    PROVE  WalletInv'
<1>1. CallInv /\ ChargeInv /\ BooksTyped /\ BooksOK
  BY DEF WalletInv
<1>2. CallInv' /\ ChargeInv'
  BY <1>1, GatewayStepInv, GatewayStepCharge
<1>3. UNCHANGED <<pc, call>>
  BY DEF GatewayStep, Resolve, Settle, LateArrival, ChangePrice
<1>4. BooksTyped' /\ BooksOK'
  BY <1>1, <1>3, WalletBooksKept
<1> QED
  BY <1>2, <1>4 DEF WalletInv

LEMMA WalletNextInv ==
    ASSUME WalletInv, [WalletNext]_<<vars, walletVars>>
    PROVE  WalletInv'
<1>1. ASSUME NEW c \in Callers, WalletBegin(c) PROVE WalletInv'
  BY <1>1, WalletInvokeInv, WalletRefusesInv, WalletOtherInv DEF WalletBegin
<1>2. CASE UNCHANGED <<vars, walletVars>>
  <2>1. CallInv' /\ ChargeInv'
    <3>1. CallInv'
      BY <1>2 DEF WalletInv, vars, gatewayVars, CallInv, DataOK, CallOK
    <3> QED
      BY <1>2, <3>1, StutterCharge DEF WalletInv
  <2>2. BooksTyped' /\ BooksOK'
    BY <1>2, WalletBooksKept DEF WalletInv, vars
  <2> QED
    BY <2>1, <2>2 DEF WalletInv
<1> QED
  BY <1>1, <1>2, WalletLoadInv, WalletStoreInv, WalletRaisesInv, WalletCallStepInv,
     WalletGatewayInv DEF WalletNext

LEMMA WalletInitInv == ASSUME WalletInit PROVE WalletInv
<1>1. CallInv /\ ChargeInv
  BY InitCallInv, InitCharge DEF WalletInit
<1>2. \A c \in Callers : pc[c] \notin Pending
  BY DEF WalletInit, Init, Pending, Busy
<1>3. BooksTyped
  BY <1>2 DEF WalletInit, BooksTyped
<1>4. BooksOK
  BY <1>2, BudgetAssumption DEF WalletInit, BooksOK, Pending
<1> QED
  BY <1>1, <1>3, <1>4 DEF WalletInv

LEMMA WalletInvariant == WalletSpec => []WalletInv
  BY WalletInitInv, WalletNextInv, PTL DEF WalletSpec

\* Shape of the wallet's state: in particular the books never go below zero.
THEOREM WalletTypeCorrect == WalletSpec => []WalletTypeOK
<1>1. WalletInv => WalletTypeOK
  BY DEF WalletInv, CallInv, Places, BooksTyped, WalletTypeOK
<1> QED
  BY <1>1, WalletInvariant, PTL

\* While threads take turns with the wallet, what it has recorded as spent is
\* within budget_usdc (wallet.py: the guard of invoke against the later addition).
THEOREM BooksWithinBudget == WalletSpec => []SpentWithinBudget
<1>1. WalletInv => SpentWithinBudget
  BY DEF WalletInv, BooksOK, SpentWithinBudget
<1> QED
  BY <1>1, WalletInvariant, PTL

-----------------------------------------------------------------------------
\* Sums of charges.  Charges that stay leave the sum as it is.
LEMMA SumStays ==
    ASSUME UNCHANGED recorded, \A k \in recorded : ledger'[k].charged = ledger[k].charged
    PROVE  Units(recorded)' = Units(recorded) /\ Total(recorded)' = Total(recorded)
<1>1. Units(recorded)' = Units(recorded)
  BY DEF Units
<1> QED
  BY <1>1 DEF Total

\* A charge recorded anew adds to it.
LEMMA SumGrows ==
    ASSUME NEW k, k \notin recorded, recorded' = recorded \cup {k}, UNCHANGED ledger,
           ledger[k].charged \in Nat, IsFiniteSet(Units(recorded))
    PROVE  /\ IsFiniteSet(Units(recorded))'
           /\ Total(recorded) \in Nat
           /\ Total(recorded)' = Total(recorded) + ledger[k].charged
<1> DEFINE amount == ledger[k].charged
           old == Units(recorded)
           added == {k} \X (1..amount)
<1>1. Units(recorded)' = old \cup added
  BY DEF Units
<1>2. old \cap added = {}
  BY DEF Units
<1>3. IsFiniteSet(added) /\ Cardinality(added) = amount
  <2>1. IsFiniteSet({k}) /\ Cardinality({k}) = 1
    BY FS_Singleton
  <2>2. amount \in Nat /\ 1 \in Int /\ amount \in Int
    OBVIOUS
  <2> HIDE DEF amount
  <2>3. IsFiniteSet(1..amount) /\ Cardinality(1..amount) = amount
    <3>1. /\ IsFiniteSet(1..amount)
          /\ Cardinality(1..amount) = IF 1 > amount THEN 0 ELSE amount - 1 + 1
      BY <2>2, FS_Interval
    <3> QED
      BY <2>2, <3>1
  <2>4. IsFiniteSet(added) /\ Cardinality(added) = Cardinality({k}) * Cardinality(1..amount)
    BY <2>1, <2>3, FS_Product
  <2>5. Cardinality(added) = 1 * amount
    BY <2>1, <2>3, <2>4
  <2> QED
    BY <2>2, <2>4, <2>5
<1>4. IsFiniteSet(old) /\ Cardinality(old) \in Nat
  BY FS_CardinalityType
<1>5. Total(recorded) = Cardinality(old) /\ Total(recorded)' = Cardinality(old \cup added)
  BY <1>1 DEF Total
<1>6. amount \in Nat
  OBVIOUS
<1> HIDE DEF added, old, amount
<1>7. /\ IsFiniteSet(old \cup added)
      /\ Cardinality(old \cup added) = Cardinality(old) + amount - Cardinality({})
  BY <1>2, <1>3, <1>4, FS_Union
<1>8. Cardinality({}) = 0
  BY FS_EmptySet
<1>9. Cardinality(old \cup added) = Cardinality(old) + amount
  BY <1>4, <1>6, <1>7, <1>8
<1> QED
  BY <1>1, <1>4, <1>5, <1>7, <1>9 DEF amount

\* A POST writes an invocation only where there was none.
LEMMA AnsweredKeeps ==
    ASSUME CallInv, NEW c \in Callers, pc[c] \in Busy, Answered(RequestOf(c)),
           NEW k \in Keys, ledger[k] # Nothing
    PROVE  ledger'[k] = ledger[k]
<1>1. RequestOf(c) \in Request /\ RequestOf(c).key \in Keys
  BY KeyTyped DEF Request
<1>2. CASE Accept(RequestOf(c))
  <2>1. ledger[RequestOf(c).key] = Nothing
    BY <1>1, <1>2, AcceptWrites
  <2>2. PICK e \in Entry : ledger' = [ledger EXCEPT ![RequestOf(c).key] = e]
    BY <1>1, <1>2, AcceptWrites
  <2> QED
    BY <2>1, <2>2 DEF CallInv, DataOK
<1> QED
  BY <1>2 DEF Answered

\* The last word on an invocation stays.
LEMMA FinalStays ==
    ASSUME WalletInv, NEW k \in Keys, ledger[k] # Nothing, IsFinal(ledger[k].status),
           GatewayStep \/ \E c \in Callers : CallStep(c)
    PROVE  /\ ledger'[k] # Nothing /\ IsFinal(ledger'[k].status)
           /\ ledger'[k].charged = ledger[k].charged
<1>1. CallInv /\ ChargeInv
  BY DEF WalletInv
<1>2. CASE GatewayStep
  BY <1>1, <1>2, GatewayStepMove DEF ChargeInv, GatewayMove
<1>3. ASSUME NEW c \in Callers, CallStep(c) PROVE ledger'[k] = ledger[k]
  <2>1. CASE PostAnswered(c) \/ PostUnreadable(c) \/ PostLost(c)
    <3>1. pc[c] \in Busy /\ (Answered(RequestOf(c)) \/ UNCHANGED ledger)
      BY <2>1 DEF PostAnswered, PostUnreadable, PostLost, Busy
    <3> QED
      BY <1>1, <3>1, AnsweredKeeps
  <2>2. CASE PostRefused(c) \/ Poll(c) \/ PollFailed(c) \/ Sleep(c) \/ Search(c) \/ SearchFailed(c)
    BY <2>2 DEF PostRefused, Poll, PollFailed, Sleep, Search, SearchFailed, gatewayVars
  <2> QED
    BY <1>3, <2>1, <2>2 DEF CallStep
<1> QED
  BY <1>2, <1>3

\* A step that records nothing, and draws no key a second time.
LEMMA SumKept ==
    ASSUME SumInv, UNCHANGED <<spent, loaded, recorded>>, overlapped => overlapped',
           \A k \in recorded :
               ledger[k] # Nothing /\ IsFinal(ledger[k].status) =>
                   /\ ledger'[k] # Nothing /\ IsFinal(ledger'[k].status)
                   /\ ledger'[k].charged = ledger[k].charged,
           \A c \in Callers, n \in 0..MaxInvokes :
               n >= invokes'[c] - Len(call'[c].keys) => n >= invokes[c] - Len(call[c].keys)
    PROVE  SumInv'
<1> SUFFICES ASSUME CallerKeys = {} PROVE UnrecordedOK' /\ SumOK'
  BY DEF SumInv
<1>1. UnrecordedOK /\ SumOK
  BY DEF SumInv
<1>2. UnrecordedOK'
  BY <1>1 DEF UnrecordedOK
<1>3. Units(recorded)' = Units(recorded) /\ Total(recorded)' = Total(recorded)
  BY <1>1, SumStays DEF SumOK
<1>4. SumOK'
  BY <1>1, <1>3 DEF SumOK
<1> QED
  BY <1>2, <1>4

LEMMA WalletBeginSum ==
    ASSUME WalletInv, SumInv, NEW c \in Callers, WalletBegin(c)
    PROVE  SumInv'
<1>1. CallInv /\ ChargeInv
  BY DEF WalletInv
<1>2. /\ UNCHANGED <<spent, loaded, recorded, ledger>> /\ (overlapped => overlapped')
      /\ pc[c] = "idle"
  <2>1. ASSUME NEW price \in Prices, NEW chosen \in CallerKeys \cup {NoKey},
               WalletInvoke(c, chosen, price)
        PROVE  /\ UNCHANGED <<spent, loaded, recorded, ledger>> /\ (overlapped => overlapped')
               /\ pc[c] = "idle"
    BY <2>1 DEF WalletInvoke, StartCall, RejectArguments, gatewayVars
  <2>2. ASSUME NEW price, WalletRefuses(c, price)
        PROVE  UNCHANGED <<walletVars, ledger>> /\ pc[c] = "idle"
    BY <2>2 DEF WalletRefuses, RejectArguments, gatewayVars
  <2>3. ASSUME NEW k, WalletOther(c, k)
        PROVE  UNCHANGED <<walletVars, ledger>> /\ pc[c] = "idle"
    BY <2>3 DEF WalletOther, RejectArguments, gatewayVars
  <2> QED
    BY <2>1, <2>2, <2>3 DEF WalletBegin, walletVars
<1>3. \A d \in Callers : invokes[d] \in Nat
  BY <1>1, ClientAssumption DEF CallInv, DataOK
<1>4. Len(call[c].keys) = 0
  BY <1>1, <1>2 DEF ChargeInv, CallerOK, AnsweredOK
<1>5. \/ /\ invokes'[c] = invokes[c] + 1 /\ Len(call'[c].keys) = 1
      \/ invokes'[c] = invokes[c] /\ Len(call'[c].keys) = 0
  <2>1. ASSUME NEW price \in Prices, NEW chosen \in CallerKeys \cup {NoKey},
               StartCall(c, "fixed", chosen, price, 0)
        PROVE  invokes'[c] = invokes[c] + 1 /\ Len(call'[c].keys) = 1
    BY <1>1, <2>1 DEF StartCall, CallInv, DataOK
  <2>2. ASSUME NEW exception, RejectArguments(c, exception)
        PROVE  invokes'[c] = invokes[c] /\ Len(call'[c].keys) = 0
    BY <1>4, <2>2 DEF RejectArguments
  <2>3. ASSUME NEW k \in EntryPoints, WalletOther(c, k)
        PROVE  invokes'[c] = invokes[c] /\ Len(call'[c].keys) = 0
    BY <2>2, <2>3 DEF WalletOther
  <2> QED
    BY <2>1, <2>2, <2>3 DEF WalletBegin, WalletInvoke, WalletRefuses
<1>6. \A d \in Callers \ {c} : invokes'[d] = invokes[d] /\ call'[d] = call[d]
  BY <1>1 DEF WalletBegin, WalletInvoke, WalletRefuses, WalletOther, StartCall,
              RejectArguments, CallInv, DataOK
<1>7. ASSUME NEW d \in Callers, NEW n \in 0..MaxInvokes, n >= invokes'[d] - Len(call'[d].keys)
      PROVE  n >= invokes[d] - Len(call[d].keys)
  <2>1. CASE d # c
    BY <1>6, <1>7, <2>1
  <2>2. CASE d = c
    <3>1. n >= invokes'[c] - Len(call'[c].keys) /\ n \in Int /\ invokes[c] \in Nat
      BY <1>3, <1>7, <2>2
    <3>2. n >= invokes[c]
      <4>1. CASE invokes'[c] = invokes[c] + 1 /\ Len(call'[c].keys) = 1
        <5>1. n >= (invokes[c] + 1) - 1
          BY <3>1, <4>1
        <5> QED
          BY <3>1, <5>1
      <4>2. CASE invokes'[c] = invokes[c] /\ Len(call'[c].keys) = 0
        <5>1. n >= invokes[c] - 0
          BY <3>1, <4>2
        <5> QED
          BY <3>1, <5>1
      <4> QED
        BY <1>5, <4>1, <4>2
    <3>3. invokes[c] - Len(call[c].keys) = invokes[c]
      BY <1>4, <3>1
    <3> QED
      BY <2>2, <3>2, <3>3
  <2> QED
    BY <2>1, <2>2
<1> QED
  BY <1>2, <1>7, SumKept

LEMMA WalletLoadSum ==
    ASSUME WalletInv, SumInv, NEW c \in Callers, WalletLoad(c)
    PROVE  SumInv'
<1> SUFFICES ASSUME CallerKeys = {} PROVE UnrecordedOK' /\ SumOK'
  BY DEF SumInv
<1>1. UnrecordedOK /\ SumOK
  BY DEF SumInv
<1>2. /\ loaded' = [loaded EXCEPT ![c] = spent]
      /\ UNCHANGED <<spent, recorded, overlapped, ledger, call, invokes>>
  BY DEF WalletLoad, gatewayVars
<1>3. Units(recorded)' = Units(recorded) /\ Total(recorded)' = Total(recorded)
  BY <1>2, SumStays
<1>4. UnrecordedOK'
  BY <1>1, <1>2 DEF UnrecordedOK
<1>5. \A d \in Callers : loaded'[d] = spent \/ loaded'[d] = loaded[d]
  BY <1>2 DEF WalletInv, BooksTyped
<1>6. SumOK'
  BY <1>1, <1>2, <1>3, <1>5 DEF SumOK
<1> QED
  BY <1>4, <1>6

LEMMA WalletStoreSum ==
    ASSUME WalletInv, SumInv, NEW c \in Callers, WalletStore(c)
    PROVE  SumInv'
<1> DEFINE key == LastKey(c)
<1> SUFFICES ASSUME CallerKeys = {} PROVE UnrecordedOK' /\ SumOK'
  BY DEF SumInv
<1>1. UnrecordedOK /\ SumOK /\ CallInv /\ CallerOK(c) /\ BooksTyped /\ BooksOK
  BY DEF SumInv, WalletInv, ChargeInv
<1>2. /\ pc[c] = "adding" /\ spent' = loaded[c] + charged[c]
      /\ recorded' = recorded \cup {key} /\ loaded' = [loaded EXCEPT ![c] = 0]
      /\ call' = [call EXCEPT ![c] = NoCall]
      /\ UNCHANGED <<overlapped, ledger, invokes>>
  BY DEF WalletStore, Added, Forget, gatewayVars
<1>3. call[c].chosen = NoKey /\ invokes[c] \in Nat /\ Len(call[c].keys) \in Nat \ {0}
  BY <1>1, <1>2, ClientAssumption DEF CallInv, CallOK, Call, DataOK
<1>4. key = <<c, invokes[c] - 1>> /\ key \in Keys
  BY <1>1, <1>2, <1>3, LastKeyFacts
<1>5. invokes[c] - 1 \in 0..MaxInvokes
  BY <1>4 DEF Keys, AutoKeys
<1>6. key \notin recorded
  BY <1>1, <1>3, <1>4, <1>5 DEF UnrecordedOK
<1>7. /\ ledger[key] # Nothing /\ IsFinal(ledger[key].status)
      /\ ledger[key].charged = charged[c]
  BY <1>1, <1>2 DEF CallerOK, AnsweredOK
<1>8. charged[c] \in Nat /\ loaded[c] \in Nat
  <2>1. charged[c] \in Prices \cup {0}
    BY <1>1 DEF CallInv, DataOK
  <2>2. loaded[c] \in Nat
    BY <1>1 DEF BooksTyped
  <2>3. Prices \cup {0} \subseteq Nat
    BY ClientAssumption
  <2> QED
    BY <2>1, <2>2, <2>3
<1> HIDE DEF key
<1>9. /\ IsFiniteSet(Units(recorded))' /\ Total(recorded) \in Nat
      /\ Total(recorded)' = Total(recorded) + charged[c]
  BY <1>1, <1>2, <1>6, <1>7, <1>8, SumGrows DEF SumOK
<1>10. UnrecordedOK'
  <2> SUFFICES ASSUME NEW d \in Callers, NEW n \in 0..MaxInvokes,
                      n >= invokes[d] - Len(call'[d].keys)
               PROVE  <<d, n>> \notin recorded'
    BY <1>2 DEF UnrecordedOK
  <2>1. CASE d # c
    <3>1. call'[d] = call[d]
      BY <1>1, <1>2, <2>1 DEF CallInv, DataOK
    <3> QED
      BY <1>1, <1>2, <1>4, <2>1, <3>1 DEF UnrecordedOK
  <2>2. CASE d = c
    <3>1. Len(call'[c].keys) = 0
      BY <1>1, <1>2 DEF CallInv, DataOK, NoCall
    <3>2. n >= invokes[c]
      BY <1>3, <2>2, <3>1
    <3>3. n >= invokes[c] - Len(call[c].keys) /\ n # invokes[c] - 1
      BY <1>3, <3>2
    <3> QED
      BY <1>1, <1>2, <1>4, <2>2, <3>3 DEF UnrecordedOK
  <2> QED
    BY <2>1, <2>2
<1>11. SumOK'
  <2>1. loaded[c] <= Total(recorded)
    BY <1>1 DEF SumOK
  <2>2. spent' <= Total(recorded)'
    BY <1>2, <1>8, <1>9, <2>1
  <2>3. ASSUME NEW d \in Callers PROVE loaded'[d] <= Total(recorded)'
    <3>1. loaded'[d] = 0 \/ loaded'[d] = loaded[d]
      BY <1>1, <1>2 DEF BooksTyped
    <3>2. loaded[d] \in Nat /\ loaded[d] <= Total(recorded)
      BY <1>1 DEF BooksTyped, SumOK
    <3> QED
      BY <1>8, <1>9, <3>1, <3>2
  <2>4. ~overlapped' => spent' = Total(recorded)'
    <3> SUFFICES ASSUME ~overlapped PROVE spent' = Total(recorded)'
      BY <1>2
    <3>1. loaded[c] = spent /\ spent = Total(recorded)
      BY <1>1, <1>2 DEF BooksOK, SumOK
    <3> QED
      BY <1>2, <1>9, <3>1
  <2>5. \A k \in recorded' : ledger'[k] # Nothing /\ IsFinal(ledger'[k].status)
    BY <1>1, <1>2, <1>7 DEF SumOK
  <2> QED
    BY <1>9, <2>2, <2>3, <2>4, <2>5 DEF SumOK
<1> QED
  BY <1>10, <1>11

LEMMA WalletRaisesSum ==
    ASSUME WalletInv, SumInv, NEW c \in Callers, WalletRaises(c)
    PROVE  SumInv'
<1>1. CallInv
  BY DEF WalletInv
<1>2. /\ call' = [call EXCEPT ![c] = NoCall]
      /\ UNCHANGED <<spent, loaded, recorded, overlapped, ledger, invokes>>
  BY DEF WalletRaises, Forget, gatewayVars, walletVars
<1>3. ASSUME NEW d \in Callers, NEW n \in 0..MaxInvokes, n >= invokes'[d] - Len(call'[d].keys)
      PROVE  n >= invokes[d] - Len(call[d].keys)
  <2>1. invokes[d] \in Nat /\ Len(call[d].keys) \in Nat
    BY <1>1, ClientAssumption DEF CallInv, DataOK, Call, NoCall
  <2>2. Len(call'[d].keys) = 0 \/ call'[d] = call[d]
    BY <1>1, <1>2 DEF CallInv, DataOK, NoCall
  <2> QED
    BY <1>2, <1>3, <2>1, <2>2
<1> QED
  BY <1>2, <1>3, SumKept

LEMMA WalletNextSum ==
    ASSUME WalletInv, SumInv, [WalletNext]_<<vars, walletVars>>
    PROVE  SumInv'
<1>1. ASSUME NEW c \in Callers, CallStep(c), UNCHANGED walletVars PROVE SumInv'
  <2>1. pc[c] \in Busy
    BY <1>1 DEF CallStep, PostAnswered, PostUnreadable, PostRefused, PostLost, Poll, PollFailed,
                Sleep, Search, SearchFailed, Busy
  <2>2. call[c].kind = "fixed"
    BY <2>1 DEF WalletInv, BooksTyped, Pending
  <2>3. UNCHANGED call
    BY <1>1, <2>2, FixedCallStep DEF WalletInv
  <2>4. UNCHANGED invokes
    <3>1. pc[c] # "searching"
      BY <2>2 DEF WalletInv, ChargeInv, CallerOK, AnsweredOK
    <3> QED
      BY <1>1, <3>1 DEF CallStep, PostAnswered, PostUnreadable, PostRefused, PostLost, Poll,
                        PollFailed, Sleep, Search, SearchFailed
  <2>5. recorded \subseteq Keys
    BY DEF WalletInv, BooksTyped
  <2> QED
    BY <1>1, <2>3, <2>4, <2>5, FinalStays, SumKept DEF walletVars
<1>2. CASE GatewayStep /\ UNCHANGED walletVars
  <2>1. UNCHANGED <<call, invokes>>
    BY <1>2 DEF GatewayStep, Resolve, Settle, LateArrival, ChangePrice
  <2>2. recorded \subseteq Keys
    BY DEF WalletInv, BooksTyped
  <2> QED
    BY <1>2, <2>1, <2>2, FinalStays, SumKept DEF walletVars
<1>3. CASE UNCHANGED <<vars, walletVars>>
  BY <1>3, SumKept DEF vars, walletVars, gatewayVars
<1> QED
  BY <1>1, <1>2, <1>3, WalletBeginSum, WalletLoadSum, WalletStoreSum, WalletRaisesSum
  DEF WalletNext

LEMMA WalletInitSum == ASSUME WalletInit PROVE SumInv
<1>1. spent = 0 /\ recorded = {} /\ loaded = [c \in Callers |-> 0]
  BY DEF WalletInit
<1>2. Units(recorded) = {}
  BY <1>1 DEF Units
<1>3. IsFiniteSet(Units(recorded)) /\ Total(recorded) = 0
  BY <1>2, FS_EmptySet DEF Total
<1> QED
  BY <1>1, <1>3 DEF SumInv, UnrecordedOK, SumOK

LEMMA SumInvariant == WalletSpec => []SumInv
<1>1. WalletInv /\ SumInv /\ [WalletNext]_<<vars, walletVars>> => SumInv'
  BY WalletNextSum
<1> QED
  BY <1>1, WalletInitSum, WalletInvariant, PTL DEF WalletSpec

\* While threads take turns, and no key is repeated, _spent_usdc is what the
\* gateway charged for the calls that returned, to the unit (wallet.py: invoke
\* adds result.charged_usdc, once for each call).
THEOREM BooksAreExact == WalletSpec => []SpentIsWhatReturnedCallsCost
<1>1. SumInv => SpentIsWhatReturnedCallsCost
  BY DEF SumInv, SumOK, SpentIsWhatReturnedCallsCost
<1> QED
  BY <1>1, SumInvariant, PTL

\* However threads interleave their reads and writes of _spent_usdc, what it
\* holds is never more than was charged: an update may be lost, none is doubled.
THEOREM BooksNeverOverstated == WalletSpec => []SpentNeverOverstated
<1>1. SumInv => SpentNeverOverstated
  BY DEF SumInv, SumOK, SpentNeverOverstated
<1> QED
  BY <1>1, SumInvariant, PTL

-----------------------------------------------------------------------------
\* The wallet implements the paid calls too.  Its invoke() is told the charge when
\* the client's returns, so that reading and writing the books go unseen.
LEMMA WalletNextMaps ==
    ASSUME ClientInv, ChargeInv', [WalletNext]_<<vars, walletVars>>
    PROVE  MapInv' /\ AbstractStep
<1>1. ASSUME NEW c \in Callers, WalletBegin(c) PROVE MapInv' /\ AbstractStep
  <2>1. ASSUME NEW price \in Prices, NEW chosen \in CallerKeys \cup {NoKey},
               StartCall(c, "fixed", chosen, price, 0)
        PROVE  MapInv' /\ AbstractStep
    <3>1. "fixed" \in Kinds
      BY DEF Kinds
    <3> QED
      BY <2>1, <3>1, StartCallMap, StartCallMaps
  <2>2. ASSUME NEW exception, RejectArguments(c, exception) PROVE MapInv' /\ AbstractStep
    BY <2>2, RejectArgumentsMap, RejectArgumentsMaps
  <2> QED
    BY <1>1, <2>1, <2>2 DEF WalletBegin, WalletInvoke, WalletRefuses, WalletOther
<1>2. ASSUME NEW c \in Callers, WalletLoad(c) PROVE MapInv' /\ AbstractStep
  <2>1. /\ pc[c] = "returned" /\ pc' = [pc EXCEPT ![c] = "adding"]
        /\ UNCHANGED <<call, charged, error, ledger, late>>
    BY <1>2 DEF WalletLoad, Goto, gatewayVars
  <2>2. pc'[c] = "adding" /\ \A d \in Callers \ {c} : pc'[d] = pc[d]
    BY <2>1 DEF ClientInv, CallInv
  <2>3. MapInv'
    <3>1. \A d \in Callers : LimitOK(d)'
      BY <2>1, StillHandles, LimitMoves DEF Posted
    <3>2. ASSUME NEW d \in Callers PROVE RestOK(d)'
      <4>1. RestOK(d)
        BY DEF ClientInv, MapInv
      <4> QED
        BY <2>1, <2>2, <4>1 DEF RestOK, NoCall
    <3> QED
      BY <3>1, <3>2 DEF MapInv
  <2>4. \A d \in Callers : PhaseOf(d)' = PhaseOf(d)
    BY <2>1, <2>2 DEF PhaseOf
  <2>5. UNCHANGED Paid!vars
    BY <2>1, <2>4, Unseen DEF BookedAs, ClientInv
  <2> QED
    BY <2>3, <2>5 DEF AbstractStep
<1>3. ASSUME NEW c \in Callers, WalletStore(c) \/ WalletRaises(c) PROVE MapInv' /\ AbstractStep
  <2>1. pc[c] \in {"returned", "adding", "raised"} /\ Forget(c)
    BY <1>3 DEF WalletStore, WalletRaises
  <2> QED
    BY <2>1, ForgetMap, ForgetMaps
<1>4. ASSUME NEW c \in Callers, CallStep(c) PROVE MapInv' /\ AbstractStep
  BY <1>4, CallStepMap, CallStepMaps
<1>5. CASE GatewayStep
  BY <1>5, GatewayStepMap, GatewayStepMaps
<1>6. CASE UNCHANGED vars
  BY <1>6, StutterMap, StillMaps DEF vars, gatewayVars
<1> QED
  BY <1>1, <1>2, <1>3, <1>4, <1>5, <1>6 DEF WalletNext

\* A budget takes nothing away from what the runtime promises: every behaviour of
\* threads that share a wallet is one of paid calls, with the same keys, limits
\* and outcomes (wallet.py: invoke hands on what super().invoke returns or raises).
THEOREM WalletImplementsPaidCalls == WalletSpec => ImplementsPaidCalls
<1>1. WalletInit => MapInv /\ Paid!Init
  BY InitMap, InitMaps DEF WalletInit
<1>2. WalletInv /\ MapInv /\ WalletInv' /\ [WalletNext]_<<vars, walletVars>>
        => MapInv' /\ [Paid!Next]_(Paid!vars)
  BY WalletNextMaps DEF WalletInv, ClientInv, AbstractStep
<1> QED
  BY <1>1, <1>2, WalletInvariant, PTL DEF WalletSpec, ImplementsPaidCalls, Paid!Spec
=============================================================================

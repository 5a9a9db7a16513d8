---------------------------- MODULE AgentWallet ----------------------------
(***************************************************************************)
(* AgentWallet (python/synapse_client/wallet.py): a SynapseClient whose    *)
(* invoke() compares a local budget with what it has spent, delegates to   *)
(* SynapseClient.invoke, and then adds the charge of the result.  Threads  *)
(* that share the wallet share _spent_usdc without a lock: the comparison  *)
(* and the addition are apart, and the addition itself is a read and a     *)
(* later write of the attribute.                                           *)
(*                                                                         *)
(* In this module EntryPoints are the entry points tried on the wallet;    *)
(* only invoke() ("fixed") gets through.                                   *)
(***************************************************************************)
EXTENDS SynapseClient

CONSTANTS Budget       \* budget_usdc

ASSUME BudgetAssumption == Budget \in Nat

VARIABLES
    spent,      \* _spent_usdc
    loaded,     \* _spent_usdc as read by the addition that a caller is in
    recorded,   \* history: keys whose charge has been added to spent
    overlapped  \* history: an invoke() began while another one was under way

walletVars == <<spent, loaded, recorded, overlapped>>

-----------------------------------------------------------------------------
\* Mutants: the guard looks at what is spent, not at what it will be; the
\* asserted price is added, charged or not; the charge is taken off.
AffordsWhileAny(price) == spent < Budget
AddedCost(c) == loaded[c] + call[c].cost
AddedMinus(c) == loaded[c] - charged[c]

Affords(price) == spent + price <= Budget
Added(c) == loaded[c] + charged[c]

\* Callers in an invoke(), from the guard to the end of the addition.
Invoking == {c \in Callers : pc[c] \notin {"idle", "raised"}}

\* AgentWallet.invoke: the budget guard, then SynapseClient.invoke, which
\* checks its arguments after the guard.
WalletInvoke(c, chosen, price) ==
    /\ Affords(price)
    /\ \/ StartCall(c, "fixed", chosen, price, 0)
       \/ RejectArguments(c, "ValueError")
    /\ overlapped' = (overlapped \/ Invoking # {})
    /\ UNCHANGED <<spent, loaded, recorded>>

WalletRefuses(c, price) ==
    /\ ~Affords(price)
    /\ RejectArguments(c, "InsufficientFundsError")
    /\ UNCHANGED walletVars

\* invoke_llm and invoke_with_rediscovery are inherited and pass the payload
\* by position, which AgentWallet.invoke does not take: TypeError, no request.
WalletOther(c, k) ==
    /\ k # "fixed"
    /\ RejectArguments(c, "TypeError")
    /\ UNCHANGED walletVars

\* self._spent_usdc = round(self._spent_usdc + float(result.charged_usdc), 6):
\* the attribute is read, and written later.
WalletLoad(c) ==
    /\ pc[c] = "returned"
    /\ Goto(c, "adding")
    /\ loaded' = [loaded EXCEPT ![c] = spent]
    /\ UNCHANGED <<call, invokes, elapsed, fallback, gatewayVars, spent, recorded, overlapped>>

WalletStore(c) ==
    /\ pc[c] = "adding"
    /\ spent' = Added(c)
    /\ recorded' = recorded \cup {LastKey(c)}
    /\ loaded' = [loaded EXCEPT ![c] = 0]
    /\ Forget(c)
    /\ UNCHANGED overlapped

\* Mutant: a call that raised is counted at its asserted price.
WalletRaisesCharged(c) ==
    /\ pc[c] = "raised" /\ Forget(c)
    /\ spent' = spent + call[c].cost /\ UNCHANGED <<loaded, recorded, overlapped>>

\* An exception of SynapseClient.invoke leaves _spent_usdc as it was.
WalletRaises(c) ==
    /\ pc[c] = "raised" /\ Forget(c)
    /\ UNCHANGED walletVars

WalletInit ==
    /\ Init
    /\ spent = 0 /\ loaded = [c \in Callers |-> 0] /\ recorded = {} /\ overlapped = FALSE

WalletBegin(c) ==
    \/ \E price \in Prices :
         \/ \E chosen \in CallerKeys \cup {NoKey} : WalletInvoke(c, chosen, price)
         \/ WalletRefuses(c, price)
    \/ \E k \in EntryPoints : WalletOther(c, k)

WalletNext ==
    \/ \E c \in Callers :
         \/ WalletBegin(c) \/ WalletLoad(c) \/ WalletStore(c) \/ WalletRaises(c)
         \/ CallStep(c) /\ UNCHANGED walletVars
    \/ GatewayStep /\ UNCHANGED walletVars

WalletSpec == WalletInit /\ [][WalletNext]_<<vars, walletVars>>

-----------------------------------------------------------------------------
\* What the gateway has charged for a set of invocations, each micro-USDC of
\* which counts on its own.
Units(keys) == UNION {{k} \X (1..ledger[k].charged) : k \in keys}
Total(keys) == Cardinality(Units(keys))

\* Shape of the state.
WalletTypeOK ==
    /\ pc \in [Callers -> Busy \cup {"idle", "returned", "adding", "raised"}]
    /\ spent \in Nat
    /\ loaded \in [Callers -> Nat]
    /\ recorded \subseteq Keys
    /\ overlapped \in BOOLEAN
    /\ DataOK

\* While the threads that share the wallet take turns, what it records as spent
\* stays within the budget, though the guard compares the asserted price and the
\* addition takes the charge.
SpentWithinBudget == ~overlapped => spent <= Budget

\* While threads take turns, and no key is repeated, the wallet's figure is
\* exactly what the gateway charged for the calls that returned: what it misses
\* are the calls that raised.
SpentIsWhatReturnedCallsCost ==
    ~overlapped /\ CallerKeys = {} => spent = Total(recorded)

\* However many threads add at once, no charge is added twice (while no key is
\* repeated): lost updates make the figure too low and never too high.
SpentNeverOverstated == CallerKeys = {} => spent <= Total(recorded)

\* The wallet takes no more from the gateway than its budget.
BudgetCapsCharges == Total(Keys) <= Budget
=============================================================================

----------------------------- MODULE PaidCalls -----------------------------
(***************************************************************************)
(* What the consumer runtime promises of a paid call, with no word of      *)
(* requests, polling or rediscovery.  A call is opened with an idempotency *)
(* key and a limit; it may go on under a further key and limit as long as  *)
(* it has been booked under none; it ends by being told the final charge,  *)
(* refused, or unsure.  The books take at most one of the keys of a call   *)
(* that owns them, at most at its limit, none that was refused, and never  *)
(* change a final charge.                                                  *)
(***************************************************************************)
EXTENDS Naturals

CONSTANTS
    Callers, Keys,
    Amounts     \* natural numbers, zero among them

VARIABLES
    phase,   \* "none", "open", "told", "refused" or "unsure"
    keys,    \* the idempotency keys of the call
    own,     \* whether no other call may use them
    limit,   \* what the call may cost
    told,    \* the charge it was told
    booked,  \* which keys the gateway has taken, and whether for good
    amount   \* the charge under each key

callVars == <<phase, keys, own, limit, told>>
bookVars == <<booked, amount>>
vars == <<callVars, bookVars>>

Free(k) == booked[k] = "free"

\* The key may be booked for a (or for at most a, while it is only taken).
Allowed(k, a) ==
    \A c \in Callers : own[c] /\ k \in keys[c] =>
        /\ phase[c] # "refused"
        /\ a <= limit[c]
        /\ \A other \in keys[c] \ {k} : Free(other)

Book(k) ==
    /\ Free(k)
    /\ \E s \in {"taken", "final"}, a \in Amounts :
         /\ Allowed(k, a)
         /\ booked' = [booked EXCEPT ![k] = s]
         /\ amount' = [amount EXCEPT ![k] = a]

Finish(k) ==
    /\ booked[k] = "taken"
    /\ booked' = [booked EXCEPT ![k] = "final"]
    /\ \E a \in Amounts : Allowed(k, a) /\ amount' = [amount EXCEPT ![k] = a]
    /\ UNCHANGED callVars

BookAlone(k) == Book(k) /\ UNCHANGED callVars

\* The end of a call may be the moment at which it is booked.
BookedBy(c) == UNCHANGED bookVars \/ \E k \in keys[c] : Book(k)

Open(c) ==
    /\ phase[c] = "none"
    /\ \E k \in Keys, mine \in BOOLEAN, a \in Amounts :
         /\ mine => Free(k) /\ \A d \in Callers : k \notin keys[d]
         /\ ~mine => \A d \in Callers : k \in keys[d] => ~own[d]
         /\ phase' = [phase EXCEPT ![c] = "open"]
         /\ keys' = [keys EXCEPT ![c] = {k}]
         /\ own' = [own EXCEPT ![c] = mine]
         /\ limit' = [limit EXCEPT ![c] = a]
    /\ UNCHANGED <<told, bookVars>>

GoOn(c) ==
    /\ phase[c] = "open"
    /\ own[c] => \A k \in keys[c] : Free(k)
    /\ \E k \in Keys, a \in Amounts :
         /\ own[c] => Free(k) /\ \A d \in Callers \ {c} : k \notin keys[d]
         /\ keys' = [keys EXCEPT ![c] = @ \cup {k}]
         /\ limit' = [limit EXCEPT ![c] = a]
    /\ UNCHANGED <<phase, own, told, bookVars>>

Tell(c) ==
    /\ phase[c] = "open"
    /\ BookedBy(c)
    /\ \E k \in keys[c] :
         /\ booked'[k] = "final"
         /\ told' = [told EXCEPT ![c] = amount'[k]]
    /\ phase' = [phase EXCEPT ![c] = "told"]
    /\ UNCHANGED <<keys, own, limit>>

Refuse(c) ==
    /\ phase[c] = "open"
    /\ own[c] => \A k \in keys[c] : Free(k)
    /\ phase' = [phase EXCEPT ![c] = "refused"]
    /\ UNCHANGED <<keys, own, limit, told, bookVars>>

GiveUp(c) ==
    /\ phase[c] = "open"
    /\ BookedBy(c)
    /\ phase' = [phase EXCEPT ![c] = "unsure"]
    /\ UNCHANGED <<keys, own, limit, told>>

Close(c) ==
    /\ phase[c] \in {"told", "refused", "unsure"}
    /\ phase' = [phase EXCEPT ![c] = "none"]
    /\ keys' = [keys EXCEPT ![c] = {}]
    /\ own' = [own EXCEPT ![c] = FALSE]
    /\ limit' = [limit EXCEPT ![c] = 0]
    /\ told' = [told EXCEPT ![c] = 0]
    /\ UNCHANGED bookVars

Init ==
    /\ phase = [c \in Callers |-> "none"]
    /\ keys = [c \in Callers |-> {}]
    /\ own = [c \in Callers |-> FALSE]
    /\ limit = [c \in Callers |-> 0]
    /\ told = [c \in Callers |-> 0]
    /\ booked = [k \in Keys |-> "free"]
    /\ amount = [k \in Keys |-> 0]

Next ==
    \/ \E c \in Callers :
         Open(c) \/ GoOn(c) \/ Tell(c) \/ Refuse(c) \/ GiveUp(c) \/ Close(c)
    \/ \E k \in Keys : BookAlone(k) \/ Finish(k)

Spec == Init /\ [][Next]_vars
=============================================================================

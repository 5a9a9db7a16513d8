-------------------------- MODULE ClientRefinement --------------------------
(***************************************************************************)
(* SynapseClient implements PaidCalls: the requests, polls and searches of *)
(* a call are an open call, and the outcome that it reports is one that    *)
(* the books bear out.                                                     *)
(***************************************************************************)
EXTENDS SynapseClient

\* A call whose arguments were refused never opened; a wallet that adds the
\* charge of a result to its books has been told it.
PhaseOf(c) ==
    CASE call[c].kind = "none" -> "none"
      [] call[c].kind # "none" /\ pc[c] \in {"returned", "adding"} -> "told"
      [] call[c].kind # "none" /\ pc[c] = "raised" ->
            IF error[c] \in NotTaken THEN "refused" ELSE "unsure"
      [] OTHER -> "open"

BookedAs(k) ==
    CASE ledger[k].status = "none" -> "free"
      [] ledger[k].status = "PENDING" -> "taken"
      [] OTHER -> "final"

KeysOf(c) == {call[c].keys[i] : i \in 1..Len(call[c].keys)}

Paid == INSTANCE PaidCalls WITH
    Amounts <- Prices \cup {0},
    phase <- [c \in Callers |-> PhaseOf(c)],
    keys <- [c \in Callers |-> KeysOf(c)],
    own <- [c \in Callers |-> call[c].kind # "none" /\ call[c].chosen = NoKey],
    limit <- [c \in Callers |-> call[c].cost],
    told <- charged,
    booked <- [k \in Keys |-> BookedAs(k)],
    amount <- [k \in Keys |-> ledger[k].charged]

\* Every behaviour of the runtime, with its lost answers, changing prices and
\* second POST, is one of a paid call that is booked at most once, at most as
\* asserted, and told truly.
ImplementsPaidCalls == Paid!Spec
=============================================================================

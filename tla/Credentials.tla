----------------------------- MODULE Credentials -----------------------------
(***************************************************************************)
(* Agent credentials (python/synapse_client/_auth_credentials.py): several *)
(* processes of one owner issue, list, rotate, revoke, delete and update   *)
(* credentials, and ensure_credential strings a listing and a rotation or  *)
(* an issue together without a lock.  The SDK keeps nothing; creds is the  *)
(* gateway's (external), which stores only a hash of a token and so hands  *)
(* it out once, with the issue or rotation that made it.                   *)
(*                                                                         *)
(* A process is either between operations, waiting for the listing of      *)
(* ensure_credential, or waiting for the answer to one request.            *)
(***************************************************************************)
EXTENDS Naturals, FiniteSets

CONSTANTS
    Processes,      \* processes that use the SDK with the same owner
    Spellings,      \* names as callers and the gateway spell them
    Names, Strip,   \* Strip[s]: the spelling s without surrounding blanks
    Limits, None,   \* creditLimit; None leaves it out of the body
    Settings,       \* what processes do and what can go wrong, one of which is given
    MaxIds,         \* bound: credentials that the gateway makes
    MaxLate         \* bound: requests on their way without a caller

Operations == {"ensure", "issue", "rotate", "revoke", "delete", "quota", "update"}
Blank == 0          \* the token ""

\* The operations that are called, the names and limits they are called with,
\* and how requests can fail: the answer is lost, the request is late, the body
\* of a 2xx answer is not what it should be.  tokens bounds what the gateway
\* makes of them.
Setting == [ops : SUBSET Operations, names : SUBSET Spellings, limits : SUBSET Limits,
            faults : SUBSET {"lost", "late", "unreadable"}, tokens : Nat]

ASSUME CredentialsAssumption ==
    /\ Settings \subseteq Setting
    /\ Strip \in [Spellings -> Names]
    /\ None \notin Limits /\ None \notin Spellings
    /\ MaxIds \in Nat /\ MaxLate \in Nat

Ids == 1..MaxIds

VARIABLES
    given,    \* the setting
    pc,       \* "idle", "listing" or "sending"
    request,  \* the request of each process, the listing's with the name sought
    held,     \* the token that the last operation of each process returned, and its credential
    unsure,   \* which of these, "token" and "limit", an exception has put in doubt
    granted,  \* the limit that each process last saw accepted, and its credential
    shut,     \* credentials whose revocation or deletion was acknowledged
    creds,    \* external: the credentials
    minted,   \* external: tokens made so far
    late      \* external: requests given up on that may yet be handled

callerVars == <<held, unsure, granted, shut>>
gatewayVars == <<creds, minted, late>>
vars == <<given, pc, request, callerVars, gatewayVars>>

Tokens == 1..given.tokens

Request == [op : Operations, id : Ids \cup {0}, name : Spellings \cup {None},
            limit : Limits \cup {None}, asked : Limits \cup {None}, by : Processes]
Credential == [state : {"active", "revoked", "deleted"}, name : Spellings \cup {None},
               token : Tokens, limit : Limits \cup {None}, by : Processes,
               hands : SUBSET Processes]
Unissued == [state |-> "unissued"]
NoToken == [id |-> 0, token |-> Blank]
NoLimit == [id |-> 0, limit |-> None]
NoRequest == [op |-> "none"]

Active(i) == creds[i].state = "active"

\* Mutant: the nested token counts first, the one before the rotation.
AnswerNested(i, token) == [id |-> i, token |-> token - 1]

\* _first_text and the mirrored ids of AgentCredential: a token counts wherever
\* in the answer it stands.
Answer(i, token) == [id |-> i, token |-> token]

-----------------------------------------------------------------------------
\* Which options get into a body.  issue_credential and update_credential_quota
\* take credit_limit for creditLimit; update_credential does not.
SnakeCase == {"credit_limit"}
Accepted(op) == IF op = "update" THEN {"creditLimit"} ELSE {"creditLimit"} \cup SnakeCase

\* Mutant: the alias is dropped by the others as well.
SentLimitCamelOnly(op, spelling, limit) == IF spelling = "creditLimit" THEN limit ELSE None

SentLimit(op, spelling, limit) == IF spelling \in Accepted(op) THEN limit ELSE None

-----------------------------------------------------------------------------
\* The gateway (external).
Issue(r, i) ==
    /\ creds[i] = Unissued /\ minted < given.tokens
    /\ \A j \in 1..(i - 1) : creds[j] # Unissued
    /\ minted' = minted + 1
    /\ creds' = [creds EXCEPT ![i] = [state |-> "active", name |-> r.name, by |-> r.by,
                                      token |-> minted + 1, limit |-> r.limit, hands |-> {r.by}]]

Rotate(r) ==
    /\ Active(r.id) /\ minted < given.tokens
    /\ minted' = minted + 1
    /\ creds' = [creds EXCEPT ![r.id].token = minted + 1, ![r.id].hands = @ \cup {r.by}]

Altered(c, r) ==
    [c EXCEPT !.state = CASE r.op = "revoke" -> "revoked" [] r.op = "delete" -> "deleted" [] OTHER -> @,
              !.name = IF r.name = None THEN @ ELSE r.name,
              !.limit = IF r.limit = None THEN @ ELSE r.limit,
              !.hands = @ \cup {r.by}]

Change(r) ==
    /\ IF r.op = "delete" THEN creds[r.id].state \in {"active", "revoked"} ELSE Active(r.id)
    /\ creds' = [creds EXCEPT ![r.id] = Altered(@, r)]
    /\ UNCHANGED minted

\* The request takes effect on credential i.
Handle(r, i) ==
    CASE r.op = "issue" -> Issue(r, i)
      [] r.op = "rotate" -> i = r.id /\ Rotate(r)
      [] OTHER -> i = r.id /\ Change(r)

LateArrival(r) ==
    /\ late' = late \ {r}
    /\ (\E i \in Ids : Handle(r, i)) \/ UNCHANGED <<creds, minted>>
    /\ UNCHANGED <<pc, request, callerVars>>

-----------------------------------------------------------------------------
Send(p, r) ==
    /\ pc' = [pc EXCEPT ![p] = "sending"]
    /\ request' = [request EXCEPT ![p] = r]

Finish(p) ==
    /\ pc' = [pc EXCEPT ![p] = "idle"]
    /\ request' = [request EXCEPT ![p] = NoRequest]

\* An operation on a known credential, or the issue of a new one, is one
\* request; ids are those of credentials the caller has seen.
BeginRequest(p) ==
    /\ pc[p] = "idle"
    /\ \E op \in given.ops \ {"ensure"}, name \in given.names \cup {None},
          limit \in given.limits \cup {None}, spelling \in {"creditLimit"} \cup SnakeCase, i \in Ids \cup {0} :
         /\ op = "issue" <=> i = 0
         /\ i # 0 => creds[i] # Unissued
         /\ op \notin {"issue", "update"} => name = None
         /\ op \notin {"issue", "update", "quota"} => limit = None
         /\ op = "quota" => limit # None
         /\ Send(p, [op |-> op, id |-> i, name |-> name, by |-> p, asked |-> limit,
                     limit |-> SentLimit(op, spelling, limit)])
    /\ UNCHANGED <<callerVars, gatewayVars>>

BeginEnsure(p) ==
    /\ pc[p] = "idle" /\ "ensure" \in given.ops
    /\ \E name \in given.names, limit \in given.limits \cup {None}, spelling \in {"creditLimit"} \cup SnakeCase :
         request' = [request EXCEPT ![p] =
            [op |-> "ensure", id |-> 0, name |-> name, by |-> p, asked |-> limit,
             limit |-> SentLimit("issue", spelling, limit)]]
    /\ pc' = [pc EXCEPT ![p] = "listing"]
    /\ UNCHANGED <<callerVars, gatewayVars>>

\* _matching_active_credential, on the credentials active when the gateway
\* answers.  The gateway's order is its own, so any match may be the first.
\* Mutant: the names are compared as they are.
MatchesExactly(name) == {i \in Ids : Active(i) /\ creds[i].name = name}

Matches(name) ==
    {i \in Ids : Active(i) /\ creds[i].name # None /\ Strip[creds[i].name] = Strip[name]}

EnsureIssues(p) == Send(p, [request[p] EXCEPT !.op = "issue"])

\* A listing has no tokens: they are stored hashed, so that a match is always
\* rotated and never returned as it is listed.
Listed(p) ==
    /\ pc[p] = "listing"
    /\ IF Matches(request[p].name) = {} THEN EnsureIssues(p)
       ELSE \E i \in Matches(request[p].name) :
              Send(p, [request[p] EXCEPT !.op = "rotate", !.id = i, !.name = None,
                                        !.limit = None, !.asked = None])
    /\ UNCHANGED <<callerVars, gatewayVars>>

\* A 2xx body without a list of credentials reads as an empty list.
ListUnreadable(p) ==
    /\ pc[p] = "listing" /\ "unreadable" \in given.faults
    /\ EnsureIssues(p)
    /\ UNCHANGED <<callerVars, gatewayVars>>

\* Mutant, and the Go SDK: EnsureCredential drops the error of the listing.
ListFailsSilently(p) ==
    /\ pc[p] = "listing"
    /\ EnsureIssues(p)
    /\ UNCHANGED <<callerVars, gatewayVars>>

ListFails(p) ==
    /\ pc[p] = "listing"
    /\ Finish(p)
    /\ UNCHANGED <<callerVars, gatewayVars>>

-----------------------------------------------------------------------------
\* How the one request ends.
Acknowledged(p, i) ==
    shut' = IF request[p].op \in {"revoke", "delete"} THEN shut \cup {i} ELSE shut

Returns(p, i) ==
    LET op == request[p].op
    IN /\ held' = [held EXCEPT ![p] =
            CASE op \in {"issue", "rotate"} -> Answer(i, creds'[i].token)
              [] op \in {"revoke", "delete"} /\ i = held[p].id -> NoToken
              [] OTHER -> @]
       /\ granted' = [granted EXCEPT ![p] =
            IF request[p].asked = None THEN @ ELSE [id |-> i, limit |-> request[p].asked]]
       /\ unsure' = [unsure EXCEPT ![p] =
            {doubt \in @ : IF doubt = "token" THEN held'[p] = held[p] ELSE request[p].asked = None}]

Answered(p) ==
    /\ pc[p] = "sending"
    /\ \E i \in Ids : Handle(request[p], i) /\ Returns(p, i) /\ Acknowledged(p, i)
    /\ Finish(p)
    /\ UNCHANGED late

Doubts(p, op, i) ==
    CASE op \in {"rotate", "revoke", "delete"} /\ i = held[p].id -> {"token"}
      [] op \in {"quota", "update"} /\ i = granted[p].id -> {"limit"}
      [] OTHER -> {}

Raises(p) ==
    /\ Finish(p)
    /\ unsure' = [unsure EXCEPT ![p] = @ \cup Doubts(p, request[p].op, request[p].id)]
    /\ UNCHANGED <<held, granted, shut>>

\* A 2xx body that is not an object: an issue raises "Credential payload
\* missing", a rotation returns the blank token, the rest the default result.
Unreadable(p) ==
    /\ pc[p] = "sending" /\ "unreadable" \in given.faults
    /\ \E i \in Ids : Handle(request[p], i)
    /\ IF request[p].op = "issue" THEN Raises(p)
       ELSE /\ Finish(p)
            /\ held' = [held EXCEPT ![p] = IF request[p].op = "rotate" THEN NoToken ELSE @]
            /\ Acknowledged(p, request[p].id)
            /\ UNCHANGED <<unsure, granted>>
    /\ UNCHANGED late

\* Mutant: an HTTP error is taken for an empty answer.
FailsSilently(p) ==
    /\ pc[p] = "sending"
    /\ Finish(p)
    /\ shut' = IF request[p].op \in {"revoke", "delete"} THEN shut \cup {request[p].id} ELSE shut
    /\ UNCHANGED <<held, unsure, granted, gatewayVars>>

\* Any HTTP error, a timeout or a broken connection: not handled, handled with
\* the answer lost, or still on its way.
Fails(p) ==
    /\ pc[p] = "sending"
    /\ Raises(p)
    /\ \/ UNCHANGED gatewayVars
       \/ "lost" \in given.faults /\ UNCHANGED late /\ \E i \in Ids : Handle(request[p], i)
       \/ /\ "late" \in given.faults /\ Cardinality(late) < MaxLate
          /\ late' = late \cup {request[p]} /\ UNCHANGED <<creds, minted>>

Init ==
    /\ given \in Settings
    /\ pc = [p \in Processes |-> "idle"]
    /\ request = [p \in Processes |-> NoRequest]
    /\ held = [p \in Processes |-> NoToken]
    /\ unsure = [p \in Processes |-> {}]
    /\ granted = [p \in Processes |-> NoLimit]
    /\ shut = {}
    /\ creds = [i \in Ids |-> Unissued]
    /\ minted = 0
    /\ late = {}

ProcessStep(p) ==
    \/ BeginRequest(p) \/ BeginEnsure(p)
    \/ Listed(p) \/ ListUnreadable(p) \/ ListFails(p)
    \/ Answered(p) \/ Unreadable(p) \/ Fails(p)

Next ==
    /\ (\E p \in Processes : ProcessStep(p)) \/ (\E r \in late : LateArrival(r))
    /\ UNCHANGED given

Spec == Init /\ [][Next]_vars
-----------------------------------------------------------------------------
\* Shape of the state.
TypeOK ==
    /\ given \in Settings
    /\ pc \in [Processes -> {"idle", "listing", "sending"}]
    /\ request \in [Processes -> Request \cup {NoRequest}]
    /\ held \in [Processes -> [id : Ids, token : Tokens] \cup {NoToken}]
    /\ unsure \in [Processes -> SUBSET {"token", "limit"}]
    /\ granted \in [Processes -> [id : Ids, limit : Limits] \cup {NoLimit}]
    /\ shut \subseteq Ids
    /\ creds \in [Ids -> Credential \cup {Unissued}]
    /\ minted \in 0..given.tokens
    /\ late \subseteq Request

Duplicates(i, j) ==
    /\ i # j /\ Active(i) /\ Active(j)
    /\ creds[i].name # None /\ creds[j].name # None
    /\ Strip[creds[i].name] = Strip[creds[j].name]

\* While answers are lost and nothing worse happens, ensure_credential never
\* gives one process two active credentials of a name, however often it is
\* repeated: the listing is what makes its issue safe to repeat.  Processes that
\* race may make one each, and issue_credential and a renaming look at no listing.
NoProcessDuplicates ==
    given.faults \subseteq {"lost"} /\ given.ops \cap {"issue", "update"} = {} =>
        \A i, j \in Ids : Duplicates(i, j) => creds[i].by # creds[j].by

\* "Idempotent init", as far as it goes: while answers are lost and nothing worse
\* happens, the token that a process was given goes on working until another
\* process changes the credential (as its own ensure_credential does), unless a
\* change of that credential by the process itself ended in an exception since.
\* A request of its own that arrives late, or is answered by what is no JSON, may
\* replace the token behind its back.
HeldTokenIsLive ==
    given.faults \subseteq {"lost"} =>
        \A p \in Processes :
            /\ held[p] # NoToken /\ "token" \notin unsure[p]
            /\ creds[held[p].id].hands = {p}
            => Active(held[p].id) /\ creds[held[p].id].token = held[p].token

\* While answers are lost and nothing worse happens, a credit limit that was
\* accepted without an exception is in force until another process changes the
\* credential, as far as the process can know.  A request for an earlier limit
\* that arrives late may undo it.
LimitsAreApplied ==
    given.faults \subseteq {"lost"} =>
        \A p \in Processes :
            /\ granted[p] # NoLimit /\ "limit" \notin unsure[p]
            /\ Active(granted[p].id) /\ creds[granted[p].id].hands = {p}
            => creds[granted[p].id].limit = granted[p].limit

\* Emergency shutoff: once revoke_credential or delete_credential has returned
\* to anyone, the credential is dead and no request sent before or after,
\* however late it arrives, gives it a working token again.
ShutOffHolds == \A i \in shut : ~Active(i)
=============================================================================

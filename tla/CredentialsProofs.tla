-------------------------- MODULE CredentialsProofs --------------------------
(***************************************************************************)
(* Proofs about Credentials, for any number of processes, credentials,     *)
(* names and settings.                                                     *)
(***************************************************************************)
EXTENDS Credentials, TLAPS

\* What a handled request does to its credential.
Issued(r, i) ==
    /\ r.op = "issue" /\ creds[i] = Unissued
    /\ creds'[i] \in Credential
    /\ creds'[i].state = "active" /\ creds'[i].name = r.name /\ creds'[i].by = r.by
    /\ creds'[i].limit = r.limit /\ creds'[i].hands = {r.by}

Rotated(r, i) ==
    /\ r.op = "rotate" /\ i = r.id /\ Active(i) /\ creds[i] \in Credential
    /\ creds'[i] \in Credential
    /\ creds'[i].state = "active" /\ creds'[i].name = creds[i].name /\ creds'[i].by = creds[i].by
    /\ creds'[i].limit = creds[i].limit /\ creds'[i].hands = creds[i].hands \cup {r.by}

Changed(r, i) ==
    /\ r.op \notin {"issue", "rotate"} /\ i = r.id /\ creds[i] \in Credential
    /\ creds[i].state # "active" => r.op = "delete"
    /\ creds'[i] \in Credential
    /\ creds'[i].token = creds[i].token /\ creds'[i].by = creds[i].by
    /\ r.op = "revoke" => creds'[i].state = "revoked"
    /\ r.op = "delete" => creds'[i].state = "deleted"
    /\ r.op \notin {"revoke", "delete"} => creds'[i].state = creds[i].state
    /\ r.name = None => creds'[i].name = creds[i].name
    /\ r.limit = None => creds'[i].limit = creds[i].limit
    /\ r.limit # None => creds'[i].limit = r.limit
    /\ creds'[i].hands = creds[i].hands \cup {r.by}

Effect(r, i) ==
    /\ creds' \in [Ids -> Credential \cup {Unissued}]
    /\ minted' \in 0..given.tokens
    /\ \A j \in Ids \ {i} : creds'[j] = creds[j]
    /\ Issued(r, i) \/ Rotated(r, i) \/ Changed(r, i)

-----------------------------------------------------------------------------
\* The summary of Handle, for a request of the right type.
LEMMA HandleEffect ==
    ASSUME CredentialsAssumption, given \in Settings, creds \in [Ids -> Credential \cup {Unissued}],
           minted \in 0..given.tokens, NEW r \in Request, NEW i \in Ids, Handle(r, i)
    PROVE  Effect(r, i)
<1>0. given.tokens \in Nat
  BY DEF CredentialsAssumption, Setting
<1>1. CASE r.op = "issue"
  <2>1. Issue(r, i)
    BY <1>1 DEF Handle
  <2> DEFINE c == [state |-> "active", name |-> r.name, by |-> r.by,
                   token |-> minted + 1, limit |-> r.limit, hands |-> {r.by}]
  <2>2. creds' = [creds EXCEPT ![i] = c] /\ creds[i] = Unissued /\ minted < given.tokens /\ minted' = minted + 1
    BY <2>1 DEF Issue
  <2>3. minted + 1 \in Tokens /\ minted + 1 \in 0..given.tokens
    BY <1>0, <2>2 DEF Tokens
  <2>4. r.name \in Spellings \cup {None} /\ r.by \in Processes /\ r.limit \in Limits \cup {None}
    BY DEF Request
  <2>5. c \in Credential
    BY <2>3, <2>4 DEF Credential
  <2>6. creds'[i] = c /\ \A j \in Ids \ {i} : creds'[j] = creds[j]
    BY <2>2
  <2>7. creds' \in [Ids -> Credential \cup {Unissued}]
    BY <2>2, <2>5
  <2> QED
    BY <1>1, <2>2, <2>3, <2>5, <2>6, <2>7 DEF Effect, Issued
<1>2. CASE r.op = "rotate"
  <2>1. i = r.id /\ Rotate(r)
    BY <1>2 DEF Handle
  <2> DEFINE c == [creds[i] EXCEPT !.token = minted + 1, !.hands = @ \cup {r.by}]
  <2>2. creds' = [creds EXCEPT ![i] = c] /\ Active(i) /\ minted < given.tokens /\ minted' = minted + 1
    BY <2>1 DEF Rotate
  <2>3. minted + 1 \in Tokens /\ minted + 1 \in 0..given.tokens
    BY <1>0, <2>2 DEF Tokens
  <2>4. creds[i] \in Credential
    BY <2>2 DEF Active, Unissued
  <2>5. r.by \in Processes
    BY DEF Request
  <2>6. c \in Credential /\ c.state = creds[i].state /\ c.name = creds[i].name /\ c.by = creds[i].by
        /\ c.limit = creds[i].limit /\ c.hands = creds[i].hands \cup {r.by}
    BY <2>3, <2>4, <2>5 DEF Credential
  <2>7. creds'[i] = c /\ \A j \in Ids \ {i} : creds'[j] = creds[j]
    BY <2>2
  <2>8. creds' \in [Ids -> Credential \cup {Unissued}]
    BY <2>2, <2>6
  <2> QED
    BY <1>2, <2>1, <2>2, <2>3, <2>4, <2>6, <2>7, <2>8 DEF Effect, Rotated, Active
<1>3. CASE r.op \notin {"issue", "rotate"}
  <2>1. i = r.id /\ Change(r)
    BY <1>3 DEF Handle
  <2>2. /\ creds[i].state \in {"active", "revoked"}
        /\ creds[i].state # "active" => r.op = "delete"
    BY <2>1 DEF Change, Active
  <2>3. creds[i] \in Credential
    BY <2>2 DEF Unissued
  <2>4. r.by \in Processes /\ r.name \in Spellings \cup {None} /\ r.limit \in Limits \cup {None}
    BY DEF Request
  <2>5. /\ creds[i].state \in {"active", "revoked", "deleted"} /\ creds[i].name \in Spellings \cup {None}
        /\ creds[i].limit \in Limits \cup {None} /\ creds[i].hands \in SUBSET Processes
    BY <2>3 DEF Credential
  <2>6. PICK s \in {"active", "revoked", "deleted"} :
          s = CASE r.op = "revoke" -> "revoked" [] r.op = "delete" -> "deleted" [] OTHER -> creds[i].state
    BY <2>5
  <2>7. PICK n \in Spellings \cup {None} : n = IF r.name = None THEN creds[i].name ELSE r.name
    BY <2>4, <2>5
  <2>8. PICK l \in Limits \cup {None} : l = IF r.limit = None THEN creds[i].limit ELSE r.limit
    BY <2>4, <2>5
  <2>9. PICK h \in SUBSET Processes : h = creds[i].hands \cup {r.by}
    BY <2>4, <2>5
  <2> DEFINE c == Altered(creds[i], r)
  <2>10. creds' = [creds EXCEPT ![i] = c] /\ minted' = minted
    BY <2>1 DEF Change
  <2>11. c = [creds[i] EXCEPT !.state = s, !.name = n, !.limit = l, !.hands = h]
    BY <2>6, <2>7, <2>8, <2>9 DEF Altered
  <2> HIDE DEF c
  <2>12. /\ c.state = s /\ c.name = n /\ c.limit = l /\ c.hands = h
         /\ c.token = creds[i].token /\ c.by = creds[i].by
         /\ c \in Credential
    BY <2>3, <2>11 DEF Credential
  <2>13. creds'[i] = c /\ \A j \in Ids \ {i} : creds'[j] = creds[j]
    BY <2>10
  <2>14. creds' \in [Ids -> Credential \cup {Unissued}]
    BY <2>10, <2>12
  <2>15. Changed(r, i)
    BY <1>3, <2>1, <2>2, <2>3, <2>6, <2>7, <2>8, <2>9, <2>12, <2>13 DEF Changed
  <2> QED
    BY <2>10, <2>13, <2>14, <2>15 DEF Effect
<1> QED
  BY <1>1, <1>2, <1>3

-----------------------------------------------------------------------------
\* A request under way has its type and its sender.
RequestsOK ==
    \A p \in Processes :
        /\ pc[p] # "idle" => request[p] \in Request /\ request[p].by = p
        /\ pc[p] = "listing" => request[p].name \in Spellings

CredentialInv == TypeOK /\ RequestsOK

\* The settings' parts, for the actions that choose from them.
LEMMA GivenParts ==
    ASSUME CredentialsAssumption, given \in Settings
    PROVE  /\ given.ops \subseteq Operations /\ given.names \subseteq Spellings /\ given.limits \subseteq Limits
           /\ given.tokens \in Nat
BY DEF CredentialsAssumption, Setting

\* What a caller that begins an operation has chosen.
LEMMA RequestChoices ==
    ASSUME NEW p \in Processes, BeginRequest(p)
    PROVE  \E op \in given.ops \ {"ensure"}, name \in given.names \cup {None}, limit \in given.limits \cup {None},
              spelling \in {"creditLimit"} \cup SnakeCase, i \in Ids \cup {0} :
             /\ op \notin {"issue", "update"} => name = None
             /\ op \notin {"issue", "update", "quota"} => limit = None
             /\ Send(p, [op |-> op, id |-> i, name |-> name, by |-> p, asked |-> limit,
                         limit |-> SentLimit(op, spelling, limit)])
<1>1. PICK op \in given.ops \ {"ensure"}, name \in given.names \cup {None}, limit \in given.limits \cup {None},
           spelling \in {"creditLimit"} \cup SnakeCase, i \in Ids \cup {0} :
         /\ op = "issue" <=> i = 0
         /\ i # 0 => creds[i] # Unissued
         /\ op \notin {"issue", "update"} => name = None
         /\ op \notin {"issue", "update", "quota"} => limit = None
         /\ op = "quota" => limit # None
         /\ Send(p, [op |-> op, id |-> i, name |-> name, by |-> p, asked |-> limit,
                     limit |-> SentLimit(op, spelling, limit)])
  BY Zenon DEF BeginRequest
<1> QED
  BY <1>1, Zenon

LEMMA SentLimitType ==
    ASSUME NEW op, NEW spelling, NEW limit \in Limits \cup {None}
    PROVE  /\ SentLimit(op, spelling, limit) \in Limits \cup {None}
           /\ op # "update" /\ spelling \in {"creditLimit"} \cup SnakeCase => SentLimit(op, spelling, limit) = limit
BY DEF SentLimit, Accepted

\* The process that moves leaves the others' places and requests alone.
LEMMA OthersKeepRequests ==
    ASSUME CredentialInv, NEW p \in Processes, NEW where \in {"idle", "listing", "sending"}, NEW r,
           pc' = [pc EXCEPT ![p] = where], request' = [request EXCEPT ![p] = r],
           where = "idle" => r = NoRequest,
           where # "idle" => r \in Request /\ r.by = p,
           where = "listing" => r.name \in Spellings
    PROVE  /\ pc' \in [Processes -> {"idle", "listing", "sending"}]
           /\ request' \in [Processes -> Request \cup {NoRequest}]
           /\ RequestsOK'
<1>1. pc \in [Processes -> {"idle", "listing", "sending"}] /\ request \in [Processes -> Request \cup {NoRequest}]
  BY DEF CredentialInv, TypeOK
<1>2. r \in Request \cup {NoRequest}
  OBVIOUS
<1>3. pc'[p] = where /\ request'[p] = r
  BY <1>1
<1>4. \A q \in Processes \ {p} : pc'[q] = pc[q] /\ request'[q] = request[q]
  BY <1>1
<1>5. RequestsOK'
  BY <1>3, <1>4 DEF CredentialInv, RequestsOK
<1> QED
  BY <1>1, <1>2, <1>5

LEMMA FinishedRequest ==
    ASSUME CredentialInv, NEW p \in Processes, Finish(p)
    PROVE  /\ pc' \in [Processes -> {"idle", "listing", "sending"}]
           /\ request' \in [Processes -> Request \cup {NoRequest}]
           /\ RequestsOK'
BY OthersKeepRequests DEF Finish

LEMMA SentRequest ==
    ASSUME CredentialInv, NEW p \in Processes, NEW r \in Request, r.by = p, Send(p, r)
    PROVE  /\ pc' \in [Processes -> {"idle", "listing", "sending"}]
           /\ request' \in [Processes -> Request \cup {NoRequest}]
           /\ RequestsOK'
BY OthersKeepRequests DEF Send

\* The request that ensure_credential makes of a listing that matched nothing.
LEMMA EnsureIssuesRequest ==
    ASSUME NEW r \in Request
    PROVE  /\ [r EXCEPT !.op = "issue"] \in Request
           /\ [r EXCEPT !.op = "issue"].by = r.by
BY DEF Request, Operations

\* Every variable keeps its type, and requests theirs.
LEMMA CredentialStep ==
    ASSUME CredentialsAssumption, CredentialInv, [Next]_vars
    PROVE  CredentialInv'
<1> USE DEF CredentialInv
<1>1. /\ given \in Settings
      /\ pc \in [Processes -> {"idle", "listing", "sending"}]
      /\ request \in [Processes -> Request \cup {NoRequest}]
      /\ held \in [Processes -> [id : Ids, token : Tokens] \cup {NoToken}]
      /\ unsure \in [Processes -> SUBSET {"token", "limit"}]
      /\ granted \in [Processes -> [id : Ids, limit : Limits] \cup {NoLimit}]
      /\ shut \subseteq Ids
      /\ creds \in [Ids -> Credential \cup {Unissued}]
      /\ minted \in 0..given.tokens
      /\ late \subseteq Request
  BY DEF TypeOK
<1>2. ASSUME UNCHANGED vars
      PROVE  CredentialInv'
  BY <1>2 DEF vars, callerVars, gatewayVars, TypeOK, RequestsOK, Tokens, Credential
<1>3. ASSUME given' = given, NEW p \in Processes, ProcessStep(p)
      PROVE  CredentialInv'
  <2>0. Credential' = Credential /\ Tokens' = Tokens
    BY <1>3 DEF Credential, Tokens
  <2>1. ASSUME UNCHANGED <<callerVars, gatewayVars>>,
               pc' \in [Processes -> {"idle", "listing", "sending"}],
               request' \in [Processes -> Request \cup {NoRequest}], RequestsOK'
        PROVE  CredentialInv'
    BY <1>1, <1>3, <2>0, <2>1 DEF TypeOK, callerVars, gatewayVars
  <2>2. CASE BeginRequest(p)
    <3>1. PICK op \in given.ops \ {"ensure"}, name \in given.names \cup {None}, limit \in given.limits \cup {None},
               spelling \in {"creditLimit"} \cup SnakeCase, i \in Ids \cup {0} :
            /\ op \notin {"issue", "update"} => name = None
            /\ op \notin {"issue", "update", "quota"} => limit = None
            /\ Send(p, [op |-> op, id |-> i, name |-> name, by |-> p, asked |-> limit,
                        limit |-> SentLimit(op, spelling, limit)])
      BY <2>2, RequestChoices, Zenon
    <3>2. op \in Operations /\ name \in Spellings \cup {None} /\ limit \in Limits \cup {None}
      BY <1>1, GivenParts
    <3>3. PICK sent \in Limits \cup {None} : sent = SentLimit(op, spelling, limit)
      BY <3>2, SentLimitType
    <3>4. [op |-> op, id |-> i, name |-> name, by |-> p, asked |-> limit, limit |-> sent] \in Request
      BY <3>2 DEF Request
    <3> QED
      BY <2>1, <2>2, <3>1, <3>3, <3>4, SentRequest DEF BeginRequest
  <2>3. CASE BeginEnsure(p)
    <3>1. PICK name \in given.names, limit \in given.limits \cup {None}, spelling \in {"creditLimit"} \cup SnakeCase :
            request' = [request EXCEPT ![p] =
               [op |-> "ensure", id |-> 0, name |-> name, by |-> p, asked |-> limit,
                limit |-> SentLimit("issue", spelling, limit)]]
      BY <2>3 DEF BeginEnsure
    <3>2. name \in Spellings /\ limit \in Limits \cup {None}
      BY <1>1, GivenParts
    <3>3. PICK sent \in Limits \cup {None} : sent = SentLimit("issue", spelling, limit)
      BY <3>2, SentLimitType
    <3> DEFINE r == [op |-> "ensure", id |-> 0, name |-> name, by |-> p, asked |-> limit, limit |-> sent]
    <3>4. r \in Request /\ r.by = p /\ r.name = name
      BY <3>2 DEF Request, Operations
    <3>5. request' = [request EXCEPT ![p] = r] /\ pc' = [pc EXCEPT ![p] = "listing"]
      BY <2>3, <3>1, <3>3 DEF BeginEnsure
    <3> HIDE DEF r
    <3>6. /\ pc' \in [Processes -> {"idle", "listing", "sending"}]
          /\ request' \in [Processes -> Request \cup {NoRequest}]
          /\ RequestsOK'
      BY <3>2, <3>4, <3>5, OthersKeepRequests
    <3> QED
      BY <2>1, <2>3, <3>6 DEF BeginEnsure
  <2>4. ASSUME pc[p] = "listing", EnsureIssues(p), UNCHANGED <<callerVars, gatewayVars>>
        PROVE  CredentialInv'
    <3>1. request[p] \in Request /\ request[p].by = p
      BY <2>4 DEF RequestsOK
    <3>2. PICK r \in Request : r = [request[p] EXCEPT !.op = "issue"] /\ r.by = p
      BY <3>1, EnsureIssuesRequest
    <3> QED
      BY <2>1, <2>4, <3>2, SentRequest DEF EnsureIssues
  <2>5. CASE Listed(p)
    <3>1. CASE Matches(request[p].name) = {}
      BY <2>4, <2>5, <3>1 DEF Listed
    <3>2. CASE Matches(request[p].name) # {}
      <4>1. PICK i \in Matches(request[p].name) :
               Send(p, [request[p] EXCEPT !.op = "rotate", !.id = i, !.name = None,
                                         !.limit = None, !.asked = None])
        BY <2>5, <3>2 DEF Listed
      <4>2. i \in Ids /\ request[p] \in Request /\ request[p].by = p
        BY <2>5 DEF Matches, RequestsOK, Listed
      <4> DEFINE r == [request[p] EXCEPT !.op = "rotate", !.id = i, !.name = None, !.limit = None, !.asked = None]
      <4>3. r \in Request /\ r.by = p
        BY <4>2 DEF Request, Operations
      <4>4. Send(p, r) /\ UNCHANGED <<callerVars, gatewayVars>>
        BY <2>5, <4>1 DEF Listed
      <4> HIDE DEF r
      <4> QED
        BY <2>1, <4>3, <4>4, SentRequest
    <3> QED
      BY <3>1, <3>2
  <2>6. CASE ListUnreadable(p)
    BY <2>4, <2>6 DEF ListUnreadable
  <2>7. CASE ListFails(p)
    BY <2>1, <2>7, FinishedRequest DEF ListFails
  <2>8. ASSUME pc[p] = "sending", NEW i \in Ids, Handle(request[p], i)
        PROVE  /\ request[p] \in Request
               /\ Effect(request[p], i)
               /\ request[p].op # "issue" => i = request[p].id
    <3>1. request[p] \in Request
      BY <2>8 DEF RequestsOK
    <3> QED
      BY <1>1, <2>8, <3>1, HandleEffect DEF Effect, Issued, Rotated, Changed
  <2>9. ASSUME pc[p] = "sending", Raises(p)
        PROVE  unsure' \in [Processes -> SUBSET {"token", "limit"}]
    <3>1. Doubts(p, request[p].op, request[p].id) \in SUBSET {"token", "limit"}
      BY DEF Doubts
    <3> QED
      BY <1>1, <2>9, <3>1 DEF Raises
  <2>10. CASE Answered(p)
    <3>1. PICK i \in Ids : Handle(request[p], i) /\ Returns(p, i) /\ Acknowledged(p, i)
      BY <2>10 DEF Answered
    <3>2. request[p] \in Request /\ Effect(request[p], i) /\ (request[p].op # "issue" => i = request[p].id)
      BY <2>8, <2>10, <3>1 DEF Answered
    <3>3. creds' \in [Ids -> Credential \cup {Unissued}] /\ minted' \in 0..given.tokens /\ creds'[i] \in Credential
      BY <3>2 DEF Effect, Issued, Rotated, Changed
    <3>4. creds'[i].token \in Tokens
      BY <3>3 DEF Credential
    <3>5. held' \in [Processes -> [id : Ids, token : Tokens] \cup {NoToken}]
      <4>1. [id |-> i, token |-> creds'[i].token] \in [id : Ids, token : Tokens]
        BY <3>4
      <4> QED
        BY <1>1, <3>1, <4>1 DEF Returns, Answer
    <3>6. granted' \in [Processes -> [id : Ids, limit : Limits] \cup {NoLimit}]
      <4>1. request[p].asked \in Limits \cup {None}
        BY <3>2 DEF Request
      <4> QED
        BY <1>1, <3>1, <4>1 DEF Returns
    <3>7. unsure' \in [Processes -> SUBSET {"token", "limit"}]
      BY <1>1, <3>1 DEF Returns
    <3>8. shut' \subseteq Ids
      BY <1>1, <3>1 DEF Acknowledged
    <3>9. /\ pc' \in [Processes -> {"idle", "listing", "sending"}]
          /\ request' \in [Processes -> Request \cup {NoRequest}]
          /\ RequestsOK'
      BY <2>10, FinishedRequest DEF Answered
    <3>10. late' = late
      BY <2>10 DEF Answered
    <3> QED
      BY <1>1, <1>3, <2>0, <3>3, <3>5, <3>6, <3>7, <3>8, <3>9, <3>10 DEF TypeOK
  <2>11. CASE Unreadable(p)
    <3>1. PICK i \in Ids : Handle(request[p], i)
      BY <2>11 DEF Unreadable
    <3>2. request[p] \in Request /\ Effect(request[p], i) /\ (request[p].op # "issue" => i = request[p].id)
      BY <2>8, <2>11, <3>1 DEF Unreadable
    <3>3. creds' \in [Ids -> Credential \cup {Unissued}] /\ minted' \in 0..given.tokens
      BY <3>2 DEF Effect
    <3>4. /\ pc' \in [Processes -> {"idle", "listing", "sending"}]
          /\ request' \in [Processes -> Request \cup {NoRequest}]
          /\ RequestsOK'
      BY <2>11, FinishedRequest DEF Unreadable, Raises
    <3>5. CASE request[p].op = "issue"
      <4>1. Raises(p) /\ late' = late
        BY <2>11, <3>5 DEF Unreadable
      <4>2. unsure' \in [Processes -> SUBSET {"token", "limit"}]
        BY <2>9, <2>11, <4>1 DEF Unreadable
      <4> QED
        BY <1>1, <1>3, <2>0, <3>3, <3>4, <4>1, <4>2 DEF TypeOK, Raises
    <3>6. CASE request[p].op # "issue"
      <4>1. /\ held' = [held EXCEPT ![p] = IF request[p].op = "rotate" THEN NoToken ELSE @]
            /\ Acknowledged(p, request[p].id)
            /\ UNCHANGED <<unsure, granted, late>>
        BY <2>11, <3>6 DEF Unreadable
      <4>2. held' \in [Processes -> [id : Ids, token : Tokens] \cup {NoToken}]
        BY <1>1, <4>1
      <4>3. shut' \subseteq Ids
        BY <1>1, <3>2, <3>6, <4>1 DEF Acknowledged
      <4> QED
        BY <1>1, <1>3, <2>0, <3>3, <3>4, <4>1, <4>2, <4>3 DEF TypeOK
    <3> QED
      BY <3>5, <3>6
  <2>12. CASE Fails(p)
    <3>1. Raises(p) /\ pc[p] = "sending"
      BY <2>12 DEF Fails
    <3>2. /\ pc' \in [Processes -> {"idle", "listing", "sending"}]
          /\ request' \in [Processes -> Request \cup {NoRequest}]
          /\ RequestsOK'
      BY <3>1, FinishedRequest DEF Raises
    <3>3. unsure' \in [Processes -> SUBSET {"token", "limit"}]
      BY <2>9, <3>1
    <3>4. creds' \in [Ids -> Credential \cup {Unissued}] /\ minted' \in 0..given.tokens /\ late' \subseteq Request
      <4>1. CASE UNCHANGED gatewayVars
        BY <1>1, <4>1 DEF gatewayVars
      <4>2. CASE late' = late /\ \E i \in Ids : Handle(request[p], i)
        BY <1>1, <2>8, <3>1, <4>2 DEF Effect
      <4>3. CASE late' = late \cup {request[p]} /\ UNCHANGED <<creds, minted>>
        BY <1>1, <3>1, <4>3 DEF RequestsOK
      <4> QED
        BY <2>12, <4>1, <4>2, <4>3 DEF Fails
    <3> QED
      BY <1>1, <1>3, <2>0, <3>1, <3>2, <3>3, <3>4 DEF TypeOK, Raises
  <2> QED
    BY <1>3, <2>2, <2>3, <2>5, <2>6, <2>7, <2>10, <2>11, <2>12 DEF ProcessStep
<1>4. ASSUME given' = given, NEW r \in late, LateArrival(r)
      PROVE  CredentialInv'
  <2>0. Credential' = Credential /\ Tokens' = Tokens
    BY <1>4 DEF Credential, Tokens
  <2>1. r \in Request /\ late' \subseteq Request
    BY <1>1, <1>4 DEF LateArrival
  <2>2. creds' \in [Ids -> Credential \cup {Unissued}] /\ minted' \in 0..given.tokens
    <3>1. CASE \E i \in Ids : Handle(r, i)
      BY <1>1, <2>1, <3>1, HandleEffect DEF Effect
    <3> QED
      BY <1>1, <1>4, <3>1 DEF LateArrival
  <2> QED
    BY <1>1, <1>4, <2>0, <2>1, <2>2 DEF LateArrival, TypeOK, RequestsOK, callerVars
<1> QED
  BY <1>2, <1>3, <1>4 DEF Next

LEMMA InitCredentials == ASSUME CredentialsAssumption, Init PROVE CredentialInv
<1>1. given.tokens \in Nat
  BY GivenParts DEF Init
<1> QED
  BY <1>1 DEF Init, CredentialInv, TypeOK, RequestsOK

\* The credentials, the requests and what a process is told keep to their types
\* whatever is asked and whatever fails.
THEOREM CredentialTypeCorrect == Spec => []TypeOK
<1>1. Init => CredentialInv
  BY CredentialsAssumption, InitCredentials
<1>2. CredentialInv /\ [Next]_vars => CredentialInv'
  BY CredentialsAssumption, CredentialStep
<1> QED
  BY <1>1, <1>2, PTL DEF Spec, CredentialInv

-----------------------------------------------------------------------------
\* The steps that send or give up a listing touch nothing but the process.
Quiet == UNCHANGED <<callerVars, gatewayVars>>

LEMMA QuietSteps ==
    ASSUME NEW p \in Processes, ProcessStep(p)
    PROVE  Quiet \/ Answered(p) \/ Unreadable(p) \/ Fails(p)
BY DEF ProcessStep, Quiet, BeginRequest, BeginEnsure, Listed, ListUnreadable, ListFails

\* A request that takes effect has its type and its sender.
LEMMA SentTakesEffect ==
    ASSUME CredentialsAssumption, CredentialInv, NEW p \in Processes, pc[p] = "sending",
           NEW i \in Ids, Handle(request[p], i)
    PROVE  request[p] \in Request /\ request[p].by = p /\ Effect(request[p], i)
BY HandleEffect DEF CredentialInv, TypeOK, RequestsOK

LEMMA LateTakesEffect ==
    ASSUME CredentialsAssumption, CredentialInv, NEW r \in late, NEW i \in Ids, Handle(r, i)
    PROVE  Effect(r, i)
BY HandleEffect DEF CredentialInv, TypeOK

-----------------------------------------------------------------------------
\* What was shut off is dead.
Dead(i) == creds[i].state \in {"revoked", "deleted"}
ShutInv == \A i \in shut : Dead(i)

\* No request, whosever and whenever handled, makes a dead credential active.
LEMMA DeadStaysDead ==
    ASSUME NEW r, NEW i \in Ids, Effect(r, i), NEW j \in Ids, Dead(j)
    PROVE  Dead(j)'
<1>1. CASE j # i
  BY <1>1 DEF Effect, Dead
<1>2. CASE j = i
  <2>1. ~Issued(r, i)
    BY <1>2 DEF Issued, Dead, Unissued
  <2>2. ~Rotated(r, i)
    BY <1>2 DEF Rotated, Dead, Active
  <2> QED
    BY <1>2, <2>1, <2>2 DEF Effect, Changed, Dead
<1> QED
  BY <1>1, <1>2

LEMMA ShutStep ==
    ASSUME CredentialsAssumption, CredentialInv, ShutInv, [Next]_vars
    PROVE  ShutInv'
<1>0. shut \subseteq Ids
  BY DEF CredentialInv, TypeOK
<1>1. ASSUME UNCHANGED <<shut, creds>>
      PROVE  ShutInv'
  BY <1>1 DEF ShutInv, Dead
<1>2. ASSUME NEW r, NEW i \in Ids, Effect(r, i), shut' = shut
      PROVE  ShutInv'
  BY <1>0, <1>2, DeadStaysDead DEF ShutInv
<1>3. ASSUME NEW p \in Processes, NEW i \in Ids, Effect(request[p], i), Acknowledged(p, i)
      PROVE  ShutInv'
  <2>1. CASE request[p].op \in {"revoke", "delete"}
    <3>1. Changed(request[p], i)
      BY <1>3, <2>1 DEF Effect, Issued, Rotated
    <3>2. Dead(i)'
      BY <2>1, <3>1 DEF Changed, Dead
    <3>3. shut' = shut \cup {i}
      BY <1>3, <2>1 DEF Acknowledged
    <3> QED
      BY <1>0, <1>3, <3>2, <3>3, DeadStaysDead DEF ShutInv
  <2>2. CASE request[p].op \notin {"revoke", "delete"}
    BY <1>2, <1>3, <2>2 DEF Acknowledged
  <2> QED
    BY <2>1, <2>2
<1>4. ASSUME NEW p \in Processes, ProcessStep(p)
      PROVE  ShutInv'
  <2>1. CASE Quiet
    BY <1>1, <2>1 DEF Quiet, callerVars, gatewayVars
  <2>2. CASE Answered(p)
    BY <1>3, <2>2, SentTakesEffect DEF Answered
  <2>3. CASE Unreadable(p)
    <3>1. PICK i \in Ids : Handle(request[p], i)
      BY <2>3 DEF Unreadable
    <3>2. Effect(request[p], i)
      BY <2>3, <3>1, SentTakesEffect DEF Unreadable
    <3>3. CASE request[p].op = "issue"
      BY <1>2, <2>3, <3>2, <3>3 DEF Unreadable, Raises
    <3>4. CASE request[p].op # "issue"
      <4>1. i = request[p].id
        BY <3>2, <3>4 DEF Effect, Issued, Rotated, Changed
      <4> QED
        BY <1>3, <2>3, <3>2, <3>4, <4>1 DEF Unreadable
    <3> QED
      BY <3>3, <3>4
  <2>4. CASE Fails(p)
    <3>1. shut' = shut /\ pc[p] = "sending"
      BY <2>4 DEF Fails, Raises
    <3>2. CASE creds' = creds
      BY <1>1, <3>1, <3>2
    <3>3. CASE \E i \in Ids : Handle(request[p], i)
      BY <1>2, <3>1, <3>3, SentTakesEffect
    <3> QED
      BY <2>4, <3>2, <3>3 DEF Fails, gatewayVars
  <2> QED
    BY <1>4, <2>1, <2>2, <2>3, <2>4, QuietSteps
<1>5. ASSUME NEW r \in late, LateArrival(r)
      PROVE  ShutInv'
  <2>1. shut' = shut
    BY <1>5 DEF LateArrival, callerVars
  <2>2. CASE \E i \in Ids : Handle(r, i)
    BY <1>2, <1>5, <2>1, <2>2, LateTakesEffect
  <2> QED
    BY <1>1, <1>5, <2>1, <2>2 DEF LateArrival
<1>6. CASE UNCHANGED vars
  BY <1>1, <1>6 DEF vars, callerVars, gatewayVars
<1> QED
  BY <1>4, <1>5, <1>6 DEF Next

\* A credential whose revocation or deletion returned to anyone never gets a
\* working token again, whatever is lost, late or unreadable.
THEOREM ShutOffsHold == Spec => []ShutOffHolds
<1>1. Init => CredentialInv /\ ShutInv
  BY CredentialsAssumption, InitCredentials DEF Init, ShutInv
<1>2. CredentialInv /\ ShutInv /\ [Next]_vars => (CredentialInv /\ ShutInv)'
  BY CredentialsAssumption, CredentialStep, ShutStep
<1>3. ShutInv => ShutOffHolds
  BY DEF ShutInv, Dead, ShutOffHolds, Active
<1> QED
  BY <1>1, <1>2, <1>3, PTL DEF Spec

-----------------------------------------------------------------------------
\* When nothing worse happens than that answers are lost, no request outlives
\* its caller.
Calm == given.faults \subseteq {"lost"}

CalmInv == Calm => late = {}

\* The credential of a held token was issued or changed by the process.
Owned(p, i) == creds[i] \in Credential /\ p \in creds[i].hands

HeldOK(p) ==
    held[p] # NoToken =>
        /\ Owned(p, held[p].id)
        /\ "token" \notin unsure[p] /\ creds[held[p].id].hands = {p}
           => Active(held[p].id) /\ creds[held[p].id].token = held[p].token

HeldInv == Calm => \A p \in Processes : HeldOK(p)

LEMMA CalmStep ==
    ASSUME CalmInv, [Next]_vars
    PROVE  CalmInv'
<1>1. CASE UNCHANGED vars
  BY <1>1 DEF vars, gatewayVars, CalmInv, Calm
<1>2. ASSUME given' = given, NEW p \in Processes, ProcessStep(p)
      PROVE  CalmInv'
  <2>1. CASE Fails(p)
    BY <1>2, <2>1 DEF CalmInv, Calm, Fails, gatewayVars
  <2>2. CASE ~Fails(p)
    BY <1>2, <2>2, QuietSteps DEF CalmInv, Calm, Quiet, gatewayVars, Answered, Unreadable
  <2> QED
    BY <2>1, <2>2
<1>3. ASSUME given' = given, NEW r \in late, LateArrival(r)
      PROVE  CalmInv'
  BY <1>3 DEF CalmInv, Calm
<1> QED
  BY <1>1, <1>2, <1>3 DEF Next

\* In calm, a step is quiet, or a process learns the fate of its request.
LEMMA CalmSteps ==
    ASSUME Calm, CalmInv, Next
    PROVE  \E p \in Processes : ProcessStep(p) /\ (Quiet \/ Answered(p) \/ Fails(p))
<1>1. PICK p \in Processes : ProcessStep(p)
  BY DEF Next, CalmInv
<1>2. ~Unreadable(p)
  BY DEF Calm, Unreadable
<1> QED
  BY <1>1, <1>2, QuietSteps

LEMMA OwnedStays ==
    ASSUME given' = given, NEW r, NEW i \in Ids, Effect(r, i), NEW p \in Processes, NEW j \in Ids, Owned(p, j)
    PROVE  Owned(p, j)'
<1>0. Credential' = Credential
  BY DEF Credential, Tokens
<1>1. CASE j # i
  BY <1>0, <1>1 DEF Effect, Owned
<1>2. CASE j = i
  <2>1. ~Issued(r, i)
    BY <1>2 DEF Issued, Owned, Credential, Unissued
  <2> QED
    BY <1>0, <1>2, <2>1 DEF Effect, Rotated, Changed, Owned
<1> QED
  BY <1>1, <1>2

\* The one whose request takes effect owns the credential.
LEMMA EffectOwns ==
    ASSUME given' = given, NEW r, NEW i \in Ids, Effect(r, i)
    PROVE  Owned(r.by, i)'
<1>0. Credential' = Credential
  BY DEF Credential, Tokens
<1> QED
  BY <1>0 DEF Effect, Issued, Rotated, Changed, Owned

\* A process whose token stays the same is right about it, unless its own
\* request changed the token's credential without its knowing.
LEMMA HeldKept ==
    ASSUME CredentialInv, given' = given, NEW r, NEW i \in Ids, Effect(r, i), NEW q \in Processes, HeldOK(q),
           held'[q] = held[q], "token" \in unsure[q] => "token" \in unsure'[q],
           r.by = q /\ r.op \in {"rotate", "revoke", "delete"} /\ i = held[q].id => "token" \in unsure'[q]
    PROVE  HeldOK(q)'
<1> SUFFICES ASSUME held[q] # NoToken
             PROVE  HeldOK(q)'
  BY DEF HeldOK
<1> DEFINE j == held[q].id
<1>1. j \in Ids /\ Owned(q, j)
  BY DEF CredentialInv, TypeOK, HeldOK
<1>2. Owned(q, j)'
  BY <1>1, OwnedStays
<1>3. ASSUME "token" \notin unsure'[q], creds'[j].hands = {q}
      PROVE  creds'[j].state = "active" /\ creds'[j].token = held[q].token
  <2>1. CASE j # i
    BY <1>1, <1>3, <2>1 DEF Effect, HeldOK, Active
  <2>2. CASE j = i
    <3>1. ~Issued(r, i)
      BY <1>1, <2>2 DEF Issued, Owned, Credential, Unissued
    <3>2. creds'[i].hands = creds[i].hands \cup {r.by}
      BY <3>1 DEF Effect, Rotated, Changed
    <3>3. r.by = q /\ creds[i].hands = {q}
      BY <1>1, <1>3, <2>2, <3>2 DEF Owned
    <3>4. r.op \notin {"rotate", "revoke", "delete"}
      BY <1>3, <2>2, <3>3
    <3>5. Changed(r, i)
      BY <3>1, <3>4 DEF Effect, Rotated
    <3>6. Active(i) /\ creds[i].token = held[q].token
      BY <1>3, <2>2, <3>3 DEF HeldOK
    <3> QED
      BY <2>2, <3>4, <3>5, <3>6 DEF Changed, Active
  <2> QED
    BY <2>1, <2>2
<1> QED
  BY <1>2, <1>3 DEF HeldOK, Active

LEMMA HeldStep ==
    ASSUME CredentialsAssumption, CredentialInv, CalmInv, HeldInv, [Next]_vars
    PROVE  HeldInv'
<1>0. CASE UNCHANGED vars
  BY <1>0 DEF vars, callerVars, gatewayVars, HeldInv, HeldOK, Calm, Owned, Active, Credential, Tokens
<1>1. CASE Next /\ ~Calm
  BY <1>1 DEF Next, HeldInv, Calm
<1>2. CASE Next /\ Calm
  <2>0. given' = given /\ Credential' = Credential
    BY <1>2 DEF Next, Credential, Tokens
  <2>1. PICK p \in Processes : ProcessStep(p) /\ (Quiet \/ Answered(p) \/ Fails(p))
    BY <1>2, CalmSteps
  <2> SUFFICES ASSUME NEW q \in Processes
               PROVE  HeldOK(q)'
    BY <2>0 DEF HeldInv
  <2>2. HeldOK(q)
    BY <1>2 DEF HeldInv
  <2>3. /\ held \in [Processes -> [id : Ids, token : Tokens] \cup {NoToken}]
        /\ unsure \in [Processes -> SUBSET {"token", "limit"}]
    BY DEF CredentialInv, TypeOK
  <2>4. CASE Quiet
    BY <2>0, <2>2, <2>4 DEF Quiet, callerVars, gatewayVars, HeldOK, Owned, Active
  <2>5. CASE Answered(p)
    <3>1. PICK i \in Ids : Handle(request[p], i) /\ Returns(p, i)
      BY <2>5 DEF Answered
    <3>2. request[p].by = p /\ Effect(request[p], i)
      BY <2>5, <3>1, SentTakesEffect DEF Answered
    <3>3. CASE q # p
      <4>1. held'[q] = held[q] /\ unsure'[q] = unsure[q]
        BY <2>3, <3>1, <3>3 DEF Returns
      <4> QED
        BY <2>0, <2>2, <3>2, <3>3, <4>1, HeldKept
    <3>4. CASE q = p /\ request[p].op \in {"issue", "rotate"}
      <4>1. held'[p] = [id |-> i, token |-> creds'[i].token]
        BY <2>3, <3>1, <3>4 DEF Returns, Answer
      <4>2. creds'[i].state = "active"
        BY <3>2, <3>4 DEF Effect, Issued, Rotated, Changed
      <4>3. Owned(p, i)'
        BY <2>0, <3>2, EffectOwns
      <4> QED
        BY <3>4, <4>1, <4>2, <4>3 DEF HeldOK, Active
    <3>5. CASE q = p /\ request[p].op \in {"revoke", "delete"} /\ i = held[p].id
      BY <2>3, <3>1, <3>5 DEF Returns, HeldOK
    <3>6. CASE /\ q = p /\ request[p].op \notin {"issue", "rotate"}
               /\ ~(request[p].op \in {"revoke", "delete"} /\ i = held[p].id)
      <4>1. held'[p] = held[p]
        BY <2>3, <3>1, <3>6 DEF Returns
      <4>2. "token" \in unsure[p] => "token" \in unsure'[p]
        BY <2>3, <3>1, <4>1 DEF Returns
      <4> QED
        BY <2>0, <2>2, <3>2, <3>6, <4>1, <4>2, HeldKept
    <3> QED
      BY <3>3, <3>4, <3>5, <3>6
  <2>6. CASE Fails(p)
    <3>1. held' = held /\ pc[p] = "sending" /\ unsure[q] \subseteq unsure'[q]
      BY <2>3, <2>6 DEF Fails, Raises
    <3>2. CASE creds' = creds
      BY <2>0, <2>2, <3>1, <3>2 DEF HeldOK, Owned, Active
    <3>3. CASE \E i \in Ids : Handle(request[p], i)
      <4>1. PICK i \in Ids : Handle(request[p], i)
        BY <3>3
      <4>2. request[p].by = p /\ Effect(request[p], i)
        BY <3>1, <4>1, SentTakesEffect
      <4>3. request[p].op \in {"rotate", "revoke", "delete"} => i = request[p].id
        BY <4>2 DEF Effect, Issued, Rotated, Changed
      <4>4. q = p /\ request[p].op \in {"rotate", "revoke", "delete"} /\ i = held[q].id => "token" \in unsure'[q]
        BY <2>3, <2>6, <4>3 DEF Fails, Raises, Doubts
      <4> QED
        BY <2>0, <2>2, <3>1, <4>2, <4>4, HeldKept
    <3> QED
      BY <2>6, <3>2, <3>3 DEF Fails, gatewayVars
  <2> QED
    BY <2>1, <2>4, <2>5, <2>6
<1> QED
  BY <1>0, <1>1, <1>2

\* In settings where answers are lost and nothing worse happens, a process's
\* token works until another process changes its credential, or a change by the
\* process itself ended in an exception.
THEOREM HeldTokensAreLive == Spec => []HeldTokenIsLive
<1>1. Init => CredentialInv /\ CalmInv /\ HeldInv
  BY CredentialsAssumption, InitCredentials DEF Init, CalmInv, HeldInv, HeldOK
<1>2. CredentialInv /\ CalmInv /\ HeldInv /\ [Next]_vars => (CredentialInv /\ CalmInv /\ HeldInv)'
  BY CredentialsAssumption, CredentialStep, CalmStep, HeldStep
<1>3. HeldInv => HeldTokenIsLive
  BY DEF HeldInv, HeldOK, HeldTokenIsLive, Calm
<1> QED
  BY <1>1, <1>2, <1>3, PTL DEF Spec

-----------------------------------------------------------------------------
\* A request asks for the limit it carries, unless it is an update; and what
\* was accepted is in force, as HeldOK says it of tokens.
AskedOK(p) ==
    /\ pc[p] # "idle" => request[p].limit = request[p].asked
    /\ pc[p] = "sending" => request[p].op # "ensure"
    /\ pc[p] = "sending" /\ request[p].op = "rotate" => request[p].asked = None

LimitOK(p) ==
    granted[p] # NoLimit =>
        /\ Owned(p, granted[p].id)
        /\ /\ "limit" \notin unsure[p]
           /\ Active(granted[p].id) /\ creds[granted[p].id].hands = {p}
           => creds[granted[p].id].limit = granted[p].limit

AskedInv == \A p \in Processes : AskedOK(p)
LimitInv == Calm => \A p \in Processes : LimitOK(p)

NoUpdates == \A s \in Settings : "update" \notin s.ops

LEMMA AskedStep ==
    ASSUME CredentialsAssumption, NoUpdates, CredentialInv, AskedInv, [Next]_vars
    PROVE  AskedInv'
<1>0. given \in Settings /\ pc \in [Processes -> {"idle", "listing", "sending"}]
      /\ request \in [Processes -> Request \cup {NoRequest}]
  BY DEF CredentialInv, TypeOK
<1>1. ASSUME UNCHANGED <<pc, request>>
      PROVE  AskedInv'
  BY <1>1 DEF AskedInv, AskedOK
<1>2. ASSUME NEW p \in Processes, NEW where \in {"idle", "listing", "sending"}, NEW r,
             pc' = [pc EXCEPT ![p] = where], request' = [request EXCEPT ![p] = r],
             where # "idle" => r.limit = r.asked,
             where = "sending" => r.op # "ensure" /\ (r.op = "rotate" => r.asked = None)
      PROVE  AskedInv'
  <2>1. AskedOK(p)'
    BY <1>0, <1>2 DEF AskedOK
  <2>2. \A q \in Processes \ {p} : pc'[q] = pc[q] /\ request'[q] = request[q]
    BY <1>0, <1>2
  <2>3. \A q \in Processes \ {p} : AskedOK(q)'
    BY <2>2 DEF AskedInv, AskedOK
  <2> QED
    BY <2>1, <2>3 DEF AskedInv
<1>3. ASSUME NEW p \in Processes, Finish(p)
      PROVE  AskedInv'
  BY <1>2, <1>3 DEF Finish
<1>4. ASSUME NEW p \in Processes, pc[p] = "listing", EnsureIssues(p)
      PROVE  AskedInv'
  <2>1. request[p] \in Request /\ request[p].limit = request[p].asked
    BY <1>4 DEF CredentialInv, RequestsOK, AskedInv, AskedOK
  <2>2. PICK r \in Request : r = [request[p] EXCEPT !.op = "issue"]
    BY <2>1, EnsureIssuesRequest
  <2>3. r.limit = r.asked /\ r.op = "issue"
    BY <2>1, <2>2 DEF Request
  <2> QED
    BY <1>2, <1>4, <2>2, <2>3 DEF EnsureIssues, Send
<1>5. ASSUME NEW p \in Processes, ProcessStep(p)
      PROVE  AskedInv'
  <2>1. CASE BeginRequest(p)
    <3>1. PICK op \in given.ops \ {"ensure"}, name \in given.names \cup {None}, limit \in given.limits \cup {None},
               spelling \in {"creditLimit"} \cup SnakeCase, i \in Ids \cup {0} :
            /\ op \notin {"issue", "update"} => name = None
            /\ op \notin {"issue", "update", "quota"} => limit = None
            /\ Send(p, [op |-> op, id |-> i, name |-> name, by |-> p, asked |-> limit,
                        limit |-> SentLimit(op, spelling, limit)])
      BY <2>1, RequestChoices, Zenon
    <3>2. op # "update" /\ limit \in Limits \cup {None}
      BY <1>0, GivenParts DEF NoUpdates
    <3>3. SentLimit(op, spelling, limit) = limit
      BY <3>2, SentLimitType
    <3> DEFINE r == [op |-> op, id |-> i, name |-> name, by |-> p, asked |-> limit, limit |-> limit]
    <3>4. pc' = [pc EXCEPT ![p] = "sending"] /\ request' = [request EXCEPT ![p] = r]
      BY <3>1, <3>3 DEF Send
    <3>5. r.limit = r.asked /\ r.op # "ensure" /\ (r.op = "rotate" => r.asked = None)
      BY <3>1
    <3> HIDE DEF r
    <3> QED
      BY <1>2, <3>4, <3>5
  <2>2. CASE BeginEnsure(p)
    <3>1. PICK name \in given.names, limit \in given.limits \cup {None}, spelling \in {"creditLimit"} \cup SnakeCase :
            request' = [request EXCEPT ![p] =
               [op |-> "ensure", id |-> 0, name |-> name, by |-> p, asked |-> limit,
                limit |-> SentLimit("issue", spelling, limit)]]
      BY <2>2 DEF BeginEnsure
    <3>2. limit \in Limits \cup {None}
      BY <1>0, GivenParts
    <3>3. SentLimit("issue", spelling, limit) = limit
      BY <3>2, SentLimitType
    <3> DEFINE r == [op |-> "ensure", id |-> 0, name |-> name, by |-> p, asked |-> limit, limit |-> limit]
    <3>4. pc' = [pc EXCEPT ![p] = "listing"] /\ request' = [request EXCEPT ![p] = r]
      BY <2>2, <3>1, <3>3 DEF BeginEnsure
    <3>5. r.limit = r.asked
      OBVIOUS
    <3> HIDE DEF r
    <3> QED
      BY <1>2, <3>4, <3>5
  <2>3. CASE Listed(p)
    <3>1. CASE Matches(request[p].name) = {}
      BY <1>4, <2>3, <3>1 DEF Listed
    <3>2. CASE Matches(request[p].name) # {}
      <4>1. PICK i \in Matches(request[p].name) :
               Send(p, [request[p] EXCEPT !.op = "rotate", !.id = i, !.name = None,
                                         !.limit = None, !.asked = None])
        BY <2>3, <3>2 DEF Listed
      <4> DEFINE r == [request[p] EXCEPT !.op = "rotate", !.id = i, !.name = None, !.limit = None, !.asked = None]
      <4>2. request[p] \in Request
        BY <2>3 DEF RequestsOK, CredentialInv, Listed
      <4>3. r.limit = None /\ r.asked = None /\ r.op = "rotate"
        BY <4>2 DEF Request
      <4>4. pc' = [pc EXCEPT ![p] = "sending"] /\ request' = [request EXCEPT ![p] = r]
        BY <4>1 DEF Send
      <4> HIDE DEF r
      <4> QED
        BY <1>2, <4>3, <4>4
    <3> QED
      BY <3>1, <3>2
  <2>4. CASE ListUnreadable(p)
    BY <1>4, <2>4 DEF ListUnreadable
  <2>5. CASE ListFails(p) \/ Answered(p) \/ Unreadable(p) \/ Fails(p)
    BY <1>3, <2>5 DEF ListFails, Answered, Unreadable, Fails, Raises
  <2> QED
    BY <1>5, <2>1, <2>2, <2>3, <2>4, <2>5 DEF ProcessStep
<1>6. ASSUME NEW r \in late, LateArrival(r)
      PROVE  AskedInv'
  BY <1>1, <1>6 DEF LateArrival
<1>7. CASE UNCHANGED vars
  BY <1>1, <1>7 DEF vars
<1> QED
  BY <1>5, <1>6, <1>7 DEF Next

\* A process whose accepted limit stays the same is right about it, unless its
\* own request changed it without its knowing.
LEMMA LimitKept ==
    ASSUME CredentialInv, given' = given, NEW r, NEW i \in Ids, Effect(r, i), NEW q \in Processes, LimitOK(q),
           granted'[q] = granted[q], "limit" \in unsure[q] => "limit" \in unsure'[q],
           r.by = q /\ i = granted[q].id => \/ "limit" \in unsure'[q] \/ r.limit = None
                                            \/ r.op \in {"issue", "rotate", "revoke", "delete"}
    PROVE  LimitOK(q)'
<1> SUFFICES ASSUME granted[q] # NoLimit
             PROVE  LimitOK(q)'
  BY DEF LimitOK
<1> DEFINE j == granted[q].id
<1>1. j \in Ids /\ Owned(q, j)
  BY DEF CredentialInv, TypeOK, LimitOK
<1>2. Owned(q, j)'
  BY <1>1, OwnedStays
<1>3. ASSUME "limit" \notin unsure'[q], creds'[j].state = "active", creds'[j].hands = {q}
      PROVE  creds'[j].limit = granted[q].limit
  <2>1. CASE j # i
    BY <1>1, <1>3, <2>1 DEF Effect, LimitOK, Active
  <2>2. CASE j = i
    <3>1. ~Issued(r, i)
      BY <1>1, <2>2 DEF Issued, Owned, Credential, Unissued
    <3>2. creds'[i].hands = creds[i].hands \cup {r.by}
      BY <3>1 DEF Effect, Rotated, Changed
    <3>3. r.by = q /\ creds[i].hands = {q}
      BY <1>1, <1>3, <2>2, <3>2 DEF Owned
    <3>4. Active(i)
      BY <1>3, <2>2, <3>1 DEF Effect, Rotated, Changed, Active
    <3>5. creds[i].limit = granted[q].limit
      BY <1>3, <2>2, <3>3, <3>4 DEF LimitOK
    <3>6. CASE Rotated(r, i)
      BY <2>2, <3>5, <3>6 DEF Rotated
    <3>7. CASE Changed(r, i)
      BY <1>3, <2>2, <3>3, <3>5, <3>7 DEF Changed
    <3> QED
      BY <3>1, <3>6, <3>7 DEF Effect
  <2> QED
    BY <2>1, <2>2
<1> QED
  BY <1>2, <1>3 DEF LimitOK, Active

LEMMA LimitStep ==
    ASSUME CredentialsAssumption, CredentialInv, CalmInv, AskedInv, LimitInv, [Next]_vars
    PROVE  LimitInv'
<1>0. CASE UNCHANGED vars
  BY <1>0 DEF vars, callerVars, gatewayVars, LimitInv, LimitOK, Calm, Owned, Active, Credential, Tokens
<1>1. CASE Next /\ ~Calm
  BY <1>1 DEF Next, LimitInv, Calm
<1>2. CASE Next /\ Calm
  <2>0. given' = given /\ Credential' = Credential
    BY <1>2 DEF Next, Credential, Tokens
  <2>1. PICK p \in Processes : ProcessStep(p) /\ (Quiet \/ Answered(p) \/ Fails(p))
    BY <1>2, CalmSteps
  <2> SUFFICES ASSUME NEW q \in Processes
               PROVE  LimitOK(q)'
    BY <2>0 DEF LimitInv
  <2>2. LimitOK(q)
    BY <1>2 DEF LimitInv
  <2>3. /\ held \in [Processes -> [id : Ids, token : Tokens] \cup {NoToken}]
        /\ granted \in [Processes -> [id : Ids, limit : Limits] \cup {NoLimit}]
        /\ unsure \in [Processes -> SUBSET {"token", "limit"}]
    BY DEF CredentialInv, TypeOK
  <2>4. CASE Quiet
    BY <2>0, <2>2, <2>4 DEF Quiet, callerVars, gatewayVars, LimitOK, Owned, Active
  <2>5. ASSUME pc[p] = "sending", NEW i \in Ids, Handle(request[p], i)
        PROVE  /\ request[p] \in Request /\ request[p].by = p /\ Effect(request[p], i)
               /\ request[p].limit = request[p].asked /\ request[p].op # "ensure"
               /\ request[p].op = "rotate" => request[p].asked = None
    BY <2>5, SentTakesEffect DEF AskedInv, AskedOK
  <2>6. CASE Answered(p)
    <3>1. PICK i \in Ids : Handle(request[p], i) /\ Returns(p, i)
      BY <2>6 DEF Answered
    <3>2. /\ request[p].by = p /\ Effect(request[p], i)
          /\ request[p].limit = request[p].asked
          /\ request[p].op = "rotate" => request[p].asked = None
      BY <2>5, <2>6, <3>1 DEF Answered
    <3>3. CASE q # p
      <4>1. granted'[q] = granted[q] /\ unsure'[q] = unsure[q]
        BY <2>3, <3>1, <3>3 DEF Returns
      <4> QED
        BY <2>0, <2>2, <3>2, <3>3, <4>1, LimitKept
    <3>4. CASE q = p /\ request[p].asked = None
      <4>1. granted'[p] = granted[p]
        BY <2>3, <3>1, <3>4 DEF Returns
      <4>2. "limit" \in unsure[p] => "limit" \in unsure'[p]
        BY <2>3, <3>1, <3>4 DEF Returns
      <4> QED
        BY <2>0, <2>2, <3>2, <3>4, <4>1, <4>2, LimitKept
    <3>5. CASE q = p /\ request[p].asked # None
      <4>1. granted'[p] = [id |-> i, limit |-> request[p].asked]
        BY <2>3, <3>1, <3>5 DEF Returns
      <4>2. Owned(p, i)'
        BY <2>0, <3>2, EffectOwns
      <4>3. creds'[i].limit = request[p].asked
        BY <3>2, <3>5 DEF Effect, Issued, Rotated, Changed
      <4> QED
        BY <3>5, <4>1, <4>2, <4>3 DEF LimitOK
    <3> QED
      BY <3>3, <3>4, <3>5
  <2>7. CASE Fails(p)
    <3>1. granted' = granted /\ pc[p] = "sending" /\ unsure[q] \subseteq unsure'[q]
      BY <2>3, <2>7 DEF Fails, Raises
    <3>2. CASE creds' = creds
      BY <2>0, <2>2, <3>1, <3>2 DEF LimitOK, Owned, Active
    <3>3. CASE \E i \in Ids : Handle(request[p], i)
      <4>1. PICK i \in Ids : Handle(request[p], i)
        BY <3>3
      <4>2. request[p] \in Request /\ request[p].by = p /\ Effect(request[p], i) /\ request[p].op # "ensure"
        BY <2>5, <3>1, <4>1
      <4>3. request[p].op # "issue" => i = request[p].id
        BY <4>2 DEF Effect, Issued, Rotated, Changed
      <4>4. request[p].op \in {"issue", "rotate", "revoke", "delete", "quota", "update"}
        BY <4>2 DEF Request, Operations
      <4>5. q = p /\ request[p].op \in {"quota", "update"} /\ i = granted[q].id => "limit" \in unsure'[q]
        BY <2>3, <2>7, <4>3 DEF Fails, Raises, Doubts
      <4> QED
        BY <2>0, <2>2, <3>1, <4>2, <4>4, <4>5, LimitKept
    <3> QED
      BY <2>7, <3>2, <3>3 DEF Fails, gatewayVars
  <2> QED
    BY <2>1, <2>4, <2>6, <2>7
<1> QED
  BY <1>0, <1>1, <1>2

\* Where nobody calls update_credential, whose snake-case limit is dropped, and
\* answers are lost but nothing worse happens, an accepted limit is in force as
\* far as the process can know.
THEOREM AcceptedLimitsApply == NoUpdates => (Spec => []LimitsAreApplied)
<1> SUFFICES ASSUME NoUpdates
             PROVE  Spec => []LimitsAreApplied
  OBVIOUS
<1>1. Init => CredentialInv /\ CalmInv /\ AskedInv /\ LimitInv
  BY CredentialsAssumption, InitCredentials DEF Init, CalmInv, AskedInv, AskedOK, LimitInv, LimitOK
<1>2. CredentialInv /\ CalmInv /\ AskedInv /\ LimitInv /\ [Next]_vars => (CredentialInv /\ CalmInv /\ AskedInv /\ LimitInv)'
  BY CredentialsAssumption, CredentialStep, CalmStep, AskedStep, LimitStep
<1>3. LimitInv => LimitsAreApplied
  BY DEF LimitInv, LimitOK, LimitsAreApplied, Calm
<1> QED
  BY <1>1, <1>2, <1>3, PTL DEF Spec

-----------------------------------------------------------------------------
\* Nobody issues by hand or renames, and nothing worse than a loss happens.
Sole == Calm /\ given.ops \cap {"issue", "update"} = {}

\* The process has no active credential of the name.
NoneOf(p, name) ==
    \A i \in Ids : Active(i) /\ creds[i].by = p /\ creds[i].name # None => Strip[creds[i].name] # Strip[name]

NameOK(p) ==
    /\ pc[p] = "sending" => request[p].op # "ensure"
    /\ pc[p] = "sending" /\ request[p].op # "issue" => request[p].name = None
    /\ pc[p] = "sending" /\ request[p].op = "issue" => NoneOf(p, request[p].name)

OneOfAName == \A i, j \in Ids : Duplicates(i, j) => creds[i].by # creds[j].by

NameInv == Sole => OneOfAName /\ \A p \in Processes : NameOK(p)

\* Requests that issue nothing leave no active credential under another name.
LEMMA NamesKept ==
    ASSUME NEW r, NEW i \in Ids, Effect(r, i), r.op # "issue", r.name = None, NEW j \in Ids, Active(j)'
    PROVE  Active(j) /\ creds'[j].name = creds[j].name /\ creds'[j].by = creds[j].by
<1>1. CASE j # i
  BY <1>1 DEF Effect, Active
<1>2. CASE j = i
  BY <1>2 DEF Effect, Issued, Rotated, Changed, Active
<1> QED
  BY <1>1, <1>2

\* A request that takes effect makes no duplicate, and leaves the others'
\* listings as true as they were.
LEMMA NamesAfterEffect ==
    ASSUME OneOfAName, NEW p \in Processes, NEW r, r.by = p, NEW i \in Ids, Effect(r, i),
           r.op # "issue" => r.name = None,
           r.op = "issue" => NoneOf(p, r.name)
    PROVE  /\ OneOfAName'
           /\ \A q \in Processes \ {p} : \A n : NoneOf(q, n) => NoneOf(q, n)'
<1>1. CASE r.op # "issue"
  <2>1. \A j \in Ids : Active(j)' => Active(j) /\ creds'[j].name = creds[j].name /\ creds'[j].by = creds[j].by
    BY <1>1, NamesKept
  <2> QED
    BY <2>1 DEF OneOfAName, Duplicates, NoneOf
<1>2. CASE r.op = "issue"
  <2>1. Issued(r, i)
    BY <1>2 DEF Effect, Rotated, Changed
  <2>2. creds'[i].name = r.name /\ creds'[i].by = p
    BY <2>1 DEF Issued
  <2>3. \A j \in Ids \ {i} : creds'[j] = creds[j]
    BY DEF Effect
  <2>4. ASSUME NEW j \in Ids, NEW k \in Ids, Duplicates(j, k)'
        PROVE  creds'[j].by # creds'[k].by
    <3>1. CASE j # i /\ k # i
      BY <2>3, <2>4, <3>1 DEF OneOfAName, Duplicates, Active
    <3>2. CASE j = i /\ k # i
      BY <1>2, <2>2, <2>3, <2>4, <3>2 DEF NoneOf, Duplicates, Active
    <3>3. CASE j # i /\ k = i
      BY <1>2, <2>2, <2>3, <2>4, <3>3 DEF NoneOf, Duplicates, Active
    <3> QED
      BY <2>4, <3>1, <3>2, <3>3 DEF Duplicates
  <2>5. ASSUME NEW q \in Processes \ {p}, NEW n, NoneOf(q, n)
        PROVE  NoneOf(q, n)'
    BY <2>2, <2>3, <2>5 DEF NoneOf, Active
  <2> QED
    BY <2>4, <2>5 DEF OneOfAName
<1> QED
  BY <1>1, <1>2

LEMMA NameStep ==
    ASSUME CredentialsAssumption, CredentialInv, CalmInv, NameInv, [Next]_vars
    PROVE  NameInv'
<1>0. CASE UNCHANGED vars
  BY <1>0 DEF vars, gatewayVars, NameInv, NameOK, NoneOf, OneOfAName, Duplicates, Sole, Calm, Active
<1>1. CASE Next /\ ~Sole
  BY <1>1 DEF Next, NameInv, Sole, Calm
<1>2. CASE Next /\ Sole
  <2>0. given' = given
    BY <1>2 DEF Next
  <2>1. PICK p \in Processes : ProcessStep(p) /\ (Quiet \/ Answered(p) \/ Fails(p))
    BY <1>2, CalmSteps DEF Sole
  <2>2. /\ pc \in [Processes -> {"idle", "listing", "sending"}]
        /\ request \in [Processes -> Request \cup {NoRequest}]
    BY DEF CredentialInv, TypeOK
  <2>3. OneOfAName /\ \A q \in Processes : NameOK(q)
    BY <1>2 DEF NameInv
  <2>4. ASSUME creds' = creds, NEW where \in {"idle", "listing", "sending"}, NEW r,
               pc' = [pc EXCEPT ![p] = where], request' = [request EXCEPT ![p] = r],
               where = "sending" => /\ r.op # "ensure"
                                    /\ r.op # "issue" => r.name = None
                                    /\ r.op = "issue" => NoneOf(p, r.name)
        PROVE  NameInv'
    <3>1. \A n, q : NoneOf(q, n)' = NoneOf(q, n)
      BY <2>4 DEF NoneOf, Active
    <3>2. pc'[p] = where /\ request'[p] = r
      BY <2>2, <2>4
    <3>3. NameOK(p)'
      BY <2>4, <3>1, <3>2 DEF NameOK
    <3>4. \A q \in Processes \ {p} : pc'[q] = pc[q] /\ request'[q] = request[q]
      BY <2>2, <2>4
    <3>5. \A q \in Processes \ {p} : NameOK(q)'
      BY <2>3, <3>1, <3>4 DEF NameOK
    <3>6. OneOfAName'
      BY <2>3, <2>4 DEF OneOfAName, Duplicates, Active
    <3> QED
      BY <3>3, <3>5, <3>6 DEF NameInv
  <2>5. ASSUME pc[p] = "sending", Finish(p), NEW i \in Ids, Handle(request[p], i)
        PROVE  NameInv'
    <3>1. request[p].by = p /\ Effect(request[p], i)
      BY <2>5, SentTakesEffect
    <3>2. NameOK(p)
      BY <2>3
    <3>3. /\ OneOfAName'
          /\ \A q \in Processes \ {p} : \A n : NoneOf(q, n) => NoneOf(q, n)'
      BY <2>3, <2>5, <3>1, <3>2, NamesAfterEffect DEF NameOK
    <3>4. pc'[p] = "idle" /\ \A q \in Processes \ {p} : pc'[q] = pc[q] /\ request'[q] = request[q]
      BY <2>2, <2>5 DEF Finish
    <3>5. \A q \in Processes \ {p} : NameOK(q)'
      BY <2>3, <3>3, <3>4 DEF NameOK
    <3>6. NameOK(p)'
      BY <3>4 DEF NameOK
    <3> QED
      BY <3>3, <3>5, <3>6 DEF NameInv
  <2>6. CASE Quiet
    <3>0. creds' = creds
      BY <2>6 DEF Quiet, gatewayVars
    <3>1. CASE BeginRequest(p)
      <4>1. PICK op \in given.ops \ {"ensure"}, name \in given.names \cup {None}, limit \in given.limits \cup {None},
                 spelling \in {"creditLimit"} \cup SnakeCase, i \in Ids \cup {0} :
              /\ op \notin {"issue", "update"} => name = None
              /\ op \notin {"issue", "update", "quota"} => limit = None
              /\ Send(p, [op |-> op, id |-> i, name |-> name, by |-> p, asked |-> limit,
                          limit |-> SentLimit(op, spelling, limit)])
        BY <3>1, RequestChoices, Zenon
      <4>2. op \notin {"issue", "update", "ensure"} /\ name = None
        BY <1>2, <4>1 DEF Sole
      <4> DEFINE r == [op |-> op, id |-> i, name |-> name, by |-> p, asked |-> limit,
                       limit |-> SentLimit(op, spelling, limit)]
      <4>3. r.op \notin {"issue", "ensure"} /\ r.name = None
        BY <4>2
      <4>4. pc' = [pc EXCEPT ![p] = "sending"] /\ request' = [request EXCEPT ![p] = r]
        BY <4>1 DEF Send
      <4> HIDE DEF r
      <4> QED
        BY <2>4, <3>0, <4>3, <4>4
    <3>2. CASE BeginEnsure(p)
      <4>1. PICK name \in given.names, limit \in given.limits \cup {None}, spelling \in {"creditLimit"} \cup SnakeCase :
              request' = [request EXCEPT ![p] =
                 [op |-> "ensure", id |-> 0, name |-> name, by |-> p, asked |-> limit,
                  limit |-> SentLimit("issue", spelling, limit)]]
        BY <3>2 DEF BeginEnsure
      <4> QED
        BY <2>4, <3>0, <3>2, <4>1 DEF BeginEnsure
    <3>3. CASE Listed(p)
      <4>0. request[p] \in Request /\ request[p].name \in Spellings
        BY <3>3 DEF Listed, CredentialInv, RequestsOK
      <4>1. CASE Matches(request[p].name) = {}
        <5>1. PICK r \in Request : r = [request[p] EXCEPT !.op = "issue"]
          BY <4>0, EnsureIssuesRequest
        <5>2. r.op = "issue" /\ r.name = request[p].name
          BY <4>0, <5>1 DEF Request
        <5>3. NoneOf(p, r.name)
          BY <4>1, <5>2 DEF NoneOf, Matches
        <5>4. pc' = [pc EXCEPT ![p] = "sending"] /\ request' = [request EXCEPT ![p] = r]
          BY <3>3, <4>1, <5>1 DEF Listed, EnsureIssues, Send
        <5> QED
          BY <2>4, <3>0, <5>2, <5>3, <5>4
      <4>2. CASE Matches(request[p].name) # {}
        <5>1. PICK i \in Matches(request[p].name) :
                 Send(p, [request[p] EXCEPT !.op = "rotate", !.id = i, !.name = None,
                                           !.limit = None, !.asked = None])
          BY <3>3, <4>2 DEF Listed
        <5> DEFINE r == [request[p] EXCEPT !.op = "rotate", !.id = i, !.name = None, !.limit = None, !.asked = None]
        <5>2. r.name = None /\ r.op = "rotate"
          BY <4>0 DEF Request
        <5>3. pc' = [pc EXCEPT ![p] = "sending"] /\ request' = [request EXCEPT ![p] = r]
          BY <5>1 DEF Send
        <5> HIDE DEF r
        <5> QED
          BY <2>4, <3>0, <5>2, <5>3
      <4> QED
        BY <4>1, <4>2
    <3>4. CASE Finish(p)
      BY <2>4, <3>0, <3>4 DEF Finish
    <3>5. ~ListUnreadable(p)
      BY <1>2 DEF Sole, Calm, ListUnreadable
    <3> QED
      BY <2>1, <3>1, <3>2, <3>3, <3>4, <3>5 DEF ProcessStep, ListFails, Answered, Unreadable, Fails, Raises
  <2>7. CASE Answered(p)
    BY <2>5, <2>7 DEF Answered
  <2>8. CASE Fails(p)
    <3>1. pc[p] = "sending" /\ Finish(p)
      BY <2>8 DEF Fails, Raises
    <3>2. CASE creds' = creds
      BY <2>4, <3>1, <3>2 DEF Finish
    <3>3. CASE \E i \in Ids : Handle(request[p], i)
      BY <2>5, <3>1, <3>3
    <3> QED
      BY <2>8, <3>2, <3>3 DEF Fails, gatewayVars
  <2> QED
    BY <2>1, <2>6, <2>7, <2>8
<1> QED
  BY <1>0, <1>1, <1>2

\* However often a process repeats ensure_credential after lost answers, it
\* makes no second active credential of a name.
THEOREM EnsureMakesNoDuplicates == Spec => []NoProcessDuplicates
<1>1. Init => CredentialInv /\ CalmInv /\ NameInv
  BY CredentialsAssumption, InitCredentials
     DEF Init, CalmInv, NameInv, NameOK, OneOfAName, Duplicates, Active, Unissued
<1>2. CredentialInv /\ CalmInv /\ NameInv /\ [Next]_vars => (CredentialInv /\ CalmInv /\ NameInv)'
  BY CredentialsAssumption, CredentialStep, CalmStep, NameStep
<1>3. NameInv => NoProcessDuplicates
  BY DEF NameInv, OneOfAName, NoProcessDuplicates, Sole, Calm
<1> QED
  BY <1>1, <1>2, <1>3, PTL DEF Spec
=============================================================================

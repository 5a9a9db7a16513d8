----------------------------- MODULE OwnerAuth -----------------------------
(***************************************************************************)
(* The owner session of the Python SDK (python/synapse_client/auth.py):    *)
(* authenticate() and its cached token, the requests that carry it, and    *)
(* logout().  Threads share one SynapseAuth, whose _token and              *)
(* _token_expires_at they read and write one attribute at a time, without  *)
(* a lock.                                                                 *)
(*                                                                         *)
(* Time is a clock of whole units.  It stands still while a thread runs    *)
(* its own code, and passes while messages travel: the answer to a verify  *)
(* and an owner's request each arrive within MaxLatency.  The gateway is   *)
(* external: a token lives TokenLife from its issue or until it is logged  *)
(* out.                                                                    *)
(***************************************************************************)
EXTENDS Integers, Sequences

CONSTANTS
    Callers,        \* threads that share the object
    Ops,            \* operations they use, a subset of AllOps
    NoToken,        \* None
    TokenLife,      \* expires_in of every token
    Margin,         \* the 30 seconds that are taken off a token's life
    MaxLatency,     \* the longest that one message travels
    FromAnswer,     \* does the SDK count expires_in from the answer, or from the start
    MaxTokens,      \* bound: tokens issued
    MaxClock        \* bound: time

\* "refresh" is authenticate(force_refresh=True), "request" any owner request.
AllOps == {"authenticate", "refresh", "request", "logout"}
Tokens == 1..MaxTokens

ASSUME AuthAssumption ==
    /\ Ops \subseteq AllOps
    /\ NoToken \notin Nat
    /\ TokenLife \in Nat /\ Margin \in Nat /\ MaxLatency \in Nat
    /\ FromAnswer \in BOOLEAN
    /\ MaxTokens \in Nat /\ MaxClock \in Nat

VARIABLES
    pc,         \* where each thread's operation stands
    op,         \* the operation
    started,    \* now, as authenticate() read it
    mine,       \* access_token of the answer to the thread's verify
    result,     \* what authenticate() returned to the operation
    since,      \* when the message in flight was sent
    token,      \* self._token
    expiresAt,  \* self._token_expires_at
    overtaken,  \* history: threads that another's logout cleared the cache under,
                \* after their last look at the token or write of it
    clock,      \* external: time
    issued,     \* external: when each token was issued, in order
    revoked,    \* external: tokens that were logged out
    unheard     \* history: tokens whose logout was handled and never answered

threadVars == <<op, started, mine, result, since>>
cacheVars == <<token, expiresAt, overtaken>>
gatewayVars == <<clock, issued, revoked, unheard>>
vars == <<pc, threadVars, cacheVars, gatewayVars>>

\* In these places a thread runs its own code; in the others time may pass.
Instant == {"checking", "comparing", "storing", "expiring", "returning", "clearing", "zeroing"}
Places == Instant \cup {"idle", "verifying", "answering", "sending",
                        "revoking", "served"}

Goto(c, where) == pc' = [pc EXCEPT ![c] = where]

\* The operation ends, with a value or an exception, and its locals with it.
End(c) ==
    /\ Goto(c, "idle")
    /\ op' = [op EXCEPT ![c] = "authenticate"]
    /\ started' = [started EXCEPT ![c] = 0]
    /\ mine' = [mine EXCEPT ![c] = NoToken]
    /\ result' = [result EXCEPT ![c] = NoToken]
    /\ since' = [since EXCEPT ![c] = 0]

Live(t) == t # NoToken /\ t \notin revoked /\ clock < issued[t] + TokenLife

-----------------------------------------------------------------------------
\* Every operation first calls authenticate(), which reads the time.
Begin(c, o) ==
    /\ pc[c] = "idle"
    /\ op' = [op EXCEPT ![c] = o]
    /\ started' = [started EXCEPT ![c] = clock]
    /\ Goto(c, "checking")
    /\ UNCHANGED <<mine, result, since, cacheVars, gatewayVars>>

\* not force_refresh and self._token ...
CheckToken(c) ==
    /\ pc[c] = "checking"
    /\ Goto(c, IF op[c] # "refresh" /\ token # NoToken THEN "comparing" ELSE "verifying")
    /\ overtaken' = overtaken \ {c}
    /\ UNCHANGED <<threadVars, token, expiresAt, gatewayVars>>

\* Mutant: the margin is forgotten.
StillGoodToTheEnd(c) == started[c] < expiresAt

\* ... and now < max(0, self._token_expires_at - 30)
StillGood(c) == started[c] < (IF expiresAt - Margin < 0 THEN 0 ELSE expiresAt - Margin)

CheckExpiry(c) ==
    /\ pc[c] = "comparing"
    /\ Goto(c, IF StillGood(c) THEN "returning" ELSE "verifying")
    /\ UNCHANGED <<threadVars, cacheVars, gatewayVars>>

\* The challenge is fetched and signed, and the gateway answers the verify of
\* the signature with a new token.
Verify(c) ==
    /\ pc[c] = "verifying"
    /\ Len(issued) < MaxTokens
    /\ issued' = Append(issued, clock)
    /\ mine' = [mine EXCEPT ![c] = Len(issued) + 1]
    /\ since' = [since EXCEPT ![c] = clock]
    /\ Goto(c, "answering")
    /\ UNCHANGED <<op, started, result, cacheVars, clock, revoked, unheard>>

\* The answer has no access_token.
VerifyBlank(c) ==
    /\ pc[c] = "verifying"
    /\ mine' = [mine EXCEPT ![c] = NoToken]
    /\ since' = [since EXCEPT ![c] = clock]
    /\ Goto(c, "answering")
    /\ UNCHANGED <<op, started, result, cacheVars, gatewayVars>>

\* Mutant: the answer's access_token is not looked at.
ReceiveAny(c) ==
    /\ pc[c] = "answering"
    /\ Goto(c, "storing")
    /\ UNCHANGED <<threadVars, cacheVars, gatewayVars>>

Receive(c) ==
    /\ pc[c] = "answering"
    /\ \/ mine[c] # NoToken /\ Goto(c, "storing") /\ UNCHANGED threadVars
       \/ mine[c] = NoToken /\ End(c)
    /\ UNCHANGED <<cacheVars, gatewayVars>>

\* A challenge or a verify fails, or its answer is lost.
AuthenticateFails(c) ==
    /\ pc[c] \in {"verifying", "answering"}
    /\ End(c)
    /\ UNCHANGED <<cacheVars, gatewayVars>>

StoreToken(c) ==
    /\ pc[c] = "storing"
    /\ token' = mine[c]
    /\ overtaken' = overtaken \ {c}
    /\ Goto(c, "expiring")
    /\ UNCHANGED <<threadVars, expiresAt, gatewayVars>>

\* Python and TypeScript count expires_in from the start of authenticate(),
\* Go, Java and .NET from the arrival of the answer.
ExpiryFromStart(c) == started[c] + TokenLife
ExpiryFromAnswer(c) == clock + TokenLife
Expiry(c) == IF FromAnswer THEN ExpiryFromAnswer(c) ELSE ExpiryFromStart(c)

StoreExpiry(c) ==
    /\ pc[c] = "expiring"
    /\ expiresAt' = Expiry(c)
    /\ Goto(c, "returning")
    /\ UNCHANGED <<threadVars, token, overtaken, gatewayVars>>

\* authenticate() returns t: its caller has it, or an owner request sends it.
Serve(c, t) ==
    /\ result' = [result EXCEPT ![c] = t]
    /\ since' = [since EXCEPT ![c] = clock]
    /\ started' = [started EXCEPT ![c] = 0]
    /\ mine' = [mine EXCEPT ![c] = NoToken]
    /\ UNCHANGED op
    /\ Goto(c, IF op[c] \in {"request", "logout"} THEN "sending" ELSE "served")

\* return self._token, which is read once more.
Return(c) ==
    /\ pc[c] = "returning"
    /\ Serve(c, token)
    /\ UNCHANGED <<cacheVars, gatewayVars>>

\* The thread takes what authenticate() returned.
Take(c) ==
    /\ pc[c] = "served"
    /\ End(c)
    /\ UNCHANGED <<cacheVars, gatewayVars>>

-----------------------------------------------------------------------------
\* An owner request is handled, refused (401, an exception) or lost; a logout
\* that does not get to revoke is refused or lost and raises, as no gateway
\* that checks its tokens answers a request without a live one.
Request(c) ==
    /\ pc[c] = "sending"
    /\ End(c)
    /\ UNCHANGED <<cacheVars, gatewayVars>>

Revoke(c) ==
    /\ pc[c] = "sending" /\ op[c] = "logout" /\ Live(result[c])
    /\ revoked' = revoked \cup {result[c]}
    /\ Goto(c, "revoking")
    /\ UNCHANGED <<threadVars, cacheVars, clock, issued, unheard>>

\* Mutant: a logout that was answered forgets the expiry only.
LogoutAnsweredHalf(c) ==
    /\ pc[c] = "revoking"
    /\ Goto(c, "zeroing")
    /\ UNCHANGED <<threadVars, cacheVars, gatewayVars>>

LogoutAnswered(c) ==
    /\ pc[c] = "revoking"
    /\ Goto(c, "clearing")
    /\ UNCHANGED <<threadVars, cacheVars, gatewayVars>>

\* logout() raises and leaves the cache as it is.
LogoutLost(c) ==
    /\ pc[c] = "revoking"
    /\ unheard' = unheard \cup {result[c]}
    /\ End(c)
    /\ UNCHANGED <<cacheVars, clock, issued, revoked>>

\* Threads between their look at the token, or their write of it, and its return.
Exposed == {d \in Callers : pc[d] \in {"comparing", "expiring", "returning"}}

ClearToken(c) ==
    /\ pc[c] = "clearing"
    /\ token' = NoToken
    /\ overtaken' = overtaken \cup (Exposed \ {c})
    /\ Goto(c, "zeroing")
    /\ UNCHANGED <<threadVars, expiresAt, gatewayVars>>

\* Mutant: the expiry is cleared to None, which the next comparison cannot take.
ClearExpiryToNone(c) ==
    /\ pc[c] = "zeroing"
    /\ expiresAt' = NoToken
    /\ End(c)
    /\ UNCHANGED <<token, overtaken, gatewayVars>>

ClearExpiry(c) ==
    /\ pc[c] = "zeroing"
    /\ expiresAt' = 0
    /\ End(c)
    /\ UNCHANGED <<token, overtaken, gatewayVars>>

\* Time passes while every thread waits, and no message takes too long.
Tick ==
    /\ clock < MaxClock
    /\ \A c \in Callers : pc[c] \notin Instant
    /\ \A c \in Callers : pc[c] \in {"answering", "sending"} => clock < since[c] + MaxLatency
    /\ clock' = clock + 1
    /\ UNCHANGED <<pc, threadVars, cacheVars, issued, revoked, unheard>>

-----------------------------------------------------------------------------
Init ==
    /\ pc = [c \in Callers |-> "idle"]
    /\ op = [c \in Callers |-> "authenticate"]
    /\ started = [c \in Callers |-> 0]
    /\ mine = [c \in Callers |-> NoToken]
    /\ result = [c \in Callers |-> NoToken]
    /\ since = [c \in Callers |-> 0]
    /\ token = NoToken /\ expiresAt = 0 /\ overtaken = {}
    /\ clock = 0 /\ issued = <<>> /\ revoked = {} /\ unheard = {}

Authenticate(c) ==
    \/ CheckToken(c) \/ CheckExpiry(c) \/ Verify(c) \/ VerifyBlank(c)
    \/ Receive(c) \/ AuthenticateFails(c) \/ StoreToken(c) \/ StoreExpiry(c) \/ Return(c)
    \/ Take(c)

Use(c) ==
    \/ Request(c) \/ Revoke(c) \/ LogoutAnswered(c) \/ LogoutLost(c)
    \/ ClearToken(c) \/ ClearExpiry(c)

Next ==
    \/ \E c \in Callers :
         (\E o \in Ops : Begin(c, o)) \/ Authenticate(c) \/ Use(c)
    \/ Tick

Spec == Init /\ [][Next]_vars

-----------------------------------------------------------------------------
\* Shape of the state.
TypeOK ==
    /\ pc \in [Callers -> Places]
    /\ op \in [Callers -> AllOps]
    /\ started \in [Callers -> Nat] /\ since \in [Callers -> Nat]
    /\ mine \in [Callers -> Tokens \cup {NoToken}]
    /\ result \in [Callers -> Tokens \cup {NoToken}]
    /\ token \in Tokens \cup {NoToken}
    /\ expiresAt \in Nat /\ overtaken \subseteq Callers /\ clock \in Nat
    /\ issued \in Seq(Nat) /\ Len(issued) <= MaxTokens
    /\ revoked \subseteq Tokens /\ unheard \subseteq Tokens
    /\ \A c \in Callers : pc[c] = "revoking" => result[c] # NoToken

\* What the margin is for: a token taken from the cache has not run out when
\* the gateway gets it, although the message takes time, and although token
\* and expiry are two attributes that two threads can leave from different
\* authentications.
SentTokensAreUnexpired ==
    \A c \in Callers : pc[c] = "sending" /\ result[c] # NoToken =>
        clock < issued[result[c]] + TokenLife

\* A token that was logged out leaves the cache with the answer to its own
\* logout, whoever else stores or clears meanwhile, and never comes back into
\* it; it stays only if that answer is lost.
RevokedTokensLeaveTheCache ==
    token # NoToken /\ token \in revoked =>
        \/ token \in unheard
        \/ \E c \in Callers : pc[c] \in {"revoking", "clearing"} /\ result[c] = token

\* authenticate() hands out None (and a request or a logout then carries
\* "Bearer None") only to a thread under which another thread's answered logout
\* cleared the token, between the thread's own check or write of it and its
\* return: no earlier logout, and none of its own, brings that about.
MissingTokenMeansLogout ==
    \A c \in Callers :
        pc[c] \in {"sending", "served"} /\ result[c] = NoToken => c \in overtaken
=============================================================================

-------------------------- MODULE OwnerAuthProofs --------------------------
(***************************************************************************)
(* Proofs about OwnerAuth, for any number of threads, tokens and units of  *)
(* time.  What a thread may have in hand is bounded by time (Fresh), told  *)
(* apart from what others have (Own) and known to the gateway (Known).     *)
(***************************************************************************)
EXTENDS OwnerAuth, TLAPS

\* Every token in use was issued.
Known ==
    /\ token # NoToken => token \in 1..Len(issued)
    /\ revoked \subseteq 1..Len(issued)
    /\ \A c \in Callers :
         /\ mine[c] # NoToken => mine[c] \in 1..Len(issued)
         /\ result[c] # NoToken => result[c] \in 1..Len(issued)
         /\ pc[c] \in {"revoking", "clearing"} => result[c] \in revoked

\* A thread that holds an answer has a token that no other thread has, that
\* is not in the cache and that nobody can have logged out.
Holding(c) == pc[c] \in {"answering", "storing"} /\ mine[c] # NoToken

Own ==
    /\ \A c \in Callers : pc[c] = "storing" => mine[c] # NoToken
    /\ \A c \in Callers : Holding(c) =>
         /\ mine[c] # token /\ mine[c] \notin revoked
         /\ \A d \in Callers : result[d] # mine[c]
         /\ \A d \in Callers : d # c /\ Holding(d) => mine[d] # mine[c]

\* Whoever is about to return None, or has, was overtaken by another's logout.
Gone ==
    \A c \in Callers :
       /\ c \in Exposed /\ token = NoToken => c \in overtaken
       /\ pc[c] \in {"sending", "served"} /\ result[c] = NoToken => c \in overtaken

\* What authenticate() may return at the time t.
Servable(tok, t) ==
    \/ tok = NoToken
    \/ t <= issued[tok] + MaxLatency
    \/ t + Margin < issued[tok] + TokenLife + MaxLatency

InTime(c) ==
    /\ started[c] <= clock
    /\ pc[c] \in {"checking", "comparing"} => started[c] = clock
    /\ pc[c] = "answering" => /\ clock <= since[c] + MaxLatency
                              /\ mine[c] # NoToken => since[c] = issued[mine[c]]
    /\ pc[c] = "storing" /\ mine[c] # NoToken => clock <= issued[mine[c]] + MaxLatency
    /\ pc[c] = "expiring" => token = NoToken \/ clock <= issued[token] + MaxLatency
    /\ pc[c] = "returning" => Servable(token, clock)
    /\ pc[c] = "sending" => /\ clock <= since[c] + MaxLatency
                            /\ Servable(result[c], since[c])

Fresh ==
    /\ expiresAt <= clock + TokenLife
    /\ token # NoToken => expiresAt <= issued[token] + TokenLife + MaxLatency
    /\ \A c \in Callers : InTime(c)

-----------------------------------------------------------------------------
\* Every thread keeps to its places and every token stays one that the bounds
\* allow, for any number of threads.
THEOREM AuthTypeCorrect == Spec => []TypeOK
<1> USE AuthAssumption DEF Tokens, AllOps, Places, Instant, TypeOK
<1>1. Init => TypeOK
  <2>1. <<>> \in Seq(Nat) /\ Len(<<>>) = 0
    OBVIOUS
  <2> SUFFICES ASSUME Init PROVE TypeOK
    OBVIOUS
  <2>2. issued \in Seq(Nat) /\ Len(issued) <= MaxTokens
    BY <2>1 DEF Init
  <2>3. /\ pc \in [Callers -> Places] /\ op \in [Callers -> AllOps]
        /\ started \in [Callers -> Nat] /\ since \in [Callers -> Nat]
    BY DEF Init
  <2>4. /\ mine \in [Callers -> Tokens \cup {NoToken}]
        /\ result \in [Callers -> Tokens \cup {NoToken}]
    BY DEF Init
  <2>5. /\ token \in Tokens \cup {NoToken} /\ expiresAt \in Nat /\ clock \in Nat
        /\ overtaken \subseteq Callers /\ revoked \subseteq Tokens /\ unheard \subseteq Tokens
        /\ \A c \in Callers : pc[c] = "revoking" => result[c] # NoToken
    BY DEF Init
  <2> QED
    BY <2>2, <2>3, <2>4, <2>5
<1>2. TypeOK /\ [Next]_vars => TypeOK'
  <2> SUFFICES ASSUME TypeOK, [Next]_vars PROVE TypeOK'
    OBVIOUS
  <2>1. ASSUME NEW c \in Callers, NEW o \in Ops, Begin(c, o) PROVE TypeOK'
    BY <2>1 DEF Begin, Goto, cacheVars, gatewayVars
  <2>2. ASSUME NEW c \in Callers, Authenticate(c) PROVE TypeOK'
    <3>1. CASE CheckToken(c)
      BY <3>1 DEF CheckToken, Goto, threadVars, cacheVars, gatewayVars
    <3>2. CASE CheckExpiry(c)
      BY <3>2 DEF CheckExpiry, Goto, threadVars, cacheVars, gatewayVars
    <3>3. CASE Verify(c)
      BY <3>3 DEF Verify, Goto, cacheVars
    <3>4. CASE VerifyBlank(c)
      BY <3>4 DEF VerifyBlank, Goto, cacheVars, gatewayVars
    <3>5. CASE Receive(c)
      <4>1. CASE mine[c] # NoToken
        BY <3>5, <4>1 DEF Receive, Goto, threadVars, cacheVars, gatewayVars
      <4>2. CASE mine[c] = NoToken
        <5>1. End(c) /\ UNCHANGED <<cacheVars, gatewayVars>>
          BY <3>5, <4>2 DEF Receive
        <5> QED
          BY <5>1 DEF End, Goto, cacheVars, gatewayVars
      <4> QED
        BY <4>1, <4>2
    <3>6. CASE AuthenticateFails(c)
      BY <3>6 DEF AuthenticateFails, End, Goto, cacheVars, gatewayVars
    <3>7. CASE StoreToken(c)
      BY <3>7 DEF StoreToken, Goto, threadVars, gatewayVars
    <3>8. CASE StoreExpiry(c)
      BY <3>8 DEF StoreExpiry, Expiry, ExpiryFromStart, ExpiryFromAnswer,
                  Goto, threadVars, gatewayVars
    <3>9. CASE Return(c)
      BY <3>9 DEF Return, Serve, Goto, cacheVars, gatewayVars
    <3>10. CASE Take(c)
      BY <3>10 DEF Take, End, Goto, cacheVars, gatewayVars
    <3> QED
      BY <2>2, <3>1, <3>2, <3>3, <3>4, <3>5, <3>6, <3>7, <3>8, <3>9, <3>10 DEF Authenticate
  <2>3. ASSUME NEW c \in Callers, Use(c) PROVE TypeOK'
    <3>1. CASE Request(c)
      BY <3>1 DEF Request, End, Goto, cacheVars, gatewayVars
    <3>2. CASE Revoke(c)
      BY <3>2 DEF Revoke, Live, Goto, threadVars, cacheVars
    <3>3. CASE LogoutAnswered(c)
      BY <3>3 DEF LogoutAnswered, Goto, threadVars, cacheVars, gatewayVars
    <3>4. CASE LogoutLost(c)
      <4>1. pc[c] = "revoking" /\ result[c] \in Tokens \cup {NoToken}
        BY <3>4 DEF LogoutLost
      <4> QED
        BY <3>4 DEF LogoutLost, End, Goto, cacheVars
    <3>5. CASE ClearToken(c)
      BY <3>5 DEF ClearToken, Exposed, Goto, threadVars, gatewayVars
    <3>6. CASE ClearExpiry(c)
      BY <3>6 DEF ClearExpiry, End, Goto, gatewayVars
    <3> QED
      BY <2>3, <3>1, <3>2, <3>3, <3>4, <3>5, <3>6 DEF Use
  <2>4. ASSUME Tick PROVE TypeOK'
    BY <2>4 DEF Tick, threadVars, cacheVars
  <2>5. CASE UNCHANGED vars
    BY <2>5 DEF vars, threadVars, cacheVars, gatewayVars
  <2> QED
    BY <2>1, <2>2, <2>3, <2>4, <2>5 DEF Next
<1> QED
  BY <1>1, <1>2, PTL DEF Spec

\* A step keeps tokens in use among those issued.
LEMMA KnownStep ==
    ASSUME TypeOK, Known, [Next]_vars
    PROVE  Known'
<1> USE AuthAssumption DEF Tokens, AllOps, Places, Instant, TypeOK, Known
<1>1. ASSUME NEW c \in Callers, NEW o \in Ops, Begin(c, o) PROVE Known'
  BY <1>1 DEF Begin, Goto, cacheVars, gatewayVars
<1>2. ASSUME NEW c \in Callers, Authenticate(c) PROVE Known'
  <2>1. CASE CheckToken(c)
    BY <2>1 DEF CheckToken, Goto, threadVars, cacheVars, gatewayVars
  <2>2. CASE CheckExpiry(c)
    BY <2>2 DEF CheckExpiry, StillGood, Goto, threadVars, cacheVars, gatewayVars
  <2>3. CASE Verify(c)
    BY <2>3 DEF Verify, Goto, cacheVars
  <2>4. CASE VerifyBlank(c)
    BY <2>4 DEF VerifyBlank, Goto, cacheVars, gatewayVars
  <2>5. CASE Receive(c)
    <3>1. CASE mine[c] # NoToken
      BY <2>5, <3>1 DEF Receive, Goto, threadVars, cacheVars, gatewayVars
    <3>2. CASE mine[c] = NoToken
      <4>1. End(c) /\ UNCHANGED <<cacheVars, gatewayVars>>
        BY <2>5, <3>2 DEF Receive
      <4> QED
        BY <4>1 DEF End, Goto, cacheVars, gatewayVars
    <3> QED
      BY <3>1, <3>2
  <2>6. CASE AuthenticateFails(c)
    BY <2>6 DEF AuthenticateFails, End, Goto, cacheVars, gatewayVars
  <2>7. CASE StoreToken(c)
    BY <2>7 DEF StoreToken, Goto, threadVars, gatewayVars
  <2>8. CASE StoreExpiry(c)
    BY <2>8 DEF StoreExpiry, Expiry, ExpiryFromStart, ExpiryFromAnswer,
                Goto, threadVars, gatewayVars
  <2>9. CASE Return(c)
    BY <2>9 DEF Return, Serve, Goto, cacheVars, gatewayVars
  <2>10. CASE Take(c)
    BY <2>10 DEF Take, End, Goto, cacheVars, gatewayVars
  <2> QED
    BY <1>2, <2>1, <2>2, <2>3, <2>4, <2>5, <2>6, <2>7, <2>8, <2>9, <2>10 DEF Authenticate
<1>3. ASSUME NEW c \in Callers, Use(c) PROVE Known'
  <2>1. CASE Request(c)
    BY <2>1 DEF Request, End, Goto, cacheVars, gatewayVars
  <2>2. CASE Revoke(c)
    BY <2>2 DEF Revoke, Live, Goto, threadVars, cacheVars
  <2>3. CASE LogoutAnswered(c)
    BY <2>3 DEF LogoutAnswered, Goto, threadVars, cacheVars, gatewayVars
  <2>4. CASE LogoutLost(c)
    BY <2>4 DEF LogoutLost, End, Goto, cacheVars
  <2>5. CASE ClearToken(c)
    BY <2>5 DEF ClearToken, Goto, threadVars, gatewayVars
  <2>6. CASE ClearExpiry(c)
    BY <2>6 DEF ClearExpiry, End, Goto, gatewayVars
  <2> QED
    BY <1>3, <2>1, <2>2, <2>3, <2>4, <2>5, <2>6 DEF Use
<1>4. ASSUME Tick PROVE Known'
  BY <1>4 DEF Tick, threadVars, cacheVars
<1>5. CASE UNCHANGED vars
  BY <1>5 DEF vars, threadVars, cacheVars, gatewayVars
<1> QED
  BY <1>1, <1>2, <1>3, <1>4, <1>5 DEF Next

\* A step leaves what a thread holds its own: a new token is no one else's,
\* and a stored one is held no longer.
LEMMA OwnStep ==
    ASSUME TypeOK, Known, Own, [Next]_vars
    PROVE  Own'
<1> USE AuthAssumption DEF Tokens, AllOps, Places, Instant, TypeOK, Own, Known, Holding
<1>1. ASSUME NEW c \in Callers, NEW o \in Ops, Begin(c, o) PROVE Own'
  BY <1>1 DEF Begin, Goto, cacheVars, gatewayVars
<1>2. ASSUME NEW c \in Callers, Authenticate(c) PROVE Own'
  <2>1. CASE CheckToken(c)
    BY <2>1 DEF CheckToken, Goto, threadVars, cacheVars, gatewayVars
  <2>2. CASE CheckExpiry(c)
    BY <2>2 DEF CheckExpiry, StillGood, Goto, threadVars, cacheVars, gatewayVars
  <2>3. CASE Verify(c)
    <3> DEFINE new == Len(issued) + 1
    <3>1. /\ UNCHANGED <<token, revoked, result>>
          /\ pc' = [pc EXCEPT ![c] = "answering"] /\ mine' = [mine EXCEPT ![c] = new]
      BY <2>3 DEF Verify, Goto, cacheVars
    <3>2. /\ new # NoToken /\ token # new /\ new \notin revoked
          /\ \A d \in Callers : mine[d] # new /\ result[d] # new
      <4>1. new \notin 1..Len(issued) /\ new # NoToken
        BY ONLY TypeOK, AuthAssumption DEF TypeOK, AuthAssumption
      <4> QED
        BY ONLY <4>1, Known DEF Known
    <3> HIDE DEF new
    <3> QED
      BY ONLY <3>1, <3>2, Own, TypeOK DEF Own, Holding, TypeOK
  <2>4. CASE VerifyBlank(c)
    BY <2>4 DEF VerifyBlank, Goto, cacheVars, gatewayVars
  <2>5. CASE Receive(c)
    <3>1. CASE mine[c] # NoToken
      <4>1. /\ pc[c] = "answering" /\ pc' = [pc EXCEPT ![c] = "storing"]
            /\ UNCHANGED <<mine, result, token, revoked>>
        BY <2>5, <3>1 DEF Receive, Goto, threadVars, cacheVars, gatewayVars
      <4> QED
        BY ONLY <3>1, <4>1, Own, TypeOK DEF Own, Holding, TypeOK
    <3>2. CASE mine[c] = NoToken
      <4>1. End(c) /\ UNCHANGED <<cacheVars, gatewayVars>>
        BY <2>5, <3>2 DEF Receive
      <4> QED
        BY <4>1 DEF End, Goto, cacheVars, gatewayVars
    <3> QED
      BY <3>1, <3>2
  <2>6. CASE AuthenticateFails(c)
    BY <2>6 DEF AuthenticateFails, End, Goto, cacheVars, gatewayVars
  <2>7. CASE StoreToken(c)
    BY <2>7 DEF StoreToken, Goto, threadVars, gatewayVars
  <2>8. CASE StoreExpiry(c)
    BY <2>8 DEF StoreExpiry, Expiry, ExpiryFromStart, ExpiryFromAnswer,
                Goto, threadVars, gatewayVars
  <2>9. CASE Return(c)
    <3>1. /\ pc[c] = "returning" /\ UNCHANGED <<token, revoked>>
          /\ pc' = [pc EXCEPT ![c] = IF op[c] \in {"request", "logout"} THEN "sending" ELSE "served"]
          /\ mine' = [mine EXCEPT ![c] = NoToken] /\ result' = [result EXCEPT ![c] = token]
      BY <2>9 DEF Return, Serve, Goto, cacheVars, gatewayVars
    <3> QED
      BY ONLY <3>1, Own, TypeOK DEF Own, Holding, TypeOK
  <2>10. CASE Take(c)
    BY <2>10 DEF Take, End, Goto, cacheVars, gatewayVars
  <2> QED
    BY <1>2, <2>1, <2>2, <2>3, <2>4, <2>5, <2>6, <2>7, <2>8, <2>9, <2>10 DEF Authenticate
<1>3. ASSUME NEW c \in Callers, Use(c) PROVE Own'
  <2>1. CASE Request(c)
    <3>1. /\ pc' = [pc EXCEPT ![c] = "idle"] /\ mine' = [mine EXCEPT ![c] = NoToken]
          /\ result' = [result EXCEPT ![c] = NoToken] /\ UNCHANGED <<token, revoked>>
      BY <2>1 DEF Request, End, Goto, cacheVars, gatewayVars
    <3> QED
      BY ONLY <3>1, Own, TypeOK DEF Own, Holding, TypeOK
  <2>2. CASE Revoke(c)
    <3>1. /\ pc' = [pc EXCEPT ![c] = "revoking"] /\ UNCHANGED <<mine, result, token>>
          /\ revoked' = revoked \cup {result[c]}
      BY <2>2 DEF Revoke, Goto, threadVars, cacheVars
    <3> QED
      BY ONLY <3>1, Own, TypeOK DEF Own, Holding, TypeOK
  <2>3. CASE LogoutAnswered(c)
    BY <2>3 DEF LogoutAnswered, Goto, threadVars, cacheVars, gatewayVars
  <2>4. CASE LogoutLost(c)
    <3>1. /\ pc' = [pc EXCEPT ![c] = "idle"] /\ mine' = [mine EXCEPT ![c] = NoToken]
          /\ result' = [result EXCEPT ![c] = NoToken] /\ UNCHANGED <<token, revoked>>
      BY <2>4 DEF LogoutLost, End, Goto, cacheVars
    <3> QED
      BY ONLY <3>1, Own, TypeOK DEF Own, Holding, TypeOK
  <2>5. CASE ClearToken(c)
    BY <2>5 DEF ClearToken, Goto, threadVars, gatewayVars
  <2>6. CASE ClearExpiry(c)
    BY <2>6 DEF ClearExpiry, End, Goto, gatewayVars
  <2> QED
    BY <1>3, <2>1, <2>2, <2>3, <2>4, <2>5, <2>6 DEF Use
<1>4. ASSUME Tick PROVE Own'
  BY <1>4 DEF Tick, threadVars, cacheVars
<1>5. CASE UNCHANGED vars
  BY <1>5 DEF vars, threadVars, cacheVars, gatewayVars
<1> QED
  BY <1>1, <1>2, <1>3, <1>4, <1>5 DEF Next

\* Only a logout of another thread empties the cache under a thread past its
\* check.
LEMMA GoneStep ==
    ASSUME TypeOK, Known, Own, Gone, [Next]_vars
    PROVE  Gone'
<1> USE AuthAssumption DEF Tokens, AllOps, Places, Instant, TypeOK, Gone, Exposed, Known, Own
<1>1. ASSUME NEW c \in Callers, NEW o \in Ops, Begin(c, o) PROVE Gone'
  BY <1>1 DEF Begin, Goto, cacheVars, gatewayVars
<1>2. ASSUME NEW c \in Callers, Authenticate(c) PROVE Gone'
  <2>1. CASE CheckToken(c)
    BY <2>1 DEF CheckToken, Goto, threadVars, cacheVars, gatewayVars
  <2>2. CASE CheckExpiry(c)
    BY <2>2 DEF CheckExpiry, StillGood, Goto, threadVars, cacheVars, gatewayVars
  <2>3. CASE Verify(c)
    BY <2>3 DEF Verify, Goto, cacheVars
  <2>4. CASE VerifyBlank(c)
    BY <2>4 DEF VerifyBlank, Goto, cacheVars, gatewayVars
  <2>5. CASE Receive(c)
    <3>1. CASE mine[c] # NoToken
      BY <2>5, <3>1 DEF Receive, Goto, threadVars, cacheVars, gatewayVars
    <3>2. CASE mine[c] = NoToken
      <4>1. End(c) /\ UNCHANGED <<cacheVars, gatewayVars>>
        BY <2>5, <3>2 DEF Receive
      <4> QED
        BY <4>1 DEF End, Goto, cacheVars, gatewayVars
    <3> QED
      BY <3>1, <3>2
  <2>6. CASE AuthenticateFails(c)
    BY <2>6 DEF AuthenticateFails, End, Goto, cacheVars, gatewayVars
  <2>7. CASE StoreToken(c)
    BY <2>7 DEF StoreToken, Goto, threadVars, gatewayVars
  <2>8. CASE StoreExpiry(c)
    BY <2>8 DEF StoreExpiry, Expiry, ExpiryFromStart, ExpiryFromAnswer,
                Goto, threadVars, gatewayVars
  <2>9. CASE Return(c)
    BY <2>9 DEF Return, Serve, Goto, cacheVars, gatewayVars
  <2>10. CASE Take(c)
    BY <2>10 DEF Take, End, Goto, cacheVars, gatewayVars
  <2> QED
    BY <1>2, <2>1, <2>2, <2>3, <2>4, <2>5, <2>6, <2>7, <2>8, <2>9, <2>10 DEF Authenticate
<1>3. ASSUME NEW c \in Callers, Use(c) PROVE Gone'
  <2>1. CASE Request(c)
    BY <2>1 DEF Request, End, Goto, cacheVars, gatewayVars
  <2>2. CASE Revoke(c)
    BY <2>2 DEF Revoke, Live, Goto, threadVars, cacheVars
  <2>3. CASE LogoutAnswered(c)
    BY <2>3 DEF LogoutAnswered, Goto, threadVars, cacheVars, gatewayVars
  <2>4. CASE LogoutLost(c)
    BY <2>4 DEF LogoutLost, End, Goto, cacheVars
  <2>5. CASE ClearToken(c)
    BY <2>5 DEF ClearToken, Goto, threadVars, gatewayVars
  <2>6. CASE ClearExpiry(c)
    BY <2>6 DEF ClearExpiry, End, Goto, gatewayVars
  <2> QED
    BY <1>3, <2>1, <2>2, <2>3, <2>4, <2>5, <2>6 DEF Use
<1>4. ASSUME Tick PROVE Gone'
  BY <1>4 DEF Tick, threadVars, cacheVars
<1>5. CASE UNCHANGED vars
  BY <1>5 DEF vars, threadVars, cacheVars, gatewayVars
<1> QED
  BY <1>1, <1>2, <1>3, <1>4, <1>5 DEF Next

\* A step caches only tokens that nobody logged out, and a logout keeps its
\* token until it clears the cache.
LEMMA RevokedStep ==
    ASSUME TypeOK, Known, Own, RevokedTokensLeaveTheCache, [Next]_vars
    PROVE  RevokedTokensLeaveTheCache'
<1> USE AuthAssumption DEF Tokens, AllOps, Places, Instant, TypeOK, RevokedTokensLeaveTheCache, Known, Own, Holding
<1>1. ASSUME NEW c \in Callers, NEW o \in Ops, Begin(c, o) PROVE RevokedTokensLeaveTheCache'
  BY <1>1 DEF Begin, Goto, cacheVars, gatewayVars
<1>2. ASSUME NEW c \in Callers, Authenticate(c) PROVE RevokedTokensLeaveTheCache'
  <2>1. CASE CheckToken(c)
    BY <2>1 DEF CheckToken, Goto, threadVars, cacheVars, gatewayVars
  <2>2. CASE CheckExpiry(c)
    BY <2>2 DEF CheckExpiry, StillGood, Goto, threadVars, cacheVars, gatewayVars
  <2>3. CASE Verify(c)
    BY <2>3 DEF Verify, Goto, cacheVars
  <2>4. CASE VerifyBlank(c)
    BY <2>4 DEF VerifyBlank, Goto, cacheVars, gatewayVars
  <2>5. CASE Receive(c)
    BY <2>5 DEF Receive, End, Goto, threadVars, cacheVars, gatewayVars
  <2>6. CASE AuthenticateFails(c)
    BY <2>6 DEF AuthenticateFails, End, Goto, cacheVars, gatewayVars
  <2>7. CASE StoreToken(c)
    BY <2>7 DEF StoreToken, Goto, threadVars, gatewayVars
  <2>8. CASE StoreExpiry(c)
    BY <2>8 DEF StoreExpiry, Expiry, ExpiryFromStart, ExpiryFromAnswer,
                Goto, threadVars, gatewayVars
  <2>9. CASE Return(c)
    BY <2>9 DEF Return, Serve, Goto, cacheVars, gatewayVars
  <2>10. CASE Take(c)
    BY <2>10 DEF Take, End, Goto, cacheVars, gatewayVars
  <2> QED
    BY <1>2, <2>1, <2>2, <2>3, <2>4, <2>5, <2>6, <2>7, <2>8, <2>9, <2>10 DEF Authenticate
<1>3. ASSUME NEW c \in Callers, Use(c) PROVE RevokedTokensLeaveTheCache'
  <2>1. CASE Request(c)
    BY <2>1 DEF Request, End, Goto, cacheVars, gatewayVars
  <2>2. CASE Revoke(c)
    BY <2>2 DEF Revoke, Live, Goto, threadVars, cacheVars
  <2>3. CASE LogoutAnswered(c)
    BY <2>3 DEF LogoutAnswered, Goto, threadVars, cacheVars, gatewayVars
  <2>4. CASE LogoutLost(c)
    BY <2>4 DEF LogoutLost, End, Goto, cacheVars
  <2>5. CASE ClearToken(c)
    BY <2>5 DEF ClearToken, Goto, threadVars, gatewayVars
  <2>6. CASE ClearExpiry(c)
    BY <2>6 DEF ClearExpiry, End, Goto, gatewayVars
  <2> QED
    BY <1>3, <2>1, <2>2, <2>3, <2>4, <2>5, <2>6 DEF Use
<1>4. ASSUME Tick PROVE RevokedTokensLeaveTheCache'
  BY <1>4 DEF Tick, threadVars, cacheVars
<1>5. CASE UNCHANGED vars
  BY <1>5 DEF vars, threadVars, cacheVars, gatewayVars
<1> QED
  BY <1>1, <1>2, <1>3, <1>4, <1>5 DEF Next

\* A step keeps the age of tokens in hand and the cached expiry within bounds:
\* whatever is stored was issued at most one message ago.
LEMMA FreshStep ==
    ASSUME TypeOK, Known, Own, Fresh, [Next]_vars
    PROVE  Fresh'
<1> USE AuthAssumption DEF Tokens, AllOps, Places, Instant, TypeOK, Fresh, InTime, Servable, Known, Own
<1>1. ASSUME NEW c \in Callers, NEW o \in Ops, Begin(c, o) PROVE Fresh'
  BY <1>1 DEF Begin, Goto, cacheVars, gatewayVars
<1>2. ASSUME NEW c \in Callers, Authenticate(c) PROVE Fresh'
  <2>1. CASE CheckToken(c)
    BY <2>1 DEF CheckToken, Goto, threadVars, cacheVars, gatewayVars
  <2>2. CASE CheckExpiry(c)
    <3>1. /\ pc[c] = "comparing" /\ UNCHANGED <<threadVars, cacheVars, gatewayVars>>
          /\ pc' = [pc EXCEPT ![c] = IF StillGood(c) THEN "returning" ELSE "verifying"]
      BY <2>2 DEF CheckExpiry, Goto
    <3>2. StillGood(c) => Servable(token, clock)
      <4>1. started[c] = clock
        BY ONLY <3>1, Fresh, c \in Callers DEF Fresh, InTime
      <4>2. token # NoToken => /\ issued[token] \in Nat
                               /\ expiresAt <= issued[token] + TokenLife + MaxLatency
        BY ONLY Fresh, Known, TypeOK DEF Fresh, Known, TypeOK
      <4>3. /\ clock \in Nat /\ expiresAt \in Nat
            /\ TokenLife \in Nat /\ Margin \in Nat /\ MaxLatency \in Nat
        BY ONLY TypeOK, AuthAssumption DEF TypeOK, AuthAssumption
      <4> QED
        BY ONLY <4>1, <4>2, <4>3 DEF StillGood, Servable
    <3> QED
      BY ONLY <3>1, <3>2, Fresh, TypeOK
      DEF Fresh, InTime, Servable, TypeOK, threadVars, cacheVars, gatewayVars
  <2>3. CASE Verify(c)
    <3>1. /\ issued' = Append(issued, clock)
          /\ \A t \in 1..Len(issued) : issued'[t] = issued[t]
          /\ issued'[Len(issued) + 1] = clock
      BY <2>3 DEF Verify
    <3>2. /\ UNCHANGED <<token, expiresAt, clock, started, result, revoked>>
          /\ pc' = [pc EXCEPT ![c] = "answering"]
          /\ mine' = [mine EXCEPT ![c] = Len(issued) + 1]
          /\ since' = [since EXCEPT ![c] = clock]
      BY <2>3 DEF Verify, Goto, cacheVars
    <3>3. /\ expiresAt' <= clock' + TokenLife
          /\ token' # NoToken => expiresAt' <= issued'[token'] + TokenLife + MaxLatency
      BY <3>1, <3>2
    <3>4. ASSUME NEW d \in Callers, d # c
          PROVE  /\ pc'[d] = pc[d] /\ mine'[d] = mine[d] /\ since'[d] = since[d]
                 /\ mine[d] # NoToken => issued'[mine[d]] = issued[mine[d]]
      BY <3>1, <3>2, <3>4
    <3>5. ASSUME NEW d \in Callers PROVE result[d] # NoToken => issued'[result[d]] = issued[result[d]]
      BY <3>1, <3>5
    <3>6. token # NoToken => issued'[token] = issued[token]
      BY <3>1
    <3>7. pc'[c] = "answering" /\ mine'[c] = Len(issued) + 1 /\ since'[c] = clock
      BY <3>2
    <3>8. ASSUME NEW d \in Callers, d # c PROVE InTime(d)'
      <4>1. InTime(d) /\ UNCHANGED <<token, clock, started[d], result[d]>>
        BY ONLY <3>2, <3>8, Fresh DEF Fresh
      <4> QED
        BY ONLY <4>1, <3>4, <3>5, <3>6, <3>8 DEF InTime, Servable
    <3>9. InTime(c)'
      <4>1. clock' = clock /\ started'[c] = started[c] /\ started[c] <= clock /\ clock \in Nat
        BY ONLY <3>2, Fresh, TypeOK, c \in Callers DEF Fresh, InTime, TypeOK
      <4> QED
        BY ONLY <3>1, <3>7, <4>1, AuthAssumption DEF InTime, AuthAssumption
    <3> QED
      BY <3>3, <3>8, <3>9 DEF Fresh
  <2>4. CASE VerifyBlank(c)
    BY <2>4 DEF VerifyBlank, Goto, cacheVars, gatewayVars
  <2>5. CASE Receive(c)
    <3>1. CASE mine[c] # NoToken
      <4>1. /\ pc[c] = "answering" /\ pc' = [pc EXCEPT ![c] = "storing"]
            /\ UNCHANGED <<threadVars, cacheVars, gatewayVars>>
        BY <2>5, <3>1 DEF Receive, Goto
      <4>2. clock <= issued[mine[c]] + MaxLatency
        BY <3>1, <4>1
      <4> QED
        BY <4>1, <4>2 DEF threadVars, cacheVars, gatewayVars
    <3>2. CASE mine[c] = NoToken
      <4>1. End(c) /\ UNCHANGED <<cacheVars, gatewayVars>>
        BY <2>5, <3>2 DEF Receive
      <4> QED
        BY <4>1 DEF End, Goto, cacheVars, gatewayVars
    <3> QED
      BY <3>1, <3>2
  <2>6. CASE AuthenticateFails(c)
    BY <2>6 DEF AuthenticateFails, End, Goto, cacheVars, gatewayVars
  <2>7. CASE StoreToken(c)
    <3>1. /\ pc[c] = "storing" /\ pc' = [pc EXCEPT ![c] = "expiring"]
          /\ token' = mine[c] /\ UNCHANGED <<threadVars, expiresAt, gatewayVars>>
      BY <2>7 DEF StoreToken, Goto
    <3>2. mine[c] # NoToken /\ clock <= issued[mine[c]] + MaxLatency
      BY ONLY <3>1, Own, Fresh, c \in Callers DEF Own, Fresh, InTime
    <3>3. expiresAt <= issued[mine[c]] + TokenLife + MaxLatency
      <4>1. /\ issued[mine[c]] \in Nat /\ clock \in Nat /\ expiresAt \in Nat
            /\ MaxLatency \in Nat /\ TokenLife \in Nat
        BY ONLY <3>2, TypeOK, Known, AuthAssumption, c \in Callers
        DEF TypeOK, Known, AuthAssumption
      <4>2. expiresAt <= clock + TokenLife
        BY ONLY Fresh DEF Fresh
      <4> QED
        BY ONLY <3>2, <4>1, <4>2
    <3>4. ASSUME NEW d \in Callers PROVE InTime(d)'
      <4>1. InTime(d) /\ (d # c => pc'[d] = pc[d]) /\ pc'[c] = "expiring"
        BY ONLY <3>1, Fresh, TypeOK, c \in Callers, d \in Callers DEF Fresh, TypeOK
      <4> QED
        BY ONLY <3>1, <3>2, <4>1 DEF InTime, Servable, threadVars, gatewayVars
    <3> QED
      BY ONLY <3>1, <3>2, <3>3, <3>4, Fresh DEF Fresh, threadVars, gatewayVars
  <2>8. CASE StoreExpiry(c)
    <3>1. /\ expiresAt' \in Nat /\ expiresAt' <= clock + TokenLife
          /\ pc[c] = "expiring" /\ pc' = [pc EXCEPT ![c] = "returning"]
          /\ UNCHANGED <<threadVars, token, gatewayVars>>
      BY <2>8 DEF StoreExpiry, Expiry, ExpiryFromStart, ExpiryFromAnswer, Goto
    <3>2. token = NoToken \/ clock <= issued[token] + MaxLatency
      BY ONLY <3>1, Fresh, c \in Callers DEF Fresh, InTime
    <3>3. token # NoToken => expiresAt' <= issued[token] + TokenLife + MaxLatency
      <4>1. /\ token # NoToken => issued[token] \in Nat
            /\ clock \in Nat /\ MaxLatency \in Nat /\ TokenLife \in Nat
        BY ONLY TypeOK, Known, AuthAssumption DEF TypeOK, Known, AuthAssumption
      <4> QED
        BY ONLY <3>1, <3>2, <4>1
    <3> QED
      <4>1. ASSUME NEW d \in Callers PROVE InTime(d)'
        <5>1. InTime(d) /\ (d # c => pc'[d] = pc[d]) /\ pc'[c] = "returning"
          BY ONLY <3>1, Fresh, TypeOK, c \in Callers, d \in Callers DEF Fresh, TypeOK
        <5> QED
          BY ONLY <3>1, <3>2, <5>1 DEF InTime, Servable, threadVars, gatewayVars
      <4> QED
        BY ONLY <3>1, <3>3, <4>1 DEF Fresh, threadVars, gatewayVars
  <2>9. CASE Return(c)
    <3> DEFINE next == IF op[c] \in {"request", "logout"} THEN "sending" ELSE "served"
    <3>1. /\ pc[c] = "returning" /\ pc' = [pc EXCEPT ![c] = next]
          /\ result' = [result EXCEPT ![c] = token] /\ since' = [since EXCEPT ![c] = clock]
          /\ started' = [started EXCEPT ![c] = 0] /\ mine' = [mine EXCEPT ![c] = NoToken]
          /\ UNCHANGED <<token, expiresAt, clock, issued>>
      BY <2>9 DEF Return, Serve, Goto, cacheVars, gatewayVars
    <3>2. ASSUME NEW d \in Callers, d # c PROVE InTime(d)'
      BY ONLY <3>1, <3>2, Fresh, TypeOK, c \in Callers DEF Fresh, InTime, Servable, TypeOK
    <3>3. InTime(c)'
      <4>1. Servable(token, clock) /\ clock \in Nat /\ MaxLatency \in Nat
        BY <3>1
      <4>2. /\ pc'[c] \in {"sending", "served"} /\ started'[c] = 0
            /\ result'[c] = token /\ since'[c] = clock
        BY ONLY <3>1, TypeOK DEF TypeOK
      <4> QED
        BY ONLY <3>1, <4>1, <4>2 DEF InTime, Servable
    <3> QED
      BY ONLY <3>1, <3>2, <3>3, Fresh DEF Fresh
  <2>10. CASE Take(c)
    BY <2>10 DEF Take, End, Goto, cacheVars, gatewayVars
  <2> QED
    BY <1>2, <2>1, <2>2, <2>3, <2>4, <2>5, <2>6, <2>7, <2>8, <2>9, <2>10 DEF Authenticate
<1>3. ASSUME NEW c \in Callers, Use(c) PROVE Fresh'
  <2>1. CASE Request(c)
    BY <2>1 DEF Request, End, Goto, cacheVars, gatewayVars
  <2>2. CASE Revoke(c)
    BY <2>2 DEF Revoke, Live, Goto, threadVars, cacheVars
  <2>3. CASE LogoutAnswered(c)
    BY <2>3 DEF LogoutAnswered, Goto, threadVars, cacheVars, gatewayVars
  <2>4. CASE LogoutLost(c)
    BY <2>4 DEF LogoutLost, End, Goto, cacheVars
  <2>5. CASE ClearToken(c)
    BY <2>5 DEF ClearToken, Goto, threadVars, gatewayVars
  <2>6. CASE ClearExpiry(c)
    BY <2>6 DEF ClearExpiry, End, Goto, gatewayVars
  <2> QED
    BY <1>3, <2>1, <2>2, <2>3, <2>4, <2>5, <2>6 DEF Use
<1>4. ASSUME Tick PROVE Fresh'
  BY <1>4 DEF Tick, threadVars, cacheVars
<1>5. CASE UNCHANGED vars
  BY <1>5 DEF vars, threadVars, cacheVars, gatewayVars
<1> QED
  BY <1>1, <1>2, <1>3, <1>4, <1>5 DEF Next

-----------------------------------------------------------------------------
\* They all hold together, each preserved by virtue of those before it.
THEOREM AuthInvariant ==
    Spec => [](TypeOK /\ Known /\ Own /\ Gone /\ Fresh /\ RevokedTokensLeaveTheCache)
<1> DEFINE IInv == TypeOK /\ Known /\ Own /\ Gone /\ Fresh /\ RevokedTokensLeaveTheCache
<1>1. Spec => []TypeOK
  BY AuthTypeCorrect
<1>2. Init => Known /\ Own /\ Gone /\ Fresh /\ RevokedTokensLeaveTheCache
  BY AuthAssumption
  DEF Init, Known, Own, Holding, Gone, Exposed, Fresh, InTime, Servable, RevokedTokensLeaveTheCache
<1>3. TypeOK /\ Known /\ [Next]_vars => Known'
  BY KnownStep
<1>4. TypeOK /\ Known /\ Own /\ [Next]_vars => Own'
  BY OwnStep
<1>5. TypeOK /\ Known /\ Own /\ Gone /\ [Next]_vars => Gone'
  BY GoneStep
<1>6. TypeOK /\ Known /\ Own /\ Fresh /\ [Next]_vars => Fresh'
  BY FreshStep
<1>7. TypeOK /\ Known /\ Own /\ RevokedTokensLeaveTheCache /\ [Next]_vars
         => RevokedTokensLeaveTheCache'
  BY RevokedStep
<1> QED
  BY <1>1, <1>2, <1>3, <1>4, <1>5, <1>6, <1>7, PTL DEF Spec

\* A token from the cache outlives the request that carries it, for every
\* token life, margin and latency such that two messages travel in less than
\* the margin and than a token lives.
THEOREM SentTokensLive ==
    ASSUME 2 * MaxLatency <= Margin, 2 * MaxLatency < TokenLife
    PROVE  Spec => []SentTokensAreUnexpired
<1>1. TypeOK /\ Known /\ Fresh => SentTokensAreUnexpired
  <2> SUFFICES ASSUME TypeOK, Known, Fresh,
                      NEW c \in Callers, pc[c] = "sending", result[c] # NoToken
               PROVE  clock < issued[result[c]] + TokenLife
    BY DEF SentTokensAreUnexpired
  <2>1. /\ clock \in Nat /\ since[c] \in Nat /\ issued[result[c]] \in Nat
        /\ MaxLatency \in Nat /\ Margin \in Nat /\ TokenLife \in Nat
    BY AuthAssumption DEF TypeOK, Known
  <2>2. clock <= since[c] + MaxLatency /\ Servable(result[c], since[c])
    BY DEF Fresh, InTime
  <2> QED
    BY <2>1, <2>2 DEF Servable
<1> QED
  BY <1>1, AuthInvariant, PTL

\* A logged out token is never cached again, and stays cached only while its
\* logout is under way or when the answer to it was lost.
THEOREM LogoutsEmptyTheCache == Spec => []RevokedTokensLeaveTheCache
  BY AuthInvariant, PTL

\* None is handed out only to a thread under which another thread's logout cleared
\* the cache, after that thread's own check or write of the token.
THEOREM MissingTokensAreOvertaken == Spec => []MissingTokenMeansLogout
<1>1. Gone => MissingTokenMeansLogout
  BY DEF Gone, MissingTokenMeansLogout
<1> QED
  BY <1>1, AuthInvariant, PTL
=============================================================================

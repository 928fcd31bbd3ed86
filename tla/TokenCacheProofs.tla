-------------------------- MODULE TokenCacheProofs --------------------------
(***************************************************************************)
(* Theorems about TokenCache, for any requests, pods, placements and       *)
(* tokens, a provider that revokes or not, and any number of faults.       *)
(***************************************************************************)
EXTENDS TokenCache, TLAPS

MaybeToken == Tokens \cup {NoToken}

-----------------------------------------------------------------------------
(* Types.                                                                  *)

\* The request of a process that is about to send, and of one that is not.
RequestOK(q) == q \in Request /\ (q.at = "send" => q.token # NoToken)

\* A token about to be published is a token.
PublishesToken ==
    \A r \in Requests : req[r].at = "publish" => req[r].token # NoToken

Typed == TypeOK /\ PublishesToken

\* The part of the types that a step of a request can disturb.
RequestsTyped ==
    /\ req \in [Requests -> Request]
    /\ \A r \in Requests : req[r].at \in {"send", "publish"} => req[r].token # NoToken

RestTyped ==
    /\ valid \subseteq Tokens
    /\ newest \in MaybeToken
    /\ published \in MaybeToken
    /\ lock \in Requests \cup {Nobody, Gone}
    /\ podOf \in Placements
    /\ hit \subseteq Troubles
    /\ faults \in 0 .. MaxFaults

MemoryTyped ==
    /\ cachedToken \in [Pods -> MaybeToken]
    /\ inFlight \in [Pods -> Requests \cup {Nobody}]

LEMMA TypedParts == Typed <=> RequestsTyped /\ RestTyped /\ MemoryTyped
BY DEF Typed, TypeOK, PublishesToken, RequestsTyped, RestTyped, MemoryTyped, MaybeToken

LEMMA Shapes ==
    ASSUME Typed, NEW r \in Requests
    PROVE  /\ req[r] \in Request
           /\ podOf[r] \in Pods
           /\ req[r].token \in MaybeToken
           /\ req[r].stale \in MaybeToken
BY RequestAssumption DEF Typed, TypeOK, Request, MaybeToken

LEMMA InitTyped == Init => Typed
BY RequestAssumption, TokenAssumption
   DEF Init, Typed, TypeOK, PublishesToken, NoRequest, Request, Stages, Troubles

LEMMA MetTyped ==
    ASSUME Typed, NEW trouble \in Troubles, Met(trouble) \/ NoTrouble
    PROVE  hit' \subseteq Troubles /\ faults' \in 0 .. MaxFaults
BY TokenAssumption DEF Met, NoTrouble, Typed, TypeOK

LEMMA ReadTyped ==
    ASSUME Typed, NEW token, Read(token)
    PROVE  hit' \subseteq Troubles /\ faults' \in 0 .. MaxFaults /\ token \in MaybeToken
<1>1. token \in MaybeToken
  BY DEF Read, Typed, TypeOK, MaybeToken
<1>. QED
  BY <1>1, MetTyped DEF Read, Troubles

LEMMA GoesTyped ==
    ASSUME Typed, NEW r \in Requests, NEW stage \in Stages \ {"send", "publish"},
           Goes(r, stage)
    PROVE  RequestsTyped'
BY DEF Goes, Typed, TypeOK, PublishesToken, RequestsTyped, Request

LEMMA UpdatedTyped ==
    ASSUME Typed, NEW r \in Requests, NEW new \in Request,
           new.at \in {"send", "publish"} => new.token # NoToken,
           req' = [req EXCEPT ![r] = new]
    PROVE  RequestsTyped'
BY DEF Typed, TypeOK, PublishesToken, RequestsTyped

LEMMA SucceedsTyped ==
    ASSUME Typed, NEW r \in Requests, NEW token \in Tokens, NEW lasts \in BOOLEAN,
           Succeeds(r, token, lasts)
    PROVE  RequestsTyped' /\ MemoryTyped'
<1>1. podOf[r] \in Pods
  BY Shapes
<1>2. cachedToken' \in [Pods -> MaybeToken]
  BY <1>1 DEF Succeeds, Obtained, Typed, TypeOK, MaybeToken
<1>3. inFlight' \in [Pods -> Requests \cup {Nobody}]
  BY DEF Succeeds, InFlightCleared, Typed, TypeOK
<1>4. ASSUME NEW s \in Requests
      PROVE  /\ req'[s] \in Request
             /\ req'[s].at \in {"send", "publish"} => req'[s].token # NoToken
  <2>1. CASE s = r \/ s \in Awaiting(r)
    <3>1. req'[s] = [req[s] EXCEPT !.at = "send", !.token = token,
                                   !.holder = FALSE, !.lasts = TRUE]
      BY <2>1 DEF Succeeds, Obtained
    <3>. QED
      BY <3>1, Shapes, TokenAssumption DEF Request, Stages
  <2>2. CASE ~(s = r \/ s \in Awaiting(r))
    <3>1. req'[s] = req[s]
      BY <2>2 DEF Succeeds, Obtained
    <3>. QED
      BY <3>1, Shapes DEF Typed, TypeOK, PublishesToken
  <2>. QED
    BY <2>1, <2>2
<1>5. req' \in [Requests -> Request]
  BY <1>4 DEF Succeeds, Obtained
<1>. QED
  BY <1>2, <1>3, <1>4, <1>5 DEF RequestsTyped, MemoryTyped

LEMMA NoRequestTyped == NoRequest \in Request /\ NoRequest.at = "idle"
BY DEF NoRequest, Request, Stages

LEMMA FailsTyped ==
    ASSUME Typed, NEW r \in Requests, Fails(r)
    PROVE  RequestsTyped' /\ MemoryTyped'
<1>1. MemoryTyped'
  BY DEF Fails, InFlightCleared, Typed, TypeOK, MemoryTyped, MaybeToken
<1>2. req' \in [Requests -> Request]
  BY NoRequestTyped DEF Fails, Typed, TypeOK
<1>3. ASSUME NEW s \in Requests, req'[s].at \in {"send", "publish"}
      PROVE  req'[s].token # NoToken
  <2>1. req'[s] = req[s]
    BY <1>3, NoRequestTyped DEF Fails
  <2>. QED
    BY <1>3, <2>1 DEF Typed, TypeOK, PublishesToken
<1>. QED
  BY <1>1, <1>2, <1>3 DEF RequestsTyped

LEMMA GetTokenTyped ==
    ASSUME Typed, NEW r \in Requests, GetToken(r)
    PROVE  Typed'
<1>1. podOf[r] \in Pods
  BY Shapes
<1>2. RestTyped'
  BY DEF GetToken, provider, NoTrouble, Typed, TypeOK, RestTyped, MaybeToken
<1>3. CASE cachedToken[podOf[r]] # NoToken
  <2>1. /\ req' = [req EXCEPT ![r].at = "send", ![r].token = cachedToken[podOf[r]]]
        /\ UNCHANGED <<cachedToken, inFlight>>
    BY <1>3 DEF GetToken
  <2>2. MemoryTyped'
    BY <2>1 DEF Typed, TypeOK, MemoryTyped, MaybeToken
  <2>3. cachedToken[podOf[r]] \in Tokens
    BY <1>1, <1>3 DEF Typed, TypeOK
  <2>4. RequestsTyped'
    BY <1>3, <2>1, <2>3 DEF Typed, TypeOK, PublishesToken, RequestsTyped, Request, Stages
  <2>. QED
    BY <1>2, <2>2, <2>4, TypedParts, PTL
<1>4. CASE cachedToken[podOf[r]] = NoToken
  <2>1. /\ Goes(r, "join") \/ Goes(r, "shared")
        /\ inFlight' = inFlight \/ inFlight' = [inFlight EXCEPT ![podOf[r]] = r]
        /\ cachedToken' = cachedToken
    BY <1>4 DEF GetToken
  <2>2. MemoryTyped'
    BY <2>1 DEF Typed, TypeOK, MemoryTyped, MaybeToken
  <2>3. RequestsTyped'
    BY <2>1, GoesTyped DEF Stages
  <2>. QED
    BY <1>2, <2>2, <2>3, TypedParts, PTL
<1>. QED
  BY <1>3, <1>4

\* The steps of a request that is under way.
LEMMA AdvanceTyped ==
    ASSUME Typed, NEW r \in Requests, Advance(r)
    PROVE  Typed'
<1>. USE DEF MaybeToken
<1>0. UNCHANGED podOf /\ podOf[r] \in Pods /\ podOf \in Placements
  BY Shapes DEF Advance, Typed, TypeOK
<1>1. SUFFICES RequestsTyped' /\ MemoryTyped' /\ RestTyped'
  BY TypedParts, PTL
<1>2. CASE Send(r)
  <2>1. RestTyped'
    BY <1>0, <1>2 DEF Send, provider, NoTrouble, Typed, TypeOK, RestTyped
  <2>2. MemoryTyped'
    BY <1>2 DEF Send, Typed, TypeOK, MemoryTyped
  <2>3. CASE req' = [req EXCEPT ![r] = NoRequest]
    BY <2>1, <2>2, <2>3, NoRequestTyped DEF Typed, TypeOK, PublishesToken, RequestsTyped
  <2>4. CASE req' = [req EXCEPT ![r] = [req[r] EXCEPT !.at    = "compare",
                                                      !.token = NoToken,
                                                      !.stale = req[r].token]]
    BY <2>1, <2>2, <2>4 DEF Typed, TypeOK, PublishesToken, RequestsTyped, Request, Stages
  <2>. QED
    BY <1>2, <2>3, <2>4 DEF Send, Typed, TypeOK
<1>3. CASE GetOrRefresh(r) \/ Compare(r)
  <2>1. PICK token \in MaybeToken :
           /\ Read(token)
           /\ \/ token # NoToken /\ Succeeds(r, token, TRUE)
              \/ Goes(r, "acquire") /\ UNCHANGED memory
              \/ Goes(r, "drop") /\ UNCHANGED memory
    BY <1>3 DEF GetOrRefresh, Compare, Adopts
  <2>2. RestTyped'
    BY <1>0, <1>3, <2>1, ReadTyped
       DEF GetOrRefresh, Compare, provider, Typed, TypeOK, RestTyped
  <2>3. CASE token # NoToken /\ Succeeds(r, token, TRUE)
    BY <2>2, <2>3, SucceedsTyped
  <2>4. CASE (Goes(r, "acquire") \/ Goes(r, "drop")) /\ UNCHANGED memory
    <3>1. RequestsTyped'
      BY <2>4, GoesTyped DEF Stages
    <3>2. MemoryTyped'
      BY <2>4 DEF memory, Typed, TypeOK, MemoryTyped
    <3>. QED
      BY <2>2, <3>1, <3>2
  <2>. QED
    BY <2>1, <2>3, <2>4
<1>4. CASE Drop(r)
  <2>1. RestTyped'
    BY <1>0, <1>4, MetTyped DEF Drop, provider, Troubles, Typed, TypeOK, RestTyped
  <2>2. RequestsTyped' /\ MemoryTyped'
    BY <1>4, GoesTyped DEF Drop, Stages, memory, Typed, TypeOK, MemoryTyped
  <2>. QED
    BY <2>1, <2>2
<1>5. CASE AcquireLock(r)
  <2>1. RestTyped'
    BY <1>0, <1>5, MetTyped DEF AcquireLock, provider, Troubles, Typed, TypeOK, RestTyped
  <2>2. MemoryTyped'
    BY <1>5 DEF AcquireLock, memory, Typed, TypeOK, MemoryTyped
  <2>3. CASE Goes(r, "wait")
    BY <2>1, <2>2, <2>3, GoesTyped DEF Stages
  <2>4. CASE req' = [req EXCEPT ![r].at = "reread", ![r].holder = TRUE]
    <3>. DEFINE new == [req[r] EXCEPT !.at = "reread", !.holder = TRUE]
    <3>1. new \in Request /\ new.at = "reread"
      BY Shapes DEF Request, Stages
    <3>2. req' = [req EXCEPT ![r] = new]
      BY <2>4 DEF Typed, TypeOK
    <3>. HIDE DEF new
    <3>3. RequestsTyped'
      BY <3>1, <3>2, UpdatedTyped
    <3>. QED
      BY <2>1, <2>2, <3>3
  <2>. QED
    BY <1>5, <2>3, <2>4 DEF AcquireLock
<1>6. CASE WaitForToken(r)
  <2>0. hit' \subseteq Troubles /\ faults' \in 0 .. MaxFaults
    <3>1. \/ hit' = hit /\ faults' = faults
          \/ /\ hit' = hit \cup {"lock"}
             /\ \/ faults' = faults
                \/ faults < MaxFaults /\ faults' = faults + 1
      BY <1>6 DEF WaitForToken, NoTrouble
    <3>2. hit \subseteq Troubles /\ faults \in 0 .. MaxFaults
      BY DEF Typed, TypeOK
    <3>3. hit' \subseteq Troubles
      BY <3>1, <3>2 DEF Troubles
    <3>4. faults' \in 0 .. MaxFaults
      BY <3>1, <3>2, TokenAssumption
    <3>. QED
      BY <3>3, <3>4
  <2>1. RestTyped'
    BY <1>0, <1>6, <2>0 DEF WaitForToken, provider, Typed, TypeOK, RestTyped
  <2>2. CASE published # NoToken /\ Succeeds(r, published, TRUE)
    <3>1. published \in Tokens
      BY <2>2 DEF Typed, TypeOK
    <3>. QED
      BY <2>1, <2>2, <3>1, SucceedsTyped
  <2>3. CASE Goes(r, "mint") /\ UNCHANGED memory
    BY <2>1, <2>3, GoesTyped DEF Stages, memory, Typed, TypeOK, MemoryTyped
  <2>. QED
    BY <1>6, <2>2, <2>3 DEF WaitForToken
<1>7. CASE Reread(r)
  <2>1. PICK token \in MaybeToken :
           /\ Read(token)
           /\ req' = [req EXCEPT ![r].at = IF token # NoToken THEN "release" ELSE "mint",
                                 ![r].token = token]
    BY <1>7 DEF Reread
  <2>2. RestTyped'
    BY <1>0, <1>7, <2>1, ReadTyped DEF Reread, provider, Typed, TypeOK, RestTyped
  <2>3. MemoryTyped'
    BY <1>7 DEF Reread, memory, Typed, TypeOK, MemoryTyped
  <2>4. RequestsTyped'
    <3>. DEFINE stage == IF token # NoToken THEN "release" ELSE "mint"
                new == [req[r] EXCEPT !.at = stage, !.token = token]
    <3>1. new \in Request /\ new.at \notin {"send", "publish"}
      BY Shapes DEF Request, Stages
    <3>2. req' = [req EXCEPT ![r] = new]
      BY <2>1 DEF Typed, TypeOK, Request
    <3>. QED
      BY <3>1, <3>2, UpdatedTyped
  <2>. QED
    BY <2>2, <2>3, <2>4
<1>8. CASE MintToken(r)
  <2>1. PICK token \in Tokens, lasts \in BOOLEAN :
           /\ newest' = token
           /\ valid' = {token} \cup (IF Revoking THEN {} ELSE valid)
           /\ req' = [req EXCEPT ![r].at = "publish", ![r].token = token,
                                 ![r].lasts = lasts]
           /\ faults' \in 0 .. MaxFaults
    BY <1>8 DEF MintToken
  <2>2. RestTyped'
    BY <1>0, <1>8, <2>1 DEF MintToken, Typed, TypeOK, RestTyped
  <2>3. MemoryTyped'
    BY <1>8 DEF MintToken, memory, Typed, TypeOK, MemoryTyped
  <2>4. RequestsTyped'
    <3>. DEFINE new == [req[r] EXCEPT !.at = "publish", !.token = token, !.lasts = lasts]
    <3>1. new \in Request /\ new.token # NoToken
      BY <2>1, Shapes, TokenAssumption DEF Request, Stages
    <3>2. req' = [req EXCEPT ![r] = new]
      BY <2>1 DEF Typed, TypeOK, Request
    <3>. QED
      BY <3>1, <3>2, UpdatedTyped
  <2>. QED
    BY <2>2, <2>3, <2>4
<1>9. CASE MintFails(r)
  <2>1. RestTyped'
    BY <1>0, <1>9, TokenAssumption DEF MintFails, provider, Typed, TypeOK, RestTyped
  <2>2. CASE Goes(r, "release") /\ UNCHANGED memory
    BY <2>1, <2>2, GoesTyped DEF Stages, memory, Typed, TypeOK, MemoryTyped
  <2>3. CASE Fails(r)
    BY <2>1, <2>3, FailsTyped
  <2>. QED
    BY <1>9, <2>2, <2>3 DEF MintFails
<1>10. CASE Write(r)
  <2>1. req[r].token \in Tokens /\ req[r].lasts \in BOOLEAN
    BY <1>10, Shapes DEF Write, Typed, PublishesToken, Request
  <2>2. RestTyped'
    BY <1>0, <1>10, <2>1, MetTyped DEF Write, provider, Troubles, Typed, TypeOK, RestTyped
  <2>3. CASE Goes(r, "release") /\ UNCHANGED memory
    BY <2>2, <2>3, GoesTyped DEF Stages, memory, Typed, TypeOK, MemoryTyped
  <2>4. CASE Succeeds(r, req[r].token, req[r].lasts)
    BY <2>1, <2>2, <2>4, SucceedsTyped
  <2>. QED
    BY <1>10, <2>3, <2>4 DEF Write
<1>11. CASE ReleaseLock(r)
  <2>1. RestTyped'
    BY <1>0, <1>11, MetTyped
       DEF ReleaseLock, Unlocked, provider, Troubles, Typed, TypeOK, RestTyped
  <2>2. CASE req[r].token # NoToken /\ Succeeds(r, req[r].token, req[r].lasts)
    <3>1. req[r].token \in Tokens /\ req[r].lasts \in BOOLEAN
      BY <2>2, Shapes DEF Request
    <3>. QED
      BY <2>1, <2>2, <3>1, SucceedsTyped
  <2>3. CASE Fails(r)
    BY <2>1, <2>3, FailsTyped
  <2>. QED
    BY <1>11, <2>2, <2>3 DEF ReleaseLock
<1>. QED
  BY <1>2, <1>3, <1>4, <1>5, <1>6, <1>7, <1>8, <1>9, <1>10, <1>11 DEF Advance

LEMMA NextTyped == Typed /\ [Next]_vars => Typed'
<1>. SUFFICES ASSUME Typed, [Next]_vars
              PROVE  Typed'
  OBVIOUS
<1>1. ASSUME NEW r \in Requests, GetToken(r) \/ Advance(r)
      PROVE  Typed'
  BY <1>1, GetTokenTyped, AdvanceTyped
<1>2. CASE LockTimesOut
  <2>1. hit' \subseteq Troubles /\ faults' \in 0 .. MaxFaults
    BY <1>2, MetTyped DEF LockTimesOut, Troubles
  <2>. QED
    BY <1>2, <2>1 DEF LockTimesOut, provider, memory, Typed, TypeOK, PublishesToken
<1>3. ASSUME NEW token \in Tokens, Revoke(token)
      PROVE  Typed'
  BY <1>3, TokenAssumption DEF Revoke, memory, Typed, TypeOK, PublishesToken
<1>4. ASSUME NEW token \in Tokens, Expire(token)
      PROVE  Typed'
  <2>1. cachedToken' \in [Pods -> Tokens \cup {NoToken}]
    BY <1>4 DEF Expire, Typed, TypeOK
  <2>2. \A r \in Requests :
           /\ req'[r] \in Request
           /\ req'[r].at = req[r].at
           /\ req'[r].token = req[r].token
    <3>. SUFFICES ASSUME NEW r \in Requests
                  PROVE  /\ req'[r] \in Request
                         /\ req'[r].at = req[r].at
                         /\ req'[r].token = req[r].token
      OBVIOUS
    <3>1. req'[r] = req[r] \/ req'[r] = [req[r] EXCEPT !.lasts = FALSE]
      BY <1>4 DEF Expire
    <3>. QED
      BY <3>1, Shapes DEF Request
  <2>3. req' \in [Requests -> Request]
    BY <1>4, <2>2 DEF Expire
  <2>. QED
    BY <1>4, <2>1, <2>2, <2>3, TokenAssumption
       DEF Expire, provider, Typed, TypeOK, PublishesToken
<1>5. ASSUME NEW p \in Pods, Crash(p)
      PROVE  Typed'
  <2>1. /\ req' \in [Requests -> Request]
        /\ \A r \in Requests : req'[r] = req[r] \/ req'[r] = NoRequest
    BY <1>5, NoRequestTyped DEF Crash, Typed, TypeOK
  <2>. QED
    BY <1>5, <2>1, NoRequestTyped, TokenAssumption
       DEF Crash, provider, Typed, TypeOK, PublishesToken
<1>6. CASE UNCHANGED vars
  BY <1>6 DEF vars, Typed, TypeOK, PublishesToken
<1>. QED
  BY <1>1, <1>2, <1>3, <1>4, <1>5, <1>6 DEF Next

LEMMA AlwaysTyped == Spec => []Typed
BY InitTyped, NextTyped, PTL DEF Spec

(***************************************************************************)
(* Every variable keeps its type, and no call goes out without a token:    *)
(* whatever way a request came to its token, by the memory of its pod, the *)
(* promise of another request, Redis, the wait or its own call, it has one.*)
(***************************************************************************)
THEOREM TypeCorrect == Spec => []TypeOK
<1>1. Typed => TypeOK
  BY DEF Typed
<1>. QED
  BY <1>1, AlwaysTyped, PTL

-----------------------------------------------------------------------------
(* What a step does to the requests.                                       *)

LEMMA GoesDoes ==
    ASSUME Typed, NEW r \in Requests, NEW stage, Goes(r, stage)
    PROVE  /\ req'[r].at = stage
           /\ req'[r].token = req[r].token
           /\ req'[r].stale = req[r].stale
           /\ \A s \in Requests \ {r} : req'[s] = req[s]
BY Shapes DEF Goes, Typed, TypeOK, Request

LEMMA SucceedsDoes ==
    ASSUME Typed, NEW r \in Requests, NEW token, NEW lasts, Succeeds(r, token, lasts),
           NEW s \in Requests
    PROVE  \/ s # r /\ req'[s] = req[s]
           \/ /\ s = r \/ req[s].at = "join"
              /\ req'[s].at = "send"
              /\ req'[s].token = token
              /\ req'[s].stale = req[s].stale
BY Shapes DEF Succeeds, Obtained, Awaiting, Request

LEMMA FailsDoes ==
    ASSUME Typed, NEW r \in Requests, Fails(r), NEW s \in Requests
    PROVE  \/ s # r /\ req'[s] = req[s]
           \/ (s = r \/ req[s].at = "join") /\ req'[s] = NoRequest
BY DEF Fails, Awaiting

\* A request moves nobody but itself, and those that joined it.
LEMMA OthersStay ==
    ASSUME Typed, NEW r \in Requests, GetToken(r) \/ Advance(r), NEW s \in Requests \ {r}
    PROVE  \/ req'[s] = req[s]
           \/ /\ req[s].at = "join"
              /\ \/ req'[s] = NoRequest
                 \/ req'[s].at = "send" /\ req'[s].stale = req[s].stale
<1>1. CASE \E new : req' = [req EXCEPT ![r] = new]
  BY <1>1 DEF Typed, TypeOK
<1>2. CASE \E token, lasts : Succeeds(r, token, lasts)
  BY <1>2, SucceedsDoes
<1>3. CASE Fails(r)
  BY <1>3, FailsDoes, NoRequestTyped
<1>4. \/ \E new : req' = [req EXCEPT ![r] = new]
      \/ \E token, lasts : Succeeds(r, token, lasts)
      \/ Fails(r)
  <2>0. ASSUME NEW stage, Goes(r, stage)
        PROVE  \E new : req' = [req EXCEPT ![r] = new]
    BY <2>0 DEF Goes
  <2>1. CASE GetToken(r)
    BY <2>0, <2>1 DEF GetToken
  <2>2. CASE Send(r)
    BY <2>2 DEF Send
  <2>3. CASE GetOrRefresh(r) \/ Compare(r)
    BY <2>0, <2>3 DEF GetOrRefresh, Compare
  <2>4. CASE Drop(r) \/ AcquireLock(r)
    BY <2>0, <2>4 DEF Drop, AcquireLock
  <2>5. CASE WaitForToken(r)
    BY <2>0, <2>5 DEF WaitForToken
  <2>6. CASE Reread(r) \/ MintToken(r)
    BY <2>6 DEF Reread, MintToken
  <2>7. CASE MintFails(r) \/ Write(r) \/ ReleaseLock(r)
    BY <2>0, <2>7 DEF MintFails, Write, ReleaseLock
  <2>. QED
    BY <2>1, <2>2, <2>3, <2>4, <2>5, <2>6, <2>7 DEF Advance
<1>. QED
  BY <1>1, <1>2, <1>3, <1>4

LEMMA TroublesStay == Next => hit \subseteq hit'
<1>1. ASSUME NEW trouble, Met(trouble) \/ NoTrouble
      PROVE  hit \subseteq hit'
  BY <1>1 DEF Met, NoTrouble
<1>2. ASSUME NEW token, Read(token)
      PROVE  hit \subseteq hit'
  BY <1>1, <1>2 DEF Read
<1>3. ASSUME NEW r \in Requests, GetToken(r) \/ Advance(r)
      PROVE  hit \subseteq hit'
  BY <1>1, <1>2, <1>3
     DEF GetToken, Advance, Send, GetOrRefresh, Compare, Drop, AcquireLock, WaitForToken,
         Reread, MintToken, MintFails, Write, ReleaseLock
<1>. QED
  BY <1>1, <1>3 DEF Next, LockTimesOut, Revoke, Expire, Crash

-----------------------------------------------------------------------------
(* The lock.                                                               *)

\* Whoever refreshes holds the lock, as long as the lock has not failed.
LockOK == "lock" \notin hit => \A r \in Requests : Refreshing(r) => lock = r

LEMMA AdvanceLock ==
    ASSUME Typed, LockOK, NEW r \in Requests, GetToken(r) \/ Advance(r),
           "lock" \notin hit', NEW s \in Requests, Refreshing(s)'
    PROVE  lock' = s
<1>0. "lock" \notin hit
  BY TroublesStay DEF Next
<1>1. ASSUME s # r
      PROVE  Refreshing(s) /\ lock = s
  <2>1. Refreshing(s)
    BY <1>1, OthersStay, NoRequestTyped DEF Refreshing
  <2>. QED
    BY <1>0, <2>1 DEF LockOK
<1>2. ASSUME lock' = lock, s = r => Refreshing(s)
      PROVE  lock' = s
  BY <1>0, <1>1, <1>2 DEF LockOK
<1>3. CASE GetToken(r) \/ Send(r)
  <2>1. lock' = lock
    BY <1>3 DEF GetToken, Send
  <2>2. req'[r].at \in {"idle", "send", "join", "shared", "compare"}
    <3>1. CASE Goes(r, "join") \/ Goes(r, "shared")
      BY <3>1, GoesDoes
    <3>2. CASE \E token : req' = [req EXCEPT ![r].at = "send", ![r].token = token]
      BY <3>2 DEF Typed, TypeOK, Request
    <3>3. CASE Send(r)
      <4>1. PICK new : /\ req' = [req EXCEPT ![r] = new]
                       /\ \/ new = NoRequest
                          \/ new = [req[r] EXCEPT !.at    = "compare",
                                                  !.token = NoToken,
                                                  !.stale = req[r].token]
        BY <3>3 DEF Send, Typed, TypeOK
      <4>2. new.at \in {"idle", "compare"}
        BY <4>1, NoRequestTyped, Shapes DEF Request
      <4>3. req'[r] = new
        BY <4>1 DEF Typed, TypeOK
      <4>. QED
        BY <4>2, <4>3
    <3>. QED
      BY <1>3, <3>1, <3>2, <3>3 DEF GetToken
  <2>. QED
    BY <1>2, <2>1, <2>2 DEF Refreshing
<1>4. CASE GetOrRefresh(r) \/ Compare(r)
  <2>1. lock' = lock
    BY <1>4 DEF GetOrRefresh, Compare
  <2>2. req'[r].at \in {"send", "acquire", "drop"}
    <3>1. CASE \E token, lasts : Succeeds(r, token, lasts)
      BY <3>1, SucceedsDoes
    <3>2. CASE Goes(r, "acquire") \/ Goes(r, "drop")
      BY <3>2, GoesDoes
    <3>. QED
      BY <1>4, <3>1, <3>2 DEF GetOrRefresh, Compare
  <2>. QED
    BY <1>2, <2>1, <2>2 DEF Refreshing
<1>5. CASE Drop(r)
  BY <1>2, <1>5 DEF Drop, Goes, Refreshing, Typed, TypeOK, Request
<1>6. CASE AcquireLock(r)
  <2>1. CASE LockIsFree /\ lock' = r
    BY <1>1, <2>1, RequestAssumption DEF LockIsFree
  <2>2. CASE Goes(r, "wait") /\ UNCHANGED lock
    BY <1>2, <2>2 DEF Goes, Refreshing, Typed, TypeOK, Request
  <2>. QED
    BY <1>6, <2>1, <2>2 DEF AcquireLock, Met
<1>7. CASE WaitForToken(r)
  <2>1. lock' = lock /\ req'[r].at = "send"
    BY <1>7, SucceedsDoes DEF WaitForToken
  <2>. QED
    BY <1>2, <2>1 DEF Refreshing
<1>8. CASE Reread(r) \/ MintToken(r)
  BY <1>2, <1>8 DEF Reread, MintToken, Refreshing
<1>9. CASE MintFails(r) \/ Write(r)
  BY <1>2, <1>9 DEF MintFails, Write, Refreshing
<1>10. CASE ReleaseLock(r)
  <2>1. req'[r].at \in {"send", "idle"}
    BY <1>10, SucceedsDoes, FailsDoes, NoRequestTyped DEF ReleaseLock
  <2>2. s # r
    BY <2>1 DEF Refreshing
  <2>3. lock = r
    BY <1>0, <1>10 DEF ReleaseLock, Refreshing, LockOK
  <2>. QED
    BY <1>1, <2>2, <2>3
<1>. QED
  BY <1>3, <1>4, <1>5, <1>6, <1>7, <1>8, <1>9, <1>10 DEF Advance

LEMMA NextLock == Typed /\ LockOK /\ [Next]_vars => LockOK'
<1>. SUFFICES ASSUME Typed, LockOK, [Next]_vars, "lock" \notin hit',
                     NEW s \in Requests, Refreshing(s)'
              PROVE  lock' = s
  BY DEF LockOK
<1>1. ASSUME NEW r \in Requests, GetToken(r) \/ Advance(r)
      PROVE  lock' = s
  BY <1>1, AdvanceLock
<1>2. CASE LockTimesOut
  <2>1. lock = Gone /\ "lock" \notin hit
    BY <1>2 DEF LockTimesOut, Met, NoTrouble
  <2>2. Refreshing(s)
    BY <1>2 DEF LockTimesOut, Refreshing
  <2>. QED
    BY <2>1, <2>2, RequestAssumption DEF LockOK
<1>3. ASSUME NEW token \in Tokens, Revoke(token) \/ Expire(token)
      PROVE  lock' = s
  <2>1. hit' = hit /\ lock' = lock /\ req'[s].at = req[s].at
    BY <1>3, Shapes DEF Revoke, Expire, memory, Request
  <2>. QED
    BY <2>1 DEF Refreshing, LockOK
<1>4. ASSUME NEW p \in Pods, Crash(p)
      PROVE  lock' = s
  <2>1. podOf[s] # p /\ req'[s] = req[s]
    BY <1>4, NoRequestTyped DEF Crash, Refreshing
  <2>2. lock = s
    BY <1>4, <2>1 DEF Crash, Refreshing, LockOK
  <2>. QED
    BY <1>4, <2>1, <2>2 DEF Crash
<1>5. CASE UNCHANGED vars
  BY <1>5 DEF vars, Refreshing, LockOK
<1>. QED
  BY <1>1, <1>2, <1>3, <1>4, <1>5 DEF Next

LEMMA AlwaysLocked == Spec => []LockOK
<1>1. Init => LockOK
  BY DEF Init, LockOK, Refreshing, NoRequest
<1>. QED
  BY <1>1, AlwaysTyped, NextLock, PTL DEF Spec

(***************************************************************************)
(* Of all the requests of all the pods at most one is between the lock and *)
(* its release, whatever crashes, expires or is revoked, as long as the    *)
(* lock itself has not failed a holder.                                    *)
(***************************************************************************)
THEOREM AlwaysOneRefresher == Spec => []OneRefresher
<1>1. LockOK => OneRefresher
  BY DEF LockOK, OneRefresher
<1>. QED
  BY <1>1, AlwaysLocked, PTL

(***************************************************************************)
(* A lock that a live request holds is released by that request alone: a   *)
(* request that comes back from a refresh longer than the TTL finds        *)
(* another's name in it and leaves it.                                     *)
(***************************************************************************)
THEOREM LocksReleasedByHolders == Spec => OnlyItsHolderUnlocks
<1>1. ASSUME Typed, Next, NEW r \in Requests, lock = r, lock' # r, faults' = faults
      PROVE  req[r].at = "release" /\ req'[r].at # "release"
  <2>0. faults \in Nat
    BY <1>1, TokenAssumption DEF Typed, TypeOK
  <2>1. lock # Nobody /\ lock # Gone
    BY <1>1, RequestAssumption
  <2>2. PICK s \in Requests : GetToken(s) \/ Advance(s)
    BY <1>1, <2>0, <2>1 DEF Next, LockTimesOut, Met, Revoke, Expire, Crash
  <2>3. ReleaseLock(s)
    BY <1>1, <2>1, <2>2
       DEF GetToken, Advance, Send, GetOrRefresh, Compare, Drop, AcquireLock, LockIsFree,
           WaitForToken, Reread, MintToken, MintFails, Write
  <2>4. s = r
    BY <1>1, <2>0, <2>3 DEF ReleaseLock, Unlocked, Met
  <2>5. req'[r].at \in {"send", "idle"}
    BY <1>1, <2>3, <2>4, SucceedsDoes, FailsDoes, NoRequestTyped DEF ReleaseLock
  <2>. QED
    BY <2>3, <2>4, <2>5 DEF ReleaseLock
<1>2. Typed /\ [Next]_vars =>
        [\A r \in Requests :
            lock = r /\ lock' # r /\ faults' = faults =>
                req[r].at = "release" /\ req'[r].at # "release"]_vars
  BY <1>1
<1>. QED
  BY <1>2, AlwaysTyped, PTL DEF Spec, OnlyItsHolderUnlocks

-----------------------------------------------------------------------------
(* Where tokens come from.                                                 *)

\* A step takes the tokens it writes from the memory of the pod, from Redis,
\* from the request that steps, whose token is given, or from the provider.
Flow(given) ==
    /\ published' \in {NoToken, published, given}
    /\ \A p \in Pods : cachedToken'[p] \in {NoToken, cachedToken[p], published, given}
    /\ \A s \in Requests :
          /\ \/ req'[s].token \in {NoToken, req[s].token, cachedToken[podOf[s]],
                                   published, given}
             \/ req'[s].token \notin Remembered
          /\ req'[s].stale \in {NoToken, req[s].stale, req[s].token}

\* The token that a request obtains is a known one.
LEMMA SucceedsFlow ==
    ASSUME Typed, NEW r \in Requests, NEW given, NEW token \in {published, given},
           NEW lasts, Succeeds(r, token, lasts), published' \in {NoToken, published, given}
    PROVE  Flow(given)
<1>1. \A p \in Pods : cachedToken'[p] \in {NoToken, cachedToken[p], token}
  BY Shapes DEF Succeeds, Obtained, Typed, TypeOK
<1>. QED
  BY <1>1, SucceedsDoes DEF Flow

LEMMA FailsFlow ==
    ASSUME Typed, NEW r \in Requests, NEW given, Fails(r), published' = published
    PROVE  Flow(given)
<1>1. cachedToken' = cachedToken
  BY DEF Fails
<1>2. NoRequest.token = NoToken /\ NoRequest.stale = NoToken
  BY DEF NoRequest
<1>. QED
  BY <1>1, <1>2, FailsDoes DEF Flow

LEMMA GoesFlow ==
    ASSUME Typed, NEW r \in Requests, NEW given, NEW stage, Goes(r, stage),
           cachedToken' = cachedToken, published' \in {NoToken, published, given}
    PROVE  Flow(given)
BY GoesDoes DEF Flow

\* A step that writes one request.
LEMMA UpdateFlow ==
    ASSUME Typed, NEW r \in Requests, NEW given, NEW new,
           req' = [req EXCEPT ![r] = new],
           \/ new.token \in {NoToken, req[r].token, cachedToken[podOf[r]], published, given}
           \/ new.token \notin Remembered,
           new.stale \in {NoToken, req[r].stale, req[r].token},
           published' = published,
           \A p \in Pods : cachedToken'[p] \in {NoToken, cachedToken[p]}
    PROVE  Flow(given)
<1>1. req'[r] = new /\ \A s \in Requests \ {r} : req'[s] = req[s]
  BY DEF Typed, TypeOK
<1>. QED
  BY <1>1 DEF Flow

LEMMA ReadsWhatIsThere ==
    ASSUME NEW token, Read(token)
    PROVE  token \in {NoToken, published}
BY DEF Read

LEMMA AdvanceFlow ==
    ASSUME Typed, NEW r \in Requests, GetToken(r) \/ Advance(r)
    PROVE  Flow(req[r].token)
<1>0. req[r] \in Request /\ podOf[r] \in Pods
  BY Shapes
<1>1. CASE GetToken(r)
  <2>0. UNCHANGED <<cachedToken, published>>
    BY <1>1 DEF GetToken
  <2>1. CASE cachedToken[podOf[r]] # NoToken
    <3>. DEFINE new == [req[r] EXCEPT !.at = "send", !.token = cachedToken[podOf[r]]]
    <3>1. req' = [req EXCEPT ![r] = new]
      BY <1>1, <2>1 DEF GetToken, Typed, TypeOK, Request
    <3>2. new.token = cachedToken[podOf[r]] /\ new.stale = req[r].stale
      BY <1>0 DEF Request
    <3>. HIDE DEF new
    <3>. QED
      BY <2>0, <3>1, <3>2, UpdateFlow
  <2>2. CASE Goes(r, "join") \/ Goes(r, "shared")
    BY <2>0, <2>2, GoesFlow
  <2>. QED
    BY <1>1, <2>1, <2>2 DEF GetToken
<1>2. CASE Send(r)
  <2>1. PICK new : /\ req' = [req EXCEPT ![r] = new]
                   /\ \/ new = NoRequest
                      \/ new = [req[r] EXCEPT !.at    = "compare",
                                              !.token = NoToken,
                                              !.stale = req[r].token]
    BY <1>2 DEF Send, Typed, TypeOK
  <2>2. new.token = NoToken /\ new.stale \in {NoToken, req[r].token}
    <3>1. CASE new = NoRequest
      BY <3>1 DEF NoRequest
    <3>2. CASE new = [req[r] EXCEPT !.at = "compare", !.token = NoToken,
                                    !.stale = req[r].token]
      BY <1>0, <3>2 DEF Request
    <3>. QED
      BY <2>1, <3>1, <3>2
  <2>3. /\ published' = published
        /\ \A p \in Pods : cachedToken'[p] \in {NoToken, cachedToken[p]}
    BY <1>2 DEF Send, Typed, TypeOK
  <2>. QED
    BY <2>1, <2>2, <2>3, UpdateFlow
<1>3. CASE GetOrRefresh(r) \/ Compare(r)
  <2>1. PICK token :
           /\ Read(token)
           /\ \/ token # NoToken /\ Succeeds(r, token, TRUE)
              \/ (Goes(r, "acquire") \/ Goes(r, "drop")) /\ UNCHANGED memory
    BY <1>3 DEF GetOrRefresh, Compare, Adopts
  <2>2. published' = published
    BY <1>3 DEF GetOrRefresh, Compare
  <2>3. CASE token # NoToken /\ Succeeds(r, token, TRUE)
    <3>1. token = published
      BY <2>1, <2>3, ReadsWhatIsThere
    <3>. QED
      BY <2>2, <2>3, <3>1, SucceedsFlow
  <2>4. CASE (Goes(r, "acquire") \/ Goes(r, "drop")) /\ UNCHANGED memory
    BY <2>2, <2>4, GoesFlow DEF memory
  <2>. QED
    BY <2>1, <2>3, <2>4
<1>4. CASE Drop(r)
  BY <1>4, GoesFlow DEF Drop, memory
<1>5. CASE AcquireLock(r)
  <2>0. UNCHANGED <<cachedToken, published>>
    BY <1>5 DEF AcquireLock, memory
  <2>1. CASE Goes(r, "wait")
    BY <2>0, <2>1, GoesFlow
  <2>2. CASE req' = [req EXCEPT ![r].at = "reread", ![r].holder = TRUE]
    <3>. DEFINE new == [req[r] EXCEPT !.at = "reread", !.holder = TRUE]
    <3>1. req' = [req EXCEPT ![r] = new]
      BY <2>2 DEF Typed, TypeOK, Request
    <3>2. new.token = req[r].token /\ new.stale = req[r].stale
      BY <1>0 DEF Request
    <3>. HIDE DEF new
    <3>. QED
      BY <2>0, <3>1, <3>2, UpdateFlow
  <2>. QED
    BY <1>5, <2>1, <2>2 DEF AcquireLock
<1>6. CASE WaitForToken(r)
  <2>0. published' = published
    BY <1>6 DEF WaitForToken
  <2>1. CASE Succeeds(r, published, TRUE)
    BY <2>0, <2>1, SucceedsFlow
  <2>2. CASE Goes(r, "mint") /\ UNCHANGED memory
    BY <2>0, <2>2, GoesFlow DEF memory
  <2>. QED
    BY <1>6, <2>1, <2>2 DEF WaitForToken
<1>7. CASE Reread(r)
  <2>0. UNCHANGED <<cachedToken, published>>
    BY <1>7 DEF Reread, memory
  <2>1. PICK token :
           /\ Read(token)
           /\ req' = [req EXCEPT ![r].at = IF token # NoToken THEN "release" ELSE "mint",
                                 ![r].token = token]
    BY <1>7 DEF Reread
  <2>. DEFINE new == [req[r] EXCEPT !.at = IF token # NoToken THEN "release" ELSE "mint",
                                    !.token = token]
  <2>2. req' = [req EXCEPT ![r] = new]
    BY <2>1 DEF Typed, TypeOK, Request
  <2>3. new.token = token /\ new.stale = req[r].stale /\ token \in {NoToken, published}
    BY <1>0, <2>1, ReadsWhatIsThere DEF Request
  <2>. HIDE DEF new
  <2>. QED
    BY <2>0, <2>2, <2>3, UpdateFlow
<1>8. CASE MintToken(r)
  <2>0. UNCHANGED <<cachedToken, published>>
    BY <1>8 DEF MintToken, memory
  <2>1. PICK token \in Tokens, lasts \in BOOLEAN :
           /\ token \notin Remembered
           /\ req' = [req EXCEPT ![r].at = "publish", ![r].token = token,
                                 ![r].lasts = lasts]
    BY <1>8 DEF MintToken
  <2>. DEFINE new == [req[r] EXCEPT !.at = "publish", !.token = token, !.lasts = lasts]
  <2>2. req' = [req EXCEPT ![r] = new]
    BY <2>1 DEF Typed, TypeOK, Request
  <2>3. new.token = token /\ new.stale = req[r].stale
    BY <1>0 DEF Request
  <2>. HIDE DEF new
  <2>. QED
    BY <2>0, <2>1, <2>2, <2>3, UpdateFlow
<1>9. CASE MintFails(r)
  <2>0. published' = published
    BY <1>9 DEF MintFails
  <2>1. CASE Goes(r, "release") /\ UNCHANGED memory
    BY <2>0, <2>1, GoesFlow DEF memory
  <2>2. CASE Fails(r)
    BY <2>0, <2>2, FailsFlow
  <2>. QED
    BY <1>9, <2>1, <2>2 DEF MintFails
<1>10. CASE Write(r)
  <2>0. published' \in {published, req[r].token}
    BY <1>10 DEF Write
  <2>1. CASE Goes(r, "release") /\ UNCHANGED memory
    BY <2>0, <2>1, GoesFlow DEF memory
  <2>2. CASE Succeeds(r, req[r].token, req[r].lasts)
    BY <2>0, <2>2, SucceedsFlow
  <2>. QED
    BY <1>10, <2>1, <2>2 DEF Write
<1>11. CASE ReleaseLock(r)
  <2>0. published' = published
    BY <1>11 DEF ReleaseLock
  <2>1. CASE Succeeds(r, req[r].token, req[r].lasts)
    BY <2>0, <2>1, SucceedsFlow
  <2>2. CASE Fails(r)
    BY <2>0, <2>2, FailsFlow
  <2>. QED
    BY <1>11, <2>1, <2>2 DEF ReleaseLock
<1>. QED
  BY <1>1, <1>2, <1>3, <1>4, <1>5, <1>6, <1>7, <1>8, <1>9, <1>10, <1>11 DEF Advance

\* The world takes tokens away, and leaves requests where they are or ends them.
World ==
    \/ LockTimesOut
    \/ \E token \in Tokens : Revoke(token) \/ Expire(token)
    \/ \E p \in Pods : Crash(p)

LEMMA WorldDoes ==
    ASSUME Typed, World \/ UNCHANGED vars
    PROVE  /\ hit \subseteq hit'
           /\ newest' = newest
           /\ published' \in {NoToken, published}
           /\ \A p \in Pods : cachedToken'[p] \in {NoToken, cachedToken[p]}
           /\ \A s \in Requests :
                 \/ req'[s] = NoRequest
                 \/ /\ req'[s].at = req[s].at
                    /\ req'[s].token = req[s].token
                    /\ req'[s].stale = req[s].stale
<1>1. CASE LockTimesOut
  BY <1>1 DEF LockTimesOut, provider, memory, Met, NoTrouble
<1>2. ASSUME NEW token \in Tokens, Revoke(token)
      PROVE  UNCHANGED <<newest, published, cachedToken, req, hit>>
  BY <1>2 DEF Revoke, memory
<1>3. ASSUME NEW token \in Tokens, Expire(token), NEW s \in Requests
      PROVE  /\ req'[s].at = req[s].at
             /\ req'[s].token = req[s].token
             /\ req'[s].stale = req[s].stale
  <2>1. req'[s] = req[s] \/ req'[s] = [req[s] EXCEPT !.lasts = FALSE]
    BY <1>3 DEF Expire
  <2>. QED
    BY <2>1, Shapes DEF Request
<1>4. ASSUME NEW token \in Tokens, Expire(token)
      PROVE  /\ hit' = hit /\ newest' = newest
             /\ published' \in {NoToken, published}
             /\ \A p \in Pods : cachedToken'[p] \in {NoToken, cachedToken[p]}
  BY <1>4 DEF Expire, provider
<1>5. ASSUME NEW p \in Pods, Crash(p)
      PROVE  /\ hit' = hit /\ newest' = newest /\ published' = published
             /\ \A o \in Pods : cachedToken'[o] \in {NoToken, cachedToken[o]}
             /\ \A s \in Requests : req'[s] = NoRequest \/ req'[s] = req[s]
  BY <1>5 DEF Crash, provider, Typed, TypeOK
<1>6. CASE UNCHANGED vars
  BY <1>6 DEF vars
<1>. QED
  BY <1>1, <1>2, <1>3, <1>4, <1>5, <1>6 DEF World

-----------------------------------------------------------------------------
(* Fresh tokens.                                                           *)

\* Nobody but the request s knows the token t.
Unknown(t, s) ==
    /\ t # NoToken
    /\ published # t
    /\ \A p \in Pods : cachedToken[p] # t
    /\ \A r \in Requests : (r # s => req[r].token # t) /\ req[r].stale # t

\* A token that is about to be published is known to its request alone.
FreshOK == \A s \in Requests : req[s].at = "publish" => Unknown(req[s].token, s)

\* A request publishes what it was about to publish or has just been issued.
LEMMA PublishSteps ==
    ASSUME Typed, NEW r \in Requests, GetToken(r) \/ Advance(r), NEW s \in Requests,
           req'[s].at = "publish"
    PROVE  \/ s = r /\ MintToken(r)
           \/ s # r /\ req'[s] = req[s]
<1>1. CASE s # r
  BY <1>1, OthersStay, NoRequestTyped
<1>2. CASE s = r
  <2>1. ~GetToken(r)
    <3>1. CASE Goes(r, "join") \/ Goes(r, "shared")
      BY <1>2, <3>1, GoesDoes
    <3>2. CASE req' = [req EXCEPT ![r].at = "send", ![r].token = cachedToken[podOf[r]]]
      BY <1>2, <3>2 DEF Typed, TypeOK, Request
    <3>. QED
      BY <3>1, <3>2 DEF GetToken
  <2>2. ~Send(r)
    <3>. SUFFICES ASSUME Send(r)
                  PROVE  FALSE
      OBVIOUS
    <3>1. PICK new : /\ req' = [req EXCEPT ![r] = new]
                     /\ \/ new = NoRequest
                        \/ new = [req[r] EXCEPT !.at    = "compare",
                                                !.token = NoToken,
                                                !.stale = req[r].token]
      BY DEF Send, Typed, TypeOK
    <3>2. new.at \in {"idle", "compare"}
      BY <3>1, NoRequestTyped, Shapes DEF Request
    <3>. QED
      BY <1>2, <3>1, <3>2 DEF Typed, TypeOK
  <2>3. ~GetOrRefresh(r) /\ ~Compare(r) /\ ~Drop(r)
    BY <1>2, GoesDoes, SucceedsDoes DEF GetOrRefresh, Compare, Drop
  <2>4. ~AcquireLock(r) /\ ~WaitForToken(r) /\ ~Reread(r)
    <3>1. ~AcquireLock(r)
      <4>1. CASE req' = [req EXCEPT ![r].at = "reread", ![r].holder = TRUE]
        BY <1>2, <4>1 DEF Typed, TypeOK, Request
      <4>2. CASE Goes(r, "wait")
        BY <1>2, <4>2, GoesDoes
      <4>. QED
        BY <4>1, <4>2 DEF AcquireLock
    <3>2. ~WaitForToken(r)
      <4>1. CASE Goes(r, "mint")
        BY <1>2, <4>1, GoesDoes
      <4>2. CASE Succeeds(r, published, TRUE)
        BY <1>2, <4>2, SucceedsDoes
      <4>. QED
        BY <4>1, <4>2 DEF WaitForToken
    <3>3. ~Reread(r)
      <4>. SUFFICES ASSUME Reread(r)
                    PROVE  FALSE
        OBVIOUS
      <4>1. PICK token : req' = [req EXCEPT
                                   ![r].at = IF token # NoToken THEN "release" ELSE "mint",
                                   ![r].token = token]
        BY DEF Reread
      <4>. QED
        BY <1>2, <4>1 DEF Typed, TypeOK, Request
    <3>. QED
      BY <3>1, <3>2, <3>3
  <2>5. ~MintFails(r) /\ ~Write(r) /\ ~ReleaseLock(r)
    BY <1>2, GoesDoes, SucceedsDoes, FailsDoes, NoRequestTyped
       DEF MintFails, Write, ReleaseLock
  <2>. QED
    BY <1>2, <2>1, <2>2, <2>3, <2>4, <2>5 DEF Advance
<1>. QED
  BY <1>1, <1>2

\* A token stays unknown while others step, and while the world does.
LEMMA StaysUnknown ==
    ASSUME Typed, NEW s \in Requests, req[s].at = "publish", Unknown(req[s].token, s),
           NEW given, given # req[s].token, Flow(given),
           req'[s].token = req[s].token, req'[s].stale = req[s].stale
    PROVE  Unknown(req[s].token, s)'
<1>. DEFINE t == req[s].token
<1>1. t \in Remembered
  BY DEF Remembered
<1>3. published' # t /\ \A p \in Pods : cachedToken'[p] # t
  BY DEF Flow, Unknown
<1>4. ASSUME NEW r \in Requests
      PROVE  (r # s => req'[r].token # t) /\ req'[r].stale # t
  <2>1. r # s => req'[r].token # t
    BY <1>1, Shapes DEF Flow, Unknown
  <2>2. req'[r].stale # t
    BY DEF Flow, Unknown
  <2>. QED
    BY <2>1, <2>2
<1>. QED
  BY <1>3, <1>4 DEF Unknown

LEMMA NextFresh == Typed /\ FreshOK /\ [Next]_vars => FreshOK'
<1>. SUFFICES ASSUME Typed, FreshOK, [Next]_vars, NEW s \in Requests,
                     req'[s].at = "publish"
              PROVE  Unknown(req[s].token, s)'
  BY DEF FreshOK
<1>1. ASSUME NEW r \in Requests, GetToken(r) \/ Advance(r)
      PROVE  Unknown(req[s].token, s)'
  <2>1. CASE s = r /\ MintToken(r)
    <3>1. PICK token \in Tokens, lasts \in BOOLEAN :
             /\ token \notin Remembered
             /\ req' = [req EXCEPT ![r].at = "publish", ![r].token = token,
                                   ![r].lasts = lasts]
      BY <2>1 DEF MintToken
    <3>2. /\ req'[r].token = token
          /\ req'[r].stale = req[r].stale
          /\ \A o \in Requests \ {r} : req'[o] = req[o]
      BY <3>1 DEF Typed, TypeOK, Request
    <3>3. UNCHANGED <<published, cachedToken>>
      BY <2>1 DEF MintToken, memory
    <3>. QED
      BY <2>1, <3>1, <3>2, <3>3, TokenAssumption DEF Unknown, Remembered
  <2>2. CASE s # r /\ req'[s] = req[s]
    <3>1. req[s].at = "publish" /\ Unknown(req[s].token, s)
      BY <2>2 DEF FreshOK
    <3>2. req[r].token # req[s].token
      BY <2>2, <3>1 DEF Unknown
    <3>. QED
      BY <1>1, <2>2, <3>1, <3>2, AdvanceFlow, StaysUnknown
  <2>. QED
    BY <1>1, <2>1, <2>2, PublishSteps
<1>2. CASE World \/ UNCHANGED vars
  <2>1. /\ req'[s].at = req[s].at
        /\ req'[s].token = req[s].token
        /\ req'[s].stale = req[s].stale
    BY <1>2, WorldDoes, NoRequestTyped
  <2>2. Unknown(req[s].token, s)
    BY <2>1 DEF FreshOK
  <2>3. Flow(NoToken)
    BY <1>2, WorldDoes DEF Flow, NoRequest
  <2>. QED
    BY <2>1, <2>2, <2>3, StaysUnknown DEF Unknown
<1>. QED
  BY <1>1, <1>2 DEF Next, World

LEMMA AlwaysFresh == Spec => []FreshOK
<1>1. Init => FreshOK
  BY DEF Init, FreshOK, NoRequest
<1>. QED
  BY <1>1, AlwaysTyped, NextFresh, PTL DEF Spec

-----------------------------------------------------------------------------
(* What a step does to its own request.                                    *)

\* It goes on with what it has, from one place to another.
Moves(r, from, to) ==
    /\ req[r].at = from
    /\ req'[r].at = to
    /\ req'[r].token = req[r].token

Sends(r, from) == req[r].at = from /\ req'[r].at = "send"

\* The steps that keep the token that failed, where there is one.
Keeps(r) ==
    \/ /\ published' = published
       /\ newest' = newest
       /\ \/ Sends(r, "idle") \/ Sends(r, "shared")
          \/ Sends(r, "compare") /\ req'[r].token # req[r].stale
          \/ Sends(r, "wait") /\ req'[r].token = published
          \/ Sends(r, "release") /\ req'[r].token = req[r].token
          \/ Moves(r, "idle", "join") \/ Moves(r, "idle", "shared")
          \/ Moves(r, "shared", "acquire") \/ Moves(r, "compare", "drop")
          \/ Moves(r, "acquire", "wait") \/ Moves(r, "acquire", "reread")
          \/ Moves(r, "mint", "release")
          \/ Moves(r, "wait", "mint") /\ "lock" \in hit'
    \/ /\ published' = NoToken \/ "delete" \in hit'
       /\ published' \in {published, NoToken}
       /\ newest' = newest
       /\ Moves(r, "drop", "acquire")
    \/ /\ published' \in {published, req[r].token}
       /\ newest' = newest
       /\ \/ Moves(r, "publish", "release")
          \/ Sends(r, "publish") /\ req'[r].token = req[r].token
    \/ /\ published' = published
       /\ newest' = newest
       /\ req[r].at = "reread"
       /\ \/ req'[r].at = "release" /\ req'[r].token = published
          \/ /\ req'[r].at = "mint"
             /\ req'[r].token = NoToken
             /\ published = NoToken \/ "redis" \in hit'
    \/ /\ published' = published
       /\ req[r].at = "mint"
       /\ req'[r].at = "publish"
       /\ req'[r].token \notin Remembered
       /\ newest' = req'[r].token

Does(r) ==
    \/ req'[r].stale = req[r].stale /\ Keeps(r)
    \/ /\ UNCHANGED <<published, newest>>
       /\ \/ req'[r] = NoRequest
          \/ /\ req[r].at = "send"
             /\ req'[r].at = "compare"
             /\ req'[r].token = NoToken
             /\ req'[r].stale = req[r].token

LEMMA AdvanceDoes ==
    ASSUME Typed, NEW r \in Requests, GetToken(r) \/ Advance(r)
    PROVE  Does(r)
<1>0. req[r] \in Request /\ req \in [Requests -> Request]
  BY DEF Typed, TypeOK
<1>1. CASE GetToken(r)
  <2>0. UNCHANGED <<published, newest>> /\ req[r].at = "idle"
    BY <1>1 DEF GetToken, provider
  <2>1. CASE req' = [req EXCEPT ![r].at = "send", ![r].token = cachedToken[podOf[r]]]
    <3>1. req'[r].at = "send" /\ req'[r].stale = req[r].stale
      BY <1>0, <2>1 DEF Request
    <3>. QED
      BY <2>0, <3>1 DEF Does, Keeps, Sends
  <2>2. CASE Goes(r, "join") \/ Goes(r, "shared")
    BY <2>0, <2>2, GoesDoes DEF Does, Keeps, Moves
  <2>. QED
    BY <1>1, <2>1, <2>2 DEF GetToken
<1>2. CASE Send(r)
  <2>0. UNCHANGED <<published, newest>> /\ req[r].at = "send"
    BY <1>2 DEF Send, provider
  <2>1. CASE req' = [req EXCEPT ![r] = NoRequest]
    BY <1>0, <2>0, <2>1 DEF Does
  <2>2. CASE req' = [req EXCEPT ![r] = [req[r] EXCEPT !.at    = "compare",
                                                      !.token = NoToken,
                                                      !.stale = req[r].token]]
    <3>1. req'[r] = [req[r] EXCEPT !.at = "compare", !.token = NoToken,
                                   !.stale = req[r].token]
      BY <1>0, <2>2
    <3>2. /\ req'[r].at = "compare"
          /\ req'[r].token = NoToken
          /\ req'[r].stale = req[r].token
      BY <1>0, <3>1 DEF Request
    <3>. QED
      BY <2>0, <3>2 DEF Does
  <2>. QED
    BY <1>0, <1>2, <2>1, <2>2 DEF Send
<1>3. CASE GetOrRefresh(r)
  <2>0. UNCHANGED <<published, newest>> /\ req[r].at = "shared"
    BY <1>3 DEF GetOrRefresh, provider
  <2>1. CASE \E token : Succeeds(r, token, TRUE)
    BY <2>0, <2>1, SucceedsDoes DEF Does, Keeps, Sends
  <2>2. CASE Goes(r, "acquire")
    BY <2>0, <2>2, GoesDoes DEF Does, Keeps, Moves
  <2>. QED
    BY <1>3, <2>1, <2>2 DEF GetOrRefresh
<1>4. CASE Compare(r)
  <2>0. UNCHANGED <<published, newest>> /\ req[r].at = "compare"
    BY <1>4 DEF Compare, provider
  <2>1. CASE \E token : Adopts(r, token) /\ Succeeds(r, token, TRUE)
    <3>1. PICK token, lasts : Adopts(r, token) /\ Succeeds(r, token, lasts)
      BY <2>1
    <3>2. /\ req'[r].at = "send"
          /\ req'[r].token = token
          /\ req'[r].stale = req[r].stale
      <4>1. Succeeds(r, token, lasts)
        BY <3>1
      <4>. QED
        BY <4>1, SucceedsDoes
    <3>. QED
      BY <2>0, <3>1, <3>2 DEF Does, Keeps, Sends, Adopts
  <2>2. CASE Goes(r, "drop")
    BY <2>0, <2>2, GoesDoes DEF Does, Keeps, Moves
  <2>. QED
    BY <1>4, <2>1, <2>2 DEF Compare
<1>5. CASE Drop(r)
  <2>1. Moves(r, "drop", "acquire") /\ req'[r].stale = req[r].stale
    BY <1>5, GoesDoes DEF Drop, Moves
  <2>2. /\ published' = NoToken \/ "delete" \in hit'
        /\ published' \in {published, NoToken}
        /\ newest' = newest
    BY <1>5 DEF Drop, provider, Met
  <2>. QED
    BY <2>1, <2>2 DEF Does, Keeps
<1>6. CASE AcquireLock(r)
  <2>0. UNCHANGED <<published, newest>> /\ req[r].at = "acquire"
    BY <1>6 DEF AcquireLock, provider
  <2>1. CASE Goes(r, "wait")
    BY <2>0, <2>1, GoesDoes DEF Does, Keeps, Moves
  <2>2. CASE req' = [req EXCEPT ![r].at = "reread", ![r].holder = TRUE]
    <3>1. /\ req'[r].at = "reread"
          /\ req'[r].token = req[r].token
          /\ req'[r].stale = req[r].stale
      BY <1>0, <2>2 DEF Request
    <3>. QED
      BY <2>0, <3>1 DEF Does, Keeps, Moves
  <2>. QED
    BY <1>6, <2>1, <2>2 DEF AcquireLock
<1>7. CASE WaitForToken(r)
  <2>0. UNCHANGED <<published, newest>> /\ req[r].at = "wait"
    BY <1>7 DEF WaitForToken, provider
  <2>1. CASE Succeeds(r, published, TRUE)
    BY <2>0, <2>1, SucceedsDoes DEF Does, Keeps, Sends
  <2>2. CASE Goes(r, "mint") /\ hit' = hit \cup {"lock"}
    BY <2>0, <2>2, GoesDoes DEF Does, Keeps, Moves
  <2>. QED
    BY <1>7, <2>1, <2>2 DEF WaitForToken
<1>8. CASE Reread(r)
  <2>0. UNCHANGED <<published, newest>> /\ req[r].at = "reread"
    BY <1>8 DEF Reread, provider
  <2>1. PICK token :
           /\ Read(token)
           /\ req' = [req EXCEPT ![r].at = IF token # NoToken THEN "release" ELSE "mint",
                                 ![r].token = token]
    BY <1>8 DEF Reread
  <2>2. /\ req'[r].at = IF token # NoToken THEN "release" ELSE "mint"
        /\ req'[r].token = token
        /\ req'[r].stale = req[r].stale
    BY <1>0, <2>1 DEF Request
  <2>3. \/ token = published
        \/ token = NoToken /\ "redis" \in hit'
    BY <2>1 DEF Read, Met
  <2>4. CASE token = NoToken
    <3>1. req'[r].at = "mint" /\ (published = NoToken \/ "redis" \in hit')
      BY <2>2, <2>3, <2>4
    <3>. QED
      BY <2>0, <2>2, <2>4, <3>1 DEF Does, Keeps
  <2>5. CASE token # NoToken
    <3>1. req'[r].at = "release" /\ token = published
      BY <2>2, <2>3, <2>5
    <3>. QED
      BY <2>0, <2>2, <3>1 DEF Does, Keeps
  <2>. QED
    BY <2>4, <2>5
<1>9. CASE MintToken(r)
  <2>1. PICK token \in Tokens, lasts \in BOOLEAN :
           /\ token \notin Remembered
           /\ newest' = token
           /\ req' = [req EXCEPT ![r].at = "publish", ![r].token = token,
                                 ![r].lasts = lasts]
    BY <1>9 DEF MintToken
  <2>2. /\ req'[r].at = "publish"
        /\ req'[r].token = token
        /\ req'[r].stale = req[r].stale
    BY <1>0, <2>1 DEF Request
  <2>3. published' = published /\ req[r].at = "mint"
    BY <1>9 DEF MintToken
  <2>. QED
    BY <2>1, <2>2, <2>3 DEF Does, Keeps
<1>10. CASE MintFails(r)
  <2>0. UNCHANGED <<published, newest>> /\ req[r].at = "mint"
    BY <1>10 DEF MintFails, provider
  <2>1. CASE Goes(r, "release")
    BY <2>0, <2>1, GoesDoes DEF Does, Keeps, Moves
  <2>2. CASE Fails(r)
    BY <2>0, <2>2, FailsDoes DEF Does
  <2>. QED
    BY <1>10, <2>1, <2>2 DEF MintFails
<1>11. CASE Write(r)
  <2>0. /\ published' \in {published, req[r].token}
        /\ newest' = newest
        /\ req[r].at = "publish"
    BY <1>11 DEF Write, provider
  <2>1. CASE Goes(r, "release")
    BY <2>0, <2>1, GoesDoes DEF Does, Keeps, Moves
  <2>2. CASE Succeeds(r, req[r].token, req[r].lasts)
    BY <2>0, <2>2, SucceedsDoes DEF Does, Keeps, Sends
  <2>. QED
    BY <1>11, <2>1, <2>2 DEF Write
<1>12. CASE ReleaseLock(r)
  <2>0. UNCHANGED <<published, newest>> /\ req[r].at = "release"
    BY <1>12 DEF ReleaseLock, provider
  <2>1. CASE Succeeds(r, req[r].token, req[r].lasts)
    BY <2>0, <2>1, SucceedsDoes DEF Does, Keeps, Sends
  <2>2. CASE Fails(r)
    BY <2>0, <2>2, FailsDoes DEF Does
  <2>. QED
    BY <1>12, <2>1, <2>2 DEF ReleaseLock
<1>. QED
  BY <1>1, <1>2, <1>3, <1>4, <1>5, <1>6, <1>7, <1>8, <1>9, <1>10, <1>11, <1>12 DEF Advance

-----------------------------------------------------------------------------
(* The retry.                                                              *)

BeforeAnyToken ==
    {"idle", "join", "shared", "compare", "drop", "acquire", "wait", "reread", "mint"}

\* A request that has no token yet has none, and one that is at its first
\* attempt has none that failed.
EmptyHanded(r) ==
    /\ req[r].at \in BeforeAnyToken => req[r].token = NoToken
    /\ req[r].at \in {"idle", "join", "shared"} => req[r].stale = NoToken

HandsOK == \A r \in Requests : EmptyHanded(r)

\* Once the token that failed is deleted it does not come back, neither to
\* Redis before the request has another one nor to the request.
Parted(r) ==
    req[r].stale # NoToken =>
        /\ req[r].token # req[r].stale
        /\ req[r].at \in {"acquire", "wait", "reread", "mint", "publish", "release"} =>
              published # req[r].stale

RetryOK == "delete" \notin hit => \A r \in Requests : Parted(r)

LEMMA NextHands == Typed /\ HandsOK /\ [Next]_vars => HandsOK'
<1>. SUFFICES ASSUME Typed, HandsOK, [Next]_vars, NEW s \in Requests
              PROVE  EmptyHanded(s)'
  BY DEF HandsOK
<1>0. EmptyHanded(s)
  BY DEF HandsOK
<1>1. ASSUME req'[s] = NoRequest
      PROVE  EmptyHanded(s)'
  BY <1>1 DEF EmptyHanded, NoRequest
<1>2. ASSUME NEW r \in Requests, GetToken(r) \/ Advance(r)
      PROVE  EmptyHanded(s)'
  <2>1. CASE s # r
    BY <1>0, <1>1, <1>2, <2>1, OthersStay DEF EmptyHanded, BeforeAnyToken
  <2>2. CASE s = r
    <3>1. Does(s)
      BY <1>2, <2>2, AdvanceDoes
    <3>2. CASE Keeps(s) /\ req'[s].stale = req[s].stale
      BY <1>0, <3>2 DEF Keeps, Sends, Moves, EmptyHanded, BeforeAnyToken
    <3>3. CASE req'[s].at = "compare" /\ req'[s].token = NoToken
      BY <3>3 DEF EmptyHanded, BeforeAnyToken
    <3>. QED
      BY <1>1, <3>1, <3>2, <3>3 DEF Does
  <2>. QED
    BY <2>1, <2>2
<1>3. CASE World \/ UNCHANGED vars
  BY <1>0, <1>1, <1>3, WorldDoes DEF EmptyHanded
<1>. QED
  BY <1>2, <1>3 DEF Next, World

\* What is written to Redis while a retry is under way is not what it parted
\* with: it was there already, or only its own request knew it.
LEMMA PublishedElsewhere ==
    ASSUME Typed, FreshOK, NEW r \in Requests, Does(r), NEW s \in Requests,
           req[s].stale # NoToken, published # req[s].stale
    PROVE  published' # req[s].stale
<1>1. \/ published' \in {NoToken, published}
      \/ req[r].at = "publish" /\ published' = req[r].token
  BY DEF Does, Keeps, Moves, Sends
<1>2. req[r].at = "publish" => req[r].token # req[s].stale
  BY DEF FreshOK, Unknown
<1>. QED
  BY <1>1, <1>2

LEMMA NextRetry == Typed /\ FreshOK /\ HandsOK /\ RetryOK /\ [Next]_vars => RetryOK'
<1>. SUFFICES ASSUME Typed, FreshOK, HandsOK, RetryOK, [Next]_vars,
                     "delete" \notin hit', NEW s \in Requests, req'[s].stale # NoToken
              PROVE  Parted(s)'
  BY DEF RetryOK, Parted
<1>0. "delete" \notin hit /\ Parted(s) /\ EmptyHanded(s)
  BY TroublesStay DEF RetryOK, HandsOK, vars
<1>1. ASSUME NEW r \in Requests, GetToken(r) \/ Advance(r)
      PROVE  Parted(s)'
  <2>0. Does(r)
    BY <1>1, AdvanceDoes
  <2>1. CASE s # r
    <3>1. req'[s] = req[s]
      <4>1. CASE req[s].at = "join"
        BY <1>0, <1>1, <2>1, <4>1, OthersStay DEF EmptyHanded, NoRequest
      <4>. QED
        BY <1>1, <2>1, <4>1, OthersStay
    <3>2. published # req[s].stale => published' # req[s].stale
      BY <2>0, <3>1, PublishedElsewhere
    <3>. QED
      BY <1>0, <3>1, <3>2 DEF Parted
  <2>2. CASE s = r /\ req'[s].stale = req[s].stale /\ Keeps(s)
    <3>1. published # req[s].stale => published' # req[s].stale
      BY <2>0, <2>2, PublishedElsewhere
    <3>2. req[s].at \notin {"idle", "join", "shared"}
      BY <1>0, <2>2 DEF EmptyHanded
    <3>3. req[s].stale \in Remembered
      BY DEF Remembered
    <3>4. req'[s].token # req[s].stale
      BY <1>0, <2>2, <3>2, <3>3 DEF Keeps, Sends, Moves, Parted
    <3>5. req'[s].at \in {"acquire", "wait", "reread", "mint", "publish", "release"} =>
             published' # req[s].stale
      BY <1>0, <2>2, <3>1, <3>2 DEF Keeps, Sends, Moves, Parted
    <3>. QED
      BY <2>2, <3>4, <3>5 DEF Parted
  <2>3. CASE s = r /\ req'[s] = NoRequest
    BY <2>3 DEF NoRequest
  <2>4. CASE s = r /\ req'[s].at = "compare" /\ req'[s].token = NoToken
    BY <2>4 DEF Parted
  <2>. QED
    BY <2>0, <2>1, <2>2, <2>3, <2>4 DEF Does
<1>2. CASE World \/ UNCHANGED vars
  <2>1. /\ req'[s].at = req[s].at
        /\ req'[s].token = req[s].token
        /\ req'[s].stale = req[s].stale
        /\ published' \in {NoToken, published}
    BY <1>2, WorldDoes DEF NoRequest
  <2>. QED
    BY <1>0, <2>1 DEF Parted
<1>. QED
  BY <1>1, <1>2 DEF Next, World

LEMMA AlwaysParted == Spec => []RetryOK
<1>1. Init => HandsOK /\ RetryOK
  BY DEF Init, HandsOK, EmptyHanded, RetryOK, Parted, NoRequest
<1>2. Spec => []HandsOK
  BY <1>1, AlwaysTyped, NextHands, PTL DEF Spec
<1>. QED
  BY <1>1, <1>2, AlwaysTyped, AlwaysFresh, NextRetry, PTL DEF Spec

(***************************************************************************)
(* The one retry after a 401 is never made with the token that was         *)
(* refused, unless Redis would not delete it: not even when other requests *)
(* of any pod adopt, publish and delete tokens meanwhile.                  *)
(***************************************************************************)
THEOREM RetriesAnotherToken == Spec => []RetryIsAnotherToken
<1>1. RetryOK => RetryIsAnotherToken
  BY DEF RetryOK, Parted, RetryIsAnotherToken
<1>. QED
  BY <1>1, AlwaysParted, PTL

-----------------------------------------------------------------------------
(* The shared token.                                                       *)

\* Who is about to publish has found nothing published, and publishes the
\* token issued last.
SharedOK ==
    hit \subseteq {"delete"} =>
        /\ published \in {NoToken, newest}
        /\ \A s \in Requests :
              /\ req[s].at \in {"mint", "publish"} => published = NoToken
              /\ req[s].at = "publish" => newest = req[s].token

LEMMA NextShared == Typed /\ LockOK /\ SharedOK /\ [Next]_vars => SharedOK'
<1>. SUFFICES ASSUME Typed, LockOK, SharedOK, [Next]_vars, hit' \subseteq {"delete"}
              PROVE  /\ published' \in {NoToken, newest'}
                     /\ \A s \in Requests :
                           /\ req'[s].at \in {"mint", "publish"} => published' = NoToken
                           /\ req'[s].at = "publish" => newest' = req'[s].token
  BY DEF SharedOK
<1>0. /\ hit \subseteq {"delete"}
      /\ "lock" \notin hit /\ "lock" \notin hit' /\ "redis" \notin hit'
  BY TroublesStay DEF vars
<1>1. ASSUME NEW r \in Requests, GetToken(r) \/ Advance(r)
      PROVE  /\ published' \in {NoToken, newest'}
             /\ \A s \in Requests :
                   /\ req'[s].at \in {"mint", "publish"} => published' = NoToken
                   /\ req'[s].at = "publish" => newest' = req'[s].token
  <2>0. Does(r)
    BY <1>1, AdvanceDoes
  <2>1. published' \in {NoToken, newest'}
    BY <1>0, <2>0 DEF Does, Keeps, Moves, Sends, SharedOK
  <2>2. ASSUME NEW s \in Requests, s # r, req'[s].at \in {"mint", "publish"}
        PROVE  published' = NoToken /\ (req'[s].at = "publish" => newest' = req'[s].token)
    <3>1. req'[s] = req[s]
      BY <1>1, <2>2, OthersStay, NoRequestTyped
    <3>2. ~Refreshing(r)
      BY <1>0, <2>2, <3>1 DEF LockOK, Refreshing
    <3>3. newest' = newest /\ published' \in {NoToken, published}
      BY <2>0, <3>2 DEF Does, Keeps, Moves, Sends, Refreshing
    <3>. QED
      BY <1>0, <2>2, <3>1, <3>3 DEF SharedOK
  <2>3. /\ req'[r].at \in {"mint", "publish"} => published' = NoToken
        /\ req'[r].at = "publish" => newest' = req'[r].token
    BY <1>0, <2>0, NoRequestTyped DEF Does, Keeps, Moves, Sends, SharedOK
  <2>. QED
    BY <2>1, <2>2, <2>3
<1>2. CASE World \/ UNCHANGED vars
  BY <1>0, <1>2, WorldDoes, NoRequestTyped DEF SharedOK
<1>. QED
  BY <1>1, <1>2 DEF Next, World

(***************************************************************************)
(* What Redis holds is the token issued last, and a pod that is about to   *)
(* have one issued has found none and finds none still, however many pods  *)
(* refresh, as long as the lock and the reads and writes of the cache      *)
(* answer.                                                                 *)
(***************************************************************************)
THEOREM AlwaysShared == Spec => []NewestIsShared
<1>1. Init => SharedOK
  BY DEF Init, SharedOK, NoRequest
<1>2. SharedOK => NewestIsShared
  BY DEF SharedOK, NewestIsShared
<1>. QED
  BY <1>1, <1>2, AlwaysTyped, AlwaysLocked, NextShared, PTL DEF Spec

-----------------------------------------------------------------------------
(* The promises.                                                           *)

\* Between the first read and the settling of the promise.
Resolving == {"shared", "acquire", "wait", "reread", "mint", "publish", "release"}

\* Who joins, joins a promise; and a promise has a request of the same pod at work.
Awaited(s) == req[s].at = "join" => inFlight[podOf[s]] # Nobody

Resolved(p) ==
    inFlight[p] # Nobody => podOf[inFlight[p]] = p /\ req[inFlight[p]].at \in Resolving

JoinsOK ==
    /\ \A s \in Requests : Awaited(s)
    /\ \A p \in Pods : Resolved(p)

\* r goes on, and neither settles a promise nor starts one.
GoesOn(r) ==
    /\ inFlight' = inFlight
    /\ \E new : /\ req' = [req EXCEPT ![r] = new]
                /\ new.at # "join"
                /\ req[r].at \in Resolving => new.at \in Resolving

\* r settles its promise, if it has one.
Settles(r) == Fails(r) \/ \E token, lasts : Succeeds(r, token, lasts)

LEMMA GoesGoesOn ==
    ASSUME Typed, NEW r \in Requests, NEW stage \in Resolving \cup {"drop"}, Goes(r, stage),
           inFlight' = inFlight, req[r].at \in Resolving => stage \in Resolving
    PROVE  GoesOn(r)
<1>. DEFINE new == [req[r] EXCEPT !.at = stage]
<1>1. req' = [req EXCEPT ![r] = new] /\ new.at = stage
  BY Shapes DEF Goes, Typed, TypeOK, Request
<1>. HIDE DEF new
<1>. QED
  BY <1>1 DEF GoesOn, Resolving

LEMMA AdvancePromise ==
    ASSUME Typed, NEW r \in Requests, Advance(r)
    PROVE  GoesOn(r) \/ Settles(r)
<1>1. CASE Send(r)
  <2>1. PICK new : /\ req' = [req EXCEPT ![r] = new]
                   /\ \/ new = NoRequest
                      \/ new = [req[r] EXCEPT !.at    = "compare",
                                              !.token = NoToken,
                                              !.stale = req[r].token]
    BY <1>1 DEF Send, Typed, TypeOK
  <2>2. new.at \in {"idle", "compare"}
    BY <2>1, NoRequestTyped, Shapes DEF Request
  <2>3. inFlight' = inFlight /\ req[r].at \notin Resolving
    BY <1>1 DEF Send, Resolving
  <2>. QED
    BY <2>1, <2>2, <2>3 DEF GoesOn
<1>2. CASE GetOrRefresh(r)
  BY <1>2, GoesGoesOn DEF GetOrRefresh, Settles, memory, Resolving
<1>3. CASE Compare(r)
  BY <1>3, GoesGoesOn DEF Compare, Settles, memory, Resolving
<1>4. CASE Drop(r)
  BY <1>4, GoesGoesOn DEF Drop, memory, Resolving
<1>5. CASE AcquireLock(r)
  <2>1. inFlight' = inFlight
    BY <1>5 DEF AcquireLock, memory
  <2>2. CASE Goes(r, "wait")
    BY <2>1, <2>2, GoesGoesOn DEF Resolving
  <2>3. CASE req' = [req EXCEPT ![r].at = "reread", ![r].holder = TRUE]
    <3>. DEFINE new == [req[r] EXCEPT !.at = "reread", !.holder = TRUE]
    <3>1. req' = [req EXCEPT ![r] = new] /\ new.at = "reread"
      BY <2>3, Shapes DEF Typed, TypeOK, Request
    <3>. HIDE DEF new
    <3>. QED
      BY <2>1, <3>1 DEF GoesOn, Resolving
  <2>. QED
    BY <1>5, <2>2, <2>3 DEF AcquireLock
<1>6. CASE WaitForToken(r)
  BY <1>6, GoesGoesOn DEF WaitForToken, Settles, memory, Resolving
<1>7. CASE Reread(r)
  <2>0. PICK token : req' = [req EXCEPT
                                ![r].at = IF token # NoToken THEN "release" ELSE "mint",
                                ![r].token = token]
    BY <1>7 DEF Reread
  <2>1. PICK stage \in {"release", "mint"} :
           req' = [req EXCEPT ![r].at = stage, ![r].token = token]
    BY <2>0
  <2>. DEFINE new == [req[r] EXCEPT !.at = stage, !.token = token]
  <2>2. req' = [req EXCEPT ![r] = new] /\ new.at = stage
    BY <2>1, Shapes DEF Typed, TypeOK, Request
  <2>. HIDE DEF new
  <2>3. inFlight' = inFlight
    BY <1>7 DEF Reread, memory
  <2>. QED
    BY <2>2, <2>3 DEF GoesOn, Resolving
<1>8. CASE MintToken(r)
  <2>1. PICK token, lasts :
           req' = [req EXCEPT ![r].at = "publish", ![r].token = token, ![r].lasts = lasts]
    BY <1>8 DEF MintToken
  <2>. DEFINE new == [req[r] EXCEPT !.at = "publish", !.token = token, !.lasts = lasts]
  <2>2. req' = [req EXCEPT ![r] = new] /\ new.at = "publish"
    BY <2>1, Shapes DEF Typed, TypeOK, Request
  <2>. HIDE DEF new
  <2>3. inFlight' = inFlight
    BY <1>8 DEF MintToken, memory
  <2>. QED
    BY <2>2, <2>3 DEF GoesOn, Resolving
<1>9. CASE MintFails(r)
  BY <1>9, GoesGoesOn DEF MintFails, Settles, memory, Resolving
<1>10. CASE Write(r)
  BY <1>10, GoesGoesOn DEF Write, Settles, memory, Resolving
<1>11. CASE ReleaseLock(r)
  BY <1>11 DEF ReleaseLock, Settles
<1>. QED
  BY <1>1, <1>2, <1>3, <1>4, <1>5, <1>6, <1>7, <1>8, <1>9, <1>10, <1>11 DEF Advance

\* A settled promise takes the requests that joined it along.
LEMMA SettlesDoes ==
    ASSUME Typed, NEW r \in Requests, Settles(r)
    PROVE  /\ \A s \in Requests :
                 IF s = r \/ s \in Awaiting(r) THEN req'[s].at \in {"send", "idle"}
                                               ELSE req'[s] = req[s]
           /\ InFlightCleared(r)
<1>1. InFlightCleared(r)
  BY DEF Settles, Fails, Succeeds
<1>2. CASE Fails(r)
  BY <1>1, <1>2, NoRequestTyped DEF Fails
<1>3. ASSUME NEW token, NEW lasts, Succeeds(r, token, lasts)
      PROVE  \A s \in Requests :
                 IF s = r \/ s \in Awaiting(r) THEN req'[s].at \in {"send", "idle"}
                                               ELSE req'[s] = req[s]
  BY <1>3, Shapes DEF Succeeds, Obtained, Request
<1>. QED
  BY <1>1, <1>2, <1>3 DEF Settles

LEMMA AdvanceJoins ==
    ASSUME Typed, JoinsOK, NEW r \in Requests, Advance(r)
    PROVE  JoinsOK'
<1>0. podOf' = podOf /\ podOf \in [Requests -> Pods] /\ inFlight \in [Pods -> Requests \cup {Nobody}]
  BY RequestAssumption DEF Advance, Typed, TypeOK
<1>1. CASE GoesOn(r)
  <2>1. PICK new : /\ req' = [req EXCEPT ![r] = new]
                   /\ new.at # "join"
                   /\ req[r].at \in Resolving => new.at \in Resolving
    BY <1>1 DEF GoesOn
  <2>2. inFlight' = inFlight
    BY <1>1 DEF GoesOn
  <2>3. req'[r] = new /\ \A s \in Requests \ {r} : req'[s] = req[s]
    BY <2>1 DEF Typed, TypeOK
  <2>4. \A s \in Requests : Awaited(s)'
    BY <1>0, <2>1, <2>2, <2>3 DEF JoinsOK, Awaited
  <2>5. \A p \in Pods : Resolved(p)'
    BY <1>0, <2>1, <2>2, <2>3 DEF JoinsOK, Resolved
  <2>. QED
    BY <2>4, <2>5 DEF JoinsOK
<1>2. CASE Settles(r)
  <2>1. \A p \in Pods : inFlight'[p] = IF inFlight[p] = r THEN Nobody ELSE inFlight[p]
    BY <1>2, SettlesDoes DEF InFlightCleared
  <2>2. ASSUME NEW s \in Requests, req'[s].at = "join" PROVE inFlight'[podOf[s]] # Nobody
    <3>1. s # r /\ s \notin Awaiting(r) /\ req'[s] = req[s]
      BY <1>2, <2>2, SettlesDoes
    <3>2. inFlight[podOf[s]] \notin {r, Nobody}
      BY <2>2, <3>1 DEF JoinsOK, Awaited, Awaiting
    <3>. QED
      BY <1>0, <2>1, <3>2
  <2>3. ASSUME NEW p \in Pods, inFlight'[p] # Nobody
        PROVE  podOf[inFlight'[p]] = p /\ req'[inFlight'[p]].at \in Resolving
    <3>1. PICK o \in Requests : o = inFlight[p] /\ o # r /\ inFlight'[p] = o
      BY <1>0, <2>1, <2>3
    <3>2. podOf[o] = p /\ req[o].at \in Resolving
      BY <2>3, <3>1, RequestAssumption DEF JoinsOK, Resolved
    <3>3. req'[o] = req[o]
      BY <1>2, <3>1, <3>2, SettlesDoes DEF Awaiting, Resolving
    <3>. QED
      BY <3>1, <3>2, <3>3
  <2>. QED
    BY <1>0, <2>2, <2>3 DEF JoinsOK, Awaited, Resolved
<1>. QED
  BY <1>1, <1>2, AdvancePromise

LEMMA GetTokenJoins ==
    ASSUME Typed, JoinsOK, NEW r \in Requests, GetToken(r)
    PROVE  JoinsOK'
<1>0. /\ req[r].at = "idle" /\ podOf' = podOf /\ podOf[r] \in Pods
      /\ inFlight \in [Pods -> Requests \cup {Nobody}]
      /\ req \in [Requests -> Request]
  BY Shapes DEF GetToken, Typed, TypeOK
<1>1. \A p \in Pods : inFlight[p] # r
  BY <1>0, RequestAssumption DEF JoinsOK, Resolved, Resolving
<1>2. PICK stage \in {"send", "join", "shared"} :
         /\ req'[r].at = stage
         /\ stage = "join" => inFlight[podOf[r]] # Nobody
         /\ IF stage = "shared" THEN /\ inFlight' = [inFlight EXCEPT ![podOf[r]] = r]
                                     /\ inFlight[podOf[r]] = Nobody
                                ELSE inFlight' = inFlight
  <2>1. CASE cachedToken[podOf[r]] # NoToken
    <3>1. req' = [req EXCEPT ![r].at = "send", ![r].token = cachedToken[podOf[r]]]
      BY <2>1 DEF GetToken
    <3>2. req'[r].at = "send"
      BY <1>0, <3>1 DEF Request
    <3>. QED
      BY <2>1, <3>2 DEF GetToken
  <2>2. CASE cachedToken[podOf[r]] = NoToken /\ inFlight[podOf[r]] # Nobody
    BY <2>2, GoesDoes DEF GetToken
  <2>3. CASE cachedToken[podOf[r]] = NoToken /\ inFlight[podOf[r]] = Nobody
    BY <2>3, GoesDoes DEF GetToken
  <2>. QED
    BY <2>1, <2>2, <2>3
<1>3. \A s \in Requests \ {r} : req'[s] = req[s]
  BY <1>0 DEF GetToken, Goes
<1>4. ASSUME NEW s \in Requests, req'[s].at = "join" PROVE inFlight'[podOf[s]] # Nobody
  <2>1. inFlight[podOf[s]] # Nobody
    BY <1>2, <1>3, <1>4 DEF JoinsOK, Awaited
  <2>2. podOf[s] \in Pods /\ r # Nobody
    BY Shapes, RequestAssumption
  <2>. QED
    BY <1>0, <1>2, <2>1, <2>2
<1>5. ASSUME NEW p \in Pods, inFlight'[p] # Nobody
      PROVE  podOf[inFlight'[p]] = p /\ req'[inFlight'[p]].at \in Resolving
  <2>1. CASE stage = "shared" /\ p = podOf[r]
    BY <1>0, <1>2, <2>1 DEF Resolving
  <2>2. CASE ~(stage = "shared" /\ p = podOf[r])
    <3>1. PICK o \in Requests : o = inFlight[p] /\ inFlight'[p] = o /\ o # r
      BY <1>0, <1>1, <1>2, <1>5, <2>2
    <3>2. podOf[o] = p /\ req[o].at \in Resolving
      BY <1>5, <3>1, RequestAssumption DEF JoinsOK, Resolved
    <3>. QED
      BY <1>3, <3>1, <3>2
  <2>. QED
    BY <2>1, <2>2
<1>. QED
  BY <1>0, <1>4, <1>5 DEF JoinsOK, Awaited, Resolved

LEMMA WorldJoins ==
    ASSUME Typed, JoinsOK, World \/ UNCHANGED vars
    PROVE  JoinsOK'
<1>0. podOf' = podOf /\ podOf \in [Requests -> Pods] /\ inFlight \in [Pods -> Requests \cup {Nobody}]
  BY RequestAssumption
     DEF World, LockTimesOut, Revoke, Expire, Crash, vars, Typed, TypeOK
<1>1. CASE inFlight' = inFlight /\ \A s \in Requests : req'[s].at = req[s].at
  <2>1. \A s \in Requests : Awaited(s)'
    BY <1>0, <1>1 DEF JoinsOK, Awaited
  <2>2. ASSUME NEW p \in Pods, inFlight[p] # Nobody
        PROVE  podOf[inFlight[p]] = p /\ req'[inFlight[p]].at \in Resolving
    <3>1. inFlight[p] \in Requests
      BY <1>0, <2>2
    <3>. QED
      BY <1>1, <2>2, <3>1 DEF JoinsOK, Resolved
  <2>. QED
    BY <1>0, <1>1, <2>1, <2>2 DEF JoinsOK, Resolved
<1>2. ASSUME NEW token \in Tokens, Expire(token), NEW s \in Requests
      PROVE  req'[s].at = req[s].at
  <2>1. req'[s] = req[s] \/ req'[s] = [req[s] EXCEPT !.lasts = FALSE]
    BY <1>2 DEF Expire
  <2>. QED
    BY <2>1, Shapes DEF Request
<1>3. ASSUME NEW p \in Pods, Crash(p) PROVE JoinsOK'
  <2>1. /\ inFlight' = [inFlight EXCEPT ![p] = Nobody]
        /\ \A s \in Requests : IF podOf[s] = p THEN req'[s].at = "idle" ELSE req'[s] = req[s]
    BY <1>3, NoRequestTyped DEF Crash
  <2>2. ASSUME NEW s \in Requests, req'[s].at = "join" PROVE inFlight'[podOf[s]] # Nobody
    BY <1>0, <2>1, <2>2 DEF JoinsOK, Awaited
  <2>3. ASSUME NEW o \in Pods, inFlight'[o] # Nobody
        PROVE  podOf[inFlight'[o]] = o /\ req'[inFlight'[o]].at \in Resolving
    <3>1. o # p /\ inFlight'[o] = inFlight[o] /\ inFlight[o] \in Requests
      BY <1>0, <2>1, <2>3
    <3>. QED
      BY <2>1, <2>3, <3>1 DEF JoinsOK, Resolved
  <2>. QED
    BY <1>0, <2>2, <2>3 DEF JoinsOK, Awaited, Resolved
<1>. QED
  BY <1>1, <1>2, <1>3 DEF World, LockTimesOut, Revoke, Expire, memory, vars

(***************************************************************************)
(* The safety half of RequestEnds: nobody awaits a promise that is not     *)
(* being resolved.  A request that joined getToken's promise has another   *)
(* one of its own pod to thank, which joined nobody and is on its way      *)
(* through TokenRedis, whichever of them fails, is refused or crashes; so  *)
(* requests never wait for one another in a circle.                        *)
(***************************************************************************)
THEOREM NobodyJoinsInVain ==
    Spec => [](\A s \in Requests :
                  req[s].at = "join" =>
                      \E r \in Requests : /\ inFlight[podOf[s]] = r
                                          /\ podOf[r] = podOf[s]
                                          /\ req[r].at \in Resolving)
<1>1. Init => JoinsOK
  BY RequestAssumption DEF Init, JoinsOK, Awaited, Resolved, NoRequest
<1>2. Typed /\ JoinsOK /\ [Next]_vars => JoinsOK'
  BY AdvanceJoins, GetTokenJoins, WorldJoins DEF Next, World
<1>3. Typed /\ JoinsOK =>
         \A s \in Requests :
             req[s].at = "join" =>
                 \E r \in Requests : /\ inFlight[podOf[s]] = r
                                     /\ podOf[r] = podOf[s]
                                     /\ req[r].at \in Resolving
  <2>. SUFFICES ASSUME Typed, JoinsOK, NEW s \in Requests, req[s].at = "join"
                PROVE  \E r \in Requests : /\ inFlight[podOf[s]] = r
                                           /\ podOf[r] = podOf[s]
                                           /\ req[r].at \in Resolving
    OBVIOUS
  <2>1. podOf[s] \in Pods /\ inFlight[podOf[s]] # Nobody
    BY Shapes DEF JoinsOK, Awaited
  <2>2. inFlight[podOf[s]] \in Requests
    BY <2>1 DEF Typed, TypeOK
  <2>. QED
    BY <2>1, <2>2 DEF JoinsOK, Resolved
<1>. QED
  BY <1>1, <1>2, <1>3, AlwaysTyped, PTL DEF Spec

=============================================================================

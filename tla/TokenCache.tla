----------------------------- MODULE TokenCache -----------------------------
(***************************************************************************)
(* The provider tokens of apps/transaction: libs/redis's TokenRedis, which *)
(* shares one token among the pods, under the authorizedRequest of the     *)
(* four auth services (MotionPay QRIS, transfer and biller, Jatelindo      *)
(* transfer), which are the same program over different endpoints.         *)
(*                                                                         *)
(* One provider and one context.  A request is a process of its pod: every *)
(* Redis command and every call of the provider is a step.  Requests come  *)
(* for ever.                                                               *)
(*                                                                         *)
(* A token is a model value, reused once nobody remembers it.  Time is two *)
(* events: the lock reaches its TTL, and a token its expiry, from when on  *)
(* it is as good as absent from Redis and from the memory of the pods,     *)
(* whose reads all compare the time.                                       *)
(***************************************************************************)
EXTENDS FiniteSets, Naturals

CONSTANTS
    Requests,       \* requests that may be under way at once
    Pods,
    Placements,     \* where the requests may come to: a set of [Requests -> Pods]
    Tokens,         \* room for tokens somebody remembers
    NoToken,
    Nobody,         \* the lock, or the in-flight promise, belongs to no one
    Gone,           \* the lock belongs to a holder that will not release it
    Revoking,       \* does the provider revoke the old token when it issues one?
    MaxFaults       \* bound of the faults, the expiries and the revocations

ASSUME RequestAssumption ==
    /\ Placements \subseteq [Requests -> Pods]
    /\ Nobody \notin Requests
    /\ Gone \notin Requests
    /\ Gone # Nobody

ASSUME TokenAssumption ==
    /\ NoToken \notin Tokens
    /\ Revoking \in BOOLEAN
    /\ MaxFaults \in Nat

VARIABLES
    valid,          \* the tokens the provider accepts
    newest,         \* the token the provider issued last
    published,      \* the token in Redis
    lock,           \* the refresh lock in Redis: a request, Nobody or Gone
    cachedToken,    \* [Pods -> the token in the pod's memory]
    inFlight,       \* [Pods -> the request that resolves a token for the others]
    podOf,          \* the pod each request comes to
    req,            \* the requests
    hit,            \* the troubles met since the beginning
    faults          \* how many

vars == <<valid, newest, published, lock, cachedToken, inFlight, podOf,
          req, hit, faults>>
provider == <<valid, newest>>
memory == <<cachedToken, inFlight>>

\* What can go wrong: a request refreshes although the lock is not its own,
\* for Redis did not answer, the TTL ended under the holder or the wait ran
\* out; Redis does not answer a read or a write, or a deletion.
Troubles == {"lock", "redis", "delete"}

\* Where a request is.
Stages == {"idle", "join", "send", "shared", "compare", "drop", "acquire",
           "wait", "reread", "mint", "publish", "release"}

\* `stale` is the token a 401 was answered to: a request that has one is on
\* its retry.  `holder`: has it been told that the lock is its own?  `lasts`:
\* has its token a second to live, or is it good for this one request?
Request == [at     : Stages,
            token  : Tokens \cup {NoToken},
            stale  : Tokens \cup {NoToken},
            holder : BOOLEAN,
            lasts  : BOOLEAN]

NoRequest == [at     |-> "idle",
              token  |-> NoToken,
              stale  |-> NoToken,
              holder |-> FALSE,
              lasts  |-> TRUE]

Init ==
    /\ valid = {}
    /\ newest = NoToken
    /\ published = NoToken
    /\ lock = Nobody
    /\ cachedToken = [p \in Pods |-> NoToken]
    /\ inFlight = [p \in Pods |-> Nobody]
    /\ podOf \in Placements
    /\ req = [r \in Requests |-> NoRequest]
    /\ hit = {}
    /\ faults = 0

-----------------------------------------------------------------------------
Goes(r, stage) == req' = [req EXCEPT ![r].at = stage]

Met(trouble) ==
    /\ faults < MaxFaults
    /\ faults' = faults + 1
    /\ hit' = hit \cup {trouble}

NoTrouble == UNCHANGED <<hit, faults>>

\* read fails open: no answer is no token.
Read(token) ==
    \/ token = published /\ NoTrouble
    \/ token = NoToken /\ Met("redis")

\* The requests of the pod that await the promise r resolves.
Awaiting(r) == {s \in Requests : req[s].at = "join" /\ inFlight[podOf[s]] = r}

\* r has its token, and so have the requests that joined it.
Obtained(r, token, lasts) ==
    /\ cachedToken' = [cachedToken EXCEPT
                         ![podOf[r]] = IF lasts THEN token ELSE NoToken]
    /\ req' = [s \in Requests |->
                 IF s = r \/ s \in Awaiting(r)
                 THEN [req[s] EXCEPT !.at = "send",
                                     !.token = token,
                                     !.holder = FALSE,
                                     !.lasts = TRUE]
                 ELSE req[s]]

\* The promise is settled: the next request without a token starts another.
InFlightCleared(r) ==
    inFlight' = [p \in Pods |-> IF inFlight[p] = r THEN Nobody ELSE inFlight[p]]

Succeeds(r, token, lasts) == Obtained(r, token, lasts) /\ InFlightCleared(r)

Fails(r) ==
    /\ req' = [s \in Requests |->
                 IF s = r \/ s \in Awaiting(r) THEN NoRequest ELSE req[s]]
    /\ InFlightCleared(r)
    /\ UNCHANGED cachedToken

-----------------------------------------------------------------------------
(* The auth service.                                                       *)

\* getToken: the token in memory, or the promise under way, or one's own.
GetToken(r) ==
    /\ req[r].at = "idle"
    /\ LET p == podOf[r]
       IN  IF cachedToken[p] # NoToken
           THEN /\ req' = [req EXCEPT ![r].at = "send",
                                      ![r].token = cachedToken[p]]
                /\ UNCHANGED inFlight
           ELSE IF inFlight[p] # Nobody
           THEN Goes(r, "join") /\ UNCHANGED inFlight
           ELSE /\ Goes(r, "shared")
                /\ inFlight' = [inFlight EXCEPT ![p] = r]
    /\ UNCHANGED <<provider, published, lock, cachedToken, podOf>>
    /\ NoTrouble

\* Mutant: the retry goes through authorizedRequest again.
NoRetryYet(r) == r \notin Requests

IsRetry(r) == req[r].stale # NoToken

\* send, and what authorizedRequest makes of the answer: the first 401 is
\* retried, the second is the caller's.
Send(r) ==
    /\ req[r].at = "send"
    /\ IF req[r].token \in valid \/ IsRetry(r)
       THEN /\ req' = [req EXCEPT ![r] = NoRequest]
            /\ UNCHANGED cachedToken
       ELSE /\ req' = [req EXCEPT ![r] = [@ EXCEPT !.at    = "compare",
                                                 !.token = NoToken,
                                                 !.stale = req[r].token]]
            /\ cachedToken' = [cachedToken EXCEPT ![podOf[r]] = NoToken]
    /\ UNCHANGED <<provider, published, lock, inFlight>>
    /\ NoTrouble

-----------------------------------------------------------------------------
(* TokenRedis.                                                             *)

\* getOrRefresh.
GetOrRefresh(r) ==
    /\ req[r].at = "shared"
    /\ \E token \in Tokens \cup {NoToken} :
          /\ Read(token)
          /\ IF token # NoToken
             THEN Succeeds(r, token, TRUE)
             ELSE Goes(r, "acquire") /\ UNCHANGED memory
    /\ UNCHANGED <<provider, published, lock>>

\* Mutant: the comparison without the token that failed.
AdoptsAnything(r, token) == token # NoToken /\ r \in Requests

Adopts(r, token) == token # NoToken /\ token # req[r].stale

\* refreshIfUnchanged: the comparison,
Compare(r) ==
    /\ req[r].at = "compare"
    /\ \E token \in Tokens \cup {NoToken} :
          /\ Read(token)
          /\ IF Adopts(r, token)
             THEN Succeeds(r, token, TRUE)
             ELSE Goes(r, "drop") /\ UNCHANGED memory
    /\ UNCHANGED <<provider, published, lock>>

\* and then the deletion, of whatever Redis holds by now.
Drop(r) ==
    /\ req[r].at = "drop"
    /\ \/ published' = NoToken /\ NoTrouble
       \/ UNCHANGED published /\ Met("delete")
    /\ Goes(r, "acquire")
    /\ UNCHANGED <<provider, lock, memory>>

\* Mutant: SET without NX.
AlwaysFree == lock \in Requests \cup {Nobody, Gone}

LockIsFree == lock = Nobody

\* acquireLock.  Without Redis the request goes on as if uncontended.
AcquireLock(r) ==
    /\ req[r].at = "acquire"
    /\ \/ /\ LockIsFree
          /\ lock' = r
          /\ req' = [req EXCEPT ![r].at = "reread", ![r].holder = TRUE]
          /\ NoTrouble
       \/ /\ ~LockIsFree
          /\ Goes(r, "wait")
          /\ UNCHANGED lock
          /\ NoTrouble
       \/ /\ req' = [req EXCEPT ![r].at = "reread", ![r].holder = TRUE]
          /\ UNCHANGED lock
          /\ Met("lock")
    /\ UNCHANGED <<provider, published, memory>>

\* waitForToken: a poll finds the holder's token, or the last one finds none
\* and the request refreshes without the lock.
WaitForToken(r) ==
    /\ req[r].at = "wait"
    /\ \/ /\ published # NoToken
          /\ Succeeds(r, published, TRUE)
          /\ NoTrouble
       \/ /\ \/ published = NoToken /\ UNCHANGED faults
             \/ faults < MaxFaults /\ faults' = faults + 1
          /\ Goes(r, "mint")
          /\ UNCHANGED memory
          /\ hit' = hit \cup {"lock"}
    /\ UNCHANGED <<provider, published, lock>>

\* The second read, under the lock.
Reread(r) ==
    /\ req[r].at = "reread"
    /\ \E token \in Tokens \cup {NoToken} :
          /\ Read(token)
          /\ req' = [req EXCEPT
                       ![r].at = IF token # NoToken THEN "release" ELSE "mint",
                       ![r].token = token]
    /\ UNCHANGED <<provider, published, lock, memory>>

\* The tokens the pods, the requests, Redis or the provider still know.
Remembered ==
    {published, newest}
      \cup {cachedToken[p] : p \in Pods}
      \cup {req[r].token : r \in Requests}
      \cup {req[r].stale : r \in Requests}

\* mintToken.  A token whose exp cannot be read, or is near, does not last.
MintToken(r) ==
    /\ req[r].at = "mint"
    /\ Tokens \ Remembered # {}
    /\ LET token == CHOOSE t \in Tokens : t \notin Remembered
       IN  \E lasts \in BOOLEAN :
              /\ newest' = token
              /\ valid' = {token} \cup (IF Revoking THEN {} ELSE valid)
              /\ req' = [req EXCEPT ![r].at = "publish",
                                   ![r].token = token,
                                   ![r].lasts = lasts]
              /\ faults' = IF lasts THEN faults ELSE faults + 1
              /\ faults' \in 0 .. MaxFaults
    /\ UNCHANGED <<published, lock, memory, hit>>

\* The token call fails, or its answer is refused: the lock is released on
\* the way out, and without one there is nothing to release.
MintFails(r) ==
    /\ req[r].at = "mint"
    /\ faults < MaxFaults
    /\ faults' = faults + 1
    /\ IF req[r].holder
       THEN Goes(r, "release") /\ UNCHANGED memory
       ELSE Fails(r)
    /\ UNCHANGED <<provider, published, lock, hit>>

\* write, which drops a token without a second to live.
Write(r) ==
    /\ req[r].at = "publish"
    /\ \/ /\ published' = IF req[r].lasts THEN req[r].token
                          ELSE published
          /\ NoTrouble
       \/ UNCHANGED published /\ Met("redis")
    /\ IF req[r].holder
       THEN Goes(r, "release") /\ UNCHANGED memory
       ELSE Succeeds(r, req[r].token, req[r].lasts)
    /\ UNCHANGED <<provider, lock>>

\* Mutant: a plain DEL.
ReleasedBy(r) == IF r \in Requests THEN Nobody ELSE lock

Unlocked(r) == IF lock = r THEN Nobody ELSE lock

\* releaseLock, in the finally of refreshUnderLock.  A lock that could not be
\* released is left to its TTL.
ReleaseLock(r) ==
    /\ req[r].at = "release"
    /\ \/ lock' = Unlocked(r) /\ NoTrouble
       \/ lock' = (IF lock = r THEN Gone ELSE lock) /\ Met("lock")
    /\ IF req[r].token # NoToken
       THEN Succeeds(r, req[r].token, req[r].lasts)
       ELSE Fails(r)
    /\ UNCHANGED <<provider, published>>

-----------------------------------------------------------------------------
(* The world.                                                              *)

\* The TTL of the lock ends; under a live holder that is a fault.
LockTimesOut ==
    /\ lock # Nobody
    /\ lock' = Nobody
    /\ IF lock = Gone THEN NoTrouble ELSE Met("lock")
    /\ UNCHANGED <<provider, published, memory, podOf, req>>

\* The provider takes a token back.
Revoke(token) ==
    /\ token \in valid
    /\ valid' = valid \ {token}
    /\ faults < MaxFaults
    /\ faults' = faults + 1
    /\ UNCHANGED <<newest, published, lock, memory, podOf, req, hit>>

\* A token reaches its expiry, less the skew.
Expire(token) ==
    /\ token \in {published} \cup {cachedToken[p] : p \in Pods}
    /\ published' = IF published = token THEN NoToken ELSE published
    /\ cachedToken' =
          [p \in Pods |-> IF cachedToken[p] = token THEN NoToken
                         ELSE cachedToken[p]]
    /\ req' = [r \in Requests |->
                 IF req[r].at \in {"publish", "release"} /\ req[r].token = token
                 THEN [req[r] EXCEPT !.lasts = FALSE]
                 ELSE req[r]]
    /\ faults < MaxFaults
    /\ faults' = faults + 1
    /\ UNCHANGED <<provider, lock, inFlight, podOf, hit>>

\* A pod restarts: its requests, its token and its promise are gone, its lock
\* is left to the TTL.
Crash(p) ==
    /\ faults < MaxFaults
    /\ faults' = faults + 1
    /\ req' = [r \in Requests |-> IF podOf[r] = p THEN NoRequest ELSE req[r]]
    /\ cachedToken' = [cachedToken EXCEPT ![p] = NoToken]
    /\ inFlight' = [inFlight EXCEPT ![p] = Nobody]
    /\ lock' = IF lock \in Requests /\ podOf[lock] = p THEN Gone ELSE lock
    /\ UNCHANGED <<provider, published, podOf, hit>>

-----------------------------------------------------------------------------
\* What a request does next, once it has begun.
Advance(r) ==
    /\ \/ Send(r)
       \/ GetOrRefresh(r)
       \/ Compare(r)
       \/ Drop(r)
       \/ AcquireLock(r)
       \/ WaitForToken(r)
       \/ Reread(r)
       \/ MintToken(r)
       \/ MintFails(r)
       \/ Write(r)
       \/ ReleaseLock(r)
    /\ UNCHANGED podOf

Next ==
    \/ \E r \in Requests : GetToken(r) \/ Advance(r)
    \/ LockTimesOut
    \/ \E token \in Tokens : Revoke(token) \/ Expire(token)
    \/ \E p \in Pods : Crash(p)

Spec == Init /\ [][Next]_vars

\* Every await returns or throws in the end: the calls have timeouts, and the
\* wait for the lock is bounded.
Fairness == \A r \in Requests : WF_vars(Advance(r))

FairSpec == Spec /\ Fairness

-----------------------------------------------------------------------------
(* Type invariant: the values each variable ranges over, and that nothing  *)
(* is sent without a token.                                                *)
TypeOK ==
    /\ valid \subseteq Tokens
    /\ newest \in Tokens \cup {NoToken}
    /\ published \in Tokens \cup {NoToken}
    /\ lock \in Requests \cup {Nobody, Gone}
    /\ cachedToken \in [Pods -> Tokens \cup {NoToken}]
    /\ inFlight \in [Pods -> Requests \cup {Nobody}]
    /\ podOf \in Placements
    /\ req \in [Requests -> Request]
    /\ \A r \in Requests : req[r].at = "send" => req[r].token # NoToken
    /\ hit \subseteq Troubles
    /\ faults \in 0 .. MaxFaults

Refreshing(r) == req[r].at \in {"reread", "mint", "publish", "release"}

(* The lock lets exactly one request of all the pods refresh, whoever      *)
(* crashes and whatever is expired or revoked, as long as Redis answers    *)
(* lock commands, the lock outlives its holder and no wait runs out        *)
(* (refreshUnderLock).                                                     *)
OneRefresher ==
    "lock" \notin hit =>
        \A r, s \in Requests : Refreshing(r) /\ Refreshing(s) => r = s

(* While a pod holds the lock no other request releases it, not even one   *)
(* that held it until its TTL ended (releaseLock compares before it        *)
(* deletes).                                                               *)
OnlyItsHolderUnlocks ==
    [][\A r \in Requests :
          lock = r /\ lock' # r /\ faults' = faults =>
              req[r].at = "release" /\ req'[r].at # "release"]_vars

(* The one retry after a 401 is never made with the token that was just    *)
(* refused, unless Redis would not delete it: the second read under the    *)
(* lock and the wait take whatever they find (refreshIfUnchanged).         *)
RetryIsAnotherToken ==
    "delete" \notin hit =>
        \A r \in Requests :
            req[r].at = "send" /\ req[r].stale # NoToken =>
                req[r].token # req[r].stale

(* What Redis holds is the token the provider issued last, and no older    *)
(* one, and nobody asks for another while it is there, unless a lock or a  *)
(* Redis command failed a holder; otherwise a read hands out a token that  *)
(* a revoking provider refuses (the second read of refreshUnderLock).      *)
NewestIsShared ==
    hit \subseteq {"delete"} =>
        /\ published \in {NoToken, newest}
        /\ \A r \in Requests : req[r].at = "mint" => published = NoToken

\* A token that works is deleted by a request that compared an older one.
DropsLiveToken == published \in valid /\ published' = NoToken

\* A request refreshes without the lock.
WaitsInVain ==
    \E r \in Requests : req[r].at = "wait" /\ req'[r].at = "mint"

(* No refresh storm: once the faults have stopped, the pods mint tokens    *)
(* for ever only if they keep deleting live ones between a comparison and  *)
(* a deletion, or keep running out of patience with the lock.              *)
StormNeedsFuel ==
    ([]<><<newest' # newest>>_vars) =>
        []<><<DropsLiveToken \/ WaitsInVain>>_vars

(* Every request is answered, refused or failed in the end, also those     *)
(* that wait for another request's promise or for another pod's lock.      *)
RequestEnds ==
    \A r \in Requests : req[r].at # "idle" ~> req[r].at = "idle"

=============================================================================

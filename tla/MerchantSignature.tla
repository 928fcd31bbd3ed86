------------------------- MODULE MerchantSignature -------------------------
(***************************************************************************)
(* How a merchant's signed request is accepted: MerchantSignatureGuard in  *)
(* apps/transaction, validateSignature in apps/auth with the row cache,    *)
(* the request budget and the nonces in Redis, and the two writes of the   *)
(* row in apps/dashboard, rotation of the secret and the allowlist.        *)
(*                                                                         *)
(* One merchant, one endpoint.  Each read or write of the database or of   *)
(* Redis is a step, and whatever the process does with an answer until its *)
(* next await belongs to the step.  A signature is the secret it was made  *)
(* with: it matches or it does not.                                        *)
(***************************************************************************)
EXTENDS Integers, FiniteSets, FiniteSetsExt

CONSTANTS
    Editors,        \* requests of the merchant's users to the dashboard
    Deliveries,     \* requests being verified, on any pod
    Messages,       \* requests the merchant signs; one may be delivered again
    MaxSecrets,     \* bound of the secrets generated
    MaxWrites,      \* bound of the writes of the row
    Tolerance,      \* TIMESTAMP_TOLERANCE_SECONDS
    NonceTTL,       \* NONCE_TTL_SECONDS
    CacheTTL,       \* CACHE_TTL_SECONDS
    Grace,          \* SECRET_KEY_GRACE_SECONDS
    Limit,          \* RATE_LIMIT_MAX_REQUESTS
    WindowLength,   \* RATE_LIMIT_WINDOW_SECONDS
    MaxLatency,     \* the longest a verification takes
    Skews,          \* how far off the merchant's clock may be
    MaxFaults,      \* bound of the lost calls and dead processes
    Horizon,        \* bound of the clock
    Null            \* no value

\* The configuration refuses to start with anything else.  That a verification
\* takes time, from the guard's look at the clock to the claim of the nonce,
\* does not enter into it.
ASSUME TimingAssumption ==
    /\ {Tolerance, NonceTTL, CacheTTL, Grace, Limit, WindowLength} \subseteq Nat \ {0}
    /\ NonceTTL >= 2 * Tolerance

ASSUME BoundsAssumption ==
    /\ {MaxSecrets, MaxFaults, MaxLatency, Horizon} \subseteq Nat
    /\ Skews \subseteq Int
    /\ MaxWrites \in Nat \ {0}
    /\ Null \notin Int

VARIABLES
    now,            \* the clock
    row,            \* the merchant's MerchantSignature row
    overwritten,    \* [1 .. MaxWrites -> when the row with that version was]
    retired,        \* [1 .. MaxSecrets -> when the secret ceased to be current]
    made,           \* how many secrets have been generated
    held,           \* the secret the merchant signs with
    cache,          \* the row in Redis
    editor,         \* where each request to the dashboard is
    message,        \* [Messages -> secret and X-Timestamp, once signed]
    delivery,       \* where each verification is
    nonce,          \* [Messages -> when Redis forgets the nonce; 0: never seen]
    handled,        \* [Messages -> how often the request was let through]
    hits,           \* the request counter of the current window
    faults          \* how many things went wrong so far

dbVars == <<row, overwritten, retired, made>>
worldVars == <<held, message>>
redisVars == <<cache, nonce, hits>>
vars == <<now, dbVars, worldVars, redisVars, editor, delivery, handled, faults>>

Secrets == 1 .. MaxSecrets

Moment == 0 .. Horizon

\* The version counts the writes that change what is accepted.
RowType == [version : 1 .. MaxWrites, secret : Secrets \cup {Null},
            previous : Secrets \cup {Null}, rotatedAt : Moment, allowed : BOOLEAN]

Idle == [at |-> "idle"]

\* registerMerchant: a row without a secret and without an allowlist.
Init ==
    /\ now = 0
    /\ row = [version |-> 1, secret |-> Null, previous |-> Null,
              rotatedAt |-> 0, allowed |-> TRUE]
    /\ overwritten = [v \in 1 .. MaxWrites |-> Null]
    /\ retired = [s \in Secrets |-> Null]
    /\ made = 0
    /\ held = Null
    /\ cache = Null
    /\ editor = [d \in Editors |-> Idle]
    /\ message = [m \in Messages |-> Null]
    /\ delivery = [w \in Deliveries |-> Idle]
    /\ nonce = [m \in Messages |-> 0]
    /\ handled = [m \in Messages |-> 0]
    /\ hits = 0
    /\ faults = 0

-----------------------------------------------------------------------------
(* The world.                                                              *)

\* No verification takes longer than MaxLatency.  Redis forgets what has
\* expired (a key is there until the moment after), and the counter of a window
\* that is over.
Tick ==
    /\ now < Horizon
    /\ \A w \in Deliveries : delivery[w] # Idle => now < delivery[w].since + MaxLatency
    /\ now' = now + 1
    /\ cache' = IF cache # Null /\ cache.expires < now' THEN Null ELSE cache
    /\ nonce' = [m \in Messages |-> IF nonce[m] < now' THEN 0 ELSE nonce[m]]
    /\ hits' = IF now' % WindowLength = 0 THEN 0 ELSE hits
    /\ UNCHANGED <<dbVars, worldVars, editor, delivery, handled, faults>>

\* The merchant's clock may be wrong.
Sign(m) ==
    /\ held # Null
    /\ message[m] = Null
    /\ \E error \in Skews :
          message' = [message EXCEPT ![m] = [secret |-> held, stamp |-> now + error]]
    /\ UNCHANGED <<now, dbVars, held, redisVars, editor, delivery, handled, faults>>

Fault == faults < MaxFaults /\ faults' = faults + 1

-----------------------------------------------------------------------------
(* The dashboard.                                                          *)

Overwrite(new) ==
    /\ row.version < MaxWrites
    /\ row' = [new EXCEPT !.version = row.version + 1]
    /\ overwritten' = [overwritten EXCEPT ![row.version] = now]

\* generateSharedSecretKey reads the current secret.  The transaction is READ
\* COMMITTED and the read takes no lock.
ReadSecret(d) ==
    /\ editor[d] = Idle
    /\ made < MaxSecrets
    /\ editor' = [editor EXCEPT ![d] = [at |-> "write", read |-> row.secret]]
    /\ UNCHANGED <<now, dbVars, worldVars, redisVars, delivery, handled, faults>>

RotatedAt == now

WriteSecret(d) ==
    /\ editor[d].at = "write"
    /\ made < MaxSecrets
    /\ made' = made + 1
    /\ Overwrite([row EXCEPT !.secret    = made + 1,
                             !.previous  = editor[d].read,
                             !.rotatedAt = RotatedAt])
    /\ retired' = IF row.secret = Null THEN retired
                  ELSE [retired EXCEPT ![row.secret] = now]
    /\ editor' = [editor EXCEPT ![d] = [at |-> "invalidate", handOut |-> made + 1]]
    /\ UNCHANGED <<now, worldVars, redisVars, delivery, handled, faults>>

\* The merchant takes the address its requests come from off its list, or
\* puts it back.
UpdateAllowedIps(d) ==
    /\ editor[d] = Idle
    /\ Overwrite([row EXCEPT !.allowed = ~@])
    /\ editor' = [editor EXCEPT ![d] = [at |-> "invalidate", handOut |-> held]]
    /\ UNCHANGED <<now, retired, made, worldVars, redisVars, delivery, handled, faults>>

\* deleteMerchantSignature, whose failure is only logged; then the answer.
Invalidate(d) ==
    /\ editor[d].at = "invalidate"
    /\ \/ cache' = Null /\ UNCHANGED faults
       \/ Fault /\ UNCHANGED cache
    /\ held' = editor[d].handOut
    /\ editor' = [editor EXCEPT ![d] = Idle]
    /\ UNCHANGED <<now, dbVars, message, nonce, hits, delivery, handled>>

\* The process dies: a transaction that is open rolls back.
EditorDies(d) ==
    /\ editor[d] # Idle
    /\ Fault
    /\ editor' = [editor EXCEPT ![d] = Idle]
    /\ UNCHANGED <<now, dbVars, worldVars, redisVars, delivery, handled>>

\* clearExpiredPreviousSecrets.
ClearExpired ==
    /\ row.previous # Null
    /\ row.rotatedAt < now - Grace
    /\ row' = [row EXCEPT !.previous = Null]
    /\ UNCHANGED <<now, overwritten, retired, made, worldVars, redisVars, editor,
                   delivery, handled, faults>>

-----------------------------------------------------------------------------
(* The verification.                                                       *)

Goes(w, next) == delivery' = [delivery EXCEPT ![w] = next]

Ends(w) == Goes(w, Idle)

\* The guard looks at the clock before it calls apps/auth.
WithinTolerance(stamp) == stamp - Tolerance <= now /\ now <= stamp + Tolerance

Deliver(w, m) ==
    /\ delivery[w] = Idle
    /\ message[m] # Null
    /\ WithinTolerance(message[m].stamp)
    /\ Goes(w, [at |-> "lookup", message |-> m, since |-> now, heard |-> TRUE])
    /\ UNCHANGED <<now, dbVars, worldVars, redisVars, editor, handled, faults>>

Moves(w, at) == [delivery[w] EXCEPT !.at = at]

\* Mutant: the previous secret is tried whenever there is one.
NoGrace(r) == r.previous # Null

InGrace(r) == r.previous # Null /\ now - r.rotatedAt <= Grace

MatchSecretKey(r, secret) ==
    \/ r.secret = secret
    \/ InGrace(r) /\ r.previous = secret

\* The signature, then the address.
Passes(m, r) ==
    /\ r.secret # Null
    /\ MatchSecretKey(r, message[m].secret)
    /\ r.allowed

\* What is left of the row is which one it was.
Judge(w, r) ==
    IF Passes(delivery[w].message, r)
    THEN Goes(w, [at |-> "spend", message |-> delivery[w].message,
                  since |-> delivery[w].since, heard |-> delivery[w].heard,
                  version |-> r.version])
    ELSE Ends(w)

IsHit(r) == r # Null

\* getMerchantSignature: a read that fails is a miss.
Lookup(w) ==
    /\ delivery[w].at = "lookup"
    /\ \/ /\ IsHit(cache)
          /\ Judge(w, cache.row)
          /\ UNCHANGED faults
       \/ /\ ~IsHit(cache)
          /\ Goes(w, Moves(w, "query"))
          /\ UNCHANGED faults
       \/ /\ IsHit(cache)
          /\ Goes(w, Moves(w, "query"))
          /\ Fault
    /\ UNCHANGED <<now, dbVars, worldVars, redisVars, editor, handled>>

\* findUnique, on the master.
Query(w) ==
    /\ delivery[w].at = "query"
    /\ Goes(w, [at |-> "fill", message |-> delivery[w].message,
                since |-> delivery[w].since, heard |-> delivery[w].heard,
                row |-> row])
    /\ UNCHANGED <<now, dbVars, worldVars, redisVars, editor, handled, faults>>

\* Mutant: the entry is set without a time to live.
Forever == Horizon + 1

\* Only a miss writes the entry, so reading it does not lengthen its life.
Expiry == now + CacheTTL

\* setMerchantSignature, whose failure is only logged.
Fill(w) ==
    /\ delivery[w].at = "fill"
    /\ Judge(w, delivery[w].row)
    /\ \/ /\ cache' = [row |-> delivery[w].row, expires |-> Expiry]
          /\ UNCHANGED faults
       \/ Fault /\ UNCHANGED cache
    /\ UNCHANGED <<now, dbVars, worldVars, nonce, hits, editor, handled>>

\* consumeRateLimit: one script.  Hits beyond the limit are counted as one.
ConsumeRateLimit(w) ==
    /\ delivery[w].at = "spend"
    /\ hits' = Min({hits + 1, Limit + 1})
    /\ IF hits < Limit THEN Goes(w, Moves(w, "claim")) ELSE Ends(w)
    /\ UNCHANGED <<now, dbVars, worldVars, cache, nonce, editor, handled, faults>>

\* Mutant: the nonce is remembered for one side of the accepted band.
OneSide == Tolerance

TimeToLive == NonceTTL

Seen(m) == nonce[m] # 0

\* SET NX, the last thing; a request whose caller gave up is not carried out.
ClaimNonce(w) ==
    /\ delivery[w].at = "claim"
    /\ LET m == delivery[w].message
       IN  IF Seen(m) THEN UNCHANGED <<nonce, handled>>
           ELSE /\ nonce' = [nonce EXCEPT ![m] = now + TimeToLive]
                /\ handled' = IF delivery[w].heard THEN [handled EXCEPT ![m] = @ + 1]
                              ELSE handled
    /\ Ends(w)
    /\ UNCHANGED <<now, dbVars, worldVars, cache, hits, editor, faults>>

\* The guard's call times out while apps/auth goes on: 503.
GiveUp(w) ==
    /\ delivery[w] # Idle /\ delivery[w].heard
    /\ Fault
    /\ Goes(w, [delivery[w] EXCEPT !.heard = FALSE])
    /\ UNCHANGED <<now, dbVars, worldVars, redisVars, editor, handled>>

\* Redis or the database cannot be reached, or the process dies: 503.
VerifierDies(w) ==
    /\ delivery[w] # Idle
    /\ Fault
    /\ Ends(w)
    /\ UNCHANGED <<now, dbVars, worldVars, redisVars, editor, handled>>

-----------------------------------------------------------------------------
Edit(d) ==
    \/ ReadSecret(d)
    \/ WriteSecret(d)
    \/ UpdateAllowedIps(d)
    \/ Invalidate(d)
    \/ EditorDies(d)

ValidateSignature(w) ==
    \/ Lookup(w)
    \/ Query(w)
    \/ Fill(w)
    \/ ConsumeRateLimit(w)
    \/ ClaimNonce(w)

Next ==
    \/ Tick
    \/ \E m \in Messages : Sign(m)
    \/ \E d \in Editors : Edit(d)
    \/ ClearExpired
    \/ \E w \in Deliveries, m \in Messages : Deliver(w, m)
    \/ \E w \in Deliveries : ValidateSignature(w) \/ GiveUp(w) \/ VerifierDies(w)

Spec == Init /\ [][Next]_vars

-----------------------------------------------------------------------------
(* Properties                                                              *)

DeliveryType ==
    {Idle}
      \cup [at : {"lookup", "query"}, message : Messages, since : Moment,
            heard : BOOLEAN]
      \cup [at : {"fill"}, message : Messages, since : Moment, heard : BOOLEAN,
            row : RowType]
      \cup [at : {"spend", "claim"}, message : Messages, since : Moment,
            heard : BOOLEAN, version : 1 .. MaxWrites]

EditorType ==
    {Idle}
      \cup [at : {"write"}, read : Secrets \cup {Null}]
      \cup [at : {"invalidate"}, handOut : Secrets \cup {Null}]

TypeOK ==
    /\ now \in Moment
    /\ row \in RowType
    /\ overwritten \in [1 .. MaxWrites -> Moment \cup {Null}]
    /\ retired \in [Secrets -> Moment \cup {Null}]
    /\ made \in 0 .. MaxSecrets
    /\ held \in Secrets \cup {Null}
    /\ cache \in {Null} \cup [row : RowType, expires : Nat]
    /\ editor \in [Editors -> EditorType]
    /\ message \in [Messages -> {Null} \cup [secret : Secrets, stamp : Int]]
    /\ delivery \in [Deliveries -> DeliveryType]
    /\ nonce \in [Messages -> Nat]
    /\ handled \in [Messages -> Nat]
    /\ hits \in 0 .. Limit + 1
    /\ faults \in 0 .. MaxFaults

\* The guard accepts the timestamp from then on.
BandOpens(m) == message[m].stamp - Tolerance

(***************************************************************************)
(* The comment on NONCE_TTL_SECONDS has a request accepted once if a nonce *)
(* is remembered for twice the tolerance.  What such a lifetime does       *)
(* ensure, the defaults included, on whichever pods the deliveries are     *)
(* verified, however the merchant's clock is off and whatever was          *)
(* forgotten in between.  As long as the band of a request's timestamp is  *)
(* open, and for NonceTTL from its opening if that is longer, the request  *)
(* has been let through at most once.  Only a verification the guard began *)
(* within the band, and that is still under way when the band has closed,  *)
(* may let it through again; not if the lifetime exceeds the band by the   *)
(* longest a verification takes; and never a third time, unless a          *)
(* verification may outlast a nonce.                                       *)
(***************************************************************************)
AcceptedOnceInBand ==
    \A m \in Messages :
        handled[m] > 1 =>
          /\ now > BandOpens(m) + NonceTTL
          /\ NonceTTL < 2 * Tolerance + MaxLatency
          /\ MaxLatency < NonceTTL => handled[m] = 2

\* An entry may be filled MaxLatency after its row was read, lives CacheTTL,
\* and the verification that reads it then may last MaxLatency.
Staleness == CacheTTL + 2 * MaxLatency

(***************************************************************************)
(* A write of the row is seen by every verification within Staleness,      *)
(* though the invalidation failed, its process died before it, or a        *)
(* verification that had read the row before the write filled the cache    *)
(* after the invalidation.                                                 *)
(***************************************************************************)
StaleIsBounded ==
    \A w \in Deliveries :
        delivery[w].at \in {"spend", "claim"} =>
          LET gone == overwritten[delivery[w].version]
          IN  gone # Null => now <= gone + Staleness

(***************************************************************************)
(* A secret that was replaced stops working: when the grace of its own     *)
(* rotation has passed and the caches have forgotten that it was current.  *)
(* (For rotations one after the other.)                                    *)
(***************************************************************************)
RetiredSecretEnds ==
    \A w \in Deliveries :
        delivery[w].at \in {"spend", "claim"} =>
          LET since == retired[message[delivery[w].message].secret]
          IN  since # Null => now <= since + Max({Grace + MaxLatency, Staleness})

\* The secret that was current last before the one that is.
Prior ==
    LET gone == {s \in Secrets : retired[s] # Null}
    IN  IF gone = {} THEN Null
        ELSE CHOOSE s \in gone : \A o \in gone : retired[o] <= retired[s] /\ o <= s

(***************************************************************************)
(* The comment on generateSharedSecretKey: the outgoing secret moves to    *)
(* secretKeyPrevious, and the transaction keeps two concurrent rotations   *)
(* from losing the older one.  While the grace window is open the previous *)
(* secret is the one that was current before.                              *)
(***************************************************************************)
OutgoingIsKept == InGrace(row) => row.previous = Prior

=============================================================================

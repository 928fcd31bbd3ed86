---------------------- MODULE MerchantSignatureProofs ----------------------
(***************************************************************************)
(* Theorems about MerchantSignature, for any dashboard requests,           *)
(* deliveries and messages, any latency, tolerance, grace and lifetimes,   *)
(* and any number of faults.                                               *)
(***************************************************************************)
EXTENDS MerchantSignature, TLAPS

-----------------------------------------------------------------------------
(* Types.                                                                  *)

Constants ==
    /\ MaxSecrets \in Nat /\ MaxFaults \in Nat /\ Horizon \in Nat
    /\ Tolerance \in Nat /\ CacheTTL \in Nat /\ Grace \in Nat /\ MaxLatency \in Nat
    /\ MaxWrites \in Nat /\ MaxWrites > 0 /\ Limit \in Nat /\ NonceTTL \in Nat
    /\ NonceTTL > 0 /\ NonceTTL >= 2 * Tolerance
    /\ Null \notin Int /\ Skews \subseteq Int

LEMMA ConstantsAreTyped == Constants
BY TimingAssumption, BoundsAssumption DEF Constants

LEMMA ClockTyped == TypeOK => now \in Nat
BY DEF TypeOK, Moment

LEMMA TimesTyped ==
    /\ Tolerance \in Nat /\ CacheTTL \in Nat /\ Grace \in Nat /\ MaxLatency \in Nat
    /\ NonceTTL \in Nat /\ NonceTTL > 0 /\ NonceTTL >= 2 * Tolerance
BY ConstantsAreTyped DEF Constants

\* What a delivery carries, whatever stage it is at.
Carries(d) ==
    /\ d.at \in {"lookup", "query", "fill", "spend", "claim"}
    /\ d.message \in Messages
    /\ d.since \in Moment
    /\ d.heard \in BOOLEAN

LEMMA DeliveryShape ==
    ASSUME NEW d \in DeliveryType
    PROVE  /\ d = Idle \/ Carries(d)
           /\ d.at = "idle" <=> d = Idle
           /\ d.at = "fill" => d.row \in RowType
           /\ d.at \in {"spend", "claim"} => d.version \in 1 .. MaxWrites
<1>1. CASE d = Idle
  BY <1>1 DEF Idle
<1>2. CASE d \in [at : {"lookup", "query"}, message : Messages, since : Moment,
                  heard : BOOLEAN]
  BY <1>2 DEF Idle, Carries
<1>3. CASE d \in [at : {"fill"}, message : Messages, since : Moment, heard : BOOLEAN,
                  row : RowType]
  BY <1>3 DEF Idle, Carries
<1>4. CASE d \in [at : {"spend", "claim"}, message : Messages, since : Moment,
                  heard : BOOLEAN, version : 1 .. MaxWrites]
  BY <1>4 DEF Idle, Carries
<1>. QED
  BY <1>1, <1>2, <1>3, <1>4 DEF DeliveryType

LEMMA MovesTyped ==
    ASSUME NEW d \in DeliveryType
    PROVE  /\ d.at = "lookup" => [d EXCEPT !.at = "query"] \in DeliveryType
           /\ d.at = "spend" => [d EXCEPT !.at = "claim"] \in DeliveryType
           /\ d # Idle => [d EXCEPT !.heard = FALSE] \in DeliveryType
<1>1. CASE d = Idle
  BY <1>1 DEF Idle
<1>2. CASE d \in [at : {"lookup", "query"}, message : Messages, since : Moment,
                  heard : BOOLEAN]
  BY <1>2 DEF DeliveryType
<1>3. CASE d \in [at : {"fill"}, message : Messages, since : Moment, heard : BOOLEAN,
                  row : RowType]
  BY <1>3 DEF DeliveryType
<1>4. CASE d \in [at : {"spend", "claim"}, message : Messages, since : Moment,
                  heard : BOOLEAN, version : 1 .. MaxWrites]
  BY <1>4 DEF DeliveryType
<1>. QED
  BY <1>1, <1>2, <1>3, <1>4 DEF DeliveryType

LEMMA JudgeTyped ==
    ASSUME delivery \in [Deliveries -> DeliveryType], NEW w \in Deliveries,
           NEW r \in RowType, delivery[w] # Idle, Judge(w, r)
    PROVE  delivery' \in [Deliveries -> DeliveryType]
<1>1. Carries(delivery[w])
  BY DeliveryShape
<1>. DEFINE spend == [at |-> "spend", message |-> delivery[w].message,
                      since |-> delivery[w].since, heard |-> delivery[w].heard,
                      version |-> r.version]
<1>2. spend \in DeliveryType
  BY <1>1 DEF Carries, DeliveryType, RowType
<1>3. Idle \in DeliveryType
  BY DEF DeliveryType
<1>4. delivery' = [delivery EXCEPT ![w] = spend] \/ delivery' = [delivery EXCEPT ![w] = Idle]
  BY DEF Judge, Goes, Ends
<1>. HIDE DEF spend
<1>. QED
  BY <1>2, <1>3, <1>4

LEMMA RowCleared ==
    ASSUME NEW r \in RowType
    PROVE  [r EXCEPT !.previous = Null] \in RowType
BY DEF RowType

LEMMA OverwriteTyped ==
    ASSUME TypeOK, NEW new \in RowType, Overwrite(new)
    PROVE  row' \in RowType /\ overwritten' \in [1 .. MaxWrites -> Moment \cup {Null}]
<1>1. row.version \in 1 .. MaxWrites /\ row.version + 1 \in 1 .. MaxWrites
  <2>1. row.version \in 1 .. MaxWrites /\ MaxWrites \in Nat
    BY ConstantsAreTyped DEF Constants, TypeOK, RowType
  <2>2. row.version < MaxWrites
    BY DEF Overwrite
  <2>. QED
    BY <2>1, <2>2
<1>. QED
  BY <1>1 DEF Overwrite, TypeOK, RowType

LEMMA EditorShape ==
    ASSUME NEW e \in EditorType
    PROVE  /\ e.at = "idle" <=> e = Idle
           /\ e.at = "write" => e.read \in Secrets \cup {Null}
           /\ e.at = "invalidate" => e.handOut \in Secrets \cup {Null}
           /\ e.at \in {"idle", "write", "invalidate"}
<1>1. CASE e = Idle
  BY <1>1 DEF Idle
<1>2. CASE e \in [at : {"write"}, read : Secrets \cup {Null}]
  BY <1>2 DEF Idle
<1>3. CASE e \in [at : {"invalidate"}, handOut : Secrets \cup {Null}]
  BY <1>3 DEF Idle
<1>. QED
  BY <1>1, <1>2, <1>3 DEF EditorType

LEMMA EditorTyped ==
    ASSUME NEW s \in Secrets \cup {Null}
    PROVE  /\ Idle \in EditorType
           /\ [at |-> "write", read |-> s] \in EditorType
           /\ [at |-> "invalidate", handOut |-> s] \in EditorType
BY DEF EditorType

LEMMA SmallerOfTwo ==
    ASSUME NEW i \in Int, NEW j \in Int
    PROVE  Min({i, j}) = IF i <= j THEN i ELSE j
<1>1. \E x \in {i, j} : \A y \in {i, j} : x <= y
  OBVIOUS
<1>2. Min({i, j}) \in {i, j} /\ \A y \in {i, j} : Min({i, j}) <= y
  BY <1>1 DEF Min
<1>. QED
  BY <1>2

LEMMA InitTyped == Init => TypeOK
<1>. SUFFICES ASSUME Init PROVE TypeOK
  OBVIOUS
<1>1. row \in RowType /\ now \in Moment
  BY ConstantsAreTyped DEF Constants, Init, RowType, Moment
<1>2. Idle \in EditorType /\ Idle \in DeliveryType
  BY DEF EditorType, DeliveryType
<1>. QED
  BY <1>1, <1>2, ConstantsAreTyped DEF Constants, Init, TypeOK, Moment

LEMMA WorldTyped ==
    ASSUME TypeOK, Tick \/ \E m \in Messages : Sign(m)
    PROVE  TypeOK'
<1>1. CASE Tick
  <2>1. now' \in Moment
    BY <1>1, ConstantsAreTyped DEF Constants, Tick, TypeOK, Moment
  <2>2. cache' \in {Null} \cup [row : RowType, expires : Nat]
    BY <1>1 DEF Tick, TypeOK
  <2>3. nonce' \in [Messages -> Nat]
    BY <1>1 DEF Tick, TypeOK
  <2>4. hits' \in 0 .. Limit + 1
    BY <1>1, ConstantsAreTyped DEF Constants, Tick, TypeOK
  <2>. QED
    BY <1>1, <2>1, <2>2, <2>3, <2>4 DEF Tick, TypeOK, dbVars, worldVars
<1>2. ASSUME NEW m \in Messages, Sign(m)
      PROVE  TypeOK'
  <2>1. message' \in [Messages -> {Null} \cup [secret : Secrets, stamp : Int]]
    <3>1. PICK error \in Skews :
              message' = [message EXCEPT ![m] = [secret |-> held, stamp |-> now + error]]
      BY <1>2 DEF Sign
    <3>2. now + error \in Int /\ held \in Secrets
      BY <1>2, ConstantsAreTyped DEF Constants, Sign, TypeOK, Moment
    <3>. QED
      BY <3>1, <3>2 DEF TypeOK
  <2>. QED
    BY <1>2, <2>1 DEF Sign, TypeOK, dbVars, redisVars
<1>. QED
  BY <1>1, <1>2

LEMMA FaultTyped ==
    ASSUME TypeOK, Fault \/ UNCHANGED faults
    PROVE  faults' \in 0 .. MaxFaults
BY ConstantsAreTyped DEF Constants, Fault, TypeOK

LEMMA DashboardTyped ==
    ASSUME TypeOK, ClearExpired \/ \E d \in Editors : Edit(d)
    PROVE  TypeOK'
<1>1. CASE ClearExpired
  BY <1>1, RowCleared DEF ClearExpired, TypeOK, worldVars, redisVars
<1>2. ASSUME NEW d \in Editors, ReadSecret(d)
      PROVE  TypeOK'
  <2>1. [at |-> "write", read |-> row.secret] \in EditorType
    BY EditorTyped DEF TypeOK, RowType
  <2>. QED
    BY <1>2, <2>1 DEF ReadSecret, TypeOK, dbVars, worldVars, redisVars
<1>3. ASSUME NEW d \in Editors, WriteSecret(d)
      PROVE  TypeOK'
  <2>1. made + 1 \in Secrets /\ made' \in 0 .. MaxSecrets /\ made' = made + 1
    <3>1. made \in 0 .. MaxSecrets /\ MaxSecrets \in Nat
      BY ConstantsAreTyped DEF Constants, TypeOK
    <3>2. made < MaxSecrets /\ made' = made + 1
      BY <1>3 DEF WriteSecret
    <3>. QED
      BY <3>1, <3>2 DEF Secrets
  <2>2. [row EXCEPT !.secret = made + 1, !.previous = editor[d].read,
                    !.rotatedAt = RotatedAt] \in RowType
    BY <1>3, <2>1, EditorShape DEF WriteSecret, TypeOK, RowType, RotatedAt
  <2>3. row' \in RowType /\ overwritten' \in [1 .. MaxWrites -> Moment \cup {Null}]
    BY <1>3, <2>2, OverwriteTyped DEF WriteSecret
  <2>4. retired' \in [Secrets -> Moment \cup {Null}]
    BY <1>3 DEF WriteSecret, TypeOK
  <2>5. editor' \in [Editors -> EditorType]
    BY <1>3, <2>1, EditorTyped DEF WriteSecret, TypeOK
  <2>. QED
    BY <1>3, <2>1, <2>3, <2>4, <2>5 DEF WriteSecret, TypeOK, worldVars, redisVars
<1>4. ASSUME NEW d \in Editors, UpdateAllowedIps(d)
      PROVE  TypeOK'
  <2>1. [row EXCEPT !.allowed = ~@] \in RowType
    BY DEF TypeOK, RowType
  <2>2. row' \in RowType /\ overwritten' \in [1 .. MaxWrites -> Moment \cup {Null}]
    BY <1>4, <2>1, OverwriteTyped DEF UpdateAllowedIps
  <2>3. editor' \in [Editors -> EditorType]
    BY <1>4, EditorTyped DEF UpdateAllowedIps, TypeOK
  <2>. QED
    BY <1>4, <2>2, <2>3 DEF UpdateAllowedIps, TypeOK, worldVars, redisVars
<1>5. ASSUME NEW d \in Editors, Invalidate(d)
      PROVE  TypeOK'
  <2>1. faults' \in 0 .. MaxFaults
    BY <1>5, FaultTyped DEF Invalidate
  <2>2. held' \in Secrets \cup {Null}
    BY <1>5, EditorShape DEF Invalidate, TypeOK
  <2>3. cache' \in {Null} \cup [row : RowType, expires : Nat]
    BY <1>5 DEF Invalidate, TypeOK
  <2>4. editor' \in [Editors -> EditorType]
    BY <1>5, EditorTyped DEF Invalidate, TypeOK
  <2>. QED
    BY <1>5, <2>1, <2>2, <2>3, <2>4 DEF Invalidate, TypeOK, dbVars
<1>6. ASSUME NEW d \in Editors, EditorDies(d)
      PROVE  TypeOK'
  <2>1. faults' \in 0 .. MaxFaults
    BY <1>6, FaultTyped DEF EditorDies
  <2>2. editor' \in [Editors -> EditorType]
    BY <1>6, EditorTyped DEF EditorDies, TypeOK
  <2>. QED
    BY <1>6, <2>1, <2>2 DEF EditorDies, TypeOK, dbVars, worldVars, redisVars
<1>. QED
  BY <1>1, <1>2, <1>3, <1>4, <1>5, <1>6 DEF Edit

LEMMA VerificationTyped ==
    ASSUME TypeOK, NEW w \in Deliveries,
           \/ \E m \in Messages : Deliver(w, m)
           \/ ValidateSignature(w) \/ GiveUp(w) \/ VerifierDies(w)
    PROVE  TypeOK'
<1>. USE DEF Goes
<1>0. delivery[w] \in DeliveryType /\ Idle \in DeliveryType
  BY DEF TypeOK, DeliveryType
<1>1. ASSUME NEW m \in Messages, Deliver(w, m)
      PROVE  TypeOK'
  <2>1. [at |-> "lookup", message |-> m, since |-> now, heard |-> TRUE] \in DeliveryType
    BY DEF TypeOK, DeliveryType
  <2>. QED
    BY <1>1, <2>1 DEF Deliver, TypeOK, dbVars, worldVars, redisVars
<1>2. CASE Lookup(w)
  <2>1. delivery' \in [Deliveries -> DeliveryType]
    <3>1. CASE IsHit(cache) /\ Judge(w, cache.row)
      <4>1. cache.row \in RowType /\ delivery[w] # Idle
        BY <1>2, <3>1, <1>0, DeliveryShape DEF Lookup, TypeOK, IsHit
      <4>. QED
        BY <3>1, <4>1, JudgeTyped DEF TypeOK
    <3>2. CASE Goes(w, Moves(w, "query"))
      BY <1>2, <3>2, <1>0, MovesTyped DEF Lookup, Moves, TypeOK
    <3>. QED
      BY <1>2, <3>1, <3>2 DEF Lookup
  <2>2. faults' \in 0 .. MaxFaults
    BY <1>2, FaultTyped DEF Lookup
  <2>. QED
    BY <1>2, <2>1, <2>2 DEF Lookup, TypeOK, dbVars, worldVars, redisVars
<1>3. CASE Query(w)
  <2>1. Carries(delivery[w])
    BY <1>3, <1>0, DeliveryShape DEF Query, Idle
  <2>2. [at |-> "fill", message |-> delivery[w].message, since |-> delivery[w].since,
         heard |-> delivery[w].heard, row |-> row] \in DeliveryType
    BY <2>1 DEF Carries, TypeOK, DeliveryType
  <2>. QED
    BY <1>3, <2>2 DEF Query, TypeOK, dbVars, worldVars, redisVars
<1>4. CASE Fill(w)
  <2>1. delivery[w].row \in RowType /\ delivery[w] # Idle
    BY <1>4, <1>0, DeliveryShape DEF Fill
  <2>2. delivery' \in [Deliveries -> DeliveryType]
    BY <1>4, <2>1, JudgeTyped DEF Fill, TypeOK
  <2>3. Expiry \in Nat
    BY ClockTyped, TimesTyped DEF Expiry
  <2>4. cache' \in {Null} \cup [row : RowType, expires : Nat]
    BY <1>4, <2>1, <2>3 DEF Fill, TypeOK
  <2>5. faults' \in 0 .. MaxFaults
    BY <1>4, FaultTyped DEF Fill
  <2>. QED
    BY <1>4, <2>2, <2>4, <2>5 DEF Fill, TypeOK, dbVars, worldVars
<1>5. CASE ConsumeRateLimit(w)
  <2>1. hits' \in 0 .. Limit + 1
    <3>1. hits \in 0 .. Limit + 1
      BY DEF TypeOK
    <3>2. Limit \in Nat
      BY TimingAssumption
    <3>3. Min({hits + 1, Limit + 1}) \in 0 .. Limit + 1
      BY <3>1, <3>2, SmallerOfTwo
    <3>. QED
      BY <1>5, <3>3 DEF ConsumeRateLimit
  <2>2. delivery' \in [Deliveries -> DeliveryType]
    BY <1>5, <1>0, MovesTyped DEF ConsumeRateLimit, Moves, Ends, TypeOK
  <2>. QED
    BY <1>5, <2>1, <2>2 DEF ConsumeRateLimit, TypeOK, dbVars, worldVars
<1>6. CASE ClaimNonce(w)
  <2>1. now + TimeToLive \in Nat
    BY ClockTyped, TimesTyped DEF TimeToLive
  <2>2. nonce' \in [Messages -> Nat]
    BY <1>6, <2>1 DEF ClaimNonce, TypeOK
  <2>3. handled' \in [Messages -> Nat]
    BY <1>6 DEF ClaimNonce, TypeOK
  <2>4. delivery' \in [Deliveries -> DeliveryType]
    BY <1>6, <1>0 DEF ClaimNonce, Ends, TypeOK
  <2>. QED
    BY <1>6, <2>2, <2>3, <2>4 DEF ClaimNonce, TypeOK, dbVars, worldVars
<1>7. CASE GiveUp(w)
  <2>1. delivery' \in [Deliveries -> DeliveryType]
    BY <1>7, <1>0, MovesTyped DEF GiveUp, TypeOK
  <2>. QED
    BY <1>7, <2>1, FaultTyped DEF GiveUp, TypeOK, dbVars, worldVars, redisVars
<1>8. CASE VerifierDies(w)
  <2>1. delivery' \in [Deliveries -> DeliveryType]
    BY <1>8, <1>0 DEF VerifierDies, Ends, TypeOK
  <2>. QED
    BY <1>8, <2>1, FaultTyped DEF VerifierDies, TypeOK, dbVars, worldVars, redisVars
<1>. QED
  BY <1>1, <1>2, <1>3, <1>4, <1>5, <1>6, <1>7, <1>8 DEF ValidateSignature

LEMMA StutterTyped == TypeOK /\ UNCHANGED vars => TypeOK'
BY DEF vars, dbVars, worldVars, redisVars, TypeOK

LEMMA NextTyped == TypeOK /\ [Next]_vars => TypeOK'
BY WorldTyped, DashboardTyped, VerificationTyped, StutterTyped DEF Next

(***************************************************************************)
(* The row, its copies and what is carried from one read of Redis or the   *)
(* database to the next keep their shape: a stage never finds less than it *)
(* needs, and no request is charged beyond the limit.                      *)
(***************************************************************************)
THEOREM TypeCorrect == Spec => []TypeOK
<1>. QED
  BY InitTyped, NextTyped, PTL DEF Spec

-----------------------------------------------------------------------------
(* What a step leaves of the verifications, the messages and the clock.    *)

\* The verification w goes on, as the one it was.
Continues(w) ==
    /\ delivery[w] # Idle /\ delivery'[w] # Idle
    /\ delivery'[w].message = delivery[w].message
    /\ delivery'[w].since = delivery[w].since

\* The verification w begins.
Begins(w) ==
    /\ delivery[w] = Idle
    /\ delivery'[w].at = "lookup"
    /\ delivery'[w].message \in Messages
    /\ delivery'[w].since = now
    /\ message[delivery'[w].message] # Null
    /\ WithinTolerance(message[delivery'[w].message].stamp)

LEMMA JudgeContinues ==
    ASSUME TypeOK, NEW w \in Deliveries, delivery[w] # Idle, NEW r \in RowType, Judge(w, r)
    PROVE  /\ delivery'[w] = Idle \/ Continues(w)
           /\ \A u \in Deliveries \ {w} : delivery'[u] = delivery[u]
BY DEF TypeOK, Judge, Goes, Ends, Continues, Idle

LEMMA CacheRowTyped == TypeOK /\ IsHit(cache) => cache.row \in RowType /\ cache.expires \in Nat
BY DEF TypeOK, IsHit

LEMMA StageContinues ==
    ASSUME TypeOK, NEW w \in Deliveries,
           ValidateSignature(w) \/ GiveUp(w) \/ VerifierDies(w)
    PROVE  /\ delivery'[w] = Idle \/ Continues(w)
           /\ \A u \in Deliveries \ {w} : delivery'[u] = delivery[u]
<1>1. delivery[w] \in DeliveryType /\ delivery \in [Deliveries -> DeliveryType]
  BY DEF TypeOK
<1>2. delivery[w] # Idle
  BY <1>1, DeliveryShape DEF ValidateSignature, Lookup, Query, Fill, ConsumeRateLimit,
       ClaimNonce, GiveUp, VerifierDies, Idle
<1>3. Carries(delivery[w])
  BY <1>1, <1>2, DeliveryShape
<1>4. CASE Lookup(w)
  <2>1. CASE IsHit(cache) /\ Judge(w, cache.row)
    BY <1>2, <2>1, CacheRowTyped, JudgeContinues
  <2>2. CASE Goes(w, Moves(w, "query"))
    BY <1>1, <1>2, <1>3, <2>2, MovesTyped DEF Goes, Moves, Continues, Carries, Idle
  <2>. QED
    BY <1>4, <2>1, <2>2 DEF Lookup
<1>5. CASE Query(w)
  BY <1>1, <1>2, <1>3, <1>5 DEF Query, Goes, Continues, Carries, Idle
<1>6. CASE Fill(w)
  <2>1. delivery[w].row \in RowType
    BY <1>1, <1>6, DeliveryShape DEF Fill
  <2>. QED
    BY <1>2, <1>6, <2>1, JudgeContinues DEF Fill
<1>7. CASE ConsumeRateLimit(w)
  <2>1. CASE Goes(w, Moves(w, "claim"))
    BY <1>1, <1>2, <1>3, <2>1 DEF Goes, Moves, Continues, Carries, Idle
  <2>2. CASE Ends(w)
    BY <1>1, <2>2 DEF Ends, Goes
  <2>. QED
    BY <1>7, <2>1, <2>2 DEF ConsumeRateLimit
<1>8. CASE ClaimNonce(w) \/ VerifierDies(w)
  BY <1>1, <1>8 DEF ClaimNonce, VerifierDies, Ends, Goes
<1>9. CASE GiveUp(w)
  BY <1>1, <1>2, <1>3, <1>9 DEF GiveUp, Goes, Continues, Carries, Idle
<1>. QED
  BY <1>4, <1>5, <1>6, <1>7, <1>8, <1>9 DEF ValidateSignature

LEMMA DeliverBegins ==
    ASSUME TypeOK, NEW w \in Deliveries, NEW m \in Messages, Deliver(w, m)
    PROVE  /\ Begins(w)
           /\ \A u \in Deliveries \ {w} : delivery'[u] = delivery[u]
BY DEF TypeOK, Deliver, Begins, Goes

LEMMA DeliveriesKept ==
    ASSUME Tick \/ (\E m \in Messages : Sign(m)) \/ (\E d \in Editors : Edit(d))
             \/ ClearExpired \/ UNCHANGED vars
    PROVE  UNCHANGED <<delivery, handled>>
BY DEF Tick, Sign, Edit, ReadSecret, WriteSecret, UpdateAllowedIps, Invalidate,
       EditorDies, ClearExpired, vars

LEMMA DeliverySteps ==
    ASSUME TypeOK, [Next]_vars, NEW w \in Deliveries
    PROVE  delivery'[w] = Idle \/ Continues(w) \/ Begins(w)
<1>1. CASE UNCHANGED delivery
  BY <1>1 DEF Continues
<1>2. ASSUME NEW u \in Deliveries, NEW m \in Messages, Deliver(u, m)
      PROVE  delivery'[w] = Idle \/ Continues(w) \/ Begins(w)
  BY <1>2, DeliverBegins DEF Continues
<1>3. ASSUME NEW u \in Deliveries, ValidateSignature(u) \/ GiveUp(u) \/ VerifierDies(u)
      PROVE  delivery'[w] = Idle \/ Continues(w) \/ Begins(w)
  BY <1>3, StageContinues DEF Continues
<1>. QED
  BY <1>1, <1>2, <1>3, DeliveriesKept DEF Next

LEMMA MessagesKept ==
    ASSUME TypeOK, [Next]_vars, NEW m \in Messages, message[m] # Null
    PROVE  message'[m] = message[m]
<1>1. CASE UNCHANGED message
  BY <1>1
<1>2. ASSUME NEW n \in Messages, Sign(n)
      PROVE  message'[m] = message[m]
  BY <1>2 DEF Sign, TypeOK
<1>3. CASE UNCHANGED vars
  BY <1>3 DEF vars, worldVars
<1>. QED
  BY <1>1, <1>2, <1>3 DEF Next, Tick, Edit, ReadSecret, WriteSecret, UpdateAllowedIps,
       Invalidate, EditorDies, ClearExpired, Deliver, ValidateSignature, Lookup, Query,
       Fill, ConsumeRateLimit, ClaimNonce, GiveUp, VerifierDies, worldVars

LEMMA ClockSteps ==
    ASSUME [Next]_vars
    PROVE  Tick \/ now' = now
BY DEF Next, Sign, Edit, ReadSecret, WriteSecret, UpdateAllowedIps, Invalidate,
       EditorDies, ClearExpired, Deliver, ValidateSignature, Lookup, Query, Fill,
       ConsumeRateLimit, ClaimNonce, GiveUp, VerifierDies, vars

LEMMA MessageShape ==
    ASSUME TypeOK, NEW m \in Messages, message[m] # Null
    PROVE  message[m].stamp \in Int /\ message[m].secret \in Secrets
BY DEF TypeOK

-----------------------------------------------------------------------------
(* A request is let through once.                                          *)

(***************************************************************************)
(* A verification began when its message was within tolerance of the       *)
(* clock, and has not taken longer than the longest one does.              *)
(***************************************************************************)
IsTimely(d) ==
    d # Idle =>
      /\ message[d.message] # Null
      /\ d.since <= now /\ now <= d.since + MaxLatency
      /\ message[d.message].stamp - Tolerance <= d.since
      /\ d.since <= message[d.message].stamp + Tolerance

DeliveriesTimely == \A w \in Deliveries : IsTimely(delivery[w])

(***************************************************************************)
(* The nonce of a request that was let through is in Redis, or NonceTTL    *)
(* has passed since the band of its timestamp opened: a lifetime for each  *)
(* time it was let through.  The second time was after the first of them,  *)
(* by a verification that had begun within the band.                       *)
(***************************************************************************)
RemembersUntil(m, moment) ==
    IF Seen(m) THEN nonce[m] >= moment ELSE now > moment

IsRemembered(m) ==
    handled[m] # 0 =>
      /\ message[m] # Null
      /\ RemembersUntil(m, BandOpens(m) + NonceTTL)
      /\ handled[m] > 1 =>
           /\ now > BandOpens(m) + NonceTTL
           /\ NonceTTL < 2 * Tolerance + MaxLatency
           /\ RemembersUntil(m, BandOpens(m) + 2 * NonceTTL)
           /\ MaxLatency < NonceTTL => handled[m] = 2

NonceRemembers == \A m \in Messages : IsRemembered(m)

LEMMA TimelyKept == TypeOK /\ DeliveriesTimely /\ [Next]_vars => DeliveriesTimely'
<1>. SUFFICES ASSUME TypeOK, DeliveriesTimely, [Next]_vars, NEW w \in Deliveries,
                     delivery'[w] # Idle
              PROVE  IsTimely(delivery[w])'
  BY DEF DeliveriesTimely, IsTimely
<1>. DEFINE d == delivery'[w]
<1>0. now \in Nat /\ Tolerance \in Nat /\ MaxLatency \in Nat
  BY ClockTyped, TimesTyped
<1>1. CASE Continues(w)
  <2>1. delivery[w] # Idle /\ d.message = delivery[w].message /\ d.since = delivery[w].since
    BY <1>1 DEF Continues
  <2>2. d.message \in Messages /\ d.since \in Nat
    BY <2>1, DeliveryShape DEF TypeOK, Carries, Moment
  <2>3. message[d.message] # Null /\ message'[d.message] = message[d.message]
    BY <2>1, <2>2, MessagesKept DEF DeliveriesTimely, IsTimely
  <2>4. /\ d.since <= now /\ now <= d.since + MaxLatency
        /\ message[d.message].stamp - Tolerance <= d.since
        /\ d.since <= message[d.message].stamp + Tolerance
    BY <2>1 DEF DeliveriesTimely, IsTimely
  <2>5. now' \in Nat /\ now <= now' /\ now' <= d.since + MaxLatency
    <3>1. CASE Tick
      <4>1. now' = now + 1 /\ now < delivery[w].since + MaxLatency
        BY <2>1, <3>1 DEF Tick
      <4>. QED
        BY <4>1, <2>1, <2>2, <1>0
    <3>2. CASE now' = now
      BY <3>2, <1>0, <2>4
    <3>. QED
      BY <3>1, <3>2, ClockSteps
  <2>. QED
    BY <2>2, <2>3, <2>4, <2>5, <1>0 DEF IsTimely
<1>2. CASE Begins(w)
  <2>1. /\ d.message \in Messages /\ d.since = now
        /\ message[d.message] # Null /\ WithinTolerance(message[d.message].stamp)
    BY <1>2 DEF Begins
  <2>2. message'[d.message] = message[d.message] /\ message[d.message].stamp \in Int
    BY <2>1, MessagesKept, MessageShape
  <2>3. now' = now
    <3>1. ~Tick
      BY <1>2 DEF Tick, Begins, Idle
    <3>. QED
      BY <3>1, ClockSteps
  <2>. QED
    BY <2>1, <2>2, <2>3, <1>0 DEF IsTimely, WithinTolerance
<1>. QED
  BY <1>1, <1>2, DeliverySteps

LEMMA NoncesKept ==
    ASSUME TypeOK, [Next]_vars
    PROVE  \/ Tick
           \/ \E w \in Deliveries : ClaimNonce(w)
           \/ UNCHANGED <<nonce, handled, now>>
BY DEF Next, Sign, Edit, ReadSecret, WriteSecret, UpdateAllowedIps, Invalidate,
       EditorDies, ClearExpired, Deliver, ValidateSignature, Lookup, Query, Fill,
       ConsumeRateLimit, GiveUp, VerifierDies, vars, redisVars

\* As the clock moves on, the nonce is there or its time has passed.
LEMMA TickRemembers ==
    ASSUME TypeOK, Tick, NEW m \in Messages, message'[m] = message[m], NEW moment \in Int,
           RemembersUntil(m, moment)
    PROVE  IF Seen(m)' THEN nonce'[m] >= moment ELSE now' > moment
<1>1. /\ now' = now + 1 /\ now \in Nat /\ nonce[m] \in Nat
      /\ nonce'[m] = IF nonce[m] < now' THEN 0 ELSE nonce[m]
  BY ClockTyped DEF Tick, TypeOK
<1>2. IF nonce[m] # 0 THEN nonce[m] >= moment ELSE now > moment
  BY DEF RemembersUntil, Seen
<1>. QED
  BY <1>1, <1>2 DEF Seen

LEMMA RememberedKept ==
    TypeOK /\ DeliveriesTimely /\ NonceRemembers /\ [Next]_vars => NonceRemembers'
<1>. SUFFICES ASSUME TypeOK, DeliveriesTimely, NonceRemembers, [Next]_vars,
                     NEW m \in Messages, handled'[m] # 0
              PROVE  IsRemembered(m)'
  BY DEF NonceRemembers, IsRemembered
<1>. DEFINE opens == message[m].stamp - Tolerance
<1>0. /\ now \in Nat /\ Tolerance \in Nat /\ MaxLatency \in Nat /\ NonceTTL \in Nat
      /\ NonceTTL > 0 /\ NonceTTL >= 2 * Tolerance
      /\ nonce[m] \in Nat /\ handled[m] \in Nat
  BY ClockTyped, TimesTyped DEF TypeOK
<1>1. ASSUME handled[m] # 0
      PROVE  /\ message[m] # Null /\ message'[m] = message[m]
             /\ message[m].stamp \in Int /\ opens \in Int
             /\ RemembersUntil(m, opens + NonceTTL)
             /\ handled[m] > 1 =>
                  /\ now > opens + NonceTTL
                  /\ NonceTTL < 2 * Tolerance + MaxLatency
                  /\ RemembersUntil(m, opens + 2 * NonceTTL)
                  /\ MaxLatency < NonceTTL => handled[m] = 2
  <2>1. message[m] # Null /\ message'[m] = message[m] /\ message[m].stamp \in Int
    BY <1>1, MessagesKept, MessageShape DEF NonceRemembers, IsRemembered
  <2>2. opens \in Int
    BY <1>0, <2>1
  <2>. QED
    BY <1>1, <2>1, <2>2 DEF NonceRemembers, IsRemembered, BandOpens
<1>2. CASE UNCHANGED <<nonce, handled, now>>
  BY <1>1, <1>2 DEF IsRemembered, RemembersUntil, BandOpens, Seen
<1>3. CASE Tick
  <2>1. handled' = handled /\ now' = now + 1 /\ handled[m] # 0
    BY <1>3 DEF Tick
  <2>2. opens + NonceTTL \in Int /\ opens + 2 * NonceTTL \in Int
    BY <1>0, <1>1, <2>1
  <2>3. IF Seen(m)' THEN nonce'[m] >= opens + NonceTTL ELSE now' > opens + NonceTTL
    BY <1>1, <1>3, <2>1, <2>2, TickRemembers
  <2>4. ASSUME handled[m] > 1
        PROVE  /\ now' > opens + NonceTTL
               /\ IF Seen(m)' THEN nonce'[m] >= opens + 2 * NonceTTL
                  ELSE now' > opens + 2 * NonceTTL
    <3>1. now > opens + NonceTTL /\ RemembersUntil(m, opens + 2 * NonceTTL)
      BY <1>1, <2>1, <2>4
    <3>2. now' > opens + NonceTTL
      BY <1>0, <2>1, <2>2, <3>1
    <3>. QED
      BY <1>1, <1>3, <2>1, <2>2, <3>1, <3>2, TickRemembers
  <2>5. message'[m] = message[m] /\ message[m] # Null
    BY <1>1, <2>1
  <2>. QED
    BY <1>1, <2>1, <2>3, <2>4, <2>5 DEF IsRemembered, RemembersUntil, BandOpens
<1>4. ASSUME NEW w \in Deliveries, ClaimNonce(w)
      PROVE  IsRemembered(m)'
  <2>. DEFINE n == delivery[w].message
  <2>1. Carries(delivery[w]) /\ delivery[w] # Idle
    BY <1>4, DeliveryShape DEF ClaimNonce, TypeOK, Idle
  <2>2. n \in Messages /\ delivery[w].since \in Nat
    BY <2>1 DEF Carries, Moment
  <2>3. /\ message[n] # Null
        /\ delivery[w].since <= now /\ now <= delivery[w].since + MaxLatency
        /\ message[n].stamp - Tolerance <= delivery[w].since
        /\ delivery[w].since <= message[n].stamp + Tolerance
    BY <2>1 DEF DeliveriesTimely, IsTimely
  <2>4. message' = message /\ now' = now
    BY <1>4 DEF ClaimNonce, worldVars
  <2>5. CASE m = n /\ ~Seen(n)
    <3>1. message[m].stamp \in Int /\ opens \in Int
      BY <1>0, <2>2, <2>3, <2>5, MessageShape
    <3>2. opens <= now /\ now <= opens + 2 * Tolerance + MaxLatency
      BY <1>0, <2>2, <2>3, <2>5, <3>1
    <3>3. nonce'[m] = now + NonceTTL /\ handled'[m] \in {handled[m], handled[m] + 1}
      BY <1>4, <2>2, <2>5 DEF ClaimNonce, TypeOK, TimeToLive
    <3>4. nonce'[m] # 0 /\ nonce'[m] >= opens + NonceTTL
      BY <1>0, <3>1, <3>2, <3>3
    <3>5. ASSUME handled[m] # 0
          PROVE  /\ now > opens + NonceTTL
                 /\ NonceTTL < 2 * Tolerance + MaxLatency
                 /\ nonce'[m] >= opens + 2 * NonceTTL
      <4>1. now > opens + NonceTTL
        BY <1>1, <2>5, <3>5 DEF RemembersUntil
      <4>. QED
        BY <1>0, <3>1, <3>2, <3>3, <4>1
    <3>6. ASSUME handled[m] > 1
          PROVE  ~(MaxLatency < NonceTTL)
      <4>1. now > opens + 2 * NonceTTL
        BY <1>0, <1>1, <2>5, <3>6 DEF RemembersUntil
      <4>. QED
        BY <1>0, <3>1, <3>2, <4>1
    <3>7. ASSUME handled'[m] > 1
          PROVE  /\ handled[m] # 0
                 /\ MaxLatency < NonceTTL => handled'[m] = 2
      BY <1>0, <3>3, <3>6, <3>7
    <3>. QED
      BY <2>3, <2>4, <2>5, <3>4, <3>5, <3>7
         DEF IsRemembered, RemembersUntil, BandOpens, Seen
  <2>6. CASE ~(m = n /\ ~Seen(n))
    <3>1. nonce'[m] = nonce[m] /\ handled'[m] = handled[m]
      BY <1>4, <2>2, <2>6 DEF ClaimNonce, TypeOK
    <3>. QED
      BY <1>1, <2>4, <3>1 DEF IsRemembered, RemembersUntil, BandOpens, Seen
  <2>. QED
    BY <2>5, <2>6
<1>. QED
  BY <1>2, <1>3, <1>4, NoncesKept

(***************************************************************************)
(* For every configuration that the code starts with, the defaults         *)
(* included: while the band of its timestamp is open, a signed request     *)
(* has been let through at most once, whichever pods verify its            *)
(* deliveries, however slow each is and whatever Redis has forgotten.      *)
(* Only a verification under way when the band closes may let it through   *)
(* again, and not even that one if the lifetime of a nonce leaves room for *)
(* the longest a verification takes.                                       *)
(***************************************************************************)
THEOREM LetThroughOnceInBand == Spec => []AcceptedOnceInBand
<1>1. Init => DeliveriesTimely /\ NonceRemembers
  BY DEF Init, DeliveriesTimely, IsTimely, NonceRemembers, IsRemembered
<1>2. NonceRemembers /\ TypeOK => AcceptedOnceInBand
  <2>. SUFFICES ASSUME NonceRemembers, TypeOK, NEW m \in Messages, handled[m] > 1
                PROVE  /\ now > BandOpens(m) + NonceTTL
                       /\ NonceTTL < 2 * Tolerance + MaxLatency
                       /\ MaxLatency < NonceTTL => handled[m] = 2
    BY DEF AcceptedOnceInBand
  <2>1. handled[m] # 0
    BY DEF TypeOK
  <2>. QED
    BY <2>1 DEF NonceRemembers, IsRemembered
<1>. QED
  BY <1>1, <1>2, TypeCorrect, TimelyKept, RememberedKept, PTL DEF Spec

-----------------------------------------------------------------------------
(* How long an overwritten row is still seen.                              *)

(***************************************************************************)
(* The versions are counted: the row has the last one, and every earlier   *)
(* one was overwritten at a moment that has been.                          *)
(***************************************************************************)
VersionsCounted ==
    \A v \in 1 .. MaxWrites :
        IF v < row.version THEN overwritten[v] \in Moment /\ overwritten[v] <= now
        ELSE overwritten[v] = Null

\* What was read at t, or has been in Redis since, was not overwritten before.
NotBefore(v, t) ==
    v <= row.version /\ (overwritten[v] # Null => t <= overwritten[v])

\* The longest between the read of a row and the moment its entry is used.
Lag == CacheTTL + MaxLatency

EntryFresh ==
    cache # Null =>
      /\ now <= cache.expires /\ cache.expires <= now + CacheTTL
      /\ NotBefore(cache.row.version, cache.expires - Lag)

VerificationFresh(d) ==
    /\ d.at = "fill" => NotBefore(d.row.version, d.since)
    /\ d.at \in {"spend", "claim"} => NotBefore(d.version, d.since - Lag)

CopiesFresh ==
    /\ VersionsCounted
    /\ EntryFresh
    /\ \A w \in Deliveries : VerificationFresh(delivery[w])

LEMMA VersionsTyped ==
    ASSUME TypeOK
    PROVE  /\ row.version \in 1 .. MaxWrites
           /\ \A v \in 1 .. MaxWrites : overwritten[v] \in Moment \cup {Null}
           /\ \A v \in 1 .. MaxWrites : overwritten[v] # Null => overwritten[v] \in Nat
<1>1. row \in RowType /\ overwritten \in [1 .. MaxWrites -> Moment \cup {Null}]
  BY DEF TypeOK
<1>2. Moment \subseteq Nat
  BY DEF Moment
<1>. QED
  BY <1>1, <1>2 DEF RowType

\* The row is written, or it stays the version it was.
LEMMA VersionSteps ==
    ASSUME [Next]_vars
    PROVE  \/ /\ now' = now /\ delivery' = delivery
              /\ (\E new : Overwrite(new))
              /\ cache' = cache
           \/ row'.version = row.version /\ overwritten' = overwritten
<1>1. CASE ClearExpired
  BY <1>1 DEF ClearExpired
<1>2. ASSUME NEW d \in Editors, WriteSecret(d) \/ UpdateAllowedIps(d)
      PROVE  /\ now' = now /\ delivery' = delivery /\ (\E new : Overwrite(new))
             /\ cache' = cache
  BY <1>2 DEF WriteSecret, UpdateAllowedIps, redisVars
<1>3. CASE UNCHANGED dbVars
  BY <1>3 DEF dbVars
<1>. QED
  BY <1>1, <1>2, <1>3 DEF Next, Tick, Sign, Edit, ReadSecret, Invalidate, EditorDies,
       Deliver, ValidateSignature, Lookup, Query, Fill, ConsumeRateLimit, ClaimNonce,
       GiveUp, VerifierDies, vars

LEMMA OverwriteCounts ==
    ASSUME TypeOK, NEW new, Overwrite(new)
    PROVE  /\ row'.version = row.version + 1
           /\ overwritten'[row.version] = now
           /\ \A v \in 1 .. MaxWrites : v # row.version => overwritten'[v] = overwritten[v]
<1>1. row' = [new EXCEPT !.version = row.version + 1]
  BY DEF Overwrite
<1>. QED
  BY <1>1, VersionsTyped DEF TypeOK, Overwrite

LEMMA VersionsKept ==
    ASSUME TypeOK, VersionsCounted, [Next]_vars
    PROVE  VersionsCounted'
<1>. SUFFICES ASSUME NEW v \in 1 .. MaxWrites
              PROVE  IF v < row'.version THEN overwritten'[v] \in Moment /\ overwritten'[v] <= now'
                     ELSE overwritten'[v] = Null
  BY DEF VersionsCounted
<1>0. now \in Nat /\ now' \in Nat /\ now <= now' /\ now \in Moment
  <2>1. TypeOK'
    BY NextTyped
  <2>2. now \in Nat /\ now' \in Nat
    BY <2>1 DEF TypeOK, Moment
  <2>. QED
    BY <2>2, ClockSteps DEF Tick, TypeOK
<1>1. row.version \in 1 .. MaxWrites
  BY VersionsTyped
<1>2. IF v < row.version THEN overwritten[v] \in Moment /\ overwritten[v] <= now
      ELSE overwritten[v] = Null
  BY DEF VersionsCounted
<1>3. CASE row'.version = row.version /\ overwritten' = overwritten
  BY <1>0, <1>2, <1>3 DEF Moment
<1>4. ASSUME NEW new, Overwrite(new), now' = now
      PROVE  IF v < row'.version THEN overwritten'[v] \in Moment /\ overwritten'[v] <= now'
             ELSE overwritten'[v] = Null
  <2>1. CASE v = row.version
    BY <1>0, <1>1, <1>4, <2>1, OverwriteCounts
  <2>2. CASE v # row.version
    BY <1>0, <1>1, <1>2, <1>4, <2>2, OverwriteCounts
  <2>. QED
    BY <2>1, <2>2
<1>. QED
  BY <1>3, <1>4, VersionSteps

LEMMA NotBeforeKept ==
    ASSUME TypeOK, VersionsCounted, [Next]_vars,
           NEW v \in 1 .. MaxWrites, NEW t \in Int, NotBefore(v, t), t <= now
    PROVE  v <= row'.version /\ (overwritten'[v] # Null => t <= overwritten'[v])
<1>1. row.version \in 1 .. MaxWrites
  BY VersionsTyped
<1>2. CASE row'.version = row.version /\ overwritten' = overwritten
  BY <1>2 DEF NotBefore
<1>3. ASSUME NEW new, Overwrite(new)
      PROVE  v <= row'.version /\ (overwritten'[v] # Null => t <= overwritten'[v])
  <2>1. CASE v = row.version
    BY <1>1, <1>3, <2>1, OverwriteCounts
  <2>2. CASE v # row.version
    BY <1>1, <1>3, <2>2, OverwriteCounts DEF NotBefore
  <2>. QED
    BY <2>1, <2>2
<1>. QED
  BY <1>2, <1>3, VersionSteps

-----------------------------------------------------------------------------
(* Where the copies come from.                                             *)

LEMMA CacheSteps ==
    ASSUME TypeOK, [Next]_vars
    PROVE  \/ cache' = Null
           \/ cache' = cache /\ (cache # Null /\ now' # now => now' <= cache.expires)
           \/ \E w \in Deliveries :
                 Fill(w) /\ cache' = [row |-> delivery[w].row, expires |-> Expiry]
<1>1. CASE Tick
  <2>1. cache # Null => cache.expires \in Nat
    BY DEF TypeOK
  <2>2. now' \in Nat
    BY <1>1, ClockTyped DEF Tick
  <2>. QED
    BY <1>1, <2>1, <2>2 DEF Tick
<1>2. ASSUME NEW w \in Deliveries, Fill(w)
      PROVE  \/ cache' = cache /\ now' = now
             \/ cache' = [row |-> delivery[w].row, expires |-> Expiry]
  BY <1>2 DEF Fill
<1>3. CASE now' = now /\ (cache' = Null \/ cache' = cache)
  BY <1>3
<1>. QED
  BY <1>1, <1>2, <1>3 DEF Next, Sign, Edit, ReadSecret, WriteSecret, UpdateAllowedIps,
       Invalidate, EditorDies, ClearExpired, Deliver, ValidateSignature, Lookup, Query,
       ConsumeRateLimit, ClaimNonce, GiveUp, VerifierDies, vars, redisVars

\* A row that is held was held before, or has just been read.
HoldsRow(w) ==
    delivery'[w].at = "fill" =>
      \/ delivery[w].at = "fill" /\ delivery'[w].row = delivery[w].row
      \/ delivery'[w].row = row /\ row' = row /\ overwritten' = overwritten

\* What passed had passed before, or has just been judged.
JustPassed(w, r) ==
    /\ Passes(delivery[w].message, r)
    /\ delivery'[w].version = r.version
    /\ UNCHANGED <<now, dbVars, message>>

HasPassed(w) ==
    delivery'[w].at \in {"spend", "claim"} =>
      \/ delivery[w].at \in {"spend", "claim"} /\ delivery'[w].version = delivery[w].version
      \/ IsHit(cache) /\ JustPassed(w, cache.row)
      \/ delivery[w].at = "fill" /\ JustPassed(w, delivery[w].row)

LEMMA JudgePasses ==
    ASSUME TypeOK, NEW w \in Deliveries, NEW r, Judge(w, r)
    PROVE  /\ delivery'[w].at \in {"spend", "idle"}
           /\ delivery'[w].at = "spend" =>
                Passes(delivery[w].message, r) /\ delivery'[w].version = r.version
BY DEF Judge, Goes, Ends, TypeOK, Idle

LEMMA StageHolds ==
    ASSUME TypeOK, NEW w \in Deliveries,
           ValidateSignature(w) \/ GiveUp(w) \/ VerifierDies(w)
    PROVE  HoldsRow(w) /\ HasPassed(w)
<1>1. delivery[w] \in DeliveryType /\ delivery \in [Deliveries -> DeliveryType]
  BY DEF TypeOK
<1>. USE DEF HoldsRow, HasPassed
<1>2. CASE Lookup(w)
  <2>1. CASE IsHit(cache) /\ Judge(w, cache.row)
    BY <1>2, <2>1, JudgePasses DEF JustPassed, Lookup, worldVars
  <2>2. CASE Goes(w, Moves(w, "query"))
    <3>1. delivery'[w].at = "query"
      BY <1>1, <1>2, <2>2, DeliveryShape DEF Goes, Moves, Lookup, DeliveryType, Idle
    <3>. QED
      BY <3>1
  <2>. QED
    BY <1>2, <2>1, <2>2 DEF Lookup
<1>3. CASE Query(w)
  <2>1. delivery'[w].at = "fill" /\ delivery'[w].row = row
    BY <1>1, <1>3 DEF Query, Goes
  <2>. QED
    BY <1>3, <2>1 DEF Query, dbVars
<1>4. CASE Fill(w)
  BY <1>4, JudgePasses DEF JustPassed, Fill, worldVars
<1>5. CASE ConsumeRateLimit(w)
  <2>1. CASE Goes(w, Moves(w, "claim"))
    <3>1. delivery'[w].at = "claim" /\ delivery'[w].version = delivery[w].version
      BY <1>1, <1>5, <2>1 DEF Goes, Moves, ConsumeRateLimit, DeliveryType, Idle
    <3>. QED
      BY <1>5, <3>1 DEF ConsumeRateLimit
  <2>2. CASE Ends(w)
    BY <1>1, <2>2 DEF Ends, Goes, Idle
  <2>. QED
    BY <1>5, <2>1, <2>2 DEF ConsumeRateLimit
<1>6. CASE ClaimNonce(w) \/ VerifierDies(w)
  BY <1>1, <1>6 DEF ClaimNonce, VerifierDies, Ends, Goes, Idle
<1>7. CASE GiveUp(w)
  <2>1. delivery'[w] = [delivery[w] EXCEPT !.heard = FALSE]
    BY <1>1, <1>7 DEF GiveUp, Goes
  <2>2. /\ delivery'[w].at = delivery[w].at
        /\ delivery[w].at = "fill" => delivery'[w].row = delivery[w].row
        /\ delivery[w].at \in {"spend", "claim"} => delivery'[w].version = delivery[w].version
    BY <1>1, <2>1 DEF DeliveryType, Idle
  <2>. QED
    BY <2>2
<1>. QED
  BY <1>2, <1>3, <1>4, <1>5, <1>6, <1>7 DEF ValidateSignature

LEMMA CopySteps ==
    ASSUME TypeOK, [Next]_vars, NEW w \in Deliveries
    PROVE  HoldsRow(w) /\ HasPassed(w)
<1>1. CASE delivery'[w] = delivery[w]
  BY <1>1 DEF HoldsRow, HasPassed
<1>2. ASSUME NEW u \in Deliveries, NEW m \in Messages, Deliver(u, m)
      PROVE  HoldsRow(w) /\ HasPassed(w)
  BY <1>1, <1>2, DeliverBegins DEF HoldsRow, HasPassed, Begins
<1>3. ASSUME NEW u \in Deliveries, ValidateSignature(u) \/ GiveUp(u) \/ VerifierDies(u)
      PROVE  HoldsRow(w) /\ HasPassed(w)
  BY <1>1, <1>3, StageContinues, StageHolds
<1>. QED
  BY <1>1, <1>2, <1>3, DeliveriesKept DEF Next

LEMMA FreshKept ==
    TypeOK /\ DeliveriesTimely /\ CopiesFresh /\ [Next]_vars => CopiesFresh'
<1>. SUFFICES ASSUME TypeOK, DeliveriesTimely, CopiesFresh, [Next]_vars
              PROVE  CopiesFresh'
  OBVIOUS
<1>0. /\ now \in Nat /\ CacheTTL \in Nat /\ MaxLatency \in Nat
      /\ Lag \in Nat /\ Lag = CacheTTL + MaxLatency
  BY ClockTyped, TimesTyped DEF Lag
<1>1. VersionsCounted /\ TypeOK' /\ now' \in Nat
  BY NextTyped, ClockTyped DEF CopiesFresh, TypeOK, Moment
<1>2. now <= now'
  BY <1>0, <1>1, ClockSteps DEF Tick
<1>3. ASSUME NEW w \in Deliveries, delivery[w] # Idle
      PROVE  /\ delivery[w].since \in Nat /\ delivery[w].since <= now
             /\ now <= delivery[w].since + MaxLatency
             /\ delivery[w].at = "fill" => delivery[w].row.version \in 1 .. MaxWrites
             /\ delivery[w].at \in {"spend", "claim"} => delivery[w].version \in 1 .. MaxWrites
  BY <1>3, DeliveryShape DEF DeliveriesTimely, IsTimely, TypeOK, Carries, Moment, RowType
<1>4. EntryFresh'
  <2>. SUFFICES ASSUME cache' # Null
                PROVE  /\ now' <= cache'.expires /\ cache'.expires <= now' + CacheTTL
                       /\ cache'.row.version <= row'.version
                       /\ overwritten'[cache'.row.version] # Null =>
                            cache'.expires - Lag <= overwritten'[cache'.row.version]
    BY DEF EntryFresh, NotBefore, Lag
  <2>1. CASE cache' = cache /\ (cache # Null /\ now' # now => now' <= cache.expires)
    <3>1. cache # Null /\ cache.row.version \in 1 .. MaxWrites /\ cache.expires \in Nat
      BY <2>1 DEF TypeOK, RowType
    <3>2. /\ now <= cache.expires /\ cache.expires <= now + CacheTTL
          /\ NotBefore(cache.row.version, cache.expires - Lag)
      BY <3>1 DEF CopiesFresh, EntryFresh
    <3>3. cache.expires - Lag <= now /\ cache.expires - Lag \in Int
      BY <1>0, <3>1, <3>2
    <3>4. /\ cache.row.version <= row'.version
          /\ overwritten'[cache.row.version] # Null =>
               cache.expires - Lag <= overwritten'[cache.row.version]
      BY <1>1, <3>1, <3>2, <3>3, NotBeforeKept
    <3>. QED
      BY <1>0, <1>1, <1>2, <2>1, <3>1, <3>2, <3>4
  <2>2. ASSUME NEW w \in Deliveries, Fill(w),
               cache' = [row |-> delivery[w].row, expires |-> Expiry]
        PROVE  /\ now' <= cache'.expires /\ cache'.expires <= now' + CacheTTL
               /\ cache'.row.version <= row'.version
               /\ overwritten'[cache'.row.version] # Null =>
                    cache'.expires - Lag <= overwritten'[cache'.row.version]
    <3>. DEFINE v == delivery[w].row.version
    <3>1. delivery[w].at = "fill" /\ delivery[w] # Idle
      BY <2>2 DEF Fill, Idle
    <3>2. now' = now /\ row' = row /\ overwritten' = overwritten
      BY <2>2 DEF Fill, dbVars
    <3>3. cache'.expires = now + CacheTTL /\ cache'.row.version = v
      BY <2>2 DEF Expiry
    <3>4. v <= row.version /\ (overwritten[v] # Null => delivery[w].since <= overwritten[v])
      BY <3>1 DEF CopiesFresh, VerificationFresh, NotBefore
    <3>5. v \in 1 .. MaxWrites /\ delivery[w].since \in Nat /\ now <= delivery[w].since + MaxLatency
      BY <1>3, <3>1
    <3>6. overwritten[v] # Null => overwritten[v] \in Nat
      BY <3>5, VersionsTyped
    <3>7. overwritten[v] # Null => now + CacheTTL - Lag <= overwritten[v]
      BY <1>0, <3>4, <3>5, <3>6
    <3>. QED
      BY <1>0, <3>2, <3>3, <3>4, <3>7
  <2>. QED
    BY <2>1, <2>2, CacheSteps
<1>5. ASSUME NEW w \in Deliveries, delivery'[w].at = "fill"
      PROVE  /\ delivery'[w].row.version <= row'.version
             /\ overwritten'[delivery'[w].row.version] # Null =>
                  delivery'[w].since <= overwritten'[delivery'[w].row.version]
  <2>1. Continues(w)
    BY <1>5, DeliverySteps DEF Begins, Idle
  <2>2. delivery[w] # Idle /\ delivery'[w].since = delivery[w].since
    BY <2>1 DEF Continues
  <2>3. CASE delivery[w].at = "fill" /\ delivery'[w].row = delivery[w].row
    <3>1. NotBefore(delivery[w].row.version, delivery[w].since)
      BY <2>3 DEF CopiesFresh, VerificationFresh
    <3>2. /\ delivery[w].row.version \in 1 .. MaxWrites
          /\ delivery[w].since \in Int /\ delivery[w].since <= now
      BY <1>3, <2>2, <2>3
    <3>. QED
      BY <1>1, <2>2, <2>3, <3>1, <3>2, NotBeforeKept
  <2>4. CASE delivery'[w].row = row /\ row' = row /\ overwritten' = overwritten
    <3>1. row.version \in 1 .. MaxWrites
      BY VersionsTyped
    <3>2. overwritten[row.version] = Null
      BY <1>1, <3>1 DEF VersionsCounted
    <3>. QED
      BY <2>4, <3>1, <3>2
  <2>. QED
    BY <1>5, <2>3, <2>4, CopySteps DEF HoldsRow
<1>6. ASSUME NEW w \in Deliveries, delivery'[w].at \in {"spend", "claim"}
      PROVE  /\ delivery'[w].version <= row'.version
             /\ overwritten'[delivery'[w].version] # Null =>
                  delivery'[w].since - Lag <= overwritten'[delivery'[w].version]
  <2>1. Continues(w)
    BY <1>6, DeliverySteps DEF Begins, Idle
  <2>2. delivery[w] # Idle /\ delivery'[w].since = delivery[w].since
    BY <2>1 DEF Continues
  <2>3. delivery[w].since \in Nat /\ delivery[w].since <= now
    BY <1>3, <2>2
  <2>4. CASE delivery[w].at \in {"spend", "claim"}
               /\ delivery'[w].version = delivery[w].version
    <3>1. NotBefore(delivery[w].version, delivery[w].since - Lag)
      BY <2>4 DEF CopiesFresh, VerificationFresh
    <3>2. /\ delivery[w].version \in 1 .. MaxWrites
          /\ delivery[w].since - Lag \in Int /\ delivery[w].since - Lag <= now
      BY <1>0, <1>3, <2>2, <2>3, <2>4
    <3>. QED
      BY <1>1, <2>2, <2>4, <3>1, <3>2, NotBeforeKept
  <2>5. CASE IsHit(cache) /\ JustPassed(w, cache.row)
    <3>. DEFINE v == cache.row.version
    <3>1. row' = row /\ overwritten' = overwritten /\ delivery'[w].version = v
      BY <2>5 DEF JustPassed, dbVars
    <3>2. v \in 1 .. MaxWrites /\ cache.expires \in Nat
      BY <2>5, CacheRowTyped DEF RowType
    <3>3. /\ now <= cache.expires
          /\ v <= row.version /\ (overwritten[v] # Null => cache.expires - Lag <= overwritten[v])
      BY <2>5 DEF CopiesFresh, EntryFresh, IsHit, NotBefore
    <3>4. overwritten[v] # Null => overwritten[v] \in Nat
      BY <3>2, VersionsTyped
    <3>5. overwritten[v] # Null => delivery[w].since - Lag <= overwritten[v]
      BY <1>0, <2>3, <3>2, <3>3, <3>4
    <3>. QED
      BY <2>2, <3>1, <3>3, <3>5
  <2>6. CASE delivery[w].at = "fill" /\ JustPassed(w, delivery[w].row)
    <3>. DEFINE v == delivery[w].row.version
    <3>1. row' = row /\ overwritten' = overwritten /\ delivery'[w].version = v
      BY <2>6 DEF JustPassed, dbVars
    <3>2. v \in 1 .. MaxWrites
      BY <1>3, <2>2, <2>6
    <3>3. v <= row.version /\ (overwritten[v] # Null => delivery[w].since <= overwritten[v])
      BY <2>6 DEF CopiesFresh, VerificationFresh, NotBefore
    <3>4. overwritten[v] # Null => overwritten[v] \in Nat
      BY <3>2, VersionsTyped
    <3>5. overwritten[v] # Null => delivery[w].since - Lag <= overwritten[v]
      BY <1>0, <2>3, <3>3, <3>4
    <3>. QED
      BY <2>2, <3>1, <3>3, <3>5
  <2>. QED
    BY <1>6, <2>4, <2>5, <2>6, CopySteps DEF HasPassed
<1>. QED
  BY <1>1, <1>4, <1>5, <1>6, VersionsKept
     DEF CopiesFresh, VerificationFresh, NotBefore, Lag

LEMMA FreshIsBounded == TypeOK /\ DeliveriesTimely /\ CopiesFresh => StaleIsBounded
<1>. SUFFICES ASSUME TypeOK, DeliveriesTimely, CopiesFresh, NEW w \in Deliveries,
                     delivery[w].at \in {"spend", "claim"},
                     overwritten[delivery[w].version] # Null
              PROVE  now <= overwritten[delivery[w].version] + Staleness
  BY DEF StaleIsBounded
<1>. DEFINE gone == overwritten[delivery[w].version]
<1>1. delivery[w] # Idle
  BY DEF Idle
<1>2. delivery[w].since \in Nat /\ delivery[w].version \in 1 .. MaxWrites
  BY <1>1, DeliveryShape DEF TypeOK, Carries, Moment
<1>3. now <= delivery[w].since + MaxLatency
  BY <1>1 DEF DeliveriesTimely, IsTimely
<1>4. delivery[w].since - Lag <= gone
  BY DEF CopiesFresh, VerificationFresh, NotBefore
<1>5. gone \in Nat
  BY <1>2, VersionsTyped
<1>6. now \in Nat /\ CacheTTL \in Nat /\ MaxLatency \in Nat
  BY ClockTyped, TimesTyped
<1>. QED
  BY <1>2, <1>3, <1>4, <1>5, <1>6 DEF Lag, Staleness

LEMMA InitFresh == Init => DeliveriesTimely /\ CopiesFresh
<1>. SUFFICES ASSUME Init PROVE DeliveriesTimely /\ CopiesFresh
  OBVIOUS
<1>1. DeliveriesTimely
  BY DEF Init, DeliveriesTimely, IsTimely
<1>2. VersionsCounted
  BY DEF Init, VersionsCounted
<1>3. EntryFresh
  BY DEF Init, EntryFresh
<1>4. \A w \in Deliveries : VerificationFresh(delivery[w])
  BY DEF Init, VerificationFresh, Idle
<1>. QED
  BY <1>1, <1>2, <1>3, <1>4 DEF CopiesFresh

(***************************************************************************)
(* A write of the row is seen by every verification within the lifetime of *)
(* an entry and twice the latency, though its invalidation is lost or a    *)
(* slow verification puts the old row back into Redis afterwards.          *)
(***************************************************************************)
THEOREM StalenessBounded == Spec => []StaleIsBounded
<1>. QED
  BY InitFresh, TypeCorrect, TimelyKept, FreshKept, FreshIsBounded, PTL DEF Spec

-----------------------------------------------------------------------------
(* How long a retired secret still works.                                  *)

(***************************************************************************)
(* No two rotations of the secret are between their read and their write.  *)
(* The code does not see to it (the run MCMerchantSignature_rotation shows *)
(* what follows): it is a hypothesis of the theorems that need it.         *)
(***************************************************************************)
RotationsSerial ==
    \A d, e \in Editors : editor[d].at = "write" /\ editor[e].at = "write" => d = e

ReadIsCurrent ==
    \A d \in Editors : editor[d].at = "write" => editor[d].read = row.secret

(***************************************************************************)
(* Secrets are current in the order they are made, each until the next.    *)
(***************************************************************************)
SecretsCounted ==
    /\ row.secret = IF made = 0 THEN Null ELSE made
    /\ \A s \in Secrets : IF s < made THEN retired[s] \in Moment /\ retired[s] <= now
                          ELSE retired[s] = Null
    /\ \A s, t \in Secrets : s <= t /\ t < made => retired[s] <= retired[t]

(***************************************************************************)
(* A row, or a copy of one, tells when its previous secret was retired;    *)
(* it was overwritten no later than its current secret was.                *)
(***************************************************************************)
TellsTrue(r) ==
    /\ r.previous # Null => r.previous < made /\ retired[r.previous] = r.rotatedAt
    /\ r.secret # Null =>
         /\ r.secret <= made
         /\ retired[r.secret] # Null =>
              overwritten[r.version] # Null /\ overwritten[r.version] <= retired[r.secret]

\* What a verification that passed tells about its message's secret.
WorkedAt(d) ==
    d.at \in {"spend", "claim"} =>
      LET s == message[d.message].secret
      IN  /\ s <= made
          /\ retired[s] # Null => \/ d.since <= retired[s] + Lag
                                  \/ d.since <= retired[s] + Grace

SecretsOK ==
    /\ ReadIsCurrent
    /\ SecretsCounted
    /\ row.previous # Null => row.previous = made - 1
    /\ TellsTrue(row)
    /\ cache # Null => TellsTrue(cache.row)
    /\ \A w \in Deliveries : delivery[w].at = "fill" => TellsTrue(delivery[w].row)
    /\ \A w \in Deliveries : WorkedAt(delivery[w])

\* The secrets change by a rotation, or not at all.
Rotates(d) ==
    /\ editor[d].at = "write"
    /\ made' = made + 1 /\ now' = now
    /\ row'.version = row.version + 1
    /\ row'.secret = made + 1
    /\ row'.previous = editor[d].read
    /\ row'.rotatedAt = now
    /\ retired' = IF row.secret = Null THEN retired ELSE [retired EXCEPT ![row.secret] = now]
    /\ overwritten' = [overwritten EXCEPT ![row.version] = now]
    /\ editor'[d].at # "write"
    /\ \A e \in Editors : e # d => editor'[e] = editor[e]

SecretsStand ==
    /\ made' = made /\ retired' = retired
    /\ row'.secret = row.secret
    /\ \/ row'.previous = row.previous /\ row'.rotatedAt = row.rotatedAt
       \/ row'.previous = Null
    /\ \A d \in Editors : editor'[d].at = "write" =>
          \/ editor[d].at = "write" /\ editor'[d] = editor[d]
          \/ editor'[d].read = row.secret

LEMMA SecretSteps ==
    ASSUME TypeOK, [Next]_vars
    PROVE  SecretsStand \/ \E d \in Editors : Rotates(d)
<1>. USE DEF TypeOK, dbVars
<1>1. ASSUME NEW d \in Editors, WriteSecret(d)
      PROVE  Rotates(d)
  <2>. DEFINE new == [row EXCEPT !.secret = made + 1, !.previous = editor[d].read,
                                 !.rotatedAt = RotatedAt]
  <2>1. row' = [new EXCEPT !.version = row.version + 1]
    BY <1>1 DEF WriteSecret, Overwrite
  <2>2. /\ row'.version = row.version + 1
        /\ row'.secret = made + 1
        /\ row'.previous = editor[d].read
        /\ row'.rotatedAt = now
    BY <2>1 DEF RowType, RotatedAt
  <2>3. overwritten' = [overwritten EXCEPT ![row.version] = now]
    BY <1>1 DEF WriteSecret, Overwrite
  <2>. QED
    BY <1>1, <2>2, <2>3 DEF WriteSecret, Rotates
<1>2. ASSUME NEW d \in Editors, UpdateAllowedIps(d)
      PROVE  SecretsStand
  <2>. DEFINE new == [row EXCEPT !.allowed = ~@]
  <2>1. row' = [new EXCEPT !.version = row.version + 1]
    BY <1>2 DEF UpdateAllowedIps, Overwrite
  <2>2. row'.secret = row.secret /\ row'.previous = row.previous
          /\ row'.rotatedAt = row.rotatedAt
    BY <2>1 DEF RowType
  <2>. QED
    BY <1>2, <2>2 DEF UpdateAllowedIps, SecretsStand
<1>3. CASE ClearExpired
  BY <1>3 DEF ClearExpired, SecretsStand, RowType
<1>4. ASSUME NEW d \in Editors, ReadSecret(d) \/ Invalidate(d) \/ EditorDies(d)
      PROVE  SecretsStand
  BY <1>4 DEF ReadSecret, Invalidate, EditorDies, SecretsStand, Idle
<1>5. CASE UNCHANGED <<dbVars, editor>>
  BY <1>5 DEF SecretsStand
<1>. QED
  BY <1>1, <1>2, <1>3, <1>4, <1>5 DEF Next, Tick, Sign, Edit, Deliver, ValidateSignature,
     Lookup, Query, Fill, ConsumeRateLimit, ClaimNonce, GiveUp, VerifierDies, vars

LEMMA SecretsTyped ==
    ASSUME TypeOK
    PROVE  /\ made \in Nat /\ row.secret \in Secrets \cup {Null} /\ Secrets \subseteq Nat
           /\ Null \notin Int /\ now \in Nat /\ now \in Moment
           /\ retired \in [Secrets -> Moment \cup {Null}]
           /\ overwritten \in [1 .. MaxWrites -> Moment \cup {Null}]
           /\ row.version \in 1 .. MaxWrites
           /\ Moment \subseteq Nat
BY ConstantsAreTyped DEF Constants, TypeOK, RowType, Secrets, Moment

\* What a rotation does to the functions of the secrets and the versions.
LEMMA RotationRetires ==
    ASSUME TypeOK, SecretsCounted, NEW d \in Editors, Rotates(d)
    PROVE  /\ \A s \in Secrets : IF s = made THEN retired'[s] = now
                                 ELSE retired'[s] = retired[s]
           /\ overwritten'[row.version] = now
           /\ \A v \in 1 .. MaxWrites : v # row.version => overwritten'[v] = overwritten[v]
<1>1. \A s \in Secrets : IF s = made THEN retired'[s] = now ELSE retired'[s] = retired[s]
  <2>1. CASE row.secret = Null
    <3>1. made = 0
      BY <2>1, SecretsTyped DEF SecretsCounted
    <3>. QED
      BY <2>1, <3>1 DEF Rotates, Secrets
  <2>2. CASE row.secret # Null
    <3>1. row.secret = made /\ row.secret \in Secrets
      BY <2>2, SecretsTyped DEF SecretsCounted
    <3>. QED
      BY <2>2, <3>1, SecretsTyped DEF Rotates
  <2>. QED
    BY <2>1, <2>2
<1>. QED
  BY <1>1, SecretsTyped DEF Rotates

LEMMA CountedKept ==
    TypeOK /\ SecretsCounted /\ [Next]_vars => SecretsCounted'
<1>. SUFFICES ASSUME TypeOK, SecretsCounted, [Next]_vars PROVE SecretsCounted'
  OBVIOUS
<1>0. now' \in Nat /\ now <= now'
  <2>1. now' \in Nat
    BY NextTyped, ClockTyped DEF TypeOK, Moment
  <2>. QED
    BY <2>1, SecretsTyped, ClockSteps DEF Tick
<1>1. CASE SecretsStand
  <2>1. made' = made /\ retired' = retired /\ row'.secret = row.secret
    BY <1>1 DEF SecretsStand
  <2>2. ASSUME NEW s \in Secrets
        PROVE  IF s < made THEN retired[s] \in Moment /\ retired[s] <= now'
               ELSE retired[s] = Null
    BY <1>0, SecretsTyped DEF SecretsCounted
  <2>. QED
    BY <2>1, <2>2 DEF SecretsCounted
<1>2. ASSUME NEW d \in Editors, Rotates(d)
      PROVE  SecretsCounted'
  <2>1. made' = made + 1 /\ row'.secret = made + 1 /\ now' = now
    BY <1>2 DEF Rotates
  <2>2. ASSUME NEW s \in Secrets
        PROVE  IF s < made' THEN retired'[s] \in Moment /\ retired'[s] <= now'
               ELSE retired'[s] = Null
    BY <1>2, <2>1, SecretsTyped, RotationRetires DEF SecretsCounted
  <2>3. ASSUME NEW s \in Secrets, NEW t \in Secrets, s <= t, t < made'
        PROVE  retired'[s] <= retired'[t]
    <3>1. CASE t = made /\ s # made
      <4>1. s < made /\ retired[s] <= now
        BY <2>3, <3>1, SecretsTyped DEF SecretsCounted
      <4>. QED
        BY <1>2, <3>1, <4>1, RotationRetires
    <3>2. CASE t = made /\ s = made
      BY <1>2, <3>2, SecretsTyped, RotationRetires
    <3>3. CASE t # made
      <4>1. t < made /\ s # made
        BY <2>1, <2>3, <3>3, SecretsTyped
      <4>. QED
        BY <1>2, <2>3, <3>3, <4>1, RotationRetires DEF SecretsCounted
    <3>. QED
      BY <3>1, <3>2, <3>3
  <2>4. row'.secret = IF made' = 0 THEN Null ELSE made'
    BY <2>1, SecretsTyped
  <2>. QED
    BY <2>2, <2>3, <2>4 DEF SecretsCounted
<1>. QED
  BY <1>1, <1>2, SecretSteps

LEMMA CurrentKept ==
    TypeOK /\ SecretsCounted /\ ReadIsCurrent /\ RotationsSerial /\ [Next]_vars
      => ReadIsCurrent'
<1>. SUFFICES ASSUME TypeOK, SecretsCounted, ReadIsCurrent, RotationsSerial, [Next]_vars,
                     NEW e \in Editors, editor'[e].at = "write"
              PROVE  editor'[e].read = row'.secret
  BY DEF ReadIsCurrent
<1>1. CASE SecretsStand
  BY <1>1 DEF SecretsStand, ReadIsCurrent
<1>2. ASSUME NEW d \in Editors, Rotates(d)
      PROVE  FALSE
  BY <1>2 DEF Rotates, RotationsSerial
<1>. QED
  BY <1>1, <1>2, SecretSteps

LEMMA RowTellsTrue ==
    ASSUME TypeOK, VersionsCounted, SecretsOK, [Next]_vars
    PROVE  /\ TellsTrue(row)'
           /\ (row.previous # Null => row.previous = made - 1)'
<1>0. made' \in Nat /\ SecretsCounted'
  BY NextTyped, CountedKept DEF TypeOK, SecretsOK
<1>1. CASE SecretsStand
  <2>1. /\ made' = made /\ retired' = retired /\ row'.secret = row.secret
        /\ \/ row'.previous = row.previous /\ row'.rotatedAt = row.rotatedAt
           \/ row'.previous = Null
    BY <1>1 DEF SecretsStand
  <2>2. row.secret # Null => row.secret <= made /\ retired[row.secret] = Null
    BY SecretsTyped DEF SecretsOK, SecretsCounted
  <2>. QED
    BY <2>1, <2>2 DEF SecretsOK, TellsTrue
<1>2. ASSUME NEW d \in Editors, Rotates(d)
      PROVE  /\ TellsTrue(row)'
             /\ (row.previous # Null => row.previous = made - 1)'
  <2>1. /\ made' = made + 1 /\ row'.secret = made + 1 /\ row'.rotatedAt = now
        /\ row'.previous = row.secret
    BY <1>2 DEF Rotates, SecretsOK, ReadIsCurrent
  <2>2. row'.secret \in Secrets /\ retired'[row'.secret] = Null
    <3>1. row'.secret \in Secrets
      <4>1. row'.secret \in Secrets \cup {Null}
        BY NextTyped DEF TypeOK, RowType
      <4>. QED
        BY <2>1, <4>1, SecretsTyped
    <3>. QED
      BY <1>0, <2>1, <3>1, SecretsTyped DEF SecretsCounted
  <2>3. row.secret # Null => row.secret = made /\ retired'[row.secret] = now
    BY <1>2, SecretsTyped, RotationRetires DEF SecretsOK, SecretsCounted
  <2>4. row'.previous # Null => row'.previous < made' /\ retired'[row'.previous] = row'.rotatedAt
    BY <2>1, <2>3, SecretsTyped
  <2>5. row'.secret <= made'
    BY <2>1, <1>0
  <2>6. row'.previous # Null => row'.previous = made' - 1
    BY <2>1, <2>3, SecretsTyped
  <2>. QED
    BY <2>2, <2>4, <2>5, <2>6 DEF TellsTrue
<1>. QED
  BY <1>1, <1>2, SecretSteps

\* A copy stays true while the row moves on.
LEMMA CopyTellsTrue ==
    ASSUME TypeOK, VersionsCounted, SecretsCounted, [Next]_vars,
           NEW r \in RowType, r.version <= row.version, TellsTrue(r)
    PROVE  /\ r.previous # Null => r.previous < made' /\ retired'[r.previous] = r.rotatedAt
           /\ r.secret # Null =>
                /\ r.secret <= made'
                /\ retired'[r.secret] # Null => /\ overwritten'[r.version] # Null
                                                /\ overwritten'[r.version] <= retired'[r.secret]
<1>0. /\ r.version \in 1 .. MaxWrites /\ r.secret \in Secrets \cup {Null}
      /\ r.previous \in Secrets \cup {Null}
  BY DEF RowType
<1>1. \A v \in 1 .. MaxWrites :
         v <= row.version /\ overwritten[v] # Null => v # row.version
  BY SecretsTyped DEF VersionsCounted
<1>2. CASE SecretsStand
  <2>1. made' = made /\ retired' = retired
    BY <1>2 DEF SecretsStand
  <2>2. overwritten[r.version] # Null => overwritten'[r.version] = overwritten[r.version]
    <3>1. CASE overwritten' = overwritten
      BY <3>1
    <3>2. ASSUME NEW new, Overwrite(new)
          PROVE  overwritten[r.version] # Null => overwritten'[r.version] = overwritten[r.version]
      BY <1>0, <1>1, <3>2, OverwriteCounts
    <3>. QED
      BY <3>1, <3>2, VersionSteps
  <2>. QED
    BY <2>1, <2>2 DEF TellsTrue
<1>3. ASSUME NEW d \in Editors, Rotates(d)
      PROVE  /\ r.previous # Null => r.previous < made' /\ retired'[r.previous] = r.rotatedAt
             /\ r.secret # Null =>
                /\ r.secret <= made'
                /\ retired'[r.secret] # Null => /\ overwritten'[r.version] # Null
                                                /\ overwritten'[r.version] <= retired'[r.secret]
  <2>1. made' = made + 1 /\ now' = now
    BY <1>3 DEF Rotates
  <2>2. r.previous # Null => r.previous < made' /\ retired'[r.previous] = r.rotatedAt
    BY <1>0, <1>3, <2>1, SecretsTyped, RotationRetires DEF TellsTrue
  <2>3. r.secret # Null => r.secret <= made'
    BY <1>0, <2>1, SecretsTyped DEF TellsTrue
  <2>4. ASSUME r.secret # Null, r.secret # made, retired'[r.secret] # Null
        PROVE  /\ overwritten'[r.version] # Null
               /\ overwritten'[r.version] <= retired'[r.secret]
    <3>1. retired'[r.secret] = retired[r.secret]
      BY <1>0, <1>3, <2>4, RotationRetires
    <3>2. overwritten[r.version] # Null /\ overwritten[r.version] <= retired[r.secret]
      BY <2>4, <3>1 DEF TellsTrue
    <3>3. overwritten'[r.version] = overwritten[r.version]
      BY <1>0, <1>1, <1>3, <3>2, RotationRetires
    <3>. QED
      BY <3>1, <3>2, <3>3
  <2>5. ASSUME r.secret # Null, r.secret = made
        PROVE  /\ overwritten'[r.version] # Null
               /\ overwritten'[r.version] <= retired'[r.secret]
    <3>1. retired'[r.secret] = now
      BY <1>0, <1>3, <2>5, RotationRetires
    <3>2. CASE r.version = row.version
      <4>1. overwritten'[r.version] = now
        BY <1>3, <3>2, RotationRetires
      <4>. QED
        BY <3>1, <4>1, SecretsTyped
    <3>3. CASE r.version # row.version
      <4>1. r.version < row.version
        BY <1>0, <3>3, SecretsTyped
      <4>2. overwritten[r.version] \in Moment /\ overwritten[r.version] <= now
        BY <1>0, <4>1 DEF VersionsCounted
      <4>3. overwritten'[r.version] = overwritten[r.version]
        BY <1>0, <1>3, <3>3, RotationRetires
      <4>. QED
        BY <3>1, <4>2, <4>3, SecretsTyped
    <3>. QED
      BY <3>2, <3>3
  <2>. QED
    BY <2>2, <2>3, <2>4, <2>5
<1>. QED
  BY <1>2, <1>3, SecretSteps

LEMMA WorkedKept ==
    ASSUME TypeOK, DeliveriesTimely, CopiesFresh, SecretsOK, [Next]_vars,
           NEW w \in Deliveries, delivery'[w].at \in {"spend", "claim"}
    PROVE  WorkedAt(delivery[w])'
<1>. DEFINE d == delivery'[w]
            s == message[delivery[w].message].secret
<1>1. Continues(w)
  BY DeliverySteps DEF Begins, Idle
<1>2. delivery[w] # Idle /\ d.message = delivery[w].message /\ d.since = delivery[w].since
  BY <1>1 DEF Continues
<1>3. delivery[w].message \in Messages /\ d.since \in Nat
  BY <1>2, DeliveryShape DEF TypeOK, Carries, Moment
<1>4. message[delivery[w].message] # Null /\ d.since <= now
  BY <1>2 DEF DeliveriesTimely, IsTimely
<1>5. message'[d.message].secret = s /\ s \in Secrets
  BY <1>2, <1>3, <1>4, MessagesKept, MessageShape
<1>6. Lag \in Nat /\ Grace \in Nat
  BY TimesTyped DEF Lag
<1>. SUFFICES /\ s <= made'
              /\ retired'[s] # Null => \/ d.since <= retired'[s] + Lag
                                       \/ d.since <= retired'[s] + Grace
  BY <1>5 DEF WorkedAt, Lag
<1>7. ASSUME s <= made,
             retired[s] # Null => \/ d.since <= retired[s] + Lag
                                  \/ d.since <= retired[s] + Grace
      PROVE  /\ s <= made'
             /\ retired'[s] # Null => \/ d.since <= retired'[s] + Lag
                                      \/ d.since <= retired'[s] + Grace
  <2>1. CASE SecretsStand
    BY <1>7, <2>1 DEF SecretsStand
  <2>2. ASSUME NEW e \in Editors, Rotates(e)
        PROVE  /\ s <= made'
               /\ retired'[s] # Null => \/ d.since <= retired'[s] + Lag
                                        \/ d.since <= retired'[s] + Grace
    <3>1. s <= made' /\ (s = made => retired'[s] = now) /\ (s # made => retired'[s] = retired[s])
      BY <1>5, <1>7, <2>2, SecretsTyped, RotationRetires DEF SecretsOK, Rotates
    <3>. QED
      BY <1>3, <1>4, <1>6, <1>7, <3>1, SecretsTyped
  <2>. QED
    BY <2>1, <2>2, SecretSteps
<1>8. CASE delivery[w].at \in {"spend", "claim"} /\ d.version = delivery[w].version
  <2>1. WorkedAt(delivery[w])
    BY <1>8 DEF SecretsOK
  <2>. QED
    BY <1>2, <1>7, <1>8, <2>1 DEF WorkedAt
<1>9. ASSUME NEW r \in RowType, TellsTrue(r), JustPassed(w, r)
      PROVE  /\ s <= made'
             /\ retired'[s] # Null => \/ d.since <= retired'[s] + Lag
                                      \/ d.since <= retired'[s] + Grace
  <2>1. /\ now' = now /\ retired' = retired /\ made' = made
        /\ row' = row /\ overwritten' = overwritten /\ d.version = r.version
    BY <1>9 DEF JustPassed, dbVars
  <2>2. CASE r.secret = s
    <3>1. r.secret # Null /\ r.version \in 1 .. MaxWrites
      BY <1>5, <2>2, SecretsTyped DEF RowType
    <3>2. /\ s <= made
          /\ retired[s] # Null => /\ overwritten[r.version] # Null
                                  /\ overwritten[r.version] <= retired[s]
      BY <1>9, <2>2, <3>1 DEF TellsTrue
    <3>3. overwritten'[d.version] # Null => d.since - Lag <= overwritten'[d.version]
      BY FreshKept DEF CopiesFresh, VerificationFresh, NotBefore, Lag
    <3>4. retired[s] # Null => /\ overwritten[r.version] \in Nat /\ retired[s] \in Nat
                               /\ d.since - Lag <= overwritten[r.version]
      BY <1>5, <2>1, <3>1, <3>2, <3>3, SecretsTyped
    <3>. QED
      BY <1>3, <1>6, <2>1, <3>2, <3>4
  <2>3. CASE r.secret # s
    <3>1. InGrace(r) /\ r.previous = s
      BY <1>9, <2>3 DEF JustPassed, Passes, MatchSecretKey
    <3>2. r.previous # Null /\ now - r.rotatedAt <= Grace
      BY <3>1 DEF InGrace
    <3>3. s < made /\ retired[s] = r.rotatedAt /\ r.rotatedAt \in Nat
      BY <1>9, <3>1, <3>2, SecretsTyped DEF TellsTrue, RowType
    <3>. QED
      BY <1>3, <1>4, <1>5, <1>6, <2>1, <3>2, <3>3, SecretsTyped
  <2>. QED
    BY <2>2, <2>3
<1>10. CASE IsHit(cache) /\ JustPassed(w, cache.row)
  BY <1>9, <1>10, CacheRowTyped DEF SecretsOK, IsHit
<1>11. CASE delivery[w].at = "fill" /\ JustPassed(w, delivery[w].row)
  BY <1>9, <1>11, DeliveryShape DEF SecretsOK, TypeOK
<1>. QED
  BY <1>8, <1>10, <1>11, CopySteps DEF HasPassed

LEMMA SecretsKept ==
    TypeOK /\ DeliveriesTimely /\ CopiesFresh /\ SecretsOK /\ RotationsSerial /\ [Next]_vars
      => SecretsOK'
<1>. SUFFICES ASSUME TypeOK, DeliveriesTimely, CopiesFresh, SecretsOK, RotationsSerial,
                     [Next]_vars
              PROVE  SecretsOK'
  OBVIOUS
<1>1. VersionsCounted /\ SecretsCounted
  BY DEF CopiesFresh, SecretsOK
<1>2. ReadIsCurrent' /\ SecretsCounted'
  BY CurrentKept, CountedKept DEF SecretsOK
<1>3. ASSUME cache' # Null
      PROVE  TellsTrue(cache.row)'
  <2>1. CASE cache' = cache
    <3>1. cache.row \in RowType /\ cache.row.version <= row.version /\ TellsTrue(cache.row)
      BY <1>3, <2>1 DEF TypeOK, CopiesFresh, EntryFresh, NotBefore, SecretsOK
    <3>. QED
      BY <1>1, <2>1, <3>1, CopyTellsTrue DEF TellsTrue
  <2>2. ASSUME NEW w \in Deliveries, Fill(w),
               cache' = [row |-> delivery[w].row, expires |-> Expiry]
        PROVE  TellsTrue(cache.row)'
    <3>1. delivery[w].at = "fill" /\ cache'.row = delivery[w].row
      BY <2>2 DEF Fill
    <3>2. /\ delivery[w].row \in RowType /\ delivery[w].row.version <= row.version
          /\ TellsTrue(delivery[w].row)
      BY <3>1, DeliveryShape DEF TypeOK, CopiesFresh, VerificationFresh, NotBefore, SecretsOK
    <3>. QED
      BY <1>1, <3>1, <3>2, CopyTellsTrue DEF TellsTrue
  <2>. QED
    BY <1>3, <2>1, <2>2, CacheSteps
<1>4. ASSUME NEW w \in Deliveries, delivery'[w].at = "fill"
      PROVE  TellsTrue(delivery[w].row)'
  <2>1. CASE delivery[w].at = "fill" /\ delivery'[w].row = delivery[w].row
    <3>1. /\ delivery[w].row \in RowType /\ delivery[w].row.version <= row.version
          /\ TellsTrue(delivery[w].row)
      BY <2>1, DeliveryShape DEF TypeOK, CopiesFresh, VerificationFresh, NotBefore, SecretsOK
    <3>. QED
      BY <1>1, <2>1, <3>1, CopyTellsTrue DEF TellsTrue
  <2>2. CASE delivery'[w].row = row /\ row' = row
    BY <1>1, <2>2, RowTellsTrue DEF TellsTrue
  <2>. QED
    BY <1>4, <2>1, <2>2, CopySteps DEF HoldsRow
<1>5. ASSUME NEW w \in Deliveries
      PROVE  WorkedAt(delivery[w])'
  BY WorkedKept DEF WorkedAt
<1>. QED
  BY <1>1, <1>2, <1>3, <1>4, <1>5, RowTellsTrue DEF SecretsOK

LEMMA InitSecrets == Init => SecretsOK
<1>. SUFFICES ASSUME Init PROVE SecretsOK
  OBVIOUS
<1>1. ReadIsCurrent
  BY DEF Init, ReadIsCurrent, Idle
<1>2. SecretsCounted
  BY DEF Init, SecretsCounted, Secrets
<1>3. TellsTrue(row) /\ row.previous = Null
  BY DEF Init, TellsTrue
<1>4. \A w \in Deliveries : delivery[w].at = "idle"
  BY DEF Init, Idle
<1>. QED
  BY <1>1, <1>2, <1>3, <1>4 DEF SecretsOK, WorkedAt, Init

LEMMA LargerOfTwo ==
    ASSUME NEW i \in Int, NEW j \in Int
    PROVE  Max({i, j}) \in Int /\ i <= Max({i, j}) /\ j <= Max({i, j})
<1>1. \E x \in {i, j} : \A y \in {i, j} : x >= y
  OBVIOUS
<1>2. Max({i, j}) \in {i, j} /\ \A y \in {i, j} : Max({i, j}) >= y
  BY <1>1 DEF Max
<1>. QED
  BY <1>2

LEMMA SecretsEnd == TypeOK /\ DeliveriesTimely /\ SecretsOK => RetiredSecretEnds
<1>. SUFFICES ASSUME TypeOK, DeliveriesTimely, SecretsOK, NEW w \in Deliveries,
                     delivery[w].at \in {"spend", "claim"},
                     retired[message[delivery[w].message].secret] # Null
              PROVE  now <= retired[message[delivery[w].message].secret]
                              + Max({Grace + MaxLatency, Staleness})
  BY DEF RetiredSecretEnds
<1>. DEFINE s == message[delivery[w].message].secret
<1>1. delivery[w] # Idle
  BY DEF Idle
<1>2. delivery[w].message \in Messages /\ delivery[w].since \in Nat
  BY <1>1, DeliveryShape DEF TypeOK, Carries, Moment
<1>3. now <= delivery[w].since + MaxLatency /\ message[delivery[w].message] # Null
  BY <1>1 DEF DeliveriesTimely, IsTimely
<1>4. s \in Secrets /\ retired[s] \in Nat
  BY <1>2, <1>3, MessageShape, SecretsTyped
<1>5. \/ delivery[w].since <= retired[s] + Lag
      \/ delivery[w].since <= retired[s] + Grace
  BY DEF SecretsOK, WorkedAt
<1>6. CacheTTL \in Nat /\ MaxLatency \in Nat /\ Grace \in Nat /\ now \in Nat
  BY TimesTyped, ClockTyped
<1>7. Staleness = Lag + MaxLatency /\ Staleness \in Int /\ Grace + MaxLatency \in Int /\ Lag \in Int
  BY <1>6 DEF Staleness, Lag
<1>8. /\ Max({Grace + MaxLatency, Staleness}) \in Int
      /\ Grace + MaxLatency <= Max({Grace + MaxLatency, Staleness})
      /\ Staleness <= Max({Grace + MaxLatency, Staleness})
  BY <1>7, LargerOfTwo
<1>. HIDE DEF s
<1>. QED
  BY <1>2, <1>3, <1>4, <1>5, <1>6, <1>7, <1>8 DEF s

(***************************************************************************)
(* When rotations come one after the other, a secret that was replaced     *)
(* stops working as soon as its grace has passed and the caches that may   *)
(* hold it as the current one have forgotten it.                           *)
(***************************************************************************)
THEOREM RetirementTakesHold == Spec /\ []RotationsSerial => []RetiredSecretEnds
<1>. QED
  BY InitFresh, InitSecrets, TypeCorrect, TimelyKept, FreshKept, SecretsKept, SecretsEnd,
     PTL DEF Spec

LEMMA PreviousIsPrior == TypeOK /\ SecretsOK => OutgoingIsKept
<1>. SUFFICES ASSUME TypeOK, SecretsOK, row.previous # Null
              PROVE  row.previous = Prior
  BY DEF OutgoingIsKept, InGrace
<1>. DEFINE gone == {s \in Secrets : retired[s] # Null}
<1>1. row.previous \in Secrets /\ row.previous = made - 1
  BY DEF TypeOK, RowType, SecretsOK
<1>2. \A s \in Secrets : s \in gone <=> s < made
  BY SecretsTyped DEF SecretsOK, SecretsCounted
<1>3. row.previous \in gone
  BY <1>1, <1>2, SecretsTyped
<1>4. \A o \in gone : retired[o] <= retired[row.previous] /\ o <= row.previous
  BY <1>1, <1>2, SecretsTyped DEF SecretsOK, SecretsCounted
<1>5. ASSUME NEW s \in gone, \A o \in gone : retired[o] <= retired[s] /\ o <= s
      PROVE  s = row.previous
  <2>1. s <= row.previous /\ row.previous <= s
    BY <1>3, <1>4, <1>5
  <2>2. s \in Nat /\ row.previous \in Nat
    BY <1>1, <1>5, SecretsTyped
  <2>. QED
    BY <2>1, <2>2
<1>6. Prior = CHOOSE s \in gone : \A o \in gone : retired[o] <= retired[s] /\ o <= s
  BY <1>3 DEF Prior
<1>. HIDE DEF gone
<1>. QED
  BY <1>3, <1>4, <1>5, <1>6

(***************************************************************************)
(* When rotations come one after the other, what the comment on            *)
(* generateSharedSecretKey says holds: within the grace the previous       *)
(* secret is the one that was current before.                              *)
(***************************************************************************)
THEOREM SerialRotationsKeepThePrior == Spec /\ []RotationsSerial => []OutgoingIsKept
<1>. QED
  BY InitFresh, InitSecrets, TypeCorrect, TimelyKept, FreshKept, SecretsKept,
     PreviousIsPrior, PTL DEF Spec
=============================================================================

----------------------- MODULE SettlementEngineProofs -----------------------
(***************************************************************************)
(* Theorems about SettlementEngine, for any pods, purchases, terms and     *)
(* runs, any claim limit and any number of attempts and failures.          *)
(***************************************************************************)
EXTENDS SettlementEngine, TLAPS

(***************************************************************************)
(* The claim is what keeps the batches apart: an open batch holds captured *)
(* purchases with a fee row that no committed batch has, and the claim     *)
(* column and the entries are written by the same commit.                  *)
(***************************************************************************)
ClaimsOK ==
    /\ posted = settled
    /\ SettledFromPending
    /\ BatchesDisjoint
    /\ \A q \in Pods : \A p \in Holding(q) :
          /\ p \in captured
          /\ p \notin settled
          /\ Detail[p].hasFee

\* A run on the list has an attempt left: only the sweeper puts it back.
AttemptsOK ==
    \A r \in Runs : /\ run[r].attempts <= MaxAttempts
                    /\ run[r].status = "PENDING" => run[r].attempts < MaxAttempts

(***************************************************************************)
(* A pod goes on with the cutoff it resolved, which may be behind by now   *)
(* and is never ahead; a batch and its commit take only what is before it. *)
(***************************************************************************)
PaidBeforeSome(p) == \E k \in Terms : Covers(k, p) /\ PaidBefore(p, cutoff[k])

CutoffsOK ==
    /\ \A q \in Pods :
          pod[q].at \in {"open", "commit"} => pod[q].cutoff <= cutoff[RunTerms[pod[q].run]]
    /\ \A q \in Pods : \A p \in Holding(q) :
          Covers(RunTerms[pod[q].run], p) /\ PaidBefore(p, pod[q].cutoff)
    /\ \A p \in settled : PaidBeforeSome(p)

-----------------------------------------------------------------------------
(* Types.                                                                  *)

\* What the place of a pod says about the rest of its state.
LEMMA PodShapes ==
    ASSUME TypeOK, NEW q \in Pods
    PROVE  /\ pod[q] \in PodState
           /\ pod[q] = Idle <=> pod[q].at = "idle"
           /\ pod[q] # Idle => pod[q].run \in Runs
           /\ pod[q].at \in {"open", "commit"} => pod[q].cutoff \in 1 .. Horizon
           /\ pod[q].at = "commit" => pod[q].rows \subseteq Purchases
BY DEF TypeOK, PodState, Idle

LEMMA RunsHaveTerms == \A r \in Runs : RunTerms[r] \in Terms
BY TermsAssumption

LEMMA InitTyped == Init => TypeOK
BY LimitAssumption DEF Init, TypeOK, PodState, Idle, RunRow, RunStatus, NoRow

LEMMA PodStepTyped ==
    ASSUME TypeOK, NEW q \in Pods, PodStep(q)
    PROVE  TypeOK'
<1>0. pod \in [Pods -> PodState] /\ run \in [Runs -> RunRow]
  BY DEF TypeOK
<1>1. CASE ResolveCutoff(q)
  <2>1. pod[q].run \in Runs
    BY <1>1, PodShapes DEF ResolveCutoff, Idle
  <2>2. cutoff[RunTerms[pod[q].run]] \in 0 .. Horizon
    BY <2>1, RunsHaveTerms DEF TypeOK
  <2>3. pod' \in [Pods -> PodState]
    <3>1. CASE IsNull(cutoff[RunTerms[pod[q].run]])
      <4>1. pod' = [pod EXCEPT ![q] = [at |-> "finish", run |-> pod[q].run]]
        BY <1>0, <1>1, <3>1 DEF ResolveCutoff
      <4>2. [at |-> "finish", run |-> pod[q].run] \in PodState
        BY <2>1 DEF PodState
      <4>. QED
        BY <1>0, <4>1, <4>2
    <3>2. CASE ~IsNull(cutoff[RunTerms[pod[q].run]])
      <4>. DEFINE next == [at |-> "open", run |-> pod[q].run,
                           cutoff |-> cutoff[RunTerms[pod[q].run]]]
      <4>1. pod' = [pod EXCEPT ![q] = next]
        BY <1>0, <1>1, <3>2 DEF ResolveCutoff
      <4>2. cutoff[RunTerms[pod[q].run]] \in 1 .. Horizon
        BY <2>2, <3>2, LimitAssumption DEF IsNull
      <4>3. next \in PodState
        BY <2>1, <4>2 DEF PodState
      <4>. QED
        BY <1>0, <4>1, <4>3
    <3>. QED
      BY <3>1, <3>2
  <2>. QED
    BY <1>1, <2>3 DEF ResolveCutoff, purchaseVars, TypeOK
<1>2. CASE ClaimNothing(q)
  <2>1. pod[q].run \in Runs
    BY <1>2, PodShapes DEF ClaimNothing, Idle
  <2>2. [at |-> "finish", run |-> pod[q].run] \in PodState
    BY <2>1 DEF PodState
  <2>. QED
    BY <1>2, <2>2 DEF ClaimNothing, purchaseVars, TypeOK
<1>3. CASE ClaimBatch(q)
  <2>1. pod[q].run \in Runs /\ pod[q].cutoff \in 1 .. Horizon
    BY <1>3, PodShapes DEF ClaimBatch, Idle
  <2>2. PICK rows \in SUBSET Ripe(q) :
           pod' = [pod EXCEPT ![q] = [at |-> "commit", run |-> pod[q].run,
                                      cutoff |-> pod[q].cutoff, rows |-> rows]]
    BY <1>0, <1>3 DEF ClaimBatch
  <2>3. rows \subseteq Purchases
    BY DEF Ripe
  <2>4. [at |-> "commit", run |-> pod[q].run,
         cutoff |-> pod[q].cutoff, rows |-> rows] \in PodState
    BY <2>1, <2>3 DEF PodState
  <2>. QED
    BY <1>3, <2>2, <2>4 DEF ClaimBatch, purchaseVars, TypeOK
<1>4. CASE CommitBatch(q)
  <2>1. /\ pod[q].run \in Runs
        /\ pod[q].cutoff \in 1 .. Horizon
        /\ pod[q].rows \subseteq Purchases
    BY <1>4, PodShapes DEF CommitBatch, Idle
  <2>2. /\ [at |-> "finish", run |-> pod[q].run] \in PodState
        /\ [at |-> "open", run |-> pod[q].run, cutoff |-> pod[q].cutoff] \in PodState
    BY <2>1 DEF PodState
  <2>3. pod' \in [Pods -> PodState]
    BY <1>0, <1>4, <2>2 DEF CommitBatch
  <2>. QED
    BY <1>4, <2>1, <2>3 DEF CommitBatch, TypeOK
<1>5. CASE Finish(q)
  <2>1. pod[q].run \in Runs
    BY <1>5, PodShapes DEF Finish, Idle
  <2>2. run' \in [Runs -> RunRow]
    BY <1>0, <1>5, <2>1 DEF Finish, RunRow, RunStatus
  <2>3. pod' \in [Pods -> PodState]
    BY <1>0, <1>5 DEF Finish, PodState, Idle
  <2>. QED
    BY <1>5, <2>2, <2>3 DEF Finish, purchaseVars, TypeOK
<1>. QED
  BY <1>1, <1>2, <1>3, <1>4, <1>5 DEF PodStep

LEMMA NextTyped == TypeOK /\ [Next]_vars => TypeOK'
<1>. SUFFICES ASSUME TypeOK, [Next]_vars
              PROVE  TypeOK'
  OBVIOUS
<1>0. pod \in [Pods -> PodState] /\ run \in [Runs -> RunRow]
  BY DEF TypeOK
<1>1. ASSUME NEW p \in Purchases, Capture(p)
      PROVE  TypeOK'
  BY <1>1 DEF Capture, TypeOK
<1>2. ASSUME NEW k \in Terms, BoundaryPasses(k)
      PROVE  TypeOK'
  <2>1. cutoff' \in [Terms -> 0 .. Horizon]
    BY <1>2, LimitAssumption DEF BoundaryPasses, TypeOK
  <2>. QED
    BY <1>2, <2>1 DEF BoundaryPasses, TypeOK
<1>3. ASSUME NEW r \in Runs, WriteToSettlementRun(r)
      PROVE  TypeOK'
  <2>1. run' \in [Runs -> RunRow]
    BY <1>0, <1>3 DEF WriteToSettlementRun, NoRow, RunRow, RunStatus
  <2>2. due' \in [Terms -> BOOLEAN]
    BY <1>3 DEF WriteToSettlementRun, TypeOK
  <2>. QED
    BY <1>3, <2>1, <2>2 DEF WriteToSettlementRun, TypeOK
<1>4. ASSUME NEW r \in Runs, GoStale(r)
      PROVE  TypeOK'
  BY <1>4 DEF GoStale, purchaseVars, RunRow, TypeOK
<1>5. ASSUME NEW q \in Pods, NEW r \in Runs, ClaimOneRun(q, r)
      PROVE  TypeOK'
  <2>1. run' \in [Runs -> RunRow]
    BY <1>0, <1>5 DEF ClaimOneRun, RunRow, RunStatus
  <2>2. pod' \in [Pods -> PodState]
    BY <1>0, <1>5 DEF ClaimOneRun, PodState
  <2>. QED
    BY <1>5, <2>1, <2>2 DEF ClaimOneRun, TypeOK
<1>6. ASSUME NEW q \in Pods, PodStep(q)
      PROVE  TypeOK'
  BY <1>6, PodStepTyped
<1>7. ASSUME NEW q \in Pods, Fail(q)
      PROVE  TypeOK'
  <2>1. pod' \in [Pods -> PodState]
    BY <1>0, <1>7 DEF Fail, LeaveRunning, PodState, Idle
  <2>2. failures' \in 0 .. MaxFailures
    BY <1>7, LimitAssumption DEF Fail, TypeOK
  <2>. QED
    BY <1>7, <2>1, <2>2 DEF Fail, LeaveRunning, purchaseVars, TypeOK
<1>8. CASE Abandon
  <2>1. run' \in [Runs -> RunRow]
    BY <1>0, <1>8 DEF Abandon, RunRow, RunStatus
  <2>. QED
    BY <1>8, <2>1 DEF Abandon, purchaseVars, TypeOK
<1>9. CASE Revive
  <2>1. run' \in [Runs -> RunRow]
    BY <1>0, <1>9 DEF Revive, RunRow, RunStatus
  <2>. QED
    BY <1>9, <2>1 DEF Revive, purchaseVars, TypeOK
<1>10. CASE UNCHANGED vars
  BY <1>10 DEF vars, TypeOK
<1>. QED
  BY <1>1, <1>2, <1>3, <1>4, <1>5, <1>6, <1>7, <1>8, <1>9, <1>10 DEF Next

(***************************************************************************)
(* The tables and the pods have the types of the module: no action of the  *)
(* enqueuer, the runner or the sweeper takes a pod where it has no run, no *)
(* cutoff or no rows to work with.                                         *)
(***************************************************************************)
THEOREM TypeCorrect == Spec => []TypeOK
BY InitTyped, NextTyped, PTL DEF Spec

-----------------------------------------------------------------------------
(* Claims.                                                                 *)

\* A step that opens no batch leaves the batches of the others as they are
\* and its own as it was, or gone.
LEMMA BatchesKept ==
    ASSUME TypeOK, NEW q \in Pods, NEW next, next.at # "commit",
           pod' = [pod EXCEPT ![q] = next]
    PROVE  /\ \A s \in Pods : Holding(s)' \subseteq Holding(s)
           /\ Holding(q)' = {}
BY DEF TypeOK, Holding

LEMMA FewerHeldClaims ==
    ASSUME ClaimsOK,
           posted' = posted, settled' = settled, captured \subseteq captured',
           \A s \in Pods : Holding(s)' \subseteq Holding(s)
    PROVE  ClaimsOK'
BY DEF ClaimsOK, SettledFromPending, BatchesDisjoint

LEMMA SamePodsClaims ==
    ASSUME ClaimsOK, UNCHANGED <<posted, settled, pod>>, captured \subseteq captured'
    PROVE  ClaimsOK'
<1>1. \A s \in Pods : Holding(s)' \subseteq Holding(s)
  BY DEF Holding
<1>. QED
  BY <1>1, FewerHeldClaims

\* The locks of the other batches and the claim column, together: what a
\* claim takes is nobody's and not settled.
LEMMA ClaimBatchClaims ==
    ASSUME TypeOK, ClaimsOK, NEW q \in Pods, ClaimBatch(q)
    PROVE  ClaimsOK'
<1>1. PICK rows \in SUBSET Ripe(q) :
         pod' = [pod EXCEPT ![q] = [at |-> "commit", run |-> pod[q].run,
                                    cutoff |-> pod[q].cutoff, rows |-> rows]]
  BY DEF ClaimBatch, TypeOK
<1>2. Holding(q)' = rows
  BY <1>1 DEF Holding, TypeOK
<1>3. \A s \in Pods \ {q} : Holding(s)' = Holding(s)
  BY <1>1 DEF Holding, TypeOK
<1>4. \A p \in rows : /\ p \in captured
                      /\ p \notin settled
                      /\ Detail[p].hasFee
                      /\ \A s \in Pods \ {q} : p \notin Holding(s)
  BY DEF Ripe, Unsettled, FeeExists, SkipLocked
<1>5. UNCHANGED <<captured, settled, posted>>
  BY DEF ClaimBatch, purchaseVars
<1>6. BatchesDisjoint'
  BY <1>2, <1>3, <1>4 DEF ClaimsOK, BatchesDisjoint
<1>. QED
  BY <1>2, <1>3, <1>4, <1>5, <1>6 DEF ClaimsOK, SettledFromPending

\* What a commit settles is in no other open batch, so those stay claims.
LEMMA CommitBatchClaims ==
    ASSUME TypeOK, ClaimsOK, NEW q \in Pods, CommitBatch(q)
    PROVE  ClaimsOK'
<1>1. Holding(q) = pod[q].rows
  BY DEF CommitBatch, Holding
<1>2. PICK next : next.at # "commit" /\ pod' = [pod EXCEPT ![q] = next]
  <2>1. CASE Cardinality(pod[q].rows) < ClaimLimit
    <3>1. pod' = [pod EXCEPT ![q] = [at |-> "finish", run |-> pod[q].run]]
      BY <2>1 DEF CommitBatch, TypeOK
    <3>. QED
      BY <3>1
  <2>2. CASE ~(Cardinality(pod[q].rows) < ClaimLimit)
    <3>1. pod' = [pod EXCEPT ![q] = [at |-> "open", run |-> pod[q].run,
                                     cutoff |-> pod[q].cutoff]]
      BY <2>2 DEF CommitBatch, TypeOK
    <3>. QED
      BY <3>1
  <2>. QED
    BY <2>1, <2>2
<1>3. Holding(q)' = {} /\ \A s \in Pods : Holding(s)' \subseteq Holding(s)
  BY <1>2, BatchesKept
<1>4. /\ settled' = settled \cup Holding(q)
      /\ posted' = posted \cup Holding(q)
      /\ captured' = captured
  BY <1>1 DEF CommitBatch
<1>5. posted' = settled'
  BY <1>4 DEF ClaimsOK
<1>6. SettledFromPending'
  BY <1>4 DEF ClaimsOK, SettledFromPending
<1>7. BatchesDisjoint'
  BY <1>3 DEF ClaimsOK, BatchesDisjoint
<1>8. ASSUME NEW s \in Pods, NEW p \in Holding(s)'
      PROVE  p \in captured' /\ p \notin settled' /\ Detail[p].hasFee
  <2>1. s # q
    BY <1>3, <1>8
  <2>2. p \in Holding(s) /\ p \notin Holding(q)
    BY <1>3, <2>1 DEF ClaimsOK, BatchesDisjoint
  <2>. QED
    BY <1>4, <2>2 DEF ClaimsOK
<1>. QED
  BY <1>5, <1>6, <1>7, <1>8 DEF ClaimsOK

LEMMA NextClaims == TypeOK /\ ClaimsOK /\ [Next]_vars => ClaimsOK'
<1>. SUFFICES ASSUME TypeOK, ClaimsOK, [Next]_vars
              PROVE  ClaimsOK'
  OBVIOUS
<1>1. ASSUME NEW p \in Purchases, Capture(p)
      PROVE  ClaimsOK'
  BY <1>1, SamePodsClaims DEF Capture
<1>2. ASSUME NEW k \in Terms, BoundaryPasses(k)
      PROVE  ClaimsOK'
  BY <1>2, SamePodsClaims DEF BoundaryPasses
<1>3. ASSUME NEW r \in Runs, WriteToSettlementRun(r) \/ GoStale(r)
      PROVE  ClaimsOK'
  BY <1>3, SamePodsClaims DEF WriteToSettlementRun, GoStale, purchaseVars
<1>4. ASSUME NEW q \in Pods, NEW r \in Runs, ClaimOneRun(q, r)
      PROVE  ClaimsOK'
  BY <1>4, BatchesKept, FewerHeldClaims DEF ClaimOneRun
<1>5. ASSUME NEW q \in Pods, ResolveCutoff(q)
      PROVE  ClaimsOK'
  <2>1. PICK next : next.at # "commit" /\ pod' = [pod EXCEPT ![q] = next]
    <3>1. CASE IsNull(cutoff[RunTerms[pod[q].run]])
      <4>1. pod' = [pod EXCEPT ![q] = [at |-> "finish", run |-> pod[q].run]]
        BY <1>5, <3>1 DEF ResolveCutoff, TypeOK
      <4>. QED
        BY <4>1
    <3>2. CASE ~IsNull(cutoff[RunTerms[pod[q].run]])
      <4>1. pod' = [pod EXCEPT ![q] = [at |-> "open", run |-> pod[q].run,
                                       cutoff |-> cutoff[RunTerms[pod[q].run]]]]
        BY <1>5, <3>2 DEF ResolveCutoff, TypeOK
      <4>. QED
        BY <4>1
    <3>. QED
      BY <3>1, <3>2
  <2>. QED
    BY <1>5, <2>1, BatchesKept, FewerHeldClaims DEF ResolveCutoff, purchaseVars
<1>6. ASSUME NEW q \in Pods, ClaimNothing(q)
      PROVE  ClaimsOK'
  <2>1. pod' = [pod EXCEPT ![q] = [at |-> "finish", run |-> pod[q].run]]
    BY <1>6 DEF ClaimNothing, TypeOK
  <2>. QED
    BY <1>6, <2>1, BatchesKept, FewerHeldClaims DEF ClaimNothing, purchaseVars
<1>7. ASSUME NEW q \in Pods, ClaimBatch(q) \/ CommitBatch(q)
      PROVE  ClaimsOK'
  BY <1>7, ClaimBatchClaims, CommitBatchClaims
<1>8. ASSUME NEW q \in Pods, Finish(q) \/ Fail(q)
      PROVE  ClaimsOK'
  <2>1. pod' = [pod EXCEPT ![q] = Idle] /\ UNCHANGED purchaseVars
    BY <1>8 DEF Finish, Fail, LeaveRunning
  <2>2. Idle.at # "commit"
    BY DEF Idle
  <2>. QED
    BY <2>1, <2>2, BatchesKept, FewerHeldClaims DEF purchaseVars
<1>9. CASE Abandon \/ Revive
  BY <1>9, SamePodsClaims DEF Abandon, Revive, purchaseVars
<1>10. CASE UNCHANGED vars
  BY <1>10, SamePodsClaims DEF vars
<1>. QED
  BY <1>1, <1>2, <1>3, <1>4, <1>5, <1>6, <1>7, <1>8, <1>9, <1>10 DEF Next, PodStep

LEMMA ClaimsInvariant == Spec => []ClaimsOK
<1>1. Init => ClaimsOK
  BY DEF Init, ClaimsOK, SettledFromPending, BatchesDisjoint, Holding, Idle
<1>. QED
  BY <1>1, TypeCorrect, NextClaims, PTL DEF Spec

(***************************************************************************)
(* However many pods run, and whichever of them die or are robbed of their *)
(* runs by the sweeper, no purchase is ever in two open batches.           *)
(***************************************************************************)
THEOREM BatchesAlwaysDisjoint == Spec => []BatchesDisjoint
<1>1. ClaimsOK => BatchesDisjoint
  BY DEF ClaimsOK
<1>. QED
  BY <1>1, ClaimsInvariant, PTL

(***************************************************************************)
(* No batch ever meets the unique key of a settlement that is posted: the  *)
(* claim column settles the question before the ledger is asked.           *)
(***************************************************************************)
THEOREM SettlementsNeverReposted == Spec => []NeverReposts
<1>1. ClaimsOK => NeverReposts
  BY DEF ClaimsOK, NeverReposts, Reposts
<1>. QED
  BY <1>1, ClaimsInvariant, PTL

(***************************************************************************)
(* Whatever is settled was captured with a fee row, so that its net amount *)
(* is in PENDING when the batch moves it.                                  *)
(***************************************************************************)
THEOREM AlwaysSettledFromPending == Spec => []SettledFromPending
<1>1. ClaimsOK => SettledFromPending
  BY DEF ClaimsOK
<1>. QED
  BY <1>1, ClaimsInvariant, PTL

-----------------------------------------------------------------------------
(* Attempts.                                                               *)

LEMMA SameRunsAttempts ==
    ASSUME AttemptsOK, run' = run
    PROVE  AttemptsOK'
BY DEF AttemptsOK

LEMMA NextAttempts == TypeOK /\ AttemptsOK /\ [Next]_vars => AttemptsOK'
<1>. SUFFICES ASSUME TypeOK, AttemptsOK, [Next]_vars
              PROVE  AttemptsOK'
  OBVIOUS
<1>0. run \in [Runs -> RunRow] /\ MaxAttempts \in Nat \ {0}
  BY LimitAssumption DEF TypeOK
<1>1. ASSUME NEW p \in Purchases, Capture(p)
      PROVE  AttemptsOK'
  BY <1>1, SameRunsAttempts DEF Capture
<1>2. ASSUME NEW k \in Terms, BoundaryPasses(k)
      PROVE  AttemptsOK'
  BY <1>2, SameRunsAttempts DEF BoundaryPasses
<1>3. ASSUME NEW r \in Runs, WriteToSettlementRun(r)
      PROVE  AttemptsOK'
  BY <1>0, <1>3 DEF WriteToSettlementRun, NoRow, AttemptsOK
<1>4. ASSUME NEW r \in Runs, GoStale(r)
      PROVE  AttemptsOK'
  BY <1>0, <1>4 DEF GoStale, RunRow, AttemptsOK
<1>5. ASSUME NEW q \in Pods, NEW r \in Runs, ClaimOneRun(q, r)
      PROVE  AttemptsOK'
  BY <1>0, <1>5 DEF ClaimOneRun, RunRow, AttemptsOK
<1>6. ASSUME NEW q \in Pods,
             ResolveCutoff(q) \/ ClaimNothing(q) \/ ClaimBatch(q) \/ CommitBatch(q) \/ Fail(q)
      PROVE  AttemptsOK'
  BY <1>6, SameRunsAttempts
     DEF ResolveCutoff, ClaimNothing, ClaimBatch, CommitBatch, Fail, LeaveRunning
<1>7. ASSUME NEW q \in Pods, Finish(q)
      PROVE  AttemptsOK'
  BY <1>0, <1>7 DEF Finish, RunRow, AttemptsOK
<1>8. CASE Abandon
  BY <1>0, <1>8 DEF Abandon, RunRow, AttemptsOK
<1>9. CASE Revive
  <2>. SUFFICES ASSUME NEW r \in Runs
                PROVE  /\ run'[r].attempts <= MaxAttempts
                       /\ run'[r].status = "PENDING" => run'[r].attempts < MaxAttempts
    BY DEF AttemptsOK
  <2>1. run[r].attempts \in Nat
    BY <1>0 DEF RunRow
  <2>2. CASE MayRetry(r)
    <3>1. run'[r].attempts = run[r].attempts
      BY <1>0, <1>9, <2>2 DEF Revive, RunRow
    <3>2. ~(run[r].attempts >= MaxAttempts)
      BY <2>2 DEF MayRetry, Exhausted
    <3>. QED
      BY <1>0, <2>1, <3>1, <3>2
  <2>3. CASE ~MayRetry(r)
    <3>1. run'[r] = run[r]
      BY <1>9, <2>3 DEF Revive
    <3>. QED
      BY <3>1 DEF AttemptsOK
  <2>. QED
    BY <2>2, <2>3
<1>10. CASE UNCHANGED vars
  BY <1>10, SameRunsAttempts DEF vars
<1>. QED
  BY <1>1, <1>2, <1>3, <1>4, <1>5, <1>6, <1>7, <1>8, <1>9, <1>10 DEF Next, PodStep

(***************************************************************************)
(* A run is never claimed more than MAX_ATTEMPTS times, though the sweeper *)
(* alone enforces it and the claim does not look at the attempts.          *)
(***************************************************************************)
THEOREM AttemptsAlwaysBounded == Spec => []AttemptsBounded
<1>1. Init => AttemptsOK
  BY LimitAssumption DEF Init, NoRow, AttemptsOK
<1>2. AttemptsOK => AttemptsBounded
  BY DEF AttemptsOK, AttemptsBounded
<1>. QED
  BY <1>1, <1>2, TypeCorrect, NextAttempts, PTL DEF Spec

-----------------------------------------------------------------------------
(* Cutoffs.                                                                *)

LEMMA CutoffsAreNumbers ==
    ASSUME TypeOK
    PROVE  /\ \A k \in Terms : cutoff[k] \in 0 .. Horizon
           /\ \A p \in Purchases : Detail[p].paidAt \in 0 .. Horizon - 1
           /\ Horizon \in Nat
BY TermsAssumption, LimitAssumption DEF TypeOK

\* A cutoff that grows leaves what was paid before it paid before it.
LEMMA PaidBeforeKept ==
    ASSUME TypeOK, TypeOK', \A k \in Terms : cutoff[k] <= cutoff'[k],
           NEW p \in Purchases, PaidBeforeSome(p)
    PROVE  PaidBeforeSome(p)'
<1>1. PICK k \in Terms : Covers(k, p) /\ PaidBefore(p, cutoff[k])
  BY DEF PaidBeforeSome
<1>2. PaidBefore(p, cutoff'[k])
  BY <1>1, CutoffsAreNumbers DEF PaidBefore, TypeOK
<1>. QED
  BY <1>1, <1>2 DEF PaidBeforeSome

\* What the pod q has taken or is about to take is within its terms.
PodCutoffOK(q) ==
    /\ pod[q].at \in {"open", "commit"} => pod[q].cutoff <= cutoff[RunTerms[pod[q].run]]
    /\ \A p \in Holding(q) :
          Covers(RunTerms[pod[q].run], p) /\ PaidBefore(p, pod[q].cutoff)

LEMMA PodCutoffs == CutoffsOK <=> /\ \A q \in Pods : PodCutoffOK(q)
                                  /\ \A p \in settled : PaidBeforeSome(p)
BY DEF CutoffsOK, PodCutoffOK

LEMMA SamePodCutoff ==
    ASSUME TypeOK, cutoff' = cutoff, NEW s \in Pods, pod'[s] = pod[s], PodCutoffOK(s)
    PROVE  PodCutoffOK(s)'
BY DEF PodCutoffOK, Holding

\* A step of one pod: only its own place has to be looked at.
LEMMA OnePodCutoffs ==
    ASSUME TypeOK, CutoffsOK, UNCHANGED <<cutoff, settled>>, NEW q \in Pods,
           \A s \in Pods \ {q} : pod'[s] = pod[s],
           PodCutoffOK(q)'
    PROVE  CutoffsOK'
<1>1. \A s \in Pods : PodCutoffOK(s)'
  BY SamePodCutoff, PodCutoffs
<1>2. \A p \in settled' : PaidBeforeSome(p)'
  BY PodCutoffs DEF PaidBeforeSome
<1>. QED
  BY <1>1, <1>2 DEF CutoffsOK, PodCutoffOK

\* A pod that resolves a cutoff or is done with its batches.
LEMMA NoBatchCutoffs ==
    ASSUME TypeOK, CutoffsOK, UNCHANGED <<cutoff, settled>>,
           NEW q \in Pods, NEW next, next.at # "open", next.at # "commit",
           pod' = [pod EXCEPT ![q] = next]
    PROVE  CutoffsOK'
<1>1. pod'[q] = next /\ \A s \in Pods \ {q} : pod'[s] = pod[s]
  BY DEF TypeOK
<1>2. PodCutoffOK(q)'
  BY <1>1 DEF PodCutoffOK, Holding
<1>. QED
  BY <1>1, <1>2, OnePodCutoffs

LEMMA SamePodsCutoffs ==
    ASSUME CutoffsOK, UNCHANGED <<cutoff, settled, pod>>
    PROVE  CutoffsOK'
BY DEF CutoffsOK, Holding, PaidBeforeSome

LEMMA BoundaryCutoffs ==
    ASSUME TypeOK, TypeOK', CutoffsOK, NEW k \in Terms, BoundaryPasses(k)
    PROVE  CutoffsOK'
<1>1. \A j \in Terms : cutoff[j] <= cutoff'[j]
  BY LimitAssumption DEF BoundaryPasses, TypeOK
<1>2. ASSUME NEW q \in Pods
      PROVE  PodCutoffOK(q)'
  <2>1. pod' = pod /\ PodCutoffOK(q)
    BY PodCutoffs DEF BoundaryPasses
  <2>2. CASE pod[q].at \in {"open", "commit"}
    <3>1. pod[q].run \in Runs /\ pod[q].cutoff \in 1 .. Horizon
      BY <2>2, PodShapes DEF Idle
    <3>2. RunTerms[pod[q].run] \in Terms
      BY <3>1, RunsHaveTerms
    <3>3. /\ cutoff[RunTerms[pod[q].run]] \in Int
          /\ cutoff'[RunTerms[pod[q].run]] \in Int
      BY <3>2, LimitAssumption DEF TypeOK
    <3>. QED
      BY <1>1, <2>1, <2>2, <3>1, <3>2, <3>3, LimitAssumption DEF PodCutoffOK, Holding
  <2>3. CASE pod[q].at \notin {"open", "commit"}
    BY <2>1, <2>3 DEF PodCutoffOK, Holding
  <2>. QED
    BY <2>2, <2>3
<1>3. ASSUME NEW p \in settled'
      PROVE  PaidBeforeSome(p)'
  BY <1>1, <1>3, PaidBeforeKept, PodCutoffs DEF BoundaryPasses, TypeOK
<1>. QED
  BY <1>2, <1>3 DEF CutoffsOK, PodCutoffOK

LEMMA CommitCutoffs ==
    ASSUME TypeOK, CutoffsOK, NEW q \in Pods, CommitBatch(q)
    PROVE  CutoffsOK'
<1>1. /\ pod[q].run \in Runs
      /\ RunTerms[pod[q].run] \in Terms
      /\ pod[q].cutoff \in 1 .. Horizon
      /\ pod[q].rows \subseteq Purchases
  BY PodShapes, RunsHaveTerms DEF CommitBatch, Idle
<1>2. /\ pod[q].cutoff <= cutoff[RunTerms[pod[q].run]]
      /\ \A p \in pod[q].rows :
            Covers(RunTerms[pod[q].run], p) /\ PaidBefore(p, pod[q].cutoff)
  BY DEF CutoffsOK, CommitBatch, Holding
<1>3. ASSUME NEW p \in pod[q].rows
      PROVE  PaidBeforeSome(p)
  <2>1. PaidBefore(p, cutoff[RunTerms[pod[q].run]])
    BY <1>1, <1>2, CutoffsAreNumbers DEF PaidBefore
  <2>. QED
    BY <1>1, <1>2, <2>1 DEF PaidBeforeSome
<1>4. /\ settled' = settled \cup pod[q].rows
      /\ cutoff' = cutoff
      /\ \A s \in Pods \ {q} : pod'[s] = pod[s]
  BY DEF CommitBatch, TypeOK
<1>5. \A p \in settled' : PaidBeforeSome(p)'
  BY <1>3, <1>4 DEF CutoffsOK, PaidBeforeSome
<1>6. PodCutoffOK(q)'
  <2>1. CASE Cardinality(pod[q].rows) < ClaimLimit
    <3>1. pod'[q] = [at |-> "finish", run |-> pod[q].run]
      BY <2>1 DEF CommitBatch, TypeOK
    <3>. QED
      BY <3>1 DEF PodCutoffOK, Holding
  <2>2. CASE ~(Cardinality(pod[q].rows) < ClaimLimit)
    <3>1. pod'[q] = [at |-> "open", run |-> pod[q].run, cutoff |-> pod[q].cutoff]
      BY <2>2 DEF CommitBatch, TypeOK
    <3>. QED
      BY <1>2, <1>4, <3>1 DEF PodCutoffOK, Holding
  <2>. QED
    BY <2>1, <2>2
<1>7. \A s \in Pods : PodCutoffOK(s)'
  BY <1>4, <1>6, SamePodCutoff, PodCutoffs
<1>. QED
  BY <1>5, <1>7 DEF CutoffsOK, PodCutoffOK

LEMMA ClaimBatchCutoffs ==
    ASSUME TypeOK, CutoffsOK, NEW q \in Pods, ClaimBatch(q)
    PROVE  CutoffsOK'
<1>1. PICK rows \in SUBSET Ripe(q) :
         pod' = [pod EXCEPT ![q] = [at |-> "commit", run |-> pod[q].run,
                                    cutoff |-> pod[q].cutoff, rows |-> rows]]
  BY DEF ClaimBatch, TypeOK
<1>2. /\ pod'[q] = [at |-> "commit", run |-> pod[q].run,
                    cutoff |-> pod[q].cutoff, rows |-> rows]
      /\ \A s \in Pods \ {q} : pod'[s] = pod[s]
  BY <1>1 DEF TypeOK
<1>3. UNCHANGED <<cutoff, settled>>
  BY DEF ClaimBatch, purchaseVars
<1>4. \A p \in rows : Covers(RunTerms[pod[q].run], p) /\ PaidBefore(p, pod[q].cutoff)
  BY DEF Ripe
<1>5. pod[q].cutoff <= cutoff[RunTerms[pod[q].run]]
  BY DEF CutoffsOK, ClaimBatch
<1>6. PodCutoffOK(q)'
  BY <1>2, <1>3, <1>4, <1>5 DEF PodCutoffOK, Holding
<1>. QED
  BY <1>2, <1>3, <1>6, OnePodCutoffs

LEMMA ResolveCutoffs ==
    ASSUME TypeOK, CutoffsOK, NEW q \in Pods, ResolveCutoff(q)
    PROVE  CutoffsOK'
<1>1. UNCHANGED <<cutoff, settled>>
  BY DEF ResolveCutoff, purchaseVars
<1>2. CASE IsNull(cutoff[RunTerms[pod[q].run]])
  <2>1. pod' = [pod EXCEPT ![q] = [at |-> "finish", run |-> pod[q].run]]
    BY <1>2 DEF ResolveCutoff, TypeOK
  <2>. QED
    BY <1>1, <2>1, NoBatchCutoffs
<1>3. CASE ~IsNull(cutoff[RunTerms[pod[q].run]])
  <2>1. /\ pod'[q] = [at |-> "open", run |-> pod[q].run,
                      cutoff |-> cutoff[RunTerms[pod[q].run]]]
        /\ \A s \in Pods \ {q} : pod'[s] = pod[s]
    BY <1>3 DEF ResolveCutoff, TypeOK
  <2>2. cutoff[RunTerms[pod[q].run]] \in Int
    BY PodShapes, RunsHaveTerms, LimitAssumption DEF ResolveCutoff, Idle, TypeOK
  <2>3. PodCutoffOK(q)'
    BY <1>1, <2>1, <2>2 DEF PodCutoffOK, Holding
  <2>. QED
    BY <1>1, <2>1, <2>3, OnePodCutoffs
<1>. QED
  BY <1>2, <1>3

LEMMA NextCutoffs == TypeOK /\ CutoffsOK /\ [Next]_vars => CutoffsOK'
<1>. SUFFICES ASSUME TypeOK, CutoffsOK, [Next]_vars
              PROVE  CutoffsOK'
  OBVIOUS
<1>1. ASSUME NEW p \in Purchases, Capture(p)
      PROVE  CutoffsOK'
  BY <1>1, SamePodsCutoffs DEF Capture
<1>2. ASSUME NEW k \in Terms, BoundaryPasses(k)
      PROVE  CutoffsOK'
  BY <1>2, NextTyped, BoundaryCutoffs
<1>3. ASSUME NEW r \in Runs, WriteToSettlementRun(r) \/ GoStale(r)
      PROVE  CutoffsOK'
  BY <1>3, SamePodsCutoffs DEF WriteToSettlementRun, GoStale, purchaseVars
<1>4. ASSUME NEW q \in Pods, NEW r \in Runs, ClaimOneRun(q, r)
      PROVE  CutoffsOK'
  BY <1>4, NoBatchCutoffs DEF ClaimOneRun
<1>5. ASSUME NEW q \in Pods, ResolveCutoff(q) \/ ClaimBatch(q) \/ CommitBatch(q)
      PROVE  CutoffsOK'
  BY <1>5, ResolveCutoffs, ClaimBatchCutoffs, CommitCutoffs
<1>6. ASSUME NEW q \in Pods, ClaimNothing(q)
      PROVE  CutoffsOK'
  <2>1. pod' = [pod EXCEPT ![q] = [at |-> "finish", run |-> pod[q].run]]
    BY <1>6 DEF ClaimNothing, TypeOK
  <2>. QED
    BY <1>6, <2>1, NoBatchCutoffs DEF ClaimNothing, purchaseVars
<1>7. ASSUME NEW q \in Pods, Finish(q) \/ Fail(q)
      PROVE  CutoffsOK'
  <2>1. pod' = [pod EXCEPT ![q] = Idle] /\ UNCHANGED <<cutoff, settled>>
    BY <1>7 DEF Finish, Fail, LeaveRunning, purchaseVars
  <2>2. Idle.at # "open" /\ Idle.at # "commit"
    BY DEF Idle
  <2>. QED
    BY <2>1, <2>2, NoBatchCutoffs
<1>8. CASE Abandon \/ Revive
  BY <1>8, SamePodsCutoffs DEF Abandon, Revive, purchaseVars
<1>9. CASE UNCHANGED vars
  BY <1>9, SamePodsCutoffs DEF vars
<1>. QED
  BY <1>1, <1>2, <1>3, <1>4, <1>5, <1>6, <1>7, <1>8, <1>9 DEF Next, PodStep

(***************************************************************************)
(* Whatever is settled was paid before the cutoff of some terms that cover *)
(* it, however stale the cutoff was that its pod had resolved.             *)
(***************************************************************************)
THEOREM NeverBeforeEveryCutoff ==
    Spec => [](\A p \in settled : PaidBeforeSome(p))
<1>1. Init => CutoffsOK
  BY DEF Init, CutoffsOK, Holding, Idle
<1>2. CutoffsOK => \A p \in settled : PaidBeforeSome(p)
  BY DEF CutoffsOK
<1>. QED
  BY <1>1, <1>2, TypeCorrect, NextCutoffs, PTL DEF Spec

\* No policy names a method that the merchant's default covers too.
NoOverride ==
    \A p \in Purchases : \A k, j \in Terms : Covers(k, p) /\ Covers(j, p) => k = j

(***************************************************************************)
(* For a merchant none of whose methods has terms of its own beside the    *)
(* default, no purchase is settled early.  With an override, what is left  *)
(* of the promise is NeverBeforeEveryCutoff.                               *)
(***************************************************************************)
THEOREM NeverEarlyWithoutOverride ==
    ASSUME NoOverride
    PROVE  Spec => []NeverEarly
<1>1. TypeOK /\ (\A p \in settled : PaidBeforeSome(p)) => NeverEarly
  <2>. SUFFICES ASSUME TypeOK, \A p \in settled : PaidBeforeSome(p), NEW p \in settled
                PROVE  Detail[p].paidAt < cutoff[OwnTerms(p)]
    BY DEF NeverEarly
  <2>1. p \in Purchases
    BY DEF TypeOK
  <2>2. PICK k \in Terms : Covers(k, p) /\ PaidBefore(p, cutoff[k])
    BY DEF PaidBeforeSome
  <2>3. \A j \in Terms : Covers(j, p) => j = k
    BY <2>1, <2>2 DEF NoOverride
  <2>4. OwnTerms(p) = k
    BY <2>2, <2>3 DEF OwnTerms
  <2>. QED
    BY <2>2, <2>4 DEF PaidBefore
<1>. QED
  BY <1>1, TypeCorrect, NeverBeforeEveryCutoff, PTL

-----------------------------------------------------------------------------
(* The promise.                                                            *)

\* What a claim hands to its commit: at least one purchase, at most the limit.
BatchSize(rows) == rows # {} /\ Cardinality(rows) <= ClaimLimit

BatchesSized == \A q \in Pods : pod[q].at = "commit" => BatchSize(pod[q].rows)

\* A step of one pod that opens no batch.
LEMMA NoBatchSized ==
    ASSUME TypeOK, BatchesSized, NEW q \in Pods, NEW next, next.at # "commit",
           pod' = [pod EXCEPT ![q] = next]
    PROVE  BatchesSized'
BY DEF TypeOK, BatchesSized

LEMMA NextSized == TypeOK /\ BatchesSized /\ [Next]_vars => BatchesSized'
<1>. SUFFICES ASSUME TypeOK, BatchesSized, [Next]_vars
              PROVE  BatchesSized'
  OBVIOUS
<1>1. ASSUME pod' = pod
      PROVE  BatchesSized'
  BY <1>1 DEF BatchesSized
<1>2. ASSUME NEW q \in Pods, NEW r \in Runs, ClaimOneRun(q, r)
      PROVE  BatchesSized'
  BY <1>2, NoBatchSized DEF ClaimOneRun
<1>3. ASSUME NEW q \in Pods, ResolveCutoff(q)
      PROVE  BatchesSized'
  <2>1. CASE IsNull(cutoff[RunTerms[pod[q].run]])
    <3>1. pod' = [pod EXCEPT ![q] = [at |-> "finish", run |-> pod[q].run]]
      BY <1>3, <2>1 DEF ResolveCutoff, TypeOK
    <3>. QED
      BY <3>1, NoBatchSized
  <2>2. CASE ~IsNull(cutoff[RunTerms[pod[q].run]])
    <3>1. pod' = [pod EXCEPT ![q] = [at |-> "open", run |-> pod[q].run,
                                     cutoff |-> cutoff[RunTerms[pod[q].run]]]]
      BY <1>3, <2>2 DEF ResolveCutoff, TypeOK
    <3>. QED
      BY <3>1, NoBatchSized
  <2>. QED
    BY <2>1, <2>2
<1>4. ASSUME NEW q \in Pods, ClaimNothing(q)
      PROVE  BatchesSized'
  <2>1. pod' = [pod EXCEPT ![q] = [at |-> "finish", run |-> pod[q].run]]
    BY <1>4 DEF ClaimNothing, TypeOK
  <2>. QED
    BY <2>1, NoBatchSized
<1>5. ASSUME NEW q \in Pods, ClaimBatch(q)
      PROVE  BatchesSized'
  <2>1. PICK rows \in (SUBSET Ripe(q)) \ {{}} :
           /\ IsClaim(rows, Ripe(q))
           /\ pod' = [pod EXCEPT ![q] = [at |-> "commit", run |-> pod[q].run,
                                         cutoff |-> pod[q].cutoff, rows |-> rows]]
    BY <1>5 DEF ClaimBatch, TypeOK
  <2>2. BatchSize(rows)
    BY <2>1 DEF IsClaim, BatchSize
  <2>. QED
    BY <2>1, <2>2 DEF BatchesSized, TypeOK
<1>6. ASSUME NEW q \in Pods, CommitBatch(q)
      PROVE  BatchesSized'
  <2>1. CASE Cardinality(pod[q].rows) < ClaimLimit
    <3>1. pod' = [pod EXCEPT ![q] = [at |-> "finish", run |-> pod[q].run]]
      BY <1>6, <2>1 DEF CommitBatch, TypeOK
    <3>. QED
      BY <3>1, NoBatchSized
  <2>2. CASE ~(Cardinality(pod[q].rows) < ClaimLimit)
    <3>1. pod' = [pod EXCEPT ![q] = [at |-> "open", run |-> pod[q].run,
                                     cutoff |-> pod[q].cutoff]]
      BY <1>6, <2>2 DEF CommitBatch, TypeOK
    <3>. QED
      BY <3>1, NoBatchSized
  <2>. QED
    BY <2>1, <2>2
<1>7. ASSUME NEW q \in Pods, Finish(q) \/ Fail(q)
      PROVE  BatchesSized'
  <2>1. pod' = [pod EXCEPT ![q] = Idle]
    BY <1>7 DEF Finish, Fail, LeaveRunning
  <2>2. Idle.at # "commit"
    BY DEF Idle
  <2>. QED
    BY <2>1, <2>2, NoBatchSized
<1>. QED
  BY <1>1, <1>2, <1>3, <1>4, <1>5, <1>6, <1>7
     DEF Next, PodStep, vars, Capture, BoundaryPasses, WriteToSettlementRun, GoStale,
         Abandon, Revive

\* What an open batch may commit is what may be settled under its terms now,
\* however long ago its cutoff was resolved.
LEMMA HeldIsPayable ==
    ASSUME TypeOK, ClaimsOK, CutoffsOK, NEW q \in Pods, pod[q].at = "commit"
    PROVE  /\ RunTerms[pod[q].run] \in Terms
           /\ pod[q].rows \subseteq Promise!Payable(RunTerms[pod[q].run])
<1>1. /\ pod[q].run \in Runs
      /\ RunTerms[pod[q].run] \in Terms
      /\ pod[q].cutoff \in 1 .. Horizon
      /\ pod[q].rows \subseteq Purchases
  BY PodShapes, RunsHaveTerms DEF Idle
<1>2. pod[q].cutoff <= cutoff[RunTerms[pod[q].run]]
  BY DEF CutoffsOK
<1>3. ASSUME NEW p \in pod[q].rows
      PROVE  p \in Promise!Payable(RunTerms[pod[q].run])
  <2>1. p \in Holding(q) /\ p \in Purchases
    BY <1>1, <1>3 DEF Holding
  <2>2. p \in captured /\ p \notin settled /\ Detail[p].hasFee
    BY <2>1 DEF ClaimsOK
  <2>3. Covers(RunTerms[pod[q].run], p) /\ PaidBefore(p, pod[q].cutoff)
    BY <2>1 DEF CutoffsOK
  <2>4. Detail[p].paidAt # 0 /\ Detail[p].paidAt < cutoff[RunTerms[pod[q].run]]
    BY <1>1, <1>2, <2>1, <2>3, CutoffsAreNumbers DEF PaidBefore
  <2>. QED
    BY <2>2, <2>3, <2>4 DEF Promise!Payable, Covers
<1>. QED
  BY <1>1, <1>3

LEMMA SameCardinality == \A S : Promise!Cardinality(S) = Cardinality(S)
BY DEF Promise!Cardinality, Cardinality

LEMMA CommitSettles ==
    ASSUME TypeOK, ClaimsOK, CutoffsOK, BatchesSized, NEW q \in Pods, CommitBatch(q)
    PROVE  Promise!Next
<1>1. pod[q].at = "commit"
  BY DEF CommitBatch
<1>2. RunTerms[pod[q].run] \in Terms /\ pod[q].rows \subseteq Promise!Payable(RunTerms[pod[q].run])
  BY <1>1, HeldIsPayable
<1>3. pod[q].rows # {} /\ Cardinality(pod[q].rows) <= ClaimLimit
  BY <1>1 DEF BatchesSized, BatchSize
<1>4. /\ settled' = settled \cup pod[q].rows
      /\ posted' = posted \cup pod[q].rows
      /\ UNCHANGED <<captured, cutoff>>
  BY DEF CommitBatch
<1>5. Promise!Settle(RunTerms[pod[q].run], pod[q].rows)
  BY <1>2, <1>3, <1>4, SameCardinality DEF Promise!Settle
<1>. QED
  BY <1>2, <1>5 DEF Promise!Next

\* Every step of the engine is a step of the promise or changes nothing of it.
LEMMA StepsKeepPromise ==
    TypeOK /\ ClaimsOK /\ CutoffsOK /\ BatchesSized /\ [Next]_vars
       => [Promise!Next]_(Promise!vars)
<1>. SUFFICES ASSUME TypeOK, ClaimsOK, CutoffsOK, BatchesSized, [Next]_vars
              PROVE  Promise!Next \/ UNCHANGED Promise!vars
  OBVIOUS
<1>1. ASSUME NEW p \in Purchases, Capture(p)
      PROVE  Promise!Next
  BY <1>1 DEF Capture, Promise!Capture, Promise!Next
<1>2. ASSUME NEW k \in Terms, BoundaryPasses(k)
      PROVE  Promise!Next \/ UNCHANGED Promise!vars
  <2>1. CASE cutoff' = cutoff
    BY <1>2, <2>1 DEF BoundaryPasses, Promise!vars
  <2>2. CASE cutoff' = [cutoff EXCEPT ![k] = @ + 1]
    <3>1. cutoff[k] < Horizon
      BY <1>2, <2>2, CutoffsAreNumbers DEF BoundaryPasses, TypeOK
    <3>2. Promise!Advance(k)
      BY <1>2, <2>2, <3>1 DEF BoundaryPasses, Promise!Advance
    <3>. QED
      BY <3>2 DEF Promise!Next
  <2>. QED
    BY <1>2, <2>1, <2>2 DEF BoundaryPasses
<1>3. ASSUME NEW q \in Pods, CommitBatch(q)
      PROVE  Promise!Next
  BY <1>3, CommitSettles
<1>4. ASSUME UNCHANGED <<captured, settled, posted, cutoff>>
      PROVE  UNCHANGED Promise!vars
  BY <1>4 DEF Promise!vars
<1>. QED
  BY <1>1, <1>2, <1>3, <1>4
     DEF Next, PodStep, vars, purchaseVars, WriteToSettlementRun, GoStale, ClaimOneRun,
         ResolveCutoff, ClaimNothing, ClaimBatch, Finish, Fail, LeaveRunning,
         Abandon, Revive

(***************************************************************************)
(* The engine implements the safety of Settlement: with any number of pods *)
(* that crash, stall and lose their runs to the sweeper, captured money is *)
(* moved once, with the mark that says so, in batches of at most the claim *)
(* limit, and only what the cutoff of its terms has passed.                *)
(***************************************************************************)
THEOREM EngineImplementsSettlement == Spec => Promise!Spec
<1>1. Init => Promise!Init /\ CutoffsOK /\ BatchesSized
  BY DEF Init, Promise!Init, CutoffsOK, Holding, BatchesSized, Idle
<1>. QED
  BY <1>1, TypeCorrect, ClaimsInvariant, NextCutoffs, NextSized, StepsKeepPromise, PTL
     DEF Spec, Promise!Spec

=============================================================================

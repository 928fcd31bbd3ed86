-------------------------- MODULE SettlementEngine --------------------------
(***************************************************************************)
(* apps/settlement: the enqueuer, the runner and the sweeper, on any       *)
(* number of pods, over the SettlementRun and PurchaseTransaction tables.  *)
(*                                                                         *)
(* Each SQL statement outside an interactive transaction is one action.    *)
(* settleOneBatch is two: the claim, which locks the rows it takes, and    *)
(* the commit, between which a batch may still fail.  What the commit does *)
(* to the balances is BalanceLedger's subject; here a purchase's movement  *)
(* is posted or not.                                                       *)
(*                                                                         *)
(* Time is abstract.  The moments at which purchases were paid are ordered *)
(* by small numbers, and cutoff[k] is what settlementCutoff answers now    *)
(* for the terms k: it only grows, and 0 stands for null.                  *)
(***************************************************************************)
EXTENDS Integers, FiniteSets

CONSTANTS
    Pods,           \* settlement processes
    Purchases,      \* PurchaseTransaction rows
    Detail,         \* [Purchases -> merchant, method, paidAt (0: null), hasFee]
    Terms,          \* merchant and method ("*": every method) that have a policy
    Runs,           \* room for SettlementRun rows
    RunTerms,       \* [Runs -> Terms], the terms a row is enqueued for
    Horizon,        \* bound of the cutoffs
    ClaimLimit,     \* CLAIM_LIMIT
    MaxAttempts,    \* MAX_ATTEMPTS
    MaxFailures     \* bound of the failed batches, failed updates and crashes

ASSUME TermsAssumption ==
    /\ RunTerms \in [Runs -> Terms]
    /\ \A p \in Purchases : Detail[p].paidAt \in 0 .. Horizon - 1

ASSUME LimitAssumption ==
    /\ Horizon \in Nat
    /\ ClaimLimit \in Nat \ {0}
    /\ MaxAttempts \in Nat \ {0}
    /\ MaxFailures \in Nat

VARIABLES
    captured,       \* purchases whose status is SUCCESS
    settled,        \* purchases whose batchSettlementId is not NULL
    posted,         \* purchases whose MERCHANT_SETTLED entries are committed
    cutoff,         \* [Terms -> the cutoff at this moment]
    due,            \* [Terms -> has a boundary passed that has no run yet?]
    run,            \* the SettlementRun rows
    pod,            \* where each pod's drain is
    failures        \* how many things went wrong so far

vars == <<captured, settled, posted, cutoff, due, run, pod, failures>>
purchaseVars == <<captured, settled, posted>>

\* "NONE": no row.  "DONE" and "FAILED" rows make room when nobody works on them.
RunStatus == {"NONE", "PENDING", "RUNNING", "DONE", "FAILED"}

RunRow == [status : RunStatus, attempts : Nat, stale : BOOLEAN]

NoRow == [status |-> "NONE", attempts |-> 0, stale |-> FALSE]

\* `at` is the next thing a pod does: look for a run, resolve its cutoff,
\* open a batch, commit it, or mark the run DONE.
Idle == [at |-> "idle"]

Working(q, r) == pod[q] # Idle /\ pod[q].run = r

Holding(q) == IF pod[q].at = "commit" THEN pod[q].rows ELSE {}

Covers(k, p) ==
    /\ k.merchant = Detail[p].merchant
    /\ k.method \in {"*", Detail[p].method}

Init ==
    /\ captured = {}
    /\ settled = {}
    /\ posted = {}
    /\ cutoff = [k \in Terms |-> 0]
    /\ due = [k \in Terms |-> FALSE]
    /\ run = [r \in Runs |-> NoRow]
    /\ pod = [q \in Pods |-> Idle]
    /\ failures = 0

-----------------------------------------------------------------------------
(* The world: payments arrive, in any order and however late, and time     *)
(* passes.                                                                 *)

Capture(p) ==
    /\ p \notin captured
    /\ captured' = captured \cup {p}
    /\ UNCHANGED <<settled, posted, cutoff, due, run, pod, failures>>

\* A release boundary of the terms k; it may move the cutoff past a payment.
BoundaryPasses(k) ==
    /\ cutoff' \in {cutoff, [cutoff EXCEPT ![k] = @ + 1]}
    /\ cutoff'[k] <= Horizon
    /\ due' = [due EXCEPT ![k] = TRUE]
    /\ UNCHANGED <<captured, settled, posted, run, pod, failures>>

-----------------------------------------------------------------------------
(* The enqueuer.  The unique key on merchant, method and dueAt turns the   *)
(* second insert for a boundary into nothing.                              *)

WriteToSettlementRun(r) ==
    /\ due[RunTerms[r]]
    /\ run[r].status \in {"NONE", "DONE", "FAILED"}
    /\ \A q \in Pods : ~Working(q, r)
    /\ due' = [due EXCEPT ![RunTerms[r]] = FALSE]
    /\ run' = [run EXCEPT ![r] = [NoRow EXCEPT !.status = "PENDING"]]
    /\ UNCHANGED <<captured, settled, posted, cutoff, pod, failures>>

-----------------------------------------------------------------------------
(* The runner.                                                             *)

\* claimOneRun.
ClaimOneRun(q, r) ==
    /\ pod[q] = Idle
    /\ run[r].status = "PENDING"
    /\ run' = [run EXCEPT ![r] = [status   |-> "RUNNING",
                                  attempts |-> @.attempts + 1,
                                  stale    |-> FALSE]]
    /\ pod' = [pod EXCEPT ![q] = [at |-> "resolve", run |-> r]]
    /\ UNCHANGED <<captured, settled, posted, cutoff, due, failures>>

IsNull(c) == c = 0

\* resolveCutoff: with no cutoff the run settles nothing.
ResolveCutoff(q) ==
    /\ pod[q].at = "resolve"
    /\ LET now == cutoff[RunTerms[pod[q].run]]
       IN  pod' = [pod EXCEPT ![q] =
                     IF IsNull(now) THEN [at |-> "finish", run |-> @.run]
                     ELSE [at |-> "open", run |-> @.run, cutoff |-> now]]
    /\ UNCHANGED <<purchaseVars, cutoff, due, run, failures>>

\* Mutant: a claim that does not ask for batchSettlementId IS NULL.
ForgetsNull(p) == p \in captured

Unsettled(p) == p \in captured /\ p \notin settled

\* Mutant: a claim that does not ask for a fee row.
AnyFee(p) == p \in Purchases

FeeExists(p) == Detail[p].hasFee

\* Mutant: a claim that ignores the locks of the other batches.
IgnoresLocks(q, p) == q \in Pods /\ p \in Purchases

SkipLocked(q, p) == \A other \in Pods \ {q} : p \notin Holding(other)

\* Mutant: paidAt compared the wrong way round.
PaidAfter(p, c) == Detail[p].paidAt # 0 /\ Detail[p].paidAt >= c

\* Mutant: paidAt compared with <= instead of <.
PaidByCutoff(p, c) == Detail[p].paidAt # 0 /\ Detail[p].paidAt <= c

PaidBefore(p, c) == Detail[p].paidAt # 0 /\ Detail[p].paidAt < c

Ripe(q) ==
    {p \in Purchases : /\ Covers(RunTerms[pod[q].run], p)
                       /\ Unsettled(p)
                       /\ PaidBefore(p, pod[q].cutoff)
                       /\ FeeExists(p)
                       /\ SkipLocked(q, p)}

\* The claim: the oldest ClaimLimit of the ripe purchases.
IsClaim(rows, ripe) ==
    /\ rows \subseteq ripe
    /\ Cardinality(rows) <= ClaimLimit
    /\ rows # ripe => Cardinality(rows) = ClaimLimit
    /\ \A p \in rows, s \in ripe \ rows : Detail[p].paidAt <= Detail[s].paidAt

\* The claim finds nothing: the batch row is deleted again, the run is over.
ClaimNothing(q) ==
    /\ pod[q].at = "open"
    /\ Ripe(q) = {}
    /\ pod' = [pod EXCEPT ![q] = [at |-> "finish", run |-> @.run]]
    /\ UNCHANGED <<purchaseVars, cutoff, due, run, failures>>

ClaimBatch(q) ==
    /\ pod[q].at = "open"
    /\ \E rows \in (SUBSET Ripe(q)) \ {{}} :
          /\ IsClaim(rows, Ripe(q))
          /\ pod' = [pod EXCEPT ![q] = [at     |-> "commit",
                                        run    |-> @.run,
                                        cutoff |-> @.cutoff,
                                        rows   |-> rows]]
    /\ UNCHANGED <<purchaseVars, cutoff, due, run, failures>>

\* post meets the unique key of an entry that is there already.
Reposts(q) == Holding(q) \cap posted # {}

\* The batch commits; under the cap means the claim exhausted what was ripe.
CommitBatch(q) ==
    /\ pod[q].at = "commit"
    /\ ~Reposts(q)
    /\ settled' = settled \cup pod[q].rows
    /\ posted' = posted \cup pod[q].rows
    /\ pod' = [pod EXCEPT ![q] =
                 IF Cardinality(@.rows) < ClaimLimit
                 THEN [at |-> "finish", run |-> @.run]
                 ELSE [at |-> "open", run |-> @.run, cutoff |-> @.cutoff]]
    /\ UNCHANGED <<captured, cutoff, due, run, failures>>

\* A throw: the open batch rolls back, the run is left RUNNING.
LeaveRunning(q) ==
    /\ pod' = [pod EXCEPT ![q] = Idle]
    /\ UNCHANGED <<purchaseVars, cutoff, due, run>>

\* Any throw, the unique key's among them, or the end of the process.
Fail(q) ==
    /\ pod[q] # Idle
    /\ IF Reposts(q) THEN UNCHANGED failures
       ELSE failures < MaxFailures /\ failures' = failures + 1
    /\ LeaveRunning(q)

\* The update that ends the run asks for nothing but the run's id.
Finish(q) ==
    /\ pod[q].at = "finish"
    /\ run' = [run EXCEPT ![pod[q].run].status = "DONE"]
    /\ pod' = [pod EXCEPT ![q] = Idle]
    /\ UNCHANGED <<purchaseVars, cutoff, due, failures>>

-----------------------------------------------------------------------------
(* The sweeper: two statements, which match no row in common.              *)

\* STALE_AFTER_MINUTES have passed since the claim, the pod alive or not.
GoStale(r) ==
    /\ run[r].status = "RUNNING"
    /\ ~run[r].stale
    /\ run' = [run EXCEPT ![r].stale = TRUE]
    /\ UNCHANGED <<purchaseVars, cutoff, due, pod, failures>>

StaleRuns == {r \in Runs : run[r].status = "RUNNING" /\ run[r].stale}

Exhausted(r) == run[r].attempts >= MaxAttempts

Abandon ==
    /\ \E r \in StaleRuns : Exhausted(r)
    /\ run' = [r \in Runs |->
                 IF r \in StaleRuns /\ Exhausted(r)
                 THEN [run[r] EXCEPT !.status = "FAILED"] ELSE run[r]]
    /\ UNCHANGED <<purchaseVars, cutoff, due, pod, failures>>

\* Mutant: every stale run returns to PENDING.
MayRetryForever(r) == r \in StaleRuns

\* Mutant: no run returns to PENDING.
MayNeverRetry(r) == r \in StaleRuns /\ FALSE

MayRetry(r) == r \in StaleRuns /\ ~Exhausted(r)

Revive ==
    /\ \E r \in Runs : MayRetry(r)
    /\ run' = [r \in Runs |->
                 IF MayRetry(r)
                 THEN [run[r] EXCEPT !.status = "PENDING", !.stale = FALSE] ELSE run[r]]
    /\ UNCHANGED <<purchaseVars, cutoff, due, pod, failures>>

-----------------------------------------------------------------------------
PodStep(q) ==
    \/ ResolveCutoff(q)
    \/ ClaimNothing(q)
    \/ ClaimBatch(q)
    \/ CommitBatch(q)
    \/ Finish(q)

Next ==
    \/ \E p \in Purchases : Capture(p)
    \/ \E k \in Terms : BoundaryPasses(k)
    \/ \E r \in Runs : WriteToSettlementRun(r) \/ GoStale(r)
    \/ \E q \in Pods, r \in Runs : ClaimOneRun(q, r)
    \/ \E q \in Pods : PodStep(q) \/ Fail(q)
    \/ Abandon
    \/ Revive

Spec == Init /\ [][Next]_vars

(***************************************************************************)
(* The crons keep firing, a living pod keeps stepping, and boundaries keep *)
(* passing.  The runner takes due runs oldest first, so no run is passed   *)
(* over for ever.  Nothing obliges payments to arrive or pods to fail.     *)
(***************************************************************************)
Fairness ==
    /\ \A k \in Terms : /\ WF_vars(BoundaryPasses(k))
                        /\ WF_vars(BoundaryPasses(k) /\ cutoff' # cutoff)
    /\ \A r \in Runs : /\ WF_vars(WriteToSettlementRun(r))
                       /\ WF_vars(GoStale(r))
                       /\ SF_vars(\E q \in Pods : ClaimOneRun(q, r))
    /\ \A q \in Pods : WF_vars(PodStep(q))
    /\ WF_vars(Abandon)
    /\ WF_vars(Revive)

FairSpec == Spec /\ Fairness

-----------------------------------------------------------------------------
(* Properties                                                              *)

PodState ==
    {Idle}
      \cup [at : {"resolve", "finish"}, run : Runs]
      \cup [at : {"open"}, run : Runs, cutoff : 1 .. Horizon]
      \cup [at : {"commit"}, run : Runs, cutoff : 1 .. Horizon,
            rows : SUBSET Purchases]

TypeOK ==
    /\ captured \subseteq Purchases
    /\ settled \subseteq Purchases
    /\ posted \subseteq Purchases
    /\ cutoff \in [Terms -> 0 .. Horizon]
    /\ due \in [Terms -> BOOLEAN]
    /\ run \in [Runs -> RunRow]
    /\ pod \in [Pods -> PodState]
    /\ failures \in 0 .. MaxFailures

(***************************************************************************)
(* The claim column is the correctness mechanism: a pod killed, slow or    *)
(* robbed of its run by the sweeper never makes another pod claim what it  *)
(* has claimed or what is settled.                                         *)
(***************************************************************************)
BatchesDisjoint ==
    \A q, s \in Pods : q # s => Holding(q) \cap Holding(s) = {}

(***************************************************************************)
(* The unique key of BalanceEntry is a third line of defence that the run  *)
(* claim and the column claim never need: no open batch contains a         *)
(* purchase whose settlement is posted, so no batch fails for ever on one. *)
(***************************************************************************)
NeverReposts == \A q \in Pods : ~Reposts(q)

(***************************************************************************)
(* A purchase without fee rows put its gross amount in PENDING; settling   *)
(* it from fee rows would move money that is not there.                    *)
(***************************************************************************)
SettledFromPending ==
    \A p \in settled : p \in captured /\ Detail[p].hasFee

(***************************************************************************)
(* A run that cannot be completed is claimed MAX_ATTEMPTS times and never  *)
(* again, however its pods die and whichever sweeper sees it first.        *)
(***************************************************************************)
AttemptsBounded == \A r \in Runs : run[r].attempts <= MaxAttempts

\* The terms of a purchase: the policy that names its method, else the default.
OwnTerms(p) ==
    CHOOSE k \in Terms :
        /\ Covers(k, p)
        /\ k.method = "*" => ~\E other \in Terms : Covers(other, p) /\ other # k

(***************************************************************************)
(* No merchant is paid early: a settled purchase was paid before the       *)
(* cutoff of its own terms.                                                *)
(***************************************************************************)
NeverEarly ==
    \A p \in settled : Detail[p].paidAt < cutoff[OwnTerms(p)]

(***************************************************************************)
(* Every captured purchase that has a fee row and a paidAt is settled in   *)
(* the end, through crashes, slow pods and rolled back batches.            *)
(***************************************************************************)
Claimable(p) == Detail[p].hasFee /\ Detail[p].paidAt # 0

SettledInTheEnd ==
    \A p \in Purchases : Claimable(p) => (p \in captured ~> p \in settled)

(***************************************************************************)
(* No run stays on the list or in a dead pod's hands for ever.             *)
(***************************************************************************)
RunsEnd ==
    \A r \in Runs :
        run[r].status = "PENDING" ~> run[r].status \in {"DONE", "FAILED"}

(***************************************************************************)
(* Pods, runs, locks, retries and crashes change nothing of what Settlement *)
(* promises: every step of the engine is a step of it or is not seen, and   *)
(* what stays payable there is paid here.                                   *)
(***************************************************************************)
Promise == INSTANCE Settlement WITH BatchLimit <- ClaimLimit

KeepsPromise == Promise!FairSpec

=============================================================================

------------------------------ MODULE Enqueuer ------------------------------
(***************************************************************************)
(* One merchant's terms as time passes: rows of MerchantSettlementPolicy   *)
(* that come into force and are retired, the SettlementRun rows the        *)
(* enqueuer writes for them, and the settling of a run, which asks again   *)
(* which terms are in force.  A tick of the enqueuer and the settling of a *)
(* run come as late as they like, so that boundaries are missed and a run  *)
(* is settled under other terms than it was written for.                   *)
(*                                                                         *)
(* How a run claims, commits and is retried is SettlementEngine; here a    *)
(* run is settled in one step, or throws and is given up.                  *)
(***************************************************************************)
EXTENDS SettlementPolicy

CONSTANTS
    Opening,        \* the moment the behaviours begin
    Horizon,        \* bound of the clock
    Methods,        \* payment methods
    Windows,        \* [Methods -> the upstream windows in force]
    Registrations,  \* sets of the paymentMethodNames a merchant has terms for
    Policies,       \* the terms that are ever agreed
    Payments,       \* purchases of the merchant
    MaxLate,        \* bound of how late a payment is reported
    MaxChanges,     \* bound of the changes of terms
    MaxPending      \* bound of the runs that wait to be settled

TermsRow == [method : Methods \cup {"*"}, policy : Policies,
             from : Opening .. Horizon + 1, to : (Opening .. Horizon + 1) \cup {Null}]

ASSUME WorldAssumption ==
    /\ Opening \in Nat /\ Horizon \in Nat /\ Opening <= Horizon
    /\ MaxLate \in Nat /\ MaxChanges \in Nat /\ MaxPending \in Nat
    /\ Null \notin TermsRow
    /\ "*" \notin Methods
    /\ Windows \in [Methods -> SUBSET Window]
    /\ Registrations \subseteq SUBSET (Methods \cup {"*"})
    /\ Policies \subseteq Policy

VARIABLES
    now,            \* the clock
    rows,           \* MerchantSettlementPolicy rows that are not deleted
    pending,        \* SettlementRun rows that are still to be settled
    ended,          \* SettlementRun rows that are DONE or FAILED
    payment         \* [Payments -> method, paidAt, reported, settled]

vars == <<now, rows, pending, ended, payment>>

\* Reported is the moment the row became SUCCESS.
Unpaid == [method |-> Null, paidAt |-> Null, reported |-> Null, settled |-> Null]

Row(key, policy, from) ==
    [method |-> key, policy |-> policy, from |-> from, to |-> Null]

\* The merchant is registered with one row for each key.
Init ==
    /\ now = Opening
    /\ \E keys \in Registrations : \E first \in [keys -> Policies] :
          rows = {Row(key, first[key], Opening) : key \in keys}
    /\ pending = {}
    /\ ended = {}
    /\ payment = [p \in Payments |-> Unpaid]

Captured(p) == payment[p].reported # Null

-----------------------------------------------------------------------------
(* The world.                                                              *)

Tick ==
    /\ now < Horizon
    /\ now' = now + 1
    /\ UNCHANGED <<rows, pending, ended, payment>>

\* A payment becomes SUCCESS; its paidAt may be some time ago.
Capture(p) ==
    /\ ~Captured(p)
    /\ \E method \in Methods, ago \in 0 .. MaxLate :
          payment' = [payment EXCEPT ![p] = [method   |-> method,
                                             paidAt   |-> now - ago,
                                             reported |-> now,
                                             settled  |-> Null]]
    /\ UNCHANGED <<now, rows, pending, ended>>

\* Two rows, not an edit, and in one transaction: the row in force is
\* retired at the moment the new one comes into force.  How long before it
\* the change is written makes no difference to the readers.
ChangeTerms(old, policy) ==
    /\ Cardinality({row \in rows : row.to # Null}) < MaxChanges
    /\ old.to = Null /\ old.from <= now
    /\ rows' = (rows \ {old}) \cup
                  {[old EXCEPT !.to = now + 1], Row(old.method, policy, now + 1)}
    /\ UNCHANGED <<now, pending, ended, payment>>

-----------------------------------------------------------------------------
(* Reading the tables.                                                     *)

InForce(row, t) == row.from <= t /\ (row.to = Null \/ t < row.to)

\* Several partners settle the method, each on a schedule of its own.
Ambiguous(method) == method \in Methods /\ Cardinality(Windows[method]) > 1

WindowOf(method) ==
    IF method \in Methods /\ Windows[method] # {}
    THEN CHOOSE window \in Windows[method] : TRUE ELSE Null

\* Mutant: the terms the merchant began with.
FirstTerms(method, t) ==
    CHOOSE row \in rows : row.from <= t /\ \A o \in rows : row.from <= o.from

\* resolveCutoff's query: most specific first, then most recently effective.
PolicyFor(method, t) ==
    LET found == {row \in rows : row.method \in {method, "*"} /\ InForce(row, t)}
        best == IF \E row \in found : row.method # "*"
                THEN {row \in found : row.method # "*"} ELSE found
    IN  IF found = {} THEN Null
        ELSE CHOOSE row \in best : \A o \in best : o.from <= row.from

-----------------------------------------------------------------------------
(* The enqueuer.                                                           *)

Targets(row) ==
    IF row.policy.mode = "FOLLOW_UPSTREAM" /\ row.method = "*"
    THEN {method \in Methods : Windows[method] # {}} ELSE {row.method}

\* Mutant: a boundary from before the terms counts.
AnyBoundary(row, dueAt) == row \in rows /\ dueAt # Null

SinceEffective(row, dueAt) == dueAt # Null /\ dueAt >= row.from

RunsFor(row) ==
    {[method |-> method, dueAt |-> MostRecentDueAt(row.policy, now, WindowOf(method))] :
        method \in {target \in Targets(row) :
            /\ ~(row.policy.mode = "FOLLOW_UPSTREAM" /\ Ambiguous(target))
            /\ SinceEffective(row, MostRecentDueAt(row.policy, now, WindowOf(target)))}}

\* A policy whose moments cannot be derived is skipped, the others are not.
Due == UNION {RunsFor(row) : row \in {r \in rows : /\ InForce(r, now)
                                                   /\ ~r.policy.businessDaysOnly}}

\* createMany, skipDuplicates: the unique key on merchant, method and dueAt.
WriteToSettlementRun ==
    /\ ~Due \subseteq pending \cup ended
    /\ Cardinality(pending \cup (Due \ ended)) <= MaxPending
    /\ pending' = pending \cup (Due \ ended)
    /\ UNCHANGED <<now, rows, ended, payment>>

-----------------------------------------------------------------------------
(* The settling of a run.                                                  *)

\* The window cannot be resolved, or the policy's moments cannot.
Throws(run, row) ==
    \/ row.policy.mode = "FOLLOW_UPSTREAM" /\ (run.method = "*" \/ Ambiguous(run.method))
    \/ row.policy.businessDaysOnly

\* Null: nothing is ripe.
Cutoff(run) ==
    LET row == PolicyFor(run.method, now)
    IN  IF row = Null \/ Throws(run, row) THEN Null
        ELSE SettlementCutoff(row.policy, now, WindowOf(run.method))

Claimed(run) ==
    {p \in Payments : /\ Captured(p) /\ payment[p].settled = Null
                      /\ run.method \in {"*", payment[p].method}
                      /\ Cutoff(run) # Null
                      /\ payment[p].paidAt < Cutoff(run)}

Settle(run) ==
    /\ run \in pending
    /\ payment' = [p \in Payments |->
                     IF p \in Claimed(run) THEN [payment[p] EXCEPT !.settled = now]
                     ELSE payment[p]]
    /\ pending' = pending \ {run}
    /\ ended' = ended \cup {run}
    /\ UNCHANGED <<now, rows>>

-----------------------------------------------------------------------------
Next ==
    \/ Tick
    \/ \E p \in Payments : Capture(p)
    \/ \E old \in rows, policy \in Policies : ChangeTerms(old, policy)
    \/ WriteToSettlementRun
    \/ \E run \in pending : Settle(run)

Spec == Init /\ [][Next]_vars

-----------------------------------------------------------------------------
(* Properties                                                              *)

RunKey == [method : Methods \cup {"*"}, dueAt : Int]

TypeOK ==
    /\ now \in Opening .. Horizon
    /\ rows \subseteq TermsRow
    /\ pending \subseteq RunKey
    /\ ended \subseteq RunKey
    /\ payment \in [Payments -> [method   : Methods \cup {Null},
                                 paidAt   : Int \cup {Null},
                                 reported : Int \cup {Null},
                                 settled  : Int \cup {Null}]]

(***************************************************************************)
(* The claim's one comparison and the function of record partition the     *)
(* payments alike, at every moment and under all terms in force: nobody is *)
(* paid before the release, and nobody's released payment is passed over.  *)
(***************************************************************************)
CutoffAgrees ==
    \A row \in rows, p \in Payments :
        Captured(p) /\ InForce(row, now) /\ HasRelease(row.policy, WindowOf(payment[p].method)) =>
          LET window == WindowOf(payment[p].method)
          IN  payment[p].paidAt < SettlementCutoff(row.policy, now, window)
                <=> IsEligible(payment[p].paidAt, row.policy, window, now)

(***************************************************************************)
(* Whenever a run is settled, and whatever terms it was written under,     *)
(* what it takes is released by the terms in force at that moment: the     *)
(* rows that are kept say so afterwards too.                               *)
(***************************************************************************)
EligibleWhenSettled ==
    \A p \in Payments :
        LET at == payment[p].settled
        IN  at # Null =>
              \E row \in rows :
                  /\ InForce(row, at)
                  /\ IsEligible(payment[p].paidAt, row.policy,
                                WindowOf(payment[p].method), at)

IsBoundary(row, run) ==
    LET window == WindowOf(run.method)
        since == run.dueAt - StartOfDay(run.dueAt, Jakarta)
    IN  CASE row.policy.mode = "INSTANT" -> run.dueAt % Slot = 0
          [] row.policy.mode \in {"SCHEDULED", "FIXED_DELAY"} -> since \in row.policy.times
          [] row.policy.mode = "FOLLOW_UPSTREAM" ->
               /\ window # Null
               /\ run.dueAt - StartOfDay(run.dueAt, window.zone) = UpstreamTime(window)

(***************************************************************************)
(* A run names a release boundary of terms that were in force at that      *)
(* moment: ticks that come again, late, or around a change of terms write  *)
(* none for a moment at which nothing is released.                         *)
(***************************************************************************)
RunsNameBoundaries ==
    \A run \in pending \cup ended :
        \E row \in rows : /\ run.method \in Targets(row)
                          /\ InForce(row, run.dueAt)
                          /\ IsBoundary(row, run)

\* The enqueuer has written what is due and every run is settled.
CaughtUp == pending = {} /\ Due \subseteq ended

(***************************************************************************)
(* Once the crons have caught up, whatever the terms that govern a method  *)
(* had released at their last boundary has been settled: boundaries that   *)
(* were missed before it, terms that changed before it and runs that       *)
(* another row asked for leave nothing behind.                             *)
(***************************************************************************)
NothingLeftBehind ==
    CaughtUp =>
      \A row \in rows : \A run \in RunsFor(row), p \in Payments :
          /\ row = PolicyFor(run.method, now)
          /\ run.method \in {"*", payment[p].method}
          /\ Captured(p) /\ payment[p].reported < run.dueAt
          /\ IsEligible(payment[p].paidAt, row.policy,
                        WindowOf(payment[p].method), run.dueAt)
          => payment[p].settled # Null

=============================================================================

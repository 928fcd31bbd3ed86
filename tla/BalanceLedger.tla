--------------------------- MODULE BalanceLedger ---------------------------
(***************************************************************************)
(* libs/balance: the append-only BalanceEntry table, the BalanceSnapshot   *)
(* rows it folds into, and the database transactions that post movements.  *)
(*                                                                         *)
(* A transaction runs one program: a sequence of movements, each handed to *)
(* BalanceService.post, or to BalanceService.reserve when its reason is    *)
(* PAYOUT_RESERVED.  Every SQL statement is one action, so the statements  *)
(* of several transactions interleave as under READ COMMITTED: a row a     *)
(* transaction has written stays locked until it commits or rolls back,    *)
(* and what it wrote is invisible to the others until then.                *)
(***************************************************************************)
EXTENDS Movements, Sequences

CONSTANTS
    Transactions,   \* database sessions
    Row,            \* the BalanceSnapshot rows: holder and bucket
    Source,         \* what a movement is about: a purchase, a disbursement
    Program,        \* what a transaction may run (see ProgramOK)
    MaxEntryId      \* bound of the id sequence

Leg == [row : Row, direction : Direction, amount : Int]
Movement == [reason : Reason, source : Source, legs : SUBSET Leg]

(***************************************************************************)
(* A program is what one caller does in one prisma.$transaction.  `needs`  *)
(* are the movements its caller has read as committed before it starts.    *)
(* Only reserve debits AVAILABLE, and it debits one such row.              *)
(***************************************************************************)
MovementOK(m) ==
    /\ m \in Movement
    /\ IsFiniteSet(m.legs)
    /\ IF m.reason = "PAYOUT_RESERVED"
       THEN \E l \in m.legs : l.row.bucket = "AVAILABLE" /\ DebitsOf(m) = {l}
       ELSE \A l \in DebitsOf(m) : l.row.bucket # "AVAILABLE"

ProgramOK(p) ==
    /\ p.movements \in Seq(Movement)
    /\ \A i \in DOMAIN p.movements : MovementOK(p.movements[i])

ASSUME RowAssumption ==
    Row \subseteq [holderType : HolderType, holderId : Nat, bucket : Bucket]

ASSUME ProgramAssumption == \A p \in Program : ProgramOK(p)

ASSUME BoundAssumption == MaxEntryId \in Nat

-----------------------------------------------------------------------------
(* The order in which one movement locks its rows.                         *)

\* Mutant: the agents before the house.
AgentsBeforeInternal == [MERCHANT |-> 1, AGENT |-> 2, INTERNAL |-> 3]

HolderTypeOrder == [MERCHANT |-> 1, INTERNAL |-> 2, AGENT |-> 3]
BucketOrder == [PENDING |-> 1, AVAILABLE |-> 2, RESERVED |-> 3]

\* compareLegs(a, b) < 0
Before(r, s) ==
    \/ HolderTypeOrder[r.holderType] < HolderTypeOrder[s.holderType]
    \/ /\ r.holderType = s.holderType
       /\ \/ r.holderId < s.holderId
          \/ /\ r.holderId = s.holderId
             /\ BucketOrder[r.bucket] < BucketOrder[s.bucket]

(***************************************************************************)
(* What the callers build.  No leg is an agent's but beside one of the     *)
(* house in the same bucket.  A reservation moves money of one merchant,   *)
(* out of the bucket that comes first.  Only a settlement batch posts more *)
(* than one movement in a transaction: all are of one merchant, and of     *)
(* purchases whose capture had legs of the merchant and of the house, none *)
(* of them zero, which the batch moves again.                              *)
(***************************************************************************)
AgentsBesideHouse(m) ==
    \A l \in m.legs : l.row.holderType = "AGENT" =>
        \E h \in m.legs : h.row = RowOf("INTERNAL", 0, l.row.bucket)

ReservesWithinMerchant(m) ==
    m.reason = "PAYOUT_RESERVED" =>
        \A d \in DebitsOf(m), l \in m.legs :
            /\ d.row.holderType = "MERCHANT" /\ SameHolder(l.row, d.row)
            /\ l.row = d.row \/ Before(d.row, l.row)

\* The rows of the merchant and of the house.
SharedRows(m) == {l.row : l \in {l \in m.legs : l.row.holderType # "AGENT"}}

Orderly(movements) ==
    /\ \A i \in DOMAIN movements :
          AgentsBesideHouse(movements[i]) /\ ReservesWithinMerchant(movements[i])
    /\ \A i, j \in DOMAIN movements : i < j =>
          /\ {movements[i].reason, movements[j].reason} = {"MERCHANT_SETTLED"}
          /\ SharedRows(movements[j]) \subseteq SharedRows(movements[i])

ASSUME OrderAssumption == \A p \in Program : Orderly(p.movements)

ASSUME SessionAssumption == IsFiniteSet(Transactions)

-----------------------------------------------------------------------------
VARIABLES
    entries,        \* committed BalanceEntry rows
    snapshot,       \* committed BalanceSnapshot rows
    nextEntryId,    \* the id sequence: never rolled back
    phase,          \* where each session is
    work,           \* the movements it has still to post, the current one first
    inserted,       \* the entries it has inserted and not committed
    pending,        \* those of the current movement not folded yet
    holds,          \* the snapshot rows it has locked
    mine            \* its own version of the rows it has locked

vars == <<entries, snapshot, nextEntryId, phase, work, inserted, pending, holds, mine>>

SnapshotRow == [amount : Int, lastEntryId : Nat]

\* A row that was never credited reads as this one: no SQL predicate of
\* reserve or of post tells them apart.
EmptyRow == [amount |-> 0, lastEntryId |-> 0]

Entry == [id : Nat, row : Row, amount : Int, reason : Reason, source : Source]

\* The unique key of the BalanceEntry table.
KeyOf(e) == <<e.row, e.reason, e.source>>

Keys(E) == {KeyOf(e) : e \in E}

\* Has the movement with this reason and source committed?
Posted(reason, source) ==
    \E e \in entries : e.reason = reason /\ e.source = source

\* The row as the statements of session t see it once they hold its lock.
View(t, r) == IF r \in holds[t] THEN mine[t][r] ELSE snapshot[r]

LockFree(t, r) == \A u \in Transactions \ {t} : r \notin holds[u]

Init ==
    /\ entries = {}
    /\ snapshot = [r \in Row |-> EmptyRow]
    /\ nextEntryId = 0
    /\ phase = [t \in Transactions |-> "idle"]
    /\ work = [t \in Transactions |-> <<>>]
    /\ inserted = [t \in Transactions |-> {}]
    /\ pending = [t \in Transactions |-> {}]
    /\ holds = [t \in Transactions |-> {}]
    /\ mine = [t \in Transactions |-> [r \in Row |-> EmptyRow]]

-----------------------------------------------------------------------------
(* How a session ends: everything it wrote becomes visible, or nothing.    *)

EndSession(t) ==
    /\ phase' = [phase EXCEPT ![t] = "idle"]
    /\ work' = [work EXCEPT ![t] = <<>>]
    /\ inserted' = [inserted EXCEPT ![t] = {}]
    /\ pending' = [pending EXCEPT ![t] = {}]
    /\ holds' = [holds EXCEPT ![t] = {}]
    /\ mine' = [mine EXCEPT ![t] = [r \in Row |-> EmptyRow]]

Discard(t) ==
    /\ EndSession(t)
    /\ UNCHANGED <<entries, snapshot, nextEntryId>>

\* Mutant: the caller catches its error inside the transaction, which commits.
CaughtInside(t) ==
    /\ phase[t] # "idle"
    /\ entries' = entries \cup inserted[t]
    /\ snapshot' = [r \in Row |-> View(t, r)]
    /\ EndSession(t)
    /\ UNCHANGED nextEntryId

\* The caller's transaction fails for a reason of its own, the process
\* dies, or the database gives up on it.
Rollback(t) ==
    /\ phase[t] # "idle"
    /\ Discard(t)

Commit(t) ==
    /\ phase[t] = "ready"
    /\ work[t] = <<>>
    /\ entries' = entries \cup inserted[t]
    /\ snapshot' = [r \in Row |-> View(t, r)]
    /\ EndSession(t)
    /\ UNCHANGED nextEntryId

Begin(t, p) ==
    /\ phase[t] = "idle"
    /\ \A need \in p.needs : Posted(need.reason, need.source)
    /\ phase' = [phase EXCEPT ![t] = "ready"]
    /\ work' = [work EXCEPT ![t] = p.movements]
    /\ UNCHANGED <<entries, snapshot, nextEntryId, inserted, pending, holds, mine>>

-----------------------------------------------------------------------------
(* post: validate, insert the entries, fold them into the snapshot.        *)

AtMovement(t) == phase[t] = "ready" /\ work[t] # <<>>

Current(t) == Head(work[t])

IsReserve(m) == m.reason = "PAYOUT_RESERVED"

\* validate throws.
Reject(t) ==
    /\ AtMovement(t)
    /\ ~Valid(Current(t))
    /\ Discard(t)

Validate(t) ==
    /\ AtMovement(t)
    /\ Valid(Current(t))
    /\ ~IsReserve(Current(t))
    /\ phase' = [phase EXCEPT ![t] = "insert"]
    /\ UNCHANGED <<entries, snapshot, nextEntryId, work, inserted, pending, holds, mine>>

\* Lock row r for session t and take the committed version of it.
LockRow(t, r) ==
    /\ holds' = [holds EXCEPT ![t] = @ \cup {r}]
    /\ mine' = [mine EXCEPT ![t][r] = View(t, r)]

\* Mutant: SELECT without FOR UPDATE, the check of the legacy code.
CheckOnly(t, r) == r \in Row /\ UNCHANGED <<holds, mine>>

SelectForUpdate(t, r) == LockRow(t, r)

\* reserve: the SELECT ... FOR UPDATE finds the row, waiting for its lock
\* and judging the amount committed by then.
Reserve(t) ==
    /\ AtMovement(t)
    /\ Valid(Current(t))
    /\ IsReserve(Current(t))
    /\ \E l \in DebitsOf(Current(t)) :
          /\ LockFree(t, l.row)
          /\ View(t, l.row).amount >= l.amount
          /\ SelectForUpdate(t, l.row)
    /\ phase' = [phase EXCEPT ![t] = "insert"]
    /\ UNCHANGED <<entries, snapshot, nextEntryId, work, inserted, pending>>

\* INSUFFICIENT_BALANCE, on which the caller throws.  A row whose committed
\* amount is too small does not match, whoever holds its lock.
ReserveRefused(t) ==
    /\ AtMovement(t)
    /\ Valid(Current(t))
    /\ IsReserve(Current(t))
    /\ \E l \in DebitsOf(Current(t)) : View(t, l.row).amount < l.amount
    /\ Discard(t)

\* The entry createManyAndReturn writes for a leg: ids follow the order of
\* the legs.
EntryFor(m, l, lastId) ==
    [id     |-> lastId + 1 + Cardinality({k \in m.legs : Before(k.row, l.row)}),
     row    |-> l.row,
     amount |-> Signed(l),
     reason |-> m.reason,
     source |-> m.source]

EntriesOf(m, lastId) == {EntryFor(m, l, lastId) : l \in m.legs}

KeysOfMovement(m) == {<<l.row, m.reason, m.source>> : l \in m.legs}

\* Mutant: a table without its unique key.
NoUniqueKey(t) == t \notin Transactions

\* A committed entry, or one of the session itself, has the key: P2002.
Duplicate(t) ==
    KeysOfMovement(Current(t)) \cap Keys(entries \cup inserted[t]) # {}

\* An uncommitted entry of another session has the key: the insert waits.
InsertWaitsFor(t, u) ==
    KeysOfMovement(Current(t)) \cap Keys(inserted[u]) # {}

Insert(t) ==
    /\ phase[t] = "insert"
    /\ ~Duplicate(t)
    /\ \A u \in Transactions \ {t} : ~InsertWaitsFor(t, u)
    /\ nextEntryId + Cardinality(Current(t).legs) <= MaxEntryId
    /\ pending' = [pending EXCEPT ![t] = EntriesOf(Current(t), nextEntryId)]
    /\ inserted' = [inserted EXCEPT ![t] = @ \cup EntriesOf(Current(t), nextEntryId)]
    /\ nextEntryId' = nextEntryId + Cardinality(Current(t).legs)
    /\ phase' = [phase EXCEPT ![t] = "fold"]
    /\ UNCHANGED <<entries, snapshot, work, holds, mine>>

InsertDuplicate(t) ==
    /\ phase[t] = "insert"
    /\ Duplicate(t)
    /\ Discard(t)

\* Mutant: the leg in place of the balance.
FoldOverwrites(s, e) == [amount |-> e.amount, lastEntryId |-> e.id]

\* Mutant: the id of the last movement to take the row's lock.
FoldLastWriter(s, e) == [amount |-> s.amount + e.amount, lastEntryId |-> e.id]

Greatest(a, b) == IF a > b THEN a ELSE b

\* applyToSnapshot: ON CONFLICT DO UPDATE.
FoldInto(s, e) ==
    [amount      |-> s.amount + e.amount,
     lastEntryId |-> Greatest(s.lastEntryId, e.id)]

\* The leg whose turn it is.
IsNext(t, e) ==
    /\ e \in pending[t]
    /\ \A d \in pending[t] : ~Before(d.row, e.row)

ApplyToSnapshot(t, e) ==
    /\ phase[t] = "fold"
    /\ IsNext(t, e)
    /\ LockFree(t, e.row)
    /\ holds' = [holds EXCEPT ![t] = @ \cup {e.row}]
    /\ mine' = [mine EXCEPT ![t][e.row] = FoldInto(View(t, e.row), e)]
    /\ pending' = [pending EXCEPT ![t] = @ \ {e}]
    /\ UNCHANGED <<entries, snapshot, nextEntryId, phase, work, inserted>>

\* post returns; the caller goes on to its next movement.
PostReturns(t) ==
    /\ phase[t] = "fold"
    /\ pending[t] = {}
    /\ phase' = [phase EXCEPT ![t] = "ready"]
    /\ work' = [work EXCEPT ![t] = Tail(@)]
    /\ UNCHANGED <<entries, snapshot, nextEntryId, inserted, pending, holds, mine>>

Step(t) ==
    \/ \E p \in Program : Begin(t, p)
    \/ Reject(t)
    \/ Validate(t)
    \/ Reserve(t)
    \/ ReserveRefused(t)
    \/ Insert(t)
    \/ InsertDuplicate(t)
    \/ \E e \in pending[t] : ApplyToSnapshot(t, e)
    \/ PostReturns(t)
    \/ Commit(t)
    \/ Rollback(t)

Next == \E t \in Transactions : Step(t)

Spec == Init /\ [][Next]_vars

-----------------------------------------------------------------------------
(* Properties                                                              *)

TypeOK ==
    /\ entries \in SUBSET Entry
    /\ snapshot \in [Row -> SnapshotRow]
    /\ nextEntryId \in Nat
    /\ phase \in [Transactions -> {"idle", "ready", "insert", "fold"}]
    /\ work \in [Transactions -> Seq(Movement)]
    /\ inserted \in [Transactions -> SUBSET Entry]
    /\ pending \in [Transactions -> SUBSET Entry]
    /\ holds \in [Transactions -> SUBSET Row]
    /\ mine \in [Transactions -> [Row -> SnapshotRow]]

(***************************************************************************)
(* The nightly check of balance-verification.service.ts: at any moment, a  *)
(* snapshot row's amount is the sum of the committed entries of that row   *)
(* with an id up to its lastEntryId.                                       *)
(***************************************************************************)
Amount(e) == e.amount

BooksBalance ==
    \A r \in Row :
        LET counted == {e \in entries : e.row = r /\ e.id <= snapshot[r].lastEntryId}
        IN  snapshot[r].amount = MapThenSumSet(Amount, counted)

(***************************************************************************)
(* The check sums every entry: lastEntryId covers each committed entry of  *)
(* its row, in whatever order the sessions took the row's lock.            *)
(***************************************************************************)
LastEntryCovers ==
    \A e \in entries : e.id <= snapshot[e.row].lastEntryId

(***************************************************************************)
(* A replayed webhook or a re-run batch never credits twice: no two        *)
(* committed entries share holder, bucket, reason and source.              *)
(***************************************************************************)
PostedOnce ==
    \A d, e \in entries : KeyOf(d) = KeyOf(e) => d = e

(***************************************************************************)
(* No AVAILABLE balance goes below zero: two payouts for more than the     *)
(* balance cannot both pass reserve.                                       *)
(***************************************************************************)
NeverOverdrawn ==
    \A r \in Row : r.bucket = "AVAILABLE" => snapshot[r].amount >= 0

(***************************************************************************)
(* Sessions never wait for each other in a circle, so Postgres never has   *)
(* to kill one of them: in every set of sessions, one waits for none of    *)
(* the others.                                                             *)
(***************************************************************************)
NeedsRow(t, r) ==
    \/ phase[t] = "fold" /\ \E e \in pending[t] : IsNext(t, e) /\ e.row = r
    \/ /\ AtMovement(t)
       /\ IsReserve(Current(t))
       /\ \E l \in DebitsOf(Current(t)) : l.row = r /\ View(t, r).amount >= l.amount

WaitsFor(t, u) ==
    \/ \E r \in holds[u] : NeedsRow(t, r)
    \/ phase[t] = "insert" /\ InsertWaitsFor(t, u)

NoWaitCycle ==
    \A S \in (SUBSET Transactions) \ {{}} :
        \E t \in S : \A u \in S \ {t} : ~WaitsFor(t, u)

(***************************************************************************)
(* The interleaved statements of the sessions look from outside like one   *)
(* step per transaction: Ledger, which knows no sessions.  Callers reckon  *)
(* with a posting that happens at once, or not at all.                     *)
(***************************************************************************)
LineOf(e) == [row |-> e.row, amount |-> e.amount, reason |-> e.reason, source |-> e.source]

Book == INSTANCE Ledger WITH lines <- {LineOf(e) : e \in entries}

\* Book!Spec, with its stutters told by the entries.
PostsAtOnce == Book!Init /\ [][UNCHANGED entries \/ Book!Next]_vars

=============================================================================

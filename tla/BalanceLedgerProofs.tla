------------------------ MODULE BalanceLedgerProofs ------------------------
(***************************************************************************)
(* Theorems about BalanceLedger, for any sessions, rows, sources and       *)
(* programs that satisfy the module's assumptions.                         *)
(***************************************************************************)
EXTENDS BalanceLedger, FiniteSetTheorems, WellFoundedInduction, TLAPS

(***************************************************************************)
(* A session that is inserting or folding has a movement at hand, and all  *)
(* that is left of its work are movements of its program.                  *)
(***************************************************************************)
WorkOK ==
    \A t \in Transactions :
        /\ phase[t] \in {"insert", "fold"} => work[t] # <<>>
        /\ \A i \in DOMAIN work[t] : MovementOK(work[t][i])

\* What Current(t) is whenever a session looks at it.
LEMMA CurrentIsMovement ==
    ASSUME TypeOK, WorkOK, NEW t \in Transactions, work[t] # <<>>
    PROVE  MovementOK(Current(t)) /\ Current(t) \in Movement
<1>1. work[t] \in Seq(Movement)
  BY DEF TypeOK
<1>2. 1 \in DOMAIN work[t] /\ Head(work[t]) = work[t][1]
  BY <1>1
<1>. QED
  BY <1>2 DEF WorkOK, Current, MovementOK

\* The entries of a movement are entries: their ids are numbers.
LEMMA EntriesAreEntries ==
    ASSUME NEW m, MovementOK(m), NEW n \in Nat
    PROVE  /\ EntriesOf(m, n) \subseteq Entry
           /\ Cardinality(m.legs) \in Nat
<1>1. Cardinality(m.legs) \in Nat
  BY FS_CardinalityType DEF MovementOK
<1>2. ASSUME NEW l \in m.legs
      PROVE  Cardinality({k \in m.legs : Before(k.row, l.row)}) \in Nat
  <2>1. IsFiniteSet({k \in m.legs : Before(k.row, l.row)})
    BY FS_Subset DEF MovementOK
  <2>. QED
    BY <2>1, FS_CardinalityType
<1>3. ASSUME NEW l \in m.legs
      PROVE  l.row \in Row /\ Signed(l) \in Int /\ m.reason \in Reason /\ m.source \in Source
  BY DEF MovementOK, Movement, Leg, Signed
<1>4. ASSUME NEW l \in m.legs
      PROVE  EntryFor(m, l, n) \in Entry
  BY <1>2, <1>3 DEF Entry, EntryFor
<1>. QED
  BY <1>1, <1>4 DEF EntriesOf

LEMMA FoldIsRow ==
    ASSUME NEW s \in SnapshotRow, NEW e \in Entry
    PROVE  FoldInto(s, e) \in SnapshotRow
BY DEF FoldInto, SnapshotRow, Entry, Greatest

LEMMA ViewIsRow ==
    ASSUME TypeOK, NEW t \in Transactions, NEW r \in Row
    PROVE  View(t, r) \in SnapshotRow
BY DEF TypeOK, View

LEMMA InitTyped == Init => TypeOK /\ WorkOK
BY DEF Init, TypeOK, WorkOK, EmptyRow, SnapshotRow

\* However a session ends, it leaves a session that has done nothing.
LEMMA EndSessionTyped ==
    ASSUME TypeOK, WorkOK, NEW t \in Transactions, EndSession(t)
    PROVE  /\ phase' \in [Transactions -> {"idle", "ready", "insert", "fold"}]
           /\ work' \in [Transactions -> Seq(Movement)]
           /\ inserted' \in [Transactions -> SUBSET Entry]
           /\ pending' \in [Transactions -> SUBSET Entry]
           /\ holds' \in [Transactions -> SUBSET Row]
           /\ mine' \in [Transactions -> [Row -> SnapshotRow]]
           /\ WorkOK'
<1>1. [r \in Row |-> EmptyRow] \in [Row -> SnapshotRow]
  BY DEF EmptyRow, SnapshotRow
<1>2. /\ phase' \in [Transactions -> {"idle", "ready", "insert", "fold"}]
      /\ work' \in [Transactions -> Seq(Movement)]
      /\ inserted' \in [Transactions -> SUBSET Entry]
      /\ pending' \in [Transactions -> SUBSET Entry]
      /\ holds' \in [Transactions -> SUBSET Row]
  BY DEF TypeOK, EndSession
<1>3. mine' \in [Transactions -> [Row -> SnapshotRow]]
  BY <1>1 DEF TypeOK, EndSession
<1>4. WorkOK'
  BY DEF TypeOK, EndSession, WorkOK
<1>. QED
  BY <1>2, <1>3, <1>4

LEMMA StepTyped ==
    ASSUME TypeOK, WorkOK, NEW t \in Transactions, Step(t)
    PROVE  TypeOK' /\ WorkOK'
<1>1. ASSUME NEW p \in Program, Begin(t, p)
      PROVE  TypeOK' /\ WorkOK'
  <2>1. ProgramOK(p)
    BY ProgramAssumption
  <2>. QED
    BY <1>1, <2>1 DEF Begin, TypeOK, WorkOK, ProgramOK
<1>2. CASE Validate(t)
  BY <1>2 DEF Validate, AtMovement, TypeOK, WorkOK
<1>3. CASE Reserve(t)
  <2>1. Current(t) \in Movement
    BY <1>3, CurrentIsMovement DEF Reserve, AtMovement
  <2>2. PICK l \in DebitsOf(Current(t)) : LockRow(t, l.row)
    BY <1>3 DEF Reserve, SelectForUpdate
  <2>3. l.row \in Row
    BY <2>1 DEF DebitsOf, Movement, Leg
  <2>4. View(t, l.row) \in SnapshotRow
    BY <2>3, ViewIsRow
  <2>5. TypeOK'
    BY <1>3, <2>2, <2>3, <2>4 DEF Reserve, LockRow, TypeOK
  <2>6. WorkOK'
    BY <1>3 DEF Reserve, AtMovement, TypeOK, WorkOK
  <2>. QED
    BY <2>5, <2>6
<1>4. CASE Insert(t)
  <2>1. MovementOK(Current(t))
    BY <1>4, CurrentIsMovement DEF Insert, WorkOK
  <2>2. nextEntryId \in Nat
    BY DEF TypeOK
  <2>3. EntriesOf(Current(t), nextEntryId) \subseteq Entry /\ Cardinality(Current(t).legs) \in Nat
    BY <2>1, <2>2, EntriesAreEntries
  <2>4. TypeOK'
    BY <1>4, <2>3 DEF Insert, TypeOK
  <2>5. WorkOK'
    BY <1>4 DEF Insert, TypeOK, WorkOK
  <2>. QED
    BY <2>4, <2>5
<1>5. ASSUME NEW e \in pending[t], ApplyToSnapshot(t, e)
      PROVE  TypeOK' /\ WorkOK'
  <2>1. e \in Entry /\ e.row \in Row
    BY <1>5 DEF TypeOK, Entry
  <2>2. FoldInto(View(t, e.row), e) \in SnapshotRow
    BY <2>1, ViewIsRow, FoldIsRow
  <2>3. TypeOK'
    BY <1>5, <2>1, <2>2 DEF ApplyToSnapshot, TypeOK
  <2>4. WorkOK'
    BY <1>5 DEF ApplyToSnapshot, WorkOK
  <2>. QED
    BY <2>3, <2>4
<1>6. CASE PostReturns(t)
  <2>1. work[t] \in Seq(Movement) /\ work[t] # <<>>
    BY <1>6 DEF PostReturns, TypeOK, WorkOK
  <2>2. /\ Tail(work[t]) \in Seq(Movement)
        /\ \A i \in DOMAIN Tail(work[t]) :
              i + 1 \in DOMAIN work[t] /\ Tail(work[t])[i] = work[t][i + 1]
    BY <2>1
  <2>3. TypeOK'
    BY <1>6, <2>2 DEF PostReturns, TypeOK
  <2>4. WorkOK'
    BY <1>6, <2>2 DEF PostReturns, TypeOK, WorkOK
  <2>. QED
    BY <2>3, <2>4
<1>7. CASE Commit(t)
  <2>1. snapshot' \in [Row -> SnapshotRow]
    BY <1>7, ViewIsRow DEF Commit
  <2>2. entries' \in SUBSET Entry /\ nextEntryId' \in Nat
    BY <1>7 DEF Commit, TypeOK
  <2>. QED
    BY <1>7, <2>1, <2>2, EndSessionTyped DEF Commit, TypeOK
<1>8. CASE Discard(t)
  BY <1>8, EndSessionTyped DEF Discard, TypeOK
<1>9. Reject(t) \/ ReserveRefused(t) \/ InsertDuplicate(t) \/ Rollback(t) => Discard(t)
  BY DEF Reject, ReserveRefused, InsertDuplicate, Rollback
<1>. QED
  BY <1>1, <1>2, <1>3, <1>4, <1>5, <1>6, <1>7, <1>8, <1>9 DEF Step

(***************************************************************************)
(* Type correctness of the ledger.                                         *)
(***************************************************************************)
THEOREM TypeCorrect == Spec => [](TypeOK /\ WorkOK)
<1>1. TypeOK /\ WorkOK /\ [Next]_vars => TypeOK' /\ WorkOK'
  <2>1. CASE Next
    BY <2>1, StepTyped DEF Next
  <2>2. CASE UNCHANGED vars
    BY <2>2 DEF vars, TypeOK, WorkOK
  <2>. QED
    BY <2>1, <2>2
<1>. QED
  BY <1>1, InitTyped, PTL DEF Spec

-----------------------------------------------------------------------------
(***************************************************************************)
(* Locks.  No row is locked twice; a session outside a movement has no     *)
(* entry left to fold, an idle one has nothing at all; an entry that was   *)
(* folded is covered by the session's version of a row it has locked, and  *)
(* that version is never behind the committed one.                         *)
(***************************************************************************)
LocksExclusive ==
    \A t, u \in Transactions : t # u => holds[t] \cap holds[u] = {}

PendingOK ==
    \A t \in Transactions :
        /\ pending[t] \subseteq inserted[t]
        /\ phase[t] # "fold" => pending[t] = {}

MineCovers ==
    \A t \in Transactions :
        /\ \A e \in inserted[t] \ pending[t] :
              e.row \in holds[t] /\ e.id <= mine[t][e.row].lastEntryId
        /\ \A r \in holds[t] : snapshot[r].lastEntryId <= mine[t][r].lastEntryId

CoverInv == LocksExclusive /\ PendingOK /\ MineCovers /\ LastEntryCovers

LEMMA InitCover == Init => CoverInv
BY DEF Init, CoverInv, LocksExclusive, PendingOK, MineCovers, LastEntryCovers

\* A session that ends without committing takes nothing with it.
LEMMA DiscardCover ==
    ASSUME TypeOK, CoverInv, NEW t \in Transactions, Discard(t)
    PROVE  CoverInv'
<1>. USE DEF TypeOK, CoverInv, Discard, EndSession
<1>1. LocksExclusive'
  BY DEF LocksExclusive
<1>2. PendingOK'
  BY DEF PendingOK
<1>3. MineCovers'
  BY DEF MineCovers
<1>4. LastEntryCovers'
  BY DEF LastEntryCovers
<1>. QED
  BY <1>1, <1>2, <1>3, <1>4

LEMMA ReserveCover ==
    ASSUME TypeOK, WorkOK, CoverInv, NEW t \in Transactions, Reserve(t)
    PROVE  CoverInv'
<1>1. Current(t) \in Movement
  BY CurrentIsMovement DEF Reserve, AtMovement
<1>2. PICK l \in DebitsOf(Current(t)) : LockFree(t, l.row) /\ LockRow(t, l.row)
  BY DEF Reserve, SelectForUpdate
<1>3. l.row \in Row
  BY <1>1 DEF DebitsOf, Movement, Leg
<1>4. View(t, l.row).lastEntryId \in Nat /\ snapshot[l.row].lastEntryId \in Nat
  BY <1>3, ViewIsRow DEF SnapshotRow, TypeOK
<1>5. LocksExclusive'
  BY <1>2 DEF CoverInv, LocksExclusive, LockFree, LockRow, TypeOK
<1>6. PendingOK'
  BY DEF CoverInv, PendingOK, Reserve, AtMovement, TypeOK
<1>7. /\ entries' = entries /\ snapshot' = snapshot
      /\ inserted' = inserted /\ pending' = pending
  BY DEF Reserve
<1>8. /\ \A u \in Transactions, r \in Row :
            mine'[u][r] = mine[u][r] \/ (u = t /\ r = l.row /\ mine'[u][r] = View(t, r))
      /\ \A u \in Transactions :
            holds'[u] = IF u = t THEN holds[u] \cup {l.row} ELSE holds[u]
  BY <1>2, <1>3 DEF LockRow, TypeOK
<1>9. MineCovers'
  <2>1. ASSUME NEW u \in Transactions, NEW e \in inserted[u] \ pending[u]
        PROVE  e.row \in holds'[u] /\ e.id <= mine'[u][e.row].lastEntryId
    <3>1. e.row \in Row
      BY DEF TypeOK, Entry
    <3>2. e.row \in holds[u] /\ e.id <= mine[u][e.row].lastEntryId
      BY DEF CoverInv, MineCovers
    <3>3. e.row \in holds'[u]
      BY <3>2, <1>8
    <3>4. mine'[u][e.row] = mine[u][e.row]
      BY <3>1, <3>2, <1>8 DEF View
    <3>. QED
      BY <3>2, <3>3, <3>4
  <2>2. ASSUME NEW u \in Transactions, NEW r \in holds'[u]
        PROVE  snapshot[r].lastEntryId <= mine'[u][r].lastEntryId
    <3>1. r \in holds[u] \/ (u = t /\ r = l.row)
      BY <1>8
    <3>4. r \in Row
      BY <3>1, <1>3 DEF TypeOK
    <3>2. CASE r \in holds[u]
      BY <3>4, <3>2, <1>8 DEF CoverInv, MineCovers, View
    <3>3. CASE u = t /\ r = l.row /\ r \notin holds[u]
      <4>1. mine'[u][r] = View(t, r)
        BY <1>2, <1>3, <3>3 DEF LockRow, TypeOK
      <4>. QED
        BY <4>1, <1>4, <3>3 DEF View
    <3>. QED
      BY <3>1, <3>2, <3>3
  <2>. QED
    BY <1>7, <2>1, <2>2 DEF MineCovers
<1>10. LastEntryCovers'
  BY <1>7 DEF CoverInv, LastEntryCovers
<1>. QED
  BY <1>5, <1>6, <1>9, <1>10 DEF CoverInv

LEMMA InsertCover ==
    ASSUME TypeOK, WorkOK, CoverInv, NEW t \in Transactions, Insert(t)
    PROVE  CoverInv'
<1>1. LocksExclusive'
  BY DEF CoverInv, LocksExclusive, Insert
<1>2. PendingOK'
  BY DEF CoverInv, PendingOK, Insert, TypeOK
<1>3. ASSUME NEW u \in Transactions
      PROVE  inserted'[u] \ pending'[u] \subseteq inserted[u] \ pending[u]
  BY DEF Insert, TypeOK, CoverInv, PendingOK
<1>4. MineCovers'
  BY <1>3 DEF CoverInv, MineCovers, Insert
<1>5. LastEntryCovers'
  BY DEF CoverInv, LastEntryCovers, Insert
<1>. QED
  BY <1>1, <1>2, <1>4, <1>5 DEF CoverInv

LEMMA FoldCover ==
    ASSUME TypeOK, CoverInv, NEW t \in Transactions, NEW e \in pending[t],
           ApplyToSnapshot(t, e)
    PROVE  CoverInv'
<1>1. e \in Entry /\ e.row \in Row /\ e.id \in Nat
  BY DEF TypeOK, Entry
<1>2. View(t, e.row) \in SnapshotRow
  BY <1>1, ViewIsRow
<1>3. /\ FoldInto(View(t, e.row), e).lastEntryId \in Nat
      /\ FoldInto(View(t, e.row), e).lastEntryId >= e.id
      /\ FoldInto(View(t, e.row), e).lastEntryId >= View(t, e.row).lastEntryId
  BY <1>1, <1>2 DEF FoldInto, Greatest, SnapshotRow
<1>4. /\ entries' = entries /\ snapshot' = snapshot /\ inserted' = inserted
      /\ \A u \in Transactions :
            /\ holds'[u] = IF u = t THEN holds[u] \cup {e.row} ELSE holds[u]
            /\ pending'[u] = IF u = t THEN pending[u] \ {e} ELSE pending[u]
            /\ \A r \in Row : mine'[u][r] = IF u = t /\ r = e.row
                                         THEN FoldInto(View(t, e.row), e)
                                         ELSE mine[u][r]
  BY <1>1 DEF ApplyToSnapshot, TypeOK
<1>5. LocksExclusive'
  BY <1>4 DEF CoverInv, LocksExclusive, ApplyToSnapshot, LockFree
<1>6. PendingOK'
  BY <1>4 DEF CoverInv, PendingOK, ApplyToSnapshot
<1>7. MineCovers'
  <2>1. ASSUME NEW u \in Transactions, NEW d \in inserted[u] \ pending'[u]
        PROVE  d.row \in holds'[u] /\ d.id <= mine'[u][d.row].lastEntryId
    <3>1. d.row \in Row /\ d.id \in Nat
      BY DEF TypeOK, Entry
    <3>2. CASE u = t /\ d = e
      BY <1>1, <1>3, <1>4, <3>2
    <3>3. CASE d \in inserted[u] \ pending[u]
      <4>1. d.row \in holds[u] /\ d.id <= mine[u][d.row].lastEntryId
        BY <3>3 DEF CoverInv, MineCovers
      <4>2. CASE u = t /\ d.row = e.row
        <5>1. d.id <= View(t, e.row).lastEntryId
          BY <4>1, <4>2 DEF View
        <5>2. View(t, e.row).lastEntryId \in Nat
          BY <1>2 DEF SnapshotRow
        <5>3. mine'[u][d.row] = FoldInto(View(t, e.row), e) /\ d.row \in holds'[u]
          BY <1>1, <1>4, <4>2
        <5>. QED
          BY <5>1, <5>2, <5>3, <1>3, <3>1
      <4>3. CASE ~(u = t /\ d.row = e.row)
        BY <1>4, <3>1, <4>1, <4>3
      <4>. QED
        BY <4>2, <4>3
    <3>. QED
      BY <1>4, <3>2, <3>3
  <2>2. ASSUME NEW u \in Transactions, NEW r \in holds'[u]
        PROVE  snapshot[r].lastEntryId <= mine'[u][r].lastEntryId
    <3>1. r \in holds[u] \/ (u = t /\ r = e.row)
      <4>1. holds'[u] = IF u = t THEN holds[u] \cup {e.row} ELSE holds[u]
        BY <1>4
      <4>. QED
        BY <4>1
    <3>4. r \in Row
      BY <3>1, <1>1 DEF TypeOK
    <3>2. CASE ~(u = t /\ r = e.row)
      BY <1>4, <3>1, <3>2, <3>4 DEF CoverInv, MineCovers
    <3>3. CASE u = t /\ r = e.row
      <4>1. snapshot[r].lastEntryId <= View(t, e.row).lastEntryId
        BY <1>2, <3>3, <3>4 DEF CoverInv, MineCovers, View, SnapshotRow
      <4>2. /\ snapshot[r].lastEntryId \in Nat
            /\ View(t, e.row).lastEntryId \in Nat
        BY <1>2, <3>4 DEF TypeOK, SnapshotRow
      <4>3. mine'[u][r] = FoldInto(View(t, e.row), e)
        BY <1>1, <1>4, <3>3
      <4>. QED
        BY <4>1, <4>2, <4>3, <1>3
    <3>. QED
      BY <3>2, <3>3
  <2>. QED
    BY <1>4, <2>1, <2>2 DEF MineCovers
<1>8. LastEntryCovers'
  BY <1>4 DEF CoverInv, LastEntryCovers
<1>. QED
  BY <1>5, <1>6, <1>7, <1>8 DEF CoverInv

LEMMA CommitCover ==
    ASSUME TypeOK, CoverInv, NEW t \in Transactions, Commit(t)
    PROVE  CoverInv'
<1>1. /\ LocksExclusive'
      /\ PendingOK'
  BY DEF Commit, EndSession, CoverInv, LocksExclusive, PendingOK, TypeOK
<1>2. \A r \in Row : snapshot'[r] = View(t, r)
  BY DEF Commit
<1>3. ASSUME NEW r \in Row
      PROVE  snapshot[r].lastEntryId <= snapshot'[r].lastEntryId
  <2>1. snapshot[r].lastEntryId \in Nat
    BY DEF TypeOK, SnapshotRow
  <2>2. CASE r \in holds[t]
    BY <2>2, <1>2 DEF View, CoverInv, MineCovers
  <2>3. CASE r \notin holds[t]
    BY <2>1, <2>3, <1>2 DEF View
  <2>. QED
    BY <2>2, <2>3
<1>4. \A u \in Transactions \ {t} :
        /\ holds'[u] = holds[u] /\ mine'[u] = mine[u]
        /\ inserted'[u] = inserted[u] /\ pending'[u] = pending[u]
  BY DEF Commit, EndSession, TypeOK
<1>5. holds'[t] = {} /\ inserted'[t] = {}
  BY DEF Commit, EndSession, TypeOK
<1>6. MineCovers'
  <2>1. ASSUME NEW u \in Transactions \ {t}, NEW r \in holds[u]
        PROVE  snapshot'[r] = snapshot[r]
    BY <1>2 DEF View, CoverInv, LocksExclusive, TypeOK
  <2>. QED
    BY <1>4, <1>5, <2>1 DEF MineCovers, CoverInv
<1>7. LastEntryCovers'
  <2>1. ASSUME NEW e \in entries
        PROVE  e.id <= snapshot'[e.row].lastEntryId
    <3>1. e.row \in Row /\ e.id \in Nat /\ e.id <= snapshot[e.row].lastEntryId
      BY DEF TypeOK, Entry, CoverInv, LastEntryCovers
    <3>2. snapshot[e.row].lastEntryId \in Nat /\ snapshot'[e.row].lastEntryId \in Nat
      BY <3>1, <1>2, ViewIsRow DEF TypeOK, SnapshotRow
    <3>. QED
      BY <3>1, <3>2, <1>3
  <2>2. ASSUME NEW e \in inserted[t]
        PROVE  e.id <= snapshot'[e.row].lastEntryId
    <3>1. e.row \in Row
      BY DEF TypeOK, Entry
    <3>2. pending[t] = {}
      BY DEF CoverInv, PendingOK, Commit
    <3>3. e.row \in holds[t] /\ e.id <= mine[t][e.row].lastEntryId
      BY <3>2 DEF CoverInv, MineCovers
    <3>. QED
      BY <3>1, <3>3, <1>2 DEF View
  <2>. QED
    BY <2>1, <2>2 DEF LastEntryCovers, Commit
<1>. QED
  BY <1>1, <1>6, <1>7 DEF CoverInv

LEMMA StepCover ==
    ASSUME TypeOK, WorkOK, CoverInv, NEW t \in Transactions, Step(t)
    PROVE  CoverInv'
<1>1. ASSUME NEW p \in Program, Begin(t, p)
      PROVE  CoverInv'
  BY <1>1 DEF Begin, CoverInv, LocksExclusive, PendingOK, MineCovers, LastEntryCovers, TypeOK
<1>2. CASE Validate(t)
  BY <1>2 DEF Validate, AtMovement, CoverInv, LocksExclusive, PendingOK, MineCovers, LastEntryCovers, TypeOK
<1>3. CASE PostReturns(t)
  BY <1>3 DEF PostReturns, CoverInv, LocksExclusive, PendingOK, MineCovers, LastEntryCovers, TypeOK
<1>4. Reject(t) \/ ReserveRefused(t) \/ InsertDuplicate(t) \/ Rollback(t) => Discard(t)
  BY DEF Reject, ReserveRefused, InsertDuplicate, Rollback
<1>. QED
  BY <1>1, <1>2, <1>3, <1>4, DiscardCover, ReserveCover, InsertCover, FoldCover, CommitCover
  DEF Step

(***************************************************************************)
(* The nightly verification reads every entry it should: a snapshot row's  *)
(* lastEntryId covers each committed entry of the row, although sessions   *)
(* may lock the row in another order than the sequence served them.        *)
(***************************************************************************)
THEOREM LastEntryAlwaysCovers == Spec => []LastEntryCovers
<1>1. TypeOK /\ WorkOK /\ CoverInv /\ [Next]_vars => CoverInv'
  <2>1. CASE Next
    BY <2>1, StepCover DEF Next
  <2>2. CASE UNCHANGED vars
    BY <2>2 DEF vars, CoverInv, LocksExclusive, PendingOK, MineCovers, LastEntryCovers
  <2>. QED
    BY <2>1, <2>2
<1>2. CoverInv => LastEntryCovers
  BY DEF CoverInv
<1>. QED
  BY <1>1, <1>2, InitCover, TypeCorrect, PTL DEF Spec

-----------------------------------------------------------------------------
(***************************************************************************)
(* Keys.  What a session inserts has keys of its own: no other entry, be   *)
(* it committed, inserted by it or inserted by another session, has one of *)
(* them.  This rests on validate having seen the movement it inserts.      *)
(***************************************************************************)
InsertsValid ==
    \A t \in Transactions : phase[t] = "insert" => Valid(Current(t))

KeyInv ==
    /\ PostedOnce
    /\ \A t \in Transactions :
          /\ \A d, e \in inserted[t] : KeyOf(d) = KeyOf(e) => d = e
          /\ \A d \in inserted[t], e \in entries : KeyOf(d) # KeyOf(e)
    /\ \A t, u \in Transactions : t # u =>
          \A d \in inserted[t], e \in inserted[u] : KeyOf(d) # KeyOf(e)

LEMMA InitKeys == Init => InsertsValid /\ KeyInv
BY DEF Init, InsertsValid, KeyInv, PostedOnce

LEMMA StepInsertsValid ==
    ASSUME TypeOK, InsertsValid, NEW t \in Transactions, Step(t)
    PROVE  InsertsValid'
<1>1. ASSUME NEW u \in Transactions, phase'[u] = "insert", u # t
      PROVE  phase[u] = "insert" /\ work'[u] = work[u]
  BY <1>1 DEF TypeOK, Step, Begin, Reject, Validate, Reserve, ReserveRefused, Insert,
     InsertDuplicate, ApplyToSnapshot, PostReturns, Commit, Rollback, Discard, EndSession
<1>2. phase'[t] = "insert" => Validate(t) \/ Reserve(t)
  BY DEF TypeOK, Step, Begin, Reject, ReserveRefused, Insert,
     InsertDuplicate, ApplyToSnapshot, PostReturns, Commit, Rollback, Discard, EndSession
<1>3. Validate(t) \/ Reserve(t) => Valid(Current(t)) /\ work' = work
  BY DEF Validate, Reserve
<1>. QED
  BY <1>1, <1>2, <1>3 DEF InsertsValid, Current

\* The entry of a leg: its key, and what it adds to its row.
LEMMA EntryOfLeg ==
    ASSUME NEW m, NEW n, NEW e \in EntriesOf(m, n)
    PROVE  \E l \in m.legs :
              /\ e = EntryFor(m, l, n)
              /\ e.row = l.row /\ e.amount = Signed(l)
              /\ e.reason = m.reason /\ e.source = m.source
<1>1. PICK l \in m.legs :
        e = EntryFor(m, l, n)
  BY DEF EntriesOf
<1>2. e.row = l.row /\ e.amount = Signed(l) /\ e.reason = m.reason /\ e.source = m.source
  BY <1>1 DEF EntryFor
<1>. QED
  BY <1>1, <1>2

LEMMA KeysOfEntries ==
    ASSUME NEW m, NEW n, NEW e \in EntriesOf(m, n)
    PROVE  KeyOf(e) \in KeysOfMovement(m)
<1>1. PICK l \in m.legs : e.row = l.row /\ e.reason = m.reason /\ e.source = m.source
  BY EntryOfLeg
<1>2. KeyOf(e) = <<l.row, m.reason, m.source>>
  BY <1>1 DEF KeyOf
<1>. QED
  BY <1>2 DEF KeysOfMovement

LEMMA EntriesKeysOnce ==
    ASSUME NEW m, Valid(m), NEW n,
           NEW d \in EntriesOf(m, n), NEW e \in EntriesOf(m, n), d.row = e.row
    PROVE  d = e
<1>1. PICK k \in m.legs :
        /\ d = EntryFor(m, k, n)
        /\ d.row = k.row
  BY EntryOfLeg
<1>2. PICK l \in m.legs :
        /\ e = EntryFor(m, l, n)
        /\ e.row = l.row
  BY EntryOfLeg
<1>3. k = l
  BY <1>1, <1>2 DEF Valid
<1>. QED
  BY <1>1, <1>2, <1>3

LEMMA InsertKeys ==
    ASSUME TypeOK, InsertsValid, KeyInv, NEW t \in Transactions, Insert(t)
    PROVE  KeyInv'
<1>. DEFINE fresh == EntriesOf(Current(t), nextEntryId)
<1>1. /\ entries' = entries
      /\ \A u \in Transactions :
            inserted'[u] = IF u = t THEN inserted[u] \cup fresh ELSE inserted[u]
  BY DEF Insert, TypeOK
<1>2. \A d, e \in fresh : KeyOf(d) = KeyOf(e) => d = e
  BY EntriesKeysOnce DEF InsertsValid, Insert, KeyOf
<1>3. \A d \in fresh, e \in entries \cup inserted[t] : KeyOf(d) # KeyOf(e)
  BY KeysOfEntries DEF Insert, Duplicate, Keys
<1>4. \A d \in fresh, u \in Transactions \ {t} : \A e \in inserted[u] : KeyOf(d) # KeyOf(e)
  BY KeysOfEntries DEF Insert, InsertWaitsFor, Keys
<1>. HIDE DEF fresh
<1>5. PostedOnce'
  BY <1>1 DEF KeyInv, PostedOnce
<1>6. ASSUME NEW u \in Transactions
      PROVE  /\ \A d, e \in inserted'[u] : KeyOf(d) = KeyOf(e) => d = e
             /\ \A d \in inserted'[u], e \in entries : KeyOf(d) # KeyOf(e)
  <2>1. CASE u = t
    <3>1. inserted'[u] = inserted[t] \cup fresh
      BY <1>1, <2>1
    <3>. QED
      BY <3>1, <1>2, <1>3 DEF KeyInv
  <2>2. CASE u # t
    BY <1>1, <2>2 DEF KeyInv
  <2>. QED
    BY <2>1, <2>2
<1>7. ASSUME NEW u \in Transactions, NEW v \in Transactions, u # v,
             NEW d \in inserted'[u], NEW e \in inserted'[v]
      PROVE  KeyOf(d) # KeyOf(e)
  <2>1. CASE u # t /\ v # t
    BY <1>1, <1>7, <2>1 DEF KeyInv
  <2>2. CASE u = t
    <3>1. d \in inserted[t] \cup fresh /\ e \in inserted[v] /\ v # t
      BY <1>1, <1>7, <2>2
    <3>. QED
      BY <3>1, <1>4 DEF KeyInv
  <2>3. CASE v = t
    <3>1. e \in inserted[t] \cup fresh /\ d \in inserted[u] /\ u # t
      BY <1>1, <1>7, <2>3
    <3>. QED
      BY <3>1, <1>4 DEF KeyInv
  <2>. QED
    BY <2>1, <2>2, <2>3
<1>. QED
  BY <1>1, <1>5, <1>6, <1>7 DEF KeyInv

LEMMA StepKeys ==
    ASSUME TypeOK, InsertsValid, KeyInv, NEW t \in Transactions, Step(t)
    PROVE  KeyInv'
<1>1. CASE Insert(t)
  BY <1>1, InsertKeys
<1>2. CASE Commit(t)
  <2>1. /\ entries' = entries \cup inserted[t]
        /\ inserted' = [inserted EXCEPT ![t] = {}]
    BY <1>2 DEF Commit, EndSession
  <2>2. /\ inserted'[t] = {}
        /\ \A u \in Transactions \ {t} : inserted'[u] = inserted[u]
    BY <2>1 DEF TypeOK
  <2>3. PostedOnce'
    BY <2>1 DEF KeyInv, PostedOnce
  <2>4. ASSUME NEW u \in Transactions, NEW d \in inserted'[u]
        PROVE  u # t /\ d \in inserted[u]
    BY <2>2
  <2>5. ASSUME NEW u \in Transactions
        PROVE  /\ \A d, e \in inserted'[u] : KeyOf(d) = KeyOf(e) => d = e
               /\ \A d \in inserted'[u], e \in entries' : KeyOf(d) # KeyOf(e)
    BY <2>1, <2>4 DEF KeyInv
  <2>6. ASSUME NEW u \in Transactions, NEW v \in Transactions, u # v
        PROVE  \A d \in inserted'[u], e \in inserted'[v] : KeyOf(d) # KeyOf(e)
    BY <2>4, <2>6 DEF KeyInv
  <2>. QED
    BY <2>3, <2>5, <2>6 DEF KeyInv
<1>3. CASE Discard(t)
  <2>1. /\ entries' = entries
        /\ \A u \in Transactions : inserted'[u] \subseteq inserted[u]
    BY <1>3 DEF Discard, EndSession, TypeOK
  <2>. QED
    BY <2>1 DEF KeyInv, PostedOnce
<1>4. CASE UNCHANGED <<entries, inserted>>
  BY <1>4 DEF KeyInv, PostedOnce
<1>. QED
  BY <1>1, <1>2, <1>3, <1>4
  DEF Step, Begin, Reject, Validate, Reserve, ReserveRefused, InsertDuplicate,
      ApplyToSnapshot, PostReturns, Rollback

(***************************************************************************)
(* Nothing is posted twice, whatever is replayed and whoever races: no two *)
(* committed entries share holder, bucket, reason and source.              *)
(***************************************************************************)
THEOREM NeverPostedTwice == Spec => []PostedOnce
<1>1. TypeOK /\ InsertsValid /\ KeyInv /\ [Next]_vars => (InsertsValid /\ KeyInv)'
  <2>1. CASE Next
    BY <2>1, StepInsertsValid, StepKeys DEF Next
  <2>2. CASE UNCHANGED vars
    BY <2>2 DEF vars, InsertsValid, Current, KeyInv, PostedOnce
  <2>. QED
    BY <2>1, <2>2
<1>2. KeyInv => PostedOnce
  BY DEF KeyInv
<1>. QED
  BY <1>1, <1>2, InitKeys, TypeCorrect, PTL DEF Spec

-----------------------------------------------------------------------------
(***************************************************************************)
(* Overdraft.  From the moment reserve has seen enough money until the     *)
(* debit is folded, the session holds the row, so what it saw stays true:  *)
(* a debit of an AVAILABLE row that is still to come is covered by the     *)
(* session's own version of that row.                                      *)
(***************************************************************************)
IsAvailable(r) == r.bucket = "AVAILABLE"

OverdrawInv ==
    /\ NeverOverdrawn
    /\ \A t \in Transactions :
          /\ \A r \in holds[t] : IsAvailable(r) => mine[t][r].amount >= 0
          /\ phase[t] = "insert" /\ IsReserve(Current(t)) =>
                \A l \in DebitsOf(Current(t)) :
                    l.row \in holds[t] /\ mine[t][l.row].amount >= l.amount
          /\ \A d, e \in pending[t] : d.row = e.row => d = e
          /\ \A e \in pending[t] : IsAvailable(e.row) /\ e.amount < 0 =>
                e.row \in holds[t] /\ mine[t][e.row].amount + e.amount >= 0

LEMMA InitOverdraw == Init => OverdrawInv
BY DEF Init, OverdrawInv, NeverOverdrawn, EmptyRow

\* Nothing a session sees of an AVAILABLE row is below zero.
LEMMA ViewNotNegative ==
    ASSUME OverdrawInv, NEW t \in Transactions, NEW r \in Row, IsAvailable(r)
    PROVE  View(t, r).amount >= 0
BY DEF OverdrawInv, NeverOverdrawn, View, IsAvailable

LEMMA DiscardOverdraw ==
    ASSUME TypeOK, OverdrawInv, NEW t \in Transactions, Discard(t)
    PROVE  OverdrawInv'
<1>1. NeverOverdrawn'
  BY DEF OverdrawInv, NeverOverdrawn, Discard
<1>2. \A u \in Transactions \ {t} :
        /\ phase'[u] = phase[u] /\ work'[u] = work[u] /\ holds'[u] = holds[u]
        /\ mine'[u] = mine[u] /\ pending'[u] = pending[u]
  BY DEF Discard, EndSession, TypeOK
<1>3. phase'[t] = "idle" /\ holds'[t] = {} /\ pending'[t] = {}
  BY DEF Discard, EndSession, TypeOK
<1>. QED
  BY <1>1, <1>2, <1>3 DEF OverdrawInv, Current

LEMMA CommitOverdraw ==
    ASSUME TypeOK, OverdrawInv, NEW t \in Transactions, Commit(t)
    PROVE  OverdrawInv'
<1>1. NeverOverdrawn'
  BY ViewNotNegative DEF Commit, NeverOverdrawn, IsAvailable
<1>2. \A u \in Transactions \ {t} :
        /\ phase'[u] = phase[u] /\ work'[u] = work[u] /\ holds'[u] = holds[u]
        /\ mine'[u] = mine[u] /\ pending'[u] = pending[u]
  BY DEF Commit, EndSession, TypeOK
<1>3. phase'[t] = "idle" /\ holds'[t] = {} /\ pending'[t] = {}
  BY DEF Commit, EndSession, TypeOK
<1>. QED
  BY <1>1, <1>2, <1>3 DEF OverdrawInv, Current

LEMMA ReserveOverdraw ==
    ASSUME TypeOK, WorkOK, OverdrawInv, CoverInv, NEW t \in Transactions, Reserve(t)
    PROVE  OverdrawInv'
<1>1. MovementOK(Current(t))
  BY CurrentIsMovement DEF Reserve, AtMovement
<1>2. PICK l \in DebitsOf(Current(t)) :
        View(t, l.row).amount >= l.amount /\ LockRow(t, l.row)
  BY DEF Reserve, SelectForUpdate
<1>3. l.row \in Row /\ DebitsOf(Current(t)) = {l}
  BY <1>1 DEF MovementOK, Reserve, IsReserve, DebitsOf, Movement, Leg
<1>4. /\ snapshot' = snapshot /\ pending' = pending /\ work' = work
      /\ pending[t] = {}
  BY DEF Reserve, AtMovement, CoverInv, PendingOK
<1>5. \A u \in Transactions \ {t} :
        phase'[u] = phase[u] /\ holds'[u] = holds[u] /\ mine'[u] = mine[u]
  BY <1>2 DEF Reserve, LockRow, TypeOK
<1>6. /\ holds'[t] = holds[t] \cup {l.row}
      /\ \A r \in Row : mine'[t][r] = IF r = l.row THEN View(t, r) ELSE mine[t][r]
  BY <1>2, <1>3 DEF LockRow, TypeOK
<1>7. ASSUME NEW r \in holds'[t], IsAvailable(r)
      PROVE  mine'[t][r].amount >= 0
  <2>1. r \in Row /\ (r = l.row \/ r \in holds[t])
    BY <1>3, <1>6 DEF TypeOK
  <2>. QED
    BY <2>1, <1>6, <1>7, ViewNotNegative DEF OverdrawInv
<1>8. l.row \in holds'[t] /\ mine'[t][l.row].amount >= l.amount
  BY <1>2, <1>3, <1>6
<1>9. NeverOverdrawn'
  BY <1>4 DEF OverdrawInv, NeverOverdrawn
<1>. QED
  BY <1>3, <1>4, <1>5, <1>7, <1>8, <1>9 DEF OverdrawInv, Current

LEMMA InsertOverdraw ==
    ASSUME TypeOK, WorkOK, InsertsValid, OverdrawInv, NEW t \in Transactions, Insert(t)
    PROVE  OverdrawInv'
<1>. DEFINE m == Current(t)
            fresh == EntriesOf(m, nextEntryId)
<1>1. MovementOK(m) /\ Valid(m)
  BY CurrentIsMovement DEF Insert, WorkOK, InsertsValid
<1>2. /\ snapshot' = snapshot /\ work' = work /\ holds' = holds /\ mine' = mine
      /\ \A u \in Transactions : pending'[u] = IF u = t THEN fresh ELSE pending[u]
      /\ \A u \in Transactions : phase'[u] = IF u = t THEN "fold" ELSE phase[u]
  BY DEF Insert, TypeOK
<1>3. \A d, e \in fresh : d.row = e.row => d = e
  BY <1>1, EntriesKeysOnce
<1>4. ASSUME NEW e \in fresh, IsAvailable(e.row), e.amount < 0
      PROVE  e.row \in holds[t] /\ mine[t][e.row].amount + e.amount >= 0
  <2>1. PICK l \in m.legs : e.row = l.row /\ e.amount = Signed(l)
    BY EntryOfLeg
  <2>2. l.amount \in Int /\ l.amount > 0 /\ l.row \in Row
    BY <1>1 DEF Valid, MovementOK, Movement, Leg
  <2>3. l \in DebitsOf(m) /\ e.amount = -l.amount
    BY <2>1, <2>2, <1>1, <1>4 DEF DebitsOf, Signed, MovementOK, Movement, Leg, Direction
  <2>4. IsReserve(m)
    BY <2>1, <2>3, <1>1, <1>4 DEF IsReserve, MovementOK, IsAvailable
  <2>5. l.row \in holds[t] /\ mine[t][l.row].amount >= l.amount
    BY <2>3, <2>4 DEF OverdrawInv, Insert
  <2>6. mine[t][l.row].amount \in Int
    BY <2>2 DEF TypeOK, SnapshotRow
  <2>. QED
    BY <2>1, <2>2, <2>3, <2>5, <2>6
<1>5. NeverOverdrawn'
  BY <1>2 DEF OverdrawInv, NeverOverdrawn
<1>. HIDE DEF fresh
<1>. QED
  BY <1>2, <1>3, <1>4, <1>5 DEF OverdrawInv, Current

LEMMA FoldOverdraw ==
    ASSUME TypeOK, OverdrawInv, NEW t \in Transactions, NEW e \in pending[t],
           ApplyToSnapshot(t, e)
    PROVE  OverdrawInv'
<1>1. e.row \in Row /\ e.amount \in Int
  BY DEF TypeOK, Entry
<1>2. /\ snapshot' = snapshot /\ work' = work /\ phase' = phase /\ phase[t] = "fold"
      /\ \A u \in Transactions \ {t} :
            holds'[u] = holds[u] /\ mine'[u] = mine[u] /\ pending'[u] = pending[u]
      /\ holds'[t] = holds[t] \cup {e.row}
      /\ pending'[t] = pending[t] \ {e}
  BY DEF ApplyToSnapshot, TypeOK
<1>3. \A r \in Row : mine'[t][r] = IF r = e.row THEN FoldInto(View(t, e.row), e) ELSE mine[t][r]
  BY <1>1 DEF ApplyToSnapshot, TypeOK
<1>4. FoldInto(View(t, e.row), e).amount = View(t, e.row).amount + e.amount
  BY DEF FoldInto
<1>5. View(t, e.row).amount \in Int
  BY <1>1, ViewIsRow DEF SnapshotRow
<1>6. IsAvailable(e.row) => View(t, e.row).amount + e.amount >= 0
  <2>1. CASE IsAvailable(e.row) /\ e.amount < 0
    BY <2>1 DEF OverdrawInv, View
  <2>2. CASE IsAvailable(e.row) /\ e.amount >= 0
    BY <2>2, <1>1, <1>5, ViewNotNegative
  <2>. QED
    BY <2>1, <2>2, <1>1
<1>7. ASSUME NEW r \in holds'[t], IsAvailable(r)
      PROVE  mine'[t][r].amount >= 0
  <2>1. r = e.row \/ r \in holds[t]
    BY <1>2
  <2>2. r \in Row
    BY <2>1, <1>1 DEF TypeOK
  <2>. QED
    BY <2>1, <2>2, <1>3, <1>4, <1>6, <1>7 DEF OverdrawInv
<1>8. ASSUME NEW d \in pending'[t], IsAvailable(d.row), d.amount < 0
      PROVE  d.row \in holds'[t] /\ mine'[t][d.row].amount + d.amount >= 0
  <2>1. d \in pending[t] /\ d # e
    BY <1>2
  <2>2. d.row \in Row /\ d.row # e.row
    BY <2>1 DEF TypeOK, Entry, OverdrawInv
  <2>3. d.row \in holds[t] /\ mine[t][d.row].amount + d.amount >= 0
    BY <2>1, <1>8 DEF OverdrawInv
  <2>. QED
    BY <2>2, <2>3, <1>2, <1>3
<1>9. NeverOverdrawn' /\ \A c, d \in pending'[t] : c.row = d.row => c = d
  BY <1>2 DEF OverdrawInv, NeverOverdrawn
<1>. QED
  BY <1>2, <1>7, <1>8, <1>9 DEF OverdrawInv, Current

LEMMA StepOverdraw ==
    ASSUME TypeOK, WorkOK, InsertsValid, CoverInv, OverdrawInv,
           NEW t \in Transactions, Step(t)
    PROVE  OverdrawInv'
<1>1. ASSUME NEW p \in Program, Begin(t, p)
      PROVE  OverdrawInv'
  BY <1>1 DEF Begin, OverdrawInv, NeverOverdrawn, Current, TypeOK
<1>2. CASE Validate(t)
  BY <1>2 DEF Validate, OverdrawInv, NeverOverdrawn, Current, TypeOK
<1>3. CASE PostReturns(t)
  BY <1>3 DEF PostReturns, OverdrawInv, NeverOverdrawn, Current, TypeOK
<1>4. Reject(t) \/ ReserveRefused(t) \/ InsertDuplicate(t) \/ Rollback(t) => Discard(t)
  BY DEF Reject, ReserveRefused, InsertDuplicate, Rollback
<1>. QED
  BY <1>1, <1>2, <1>3, <1>4, DiscardOverdraw, ReserveOverdraw, InsertOverdraw,
     FoldOverdraw, CommitOverdraw
  DEF Step

(***************************************************************************)
(* No AVAILABLE balance is ever negative: payouts that together exceed the *)
(* balance cannot all pass reserve, however their statements interleave.   *)
(***************************************************************************)
THEOREM AvailableNeverNegative == Spec => []NeverOverdrawn
<1>. DEFINE Inv == TypeOK /\ WorkOK /\ InsertsValid /\ CoverInv /\ OverdrawInv
<1>1. Init => Inv
  BY InitTyped, InitKeys, InitCover, InitOverdraw
<1>2. Inv /\ [Next]_vars => Inv'
  <2>1. CASE Next /\ Inv
    BY <2>1, StepTyped, StepInsertsValid, StepCover, StepOverdraw DEF Next
  <2>2. CASE UNCHANGED vars
    BY <2>2 DEF vars, TypeOK, WorkOK, InsertsValid, Current, CoverInv, LocksExclusive,
       PendingOK, MineCovers, LastEntryCovers, OverdrawInv, NeverOverdrawn
  <2>. QED
    BY <2>1, <2>2
<1>3. Inv => NeverOverdrawn
  BY DEF OverdrawInv
<1>. QED
  BY <1>1, <1>2, <1>3, PTL DEF Spec

-----------------------------------------------------------------------------
(* Sums over finite sets: what MapThenSumSet computes, one element at a    *)
(* time.                                                                   *)

Total(E) == MapThenSumSet(Amount, E)

Pick(s) == CHOOSE x \in s : TRUE

\* The sums of the weights w over the subsets of S.
IsSums(g, w, S) ==
    /\ g = [s \in SUBSET S |-> g[s]]
    /\ \A s \in SUBSET S :
          g[s] = IF s = {} THEN 0 ELSE w[Pick(s)] + g[s \ {Pick(s)}]

LEMMA PickIn == ASSUME NEW s, s # {} PROVE Pick(s) \in s
BY DEF Pick

LEMMA LeastNatural ==
    ASSUME NEW S \in SUBSET Nat, S # {}
    PROVE  \E x \in S : \A y \in S : x <= y
<1>1. PICK x \in S : \A y \in S : ~(<<y, x>> \in OpToRel(<, Nat))
  BY NatLessThanWellFounded, WFMin
<1>2. ASSUME NEW y \in S
      PROVE  x <= y
  <2>1. <<y, x>> \in Nat \X Nat
    OBVIOUS
  <2>2. ~(y < x)
    BY <1>1, <2>1 DEF OpToRel
  <2>. QED
    BY <2>2
<1>. QED
  BY <1>2

\* A set of subsets of a finite set has a smallest member.
LEMMA LeastSubset ==
    ASSUME NEW S, IsFiniteSet(S), NEW C \in SUBSET (SUBSET S), C # {}
    PROVE  \E s \in C : \A x \in s : s \ {x} \notin C
<1>. DEFINE sizes == {Cardinality(s) : s \in C}
<1>1. \A s \in C : IsFiniteSet(s) /\ Cardinality(s) \in Nat
  BY FS_Subset, FS_CardinalityType
<1>2. PICK n \in sizes : \A k \in sizes : n <= k
  <2>1. sizes \in SUBSET Nat /\ sizes # {}
    BY <1>1
  <2>. HIDE DEF sizes
  <2>. QED
    BY <2>1, LeastNatural
<1>3. PICK s \in C : n = Cardinality(s)
  OBVIOUS
<1>4. ASSUME NEW x \in s, s \ {x} \in C
      PROVE  FALSE
  <2>1. Cardinality(s \ {x}) = Cardinality(s) - 1
    BY <1>1, FS_RemoveElement
  <2>2. n <= Cardinality(s \ {x})
    BY <1>2, <1>4
  <2>. QED
    BY <1>1, <1>3, <2>1, <2>2
<1>. QED
  BY <1>4

LEMMA SumsExist ==
    ASSUME NEW S, IsFiniteSet(S), NEW w
    PROVE  \E g : IsSums(g, w, S)
<1>. DEFINE Upto(g, n) ==
              /\ g = [s \in SUBSET S |-> g[s]]
              /\ \A s \in SUBSET S : Cardinality(s) <= n =>
                    g[s] = IF s = {} THEN 0 ELSE w[Pick(s)] + g[s \ {Pick(s)}]
            Missing == {n \in Nat : ~ \E g : Upto(g, n)}
<1>0. \A s \in SUBSET S : IsFiniteSet(s) /\ Cardinality(s) \in Nat /\ Cardinality(s) <= Cardinality(S)
  BY FS_Subset, FS_CardinalityType
<1>1. Missing = {}
  <2>1. SUFFICES ASSUME Missing # {} PROVE FALSE
    OBVIOUS
  <2>2. PICK n \in Missing : \A k \in Missing : n <= k
    <3>. Missing \in SUBSET Nat
      OBVIOUS
    <3>. HIDE DEF Missing
    <3>. QED
      BY <2>1, LeastNatural
  <2>3. CASE n = 0
    <3>. DEFINE g == [s \in SUBSET S |-> 0]
    <3>1. \A s \in SUBSET S : Cardinality(s) <= 0 => s = {}
      BY <1>0, FS_EmptySet
    <3>2. Upto(g, 0)
      BY <3>1
    <3>. HIDE DEF Upto
    <3>. QED
      BY <2>2, <2>3, <3>2
  <2>4. CASE n # 0
    <3>1. n - 1 \in Nat /\ n - 1 \notin Missing
      <4>. n \in Nat
        OBVIOUS
      <4>. HIDE DEF Missing
      <4>. QED
        BY <2>2, <2>4
    <3>2. PICK f : Upto(f, n - 1)
      BY <3>1
    <3>. DEFINE g == [s \in SUBSET S |-> IF Cardinality(s) = n
                                         THEN w[Pick(s)] + f[s \ {Pick(s)}] ELSE f[s]]
    <3>3. ASSUME NEW s \in SUBSET S, Cardinality(s) <= n
          PROVE  g[s] = IF s = {} THEN 0 ELSE w[Pick(s)] + g[s \ {Pick(s)}]
      <4>0. /\ n \in Nat /\ Cardinality(s) \in Nat
            /\ Cardinality(s) # n => Cardinality(s) <= n - 1
        BY <1>0, <3>3
      <4>1. CASE s = {}
        <5>1. Cardinality(s) = 0 /\ 0 <= n - 1
          BY <2>4, <4>0, <4>1, FS_EmptySet
        <5>2. f[s] = 0
          BY <3>2, <4>1, <5>1
        <5>. QED
          BY <2>4, <4>1, <5>1, <5>2
      <4>2. CASE s # {}
        <5>1. Pick(s) \in s
          BY <4>2, PickIn
        <5>2. /\ s \ {Pick(s)} \in SUBSET S
              /\ Cardinality(s \ {Pick(s)}) = Cardinality(s) - 1
          BY <1>0, <5>1, FS_RemoveElement
        <5>3. g[s \ {Pick(s)}] = f[s \ {Pick(s)}]
          BY <1>0, <2>2, <3>3, <5>2
        <5>4. g[s] = w[Pick(s)] + f[s \ {Pick(s)}]
          <6>1. CASE Cardinality(s) = n
            BY <6>1
          <6>2. CASE Cardinality(s) # n
            <7>1. f[s] = w[Pick(s)] + f[s \ {Pick(s)}]
              BY <3>2, <4>0, <4>2, <6>2
            <7>. QED
              BY <6>2, <7>1
          <6>. QED
            BY <6>1, <6>2
        <5>. QED
          BY <4>2, <5>3, <5>4
      <4>. QED
        BY <4>1, <4>2
    <3>4. Upto(g, n)
      <4>1. g = [s \in SUBSET S |-> g[s]]
        OBVIOUS
      <4>. HIDE DEF g
      <4>. QED
        BY <3>3, <4>1
    <3>. HIDE DEF Upto, g
    <3>. QED
      BY <2>2, <3>4
  <2>. QED
    BY <2>3, <2>4
<1>2. PICK g : Upto(g, Cardinality(S))
  BY <1>0, <1>1
<1>. QED
  BY <1>0, <1>2 DEF IsSums

LEMMA SumsUnique ==
    ASSUME NEW S, IsFiniteSet(S), NEW T, S \subseteq T, NEW w, NEW v,
           \A x \in S : v[x] = w[x],
           NEW g, IsSums(g, w, T), NEW h, IsSums(h, v, S)
    PROVE  g[S] = h[S]
<1>. DEFINE C == {s \in SUBSET S : g[s] # h[s]}
<1>1. SUFFICES ASSUME C # {} PROVE FALSE
  OBVIOUS
<1>2. PICK s \in C : \A x \in s : s \ {x} \notin C
  <2>. C \in SUBSET (SUBSET S)
    OBVIOUS
  <2>. HIDE DEF C
  <2>. QED
    BY <1>1, LeastSubset
<1>3. CASE s = {}
  BY <1>3 DEF IsSums
<1>4. CASE s # {}
  <2>1. Pick(s) \in s
    BY <1>4, PickIn
  <2>2. g[s \ {Pick(s)}] = h[s \ {Pick(s)}]
    BY <1>2, <2>1
  <2>. QED
    BY <1>4, <2>1, <2>2 DEF IsSums
<1>. QED
  BY <1>3, <1>4

LEMMA SumsAreInt ==
    ASSUME NEW S, IsFiniteSet(S), NEW w, \A x \in S : w[x] \in Int,
           NEW g, IsSums(g, w, S), NEW t \in SUBSET S
    PROVE  g[t] \in Int
<1>. DEFINE C == {s \in SUBSET S : g[s] \notin Int}
<1>1. SUFFICES ASSUME C # {} PROVE FALSE
  OBVIOUS
<1>2. PICK s \in C : \A x \in s : s \ {x} \notin C
  <2>. C \in SUBSET (SUBSET S)
    OBVIOUS
  <2>. HIDE DEF C
  <2>. QED
    BY <1>1, LeastSubset
<1>0. s \in SUBSET S /\ g[s] \notin Int
  OBVIOUS
<1>3. CASE s = {}
  <2>1. g[s] = 0
    BY <1>0, <1>3 DEF IsSums
  <2>. QED
    BY <1>0, <2>1
<1>4. CASE s # {}
  <2>1. Pick(s) \in s
    BY <1>4, PickIn
  <2>2. g[s \ {Pick(s)}] \in Int
    BY <1>2, <2>1
  <2>3. g[s] = w[Pick(s)] + g[s \ {Pick(s)}]
    BY <1>0, <1>4 DEF IsSums
  <2>. QED
    BY <1>0, <2>1, <2>2, <2>3
<1>. QED
  BY <1>3, <1>4

\* The order in which the elements are picked does not matter.
LEMMA SumsRemove ==
    ASSUME NEW S, IsFiniteSet(S), NEW w, \A x \in S : w[x] \in Int,
           NEW g, IsSums(g, w, S), NEW t \in SUBSET S, NEW x \in t
    PROVE  g[t] = w[x] + g[t \ {x}]
<1>. DEFINE C == {s \in SUBSET S : \E y \in s : g[s] # w[y] + g[s \ {y}]}
<1>1. SUFFICES ASSUME C # {} PROVE FALSE
  OBVIOUS
<1>2. PICK s \in C : \A y \in s : s \ {y} \notin C
  <2>. C \in SUBSET (SUBSET S)
    OBVIOUS
  <2>. HIDE DEF C
  <2>. QED
    BY <1>1, LeastSubset
<1>3. PICK y \in s : g[s] # w[y] + g[s \ {y}]
  OBVIOUS
<1>. DEFINE p == Pick(s)
            rest == s \ {p, y}
<1>4. /\ p \in s /\ w[p] \in Int /\ w[y] \in Int
      /\ g[s] = w[p] + g[s \ {p}]
  BY PickIn DEF IsSums
<1>5. p # y
  BY <1>3, <1>4
<1>6. g[s \ {p}] = w[y] + g[rest]
  <2>1. (s \ {p}) \ {y} = rest /\ y \in s \ {p} /\ s \ {p} \in SUBSET S
    BY <1>5
  <2>2. s \ {p} \notin C
    BY <1>2, <1>4
  <2>. QED
    BY <2>1, <2>2
<1>7. g[s \ {y}] = w[p] + g[rest]
  <2>1. (s \ {y}) \ {p} = rest /\ p \in s \ {y} /\ s \ {y} \in SUBSET S
    BY <1>4, <1>5
  <2>2. s \ {y} \notin C
    BY <1>2
  <2>. QED
    BY <2>1, <2>2
<1>8. g[rest] \in Int
  <2>. rest \in SUBSET S
    OBVIOUS
  <2>. QED
    BY SumsAreInt
<1>. QED
  BY <1>3, <1>4, <1>6, <1>7, <1>8

LEMMA SumIs ==
    ASSUME NEW S, IsFiniteSet(S)
    PROVE  \E h : IsSums(h, [e \in S |-> e.amount], S) /\ Total(S) = h[S]
<1>. DEFINE w == [e \in S |-> e.amount]
            Eq(i) == i = [s \in SUBSET S |-> IF s = {} THEN 0
                             ELSE Amount(CHOOSE x \in s : TRUE) + i[s \ {CHOOSE x \in s : TRUE}]]
            iter == CHOOSE i : Eq(i)
<1>1. ASSUME NEW i PROVE Eq(i) <=> IsSums(i, w, S)
  <2>1. ASSUME NEW s \in SUBSET S, s # {}
        PROVE  Amount(CHOOSE x \in s : TRUE) = w[Pick(s)]
    BY <2>1 DEF Amount, Pick
  <2>2. ASSUME NEW s \in SUBSET S
        PROVE  (IF s = {} THEN 0
                ELSE Amount(CHOOSE x \in s : TRUE) + i[s \ {CHOOSE x \in s : TRUE}])
               = IF s = {} THEN 0 ELSE w[Pick(s)] + i[s \ {Pick(s)}]
    BY <2>1 DEF Pick
  <2>. HIDE DEF w
  <2>3. ASSUME IsSums(i, w, S) PROVE Eq(i)
    BY <2>2, <2>3 DEF IsSums
  <2>4. ASSUME Eq(i) PROVE IsSums(i, w, S)
    BY <2>2, <2>4 DEF IsSums
  <2>. QED
    BY <2>3, <2>4
<1>2. Total(S) = iter[S]
  BY DEF Total, MapThenSumSet, MapThenFoldSet
<1>3. Eq(iter)
  <2>1. PICK i : IsSums(i, w, S)
    BY SumsExist
  <2>2. Eq(i)
    BY <1>1, <2>1
  <2>. HIDE DEF Eq
  <2>. QED
    BY <2>2
<1>. HIDE DEF iter, Eq
<1>. QED
  BY <1>1, <1>2, <1>3

LEMMA SumOfNone == Total({}) = 0
<1>1. PICK h : IsSums(h, [e \in {} |-> e.amount], {}) /\ Total({}) = h[{}]
  BY SumIs, FS_EmptySet
<1>. QED
  BY <1>1 DEF IsSums

LEMMA SumWithOne ==
    ASSUME NEW S, IsFiniteSet(S), NEW x, x \notin S, \A e \in S \cup {x} : e.amount \in Int
    PROVE  /\ Total(S) \in Int
           /\ Total(S \cup {x}) = Total(S) + x.amount
<1>. DEFINE T == S \cup {x}
            w == [e \in T |-> e.amount]
            v == [e \in S |-> e.amount]
<1>0. IsFiniteSet(T) /\ T \ {x} = S /\ x \in T /\ S \subseteq T /\ T \in SUBSET T
  BY FS_AddElement
<1>1. PICK g : IsSums(g, w, T) /\ Total(T) = g[T]
  BY <1>0, SumIs
<1>2. PICK h : IsSums(h, v, S) /\ Total(S) = h[S]
  BY SumIs
<1>3. /\ \A e \in T : w[e] \in Int
      /\ \A e \in S : v[e] = w[e] /\ v[e] \in Int
      /\ w[x] = x.amount
  OBVIOUS
<1>. HIDE DEF T, w, v
<1>4. g[S] = h[S]
  BY <1>0, <1>1, <1>2, <1>3, SumsUnique
<1>5. h[S] \in Int
  BY <1>2, <1>3, SumsAreInt
<1>6. g[T] = w[x] + g[S]
  BY <1>0, <1>1, <1>3, SumsRemove
<1>. QED
  BY <1>1, <1>2, <1>3, <1>4, <1>5, <1>6 DEF T

-----------------------------------------------------------------------------
(***************************************************************************)
(* Books.  A session's version of a row it has locked is the sum of the    *)
(* entries committed for the row and of those the session has folded; an   *)
(* entry it has folded is of a row it has locked.                          *)
(***************************************************************************)
Folded(t) == inserted[t] \ pending[t]

OfRow(E, r) == {e \in E : e.row = r}

FiniteInv ==
    /\ IsFiniteSet(entries)
    /\ \A t \in Transactions : IsFiniteSet(inserted[t])

BooksInv ==
    /\ \A r \in Row : snapshot[r].amount = Total(OfRow(entries, r))
    /\ \A t \in Transactions :
          /\ \A e \in Folded(t) : e.row \in holds[t]
          /\ \A r \in holds[t] :
                mine[t][r].amount = Total(OfRow(entries \cup Folded(t), r))

LEMMA InitBooks == Init => FiniteInv /\ BooksInv
<1>. SUFFICES ASSUME Init PROVE FiniteInv /\ BooksInv
  OBVIOUS
<1>1. FiniteInv
  BY FS_EmptySet DEF Init, FiniteInv
<1>2. \A r \in Row : snapshot[r].amount = Total(OfRow(entries, r))
  <2>1. \A r \in Row : OfRow(entries, r) = {} /\ snapshot[r].amount = 0
    BY DEF Init, OfRow, EmptyRow
  <2>. QED
    BY <2>1, SumOfNone
<1>. QED
  BY <1>1, <1>2 DEF Init, BooksInv, Folded

LEMMA StepFinite ==
    ASSUME TypeOK, WorkOK, FiniteInv, NEW t \in Transactions, Step(t)
    PROVE  FiniteInv'
<1>1. CASE Insert(t)
  <2>. DEFINE fresh == EntriesOf(Current(t), nextEntryId)
  <2>1. MovementOK(Current(t))
    BY <1>1, CurrentIsMovement DEF Insert, WorkOK
  <2>2. IsFiniteSet(fresh)
    <3>. DEFINE f == [l \in Current(t).legs |-> EntryFor(Current(t), l, nextEntryId)]
    <3>1. IsFiniteSet(Current(t).legs)
      BY <2>1 DEF MovementOK
    <3>2. fresh = {f[l] : l \in Current(t).legs}
      BY DEF EntriesOf
    <3>3. f \in Surjection(Current(t).legs, {f[l] : l \in Current(t).legs})
      BY DEF Surjection
    <3>. QED
      BY <3>1, <3>2, <3>3, FS_Surjection
  <2>3. /\ entries' = entries
        /\ \A u \in Transactions :
              inserted'[u] = IF u = t THEN inserted[u] \cup fresh ELSE inserted[u]
    BY <1>1 DEF Insert, TypeOK
  <2>. HIDE DEF fresh
  <2>. QED
    BY <2>2, <2>3, FS_Union DEF FiniteInv
<1>2. CASE Commit(t)
  <2>1. /\ entries' = entries \cup inserted[t]
        /\ \A u \in Transactions : inserted'[u] \in {inserted[u], {}}
    BY <1>2 DEF Commit, EndSession, TypeOK
  <2>. QED
    BY <2>1, FS_Union, FS_EmptySet DEF FiniteInv
<1>3. CASE Discard(t)
  <2>1. /\ entries' = entries
        /\ \A u \in Transactions : inserted'[u] \in {inserted[u], {}}
    BY <1>3 DEF Discard, EndSession, TypeOK
  <2>. QED
    BY <2>1, FS_EmptySet DEF FiniteInv
<1>4. CASE UNCHANGED <<entries, inserted>>
  BY <1>4 DEF FiniteInv
<1>. QED
  BY <1>1, <1>2, <1>3, <1>4
  DEF Step, Begin, Reject, Validate, Reserve, ReserveRefused, InsertDuplicate,
      ApplyToSnapshot, PostReturns, Rollback

\* What a session sees of any row is the sum of what is committed for it
\* and of what the session has folded into it.
LEMMA ViewIsSum ==
    ASSUME TypeOK, BooksInv, NEW t \in Transactions, NEW r \in Row
    PROVE  View(t, r).amount = Total(OfRow(entries \cup Folded(t), r))
<1>1. CASE r \in holds[t]
  BY <1>1 DEF BooksInv, View
<1>2. CASE r \notin holds[t]
  <2>1. OfRow(entries \cup Folded(t), r) = OfRow(entries, r)
    BY <1>2 DEF BooksInv, OfRow
  <2>. QED
    BY <1>2, <2>1 DEF BooksInv, View
<1>. QED
  BY <1>1, <1>2

LEMMA ReserveBooks ==
    ASSUME TypeOK, WorkOK, CoverInv, BooksInv, NEW t \in Transactions, Reserve(t)
    PROVE  BooksInv'
<1>1. Current(t) \in Movement
  BY CurrentIsMovement DEF Reserve, AtMovement
<1>2. PICK l \in DebitsOf(Current(t)) : LockFree(t, l.row) /\ LockRow(t, l.row)
  BY DEF Reserve, SelectForUpdate
<1>3. l.row \in Row
  BY <1>1 DEF DebitsOf, Movement, Leg
<1>4. /\ entries' = entries /\ snapshot' = snapshot
      /\ inserted' = inserted /\ pending' = pending
  BY DEF Reserve
<1>5. /\ \A u \in Transactions, r \in Row :
            mine'[u][r] = IF u = t /\ r = l.row THEN View(t, r) ELSE mine[u][r]
      /\ \A u \in Transactions :
            holds'[u] = IF u = t THEN holds[u] \cup {l.row} ELSE holds[u]
  BY <1>2, <1>3 DEF LockRow, TypeOK
<1>6. ASSUME NEW u \in Transactions, NEW r \in holds'[u]
      PROVE  mine'[u][r].amount = Total(OfRow(entries \cup Folded(u), r))
  <2>1. r \in Row
    <3>1. r \in holds[u] \/ r = l.row
      BY <1>5
    <3>. QED
      BY <1>3, <3>1 DEF TypeOK
  <2>2. CASE u = t /\ r = l.row
    BY <1>5, <2>1, <2>2, ViewIsSum
  <2>3. CASE ~(u = t /\ r = l.row)
    <3>1. r \in holds[u] /\ mine'[u][r] = mine[u][r]
      BY <1>5, <2>1, <2>3
    <3>. QED
      BY <3>1 DEF BooksInv
  <2>. QED
    BY <2>2, <2>3
<1>. QED
  BY <1>4, <1>5, <1>6 DEF BooksInv, Folded

LEMMA InsertBooks ==
    ASSUME TypeOK, CoverInv, BooksInv, NEW t \in Transactions, Insert(t)
    PROVE  BooksInv'
<1>. DEFINE fresh == EntriesOf(Current(t), nextEntryId)
<1>1. /\ entries' = entries /\ snapshot' = snapshot /\ holds' = holds /\ mine' = mine
      /\ \A u \in Transactions : pending'[u] = IF u = t THEN fresh ELSE pending[u]
      /\ \A u \in Transactions :
            inserted'[u] = IF u = t THEN inserted[u] \cup fresh ELSE inserted[u]
      /\ pending[t] = {}
  BY DEF Insert, TypeOK, CoverInv, PendingOK
<1>2. fresh \cap inserted[t] = {}
  BY KeysOfEntries DEF Insert, Duplicate, Keys
<1>. HIDE DEF fresh
<1>3. \A u \in Transactions : Folded(u)' = Folded(u)
  BY <1>1, <1>2 DEF Folded
<1>. QED
  BY <1>1, <1>3 DEF BooksInv

LEMMA FoldBooks ==
    ASSUME TypeOK, CoverInv, KeyInv, FiniteInv, BooksInv, NEW t \in Transactions,
           NEW e \in pending[t], ApplyToSnapshot(t, e)
    PROVE  BooksInv'
<1>1. e \in inserted[t] /\ e.row \in Row /\ e.amount \in Int
  BY DEF TypeOK, Entry, CoverInv, PendingOK
<1>2. /\ entries' = entries /\ snapshot' = snapshot /\ inserted' = inserted
      /\ \A u \in Transactions \ {t} :
            holds'[u] = holds[u] /\ mine'[u] = mine[u] /\ pending'[u] = pending[u]
      /\ holds'[t] = holds[t] \cup {e.row}
      /\ pending'[t] = pending[t] \ {e}
      /\ \A r \in Row :
            mine'[t][r] = IF r = e.row THEN FoldInto(View(t, e.row), e) ELSE mine[t][r]
  BY <1>1 DEF ApplyToSnapshot, TypeOK
<1>3. Folded(t)' = Folded(t) \cup {e} /\ \A u \in Transactions \ {t} : Folded(u)' = Folded(u)
  BY <1>1, <1>2 DEF Folded
<1>4. e \notin entries \cup Folded(t)
  BY <1>1 DEF Folded, KeyInv
<1>5. ASSUME NEW r \in holds'[t]
      PROVE  mine'[t][r].amount = Total(OfRow(entries \cup Folded(t)', r))
  <2>1. r \in Row /\ (r = e.row \/ r \in holds[t])
    BY <1>1, <1>2 DEF TypeOK
  <2>2. CASE r = e.row
    <3>. DEFINE before == OfRow(entries \cup Folded(t), r)
    <3>1. OfRow(entries \cup Folded(t)', r) = before \cup {e}
      BY <1>3, <2>2 DEF OfRow
    <3>2. e \notin before
      BY <1>4 DEF OfRow
    <3>3. IsFiniteSet(before)
      <4>1. IsFiniteSet(entries \cup inserted[t])
        BY FS_Union DEF FiniteInv
      <4>2. before \in SUBSET (entries \cup inserted[t])
        BY DEF OfRow, Folded
      <4>. QED
        BY <4>1, <4>2, FS_Subset
    <3>4. \A d \in before \cup {e} : d.amount \in Int
      BY <1>1 DEF OfRow, Folded, TypeOK, Entry
    <3>. HIDE DEF before
    <3>5. Total(before \cup {e}) = Total(before) + e.amount
      BY <3>2, <3>3, <3>4, SumWithOne
    <3>6. View(t, r).amount = Total(before)
      BY <2>1, ViewIsSum DEF before
    <3>7. mine'[t][r].amount = View(t, r).amount + e.amount
      BY <1>2, <2>1, <2>2 DEF FoldInto
    <3>. QED
      BY <3>1, <3>5, <3>6, <3>7
  <2>3. CASE r # e.row
    <3>1. OfRow(entries \cup Folded(t)', r) = OfRow(entries \cup Folded(t), r)
      BY <1>3, <2>3 DEF OfRow
    <3>. QED
      BY <1>2, <2>1, <2>3, <3>1 DEF BooksInv
  <2>. QED
    BY <2>2, <2>3
<1>6. \A d \in Folded(t)' : d.row \in holds'[t]
  BY <1>2, <1>3 DEF BooksInv
<1>7. ASSUME NEW u \in Transactions
      PROVE  /\ \A d \in Folded(u)' : d.row \in holds'[u]
             /\ \A r \in holds'[u] :
                   mine'[u][r].amount = Total(OfRow(entries \cup Folded(u)', r))
  <2>1. CASE u = t
    BY <1>5, <1>6, <2>1
  <2>2. CASE u # t
    BY <1>2, <1>3, <2>2 DEF BooksInv
  <2>. QED
    BY <2>1, <2>2
<1>. QED
  BY <1>2, <1>7 DEF BooksInv

LEMMA CommitBooks ==
    ASSUME TypeOK, CoverInv, BooksInv, NEW t \in Transactions, Commit(t)
    PROVE  BooksInv'
<1>1. /\ entries' = entries \cup Folded(t)
      /\ \A r \in Row : snapshot'[r] = View(t, r)
  BY DEF Commit, CoverInv, PendingOK, Folded
<1>2. /\ holds'[t] = {} /\ Folded(t)' = {}
      /\ \A u \in Transactions \ {t} :
            holds'[u] = holds[u] /\ mine'[u] = mine[u] /\ Folded(u)' = Folded(u)
  BY DEF Commit, EndSession, TypeOK, Folded
<1>3. ASSUME NEW u \in Transactions \ {t}, NEW r \in holds[u]
      PROVE  OfRow(entries' \cup Folded(u), r) = OfRow(entries \cup Folded(u), r)
  <2>1. r \notin holds[t]
    BY DEF CoverInv, LocksExclusive
  <2>. QED
    BY <1>1, <2>1 DEF BooksInv, OfRow
<1>4. \A r \in Row : snapshot'[r].amount = Total(OfRow(entries', r))
  BY <1>1, ViewIsSum
<1>5. ASSUME NEW u \in Transactions
      PROVE  /\ \A e \in Folded(u)' : e.row \in holds'[u]
             /\ \A r \in holds'[u] :
                   mine'[u][r].amount = Total(OfRow(entries' \cup Folded(u)', r))
  <2>1. CASE u = t
    BY <1>2, <2>1
  <2>2. CASE u # t
    <3>1. holds'[u] = holds[u] /\ mine'[u] = mine[u] /\ Folded(u)' = Folded(u)
      BY <1>2, <2>2
    <3>2. \A r \in holds[u] : OfRow(entries' \cup Folded(u), r) = OfRow(entries \cup Folded(u), r)
      BY <1>3, <2>2
    <3>3. /\ \A e \in Folded(u) : e.row \in holds[u]
          /\ \A r \in holds[u] : mine[u][r].amount = Total(OfRow(entries \cup Folded(u), r))
      BY DEF BooksInv
    <3>4. \A r \in holds[u] : mine[u][r].amount = Total(OfRow(entries' \cup Folded(u), r))
      BY <3>2, <3>3
    <3>. QED
      BY <3>1, <3>3, <3>4
  <2>. QED
    BY <2>1, <2>2
<1>. QED
  BY <1>4, <1>5 DEF BooksInv

LEMMA DiscardBooks ==
    ASSUME TypeOK, BooksInv, NEW t \in Transactions, Discard(t)
    PROVE  BooksInv'
<1>1. /\ entries' = entries /\ snapshot' = snapshot
      /\ holds'[t] = {} /\ Folded(t)' = {}
      /\ \A u \in Transactions \ {t} :
            holds'[u] = holds[u] /\ mine'[u] = mine[u] /\ Folded(u)' = Folded(u)
  BY DEF Discard, EndSession, TypeOK, Folded
<1>2. ASSUME NEW u \in Transactions
      PROVE  /\ \A e \in Folded(u)' : e.row \in holds'[u]
             /\ \A r \in holds'[u] :
                   mine'[u][r].amount = Total(OfRow(entries \cup Folded(u)', r))
  <2>1. CASE u = t
    BY <1>1, <2>1
  <2>2. CASE u # t
    BY <1>1, <2>2 DEF BooksInv
  <2>. QED
    BY <2>1, <2>2
<1>. QED
  BY <1>1, <1>2 DEF BooksInv

LEMMA StepBooks ==
    ASSUME TypeOK, WorkOK, CoverInv, KeyInv, FiniteInv, BooksInv,
           NEW t \in Transactions, Step(t)
    PROVE  BooksInv'
<1>1. CASE UNCHANGED <<entries, snapshot, inserted, pending, holds, mine>>
  BY <1>1 DEF BooksInv, Folded
<1>2. (\E p \in Program : Begin(t, p)) \/ Validate(t) \/ PostReturns(t)
        => UNCHANGED <<entries, snapshot, inserted, pending, holds, mine>>
  BY DEF Begin, Validate, PostReturns
<1>3. Reject(t) \/ ReserveRefused(t) \/ InsertDuplicate(t) \/ Rollback(t) => Discard(t)
  BY DEF Reject, ReserveRefused, InsertDuplicate, Rollback
<1>. QED
  BY <1>1, <1>2, <1>3, DiscardBooks, ReserveBooks, InsertBooks, FoldBooks, CommitBooks
  DEF Step

(***************************************************************************)
(* The nightly verification never finds a difference: a snapshot row's     *)
(* amount is the sum of the committed entries of the row up to the last it *)
(* counts, in whatever order sessions insert, fold, commit and roll back.  *)
(***************************************************************************)
THEOREM BooksAlwaysBalance == Spec => []BooksBalance
<1>. DEFINE Inv == TypeOK /\ WorkOK /\ InsertsValid /\ CoverInv /\ KeyInv /\ FiniteInv /\ BooksInv
<1>1. Init => Inv
  BY InitTyped, InitKeys, InitCover, InitBooks
<1>2. Inv /\ [Next]_vars => Inv'
  <2>1. CASE Next /\ Inv
    BY <2>1, StepTyped, StepInsertsValid, StepCover, StepKeys, StepFinite, StepBooks DEF Next
  <2>2. CASE UNCHANGED vars
    BY <2>2 DEF vars, TypeOK, WorkOK, InsertsValid, Current, CoverInv, LocksExclusive,
       PendingOK, MineCovers, LastEntryCovers, KeyInv, PostedOnce, FiniteInv, BooksInv, Folded
  <2>. QED
    BY <2>1, <2>2
<1>3. Inv => BooksBalance
  <2>. SUFFICES ASSUME Inv, NEW r \in Row
                PROVE  snapshot[r].amount =
                         Total({e \in entries : e.row = r /\ e.id <= snapshot[r].lastEntryId})
    BY DEF BooksBalance, Total
  <2>1. {e \in entries : e.row = r /\ e.id <= snapshot[r].lastEntryId} = OfRow(entries, r)
    BY DEF CoverInv, LastEntryCovers, OfRow
  <2>. QED
    BY <2>1 DEF BooksInv
<1>. QED
  BY <1>1, <1>2, <1>3, PTL DEF Spec

-----------------------------------------------------------------------------
(***************************************************************************)
(* Waiting.  A session comes to its rows in one of three ways: with none   *)
(* yet, so that it waits for others and none for it; in the order of the   *)
(* locks, inside its first movement; or, in a later movement of a batch,   *)
(* holding already the rows of the merchant and of the house.  Whoever     *)
(* holds a row of an agent holds the house's row of that bucket, which     *)
(* keeps such later movements apart.                                       *)
(***************************************************************************)
Fresh(t) == holds[t] = {} /\ inserted[t] = {}

Reserving(t) ==
    /\ IsReserve(Current(t))
    /\ inserted[t] = {}
    /\ \E d \in DebitsOf(Current(t)) : holds[t] = {d.row}

Later(t) ==
    \A i \in DOMAIN work[t] :
        /\ work[t][i].reason = "MERCHANT_SETTLED"
        /\ SharedRows(work[t][i]) \subseteq holds[t]

InOrder(t) == \A r \in holds[t], e \in pending[t] : r = e.row \/ Before(r, e.row)

StageOK(t) ==
    /\ Orderly(work[t])
    /\ phase[t] = "idle" => Fresh(t)
    /\ phase[t] = "ready" => Fresh(t) \/ Later(t)
    /\ phase[t] = "insert" =>
          (Fresh(t) /\ ~IsReserve(Current(t))) \/ Reserving(t) \/ Later(t)
    /\ phase[t] = "fold" => InOrder(t) \/ Later(t)

\* Each row of the movement is held by now or has its entry still to fold.
LegsOK(t) ==
    phase[t] = "fold" =>
        /\ \A e \in pending[t] : \E l \in Current(t).legs : e.row = l.row
        /\ \A l \in Current(t).legs :
              l.row \in holds[t] \/ \E e \in pending[t] : e.row = l.row
        /\ \A d, e \in pending[t] : d.row = e.row => d = e

Gated(t) ==
    \A r \in holds[t] :
        r.holderType = "AGENT" => RowOf("INTERNAL", 0, r.bucket) \in holds[t]

ReservedHeld(t) ==
    \A e \in inserted[t] : e.reason = "PAYOUT_RESERVED" =>
        RowOf(e.row.holderType, e.row.holderId, "AVAILABLE") \in holds[t]

WaitInv ==
    \A t \in Transactions : StageOK(t) /\ LegsOK(t) /\ Gated(t) /\ ReservedHeld(t)

\* The order of the locks is a strict and total one.
LEMMA BeforeIsStrict ==
    ASSUME NEW r \in Row
    PROVE  ~Before(r, r)
BY RowAssumption DEF Before, HolderType, HolderTypeOrder, Bucket, BucketOrder

LEMMA BeforeIsTransitive ==
    ASSUME NEW q \in Row, NEW r \in Row, NEW s \in Row, Before(q, r), Before(r, s)
    PROVE  Before(q, s)
BY RowAssumption DEF Before, HolderType, HolderTypeOrder, Bucket, BucketOrder

LEMMA BeforeIsTotal ==
    ASSUME NEW r \in Row, NEW s \in Row
    PROVE  r = s \/ Before(r, s) \/ Before(s, r)
BY RowAssumption DEF Before, HolderType, HolderTypeOrder, Bucket, BucketOrder

\* The house comes before the agents.
LEMMA HouseBeforeAgents ==
    ASSUME NEW r \in Row, r.holderType = "AGENT", NEW b
    PROVE  Before(RowOf("INTERNAL", 0, b), r)
BY DEF Before, RowOf, HolderTypeOrder

LEMMA InitWaits == Init => WaitInv
<1>. SUFFICES ASSUME Init, NEW t \in Transactions
              PROVE  StageOK(t) /\ LegsOK(t) /\ Gated(t) /\ ReservedHeld(t)
  BY DEF WaitInv
<1>1. /\ phase[t] = "idle" /\ work[t] = <<>> /\ inserted[t] = {}
      /\ pending[t] = {} /\ holds[t] = {}
  BY DEF Init
<1>2. Orderly(work[t])
  BY <1>1 DEF Orderly
<1>. QED
  BY <1>1, <1>2 DEF StageOK, Fresh, LegsOK, Gated, ReservedHeld

\* A session is not disturbed by the steps of another.
LEMMA OthersWait ==
    ASSUME TypeOK, WaitInv, NEW t \in Transactions, Step(t), NEW u \in Transactions, u # t
    PROVE  (StageOK(u) /\ LegsOK(u) /\ Gated(u) /\ ReservedHeld(u))'
<1>1. /\ phase'[u] = phase[u] /\ work'[u] = work[u] /\ inserted'[u] = inserted[u]
      /\ pending'[u] = pending[u] /\ holds'[u] = holds[u]
  BY DEF TypeOK, Step, Begin, Reject, Validate, Reserve, SelectForUpdate, LockRow,
     ReserveRefused, Insert, InsertDuplicate, ApplyToSnapshot, PostReturns, Commit,
     Rollback, Discard, EndSession
<1>2. StageOK(u) /\ LegsOK(u) /\ Gated(u) /\ ReservedHeld(u)
  BY DEF WaitInv
<1>3. StageOK(u)'
  BY <1>1, <1>2 DEF StageOK, Fresh, Reserving, Later, InOrder, Current
<1>4. LegsOK(u)'
  BY <1>1, <1>2 DEF LegsOK, Current
<1>5. Gated(u)' /\ ReservedHeld(u)'
  BY <1>1, <1>2 DEF Gated, ReservedHeld
<1>. QED
  BY <1>3, <1>4, <1>5

\* A session that ended waits for nothing.
LEMMA EndWaits ==
    ASSUME TypeOK, NEW t \in Transactions, EndSession(t)
    PROVE  (StageOK(t) /\ LegsOK(t) /\ Gated(t) /\ ReservedHeld(t))'
<1>1. /\ phase'[t] = "idle" /\ work'[t] = <<>> /\ inserted'[t] = {}
      /\ pending'[t] = {} /\ holds'[t] = {}
  BY DEF TypeOK, EndSession
<1>2. Orderly(work'[t])
  BY <1>1 DEF Orderly
<1>. QED
  BY <1>1, <1>2 DEF StageOK, Fresh, LegsOK, Gated, ReservedHeld

LEMMA BeginWaits ==
    ASSUME TypeOK, WaitInv, NEW t \in Transactions, NEW p \in Program, Begin(t, p)
    PROVE  (StageOK(t) /\ LegsOK(t) /\ Gated(t) /\ ReservedHeld(t))'
<1>1. /\ phase'[t] = "ready" /\ work'[t] = p.movements
      /\ inserted' = inserted /\ holds' = holds
  BY DEF Begin, TypeOK
<1>2. Orderly(work'[t])
  BY <1>1, OrderAssumption
<1>3. Fresh(t)
  BY DEF WaitInv, StageOK, Begin
<1>. QED
  BY <1>1, <1>2, <1>3 DEF StageOK, Fresh, LegsOK, Gated, ReservedHeld

OrderlyMovement(m) == AgentsBesideHouse(m) /\ ReservesWithinMerchant(m)

\* The movement at hand is as the callers build them.
LEMMA CurrentIsOrderly ==
    ASSUME TypeOK, WaitInv, NEW t \in Transactions, work[t] # <<>>
    PROVE  /\ 1 \in DOMAIN work[t] /\ Current(t) = work[t][1]
           /\ OrderlyMovement(Current(t))
<1>1. work[t] \in Seq(Movement)
  BY DEF TypeOK
<1>2. 1 \in DOMAIN work[t] /\ Current(t) = work[t][1]
  BY <1>1 DEF Current
<1>3. Orderly(work[t])
  BY DEF WaitInv, StageOK
<1>. QED
  BY <1>2, <1>3 DEF Orderly, OrderlyMovement

LEMMA ValidateWaits ==
    ASSUME TypeOK, WaitInv, NEW t \in Transactions, Validate(t)
    PROVE  (StageOK(t) /\ LegsOK(t) /\ Gated(t) /\ ReservedHeld(t))'
<1>1. /\ phase[t] = "ready" /\ phase'[t] = "insert" /\ ~IsReserve(Current(t))
      /\ work' = work /\ inserted' = inserted /\ pending' = pending /\ holds' = holds
  BY DEF Validate, AtMovement, TypeOK
<1>2. StageOK(t) /\ Gated(t) /\ ReservedHeld(t)
  BY DEF WaitInv
<1>. QED
  BY <1>1, <1>2 DEF StageOK, Fresh, Later, Current, LegsOK, Gated, ReservedHeld

LEMMA ReserveWaits ==
    ASSUME TypeOK, WorkOK, WaitInv, NEW t \in Transactions, Reserve(t)
    PROVE  (StageOK(t) /\ LegsOK(t) /\ Gated(t) /\ ReservedHeld(t))'
<1>1. PICK l \in DebitsOf(Current(t)) : LockRow(t, l.row)
  BY DEF Reserve, SelectForUpdate
<1>2. /\ phase[t] = "ready" /\ phase'[t] = "insert" /\ IsReserve(Current(t))
      /\ work' = work /\ inserted' = inserted /\ pending' = pending
      /\ holds'[t] = holds[t] \cup {l.row}
  BY <1>1 DEF Reserve, AtMovement, LockRow, TypeOK
<1>3. OrderlyMovement(Current(t)) /\ Current(t) = work[t][1] /\ 1 \in DOMAIN work[t]
  BY CurrentIsOrderly DEF Reserve, AtMovement
<1>4. Fresh(t)
  BY <1>2, <1>3 DEF WaitInv, StageOK, Later, IsReserve
<1>5. l.row.holderType = "MERCHANT"
  BY <1>2, <1>3 DEF OrderlyMovement, ReservesWithinMerchant, IsReserve, DebitsOf
<1>6. Reserving(t)'
  BY <1>2, <1>4 DEF Fresh, Reserving, Current
<1>7. StageOK(t)'
  BY <1>2, <1>6 DEF WaitInv, StageOK
<1>. QED
  BY <1>2, <1>4, <1>5, <1>7 DEF LegsOK, Gated, ReservedHeld, Fresh

LEMMA InsertWaits ==
    ASSUME TypeOK, WorkOK, InsertsValid, WaitInv, NEW t \in Transactions, Insert(t)
    PROVE  (StageOK(t) /\ LegsOK(t) /\ Gated(t) /\ ReservedHeld(t))'
<1>. DEFINE m == Current(t)
            fresh == EntriesOf(m, nextEntryId)
<1>1. /\ phase[t] = "insert" /\ phase'[t] = "fold" /\ work' = work /\ holds' = holds
      /\ pending'[t] = fresh /\ inserted'[t] = inserted[t] \cup fresh
  BY DEF Insert, TypeOK
<1>2. OrderlyMovement(m) /\ m = work[t][1] /\ 1 \in DOMAIN work[t]
  BY CurrentIsOrderly DEF WorkOK, Insert
<1>3. MovementOK(m) /\ Valid(m)
  BY CurrentIsMovement DEF Insert, WorkOK, InsertsValid
<1>4. \A e \in fresh : \E l \in m.legs : e.row = l.row /\ e.reason = m.reason
  BY EntryOfLeg
<1>5. \A l \in m.legs : \E e \in fresh : e.row = l.row
  <2>. SUFFICES ASSUME NEW l \in m.legs
                PROVE  \E e \in fresh : e.row = l.row
    OBVIOUS
  <2>1. EntryFor(m, l, nextEntryId) \in fresh
    BY DEF EntriesOf
  <2>2. EntryFor(m, l, nextEntryId).row = l.row
    BY DEF EntryFor
  <2>. QED
    BY <2>1, <2>2
<1>6. \A d, e \in fresh : d.row = e.row => d = e
  BY <1>3, EntriesKeysOnce
<1>7. StageOK(t) /\ Gated(t) /\ ReservedHeld(t)
  BY DEF WaitInv
<1>. HIDE DEF fresh
<1>8. m.reason = "PAYOUT_RESERVED" => Reserving(t)
  BY <1>1, <1>2, <1>7 DEF StageOK, Later, IsReserve
<1>9. ASSUME m.reason = "PAYOUT_RESERVED", NEW e \in fresh
      PROVE  /\ \A r \in holds[t] : r = e.row \/ Before(r, e.row)
             /\ RowOf(e.row.holderType, e.row.holderId, "AVAILABLE") \in holds[t]
  <2>1. PICK d \in DebitsOf(m) : holds[t] = {d.row}
    BY <1>8, <1>9 DEF Reserving
  <2>2. PICK l \in m.legs : e.row = l.row
    BY <1>4
  <2>3. d.row \in Row /\ d.row.bucket = "AVAILABLE"
    BY <1>3, <1>9 DEF MovementOK, DebitsOf, Movement, Leg
  <2>4. SameHolder(l.row, d.row) /\ (l.row = d.row \/ Before(d.row, l.row))
    BY <1>2, <1>9 DEF OrderlyMovement, ReservesWithinMerchant
  <2>5. d.row = RowOf(e.row.holderType, e.row.holderId, "AVAILABLE")
    BY <2>2, <2>3, <2>4, RowAssumption DEF RowOf, SameHolder
  <2>. QED
    BY <2>1, <2>2, <2>4, <2>5
<1>10. InOrder(t)' \/ Later(t)'
  <2>1. CASE Later(t)
    BY <1>1, <2>1 DEF Later
  <2>2. CASE Fresh(t)
    BY <1>1, <2>2 DEF Fresh, InOrder
  <2>3. CASE Reserving(t)
    BY <1>1, <1>9, <2>3 DEF Reserving, IsReserve, InOrder
  <2>. QED
    BY <1>1, <1>7, <2>1, <2>2, <2>3 DEF StageOK
<1>11. StageOK(t)'
  BY <1>1, <1>7, <1>10 DEF StageOK
<1>12. LegsOK(t)'
  BY <1>1, <1>4, <1>5, <1>6 DEF LegsOK, Current
<1>13. ReservedHeld(t)'
  BY <1>1, <1>4, <1>7, <1>9 DEF ReservedHeld
<1>. QED
  BY <1>1, <1>7, <1>11, <1>12, <1>13 DEF Gated

LEMMA FoldWaits ==
    ASSUME TypeOK, WorkOK, WaitInv, NEW t \in Transactions, NEW e \in pending[t],
           ApplyToSnapshot(t, e)
    PROVE  (StageOK(t) /\ LegsOK(t) /\ Gated(t) /\ ReservedHeld(t))'
<1>1. /\ phase[t] = "fold" /\ phase'[t] = "fold" /\ work' = work /\ inserted' = inserted
      /\ pending'[t] = pending[t] \ {e} /\ holds'[t] = holds[t] \cup {e.row}
      /\ \A d \in pending[t] : ~Before(d.row, e.row)
  BY DEF ApplyToSnapshot, IsNext, TypeOK
<1>2. \A d \in pending[t] : d.row \in Row
  BY DEF TypeOK, Entry
<1>3. StageOK(t) /\ LegsOK(t) /\ Gated(t) /\ ReservedHeld(t)
  BY DEF WaitInv
<1>4. OrderlyMovement(Current(t))
  BY <1>1, CurrentIsOrderly DEF WorkOK
<1>5. InOrder(t)' \/ Later(t)'
  <2>1. CASE Later(t)
    BY <1>1, <2>1 DEF Later
  <2>2. CASE InOrder(t)
    <3>1. \A d \in pending[t] : d.row = e.row \/ Before(e.row, d.row)
      BY <1>1, <1>2, BeforeIsTotal
    <3>. QED
      BY <1>1, <2>2, <3>1 DEF InOrder
  <2>. QED
    BY <1>1, <1>3, <2>1, <2>2 DEF StageOK
<1>6. StageOK(t)'
  BY <1>1, <1>3, <1>5 DEF StageOK
<1>7. LegsOK(t)'
  BY <1>1, <1>3 DEF LegsOK, Current
<1>8. Gated(t)'
  <2>. SUFFICES ASSUME e.row.holderType = "AGENT"
                PROVE  RowOf("INTERNAL", 0, e.row.bucket) \in holds'[t]
    BY <1>1, <1>3 DEF Gated
  <2>1. PICK l \in Current(t).legs : e.row = l.row
    BY <1>1, <1>3 DEF LegsOK
  <2>2. PICK h \in Current(t).legs : h.row = RowOf("INTERNAL", 0, e.row.bucket)
    BY <1>4, <2>1 DEF OrderlyMovement, AgentsBesideHouse
  <2>3. Before(h.row, e.row)
    BY <1>2, <2>2, HouseBeforeAgents
  <2>. QED
    BY <1>1, <1>3, <2>2, <2>3 DEF LegsOK
<1>9. ReservedHeld(t)'
  BY <1>1, <1>3 DEF ReservedHeld
<1>. QED
  BY <1>6, <1>7, <1>8, <1>9

LEMMA PostReturnsWaits ==
    ASSUME TypeOK, WorkOK, WaitInv, NEW t \in Transactions, PostReturns(t)
    PROVE  (StageOK(t) /\ LegsOK(t) /\ Gated(t) /\ ReservedHeld(t))'
<1>1. /\ phase[t] = "fold" /\ phase'[t] = "ready" /\ pending[t] = {}
      /\ work'[t] = Tail(work[t]) /\ inserted' = inserted /\ holds' = holds
  BY DEF PostReturns, TypeOK
<1>2. StageOK(t) /\ LegsOK(t) /\ Gated(t) /\ ReservedHeld(t)
  BY DEF WaitInv
<1>3. work[t] \in Seq(Movement) /\ work[t] # <<>>
  BY <1>1 DEF TypeOK, WorkOK
<1>4. /\ 1 \in DOMAIN work[t] /\ Current(t) = work[t][1]
      /\ \A i \in DOMAIN work'[t] :
            /\ i \in Nat \ {0} /\ i + 1 \in DOMAIN work[t]
            /\ work'[t][i] = work[t][i + 1]
  BY <1>1, <1>3 DEF Current
<1>5. SharedRows(work[t][1]) \subseteq holds[t]
  BY <1>1, <1>2, <1>4 DEF LegsOK, SharedRows
<1>6. /\ \A i \in DOMAIN work[t] : OrderlyMovement(work[t][i])
      /\ \A i, j \in DOMAIN work[t] : i < j =>
            /\ {work[t][i].reason, work[t][j].reason} = {"MERCHANT_SETTLED"}
            /\ SharedRows(work[t][j]) \subseteq SharedRows(work[t][i])
  BY <1>2, Zenon DEF StageOK, Orderly, OrderlyMovement
<1>7. Orderly(work'[t])
  <2>1. ASSUME NEW i \in DOMAIN work'[t]
        PROVE  OrderlyMovement(work'[t][i])
    BY <1>4, <1>6
  <2>2. ASSUME NEW i \in DOMAIN work'[t], NEW j \in DOMAIN work'[t], i < j
        PROVE  /\ {work'[t][i].reason, work'[t][j].reason} = {"MERCHANT_SETTLED"}
               /\ SharedRows(work'[t][j]) \subseteq SharedRows(work'[t][i])
    <3>1. /\ work'[t][i] = work[t][i + 1] /\ i + 1 \in DOMAIN work[t]
          /\ work'[t][j] = work[t][j + 1] /\ j + 1 \in DOMAIN work[t]
          /\ i + 1 < j + 1
      BY <1>4, <2>2
    <3>. QED
      BY <3>1, <1>6
  <2>. QED
    BY <2>1, <2>2, Zenon DEF Orderly, OrderlyMovement
<1>8. Later(t)'
  <2>. SUFFICES ASSUME NEW i \in DOMAIN work'[t]
                PROVE  /\ work[t][i + 1].reason = "MERCHANT_SETTLED"
                       /\ SharedRows(work[t][i + 1]) \subseteq holds[t]
    BY <1>1, <1>4 DEF Later
  <2>1. /\ {work[t][1].reason, work[t][i + 1].reason} = {"MERCHANT_SETTLED"}
        /\ SharedRows(work[t][i + 1]) \subseteq SharedRows(work[t][1])
    <3>1. i + 1 \in DOMAIN work[t] /\ 1 < i + 1
      BY <1>4
    <3>. QED
      BY <1>4, <1>6, <3>1
  <2>. QED
    BY <1>5, <2>1
<1>. QED
  BY <1>1, <1>2, <1>7, <1>8 DEF StageOK, LegsOK, Gated, ReservedHeld

LEMMA StepWaits ==
    ASSUME TypeOK, WorkOK, InsertsValid, WaitInv, NEW t \in Transactions, Step(t)
    PROVE  WaitInv'
<1>1. (StageOK(t) /\ LegsOK(t) /\ Gated(t) /\ ReservedHeld(t))'
  <2>1. Reject(t) \/ ReserveRefused(t) \/ InsertDuplicate(t) \/ Commit(t) \/ Rollback(t)
          => EndSession(t)
    BY DEF Reject, ReserveRefused, InsertDuplicate, Commit, Rollback, Discard
  <2>. QED
    BY <2>1, EndWaits, BeginWaits, ValidateWaits, ReserveWaits, InsertWaits, FoldWaits,
       PostReturnsWaits DEF Step
<1>. QED
  BY <1>1, OthersWait DEF WaitInv

(***************************************************************************)
(* The purchases session t has claimed for settlement: in what it has to   *)
(* post and in what it has posted.  No two sessions have claimed the same: *)
(* the claim of settleOneBatch takes rows no other claim has taken.        *)
(***************************************************************************)
Claimed(t) ==
    {work[t][i].source : i \in {j \in DOMAIN work[t] : work[t][j].reason = "MERCHANT_SETTLED"}}
      \cup {e.source : e \in {d \in inserted[t] : d.reason = "MERCHANT_SETTLED"}}

ClaimsDisjoint ==
    \A t, u \in Transactions : t # u => Claimed(t) \cap Claimed(u) = {}

\* The row session t folds next, and another session has it locked.
Blocked(t, u, r) ==
    /\ phase[t] = "fold" /\ InOrder(t)
    /\ \E e \in pending[t] : IsNext(t, e) /\ e.row = r
    /\ r \in holds[u]

\* A session others wait for waits only while it folds, in the order of the
\* locks.
LEMMA OnlyFoldsBlock ==
    ASSUME TypeOK, WorkOK, CoverInv, WaitInv, ClaimsDisjoint,
           NEW u \in Transactions, NEW v \in Transactions, u # v, WaitsFor(u, v),
           NEW t \in Transactions, WaitsFor(t, u)
    PROVE  \E r \in Row : Blocked(u, v, r)
<1>1. ~Fresh(u)
  BY DEF WaitsFor, Fresh, InsertWaitsFor, Keys
<1>2. StageOK(u) /\ LegsOK(u) /\ Gated(v) /\ ReservedHeld(v)
  BY DEF WaitInv
<1>3. holds[u] \cap holds[v] = {}
  BY DEF CoverInv, LocksExclusive
<1>4. work[u] # <<>> => /\ 1 \in DOMAIN work[u] /\ Current(u) = work[u][1]
                        /\ OrderlyMovement(Current(u)) /\ MovementOK(Current(u))
  BY CurrentIsOrderly, CurrentIsMovement
<1>5. ~(AtMovement(u) /\ IsReserve(Current(u)))
  BY <1>1, <1>2, <1>4 DEF StageOK, AtMovement, IsReserve, Later
<1>6. ~(phase[u] = "insert" /\ InsertWaitsFor(u, v))
  <2>. SUFFICES ASSUME phase[u] = "insert", InsertWaitsFor(u, v)
                PROVE  FALSE
    OBVIOUS
  <2>1. work[u] # <<>>
    BY DEF WorkOK
  <2>2. PICK l \in Current(u).legs, e \in inserted[v] :
          <<l.row, Current(u).reason, Current(u).source>> = KeyOf(e)
    BY DEF InsertWaitsFor, Keys, KeysOfMovement
  <2>3. l.row = e.row /\ e.reason = Current(u).reason /\ e.source = Current(u).source
    BY <2>2 DEF KeyOf
  <2>4. CASE Reserving(u)
    <3>1. PICK d \in DebitsOf(Current(u)) : holds[u] = {d.row}
      BY <2>4 DEF Reserving
    <3>2. d.row \in Row /\ d.row.bucket = "AVAILABLE"
      BY <1>4, <2>1, <2>4, <3>1 DEF Reserving, IsReserve, MovementOK, DebitsOf, Movement, Leg
    <3>3. SameHolder(l.row, d.row)
      BY <1>4, <2>1, <2>4 DEF Reserving, IsReserve, OrderlyMovement, ReservesWithinMerchant
    <3>4. RowOf(e.row.holderType, e.row.holderId, "AVAILABLE") = d.row
      BY <2>3, <3>2, <3>3, RowAssumption DEF RowOf, SameHolder
    <3>5. RowOf(e.row.holderType, e.row.holderId, "AVAILABLE") \in holds[v]
      BY <1>2, <2>3, <2>4 DEF ReservedHeld, Reserving, IsReserve
    <3>. QED
      BY <1>3, <3>1, <3>4, <3>5
  <2>5. CASE Later(u)
    <3>1. Current(u).reason = "MERCHANT_SETTLED"
      BY <1>4, <2>1, <2>5 DEF Later
    <3>2. Current(u).source \in Claimed(u)
      BY <1>4, <2>1, <3>1 DEF Claimed
    <3>3. e.source \in Claimed(v)
      BY <2>3, <3>1 DEF Claimed
    <3>. QED
      BY <2>3, <3>2, <3>3 DEF ClaimsDisjoint
  <2>. QED
    BY <1>1, <1>2, <2>4, <2>5 DEF StageOK
<1>7. PICK r \in holds[v] :
        phase[u] = "fold" /\ \E e \in pending[u] : IsNext(u, e) /\ e.row = r
  BY <1>5, <1>6 DEF WaitsFor, NeedsRow
<1>8. ~Later(u)
  <2>. SUFFICES ASSUME Later(u)
                PROVE  FALSE
    OBVIOUS
  <2>1. work[u] # <<>>
    BY <1>7 DEF WorkOK
  <2>2. SharedRows(Current(u)) \subseteq holds[u]
    BY <1>4, <2>1 DEF Later
  <2>3. PICK l \in Current(u).legs : r = l.row
    BY <1>2, <1>7 DEF LegsOK
  <2>4. r.holderType = "AGENT"
    BY <1>3, <2>2, <2>3 DEF SharedRows
  <2>5. PICK h \in Current(u).legs : h.row = RowOf("INTERNAL", 0, r.bucket)
    BY <1>4, <2>1, <2>3, <2>4 DEF OrderlyMovement, AgentsBesideHouse
  <2>6. h.row \in SharedRows(Current(u))
    BY <2>5 DEF SharedRows, RowOf
  <2>7. h.row \in holds[v]
    BY <1>2, <2>4, <2>5 DEF Gated
  <2>. QED
    BY <1>3, <2>2, <2>6, <2>7
<1>. QED
  BY <1>2, <1>7, <1>8 DEF StageOK, Blocked, TypeOK

\* Whom a blocked session waits for can only be blocked at a later row.
LEMMA BlockedUpwards ==
    ASSUME TypeOK, CoverInv,
           NEW u \in Transactions, NEW v \in Transactions, NEW w \in Transactions, v # w,
           NEW r \in Row, NEW s \in Row, Blocked(u, v, r), Blocked(v, w, s)
    PROVE  Before(r, s)
<1>1. s \notin holds[v]
  BY DEF Blocked, CoverInv, LocksExclusive
<1>. QED
  BY <1>1 DEF Blocked, InOrder

\* Among finitely many rows one comes before none of the others.
LEMMA LastRow ==
    ASSUME NEW T, IsFiniteSet(T), T # {}, NEW f, \A t \in T : f[t] \in Row
    PROVE  \E t \in T : \A u \in T : ~Before(f[t], f[u])
<1>. DEFINE Ends(U) == \E t \in U : \A u \in U : ~Before(f[t], f[u])
            C == {U \in SUBSET T : U # {} /\ ~Ends(U)}
<1>. SUFFICES ASSUME C # {}
              PROVE  FALSE
  BY DEF Ends
<1>1. PICK U \in C : \A x \in U : U \ {x} \notin C
  <2>1. C \in SUBSET (SUBSET T)
    OBVIOUS
  <2>. HIDE DEF C
  <2>. QED
    BY <2>1, LeastSubset
<1>2. U \subseteq T /\ U # {} /\ \A t \in U : \E u \in U : Before(f[t], f[u])
  OBVIOUS
<1>3. PICK x \in U : TRUE
  BY <1>2
<1>4. PICK y \in U : Before(f[x], f[y])
  BY <1>2
<1>5. y # x
  BY <1>2, <1>4, BeforeIsStrict
<1>6. PICK t \in U \ {x} : \A u \in U \ {x} : ~Before(f[t], f[u])
  <2>1. U \ {x} \in SUBSET T /\ U \ {x} # {}
    BY <1>2, <1>5
  <2>. QED
    BY <1>1, <2>1
<1>7. Before(f[t], f[x])
  BY <1>2, <1>6
<1>8. Before(f[t], f[y])
  BY <1>2, <1>4, <1>7, BeforeIsTransitive
<1>. QED
  BY <1>5, <1>6, <1>8

LEMMA NoCircle ==
    ASSUME TypeOK, WorkOK, CoverInv, WaitInv, ClaimsDisjoint
    PROVE  NoWaitCycle
<1>. SUFFICES ASSUME NEW S \in SUBSET Transactions, S # {},
                     \A t \in S : \E u \in S \ {t} : WaitsFor(t, u)
              PROVE  FALSE
  BY DEF NoWaitCycle
<1>. DEFINE W == {u \in S : \E t \in S : WaitsFor(t, u)}
            At(u) == CHOOSE r \in Row : \E v \in W \ {u} : Blocked(u, v, r)
            f == [u \in W |-> At(u)]
<1>1. IsFiniteSet(W) /\ W # {}
  BY SessionAssumption, FS_Subset
<1>2. ASSUME NEW u \in W
      PROVE  f[u] \in Row /\ \E v \in W \ {u} : Blocked(u, v, f[u])
  <2>1. PICK v \in S \ {u} : WaitsFor(u, v)
    OBVIOUS
  <2>2. v \in W
    BY <2>1
  <2>3. \E r \in Row : Blocked(u, v, r)
    BY <2>1, OnlyFoldsBlock
  <2>. QED
    BY <2>2, <2>3
<1>. HIDE DEF f, W
<1>3. PICK u \in W : \A v \in W : ~Before(f[u], f[v])
  BY <1>1, <1>2, LastRow
<1>4. W \subseteq Transactions
  BY DEF W
<1>5. PICK v \in W \ {u} : Blocked(u, v, f[u])
  BY <1>2
<1>6. PICK w \in W \ {v} : Blocked(v, w, f[v])
  BY <1>2
<1>7. Before(f[u], f[v])
  BY <1>2, <1>4, <1>5, <1>6, BlockedUpwards
<1>. QED
  BY <1>3, <1>5, <1>7

(***************************************************************************)
(* Postgres never has to break a deadlock of the ledger: as long as no two *)
(* batches have claimed the same purchase, in every set of sessions one    *)
(* waits for none of the others, however many they are.                    *)
(***************************************************************************)
THEOREM NeverInACircle == Spec /\ []ClaimsDisjoint => []NoWaitCycle
<1>. DEFINE Inv == TypeOK /\ WorkOK /\ InsertsValid /\ CoverInv /\ WaitInv
<1>1. Init => Inv
  BY InitTyped, InitKeys, InitCover, InitWaits
<1>2. Inv /\ [Next]_vars => Inv'
  <2>1. CASE Next /\ Inv
    BY <2>1, StepTyped, StepInsertsValid, StepCover, StepWaits DEF Next
  <2>2. CASE UNCHANGED vars
    <3>1. UNCHANGED vars /\ WaitInv => WaitInv'
      BY DEF vars, WaitInv, StageOK, Fresh, Reserving, Later, InOrder, Current, LegsOK,
         Gated, ReservedHeld
    <3>. QED
      BY <2>2, <3>1 DEF vars, TypeOK, WorkOK, InsertsValid, Current, CoverInv, LocksExclusive,
         PendingOK, MineCovers, LastEntryCovers
  <2>. QED
    BY <2>1, <2>2
<1>3. Inv /\ ClaimsDisjoint => NoWaitCycle
  BY NoCircle
<1>. QED
  BY <1>1, <1>2, <1>3, PTL DEF Spec

-----------------------------------------------------------------------------
(***************************************************************************)
(* Runs.  A session that is not idle runs a program whose needs are met;   *)
(* what it has inserted are the lines of the program's first n movements,  *)
(* each of them valid and no two with a key in common; its work is what    *)
(* follows the first k, and n counts the one it is folding.                *)
(***************************************************************************)
Runs(t, p, k, n) ==
    LET m == p.movements
    IN  /\ \A need \in p.needs : Posted(need.reason, need.source)
        /\ Len(work[t]) = Len(m) - k
        /\ \A i \in 1..Len(work[t]) : work[t][i] = m[k + i]
        /\ {LineOf(e) : e \in inserted[t]} = UNION {Book!LinesOf(m[i]) : i \in 1..n}
        /\ \A i \in 1..n : Valid(m[i])
        /\ \A i, j \in 1..n : i # j => KeysOfMovement(m[i]) \cap KeysOfMovement(m[j]) = {}

\* The number of movements inserted, when k have returned.
Inserted(t, k) == IF phase[t] = "fold" THEN k + 1 ELSE k

RunInv ==
    \A t \in Transactions : phase[t] # "idle" =>
        \E p \in Program : \E k \in 0..Len(p.movements) : Runs(t, p, k, Inserted(t, k))

LEMMA InitRuns == Init => RunInv
BY DEF Init, RunInv

\* Nothing that a session runs is disturbed by another.
LEMMA RunsStay ==
    ASSUME NEW u, NEW p, NEW k, NEW n, Runs(u, p, k, n),
           entries \subseteq entries',
           work'[u] = work[u], inserted'[u] = inserted[u]
    PROVE  Runs(u, p, k, n)'
<1>1. \A need \in p.needs : Posted(need.reason, need.source)'
  BY DEF Runs, Posted
<1>2. {LineOf(e) : e \in inserted[u]}' = {LineOf(e) : e \in inserted[u]}
  BY DEF LineOf
<1>. QED
  BY <1>1, <1>2 DEF Runs

LEMMA LinesOfEntries ==
    ASSUME NEW m, NEW n
    PROVE  {LineOf(e) : e \in EntriesOf(m, n)} = Book!LinesOf(m)
<1>1. ASSUME NEW l \in m.legs
      PROVE  LineOf(EntryFor(m, l, n)) = Book!Line(m, l)
  BY DEF LineOf, EntryFor, Book!Line, Signed, Book!Signed
<1>2. {LineOf(e) : e \in EntriesOf(m, n)} = {LineOf(EntryFor(m, l, n)) : l \in m.legs}
  BY DEF EntriesOf
<1>. HIDE DEF LineOf
<1>. QED
  BY <1>1, <1>2 DEF Book!LinesOf

\* The keys of a movement are those of its lines; the lines of entries have
\* the entries' keys.
LEMMA KeysOfLines ==
    ASSUME NEW m
    PROVE  Book!Keys(Book!LinesOf(m)) = KeysOfMovement(m)
<1>1. \A l \in m.legs : Book!KeyOf(Book!Line(m, l)) = <<l.row, m.reason, m.source>>
  BY DEF Book!KeyOf, Book!Line
<1>2. Book!Keys(Book!LinesOf(m)) = {Book!KeyOf(Book!Line(m, l)) : l \in m.legs}
  BY DEF Book!Keys, Book!LinesOf
<1>. HIDE DEF Book!KeyOf, Book!Line
<1>. QED
  BY <1>1, <1>2 DEF KeysOfMovement

LEMMA KeyOfLine ==
    ASSUME NEW e
    PROVE  Book!KeyOf(LineOf(e)) = KeyOf(e)
BY DEF Book!KeyOf, LineOf, KeyOf

\* The movement at hand is the first that has not returned.
LEMMA CurrentRuns ==
    ASSUME TypeOK, NEW t \in Transactions, work[t] # <<>>,
           NEW p \in Program, NEW k \in 0..Len(p.movements), NEW n, Runs(t, p, k, n)
    PROVE  /\ p.movements \in Seq(Movement)
           /\ k + 1 \in 1..Len(p.movements)
           /\ Current(t) = p.movements[k + 1]
<1>1. p.movements \in Seq(Movement)
  BY ProgramAssumption DEF ProgramOK
<1>2. work[t] \in Seq(Movement) /\ Len(work[t]) = Len(p.movements) - k
  BY DEF TypeOK, Runs
<1>3. Len(work[t]) \in Nat /\ Len(work[t]) > 0 /\ Len(p.movements) \in Nat
  BY <1>1, <1>2
<1>4. work[t][1] = p.movements[k + 1]
  BY <1>3 DEF Runs
<1>. QED
  BY <1>1, <1>2, <1>3, <1>4 DEF Current

LEMMA InsertRuns ==
    ASSUME TypeOK, WorkOK, InsertsValid, RunInv, NEW t \in Transactions, Insert(t)
    PROVE  \E p \in Program : \E k \in 0..Len(p.movements) : Runs(t, p, k, k + 1)'
<1>1. PICK p \in Program : \E k \in 0..Len(p.movements) : Runs(t, p, k, k)
  BY DEF Insert, RunInv, Inserted
<1>2. PICK k \in 0..Len(p.movements) : Runs(t, p, k, k)
  BY <1>1
<1>. DEFINE m == p.movements
            fresh == EntriesOf(Current(t), nextEntryId)
<1>3. m \in Seq(Movement) /\ k + 1 \in 1..Len(m) /\ Current(t) = m[k + 1]
  BY <1>2, CurrentRuns DEF Insert, WorkOK
<1>4. /\ entries' = entries /\ work' = work
      /\ inserted'[t] = inserted[t] \cup fresh
  BY DEF Insert, TypeOK
<1>5. {LineOf(e) : e \in inserted'[t]} = {LineOf(e) : e \in inserted[t]} \cup Book!LinesOf(m[k + 1])
  <2>1. {LineOf(e) : e \in fresh} = Book!LinesOf(m[k + 1])
    BY <1>3, LinesOfEntries
  <2>. HIDE DEF fresh, LineOf
  <2>2. {LineOf(e) : e \in inserted'[t]} = {LineOf(e) : e \in inserted[t]} \cup {LineOf(e) : e \in fresh}
    BY <1>4
  <2>. QED
    BY <2>1, <2>2
<1>6. {LineOf(e) : e \in inserted[t]} = UNION {Book!LinesOf(m[i]) : i \in 1..k}
  BY <1>2 DEF Runs
<1>7. 1..(k + 1) = (1..k) \cup {k + 1}
  BY <1>3
<1>8. {LineOf(e) : e \in inserted'[t]} = UNION {Book!LinesOf(m[i]) : i \in 1..(k + 1)}
  <2>. HIDE DEF m
  <2>. QED
    BY <1>5, <1>6, <1>7
<1>9. Valid(m[k + 1])
  BY <1>3 DEF Insert, InsertsValid
<1>10. ASSUME NEW i \in 1..k
       PROVE  KeysOfMovement(m[i]) \cap KeysOfMovement(m[k + 1]) = {}
  <2>1. KeysOfMovement(m[k + 1]) \cap Keys(inserted[t]) = {}
    BY <1>3 DEF Insert, Duplicate, Keys
  <2>2. KeysOfMovement(m[i]) \subseteq Keys(inserted[t])
    <3>1. SUFFICES ASSUME NEW x \in Book!Keys(Book!LinesOf(m[i])) PROVE x \in Keys(inserted[t])
      BY KeysOfLines
    <3>2. PICK line \in Book!LinesOf(m[i]) : x = Book!KeyOf(line)
      BY DEF Book!Keys
    <3>3. line \in {LineOf(e) : e \in inserted[t]}
      BY <1>6, <3>2
    <3>4. PICK e \in inserted[t] : line = LineOf(e)
      BY <3>3
    <3>. QED
      BY <3>2, <3>4, KeyOfLine DEF Keys
  <2>. QED
    BY <2>1, <2>2
<1>11. /\ \A i \in 1..(k + 1) : Valid(m[i])
       /\ \A i, j \in 1..(k + 1) : i # j => KeysOfMovement(m[i]) \cap KeysOfMovement(m[j]) = {}
  <2>1. /\ \A i \in 1..k : Valid(m[i])
        /\ \A i, j \in 1..k : i # j => KeysOfMovement(m[i]) \cap KeysOfMovement(m[j]) = {}
    BY <1>2 DEF Runs
  <2>. HIDE DEF m
  <2>. QED
    BY <1>7, <1>9, <1>10, <2>1
<1>12. /\ \A need \in p.needs : Posted(need.reason, need.source)'
       /\ Len(work'[t]) = Len(m) - k
       /\ \A i \in 1..Len(work'[t]) : work'[t][i] = m[k + i]
  BY <1>2, <1>4 DEF Runs, Posted
<1>13. Runs(t, p, k, k + 1)'
  <2>1. {LineOf(e) : e \in inserted[t]}' = {LineOf(e) : e \in inserted'[t]}
    BY DEF LineOf
  <2>. QED
    BY <1>8, <1>11, <1>12, <2>1 DEF Runs
<1>. QED
  BY <1>13

LEMMA PostReturnsRuns ==
    ASSUME TypeOK, WorkOK, RunInv, NEW t \in Transactions, PostReturns(t)
    PROVE  \E p \in Program : \E k \in 0..Len(p.movements) : Runs(t, p, k, k)'
<1>1. PICK p \in Program : \E k \in 0..Len(p.movements) : Runs(t, p, k, k + 1)
  BY DEF PostReturns, RunInv, Inserted
<1>2. PICK k \in 0..Len(p.movements) : Runs(t, p, k, k + 1)
  BY <1>1
<1>. DEFINE m == p.movements
<1>3. m \in Seq(Movement) /\ k + 1 \in 1..Len(m) /\ work[t] # <<>>
  BY <1>2, CurrentRuns DEF PostReturns, WorkOK
<1>4. /\ entries' = entries /\ inserted' = inserted
      /\ work'[t] = Tail(work[t])
  BY DEF PostReturns, TypeOK
<1>5. work[t] \in Seq(Movement) /\ Len(work[t]) = Len(m) - k
  BY <1>2 DEF TypeOK, Runs
<1>6. /\ Len(Tail(work[t])) = Len(work[t]) - 1
      /\ \A i \in 1..Len(Tail(work[t])) :
            /\ Tail(work[t])[i] = work[t][i + 1]
            /\ i + 1 \in 1..Len(work[t])
  BY <1>3, <1>5
<1>7. Len(work'[t]) = Len(m) - (k + 1)
  BY <1>3, <1>4, <1>5, <1>6
<1>8. ASSUME NEW i \in 1..Len(work'[t])
      PROVE  work'[t][i] = m[(k + 1) + i]
  <2>1. work'[t][i] = work[t][i + 1] /\ i + 1 \in 1..Len(work[t])
    BY <1>4, <1>6
  <2>2. work[t][i + 1] = m[k + (i + 1)]
    BY <1>2, <2>1 DEF Runs
  <2>3. k + (i + 1) = (k + 1) + i
    BY <1>3
  <2>. QED
    BY <2>1, <2>2, <2>3
<1>9. Runs(t, p, k + 1, k + 1)'
  <2>1. {LineOf(e) : e \in inserted[t]}' = {LineOf(e) : e \in inserted[t]}
    BY <1>4 DEF LineOf
  <2>2. \A need \in p.needs : Posted(need.reason, need.source)'
    BY <1>2, <1>4 DEF Runs, Posted
  <2>. QED
    BY <1>2, <1>7, <1>8, <2>1, <2>2 DEF Runs
<1>10. k + 1 \in 0..Len(m)
  BY <1>3
<1>. QED
  BY <1>9, <1>10

LEMMA BeginRuns ==
    ASSUME TypeOK, WaitInv, NEW t \in Transactions, NEW p \in Program, Begin(t, p)
    PROVE  \E k \in 0..Len(p.movements) : Runs(t, p, k, k)'
<1>1. p.movements \in Seq(Movement)
  BY ProgramAssumption DEF ProgramOK
<1>2. /\ entries' = entries /\ inserted' = inserted
      /\ work'[t] = p.movements /\ inserted[t] = {}
  BY DEF Begin, TypeOK, WaitInv, StageOK, Fresh
<1>3. \A i \in 1..Len(work'[t]) : work'[t][i] = p.movements[0 + i]
  BY <1>1, <1>2
<1>4. Len(work'[t]) = Len(p.movements) - 0 /\ 0 \in 0..Len(p.movements)
  BY <1>1, <1>2
<1>5. \A need \in p.needs : Posted(need.reason, need.source)'
  BY <1>2 DEF Begin, Posted
<1>6. {LineOf(e) : e \in inserted[t]}' = UNION {Book!LinesOf(p.movements[i]) : i \in 1..0}
  BY <1>2
<1>7. Runs(t, p, 0, 0)'
  BY <1>3, <1>4, <1>5, <1>6 DEF Runs
<1>. QED
  BY <1>4, <1>7

LEMMA StepRuns ==
    ASSUME TypeOK, WorkOK, InsertsValid, WaitInv, RunInv, NEW t \in Transactions, Step(t)
    PROVE  RunInv'
<1>1. entries \subseteq entries'
  BY DEF Step, Begin, Reject, Validate, Reserve, ReserveRefused, Insert,
     InsertDuplicate, ApplyToSnapshot, PostReturns, Commit, Rollback, Discard, EndSession
<1>2. ASSUME NEW u \in Transactions, u # t
      PROVE  phase'[u] = phase[u] /\ work'[u] = work[u] /\ inserted'[u] = inserted[u]
  BY <1>2 DEF TypeOK, Step, Begin, Reject, Validate, Reserve, ReserveRefused, Insert,
     InsertDuplicate, ApplyToSnapshot, PostReturns, Commit, Rollback, Discard, EndSession
<1>3. ASSUME NEW u \in Transactions, u # t, phase'[u] # "idle"
      PROVE  \E p \in Program : \E k \in 0..Len(p.movements) : Runs(u, p, k, Inserted(u, k))'
  <2>1. phase'[u] = phase[u] /\ work'[u] = work[u] /\ inserted'[u] = inserted[u]
    BY <1>2, <1>3
  <2>2. PICK p \in Program : \E k \in 0..Len(p.movements) : Runs(u, p, k, Inserted(u, k))
    BY <1>3, <2>1 DEF RunInv
  <2>3. PICK k \in 0..Len(p.movements) : Runs(u, p, k, Inserted(u, k))
    BY <2>2
  <2>4. \A n : Runs(u, p, k, n) => Runs(u, p, k, n)'
    BY <1>1, <2>1, RunsStay
  <2>5. Inserted(u, k)' = Inserted(u, k)
    BY <2>1 DEF Inserted
  <2>. QED
    BY <2>3, <2>4, <2>5
<1>4. ASSUME phase'[t] # "idle"
      PROVE  \E p \in Program : \E k \in 0..Len(p.movements) : Runs(t, p, k, Inserted(t, k))'
  <2>1. ASSUME NEW p \in Program, Begin(t, p)
        PROVE  \E k \in 0..Len(p.movements) : Runs(t, p, k, Inserted(t, k))'
    <3>1. phase'[t] = "ready"
      BY <2>1 DEF Begin, TypeOK
    <3>. QED
      BY <2>1, <3>1, BeginRuns DEF Inserted
  <2>2. CASE Insert(t)
    <3>1. phase'[t] = "fold"
      BY <2>2 DEF Insert, TypeOK
    <3>. QED
      BY <2>2, <3>1, InsertRuns DEF Inserted
  <2>3. CASE PostReturns(t)
    <3>1. phase'[t] = "ready"
      BY <2>3 DEF PostReturns, TypeOK
    <3>. QED
      BY <2>3, <3>1, PostReturnsRuns DEF Inserted
  <2>4. CASE /\ phase[t] # "idle" /\ (phase'[t] = "fold" <=> phase[t] = "fold")
             /\ work'[t] = work[t] /\ inserted'[t] = inserted[t]
    <3>1. PICK p \in Program : \E k \in 0..Len(p.movements) : Runs(t, p, k, Inserted(t, k))
      BY <2>4 DEF RunInv
    <3>2. PICK k \in 0..Len(p.movements) : Runs(t, p, k, Inserted(t, k))
      BY <3>1
    <3>3. \A n : Runs(t, p, k, n) => Runs(t, p, k, n)'
      BY <1>1, <2>4, RunsStay
    <3>4. Inserted(t, k)' = Inserted(t, k)
      BY <2>4 DEF Inserted
    <3>. QED
      BY <3>2, <3>3, <3>4
  <2>5. Validate(t) \/ Reserve(t) =>
          /\ phase[t] # "idle" /\ (phase'[t] = "fold" <=> phase[t] = "fold")
          /\ work'[t] = work[t] /\ inserted'[t] = inserted[t]
    BY DEF Validate, Reserve, AtMovement, TypeOK
  <2>6. (\E e \in pending[t] : ApplyToSnapshot(t, e)) =>
          /\ phase[t] # "idle" /\ (phase'[t] = "fold" <=> phase[t] = "fold")
          /\ work'[t] = work[t] /\ inserted'[t] = inserted[t]
    BY DEF ApplyToSnapshot, TypeOK
  <2>7. Reject(t) \/ ReserveRefused(t) \/ InsertDuplicate(t) \/ Rollback(t) \/ Commit(t) =>
          phase'[t] = "idle"
    BY DEF Reject, ReserveRefused, InsertDuplicate, Rollback, Commit, Discard, EndSession, TypeOK
  <2>. HIDE DEF RunInv, Runs, Inserted
  <2>. QED
    BY <1>4, <2>1, <2>2, <2>3, <2>4, <2>5, <2>6, <2>7 DEF Step
<1>. QED
  BY <1>3, <1>4 DEF RunInv

-----------------------------------------------------------------------------
(* From the entries of a row to the lines of the book.                     *)

\* Lines add up to what their entries do.
LEMMA TotalOfLines ==
    ASSUME NEW S, IsFiniteSet(S), S \subseteq Entry,
           \A d, e \in S : KeyOf(d) = KeyOf(e) => d = e
    PROVE  Total({LineOf(e) : e \in S}) = Total(S)
<1>. DEFINE Image(s) == {LineOf(e) : e \in s}
            C == {s \in SUBSET S : Total(Image(s)) # Total(s)}
<1>1. SUFFICES ASSUME C # {} PROVE FALSE
  OBVIOUS
<1>2. PICK s \in C : \A x \in s : s \ {x} \notin C
  <2>. C \in SUBSET (SUBSET S)
    OBVIOUS
  <2>. HIDE DEF C
  <2>. QED
    BY <1>1, LeastSubset
<1>3. s \in SUBSET S /\ Total(Image(s)) # Total(s)
  OBVIOUS
<1>4. CASE s = {}
  <2>1. Image(s) = {}
    BY <1>4
  <2>. QED
    BY <1>3, <1>4, <2>1
<1>5. CASE s # {}
  <2>1. PICK x \in s : TRUE
    BY <1>5
  <2>. DEFINE rest == s \ {x}
  <2>2. Total(Image(rest)) = Total(rest)
    BY <1>2, <1>3
  <2>3. IsFiniteSet(rest) /\ x \notin rest /\ rest \cup {x} = s
    BY <1>3, FS_Subset
  <2>4. \A e \in s : e.amount \in Int
    BY <1>3 DEF Entry
  <2>5. Total(s) = Total(rest) + x.amount
    BY <2>3, <2>4, SumWithOne
  <2>6. Image(rest) \cup {LineOf(x)} = Image(s)
    <3>. HIDE DEF LineOf
    <3>. QED
      BY <2>3
  <2>7. LineOf(x) \notin Image(rest)
    <3>1. SUFFICES ASSUME NEW e \in rest, LineOf(e) = LineOf(x) PROVE FALSE
      OBVIOUS
    <3>2. KeyOf(e) = KeyOf(x)
      BY <3>1, KeyOfLine
    <3>. QED
      BY <1>3, <3>2
  <2>8. IsFiniteSet(Image(rest))
    <3>. DEFINE f == [e \in rest |-> LineOf(e)]
    <3>1. Image(rest) = {f[e] : e \in rest}
      BY DEF LineOf
    <3>2. f \in Surjection(rest, {f[e] : e \in rest})
      BY DEF Surjection
    <3>. QED
      BY <2>3, <3>1, <3>2, FS_Surjection
  <2>9. \A e : LineOf(e).amount = e.amount
    BY DEF LineOf
  <2>10. \A line \in Image(rest) \cup {LineOf(x)} : line.amount \in Int
    BY <2>3, <2>4, <2>6, <2>9
  <2>. HIDE DEF Image, rest
  <2>11. Total(Image(rest) \cup {LineOf(x)}) = Total(Image(rest)) + LineOf(x).amount
    BY <2>7, <2>8, <2>10, SumWithOne
  <2>. QED
    BY <1>3, <2>2, <2>5, <2>6, <2>9, <2>11
<1>. QED
  BY <1>4, <1>5

\* The balance of the book is the sum of the committed entries.
LEMMA BalanceOfBook ==
    ASSUME TypeOK, FiniteInv, KeyInv, NEW r
    PROVE  Book!Balance(r) = Total(OfRow(entries, r))
<1>. DEFINE S == OfRow(entries, r)
            lines == {LineOf(e) : e \in entries}
<1>1. {line \in lines : line.row = r} = {LineOf(e) : e \in S}
  <2>1. \A e : LineOf(e).row = e.row
    BY DEF LineOf
  <2>. HIDE DEF LineOf
  <2>. QED
    BY <2>1 DEF OfRow
<1>2. Book!Balance(r) = Total({line \in lines : line.row = r})
  <2>. HIDE DEF LineOf
  <2>. QED
    BY DEF Book!Balance, Total, Book!Amount, Amount,
           Book!MapThenSumSet, Book!MapThenFoldSet, MapThenSumSet, MapThenFoldSet
<1>3. IsFiniteSet(S) /\ S \subseteq Entry
  BY FS_Subset DEF OfRow, FiniteInv, TypeOK
<1>4. \A d, e \in S : KeyOf(d) = KeyOf(e) => d = e
  BY DEF OfRow, KeyInv, PostedOnce
<1>5. Total({LineOf(e) : e \in S}) = Total(S)
  <2>. HIDE DEF S
  <2>. QED
    BY <1>3, <1>4, TotalOfLines
<1>. QED
  BY <1>1, <1>2, <1>5

\* The book's Valid is the one of the program.
LEMMA ValidIsValid == ASSUME NEW m, Valid(m) PROVE Book!Valid(m)
<1>1. m.reason \in TransferReasons => Book!NetsToZero(m)
  BY DEF Valid, NetsToZero, Book!NetsToZero, NetOfHolder, Book!NetOfHolder,
         Signed, Book!Signed, SameHolder, Book!SameHolder,
         MapThenSumSet, Book!MapThenSumSet, MapThenFoldSet, Book!MapThenFoldSet
<1>. QED
  BY <1>1 DEF Valid, Book!Valid, TransferReasons, Book!TransferReasons

\* A reservation that commits was covered by the entries of the others.
LEMMA CommitCovered ==
    ASSUME TypeOK, CoverInv, KeyInv, OverdrawInv, FiniteInv, BooksInv,
           NEW t \in Transactions, Commit(t),
           NEW m, MovementOK(m), Valid(m), {LineOf(e) : e \in inserted[t]} = Book!LinesOf(m)
    PROVE  Book!Covered(m)
<1>1. SUFFICES ASSUME m.reason = "PAYOUT_RESERVED", NEW l \in DebitsOf(m)
               PROVE  Book!Balance(l.row) >= l.amount
  BY DEF Book!Covered, Book!DebitsOf, DebitsOf
<1>2. /\ l \in m.legs /\ l.row \in Row /\ IsAvailable(l.row)
      /\ l.amount \in Int /\ Signed(l) = -l.amount
  BY <1>1 DEF MovementOK, DebitsOf, Movement, Leg, IsAvailable, Signed
<1>3. PICK e \in inserted[t] : e.row = l.row /\ e.amount = -l.amount
  <2>1. Book!Line(m, l) \in {LineOf(e) : e \in inserted[t]}
    BY <1>2 DEF Book!LinesOf
  <2>2. PICK e \in inserted[t] : LineOf(e) = Book!Line(m, l)
    BY <2>1
  <2>3. Book!Line(m, l).row = l.row /\ Book!Line(m, l).amount = -l.amount
    BY <1>2 DEF Book!Line, Signed, Book!Signed
  <2>4. LineOf(e).row = e.row /\ LineOf(e).amount = e.amount
    BY DEF LineOf
  <2>. QED
    BY <2>2, <2>3, <2>4
<1>4. Folded(t) = inserted[t]
  BY DEF Folded, CoverInv, PendingOK, Commit
<1>5. l.row \in holds[t] /\ mine[t][l.row].amount >= 0
  BY <1>2, <1>3, <1>4 DEF BooksInv, OverdrawInv
<1>6. mine[t][l.row].amount = Total(OfRow(entries \cup inserted[t], l.row))
  BY <1>4, <1>5 DEF BooksInv
<1>7. ASSUME NEW d \in inserted[t], d.row = l.row
      PROVE  d = e
  <2>1. LineOf(d) \in Book!LinesOf(m) /\ LineOf(e) \in Book!LinesOf(m)
    OBVIOUS
  <2>2. ASSUME NEW c, LineOf(c) \in Book!LinesOf(m)
        PROVE  c.reason = m.reason /\ c.source = m.source
    <3>1. PICK k \in m.legs : LineOf(c) = Book!Line(m, k)
      BY <2>2 DEF Book!LinesOf
    <3>2. LineOf(c).reason = c.reason /\ LineOf(c).source = c.source
      BY DEF LineOf
    <3>3. Book!Line(m, k).reason = m.reason /\ Book!Line(m, k).source = m.source
      BY DEF Book!Line
    <3>. QED
      BY <3>1, <3>2, <3>3
  <2>3. KeyOf(d) = KeyOf(e)
    BY <1>3, <1>7, <2>1, <2>2 DEF KeyOf
  <2>. QED
    BY <2>3 DEF KeyInv
<1>8. OfRow(entries \cup inserted[t], l.row) = OfRow(entries, l.row) \cup {e}
  BY <1>3, <1>7 DEF OfRow
<1>9. e \notin OfRow(entries, l.row)
  BY DEF KeyInv, OfRow
<1>10. /\ IsFiniteSet(OfRow(entries, l.row))
       /\ \A d \in OfRow(entries, l.row) \cup {e} : d.amount \in Int
  BY FS_Subset DEF OfRow, FiniteInv, TypeOK, Entry
<1>11. /\ Total(OfRow(entries, l.row)) \in Int
       /\ Total(OfRow(entries, l.row) \cup {e}) = Total(OfRow(entries, l.row)) + e.amount
  <2>. DEFINE S == OfRow(entries, l.row)
  <2>. HIDE DEF S
  <2>. QED
    BY <1>9, <1>10, SumWithOne DEF S
<1>12. Book!Balance(l.row) = Total(OfRow(entries, l.row))
  BY BalanceOfBook
<1>13. mine[t][l.row].amount = Total(OfRow(entries, l.row) \cup {e})
  BY <1>6, <1>8, Zenon
<1>14. Total(OfRow(entries, l.row)) + (-l.amount) >= 0
  BY <1>3, <1>5, <1>11, <1>13
<1>15. Total(OfRow(entries, l.row)) >= l.amount
  BY <1>2, <1>11, <1>14
<1>. QED
  BY <1>12, <1>15

LEMMA CommitPosts ==
    ASSUME TypeOK, CoverInv, KeyInv, OverdrawInv, FiniteInv, BooksInv, RunInv,
           NEW t \in Transactions, Commit(t)
    PROVE  Book!Next
<1>1. PICK p \in Program : \E k \in 0..Len(p.movements) : Runs(t, p, k, k)
  BY DEF Commit, RunInv, Inserted
<1>2. PICK k \in 0..Len(p.movements) : Runs(t, p, k, k)
  BY <1>1
<1>. DEFINE m == p.movements
<1>3. /\ m \in Seq(Movement) /\ DOMAIN m = 1..Len(m) /\ Len(m) \in Nat
      /\ \A i \in DOMAIN m : MovementOK(m[i])
  BY ProgramAssumption DEF ProgramOK
<1>4. k = Len(m)
  BY <1>2, <1>3 DEF Runs, Commit
<1>5. /\ \A need \in p.needs : Posted(need.reason, need.source)
      /\ {LineOf(e) : e \in inserted[t]} = UNION {Book!LinesOf(m[i]) : i \in DOMAIN m}
      /\ \A i \in DOMAIN m : Valid(m[i])
      /\ \A i, j \in DOMAIN m : i # j => KeysOfMovement(m[i]) \cap KeysOfMovement(m[j]) = {}
  BY <1>2, <1>3, <1>4 DEF Runs
<1>6. \A need \in p.needs : Book!Posted(need.reason, need.source)
  <2>1. ASSUME NEW need \in p.needs
        PROVE  Book!Posted(need.reason, need.source)
    <3>1. PICK e \in entries : e.reason = need.reason /\ e.source = need.source
      BY <1>5 DEF Posted
    <3>2. LineOf(e).reason = e.reason /\ LineOf(e).source = e.source
      BY DEF LineOf
    <3>. HIDE DEF LineOf
    <3>. QED
      BY <3>1, <3>2 DEF Book!Posted
  <2>. QED
    BY <2>1
<1>7. ASSUME NEW i \in DOMAIN m
      PROVE  Book!Valid(m[i]) /\ Book!Covered(m[i])
  <2>1. MovementOK(m[i]) /\ Valid(m[i])
    BY <1>3, <1>5
  <2>2. CASE m[i].reason = "PAYOUT_RESERVED"
    <3>1. \A j \in DOMAIN m : j = i
      <4>1. ASSUME NEW a \in DOMAIN m, NEW b \in DOMAIN m, a < b
            PROVE  m[a].reason = "MERCHANT_SETTLED" /\ m[b].reason = "MERCHANT_SETTLED"
        <5>1. {m[a].reason, m[b].reason} = {"MERCHANT_SETTLED"}
          BY <4>1, OrderAssumption DEF Orderly
        <5>. QED
          BY <5>1
      <4>2. ASSUME NEW j \in DOMAIN m, j # i
            PROVE  FALSE
        <5>1. i < j \/ j < i
          BY <1>3, <4>2
        <5>2. m[i].reason = "MERCHANT_SETTLED"
          BY <4>1, <5>1
        <5>. QED
          BY <2>2, <5>2
      <4>. QED
        BY <4>2
    <3>2. {LineOf(e) : e \in inserted[t]} = Book!LinesOf(m[i])
      BY <1>5, <3>1
    <3>. QED
      BY <2>1, <3>2, CommitCovered, ValidIsValid
  <2>3. CASE m[i].reason # "PAYOUT_RESERVED"
    BY <2>1, <2>3, ValidIsValid DEF Book!Covered
  <2>. QED
    BY <2>2, <2>3
<1>8. ASSUME NEW i \in DOMAIN m
      PROVE  Book!Keys(Book!LinesOf(m[i])) \cap Book!Keys({LineOf(e) : e \in entries}) = {}
  <2>1. SUFFICES ASSUME NEW line \in Book!LinesOf(m[i]), NEW other \in {LineOf(e) : e \in entries},
                        Book!KeyOf(line) = Book!KeyOf(other)
                 PROVE  FALSE
    BY DEF Book!Keys
  <2>2. line \in {LineOf(e) : e \in inserted[t]}
    BY <1>5
  <2>3. PICK d \in inserted[t] : line = LineOf(d)
    BY <2>2
  <2>4. PICK e \in entries : other = LineOf(e)
    BY <2>1
  <2>5. KeyOf(d) = KeyOf(e)
    BY <2>1, <2>3, <2>4, KeyOfLine
  <2>. QED
    BY <2>5 DEF KeyInv
<1>9. \A i, j \in DOMAIN m : i # j =>
        Book!Keys(Book!LinesOf(m[i])) \cap Book!Keys(Book!LinesOf(m[j])) = {}
  BY <1>5, KeysOfLines
<1>10. {LineOf(e) : e \in entries}'
          = {LineOf(e) : e \in entries} \cup UNION {Book!LinesOf(m[i]) : i \in DOMAIN m}
  <2>1. {LineOf(e) : e \in entries}' = {LineOf(e) : e \in entries'}
    BY DEF LineOf
  <2>2. entries' = entries \cup inserted[t]
    BY DEF Commit
  <2>. HIDE DEF LineOf
  <2>3. {LineOf(e) : e \in entries'} = {LineOf(e) : e \in entries} \cup {LineOf(e) : e \in inserted[t]}
    BY <2>2
  <2>. QED
    BY <1>5, <2>1, <2>3
<1>11. Book!Post(p)
  BY <1>6, <1>7, <1>8, <1>9, <1>10 DEF Book!Post
<1>. QED
  BY <1>11 DEF Book!Next

(***************************************************************************)
(* The program keeps the promise of libs/balance: to whoever reads the     *)
(* committed entries, the interleaved statements of the sessions are the   *)
(* steps of Ledger, each posting all the movements of one transaction, of  *)
(* which none was posted before and whose reservations are covered then.   *)
(***************************************************************************)
THEOREM LedgerIsImplemented == Spec => Book!Spec /\ PostsAtOnce
<1>. DEFINE Inv == /\ TypeOK /\ WorkOK /\ InsertsValid /\ CoverInv /\ KeyInv
                   /\ OverdrawInv /\ FiniteInv /\ BooksInv /\ WaitInv /\ RunInv
            Lines == {LineOf(e) : e \in entries}
<1>1. Init => Inv
  BY InitTyped, InitKeys, InitCover, InitOverdraw, InitBooks, InitWaits, InitRuns
<1>2. Inv /\ [Next]_vars => Inv'
  <2>1. CASE Next /\ Inv
    BY <2>1, StepTyped, StepInsertsValid, StepCover, StepKeys, StepOverdraw, StepFinite,
       StepBooks, StepWaits, StepRuns DEF Next
  <2>2. CASE Inv /\ UNCHANGED vars
    <3>1. TypeOK' /\ WorkOK' /\ InsertsValid' /\ CoverInv' /\ KeyInv'
      BY <2>2 DEF vars, TypeOK, WorkOK, InsertsValid, Current, CoverInv, LocksExclusive,
         PendingOK, MineCovers, LastEntryCovers, KeyInv, PostedOnce
    <3>2. OverdrawInv' /\ FiniteInv' /\ BooksInv'
      BY <2>2 DEF vars, OverdrawInv, NeverOverdrawn, Current, FiniteInv, BooksInv, Folded
    <3>3. WaitInv'
      BY <2>2 DEF vars, WaitInv, StageOK, Fresh, Reserving, Later, InOrder, Current, LegsOK,
         Gated, ReservedHeld
    <3>4. RunInv'
      <4>1. \A u, p, k, n : Runs(u, p, k, n) => Runs(u, p, k, n)'
        BY <2>2, RunsStay DEF vars
      <4>2. \A u, k : Inserted(u, k)' = Inserted(u, k)
        BY <2>2 DEF vars, Inserted
      <4>3. phase' = phase
        BY <2>2 DEF vars
      <4>. QED
        BY <2>2, <4>1, <4>2, <4>3 DEF RunInv
    <3>. QED
      BY <3>1, <3>2, <3>3, <3>4
  <2>. QED
    BY <2>1, <2>2
<1>3. Init => Book!Init
  BY DEF Init, Book!Init
<1>4. Inv /\ [Next]_vars => UNCHANGED entries \/ Book!Next
  <2>1. ASSUME Inv, NEW t \in Transactions, Step(t)
        PROVE  UNCHANGED entries \/ Book!Next
    <3>1. CASE Commit(t)
      BY <2>1, <3>1, CommitPosts
    <3>2. CASE ~Commit(t)
      BY <2>1, <3>2 DEF Step, Begin, Reject, Validate, Reserve, ReserveRefused, Insert,
         InsertDuplicate, ApplyToSnapshot, PostReturns, Rollback, Discard
    <3>. QED
      BY <3>1, <3>2
  <2>2. UNCHANGED vars => UNCHANGED entries
    BY DEF vars
  <2>. QED
    BY <2>1, <2>2 DEF Next
<1>5. UNCHANGED entries => UNCHANGED Lines
  BY DEF LineOf
<1>. HIDE DEF Inv
<1>. QED
  BY <1>1, <1>2, <1>3, <1>4, <1>5, PTL DEF Spec, Book!Spec, PostsAtOnce

=============================================================================

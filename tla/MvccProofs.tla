----------------------------- MODULE MvccProofs -----------------------------
(***************************************************************************)
(* Row versions and snapshots for any number of sessions, transactions and *)
(* versions, when rows are changed by statements (ByAddress = FALSE): a    *)
(* transaction that changes a row holds a snapshot, which keeps vacuum     *)
(* away from what the transaction may still undo.                          *)
(***************************************************************************)
EXTENDS Mvcc, SequenceFacts

VersionSet == [row : Slots, xmin : Xids, xmax : 0 .. MaxXid, there : BOOLEAN]
Runs(x) == \E s \in Sessions : txn[s] = x /\ x # NO_TRANSACTION

\* Transaction ids are handed out once, and the history knows who is running.
IdsAreFresh ==
    /\ \A s, q \in Sessions : txn[s] = txn[q] /\ txn[s] # NO_TRANSACTION => s = q
    /\ \A s \in Sessions : txn[s] # NO_TRANSACTION =>
          txn[s] < nextXid /\ txn[s] >= frozen /\ fate[txn[s]] = "running"
    /\ \A x \in Xids : fate[x] = "running" => Runs(x)
    /\ \A x \in Xids : fate[x] = "unused" <=> x >= nextXid

\* Versions carry ids that were handed out, and rows are numbered by the slot
\* of their first version.
VersionsAreOld ==
    \A v \in 1 .. Len(heap) :
        heap[v].xmin < nextXid /\ heap[v].xmax < nextXid /\ heap[v].row <= v

\* What a transaction has not finished is still in the heap, under its lock.
UnfinishedIsThere ==
    \A v \in 1 .. Len(heap) :
        /\ Runs(heap[v].xmax) => heap[v].there
        /\ heap[v].there /\ Runs(heap[v].xmin) => lock[v] = heap[v].xmin
        /\ heap[v].there /\ Runs(heap[v].xmax) => lock[v] = heap[v].xmax

\* An aborted transaction leaves nothing: neither versions nor deletions.
NothingAborted ==
    \A v \in 1 .. Len(heap) :
        /\ heap[v].there => fate[heap[v].xmin] # "aborted"
        /\ heap[v].xmax # NO_TRANSACTION =>
              fate[heap[v].xmax] # "aborted" \/ fate[heap[v].xmin] = "aborted"

\* The versions of a row follow one another: the earlier of two was replaced
\* for good, or by the transaction that made the later one.
RowsAreChains ==
    \A v, w \in 1 .. Len(heap) :
        /\ v < w
        /\ heap[v].row = heap[w].row
        /\ fate[heap[v].xmin] # "aborted"
        /\ fate[heap[w].xmin] # "aborted"
        => /\ heap[v].xmax # NO_TRANSACTION
           /\ fate[heap[v].xmax] = "committed" \/ heap[v].xmax = heap[w].xmin

\* A snapshot is kept by the transaction it was taken for, and shows no other
\* one that is still running.
KeptBy(s, snapshot) ==
    /\ txn[s] # NO_TRANSACTION
    /\ snapshot.owner = txn[s]
    /\ snapshot.xmin <= txn[s]
    /\ snapshot.xmin <= snapshot.xmax
    /\ snapshot.xmax <= nextXid
    /\ snapshot.frozen <= nextXid
    /\ \A x \in snapshot.active : snapshot.xmin <= x
    /\ \A q \in Sessions : txn[q] # NO_TRANSACTION =>
          /\ txn[q] \in snapshot.active \/ txn[q] >= snapshot.xmax
          /\ txn[q] >= snapshot.frozen

SnapshotsAreKept == \A s \in Sessions : snap[s] # NoSnapshot => KeptBy(s, snap[s])

\* Whoever has deleted a version, or waits to, holds a snapshot.
ChangersHaveSnapshots ==
    \A s \in Sessions :
        /\ waiting[s] # NoChange =>
              /\ snap[s] # NoSnapshot /\ txn[s] # NO_TRANSACTION
              /\ waiting[s].slot \in 1 .. Len(heap)
        /\ \A v \in 1 .. Len(heap) :
              heap[v].xmax = txn[s] /\ txn[s] # NO_TRANSACTION => snap[s] # NoSnapshot

HeapInv ==
    /\ VersionsAreOld
    /\ UnfinishedIsThere
    /\ NothingAborted
    /\ RowsAreChains
    /\ IndexIsExact
    /\ OnlyDeadReclaimed

IInv == TypeOK /\ IdsAreFresh /\ HeapInv /\ SnapshotsAreKept /\ ChangersHaveSnapshots

---------------------------------------------------------------------------
(* Types.                                                                  *)

\* The heap is a sequence of versions, whose fields have their types.
LEMMA HeapFacts ==
    ASSUME TypeOK
    PROVE  /\ Len(heap) \in Nat /\ Len(heap) <= MaxVersions /\ heap \in Seq(VersionSet)
           /\ DOMAIN heap = 1 .. Len(heap)
           /\ \A v \in 1 .. Len(heap) :
                 /\ v \in Slots
                 /\ heap[v] \in VersionSet
                 /\ heap[v].row \in Nat /\ heap[v].xmin \in Xids
                 /\ heap[v].xmin \in Nat /\ heap[v].xmin # NO_TRANSACTION
                 /\ heap[v].xmax \in Nat
                 /\ heap[v].xmax # NO_TRANSACTION => heap[v].xmax \in Xids
<1>1. heap \in Seq(VersionSet) /\ MaxXid \in Nat /\ MaxVersions \in Nat
  BY BoundsAssumption DEF TypeOK, VersionSet
<1>2. Len(heap) \in Nat /\ DOMAIN heap = 1 .. Len(heap) /\ Len(heap) <= MaxVersions
  BY <1>1, LenProperties DEF TypeOK
<1>3. \A v \in 1 .. Len(heap) : heap[v] \in VersionSet
  BY <1>1, ElementOfSeq
<1>4. \A v \in 1 .. Len(heap) : v \in Slots
  BY <1>1, <1>2 DEF Slots
<1>5. ASSUME NEW v \in 1 .. Len(heap)
      PROVE  /\ v \in Slots
             /\ heap[v] \in VersionSet
             /\ heap[v].row \in Nat /\ heap[v].xmin \in Xids
             /\ heap[v].xmin \in Nat /\ heap[v].xmin # NO_TRANSACTION
             /\ heap[v].xmax \in Nat
             /\ heap[v].xmax # NO_TRANSACTION => heap[v].xmax \in Xids
  <2>1. v \in Slots /\ heap[v] \in VersionSet
    BY <1>3, <1>4
  <2> DEFINE e == heap[v]
  <2>2. e \in VersionSet
    BY <2>1
  <2> HIDE DEF e
  <2>4. e.row \in Slots /\ e.xmin \in Xids /\ e.xmax \in 0 .. MaxXid
    BY <2>2 DEF VersionSet
  <2>5. \A x \in Xids : x \in Nat /\ x # NO_TRANSACTION
    BY <1>1 DEF Xids, NO_TRANSACTION
  <2>6. \A x \in 0 .. MaxXid : x \in Nat /\ (x # NO_TRANSACTION => x \in Xids)
    BY <1>1 DEF Xids, NO_TRANSACTION
  <2>7. \A x \in Slots : x \in Nat
    BY <1>1 DEF Slots
  <2>3. /\ e.row \in Nat /\ e.xmin \in Xids
        /\ e.xmin \in Nat /\ e.xmin # NO_TRANSACTION
        /\ e.xmax \in Nat
        /\ e.xmax # NO_TRANSACTION => e.xmax \in Xids
    BY <2>4, <2>5, <2>6, <2>7
  <2> QED BY <2>1, <2>3 DEF e
<1> QED BY <1>1, <1>2, <1>5

\* Ids are numbers, and the id of an open transaction is one of Xids.
LEMMA IdFacts ==
    ASSUME TypeOK
    PROVE  /\ nextXid \in Nat /\ nextXid >= 1 /\ frozen \in Nat /\ frozen <= nextXid
           /\ MaxXid \in Nat /\ MaxVersions \in Nat
           /\ \A s \in Sessions : txn[s] \in Nat /\ (txn[s] # NO_TRANSACTION => txn[s] \in Xids)
<1>1. nextXid \in 1 .. MaxXid + 1 /\ frozen \in 1 .. nextXid /\ txn \in [Sessions -> 0 .. MaxXid]
  BY DEF TypeOK
<1>2. MaxXid \in Nat /\ MaxVersions \in Nat
  BY BoundsAssumption
<1>3. \A x \in 0 .. MaxXid : x \in Nat /\ (x # NO_TRANSACTION => x \in Xids)
  BY <1>2 DEF Xids, NO_TRANSACTION
<1>4. nextXid \in Nat /\ nextXid >= 1 /\ frozen \in Nat /\ frozen <= nextXid
  BY <1>1, <1>2
<1> QED BY <1>1, <1>2, <1>3, <1>4

---------------------------------------------------------------------------
(* Snapshots.                                                              *)

\* The least running id is a running id and no other is less.
LEMMA MinRunning ==
    ASSUME TypeOK, running_ids # {}
    PROVE  Min(running_ids) \in running_ids /\ \A x \in running_ids : Min(running_ids) <= x
<1>1. running_ids \subseteq Nat
  BY IdFacts DEF running_ids
<1>2. \E x \in running_ids : \A y \in running_ids : x <= y
  BY <1>1, LeastNat
<1> QED BY <1>2 DEF Min

\* The snapshot a statement of s works with.
LEMMA SnapshotFor ==
    ASSUME TypeOK, IdsAreFresh, SnapshotsAreKept, NEW s \in Sessions, txn[s] # NO_TRANSACTION
    PROVE  /\ snapshot_for(s) \in Snapshots
           /\ snapshot_for(s) # NoSnapshot
           /\ KeptBy(s, snapshot_for(s))
<1>1. CASE snapshot_for(s) = snap[s] /\ snap[s] # NoSnapshot
  BY <1>1 DEF SnapshotsAreKept, TypeOK
<1>2. CASE snapshot_for(s) = take(txn[s])
  <2>1. txn[s] \in running_ids /\ running_ids # {}
    BY DEF running_ids
  <2>2. running_ids \subseteq Xids /\ running_ids \subseteq Nat
    <3>1. \A x \in Xids : x \in Nat
      BY BoundsAssumption DEF Xids
    <3>2. running_ids \subseteq Xids
      BY IdFacts DEF running_ids
    <3> QED BY <3>1, <3>2
  <2>3. Min(running_ids) \in running_ids /\ \A x \in running_ids : Min(running_ids) <= x
    BY <2>1, MinRunning
  <2> DEFINE sn == take(txn[s])
  <2>4. /\ sn.xmin = Min(running_ids) /\ sn.xmax = nextXid /\ sn.active = running_ids
        /\ sn.frozen = frozen /\ sn.owner = txn[s]
    BY <2>1 DEF take
  <2>5. sn \in Snapshots
    <3>1. sn = [xmin |-> Min(running_ids), xmax |-> nextXid, active |-> running_ids,
                frozen |-> frozen, owner |-> txn[s]]
      BY <2>1 DEF take
    <3>2. Min(running_ids) \in Nat /\ nextXid \in Nat /\ frozen \in Nat /\ txn[s] \in 0 .. MaxXid
      BY <2>2, <2>3, IdFacts DEF TypeOK
    <3> QED BY <2>2, <3>1, <3>2 DEF Snapshots
  <2>6. sn # NoSnapshot
    BY <2>4 DEF NoSnapshot
  <2>7. \A q \in Sessions : txn[q] # NO_TRANSACTION => txn[q] \in running_ids /\ txn[q] >= frozen
    BY DEF running_ids, IdsAreFresh
  <2>8. Min(running_ids) <= txn[s] /\ Min(running_ids) <= nextXid
    <3>1. txn[s] < nextXid /\ txn[s] \in Nat /\ nextXid \in Nat
      BY IdFacts DEF IdsAreFresh
    <3>2. Min(running_ids) \in Nat /\ Min(running_ids) <= txn[s]
      BY <2>1, <2>2, <2>3
    <3> QED BY <3>1, <3>2
  <2>9. KeptBy(s, sn)
    <3> HIDE DEF sn
    <3>1. nextXid <= nextXid /\ frozen <= nextXid
      BY IdFacts
    <3> QED BY <2>3, <2>4, <2>7, <2>8, <3>1 DEF KeptBy
  <2> QED BY <1>2, <2>5, <2>6, <2>9
<1> QED BY <1>1, <1>2 DEF snapshot_for

\* A statement may change the snapshot of its session and of no other.
LEMMA SnapStep ==
    ASSUME TypeOK, IdsAreFresh, SnapshotsAreKept, NEW s \in Sessions, txn[s] # NO_TRANSACTION,
           snap' = snap \/ snap' = [snap EXCEPT ![s] = snapshot_for(s)],
           txn' = txn, nextXid' = nextXid
    PROVE  /\ snap' \in [Sessions -> Snapshots]
           /\ SnapshotsAreKept'
           /\ \A q \in Sessions : snap[q] # NoSnapshot => snap'[q] # NoSnapshot
           /\ snap' = [snap EXCEPT ![s] = snapshot_for(s)] => snap'[s] # NoSnapshot
<1>1. /\ snapshot_for(s) \in Snapshots /\ snapshot_for(s) # NoSnapshot
      /\ KeptBy(s, snapshot_for(s)) /\ snap \in [Sessions -> Snapshots]
  BY SnapshotFor DEF TypeOK
<1>2. \A q \in Sessions : snap'[q] = snap[q] \/ (q = s /\ snap'[q] = snapshot_for(s))
  BY <1>1
<1>3. \A q \in Sessions : snap'[q] # NoSnapshot => KeptBy(q, snap'[q])
  BY <1>1, <1>2 DEF SnapshotsAreKept
<1>4. SnapshotsAreKept'
  BY <1>3 DEF SnapshotsAreKept, KeptBy
<1> QED BY <1>1, <1>2, <1>4

\* Vacuum's horizon is not above the snapshot of anybody.
LEMMA HorizonIsLow ==
    ASSUME TypeOK, NEW s \in Sessions, snap[s] # NoSnapshot
    PROVE  oldest_snapshot_xmin <= snap[s].xmin /\ oldest_snapshot_xmin \in Nat
<1> DEFINE live == {snap[q].xmin : q \in {p \in Sessions : snap[p] # NoSnapshot}}
<1>1. live \subseteq Nat /\ snap[s].xmin \in live
  <2>1. snap \in [Sessions -> Snapshots] /\ \A sn \in Snapshots : sn.xmin \in Nat
    BY DEF TypeOK, Snapshots
  <2> QED BY <2>1
<1>2. \E x \in live : \A y \in live : x <= y
  <2> HIDE DEF live
  <2> QED BY <1>1, LeastNat
<1>3. oldest_snapshot_xmin = Min(live)
  BY <1>1 DEF oldest_snapshot_xmin
<1> HIDE DEF live
<1>4. Min(live) \in live /\ \A y \in live : Min(live) <= y
  BY <1>2 DEF Min
<1> QED BY <1>1, <1>3, <1>4

---------------------------------------------------------------------------
(* The row versions, one lemma per kind of step.                           *)

\* An id on a version was handed out: it is running, committed or aborted, and
\* running means that a session has it open.
LEMMA FateFacts ==
    ASSUME TypeOK, IdsAreFresh, NEW x \in Xids, x < nextXid
    PROVE  /\ fate[x] \in {"running", "committed", "aborted"}
           /\ fate[x] = "running" <=> Runs(x)
<1>1. x \in Nat /\ nextXid \in Nat /\ fate[x] \in {"unused", "running", "committed", "aborted"}
  <2>1. fate \in [Xids -> {"unused", "running", "committed", "aborted"}]
    BY DEF TypeOK
  <2> QED BY <2>1, IdFacts, BoundsAssumption DEF Xids
<1>2. fate[x] # "unused"
  BY <1>1 DEF IdsAreFresh
<1> QED BY <1>1, <1>2 DEF IdsAreFresh, Runs

\* No version is touched, no lock that somebody holds, and nothing happens to
\* the ids that were handed out.
LEMMA SameHeap ==
    ASSUME TypeOK, HeapInv, UNCHANGED <<heap, index>>,
           nextXid' \in Nat, nextXid <= nextXid', ~Runs(NO_TRANSACTION)',
           \A y \in Xids : y < nextXid => fate'[y] = fate[y] /\ (Runs(y)' => Runs(y)),
           \A v \in 1 .. Len(heap) : Runs(lock[v]) => lock'[v] = lock[v]
    PROVE  HeapInv'
<1>0. /\ VersionsAreOld /\ UnfinishedIsThere /\ NothingAborted /\ RowsAreChains
      /\ IndexIsExact /\ OnlyDeadReclaimed
  BY DEF HeapInv
<1>1. /\ Len(heap) \in Nat /\ DOMAIN heap = 1 .. Len(heap)
      /\ \A w \in 1 .. Len(heap) :
            /\ heap[w].xmin \in Xids /\ heap[w].xmin \in Nat /\ heap[w].xmax \in Nat
            /\ heap[w].xmax # NO_TRANSACTION => heap[w].xmax \in Xids
  BY HeapFacts
<1>2. ASSUME NEW w \in 1 .. Len(heap)
      PROVE  /\ heap[w].xmin < nextXid' /\ heap[w].xmax < nextXid'
             /\ fate'[heap[w].xmin] = fate[heap[w].xmin]
             /\ heap[w].xmax # NO_TRANSACTION => fate'[heap[w].xmax] = fate[heap[w].xmax]
             /\ Runs(heap[w].xmin)' => Runs(heap[w].xmin)
             /\ Runs(heap[w].xmax)' => Runs(heap[w].xmax)
  <2>1. heap[w].xmin < nextXid /\ heap[w].xmax < nextXid
    BY <1>0 DEF VersionsAreOld
  <2>2. nextXid \in Nat
    BY IdFacts
  <2>3. ASSUME NEW y \in {heap[w].xmin, heap[w].xmax}, Runs(y)'
        PROVE  Runs(y)
    <3>1. y # NO_TRANSACTION
      BY <2>3
    <3> QED BY <2>1, <2>3, <3>1, <1>1
  <2> QED BY <2>1, <2>2, <2>3, <1>1
<1>3. VersionsAreOld'
  BY <1>0, <1>2 DEF VersionsAreOld
<1>4. UnfinishedIsThere'
  BY <1>0, <1>2 DEF UnfinishedIsThere
<1>5. NothingAborted'
  BY <1>0, <1>2 DEF NothingAborted
<1>6. RowsAreChains'
  BY <1>0, <1>2 DEF RowsAreChains
<1>7. IndexIsExact' /\ OnlyDeadReclaimed'
  BY <1>0, <1>1, <1>2 DEF IndexIsExact, OnlyDeadReclaimed
<1> QED BY <1>3, <1>4, <1>5, <1>6, <1>7 DEF HeapInv

\* begin: the new id is on no version yet.
LEMMA BegunHeap ==
    ASSUME TypeOK, IdsAreFresh, HeapInv, NEW s \in Sessions, txn[s] = NO_TRANSACTION,
           nextXid <= MaxXid, txn' = [txn EXCEPT ![s] = nextXid],
           nextXid' = nextXid + 1, fate' = [fate EXCEPT ![nextXid] = "running"],
           UNCHANGED <<heap, index, lock>>
    PROVE  HeapInv'
<1>1. /\ nextXid \in Nat /\ txn \in [Sessions -> 0 .. MaxXid] /\ nextXid \in Xids
      /\ fate \in [Xids -> {"unused", "running", "committed", "aborted"}]
  <2>1. nextXid \in 1 .. MaxXid + 1 /\ nextXid \in Nat /\ MaxXid \in Nat
    BY IdFacts DEF TypeOK
  <2>2. nextXid \in Xids
    BY <2>1 DEF Xids
  <2> QED BY <2>1, <2>2 DEF TypeOK
<1>2. ~Runs(NO_TRANSACTION)'
  BY DEF Runs
<1>3. ASSUME NEW y \in Xids, y < nextXid
      PROVE  fate'[y] = fate[y] /\ (Runs(y)' => Runs(y))
  <2>1. y # nextXid /\ y \in Nat
    BY <1>1, <1>3, BoundsAssumption DEF Xids
  <2> QED BY <1>1, <2>1 DEF Runs
<1>4. nextXid' \in Nat /\ nextXid <= nextXid'
  BY <1>1
<1> QED BY <1>2, <1>3, <1>4, SameHeap

\* What the end of transaction x, of session s, does to the ids and the locks.
LEMMA Ended ==
    ASSUME TypeOK, IdsAreFresh, NEW s \in Sessions, NEW x, x = txn[s], x # NO_TRANSACTION,
           NEW outcome \in {"committed", "aborted"}, Retire(s, outcome)
    PROVE  /\ x \in Xids /\ fate[x] = "running" /\ fate'[x] = outcome /\ Runs(x)
           /\ \A y \in Xids : y # x => fate'[y] = fate[y]
           /\ \A y : Runs(y)' => Runs(y) /\ y # x
           /\ \A v \in Slots : lock[v] # x => lock'[v] = lock[v]
<1>1. /\ txn \in [Sessions -> 0 .. MaxXid] /\ x \in Xids
      /\ fate \in [Xids -> {"unused", "running", "committed", "aborted"}]
      /\ fate[x] = "running" /\ Runs(x)
  BY IdFacts DEF TypeOK, IdsAreFresh, Runs
<1>2. /\ txn' = [txn EXCEPT ![s] = NO_TRANSACTION] /\ fate' = [fate EXCEPT ![x] = outcome]
      /\ lock' = [v \in Slots |-> IF lock[v] = x THEN NO_TRANSACTION ELSE lock[v]]
  BY DEF Retire
<1>3. ASSUME NEW y, Runs(y)'
      PROVE  Runs(y) /\ y # x
  <2>1. PICK q \in Sessions : txn'[q] = y /\ y # NO_TRANSACTION
    BY <1>3 DEF Runs
  <2>2. q # s /\ txn[q] = y
    BY <2>1, <1>1, <1>2
  <2> QED BY <2>1, <2>2 DEF Runs, IdsAreFresh
<1> QED BY <1>1, <1>2, <1>3

\* commit: what x has done is for good.
LEMMA CommittedHeap ==
    ASSUME TypeOK, IdsAreFresh, HeapInv, NEW s \in Sessions, txn[s] # NO_TRANSACTION,
           Retire(s, "committed"), UNCHANGED <<heap, index>>
    PROVE  HeapInv'
<1> DEFINE x == txn[s]
<1>0. /\ VersionsAreOld /\ UnfinishedIsThere /\ NothingAborted /\ RowsAreChains
      /\ IndexIsExact /\ OnlyDeadReclaimed
  BY DEF HeapInv
<1>1. /\ Len(heap) \in Nat /\ DOMAIN heap = 1 .. Len(heap)
      /\ \A w \in 1 .. Len(heap) :
            /\ w \in Slots /\ heap[w].xmin \in Xids
            /\ heap[w].xmax # NO_TRANSACTION => heap[w].xmax \in Xids
  BY HeapFacts
<1>2. /\ x \in Xids /\ fate[x] = "running" /\ fate'[x] = "committed"
      /\ \A y \in Xids : y # x => fate'[y] = fate[y]
      /\ \A y : Runs(y)' => Runs(y) /\ y # x
      /\ \A v \in Slots : lock[v] # x => lock'[v] = lock[v]
  BY Ended
<1>3. nextXid' = nextXid
  BY DEF Retire
<1> HIDE DEF x
<1>4. \A y \in Xids : /\ fate'[y] = "aborted" <=> fate[y] = "aborted"
                      /\ fate[y] = "committed" => fate'[y] = "committed"
  BY <1>2
<1>5. VersionsAreOld'
  BY <1>0, <1>3 DEF VersionsAreOld
<1>6. UnfinishedIsThere'
  BY <1>0, <1>1, <1>2 DEF UnfinishedIsThere
<1>7. NothingAborted'
  BY <1>0, <1>1, <1>4 DEF NothingAborted
<1>8. RowsAreChains'
  BY <1>0, <1>1, <1>4 DEF RowsAreChains
<1>9. IndexIsExact' /\ OnlyDeadReclaimed'
  BY <1>0, <1>1, <1>4 DEF IndexIsExact, OnlyDeadReclaimed
<1> QED BY <1>5, <1>6, <1>7, <1>8, <1>9 DEF HeapInv

\* insert, delete and update: transaction x stamps version v (none: v = 0) and
\* adds n versions of a row (n is 0 or 1).
Stamps(x, n, row, v) ==
    /\ heap' \in Seq(VersionSet)
    /\ Len(heap') = Len(heap) + n
    /\ \A w \in 1 .. Len(heap) :
          /\ heap'[w].row = heap[w].row /\ heap'[w].xmin = heap[w].xmin
          /\ heap'[w].there = heap[w].there
          /\ heap'[w].xmax = IF w = v THEN x ELSE heap[w].xmax
          /\ lock'[w] = IF w = v THEN x ELSE lock[w]
    /\ n = 1 => heap'[Len(heap) + 1] = Version(row, x) /\ lock'[Len(heap) + 1] = x
    /\ index' = (index \ {v}) \union (Len(heap) + 1 .. Len(heap) + n)
    /\ v = 0 => row = Len(heap) + 1
    /\ v # 0 => /\ row = heap[v].row /\ heap[v].there /\ heap[v].xmax = NO_TRANSACTION
                /\ lock[v] \in {NO_TRANSACTION, x}

\* The rows stay sound under such a step: the version stamped was the live one
\* of its row, and the lock kept everybody else away from it.
LEMMA ChangedHeap ==
    ASSUME TypeOK, IdsAreFresh, HeapInv, UNCHANGED <<fate, txn, nextXid>>,
           NEW s \in Sessions, txn[s] # NO_TRANSACTION,
           NEW n \in {0, 1}, NEW row, NEW v \in 0 .. Len(heap), Stamps(txn[s], n, row, v)
    PROVE  HeapInv'
<1> DEFINE x == txn[s]
<1> USE DEF Stamps
<1> DEFINE L == Len(heap)
<1>0. /\ VersionsAreOld /\ UnfinishedIsThere /\ NothingAborted /\ RowsAreChains
      /\ IndexIsExact /\ OnlyDeadReclaimed
  BY DEF HeapInv
<1>1. /\ L \in Nat /\ DOMAIN heap = 1 .. L
      /\ \A w \in 1 .. L : /\ heap[w].row \in Nat /\ heap[w].xmin \in Xids
                           /\ heap[w].xmin \in Nat /\ heap[w].xmin # NO_TRANSACTION
                           /\ heap[w].xmax \in Nat
                           /\ heap[w].xmax # NO_TRANSACTION => heap[w].xmax \in Xids
  BY HeapFacts
<1>2. x \in Nat /\ x \in Xids /\ x < nextXid /\ fate[x] = "running" /\ nextXid \in Nat /\ Runs(x)
  BY IdFacts DEF IdsAreFresh, Runs
<1>3. DOMAIN heap' = 1 .. L + n /\ \A w \in 1 .. L + n : w \in 1 .. L \/ (w = L + 1 /\ n = 1)
  <2>1. DOMAIN heap' = 1 .. Len(heap')
    BY LenProperties
  <2> QED BY <1>1, <2>1
<1>4. n = 1 => /\ heap'[L + 1].row = row /\ heap'[L + 1].xmin = x
               /\ heap'[L + 1].xmax = NO_TRANSACTION /\ heap'[L + 1].there = TRUE
  BY DEF Version
<1>5. \A y : Runs(y)' <=> Runs(y)
  BY DEF Runs
<1>6. ~Runs(NO_TRANSACTION)
  BY DEF Runs
<1>7. \A w \in 1 .. L : w # 0 /\ w # L + 1 /\ w < L + 1
  BY <1>1
<1>8. v # 0 => v \in 1 .. L
  BY <1>1
<1> HIDE DEF L
<1>11. VersionsAreOld'
  <2>1. \A w \in 1 .. L + n : /\ heap'[w].xmin < nextXid /\ heap'[w].xmax < nextXid
                             /\ heap'[w].row <= w
    <3>1. ASSUME NEW w \in 1 .. L
          PROVE  heap'[w].xmin < nextXid /\ heap'[w].xmax < nextXid /\ heap'[w].row <= w
      BY <1>0, <1>1, <1>2 DEF VersionsAreOld, L
    <3>2. ASSUME n = 1
          PROVE  heap'[L + 1].xmin < nextXid /\ heap'[L + 1].xmax < nextXid
                 /\ heap'[L + 1].row <= L + 1
      <4>1. NO_TRANSACTION < nextXid
        BY IdFacts DEF NO_TRANSACTION
      <4>2. row <= L + 1
        <5>1. CASE v = 0
          BY <5>1, <1>1 DEF L
        <5>2. CASE v # 0
          <6>1. row = heap[v].row /\ heap[v].row <= v /\ v \in 1 .. L /\ heap[v].row \in Nat
            BY <5>2, <1>8, <1>0, <1>1 DEF VersionsAreOld, L
          <6> QED BY <6>1, <1>1
        <5> QED BY <5>1, <5>2
      <4> QED BY <3>2, <4>1, <4>2, <1>4, <1>2
    <3> QED BY <1>3, <3>1, <3>2
  <2> QED BY <2>1 DEF VersionsAreOld, L
<1>12. UnfinishedIsThere'
  <2>1. ASSUME NEW w \in 1 .. L
        PROVE  /\ Runs(heap'[w].xmax) => heap'[w].there
               /\ heap'[w].there /\ Runs(heap'[w].xmin) => lock'[w] = heap'[w].xmin
               /\ heap'[w].there /\ Runs(heap'[w].xmax) => lock'[w] = heap'[w].xmax
    <3>1. CASE w # v
      BY <3>1, <1>0 DEF UnfinishedIsThere, L
    <3>2. CASE w = v
      <4>1. v # 0 /\ heap[v].there /\ heap[v].xmin # NO_TRANSACTION
        BY <3>2, <1>1, <1>7
      <4>2. Runs(heap[v].xmin) => heap[v].xmin = x
        BY <3>2, <4>1, <1>0 DEF UnfinishedIsThere, L
      <4> QED BY <3>2, <4>1, <4>2 DEF L
    <3> QED BY <3>1, <3>2
  <2>2. ASSUME n = 1
        PROVE  /\ Runs(heap'[L + 1].xmax) => heap'[L + 1].there
               /\ heap'[L + 1].there /\ Runs(heap'[L + 1].xmin) => lock'[L + 1] = heap'[L + 1].xmin
               /\ heap'[L + 1].there /\ Runs(heap'[L + 1].xmax) => lock'[L + 1] = heap'[L + 1].xmax
    BY <2>2, <1>4, <1>6 DEF L
  <2>3. \A w \in 1 .. L + n :
           /\ Runs(heap'[w].xmax) => heap'[w].there
           /\ heap'[w].there /\ Runs(heap'[w].xmin) => lock'[w] = heap'[w].xmin
           /\ heap'[w].there /\ Runs(heap'[w].xmax) => lock'[w] = heap'[w].xmax
    BY <2>1, <2>2, <1>3
  <2> QED BY <2>3, <1>5 DEF UnfinishedIsThere, L
<1>13. NothingAborted'
  <2>1. ASSUME NEW w \in 1 .. L
        PROVE  /\ heap'[w].there => fate[heap'[w].xmin] # "aborted"
               /\ heap'[w].xmax # NO_TRANSACTION =>
                    fate[heap'[w].xmax] # "aborted" \/ fate[heap'[w].xmin] = "aborted"
    <3>1. /\ heap'[w].there = heap[w].there /\ heap'[w].xmin = heap[w].xmin
          /\ heap'[w].xmax = IF w = v THEN x ELSE heap[w].xmax
      BY DEF L
    <3>2. /\ heap[w].there => fate[heap[w].xmin] # "aborted"
          /\ heap[w].xmax # NO_TRANSACTION =>
               fate[heap[w].xmax] # "aborted" \/ fate[heap[w].xmin] = "aborted"
      BY <1>0 DEF NothingAborted, L
    <3>3. fate[x] # "aborted"
      BY <1>2
    <3> HIDE DEF Stamps, x
    <3> QED BY <3>1, <3>2, <3>3
  <2>2. ASSUME n = 1
        PROVE  /\ fate[heap'[L + 1].xmin] # "aborted"
               /\ heap'[L + 1].xmax = NO_TRANSACTION
    BY <2>2, <1>4, <1>2
  <2>3. \A w \in 1 .. L + n :
           /\ heap'[w].there => fate[heap'[w].xmin] # "aborted"
           /\ heap'[w].xmax # NO_TRANSACTION =>
                fate[heap'[w].xmax] # "aborted" \/ fate[heap'[w].xmin] = "aborted"
    BY <2>1, <2>2, <1>3
  <2> QED BY <2>3 DEF NothingAborted, L
<1>14. RowsAreChains'
  <2> SUFFICES ASSUME NEW a \in 1 .. L + n, NEW b \in 1 .. L + n, a < b,
                      heap'[a].row = heap'[b].row,
                      fate[heap'[a].xmin] # "aborted", fate[heap'[b].xmin] # "aborted"
               PROVE  /\ heap'[a].xmax # NO_TRANSACTION
                      /\ fate[heap'[a].xmax] = "committed" \/ heap'[a].xmax = heap'[b].xmin
    BY DEF RowsAreChains, L
  <2>0. a \in 1 .. L
    BY <1>1, <1>3
  <2>1. CASE b \in 1 .. L
    <3>1. /\ heap[a].xmax # NO_TRANSACTION
          /\ fate[heap[a].xmax] = "committed" \/ heap[a].xmax = heap[b].xmin
      BY <2>0, <2>1, <1>0 DEF RowsAreChains, L
    <3>2. a # v
      BY <3>1, <2>0, <1>7
    <3> QED BY <3>1, <3>2, <2>0, <2>1 DEF L
  <2>2. CASE b = L + 1 /\ n = 1
    <3>1. heap[a].row = row /\ heap[a].row <= a /\ heap[a].row \in Nat /\ a < L + 1
          /\ fate[heap[a].xmin] # "aborted" /\ heap'[b].xmin = x
      BY <2>0, <2>2, <1>4, <1>0, <1>1, <1>7 DEF VersionsAreOld, L
    <3>2. v # 0 /\ v \in 1 .. L
      <4>1. row # L + 1
        BY <3>1, <2>0, <1>1
      <4> QED BY <4>1, <1>8 DEF L
    <3>3. row = heap[v].row /\ heap[v].there /\ heap[v].xmax = NO_TRANSACTION
          /\ lock[v] \in {NO_TRANSACTION, x} /\ fate[heap[v].xmin] # "aborted"
      BY <3>2, <1>0 DEF NothingAborted, L
    <3>4. CASE a = v
      BY <3>4, <3>1, <2>0, <1>2 DEF L
    <3>5. CASE a > v
      <4>1. v < a
        BY <3>5, <3>2, <2>0, <1>1
      <4> QED BY <4>1, <3>1, <3>2, <3>3, <2>0, <1>0 DEF RowsAreChains, L
    <3>6. CASE a < v
      <4>1. /\ heap[a].xmax # NO_TRANSACTION
            /\ fate[heap[a].xmax] = "committed" \/ heap[a].xmax = heap[v].xmin
        BY <3>6, <3>1, <3>2, <3>3, <2>0, <1>0 DEF RowsAreChains, L
      <4>2. heap'[a].xmax = heap[a].xmax
        BY <3>6, <3>2, <2>0, <1>1 DEF L
      <4>3. CASE heap[a].xmax = heap[v].xmin
        <5>1. heap[v].xmin \in Xids /\ heap[v].xmin < nextXid
          BY <3>2, <1>0, <1>1 DEF VersionsAreOld, L
        <5>2. fate[heap[v].xmin] = "committed" \/ Runs(heap[v].xmin)
          BY <5>1, <3>3, FateFacts
        <5>3. Runs(heap[v].xmin) => heap[v].xmin = x
          BY <3>2, <3>3, <1>0, <1>1 DEF UnfinishedIsThere, L
        <5> QED BY <4>1, <4>2, <4>3, <5>2, <5>3, <3>1
      <4> QED BY <4>1, <4>2, <4>3
    <3> QED BY <3>4, <3>5, <3>6, <3>2, <2>0, <1>1
  <2> QED BY <2>1, <2>2, <1>3
<1>15. IndexIsExact'
  <2>1. index = {w \in 1 .. L : heap[w].there /\ heap[w].xmax = NO_TRANSACTION}
    BY <1>0, <1>1 DEF IndexIsExact
  <2>2. \A w \in 1 .. L : (heap'[w].there /\ heap'[w].xmax = NO_TRANSACTION)
                          <=> (heap[w].there /\ heap[w].xmax = NO_TRANSACTION /\ w # v)
    BY DEF L
  <2>3. index' = {w \in 1 .. L + n : heap'[w].there /\ heap'[w].xmax = NO_TRANSACTION}
    <3>1. \A w : w \in L + 1 .. L + n <=> n = 1 /\ w = L + 1
      BY <1>1
    <3>2. \A w \in 1 .. L : w \in 1 .. L + n
      BY <1>1
    <3>3. n = 1 => L + 1 \in 1 .. L + n
      BY <1>1
    <3>4. \A w : w \in index' <=> (w \in index /\ w # v) \/ (n = 1 /\ w = L + 1)
      BY <3>1 DEF L
    <3>5. \A w : w \in index' <=>
             w \in 1 .. L + n /\ heap'[w].there /\ heap'[w].xmax = NO_TRANSACTION
      BY <2>1, <2>2, <3>2, <3>3, <3>4, <1>3, <1>4, <1>7
    <3> QED BY <3>5
  <2> QED BY <2>3, <1>3 DEF IndexIsExact
<1>16. OnlyDeadReclaimed'
  <2>1. \A w \in 1 .. L + n :
          ~heap'[w].there => \/ fate[heap'[w].xmin] = "aborted"
                             \/ heap'[w].xmax # NO_TRANSACTION /\ fate[heap'[w].xmax] = "committed"
    <3>1. ASSUME NEW w \in 1 .. L, ~heap'[w].there
          PROVE  \/ fate[heap'[w].xmin] = "aborted"
                 \/ heap'[w].xmax # NO_TRANSACTION /\ fate[heap'[w].xmax] = "committed"
      <4>1. w # v
        BY <3>1, <1>7 DEF L
      <4> QED BY <3>1, <4>1, <1>0, <1>1 DEF OnlyDeadReclaimed, L
    <3> QED BY <3>1, <1>3, <1>4
  <2> QED BY <2>1, <1>3 DEF OnlyDeadReclaimed
<1> QED BY <1>11, <1>12, <1>13, <1>14, <1>15, <1>16 DEF HeapInv
\* What rollback leaves of a version: x's own versions are gone, the versions
\* x had deleted are back.
LEMMA UndoneVersions ==
    ASSUME TypeOK, NEW s \in Sessions, NEW x, x = txn[s], RolledBack(s)
    PROVE  /\ heap' \in Seq(VersionSet) /\ Len(heap') = Len(heap)
           /\ DOMAIN heap' = 1 .. Len(heap)
           /\ \A w \in 1 .. Len(heap) :
                 /\ heap'[w].row = heap[w].row /\ heap'[w].xmin = heap[w].xmin
                 /\ heap[w].xmin = x =>
                       ~heap'[w].there /\ heap'[w].xmax = heap[w].xmax
                 /\ heap[w].xmin # x /\ heap[w].xmax = x =>
                       heap'[w].there /\ heap'[w].xmax = NO_TRANSACTION
                 /\ heap[w].xmin # x /\ heap[w].xmax # x => heap'[w] = heap[w]
<1> DEFINE L == Len(heap)
           undone(e) == IF e.xmin = x THEN [e EXCEPT !.there = FALSE]
                        ELSE IF e.xmax = x
                             THEN [e EXCEPT !.xmax = NO_TRANSACTION, !.there = TRUE] ELSE e
<1>1. L \in Nat /\ DOMAIN heap = 1 .. L /\ \A w \in 1 .. L : heap[w] \in VersionSet
  BY HeapFacts
<1>2. ASSUME NEW e \in VersionSet
      PROVE  /\ undone(e) \in VersionSet
             /\ undone(e).row = e.row /\ undone(e).xmin = e.xmin
             /\ e.xmin = x => ~undone(e).there /\ undone(e).xmax = e.xmax
             /\ e.xmin # x /\ e.xmax = x => undone(e).there /\ undone(e).xmax = NO_TRANSACTION
             /\ e.xmin # x /\ e.xmax # x => undone(e) = e
  <2>1. CASE e.xmin = x
    BY <2>1 DEF VersionSet
  <2>2. CASE e.xmin # x /\ e.xmax = x
    <3>1. 0 \in 0 .. MaxXid
      BY BoundsAssumption
    <3> QED BY <2>2, <3>1 DEF VersionSet, NO_TRANSACTION
  <2>3. CASE e.xmin # x /\ e.xmax # x
    BY <2>3
  <2> QED BY <2>1, <2>2, <2>3
<1>3. heap' = [w \in 1 .. L |-> undone(heap[w])]
  BY <1>1 DEF RolledBack
<1> HIDE DEF undone, L
<1>4. \A w \in 1 .. L : heap'[w] = undone(heap[w])
  BY <1>3
<1>5. heap' \in Seq(VersionSet) /\ Len(heap') = L /\ DOMAIN heap' = 1 .. L
  <2>1. \A w \in 1 .. L : undone(heap[w]) \in VersionSet
    BY <1>1, <1>2
  <2>2. heap' \in [1 .. L -> VersionSet]
    BY <1>3, <2>1
  <2> QED BY <1>1, <2>2, LenProperties
<1>6. ASSUME NEW w \in 1 .. L
      PROVE  /\ heap'[w].row = heap[w].row /\ heap'[w].xmin = heap[w].xmin
             /\ heap[w].xmin = x => ~heap'[w].there /\ heap'[w].xmax = heap[w].xmax
             /\ heap[w].xmin # x /\ heap[w].xmax = x =>
                   heap'[w].there /\ heap'[w].xmax = NO_TRANSACTION
             /\ heap[w].xmin # x /\ heap[w].xmax # x => heap'[w] = heap[w]
  BY <1>1, <1>2, <1>4
<1> QED BY <1>5, <1>6 DEF L

\* rollback: what x has done never happened.
LEMMA RolledBackHeap ==
    ASSUME TypeOK, IdsAreFresh, HeapInv, NEW s \in Sessions, txn[s] # NO_TRANSACTION,
           RolledBack(s)
    PROVE  HeapInv'
<1> DEFINE x == txn[s]
           L == Len(heap)
<1>0. /\ VersionsAreOld /\ UnfinishedIsThere /\ NothingAborted /\ RowsAreChains
      /\ IndexIsExact /\ OnlyDeadReclaimed
  BY DEF HeapInv
<1>1. /\ L \in Nat /\ DOMAIN heap = 1 .. L
      /\ \A w \in 1 .. L :
            /\ w \in Slots /\ heap[w].xmin \in Xids
            /\ heap[w].xmax # NO_TRANSACTION => heap[w].xmax \in Xids
  BY HeapFacts
<1>2. /\ x \in Xids /\ fate[x] = "running" /\ fate'[x] = "aborted" /\ Runs(x)
      /\ \A y \in Xids : y # x => fate'[y] = fate[y]
      /\ \A y : Runs(y)' => Runs(y) /\ y # x
      /\ \A v \in Slots : lock[v] # x => lock'[v] = lock[v]
  BY Ended DEF RolledBack
<1>3. nextXid' = nextXid /\ nextXid \in Nat /\ nextXid >= 1
  BY IdFacts DEF RolledBack, Retire
<1>4. /\ Len(heap') = L /\ DOMAIN heap' = 1 .. L
      /\ \A w \in 1 .. L :
            /\ heap'[w].row = heap[w].row /\ heap'[w].xmin = heap[w].xmin
            /\ heap[w].xmin = x => ~heap'[w].there /\ heap'[w].xmax = heap[w].xmax
            /\ heap[w].xmin # x /\ heap[w].xmax = x =>
                  heap'[w].there /\ heap'[w].xmax = NO_TRANSACTION
            /\ heap[w].xmin # x /\ heap[w].xmax # x => heap'[w] = heap[w]
  BY UndoneVersions
<1>5. index' = {v \in 1 .. L : heap[v].xmin # x /\ (v \in index \/ heap[v].xmax = x)}
  BY <1>1 DEF RolledBack
<1>6. x # NO_TRANSACTION
  OBVIOUS
<1> HIDE DEF x
<1>7. \A w \in 1 .. L : heap[w].xmax = x => heap[w].there
  BY <1>0, <1>2 DEF UnfinishedIsThere, L
<1>8. VersionsAreOld'
  <2>1. \A w \in 1 .. L : /\ heap'[w].xmin < nextXid /\ heap'[w].xmax < nextXid
                         /\ heap'[w].row <= w
    BY <1>0, <1>3, <1>4 DEF VersionsAreOld, L, NO_TRANSACTION
  <2> QED BY <2>1, <1>3, <1>4 DEF VersionsAreOld
<1>9. UnfinishedIsThere'
  <2>1. ASSUME NEW w \in 1 .. L, NEW y, Runs(y), y # x, heap'[w].xmax = y
        PROVE  heap'[w].there /\ lock'[w] = y
    <3>1. heap[w].xmax = y
      <4>1. y # NO_TRANSACTION
        BY <2>1 DEF Runs
      <4> QED BY <2>1, <4>1, <1>4
    <3>2. heap[w].there /\ lock[w] = y
      BY <3>1, <2>1, <1>0 DEF UnfinishedIsThere, L
    <3>3. heap[w].xmin # x
      BY <3>2, <2>1, <1>0, <1>2 DEF UnfinishedIsThere, L
    <3> QED BY <3>1, <3>2, <3>3, <2>1, <1>1, <1>2, <1>4
  <2>2. ASSUME NEW w \in 1 .. L, NEW y, Runs(y), y # x, heap'[w].xmin = y, heap'[w].there
        PROVE  lock'[w] = y
    <3>1. heap[w].xmin = y /\ heap[w].there
      BY <2>2, <1>4, <1>7
    <3>2. lock[w] = y
      BY <3>1, <2>2, <1>0 DEF UnfinishedIsThere, L
    <3> QED BY <3>2, <2>2, <1>1, <1>2
  <2>3. \A w \in 1 .. L :
           /\ Runs(heap[w].xmax)' => heap'[w].there
           /\ heap'[w].there /\ Runs(heap[w].xmin)' => lock'[w] = heap'[w].xmin
           /\ heap'[w].there /\ Runs(heap[w].xmax)' => lock'[w] = heap'[w].xmax
    BY <2>1, <2>2, <1>2
  <2> QED BY <2>3, <1>4 DEF UnfinishedIsThere
<1>10. NothingAborted'
  <2>1. ASSUME NEW w \in 1 .. L
        PROVE  /\ heap'[w].there => fate'[heap'[w].xmin] # "aborted"
               /\ heap'[w].xmax # NO_TRANSACTION =>
                    fate'[heap'[w].xmax] # "aborted" \/ fate'[heap'[w].xmin] = "aborted"
    <3>1. CASE heap[w].xmin = x
      BY <3>1, <1>2, <1>4
    <3>2. CASE heap[w].xmin # x /\ heap[w].xmax = x
      BY <3>2, <1>0, <1>1, <1>2, <1>4, <1>7 DEF NothingAborted, L
    <3>3. CASE heap[w].xmin # x /\ heap[w].xmax # x
      BY <3>3, <1>0, <1>1, <1>2, <1>4 DEF NothingAborted, L
    <3> QED BY <3>1, <3>2, <3>3
  <2> QED BY <2>1, <1>4 DEF NothingAborted
<1>11. RowsAreChains'
  <2>1. ASSUME NEW a \in 1 .. L, NEW b \in 1 .. L, a < b,
               heap'[a].row = heap'[b].row,
               fate'[heap'[a].xmin] # "aborted", fate'[heap'[b].xmin] # "aborted"
        PROVE  /\ heap'[a].xmax # NO_TRANSACTION
               /\ fate'[heap'[a].xmax] = "committed" \/ heap'[a].xmax = heap'[b].xmin
    <3>1. /\ heap[a].row = heap[b].row /\ heap[a].xmin # x /\ heap[b].xmin # x
          /\ fate[heap[a].xmin] # "aborted" /\ fate[heap[b].xmin] # "aborted"
          /\ heap'[b].xmin = heap[b].xmin
      BY <2>1, <1>1, <1>2, <1>4
    <3>2. /\ heap[a].xmax # NO_TRANSACTION
          /\ fate[heap[a].xmax] = "committed" \/ heap[a].xmax = heap[b].xmin
      BY <2>1, <3>1, <1>0 DEF RowsAreChains, L
    <3>3. heap[a].xmax # x
      BY <3>1, <3>2, <1>2
    <3> QED BY <3>1, <3>2, <3>3, <1>1, <1>2, <1>4
  <2> QED BY <2>1, <1>4 DEF RowsAreChains
<1>12. IndexIsExact'
  <2>1. index = {w \in 1 .. L : heap[w].there /\ heap[w].xmax = NO_TRANSACTION}
    BY <1>0, <1>1 DEF IndexIsExact
  <2>2. ASSUME NEW w \in 1 .. L
        PROVE  (heap'[w].there /\ heap'[w].xmax = NO_TRANSACTION)
               <=> (heap[w].xmin # x /\ (w \in index \/ heap[w].xmax = x))
    BY <2>1, <1>4, <1>6
  <2>3. index' = {w \in 1 .. L : heap'[w].there /\ heap'[w].xmax = NO_TRANSACTION}
    BY <2>2, <1>5
  <2> QED BY <2>3, <1>4 DEF IndexIsExact
<1>13. OnlyDeadReclaimed'
  <2>1. ASSUME NEW w \in 1 .. L, ~heap'[w].there
        PROVE  \/ fate'[heap'[w].xmin] = "aborted"
               \/ heap'[w].xmax # NO_TRANSACTION /\ fate'[heap'[w].xmax] = "committed"
    <3>1. CASE heap[w].xmin = x
      BY <3>1, <1>2, <1>4
    <3>2. CASE heap[w].xmin # x
      <4>1. heap[w].xmax # x /\ heap'[w] = heap[w]
        BY <2>1, <3>2, <1>4
      <4> QED BY <2>1, <3>2, <4>1, <1>0, <1>1, <1>2 DEF OnlyDeadReclaimed
    <3> QED BY <3>1, <3>2
  <2> QED BY <2>1, <1>4 DEF OnlyDeadReclaimed
<1> QED BY <1>8, <1>9, <1>10, <1>11, <1>12, <1>13 DEF HeapInv

\* A version a running transaction has deleted is not dead: the deleter's own
\* snapshot holds the horizon back.
LEMMA RunningIsNotDead ==
    ASSUME IInv, NEW w \in 1 .. Len(heap), Runs(heap[w].xmax)
    PROVE  ~is_dead(heap[w], oldest_snapshot_xmin)
<1>0. TypeOK /\ SnapshotsAreKept /\ ChangersHaveSnapshots
  BY DEF IInv
<1>1. PICK q \in Sessions : txn[q] = heap[w].xmax /\ txn[q] # NO_TRANSACTION
  BY DEF Runs
<1>2. snap[q] # NoSnapshot
  BY <1>0, <1>1 DEF ChangersHaveSnapshots
<1>3. oldest_snapshot_xmin <= snap[q].xmin /\ oldest_snapshot_xmin \in Nat
  BY <1>0, <1>2, HorizonIsLow
<1>4. snap[q].xmin <= txn[q]
  BY <1>0, <1>2 DEF SnapshotsAreKept, KeptBy
<1>5. snap[q].xmin \in Nat /\ txn[q] \in Nat
  BY <1>0, IdFacts DEF TypeOK, Snapshots
<1> QED BY <1>1, <1>3, <1>4, <1>5 DEF is_dead

\* vacuum: what it reclaims was deleted by a transaction that committed.
LEMMA VacuumedHeap ==
    ASSUME IInv, vacuum
    PROVE  HeapInv' /\ heap' \in Seq(VersionSet) /\ Len(heap') = Len(heap)
<1> DEFINE L == Len(heap)
           dead(w) == is_dead(heap[w], oldest_snapshot_xmin)
<1>0. /\ VersionsAreOld /\ UnfinishedIsThere /\ NothingAborted /\ RowsAreChains
      /\ IndexIsExact /\ OnlyDeadReclaimed /\ TypeOK /\ IdsAreFresh
  BY DEF IInv, HeapInv
<1>1. /\ L \in Nat /\ DOMAIN heap = 1 .. L
      /\ \A w \in 1 .. L :
            /\ heap[w].xmin \in Xids /\ heap[w] \in VersionSet
            /\ heap[w].xmax # NO_TRANSACTION => heap[w].xmax \in Xids
  BY <1>0, HeapFacts
<1>2. UNCHANGED <<nextXid, txn, index, lock, fate>>
  BY DEF vacuum
<1>3. heap' = [w \in 1 .. L |-> IF dead(w) THEN [heap[w] EXCEPT !.there = FALSE] ELSE heap[w]]
  BY <1>1 DEF vacuum
<1>4. \A w \in 1 .. L : dead(w) => heap[w].xmax # NO_TRANSACTION /\ ~Runs(heap[w].xmax)
  BY RunningIsNotDead DEF is_dead
<1> HIDE DEF dead, L
<1>5. \A e \in VersionSet :
         /\ [e EXCEPT !.there = FALSE] \in VersionSet
         /\ [e EXCEPT !.there = FALSE].row = e.row /\ [e EXCEPT !.there = FALSE].xmin = e.xmin
         /\ [e EXCEPT !.there = FALSE].xmax = e.xmax /\ ~[e EXCEPT !.there = FALSE].there
  BY DEF VersionSet
<1>6. ASSUME NEW w \in 1 .. L
      PROVE  /\ heap'[w] \in VersionSet
             /\ heap'[w].row = heap[w].row /\ heap'[w].xmin = heap[w].xmin
             /\ heap'[w].xmax = heap[w].xmax
             /\ heap'[w].there <=> heap[w].there /\ ~dead(w)
  BY <1>1, <1>3, <1>5
<1>7. heap' \in Seq(VersionSet) /\ Len(heap') = L /\ DOMAIN heap' = 1 .. L
  <2>1. heap' \in [1 .. L -> VersionSet]
    BY <1>3, <1>6
  <2> QED BY <1>1, <2>1, LenProperties
<1>8. \A y : Runs(y)' <=> Runs(y)
  BY <1>2 DEF Runs
<1>9. VersionsAreOld' /\ NothingAborted'
  BY <1>0, <1>2, <1>6, <1>7 DEF VersionsAreOld, NothingAborted, L
<1>10. UnfinishedIsThere'
  BY <1>0, <1>2, <1>4, <1>6, <1>7, <1>8 DEF UnfinishedIsThere, L
<1>11. RowsAreChains'
  BY <1>0, <1>2, <1>6, <1>7 DEF RowsAreChains, L
<1>12. IndexIsExact'
  <2>1. index = {w \in 1 .. L : heap[w].there /\ heap[w].xmax = NO_TRANSACTION}
    BY <1>0, <1>1 DEF IndexIsExact
  <2>2. index = {w \in 1 .. L : heap'[w].there /\ heap'[w].xmax = NO_TRANSACTION}
    BY <2>1, <1>4, <1>6
  <2> QED BY <2>2, <1>2, <1>7 DEF IndexIsExact
<1>13. OnlyDeadReclaimed'
  <2>1. ASSUME NEW w \in 1 .. L, ~heap'[w].there
        PROVE  \/ fate[heap[w].xmin] = "aborted"
               \/ heap[w].xmax # NO_TRANSACTION /\ fate[heap[w].xmax] = "committed"
    <3>1. CASE ~heap[w].there
      BY <3>1, <1>0, <1>1 DEF OnlyDeadReclaimed
    <3>2. CASE dead(w)
      <4>1. heap[w].xmax \in Xids /\ heap[w].xmax < nextXid
        BY <3>2, <1>0, <1>1, <1>4 DEF VersionsAreOld, L
      <4>2. fate[heap[w].xmax] = "committed" \/ fate[heap[w].xmax] = "aborted"
        BY <3>2, <4>1, <1>0, <1>4, FateFacts
      <4> QED BY <3>2, <4>2, <1>0, <1>4 DEF NothingAborted, L
    <3> QED BY <2>1, <3>1, <3>2, <1>6
  <2> QED BY <2>1, <1>2, <1>6, <1>7 DEF OnlyDeadReclaimed
<1> QED BY <1>7, <1>9, <1>10, <1>11, <1>12, <1>13 DEF HeapInv, L

---------------------------------------------------------------------------
(* Every step preserves the invariant.                                     *)

\* What a statement's change to the rows guarantees: sound versions, the old
\* ones as they were but for an xmax of the transaction's own, and new ones only
\* of its own.
ChangedBy(x) ==
    /\ HeapInv'
    /\ heap' \in Seq(VersionSet)
    /\ Len(heap) <= Len(heap') /\ Len(heap') <= MaxVersions
    /\ lock' \in [Slots -> 0 .. MaxXid]
    /\ \A v \in 1 .. Len(heap') :
          \/ /\ v \in 1 .. Len(heap)
             /\ heap'[v].xmin = heap[v].xmin /\ heap'[v].there = heap[v].there
             /\ \/ heap'[v].xmax = heap[v].xmax
                \/ heap[v].xmax = NO_TRANSACTION /\ heap'[v].xmax = x
          \/ /\ v \notin 1 .. Len(heap)
             /\ heap'[v].xmin = x /\ heap'[v].xmax = NO_TRANSACTION

\* A statement that leaves the rows alone, and takes a lock at most.
LEMMA SameRows ==
    ASSUME TypeOK, HeapInv, NEW x \in 0 .. MaxXid, NEW v \in Slots,
           UNCHANGED <<heap, index, fate, txn, nextXid>>,
           lock' = lock \/ lock' = [lock EXCEPT ![v] = x],
           lock[v] \in {NO_TRANSACTION, x}
    PROVE  ChangedBy(x)
<1>1. lock \in [Slots -> 0 .. MaxXid]
  BY DEF TypeOK
<1>2. \A w \in 1 .. Len(heap) : Runs(lock[w]) => lock'[w] = lock[w]
  <2>1. \A w \in 1 .. Len(heap) : w \in Slots
    BY HeapFacts
  <2> QED BY <1>1, <2>1 DEF Runs
<1>3. nextXid \in Nat /\ nextXid' = nextXid
  BY IdFacts
<1>4. HeapInv'
  <2>1. \A y : Runs(y)' <=> Runs(y)
    BY DEF Runs
  <2>2. ~Runs(NO_TRANSACTION)'
    BY DEF Runs
  <2>3. nextXid' \in Nat /\ nextXid <= nextXid'
    BY <1>3
  <2> QED BY <1>2, <2>1, <2>2, <2>3, SameHeap
<1>5. Len(heap) \in Nat /\ Len(heap) <= MaxVersions /\ heap \in Seq(VersionSet)
  BY HeapFacts
<1> QED BY <1>1, <1>4, <1>5 DEF ChangedBy

\* A new version is a version.
LEMMA NewVersion ==
    ASSUME NEW x \in Xids, NEW row \in Slots
    PROVE  Version(row, x) \in VersionSet
<1>1. 0 \in 0 .. MaxXid
  BY BoundsAssumption
<1> QED BY <1>1 DEF VersionSet, Version, NO_TRANSACTION

\* A version with its xmax stamped differs in nothing else.
LEMMA StampedVersion ==
    ASSUME NEW x \in Xids, NEW e \in VersionSet
    PROVE  /\ [e EXCEPT !.xmax = x] \in VersionSet
           /\ [e EXCEPT !.xmax = x].row = e.row /\ [e EXCEPT !.xmax = x].xmin = e.xmin
           /\ [e EXCEPT !.xmax = x].there = e.there /\ [e EXCEPT !.xmax = x].xmax = x
<1>1. x \in 0 .. MaxXid
  BY BoundsAssumption DEF Xids
<1> QED BY <1>1 DEF VersionSet

\* insert adds the first version of a row, under the inserter's lock.
LEMMA Inserted ==
    ASSUME TypeOK, IdsAreFresh, HeapInv, NEW s \in Sessions, insert(s)
    PROVE  ChangedBy(txn[s])
<1> DEFINE x == txn[s]
           L == Len(heap)
<1>1. /\ L \in Nat /\ heap \in Seq(VersionSet) /\ L + 1 \in Slots /\ L + 1 <= MaxVersions
      /\ lock \in [Slots -> 0 .. MaxXid]
  <2>1. L + 1 <= MaxVersions /\ L \in Nat /\ heap \in Seq(VersionSet)
    BY HeapFacts DEF insert
  <2>2. L + 1 \in Slots
    BY <2>1, BoundsAssumption DEF Slots
  <2> QED BY <2>1, <2>2 DEF TypeOK
<1>2. x \in Xids /\ x # NO_TRANSACTION /\ x \in 0 .. MaxXid
  <2>1. x # NO_TRANSACTION /\ txn \in [Sessions -> 0 .. MaxXid]
    BY DEF insert, CanRun, TypeOK
  <2> QED BY <2>1, IdFacts
<1>3. /\ heap' = Append(heap, Version(L + 1, x)) /\ lock' = [lock EXCEPT ![L + 1] = x]
      /\ index' = index \union {L + 1} /\ UNCHANGED <<fate, txn, nextXid>>
  BY DEF insert
<1>4. Version(L + 1, x) \in VersionSet
  BY <1>1, <1>2, NewVersion
<1>5. /\ heap' \in Seq(VersionSet) /\ Len(heap') = L + 1
      /\ heap'[L + 1] = Version(L + 1, x) /\ \A w \in 1 .. L : heap'[w] = heap[w]
  BY <1>1, <1>3, <1>4, AppendProperties
<1>6. lock' \in [Slots -> 0 .. MaxXid] /\ lock'[L + 1] = x /\ \A w \in 1 .. L : lock'[w] = lock[w]
  BY <1>1, <1>2, <1>3 DEF Slots
<1>7. HeapInv'
  <2>1. index' = (index \ {0}) \union (L + 1 .. L + 1)
    <3>1. L + 1 .. L + 1 = {L + 1}
      BY <1>1
    <3>2. index \subseteq Slots
      BY DEF TypeOK
    <3>3. 0 \notin Slots
      BY BoundsAssumption DEF Slots
    <3> QED BY <3>1, <3>2, <3>3, <1>3
  <2>2. \A w \in 1 .. L : w # 0
    BY <1>1
  <2>3. 0 \in 0 .. L
    BY <1>1
  <2>4. Stamps(x, 1, L + 1, 0)
    BY <1>3, <1>5, <1>6, <2>1, <2>2 DEF Stamps
  <2> QED BY <1>2, <1>3, <2>3, <2>4, ChangedHeap
<1>8. /\ \A v \in 1 .. L + 1 : (v = L + 1 /\ v \notin 1 .. L) \/ v \in 1 .. L
      /\ heap'[L + 1].xmin = x /\ heap'[L + 1].xmax = NO_TRANSACTION
  BY <1>1, <1>5 DEF Version
<1> QED BY <1>1, <1>5, <1>6, <1>7, <1>8 DEF ChangedBy

\* delete and update, once the lock is the transaction's: the version is read
\* again, and changed if it is live.
LEMMA Applied ==
    ASSUME TypeOK, IdsAreFresh, HeapInv, NEW s \in Sessions, txn[s] # NO_TRANSACTION,
           NEW change, change.slot \in 1 .. Len(heap),
           lock[change.slot] \in {NO_TRANSACTION, txn[s]},
           ApplyClaimed(txn[s], change), UNCHANGED <<fate, txn, nextXid>>
    PROVE  ChangedBy(txn[s])
<1> DEFINE x == txn[s]
           L == Len(heap)
           v == change.slot
           stamped == [heap EXCEPT ![v].xmax = x]
<1>1. /\ L \in Nat /\ heap \in Seq(VersionSet) /\ L <= MaxVersions /\ v \in Slots
      /\ DOMAIN heap = 1 .. L /\ heap[v] \in VersionSet /\ lock \in [Slots -> 0 .. MaxXid]
  BY HeapFacts DEF TypeOK
<1>2. x \in Xids /\ x \in 0 .. MaxXid
  BY IdFacts DEF TypeOK
<1>3. CASE ~(heap[v].there /\ heap[v].xmax = NO_TRANSACTION)
  BY <1>1, <1>2, <1>3, SameRows DEF ApplyClaimed, rows
<1>4. CASE heap[v].there /\ heap[v].xmax = NO_TRANSACTION
  <2>1. Apply(x, change)
    BY <1>4 DEF ApplyClaimed
  <2>2. /\ [heap[v] EXCEPT !.xmax = x] \in VersionSet
        /\ [heap[v] EXCEPT !.xmax = x].row = heap[v].row
        /\ [heap[v] EXCEPT !.xmax = x].xmin = heap[v].xmin
        /\ [heap[v] EXCEPT !.xmax = x].there = heap[v].there
        /\ [heap[v] EXCEPT !.xmax = x].xmax = x
        /\ heap[v].row \in Slots /\ Version(heap[v].row, x) \in VersionSet
    <3>1. heap[v].row \in Slots
      BY <1>1 DEF VersionSet
    <3> QED BY <3>1, <1>1, <1>2, NewVersion, StampedVersion
  <2>3. /\ stamped \in Seq(VersionSet) /\ Len(stamped) = L
        /\ \A w \in 1 .. L : stamped[w] = IF w = v THEN [heap[v] EXCEPT !.xmax = x] ELSE heap[w]
    <3>1. stamped = [heap EXCEPT ![v] = [heap[v] EXCEPT !.xmax = x]]
      OBVIOUS
    <3> HIDE DEF stamped
    <3> QED BY <1>1, <2>2, <3>1, ExceptSeq
  <2> HIDE DEF stamped
  <2>4. \A w \in 1 .. L :
           /\ stamped[w].row = heap[w].row /\ stamped[w].xmin = heap[w].xmin
           /\ stamped[w].there = heap[w].there
           /\ stamped[w].xmax = IF w = v THEN x ELSE heap[w].xmax
    BY <2>2, <2>3
  <2>5. v \in 0 .. L /\ v # 0
    BY <1>1
  <2>6. CASE change.kind = "delete"
    <3>1. heap' = stamped /\ index' = index \ {v} /\ lock' = [lock EXCEPT ![v] = x]
      BY <2>1, <2>6 DEF Apply, stamped
    <3>2. \A w \in 1 .. L : lock'[w] = IF w = v THEN x ELSE lock[w]
      BY <3>1, <1>1 DEF Slots
    <3>3. index' = (index \ {v}) \union (L + 1 .. L + 0) /\ L = L + 0
      BY <3>1, <1>1
    <3>4. HeapInv'
      <4>1. Stamps(x, 0, heap[v].row, v)
        BY <1>4, <2>3, <2>4, <2>5, <3>1, <3>2, <3>3 DEF Stamps
      <4> QED BY <2>5, <4>1, ChangedHeap
    <3>5. lock' \in [Slots -> 0 .. MaxXid]
      BY <3>1, <1>1, <1>2
    <3> QED BY <1>1, <1>4, <2>3, <2>4, <3>1, <3>4, <3>5 DEF ChangedBy
  <2>7. CASE change.kind # "delete"
    <3>1. /\ heap' = Append(stamped, Version(heap[v].row, x))
          /\ index' = (index \ {v}) \union {L + 1}
          /\ lock' = [lock EXCEPT ![v] = x, ![L + 1] = x] /\ L + 1 <= MaxVersions
      BY <2>1, <2>7 DEF Apply, stamped
    <3>2. L + 1 \in Slots
      BY <3>1, <1>1, BoundsAssumption DEF Slots
    <3>3. /\ heap' \in Seq(VersionSet) /\ Len(heap') = L + 1
          /\ heap'[L + 1] = Version(heap[v].row, x)
          /\ \A w \in 1 .. L : heap'[w] = stamped[w]
      BY <2>2, <2>3, <3>1, AppendProperties
    <3>4. /\ \A w \in 1 .. L : lock'[w] = IF w = v THEN x ELSE lock[w]
          /\ lock'[L + 1] = x /\ lock' \in [Slots -> 0 .. MaxXid]
      <4> DEFINE new == L + 1
      <4>1. /\ lock' = [lock EXCEPT ![v] = x, ![new] = x] /\ new \in Slots
            /\ \A w \in 1 .. L : w # new /\ w \in Slots
        BY <3>1, <3>2, <1>1, HeapFacts
      <4> HIDE DEF new
      <4>2. /\ \A w \in 1 .. L : lock'[w] = IF w = v THEN x ELSE lock[w]
            /\ lock'[new] = x /\ lock' \in [Slots -> 0 .. MaxXid]
        BY <4>1, <1>1, <1>2
      <4> QED BY <4>2 DEF new
    <3>5. index' = (index \ {v}) \union (L + 1 .. L + 1)
      <4>1. L + 1 .. L + 1 = {L + 1}
        BY <1>1
      <4> QED BY <3>1, <4>1
    <3>6. HeapInv'
      <4>1. Stamps(x, 1, heap[v].row, v)
        BY <1>4, <2>4, <2>5, <3>3, <3>4, <3>5 DEF Stamps
      <4> QED BY <2>5, <4>1, ChangedHeap
    <3>7. \A w \in 1 .. L + 1 :
             \/ /\ w \in 1 .. L
                /\ heap'[w].xmin = heap[w].xmin /\ heap'[w].there = heap[w].there
                /\ \/ heap'[w].xmax = heap[w].xmax
                   \/ heap[w].xmax = NO_TRANSACTION /\ heap'[w].xmax = x
             \/ /\ w \notin 1 .. L
                /\ heap'[w].xmin = x /\ heap'[w].xmax = NO_TRANSACTION
      <4>1. \A w \in 1 .. L + 1 : (w = L + 1 /\ w \notin 1 .. L) \/ w \in 1 .. L
        BY <1>1
      <4>2. heap'[L + 1].xmin = x /\ heap'[L + 1].xmax = NO_TRANSACTION
        BY <3>3 DEF Version
      <4> QED BY <4>1, <4>2, <2>4, <3>3, <1>4
    <3>8. L <= L + 1
      BY <1>1
    <3> QED BY <3>1, <3>3, <3>4, <3>6, <3>7, <3>8 DEF ChangedBy
  <2> QED BY <2>6, <2>7
<1> QED BY <1>3, <1>4
\* A statement that does not touch the rows.
LEMMA NothingDone ==
    ASSUME TypeOK, HeapInv, NEW x, UNCHANGED <<heap, index, lock, fate, txn, nextXid>>
    PROVE  ChangedBy(x)
<1>1. HeapInv'
  <2>1. \A y : Runs(y)' <=> Runs(y)
    BY DEF Runs
  <2>2. ~Runs(NO_TRANSACTION)'
    BY DEF Runs
  <2>3. nextXid' \in Nat /\ nextXid <= nextXid'
    BY IdFacts
  <2> QED BY <2>1, <2>2, <2>3, SameHeap
<1>2. /\ Len(heap) \in Nat /\ Len(heap) <= MaxVersions /\ heap \in Seq(VersionSet)
      /\ lock \in [Slots -> 0 .. MaxXid]
  BY HeapFacts DEF TypeOK
<1> QED BY <1>1, <1>2 DEF ChangedBy

\* No change is a change.
LEMMA NoChangeType == NoChange \in Changes /\ NoSnapshot \in Snapshots
<1>1. 0 \in 0 .. MaxVersions /\ 0 \in 0 .. MaxXid
  BY BoundsAssumption
<1> QED BY <1>1 DEF NoChange, Changes, NoSnapshot, Snapshots, NO_TRANSACTION

\* A statement of session s: its snapshot, its changes and its wait.
StatementOf(s) ==
    /\ UNCHANGED <<nextXid, frozen, txn, level, fate>>
    /\ snap' = snap \/ snap' = [snap EXCEPT ![s] = snapshot_for(s)]
    /\ ChangedBy(txn[s])
    /\ snap'[s] # NoSnapshot \/ heap' = heap
    /\ failed' \in [Sessions -> BOOLEAN]
    /\ raised' \in [Sessions -> BOOLEAN]
    /\ waiting' \in [Sessions -> Changes]
    /\ \A q \in Sessions :
          \/ waiting'[q] \in {NoChange, waiting[q]}
          \/ q = s /\ snap'[s] # NoSnapshot /\ waiting'[q].slot \in 1 .. Len(heap)

\* Statements preserve the invariant: a session that stamps a version, or
\* begins to wait, has just taken its snapshot.
LEMMA StatementInv ==
    ASSUME IInv, NEW s \in Sessions, txn[s] # NO_TRANSACTION, StatementOf(s)
    PROVE  IInv'
<1>0. TypeOK /\ IdsAreFresh /\ HeapInv /\ SnapshotsAreKept /\ ChangersHaveSnapshots
  BY DEF IInv
<1>1. /\ UNCHANGED <<nextXid, frozen, txn, level, fate>>
      /\ snap' = snap \/ snap' = [snap EXCEPT ![s] = snapshot_for(s)]
      /\ snap'[s] # NoSnapshot \/ heap' = heap
      /\ HeapInv' /\ heap' \in Seq(VersionSet)
      /\ Len(heap) <= Len(heap') /\ Len(heap') <= MaxVersions
  BY DEF StatementOf, ChangedBy
<1>2. /\ snap' \in [Sessions -> Snapshots] /\ SnapshotsAreKept'
      /\ \A q \in Sessions : snap[q] # NoSnapshot => snap'[q] # NoSnapshot
  BY <1>0, <1>1, SnapStep
<1>3. IdsAreFresh'
  <2>1. \A x : Runs(x)' <=> Runs(x)
    BY <1>1 DEF Runs
  <2> QED BY <1>0, <1>1, <2>1 DEF IdsAreFresh
<1>4. Len(heap) \in Nat /\ Len(heap') \in Nat /\ DOMAIN heap' = 1 .. Len(heap') /\ MaxVersions \in Nat
  BY <1>0, <1>1, HeapFacts, LenProperties, IdFacts
<1>5. TypeOK'
  <2>1. index' \subseteq Slots
    <3>1. index' \subseteq DOMAIN heap'
      BY <1>1 DEF HeapInv, IndexIsExact
    <3>2. \A v \in 1 .. Len(heap') : v \in 1 .. MaxVersions
      BY <1>1, <1>4
    <3> QED BY <3>1, <3>2, <1>4 DEF Slots
  <2>2. /\ lock' \in [Slots -> 0 .. MaxXid] /\ failed' \in [Sessions -> BOOLEAN]
        /\ raised' \in [Sessions -> BOOLEAN] /\ waiting' \in [Sessions -> Changes]
    BY DEF StatementOf, ChangedBy
  <2>3. /\ nextXid' \in 1 .. MaxXid + 1 /\ frozen' \in 1 .. nextXid' /\ txn' \in [Sessions -> 0 .. MaxXid]
        /\ level' \in [Sessions -> {"read committed", "repeatable read"}]
        /\ fate' \in [Xids -> {"unused", "running", "committed", "aborted"}]
    BY <1>0, <1>1 DEF TypeOK
  <2> QED BY <1>1, <1>2, <2>1, <2>2, <2>3 DEF TypeOK, VersionSet
<1>6. ASSUME NEW q \in Sessions, waiting'[q] # NoChange
      PROVE  snap'[q] # NoSnapshot /\ txn[q] # NO_TRANSACTION /\ waiting'[q].slot \in 1 .. Len(heap')
  <2>1. \A v \in 1 .. Len(heap) : v \in 1 .. Len(heap')
    BY <1>1, <1>4
  <2>2. CASE waiting'[q] = waiting[q]
    BY <1>6, <2>1, <2>2, <1>0, <1>2 DEF ChangersHaveSnapshots
  <2>3. CASE q = s /\ snap'[s] # NoSnapshot /\ waiting'[q].slot \in 1 .. Len(heap)
    BY <2>1, <2>3
  <2> QED BY <1>6, <2>2, <2>3 DEF StatementOf
<1>7. ASSUME NEW q \in Sessions, NEW v \in 1 .. Len(heap'), heap'[v].xmax = txn[q],
             txn[q] # NO_TRANSACTION
      PROVE  snap'[q] # NoSnapshot
  <2>1. \/ heap'[v].xmax \in {NO_TRANSACTION, txn[s]}
        \/ v \in 1 .. Len(heap) /\ heap'[v].xmax = heap[v].xmax
    BY DEF StatementOf, ChangedBy
  <2>2. CASE v \in 1 .. Len(heap) /\ heap'[v].xmax = heap[v].xmax
    BY <1>0, <1>2, <1>7, <2>2 DEF ChangersHaveSnapshots
  <2>3. CASE heap'[v].xmax = txn[s] /\ snap'[s] # NoSnapshot
    BY <1>0, <1>7, <2>3 DEF IdsAreFresh
  <2>4. CASE heap' = heap
    BY <1>0, <1>2, <1>7, <2>4 DEF ChangersHaveSnapshots
  <2> QED BY <1>1, <1>7, <2>1, <2>2, <2>3, <2>4
<1>8. ChangersHaveSnapshots'
  BY <1>1, <1>6, <1>7 DEF ChangersHaveSnapshots
<1> QED BY <1>1, <1>2, <1>3, <1>5, <1>8 DEF IInv

\* A query is such a statement: it takes a snapshot and changes nothing.
LEMMA QueryIsStatement ==
    ASSUME IInv, NEW s \in Sessions, Query(s)
    PROVE  StatementOf(s) /\ txn[s] # NO_TRANSACTION
<1>0. TypeOK /\ IdsAreFresh /\ HeapInv /\ SnapshotsAreKept /\ txn[s] # NO_TRANSACTION
  BY DEF IInv, Query, CanRun
<1>1. /\ UNCHANGED <<nextXid, frozen, txn, level, fate, failed, raised, waiting, heap, index, lock>>
      /\ snap' = [snap EXCEPT ![s] = snapshot_for(s)]
  BY DEF Query, rows
<1>2. ChangedBy(txn[s])
  BY <1>0, <1>1, NothingDone
<1>3. StatementOf(s)
  BY <1>0, <1>1, <1>2 DEF StatementOf, TypeOK
<1> QED BY <1>0, <1>3

\* insert takes a snapshot and adds a version.
LEMMA InsertIsStatement ==
    ASSUME ~ByAddress, IInv, NEW s \in Sessions, insert(s)
    PROVE  StatementOf(s) /\ txn[s] # NO_TRANSACTION
<1>0. TypeOK /\ IdsAreFresh /\ HeapInv /\ SnapshotsAreKept /\ txn[s] # NO_TRANSACTION
  BY DEF IInv, insert, CanRun
<1>1. /\ UNCHANGED <<nextXid, frozen, txn, level, fate, failed, raised, waiting>>
      /\ snap' = [snap EXCEPT ![s] = snapshot_for(s)]
  BY DEF insert
<1>2. ChangedBy(txn[s])
  BY <1>0, Inserted
<1>3. snap'[s] # NoSnapshot
  BY <1>0, <1>1, SnapStep
<1>4. StatementOf(s)
  BY <1>0, <1>1, <1>2, <1>3 DEF StatementOf, TypeOK
<1> QED BY <1>0, <1>4

\* A delete or update takes a snapshot, then changes the row, leaves it or waits.
LEMMA ChangeIsStatement ==
    ASSUME ~ByAddress, IInv, NEW s \in Sessions,
           NEW change \in [kind : {"delete", "update"}, slot : Slots], Change(s, change)
    PROVE  StatementOf(s) /\ txn[s] # NO_TRANSACTION
<1> DEFINE v == change.slot
<1>0. TypeOK /\ IdsAreFresh /\ HeapInv /\ SnapshotsAreKept /\ txn[s] # NO_TRANSACTION
  BY DEF IInv, Change, CanRun
<1>1. /\ UNCHANGED <<nextXid, frozen, txn, level, fate, failed, raised>>
      /\ snap' = [snap EXCEPT ![s] = snapshot_for(s)] /\ v \in DOMAIN heap
  BY DEF Change
<1>2. v \in 1 .. Len(heap) /\ v \in Slots
  BY <1>0, <1>1, HeapFacts
<1>3. snap'[s] # NoSnapshot
  BY <1>0, <1>1, SnapStep
<1>4. /\ failed' \in [Sessions -> BOOLEAN] /\ raised' \in [Sessions -> BOOLEAN]
      /\ waiting \in [Sessions -> Changes]
  BY <1>0, <1>1 DEF TypeOK
<1>5. CASE waiting' = waiting
  <2>1. ChangedBy(txn[s])
    <3>1. CASE UNCHANGED <<rows, lock>>
      BY <3>1, <1>0, <1>1, NothingDone DEF rows
    <3>2. CASE lock[v] \in {NO_TRANSACTION, txn[s]} /\ ApplyClaimed(txn[s], change)
      BY <3>2, <1>0, <1>1, <1>2, Applied
    <3> QED BY <1>5, <3>1, <3>2 DEF Change
  <2> QED BY <1>0, <1>1, <1>3, <1>4, <1>5, <2>1 DEF StatementOf
<1>6. CASE waiting' = [waiting EXCEPT ![s] = change] /\ UNCHANGED <<rows, lock>>
  <2>1. ChangedBy(txn[s])
    BY <1>6, <1>0, <1>1, NothingDone DEF rows
  <2>2. change \in Changes
    <3>1. \A w \in Slots : w \in 0 .. MaxVersions
      BY BoundsAssumption DEF Slots
    <3> QED BY <3>1 DEF Changes
  <2>3. waiting' \in [Sessions -> Changes]
    BY <1>4, <1>6, <2>2
  <2>4. \A q \in Sessions : waiting'[q] = waiting[q] \/ (q = s /\ waiting'[q] = change)
    BY <1>4, <1>6
  <2> QED BY <1>0, <1>1, <1>2, <1>3, <1>4, <2>1, <2>3, <2>4 DEF StatementOf
<1> QED BY <1>5, <1>6 DEF Change

\* A wait that ends in a grant: the snapshot is the one the statement began with.
LEMMA GrantedIsStatement ==
    ASSUME IInv, NEW s \in Sessions, Granted(s)
    PROVE  StatementOf(s) /\ txn[s] # NO_TRANSACTION
<1>0. /\ TypeOK /\ IdsAreFresh /\ HeapInv /\ SnapshotsAreKept /\ txn[s] # NO_TRANSACTION
      /\ snap[s] # NoSnapshot /\ waiting[s].slot \in 1 .. Len(heap)
  BY DEF IInv, Granted, ChangersHaveSnapshots
<1>1. /\ UNCHANGED <<nextXid, frozen, txn, level, snap, failed, raised, fate>>
      /\ waiting' = [waiting EXCEPT ![s] = NoChange]
  BY DEF Granted
<1>2. ChangedBy(txn[s])
  BY <1>0, <1>1, Applied DEF Granted
<1>3. waiting' \in [Sessions -> Changes] /\ \A q \in Sessions : waiting'[q] \in {NoChange, waiting[q]}
  BY <1>0, <1>1, NoChangeType DEF TypeOK
<1>4. StatementOf(s)
  BY <1>0, <1>1, <1>2, <1>3 DEF StatementOf, TypeOK
<1> QED BY <1>0, <1>4

\* A statement that raises leaves the rows alone.
LEMMA RaiseIsStatement ==
    ASSUME IInv, NEW s \in Sessions, Raise(s)
    PROVE  StatementOf(s) /\ txn[s] # NO_TRANSACTION
<1>0. TypeOK /\ IdsAreFresh /\ HeapInv /\ SnapshotsAreKept /\ txn[s] # NO_TRANSACTION
  BY DEF IInv, Raise
<1>1. /\ UNCHANGED <<nextXid, frozen, txn, level, heap, index, lock, fate>>
      /\ waiting' = [waiting EXCEPT ![s] = NoChange] /\ raised' = [raised EXCEPT ![s] = TRUE]
      /\ snap' = snap \/ snap' = [snap EXCEPT ![s] = snapshot_for(s)]
      /\ failed' = [failed EXCEPT ![DEFAULT_SESSION] = failed[DEFAULT_SESSION]
                                                    \/ txn[DEFAULT_SESSION] # NO_TRANSACTION]
  BY DEF Raise, rows
<1>2. ChangedBy(txn[s])
  BY <1>0, <1>1, NothingDone
<1>3. waiting' \in [Sessions -> Changes] /\ \A q \in Sessions : waiting'[q] \in {NoChange, waiting[q]}
  BY <1>0, <1>1, NoChangeType DEF TypeOK
<1>4. failed' \in [Sessions -> BOOLEAN] /\ raised' \in [Sessions -> BOOLEAN]
  BY <1>0, <1>1 DEF TypeOK
<1>5. StatementOf(s)
  BY <1>0, <1>1, <1>2, <1>3, <1>4 DEF StatementOf
<1> QED BY <1>0, <1>5
\* The steps that are statements.
Statement(s) == Query(s) \/ insert(s) \/ ChangeOf(s) \/ Granted(s) \/ Raise(s)

\* Each of them is a statement in the sense above.
LEMMA StatementIs ==
    ASSUME ~ByAddress, IInv, NEW s \in Sessions, Statement(s)
    PROVE  StatementOf(s) /\ txn[s] # NO_TRANSACTION
<1>1. CASE ChangeOf(s)
  <2>1. PICK kind \in {"delete", "update"}, v \in Slots : Change(s, [kind |-> kind, slot |-> v])
    BY <1>1 DEF ChangeOf
  <2>2. [kind |-> kind, slot |-> v] \in [kind : {"delete", "update"}, slot : Slots]
    OBVIOUS
  <2> QED BY <2>1, <2>2, ChangeIsStatement
<1> QED BY <1>1, QueryIsStatement, InsertIsStatement, GrantedIsStatement, RaiseIsStatement
        DEF Statement

\* begin: the new id is above every id in use, and outside every snapshot.
LEMMA BeginInv ==
    ASSUME IInv, NEW s \in Sessions, NEW iso \in Levels, begin(s, iso)
    PROVE  IInv'
<1>0. TypeOK /\ IdsAreFresh /\ HeapInv /\ SnapshotsAreKept /\ ChangersHaveSnapshots
  BY DEF IInv
<1>1. /\ txn[s] = NO_TRANSACTION /\ nextXid <= MaxXid
      /\ txn' = [txn EXCEPT ![s] = nextXid] /\ level' = [level EXCEPT ![s] = iso]
      /\ nextXid' = nextXid + 1 /\ fate' = [fate EXCEPT ![nextXid] = "running"]
      /\ UNCHANGED <<frozen, snap, failed, raised, waiting, heap, index, lock>>
  BY DEF begin, rows
<1>2. HeapInv'
  BY <1>0, <1>1, BegunHeap
<1>3. /\ nextXid \in Nat /\ nextXid >= 1 /\ frozen \in Nat /\ frozen <= nextXid /\ MaxXid \in Nat
      /\ txn \in [Sessions -> 0 .. MaxXid] /\ frozen \in 1 .. nextXid
      /\ fate \in [Xids -> {"unused", "running", "committed", "aborted"}]
      /\ level \in [Sessions -> {"read committed", "repeatable read"}]
  BY <1>0, IdFacts DEF TypeOK
<1>n. /\ nextXid \in Nat /\ nextXid >= 1 /\ frozen \in Nat /\ frozen <= nextXid /\ frozen >= 1
      /\ MaxXid \in Nat /\ nextXid <= MaxXid /\ nextXid' = nextXid + 1 /\ frozen' = frozen
  <2>1. frozen \in 1 .. nextXid
    BY <1>3
  <2>2. nextXid \in Nat /\ MaxXid \in Nat /\ nextXid >= 1
    BY <1>3
  <2>3. frozen >= 1 /\ frozen \in Nat /\ frozen <= nextXid
    BY <2>1, <2>2
  <2> QED BY <1>1, <2>2, <2>3
<1>4. /\ nextXid \in Xids /\ nextXid \in 0 .. MaxXid /\ nextXid # NO_TRANSACTION
      /\ \A x \in Xids : x \in Nat
  BY <1>n DEF Xids, NO_TRANSACTION
<1>5. TypeOK'
  <2>1. nextXid' \in 1 .. MaxXid + 1 /\ frozen' \in 1 .. nextXid'
    BY <1>n
  <2>2. txn' \in [Sessions -> 0 .. MaxXid]
    BY <1>1, <1>3, <1>4
  <2>3. level' \in [Sessions -> {"read committed", "repeatable read"}]
    BY <1>1, <1>3, LevelsAssumption
  <2>4. fate' \in [Xids -> {"unused", "running", "committed", "aborted"}]
    BY <1>1, <1>3
  <2>5. /\ snap' \in [Sessions -> Snapshots] /\ failed' \in [Sessions -> BOOLEAN]
        /\ raised' \in [Sessions -> BOOLEAN] /\ waiting' \in [Sessions -> Changes]
        /\ heap' \in Seq(VersionSet) /\ Len(heap') <= MaxVersions
        /\ index' \subseteq Slots /\ lock' \in [Slots -> 0 .. MaxXid]
    BY <1>0, <1>1 DEF TypeOK, VersionSet
  <2> QED BY <2>1, <2>2, <2>3, <2>4, <2>5 DEF TypeOK, VersionSet
<1>6. \A q \in Sessions : txn'[q] = IF q = s THEN nextXid ELSE txn[q]
  BY <1>1, <1>3
<1>7. \A q \in Sessions : txn[q] # NO_TRANSACTION =>
         /\ txn[q] < nextXid /\ txn[q] >= frozen /\ fate[txn[q]] = "running"
         /\ txn[q] \in Xids /\ txn[q] \in Nat /\ txn[q] # nextXid
  <2>1. \A q \in Sessions : txn[q] # NO_TRANSACTION => txn[q] \in Xids /\ txn[q] \in Nat
    BY <1>0, IdFacts
  <2>2. \A q \in Sessions : txn[q] # NO_TRANSACTION =>
           txn[q] < nextXid /\ txn[q] >= frozen /\ fate[txn[q]] = "running"
    BY <1>0 DEF IdsAreFresh
  <2>3. \A y \in Nat : y < nextXid => y # nextXid
    BY <1>n
  <2> QED BY <2>1, <2>2, <2>3
<1>8. \A x \in Xids : fate'[x] = IF x = nextXid THEN "running" ELSE fate[x]
  BY <1>1, <1>3
<1>9. IdsAreFresh'
  <2>1. ASSUME NEW p \in Sessions, NEW q \in Sessions, txn'[p] = txn'[q], txn'[p] # NO_TRANSACTION
        PROVE  p = q
    <3>1. CASE p = s \/ q = s
      BY <2>1, <3>1, <1>6, <1>7, <1>4
    <3>2. CASE p # s /\ q # s
      BY <2>1, <3>2, <1>6, <1>0 DEF IdsAreFresh
    <3> QED BY <3>1, <3>2
  <2>2. ASSUME NEW q \in Sessions, txn'[q] # NO_TRANSACTION
        PROVE  txn'[q] < nextXid' /\ txn'[q] >= frozen' /\ fate'[txn'[q]] = "running"
    <3>1. CASE q = s
      <4>1. txn'[q] = nextXid /\ fate'[nextXid] = "running"
        BY <3>1, <1>4, <1>6, <1>8
      <4>2. nextXid < nextXid' /\ nextXid >= frozen'
        BY <1>n
      <4> QED BY <4>1, <4>2
    <3>2. CASE q # s
      <4>1. /\ txn'[q] = txn[q] /\ txn[q] < nextXid /\ txn[q] >= frozen /\ txn[q] \in Nat
            /\ fate'[txn[q]] = "running"
        BY <2>2, <3>2, <1>6, <1>7, <1>8
      <4>2. \A y \in Nat : y < nextXid => y < nextXid'
        BY <1>n
      <4> QED BY <4>1, <4>2, <1>n
    <3> QED BY <3>1, <3>2
  <2>3. ASSUME NEW x \in Xids, fate'[x] = "running"
        PROVE  Runs(x)'
    <3>1. CASE x = nextXid
      BY <3>1, <1>4, <1>6 DEF Runs
    <3>2. CASE x # nextXid
      <4>1. PICK q \in Sessions : txn[q] = x /\ x # NO_TRANSACTION
        BY <2>3, <3>2, <1>0, <1>8 DEF IdsAreFresh, Runs
      <4> QED BY <4>1, <1>1, <1>6 DEF Runs
    <3> QED BY <3>1, <3>2
  <2>4. ASSUME NEW x \in Xids
        PROVE  fate'[x] = "unused" <=> x >= nextXid'
    <3>1. fate[x] = "unused" <=> x >= nextXid
      BY <1>0 DEF IdsAreFresh
    <3>2. x \in Nat /\ (x >= nextXid' <=> x >= nextXid /\ x # nextXid)
      BY <1>n, <1>4
    <3> QED BY <3>1, <3>2, <1>8
  <2> QED BY <2>1, <2>2, <2>3, <2>4 DEF IdsAreFresh
<1>10. SnapshotsAreKept'
  <2>1. ASSUME NEW q \in Sessions, snap[q] # NoSnapshot
        PROVE  KeptBy(q, snap[q])'
    <3> DEFINE sn == snap[q]
    <3>1. KeptBy(q, sn) /\ sn \in Snapshots /\ snap' = snap
      BY <2>1, <1>0, <1>1 DEF SnapshotsAreKept, TypeOK
    <3>2. sn.xmax \in Nat /\ sn.frozen \in Nat
      BY <3>1 DEF Snapshots
    <3>3. q # s /\ txn'[q] = txn[q]
      BY <3>1, <1>1, <1>6 DEF KeptBy
    <3>4. snap'[q] = sn
      BY <3>1
    <3> HIDE DEF sn
    <3>5. sn.xmax <= nextXid' /\ sn.frozen <= nextXid'
          /\ nextXid >= sn.xmax /\ nextXid >= sn.frozen
      <4>1. sn.xmax <= nextXid /\ sn.frozen <= nextXid
        BY <3>1 DEF KeptBy
      <4> QED BY <3>2, <4>1, <1>n
    <3>6. \A p \in Sessions : txn'[p] # NO_TRANSACTION =>
             /\ txn'[p] \in sn.active \/ txn'[p] >= sn.xmax
             /\ txn'[p] >= sn.frozen
      BY <3>1, <3>5, <1>6 DEF KeptBy
    <3> QED BY <3>1, <3>3, <3>4, <3>5, <3>6 DEF KeptBy
  <2> QED BY <2>1, <1>1 DEF SnapshotsAreKept
<1>11. ChangersHaveSnapshots'
  <2>1. ASSUME NEW q \in Sessions, NEW v \in 1 .. Len(heap), heap[v].xmax = txn'[q],
               txn'[q] # NO_TRANSACTION
        PROVE  snap[q] # NoSnapshot
    <3>1. heap[v].xmax < nextXid
      BY <1>0 DEF HeapInv, VersionsAreOld
    <3>2. q # s
      <4>1. heap[v].xmax # nextXid
        BY <3>1, <1>n
      <4> QED BY <2>1, <4>1, <1>6
    <3> QED BY <2>1, <3>2, <1>0, <1>6 DEF ChangersHaveSnapshots
  <2>2. ASSUME NEW q \in Sessions, waiting[q] # NoChange
        PROVE  snap[q] # NoSnapshot /\ txn'[q] # NO_TRANSACTION /\ waiting[q].slot \in 1 .. Len(heap)
    BY <2>2, <1>0, <1>4, <1>6 DEF ChangersHaveSnapshots
  <2> QED BY <2>1, <2>2, <1>1 DEF ChangersHaveSnapshots
<1> QED BY <1>2, <1>5, <1>9, <1>10, <1>11 DEF IInv

\* The end of a transaction: its snapshot, its locks and its id are given back.
LEMMA RetireInv ==
    ASSUME IInv, NEW s \in Sessions, CanRun(s),
           \/ Retire(s, "committed") /\ UNCHANGED rows
           \/ RolledBack(s)
    PROVE  IInv'
<1>0. /\ TypeOK /\ IdsAreFresh /\ HeapInv /\ SnapshotsAreKept /\ ChangersHaveSnapshots
      /\ txn[s] # NO_TRANSACTION /\ waiting[s] = NoChange
  BY DEF IInv, CanRun
<1>1. PICK outcome \in {"committed", "aborted"} : Retire(s, outcome)
  BY DEF RolledBack
<1>2. HeapInv'
  BY <1>0, CommittedHeap, RolledBackHeap DEF rows
<1>3. /\ heap' \in Seq(VersionSet) /\ Len(heap') = Len(heap)
      /\ \A v \in 1 .. Len(heap) : heap'[v].xmax \in {NO_TRANSACTION, heap[v].xmax}
  <2>1. CASE RolledBack(s)
    <3>1. /\ heap' \in Seq(VersionSet) /\ Len(heap') = Len(heap)
          /\ \A w \in 1 .. Len(heap) :
                /\ heap[w].xmin = txn[s] => heap'[w].xmax = heap[w].xmax
                /\ heap[w].xmin # txn[s] /\ heap[w].xmax = txn[s] => heap'[w].xmax = NO_TRANSACTION
                /\ heap[w].xmin # txn[s] /\ heap[w].xmax # txn[s] => heap'[w] = heap[w]
      BY <1>0, <2>1, UndoneVersions
    <3> QED BY <3>1
  <2>2. CASE UNCHANGED rows
    BY <1>0, <2>2, HeapFacts DEF rows
  <2> QED BY <2>1, <2>2
<1>4. /\ txn' = [txn EXCEPT ![s] = NO_TRANSACTION] /\ snap' = [snap EXCEPT ![s] = NoSnapshot]
      /\ failed' = [failed EXCEPT ![s] = FALSE] /\ raised' = [raised EXCEPT ![s] = FALSE]
      /\ level' = [level EXCEPT ![s] = "read committed"]
      /\ lock' = [v \in Slots |-> IF lock[v] = txn[s] THEN NO_TRANSACTION ELSE lock[v]]
      /\ fate' = [fate EXCEPT ![txn[s]] = outcome]
      /\ UNCHANGED <<nextXid, frozen, waiting>>
  BY <1>1 DEF Retire
<1>5. /\ txn \in [Sessions -> 0 .. MaxXid] /\ snap \in [Sessions -> Snapshots]
      /\ failed \in [Sessions -> BOOLEAN] /\ raised \in [Sessions -> BOOLEAN]
      /\ level \in [Sessions -> {"read committed", "repeatable read"}]
      /\ waiting \in [Sessions -> Changes] /\ lock \in [Slots -> 0 .. MaxXid]
      /\ fate \in [Xids -> {"unused", "running", "committed", "aborted"}]
      /\ nextXid \in 1 .. MaxXid + 1 /\ frozen \in 1 .. nextXid /\ Len(heap) <= MaxVersions
  BY <1>0 DEF TypeOK
<1>6. /\ Len(heap) \in Nat /\ MaxVersions \in Nat /\ DOMAIN heap' = 1 .. Len(heap)
      /\ nextXid \in Nat /\ NO_TRANSACTION \in 0 .. MaxXid
      /\ \A x \in Xids : x \in Nat
      /\ \A q \in Sessions : txn[q] \in Nat
  <2>1. Len(heap) \in Nat /\ MaxVersions \in Nat /\ DOMAIN heap' = 1 .. Len(heap)
    BY <1>0, <1>3, HeapFacts, LenProperties, IdFacts
  <2>2. /\ nextXid \in Nat /\ NO_TRANSACTION \in 0 .. MaxXid
        /\ \A x \in Xids : x \in Nat
    <3>1. MaxXid \in Nat /\ nextXid \in Nat
      BY <1>0, IdFacts
    <3> QED BY <3>1 DEF NO_TRANSACTION, Xids
  <2> QED BY <2>1, <2>2, <1>0, IdFacts
<1>7. TypeOK'
  <2>1. index' \subseteq Slots
    <3>1. index' \subseteq DOMAIN heap'
      BY <1>2 DEF HeapInv, IndexIsExact
    <3>2. \A v \in 1 .. Len(heap) : v \in 1 .. MaxVersions
      <4>1. Len(heap) \in Nat /\ MaxVersions \in Nat /\ Len(heap) <= MaxVersions
        BY <1>5, <1>6
      <4> QED BY <4>1
    <3> QED BY <3>1, <3>2, <1>6 DEF Slots
  <2>2. /\ txn' \in [Sessions -> 0 .. MaxXid] /\ lock' \in [Slots -> 0 .. MaxXid]
        /\ fate' \in [Xids -> {"unused", "running", "committed", "aborted"}]
        /\ nextXid' \in 1 .. MaxXid + 1 /\ frozen' \in 1 .. nextXid'
        /\ level' \in [Sessions -> {"read committed", "repeatable read"}]
    BY <1>4, <1>5, <1>6
  <2>3. /\ snap' \in [Sessions -> Snapshots] /\ waiting' \in [Sessions -> Changes]
        /\ failed' \in [Sessions -> BOOLEAN] /\ raised' \in [Sessions -> BOOLEAN]
    BY <1>4, <1>5, NoChangeType
  <2> QED BY <1>3, <1>5, <2>1, <2>2, <2>3 DEF TypeOK, VersionSet
<1>8. /\ txn'[s] = NO_TRANSACTION /\ snap'[s] = NoSnapshot
      /\ \A q \in Sessions : q # s => txn'[q] = txn[q] /\ snap'[q] = snap[q]
  BY <1>4, <1>5
<1>9. IdsAreFresh'
  <2>0. txn[s] \in Xids /\ fate[txn[s]] = "running" /\ txn[s] < nextXid
    BY <1>0, IdFacts DEF IdsAreFresh
  <2>1. \A x \in Xids : fate'[x] = IF x = txn[s] THEN outcome ELSE fate[x]
    BY <1>4, <1>5
  <2>2. \A p, q \in Sessions : txn'[p] = txn'[q] /\ txn'[p] # NO_TRANSACTION => p = q
    BY <1>0, <1>8 DEF IdsAreFresh
  <2>3. ASSUME NEW q \in Sessions, txn'[q] # NO_TRANSACTION
        PROVE  txn'[q] < nextXid' /\ txn'[q] >= frozen' /\ fate'[txn'[q]] = "running"
    <3>1. q # s /\ txn'[q] = txn[q] /\ txn[q] # txn[s]
      BY <2>3, <1>0, <1>8 DEF IdsAreFresh
    <3>2. txn[q] \in Xids
      BY <2>3, <3>1, <1>0, IdFacts
    <3> QED BY <2>1, <2>3, <3>1, <3>2, <1>0, <1>4 DEF IdsAreFresh
  <2>4. ASSUME NEW x \in Xids, fate'[x] = "running"
        PROVE  Runs(x)'
    <3>1. x # txn[s] /\ fate[x] = "running"
      BY <2>1, <2>4
    <3>2. PICK q \in Sessions : txn[q] = x /\ x # NO_TRANSACTION
      BY <3>1, <1>0 DEF IdsAreFresh, Runs
    <3> QED BY <3>1, <3>2, <1>8 DEF Runs
  <2>5. ASSUME NEW x \in Xids
        PROVE  fate'[x] = "unused" <=> x >= nextXid'
    <3>1. fate[x] = "unused" <=> x >= nextXid
      BY <1>0 DEF IdsAreFresh
    <3> QED BY <3>1, <2>0, <2>1, <1>4, <1>6
  <2> QED BY <2>2, <2>3, <2>4, <2>5 DEF IdsAreFresh
<1>10. SnapshotsAreKept'
  <2>1. ASSUME NEW q \in Sessions, snap'[q] # NoSnapshot
        PROVE  KeptBy(q, snap[q])'
    <3>1. q # s /\ txn'[q] = txn[q] /\ snap'[q] = snap[q] /\ KeptBy(q, snap[q])
      BY <2>1, <1>0, <1>8 DEF SnapshotsAreKept
    <3>2. \A p \in Sessions : txn'[p] # NO_TRANSACTION => txn'[p] = txn[p]
      BY <1>8
    <3>3. nextXid' = nextXid
      BY <1>4
    <3> QED BY <3>1, <3>2, <3>3 DEF KeptBy
  <2> QED BY <2>1 DEF SnapshotsAreKept
<1>11. ChangersHaveSnapshots'
  <2>1. ASSUME NEW q \in Sessions, NEW v \in 1 .. Len(heap), heap'[v].xmax = txn'[q],
               txn'[q] # NO_TRANSACTION
        PROVE  snap'[q] # NoSnapshot
    <3>1. q # s /\ txn'[q] = txn[q] /\ snap'[q] = snap[q] /\ heap[v].xmax = txn[q]
      BY <2>1, <1>3, <1>8
    <3> QED BY <2>1, <3>1, <1>0 DEF ChangersHaveSnapshots
  <2>2. ASSUME NEW q \in Sessions, waiting[q] # NoChange
        PROVE  snap'[q] # NoSnapshot /\ txn'[q] # NO_TRANSACTION /\ waiting[q].slot \in 1 .. Len(heap)
    BY <2>2, <1>0, <1>8 DEF ChangersHaveSnapshots
  <2> QED BY <2>1, <2>2, <1>3, <1>4 DEF ChangersHaveSnapshots
<1> QED BY <1>2, <1>7, <1>9, <1>10, <1>11 DEF IInv

\* vacuum reclaims versions and touches nothing else.
LEMMA VacuumInv ==
    ASSUME IInv, vacuum
    PROVE  IInv'
<1>0. TypeOK /\ IdsAreFresh /\ HeapInv /\ SnapshotsAreKept /\ ChangersHaveSnapshots
  BY DEF IInv
<1>1. HeapInv' /\ heap' \in Seq(VersionSet) /\ Len(heap') = Len(heap)
  BY VacuumedHeap
<1>2. UNCHANGED <<nextXid, frozen, txn, level, snap, failed, raised, waiting, index, lock, fate>>
  BY DEF vacuum
<1>3. ASSUME NEW w \in 1 .. Len(heap)
      PROVE  heap'[w].xmax = heap[w].xmax
  <2>1. DOMAIN heap = 1 .. Len(heap) /\ heap[w] \in VersionSet
    BY <1>0, HeapFacts
  <2>2. heap'[w] = heap[w] \/ heap'[w] = [heap[w] EXCEPT !.there = FALSE]
    BY <2>1 DEF vacuum
  <2> QED BY <2>1, <2>2 DEF VersionSet
<1>4. TypeOK'
  BY <1>0, <1>1, <1>2 DEF TypeOK, VersionSet
<1>5. IdsAreFresh' /\ SnapshotsAreKept'
  BY <1>0, <1>2 DEF IdsAreFresh, SnapshotsAreKept, KeptBy, Runs
<1>6. ChangersHaveSnapshots'
  BY <1>0, <1>1, <1>2, <1>3 DEF ChangersHaveSnapshots
<1> QED BY <1>1, <1>4, <1>5, <1>6 DEF IInv

\* The checkpoint moves the frozen horizon, when nobody is running.
LEMMA StampInv ==
    ASSUME IInv, stamp_next_xid
    PROVE  IInv'
<1>0. TypeOK /\ IdsAreFresh /\ HeapInv /\ SnapshotsAreKept /\ ChangersHaveSnapshots
  BY DEF IInv
<1>1. /\ frozen' = nextXid /\ \A s \in Sessions : txn[s] = NO_TRANSACTION
      /\ UNCHANGED <<nextXid, txn, level, snap, failed, raised, waiting, heap, index, lock, fate>>
  BY DEF stamp_next_xid, running_ids, rows
<1>2. frozen' \in 1 .. nextXid'
  BY <1>0, <1>1, IdFacts
<1>3. TypeOK'
  BY <1>0, <1>1, <1>2 DEF TypeOK
<1>4. IdsAreFresh' /\ SnapshotsAreKept'
  BY <1>0, <1>1 DEF IdsAreFresh, SnapshotsAreKept, KeptBy, Runs
<1>5. HeapInv'
  BY <1>0, <1>1, NothingDone DEF ChangedBy
<1>6. ChangersHaveSnapshots'
  BY <1>0, <1>1 DEF ChangersHaveSnapshots
<1> QED BY <1>3, <1>4, <1>5, <1>6 DEF IInv

\* A database just opened.
LEMMA InitInv == Init => IInv
<1> SUFFICES ASSUME Init PROVE IInv
  OBVIOUS
<1> DEFINE L == InitialRows
<1>1. L \in Nat /\ MaxXid \in Nat /\ MaxVersions \in Nat /\ MaxXid > 0 /\ L <= MaxVersions
  BY BoundsAssumption
<1>2. heap = [v \in 1 .. L |-> Version(v, 1)]
  BY DEF Init
<1>3. /\ 1 \in Xids /\ 0 \in 0 .. MaxXid /\ \A x \in Xids : x \in Nat /\ x > 0
      /\ \A v \in 1 .. L : v \in Slots
  BY <1>1 DEF Xids, Slots
<1>4. heap \in Seq(VersionSet) /\ Len(heap) = L /\ DOMAIN heap = 1 .. L
  <2>1. \A v \in 1 .. L : Version(v, 1) \in VersionSet
    BY <1>3, NewVersion
  <2>2. heap \in [1 .. L -> VersionSet]
    BY <1>2, <2>1
  <2> QED BY <1>1, <2>2, LenProperties
<1>5. \A v \in 1 .. L : /\ heap[v].row = v /\ heap[v].xmin = 1
                       /\ heap[v].xmax = NO_TRANSACTION /\ heap[v].there
  BY <1>2 DEF Version
<1>6. /\ nextXid = 2 /\ frozen = 2 /\ txn = [s \in Sessions |-> NO_TRANSACTION]
      /\ level = [s \in Sessions |-> "read committed"]
      /\ snap = [s \in Sessions |-> NoSnapshot] /\ failed = [s \in Sessions |-> FALSE]
      /\ raised = [s \in Sessions |-> FALSE] /\ waiting = [s \in Sessions |-> NoChange]
      /\ index = 1 .. L /\ lock = [v \in Slots |-> NO_TRANSACTION]
      /\ fate = [x \in Xids |-> IF x = 1 THEN "committed" ELSE "unused"]
  BY DEF Init
<1> HIDE DEF L
<1>7. TypeOK
  <2>1. nextXid \in 1 .. MaxXid + 1 /\ frozen \in 1 .. nextXid
    <3>1. nextXid = 2 /\ frozen = 2
      BY <1>6
    <3> QED BY <1>1, <3>1
  <2>2. /\ txn \in [Sessions -> 0 .. MaxXid] /\ lock \in [Slots -> 0 .. MaxXid]
        /\ level \in [Sessions -> {"read committed", "repeatable read"}]
        /\ fate \in [Xids -> {"unused", "running", "committed", "aborted"}]
        /\ failed \in [Sessions -> BOOLEAN] /\ raised \in [Sessions -> BOOLEAN]
    BY <1>3, <1>6 DEF NO_TRANSACTION
  <2>3. snap \in [Sessions -> Snapshots] /\ waiting \in [Sessions -> Changes]
    BY <1>6, NoChangeType
  <2>4. index \subseteq Slots
    BY <1>3, <1>6
  <2> QED BY <1>1, <1>4, <2>1, <2>2, <2>3, <2>4 DEF TypeOK, VersionSet
<1>8. /\ \A s \in Sessions : txn[s] = NO_TRANSACTION /\ snap[s] = NoSnapshot /\ waiting[s] = NoChange
      /\ \A x : ~Runs(x)
  BY <1>6 DEF Runs
<1>9. IdsAreFresh
  <2>1. \A x \in Xids : fate[x] = "unused" <=> x >= nextXid
    <3>1. \A x \in Xids : fate[x] = "unused" <=> x # 1
      BY <1>6
    <3>2. \A x \in Xids : x # 1 <=> x >= 2
      BY <1>3
    <3> QED BY <3>1, <3>2, <1>6
  <2>2. \A x \in Xids : fate[x] # "running"
    BY <1>6
  <2> QED BY <1>8, <2>1, <2>2 DEF IdsAreFresh
<1>10. HeapInv
  <2>1. VersionsAreOld
    <3>1. nextXid = 2
      BY <1>6
    <3>2. \A v \in 1 .. L : v <= v
      BY <1>1
    <3> QED BY <1>4, <1>5, <3>1, <3>2 DEF VersionsAreOld, NO_TRANSACTION
  <2>2. UnfinishedIsThere
    BY <1>4, <1>5, <1>8 DEF UnfinishedIsThere
  <2>3. NothingAborted
    BY <1>3, <1>4, <1>5, <1>6 DEF NothingAborted
  <2>4. RowsAreChains
    BY <1>1, <1>4, <1>5 DEF RowsAreChains
  <2>5. IndexIsExact /\ OnlyDeadReclaimed
    BY <1>4, <1>5, <1>6 DEF IndexIsExact, OnlyDeadReclaimed
  <2> QED BY <2>1, <2>2, <2>3, <2>4, <2>5 DEF HeapInv
<1>11. SnapshotsAreKept /\ ChangersHaveSnapshots
  BY <1>8 DEF SnapshotsAreKept, ChangersHaveSnapshots
<1> QED BY <1>7, <1>9, <1>10, <1>11 DEF IInv

\* Every step of the system preserves the invariant.
LEMMA NextInv ==
    ASSUME ~ByAddress, IInv, [Next]_vars
    PROVE  IInv'
<1>1. CASE \E s \in Sessions, iso \in Levels : begin(s, iso)
  BY <1>1, BeginInv
<1>2. CASE \E s \in Sessions : Statement(s)
  BY <1>2, StatementInv, StatementIs
<1>7. CASE \E s \in Sessions : commit(s)
  BY <1>7, RetireInv DEF commit
<1>8. CASE \E s \in Sessions : rollback(s)
  BY <1>8, RetireInv DEF rollback
<1>9. CASE vacuum
  BY <1>9, VacuumInv
<1>10. CASE stamp_next_xid
  BY <1>10, StampInv
<1>11. CASE UNCHANGED vars
  <2>1. UNCHANGED <<nextXid, frozen, txn, level, snap, failed, raised, waiting, heap, index, lock, fate>>
    BY <1>11 DEF vars
  <2>2. TypeOK /\ IdsAreFresh /\ HeapInv /\ SnapshotsAreKept /\ ChangersHaveSnapshots
    BY DEF IInv
  <2>3. HeapInv'
    BY <2>1, <2>2, NothingDone DEF ChangedBy
  <2>4. TypeOK'
    BY <2>1, <2>2 DEF TypeOK
  <2>5. IdsAreFresh' /\ SnapshotsAreKept' /\ ChangersHaveSnapshots'
    BY <2>1, <2>2 DEF IdsAreFresh, SnapshotsAreKept, KeptBy, Runs, ChangersHaveSnapshots
  <2> QED BY <2>3, <2>4, <2>5 DEF IInv
<1> QED BY <1>1, <1>2, <1>7, <1>8, <1>9, <1>10, <1>11 DEF Next, Statement

\* The inductive invariant holds in every reachable state.
LEMMA Invariant == ByAddress = FALSE => (Spec => []IInv)
<1> SUFFICES ASSUME ByAddress = FALSE PROVE Spec => []IInv
  OBVIOUS
<1>1. IInv /\ [Next]_vars => IInv'
  BY NextInv
<1> QED BY <1>1, InitInv, PTL DEF Spec

---------------------------------------------------------------------------
(* What snapshots show.                                                    *)

\* A snapshot kept by session s shows nothing of another running transaction.
LEMMA Unseen ==
    ASSUME IInv, NEW s \in Sessions, NEW q \in Sessions, q # s, snap[s] # NoSnapshot,
           txn[q] # NO_TRANSACTION
    PROVE  ~sees(snap[s], txn[q])
<1>1. KeptBy(s, snap[s])
  BY DEF IInv, SnapshotsAreKept
<1>2. txn[q] # snap[s].owner
  BY <1>1 DEF KeptBy, IInv, IdsAreFresh
<1>3. txn[q] \in Nat /\ snap[s].xmax \in Nat /\ snap[s].frozen \in Nat
  <2>1. TypeOK
    BY DEF IInv
  <2>2. snap[s] \in Snapshots
    BY <2>1 DEF TypeOK
  <2> QED BY <2>1, <2>2, IdFacts DEF Snapshots
<1>4. /\ txn[q] \in snap[s].active \/ txn[q] >= snap[s].xmax
      /\ txn[q] >= snap[s].frozen
  BY <1>1 DEF KeptBy
<1>5. ~(txn[q] < snap[s].frozen) /\ (txn[q] >= snap[s].xmax => ~(txn[q] < snap[s].xmax))
  BY <1>3, <1>4
<1> QED BY <1>2, <1>4, <1>5 DEF sees

\* A new snapshot sees the ids that committed and the owner's own.
LEMMA TakenSees ==
    ASSUME IInv, NEW x, NEW y \in Xids, y < nextXid, fate[y] # "aborted"
    PROVE  sees(take(x), y) <=> y = x \/ fate[y] = "committed"
<1>0. TypeOK /\ IdsAreFresh
  BY DEF IInv
<1>1. fate[y] = "committed" \/ fate[y] = "running"
  BY <1>0, FateFacts
<1>2. y \in running_ids <=> fate[y] = "running"
  <2>1. y \in running_ids <=> Runs(y)
    BY DEF running_ids, Runs
  <2> QED BY <1>0, <2>1, FateFacts
<1>3. fate[y] = "running" => ~(y < frozen)
  <2>1. fate[y] = "running" => y >= frozen
    BY <1>0 DEF IdsAreFresh, Runs
  <2>2. y \in Nat /\ frozen \in Nat
    BY <1>0, IdFacts, BoundsAssumption DEF Xids
  <2> QED BY <2>1, <2>2
<1>4. /\ take(x).xmax = nextXid /\ take(x).active = running_ids
      /\ take(x).frozen = frozen /\ take(x).owner = x
  BY DEF take
<1>5. y # NO_TRANSACTION
  BY BoundsAssumption DEF Xids, NO_TRANSACTION
<1> QED BY <1>1, <1>2, <1>3, <1>4, <1>5 DEF sees

\* So it shows exactly what is committed or the owner's.
LEMMA TakenShows ==
    ASSUME IInv, NEW x
    PROVE  Shown(heap, take(x)) = CommittedOrOwn(x)
<1>0. TypeOK /\ VersionsAreOld /\ NothingAborted
  BY DEF IInv, HeapInv
<1>1. ASSUME NEW v \in DOMAIN heap, heap[v].there
      PROVE  visible(heap[v], take(x))
             <=> /\ heap[v].xmin = x \/ fate[heap[v].xmin] = "committed"
                 /\ heap[v].xmax # NO_TRANSACTION =>
                       ~(heap[v].xmax = x \/ fate[heap[v].xmax] = "committed")
  <2>1. /\ v \in 1 .. Len(heap) /\ heap[v].xmin \in Xids /\ heap[v].xmin < nextXid
        /\ heap[v].xmax # NO_TRANSACTION => heap[v].xmax \in Xids /\ heap[v].xmax < nextXid
    BY <1>0, HeapFacts DEF VersionsAreOld
  <2>2. /\ fate[heap[v].xmin] # "aborted"
        /\ heap[v].xmax # NO_TRANSACTION => fate[heap[v].xmax] # "aborted"
    BY <1>0, <1>1, <2>1 DEF NothingAborted
  <2>3. sees(take(x), heap[v].xmin) <=> heap[v].xmin = x \/ fate[heap[v].xmin] = "committed"
    BY <2>1, <2>2, TakenSees
  <2>4. heap[v].xmax # NO_TRANSACTION =>
           (sees(take(x), heap[v].xmax) <=> heap[v].xmax = x \/ fate[heap[v].xmax] = "committed")
    BY <2>1, <2>2, TakenSees
  <2>5. heap[v].xmax = NO_TRANSACTION => ~sees(take(x), heap[v].xmax)
    BY DEF sees
  <2> QED BY <2>3, <2>4, <2>5 DEF visible
<1> QED BY <1>1 DEF Shown, CommittedOrOwn

\* The action of SnapshotIsExact.
ExactWhenTaken ==
    \A s \in Sessions :
       snap'[s] # snap[s] /\ snap'[s] # NoSnapshot
           => Shown(heap', snap'[s]) \ Shown(heap, snap'[s]) \subseteq
                  {v \in DOMAIN heap' : heap'[v].xmin = txn[s]}
              /\ Shown(heap, snap'[s]) = CommittedOrOwn(txn[s])

\* A snapshot changes in the statement that takes it, and what that statement
\* adds to what it shows is the transaction's own.
LEMMA ExactStep ==
    ASSUME ~ByAddress, IInv, [Next]_vars
    PROVE  ExactWhenTaken
<1> SUFFICES ASSUME NEW s \in Sessions, snap'[s] # snap[s], snap'[s] # NoSnapshot
             PROVE  /\ Shown(heap', snap'[s]) \ Shown(heap, snap'[s]) \subseteq
                          {v \in DOMAIN heap' : heap'[v].xmin = txn[s]}
                    /\ Shown(heap, snap'[s]) = CommittedOrOwn(txn[s])
  BY DEF ExactWhenTaken
<1>0. TypeOK /\ snap \in [Sessions -> Snapshots]
  BY DEF IInv, TypeOK
<1>1. PICK q \in Sessions : Statement(q)
  <2>1. CASE \E q \in Sessions : Retire(q, "committed") \/ Retire(q, "aborted")
    <3>1. PICK q \in Sessions : snap' = [snap EXCEPT ![q] = NoSnapshot]
      BY <2>1 DEF Retire
    <3> QED BY <1>0, <3>1
  <2>2. CASE UNCHANGED snap
    BY <2>2
  <2> QED BY <2>1, <2>2 DEF Next, Statement, vars, begin, commit, rollback, RolledBack, vacuum,
                            stamp_next_xid
<1>2. StatementOf(q) /\ txn[q] # NO_TRANSACTION
  BY <1>1, StatementIs
<1>3. q = s /\ snap'[s] = snapshot_for(s)
  BY <1>0, <1>2 DEF StatementOf
<1>4. snap'[s] = take(txn[s])
  BY <1>3 DEF snapshot_for
<1>5. Shown(heap, snap'[s]) = CommittedOrOwn(txn[s])
  BY <1>4, TakenShows
<1>6. ASSUME NEW v \in Shown(heap', snap'[s]), v \notin Shown(heap, snap'[s])
      PROVE  v \in DOMAIN heap' /\ heap'[v].xmin = txn[s]
  <2> DEFINE sn == snap'[s]
  <2>1. /\ DOMAIN heap' = 1 .. Len(heap') /\ DOMAIN heap = 1 .. Len(heap)
        /\ ChangedBy(txn[s])
    <3>1. ChangedBy(txn[s]) /\ heap' \in Seq(VersionSet)
      BY <1>2, <1>3 DEF StatementOf, ChangedBy
    <3> QED BY <1>0, <3>1, HeapFacts, LenProperties
  <2>2. v \in 1 .. Len(heap') /\ heap'[v].there /\ sees(sn, heap'[v].xmin) /\ ~sees(sn, heap'[v].xmax)
    BY <1>6, <2>1 DEF Shown, visible
  <2>3. CASE v \notin 1 .. Len(heap)
    BY <2>1, <2>2, <2>3 DEF ChangedBy
  <2>4. CASE v \in 1 .. Len(heap)
    <3>1. /\ heap'[v].xmin = heap[v].xmin /\ heap'[v].there = heap[v].there
          /\ heap'[v].xmax = heap[v].xmax \/ heap[v].xmax = NO_TRANSACTION
      BY <2>1, <2>2, <2>4 DEF ChangedBy
    <3>2. ~sees(sn, heap[v].xmax)
      BY <2>2, <3>1 DEF sees
    <3>3. v \in Shown(heap, sn)
      BY <2>1, <2>2, <2>4, <3>1, <3>2 DEF Shown, visible
    <3> QED BY <1>6, <3>3
  <2> QED BY <2>3, <2>4
<1> QED BY <1>5, <1>6

\* The action of StableSnapshots.
StableWhileKept ==
    \A s \in Sessions :
       txn'[s] = txn[s] /\ snap[s] # NoSnapshot /\ snap'[s] = snap[s]
           => Foreign(heap', snap[s], txn[s]) = Foreign(heap, snap[s], txn[s])

\* No step changes what a kept snapshot shows of others: their ids are unseen
\* while they run, and vacuum takes what was already seen as deleted.
LEMMA StableStep ==
    ASSUME ~ByAddress, IInv, [Next]_vars
    PROVE  StableWhileKept
<1> SUFFICES ASSUME NEW s \in Sessions, txn'[s] = txn[s], snap[s] # NoSnapshot,
                    snap'[s] = snap[s]
             PROVE  Foreign(heap', snap[s], txn[s]) = Foreign(heap, snap[s], txn[s])
  BY DEF StableWhileKept
<1> DEFINE x == txn[s]
           sn == snap[s]
           L == Len(heap)
           foreign(e) == /\ e.there
                         /\ e.xmin # x
                         /\ sees(sn, e.xmin)
                         /\ e.xmax = x \/ ~sees(sn, e.xmax)
<1>0. TypeOK /\ KeptBy(s, sn) /\ IdsAreFresh /\ UnfinishedIsThere /\ DOMAIN heap = 1 .. L
      /\ L \in Nat /\ heap \in Seq(VersionSet) /\ sn \in Snapshots
  <2>1. TypeOK /\ KeptBy(s, sn) /\ IdsAreFresh /\ UnfinishedIsThere
    BY DEF IInv, SnapshotsAreKept, HeapInv
  <2>2. sn \in Snapshots
    BY <2>1 DEF TypeOK
  <2> QED BY <2>1, <2>2, HeapFacts
<1>1. x # NO_TRANSACTION /\ x \in Xids
  BY <1>0, IdFacts DEF KeptBy
<1>2. \A q \in Sessions : q # s /\ txn[q] # NO_TRANSACTION => ~sees(sn, txn[q]) /\ txn[q] # x
  BY <1>0, Unseen DEF IdsAreFresh
<1>3. ~sees(sn, NO_TRANSACTION)
  BY DEF sees
<1>4. /\ Foreign(heap, sn, x) = {v \in DOMAIN heap : foreign(heap[v])}
      /\ Foreign(heap', sn, x) = {v \in DOMAIN heap' : foreign(heap'[v])}
  BY DEF Foreign
<1>5. CASE \E q \in Sessions : Statement(q)
  <2>1. PICK q \in Sessions : StatementOf(q) /\ txn[q] # NO_TRANSACTION
    BY <1>5, StatementIs
  <2> DEFINE y == txn[q]
  <2>2. /\ ChangedBy(y) /\ heap' \in Seq(VersionSet) /\ L <= Len(heap')
        /\ DOMAIN heap' = 1 .. Len(heap') /\ Len(heap') \in Nat
    <3>1. ChangedBy(y) /\ heap' \in Seq(VersionSet) /\ L <= Len(heap')
      BY <2>1 DEF StatementOf, ChangedBy
    <3> QED BY <3>1, LenProperties
  <2>3. y = x \/ ~sees(sn, y)
    BY <1>2, <2>1
  <2>4. ASSUME NEW v \in 1 .. Len(heap'), v \notin 1 .. L
        PROVE  ~foreign(heap'[v])
    <3>1. heap'[v].xmin = y
      BY <2>2, <2>4 DEF ChangedBy
    <3> QED BY <2>3, <3>1
  <2>5. ASSUME NEW v \in 1 .. L
        PROVE  v \in 1 .. Len(heap') /\ (foreign(heap'[v]) <=> foreign(heap[v]))
    <3>1. v \in 1 .. Len(heap')
      BY <1>0, <2>2
    <3>2. /\ heap'[v].xmin = heap[v].xmin /\ heap'[v].there = heap[v].there
          /\ \/ heap'[v].xmax = heap[v].xmax
             \/ heap[v].xmax = NO_TRANSACTION /\ heap'[v].xmax = y
      BY <2>2, <3>1 DEF ChangedBy
    <3> QED BY <1>3, <2>3, <3>1, <3>2
  <2> HIDE DEF foreign
  <2> QED BY <1>0, <1>4, <2>2, <2>4, <2>5
<1>6. CASE \E q \in Sessions : CanRun(q) /\ RolledBack(q)
  <2>1. PICK q \in Sessions : CanRun(q) /\ RolledBack(q)
    BY <1>6
  <2> DEFINE y == txn[q]
  <2>2. y # NO_TRANSACTION /\ txn' = [txn EXCEPT ![q] = NO_TRANSACTION]
    BY <2>1 DEF CanRun, RolledBack, Retire
  <2>3. q # s
    BY <2>2, <1>0, <1>1 DEF TypeOK
  <2>4. ~sees(sn, y) /\ y # x /\ Runs(y)
    BY <1>2, <2>2, <2>3 DEF Runs
  <2>5. /\ DOMAIN heap' = 1 .. L
        /\ \A w \in 1 .. L :
              /\ heap'[w].xmin = heap[w].xmin
              /\ heap[w].xmin # y /\ heap[w].xmax = y =>
                    heap'[w].there /\ heap'[w].xmax = NO_TRANSACTION
              /\ heap[w].xmin # y /\ heap[w].xmax # y => heap'[w] = heap[w]
    BY <1>0, <2>1, UndoneVersions
  <2>6. \A w \in 1 .. L : heap[w].xmax = y => heap[w].there
    BY <1>0, <2>4 DEF UnfinishedIsThere
  <2>7. ASSUME NEW w \in 1 .. L
        PROVE  foreign(heap'[w]) <=> foreign(heap[w])
    <3>1. CASE heap[w].xmin = y
      BY <2>4, <2>5, <3>1
    <3>2. CASE heap[w].xmin # y /\ heap[w].xmax = y
      BY <1>3, <2>4, <2>5, <2>6, <3>2
    <3>3. CASE heap[w].xmin # y /\ heap[w].xmax # y
      BY <2>5, <3>3
    <3> QED BY <3>1, <3>2, <3>3
  <2> HIDE DEF foreign
  <2> QED BY <1>0, <1>4, <2>5, <2>7
<1>7. CASE vacuum
  <2>1. /\ DOMAIN heap' = 1 .. L
        /\ \A w \in 1 .. L : IF is_dead(heap[w], oldest_snapshot_xmin)
                             THEN heap'[w] = [heap[w] EXCEPT !.there = FALSE]
                             ELSE heap'[w] = heap[w]
    BY <1>0, <1>7 DEF vacuum
  <2>2. ASSUME NEW w \in 1 .. L, is_dead(heap[w], oldest_snapshot_xmin)
        PROVE  ~foreign(heap'[w]) /\ ~foreign(heap[w])
    <3>1. heap[w] \in VersionSet /\ heap[w].xmax \in Nat
      BY <1>0, HeapFacts
    <3>2. ~heap'[w].there
      BY <2>1, <2>2, <3>1 DEF VersionSet
    <3>3. heap[w].xmax # x
      BY <1>1, <2>2, RunningIsNotDead DEF Runs
    <3>4. heap[w].xmax # NO_TRANSACTION /\ heap[w].xmax < oldest_snapshot_xmin
      BY <2>2 DEF is_dead
    <3>5. oldest_snapshot_xmin <= sn.xmin /\ oldest_snapshot_xmin \in Nat
      BY <1>0, HorizonIsLow
    <3>6. sn.xmin \in Nat /\ sn.xmax \in Nat /\ sn.xmin <= sn.xmax
          /\ sn.active \subseteq Xids /\ \A z \in sn.active : sn.xmin <= z
      BY <1>0 DEF Snapshots, KeptBy
    <3>7. heap[w].xmax < sn.xmin /\ heap[w].xmax < sn.xmax
      BY <3>1, <3>4, <3>5, <3>6
    <3>8. heap[w].xmax \notin sn.active
      <4>1. \A z \in Xids : z \in Nat
        BY BoundsAssumption DEF Xids
      <4>2. \A a, b \in Nat : a < b => ~(b <= a)
        OBVIOUS
      <4> QED BY <3>1, <3>6, <3>7, <4>1, <4>2
    <3>9. sees(sn, heap[w].xmax)
      BY <3>4, <3>7, <3>8 DEF sees
    <3> QED BY <3>2, <3>3, <3>9
  <2> HIDE DEF foreign
  <2> QED BY <1>0, <1>4, <2>1, <2>2
<1>8. CASE UNCHANGED heap
  BY <1>8
<1> QED BY <1>5, <1>6, <1>7, <1>8 DEF Next, Statement, vars, rows, begin, commit, rollback,
                                      stamp_next_xid

---------------------------------------------------------------------------
(* The theorems.                                                           *)

\* No update is lost, for any number of sessions and rows, when rows are
\* changed by statements: of the versions of a row at most one is live, and
\* what a running transaction has put on a version is under its lock
\* (Database._claim_row).
THEOREM UpdatesAreKept == ByAddress = FALSE => (Spec => []NoLostUpdate)
<1> SUFFICES ASSUME ByAddress = FALSE PROVE Spec => []NoLostUpdate
  OBVIOUS
<1>1. IInv => NoLostUpdate
  <2> SUFFICES ASSUME IInv PROVE NoLostUpdate
    OBVIOUS
  <2>0. TypeOK /\ RowsAreChains /\ NothingAborted /\ UnfinishedIsThere
    BY DEF IInv, HeapInv
  <2>1. Len(heap) \in Nat /\ DOMAIN heap = 1 .. Len(heap)
    BY <2>0, HeapFacts
  <2>2. OneLiveVersion
    <3>1. ASSUME NEW v \in 1 .. Len(heap), NEW w \in 1 .. Len(heap), v < w,
                 heap[v].row = heap[w].row, heap[v].there, heap[w].there,
                 heap[v].xmax = NO_TRANSACTION
          PROVE  FALSE
      <4>1. fate[heap[v].xmin] # "aborted" /\ fate[heap[w].xmin] # "aborted"
        BY <2>0, <3>1 DEF NothingAborted
      <4> QED BY <2>0, <3>1, <4>1 DEF RowsAreChains
    <3>2. \A v, w \in 1 .. Len(heap) : v < w \/ w < v \/ v = w
      BY <2>1
    <3> QED BY <2>1, <3>1, <3>2 DEF OneLiveVersion
  <2>3. UnfinishedIsLocked
    <3>1. \A x : x \in running_ids => Runs(x)
      BY DEF running_ids, Runs
    <3> QED BY <2>0, <2>1, <3>1 DEF UnfinishedIsLocked, UnfinishedIsThere
  <2> QED BY <2>2, <2>3 DEF NoLostUpdate
<1> QED BY <1>1, Invariant, PTL

\* Only the dead leave the heap and the index: what vacuum reclaims was deleted
\* by a transaction that committed, or made by one that was rolled back, and
\* the index holds the live versions and nothing else (Database.vacuum).
THEOREM VacuumTakesTheDead == ByAddress = FALSE => (Spec => []OnlyDeadLeave)
<1> SUFFICES ASSUME ByAddress = FALSE PROVE Spec => []OnlyDeadLeave
  OBVIOUS
<1>1. IInv => OnlyDeadLeave
  BY DEF IInv, HeapInv, OnlyDeadLeave
<1> QED BY <1>1, Invariant, PTL

\* A snapshot shows, when it is taken, exactly the committed versions and the
\* transaction's own, although the engine keeps no commit log: rollback leaves
\* nothing behind and the frozen horizon is below every running id
\* (SnapshotManager.take, Snapshot.sees).
THEOREM SnapshotsAreExact == ByAddress = FALSE => (Spec => SnapshotIsExact)
<1> SUFFICES ASSUME ByAddress = FALSE PROVE Spec => SnapshotIsExact
  OBVIOUS
<1>1. IInv /\ [Next]_vars => [ExactWhenTaken]_vars
  BY ExactStep
<1>2. Spec => []IInv
  BY Invariant
<1> QED BY <1>1, <1>2, PTL DEF Spec, SnapshotIsExact, ExactWhenTaken

\* What a kept snapshot shows of others' work does not change: no commit,
\* rollback, vacuum or checkpoint adds a row to it or takes one away
\* (Snapshot.sees, oldest_snapshot_xmin).
THEOREM SnapshotsAreStable == ByAddress = FALSE => (Spec => StableSnapshots)
<1> SUFFICES ASSUME ByAddress = FALSE PROVE Spec => StableSnapshots
  OBVIOUS
<1>1. IInv /\ [Next]_vars => [StableWhileKept]_vars
  BY StableStep
<1>2. Spec => []IInv
  BY Invariant
<1> QED BY <1>1, <1>2, PTL DEF Spec, StableSnapshots, StableWhileKept
=============================================================================

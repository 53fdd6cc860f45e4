------------------------------- MODULE Mvcc -------------------------------
(***************************************************************************)
(* Row versions, snapshots and transactions of several sessions:           *)
(* engine/concurrency/snapshot.py, the session side of                     *)
(* engine/transaction/manager.py, the row operations and vacuum of         *)
(* engine/database.py, and what execute_statement of                       *)
(* engine/executor/engine.py does to a transaction around a statement.     *)
(*                                                                         *)
(* A version has a heap slot of its own that is not reused, and a page of  *)
(* its own, so that undo takes back what the transaction did and no more   *)
(* (module Storage shows what happens when sessions share a page). A       *)
(* row lock is granted, waited for or refused; who waits for whom is the   *)
(* subject of module LockManager.                                          *)
(***************************************************************************)
EXTENDS Integers, Sequences, FiniteSets, FiniteSetsExt, SequencesExt

CONSTANTS
    Sessions,           \* sessions of the server
    DEFAULT_SESSION,    \* the one calls without a session argument mean
    Levels,             \* isolation levels in use
    ByAddress,          \* may rows be changed by record id, with no snapshot taken?
    InitialRows,        \* rows found when the database was opened
    MaxXid,             \* bound: transaction ids
    MaxVersions         \* bound: row versions

ASSUME SessionsAssumption == DEFAULT_SESSION \in Sessions /\ IsFiniteSet(Sessions)
ASSUME LevelsAssumption == Levels \subseteq {"read committed", "repeatable read"}
ASSUME SwitchAssumption == ByAddress \in BOOLEAN
ASSUME BoundsAssumption ==
    /\ {InitialRows, MaxXid, MaxVersions} \subseteq Nat
    /\ MaxXid > 0
    /\ InitialRows <= MaxVersions

VARIABLES
    nextXid,    \* TransactionManager._next_id
    frozen,     \* TransactionManager.frozen_xid
    txn,        \* txn[s]: the open transaction of session s, or NO_TRANSACTION
    level,      \* its isolation level
    snap,       \* the snapshot it keeps
    failed,     \* is its state FAILED?
    raised,     \* history: has a statement of it raised?
    waiting,    \* the change a session's statement is blocked in
    heap,       \* row versions, by slot
    index,      \* slots with an entry in the index
    lock,       \* lock[v]: the transaction holding the row lock of slot v
    fate        \* history: what became of each transaction id

vars == <<nextXid, frozen, txn, level, snap, failed, raised, waiting, heap, index, lock, fate>>
rows == <<heap, index>>

NO_TRANSACTION == 0
Xids == 1 .. MaxXid
Slots == 1 .. MaxVersions
Snapshots == [xmin : Nat, xmax : Nat, active : SUBSET Xids, frozen : Nat, owner : 0 .. MaxXid]
NoSnapshot == [xmin |-> 0, xmax |-> 0, active |-> {}, frozen |-> 0, owner |-> NO_TRANSACTION]
Changes == [kind : {"none", "delete", "update"}, slot : 0 .. MaxVersions]
NoChange == [kind |-> "none", slot |-> 0]
Version(row, x) == [row |-> row, xmin |-> x, xmax |-> NO_TRANSACTION, there |-> TRUE]

TypeOK ==
    /\ nextXid \in 1 .. MaxXid + 1
    /\ frozen \in 1 .. nextXid
    /\ txn \in [Sessions -> 0 .. MaxXid]
    /\ level \in [Sessions -> {"read committed", "repeatable read"}]
    /\ snap \in [Sessions -> Snapshots]
    /\ failed \in [Sessions -> BOOLEAN]
    /\ raised \in [Sessions -> BOOLEAN]
    /\ waiting \in [Sessions -> Changes]
    /\ heap \in Seq([row : Slots, xmin : Xids, xmax : 0 .. MaxXid, there : BOOLEAN])
    /\ Len(heap) <= MaxVersions
    /\ index \subseteq Slots
    /\ lock \in [Slots -> 0 .. MaxXid]
    /\ fate \in [Xids -> {"unused", "running", "committed", "aborted"}]

\* A database just opened: transaction 1 filled the table and committed.
Init ==
    /\ nextXid = 2
    /\ frozen = 2
    /\ txn = [s \in Sessions |-> NO_TRANSACTION]
    /\ level = [s \in Sessions |-> "read committed"]
    /\ snap = [s \in Sessions |-> NoSnapshot]
    /\ failed = [s \in Sessions |-> FALSE]
    /\ raised = [s \in Sessions |-> FALSE]
    /\ waiting = [s \in Sessions |-> NoChange]
    /\ heap = [v \in 1 .. InitialRows |-> Version(v, 1)]
    /\ index = 1 .. InitialRows
    /\ lock = [v \in Slots |-> NO_TRANSACTION]
    /\ fate = [x \in Xids |-> IF x = 1 THEN "committed" ELSE "unused"]

---------------------------------------------------------------------------
(* Snapshots and visibility.                                               *)

running_ids == {txn[s] : s \in Sessions} \ {NO_TRANSACTION}

take(owner) ==
    [xmin |-> IF running_ids = {} THEN nextXid ELSE Min(running_ids),
     xmax |-> nextXid,
     active |-> running_ids,
     frozen |-> frozen,
     owner |-> owner]

\* Taken once under REPEATABLE READ, for every statement under READ COMMITTED.
snapshot_for(s) ==
    IF snap[s] # NoSnapshot /\ level[s] = "repeatable read" THEN snap[s] ELSE take(txn[s])

\* Mutant: transactions still running when the snapshot was taken are seen.
sees_running(snapshot, x) == x # NO_TRANSACTION /\ (x = snapshot.owner \/ x < snapshot.xmax)

sees(snapshot, x) ==
    /\ x # NO_TRANSACTION
    /\ \/ x = snapshot.owner
       \/ x < snapshot.frozen
       \/ x < snapshot.xmax /\ x \notin snapshot.active

visible(version, snapshot) ==
    sees(snapshot, version.xmin) /\ ~sees(snapshot, version.xmax)

Shown(h, snapshot) == {v \in DOMAIN h : h[v].there /\ visible(h[v], snapshot)}

\* Mutant: open snapshots do not hold the horizon back.
newest_snapshot_xmin == nextXid

\* Vacuum's horizon: the oldest xmin an open transaction holds a snapshot of.
oldest_snapshot_xmin ==
    LET live == {snap[s].xmin : s \in {q \in Sessions : snap[q] # NoSnapshot}}
    IN  IF live = {} THEN nextXid ELSE Min(live)

\* Mutant: any deleted version is dead.
is_deleted(version, horizon) == version.xmax # NO_TRANSACTION

is_dead(version, horizon) == version.xmax # NO_TRANSACTION /\ version.xmax < horizon

---------------------------------------------------------------------------
(* Statements.                                                             *)

\* _check_transaction_usable asks about the default session, whoever runs.
Usable == ByAddress \/ ~failed[DEFAULT_SESSION]

CanRun(s) == txn[s] # NO_TRANSACTION /\ waiting[s] = NoChange

begin(s, iso) ==
    /\ txn[s] = NO_TRANSACTION
    /\ Usable
    /\ nextXid <= MaxXid
    /\ txn' = [txn EXCEPT ![s] = nextXid]
    /\ level' = [level EXCEPT ![s] = iso]
    /\ nextXid' = nextXid + 1
    /\ fate' = [fate EXCEPT ![nextXid] = "running"]
    /\ UNCHANGED <<frozen, snap, failed, raised, waiting, rows, lock>>

\* A query, or a statement that is refused: the snapshot is taken first.
Query(s) ==
    /\ CanRun(s)
    /\ snap' = [snap EXCEPT ![s] = snapshot_for(s)]
    /\ UNCHANGED <<nextXid, frozen, txn, level, failed, raised, waiting, rows, lock, fate>>

insert(s) ==
    LET v == Len(heap) + 1
    IN  /\ CanRun(s)
        /\ Usable
        /\ v <= MaxVersions
        /\ snap' = IF ByAddress THEN snap ELSE [snap EXCEPT ![s] = snapshot_for(s)]
        /\ heap' = Append(heap, Version(v, txn[s]))
        /\ index' = index \union {v}
        /\ lock' = [lock EXCEPT ![v] = txn[s]]
        /\ UNCHANGED <<nextXid, frozen, txn, level, failed, raised, waiting, fate>>

\* The row lock is x's and the version is live: stamp xmax, fix the index and,
\* for an update, add the new version.
Apply(x, change) ==
    LET v == change.slot
        stamped == [heap EXCEPT ![v].xmax = x]
        new == Len(heap) + 1
    IN  IF change.kind = "delete"
        THEN /\ heap' = stamped
             /\ index' = index \ {v}
             /\ lock' = [lock EXCEPT ![v] = x]
        ELSE /\ new <= MaxVersions
             /\ heap' = Append(stamped, Version(heap[v].row, x))
             /\ index' = (index \ {v}) \union {new}
             /\ lock' = [lock EXCEPT ![v] = x, ![new] = x]

\* Mutant: the version is not read again once the lock is granted.
ApplyClaimed_no_reread(x, change) == Apply(x, change)

\* _claim_row after _lock_row: read again, because waiting let others in.
ApplyClaimed(x, change) ==
    LET now == heap[change.slot]
    IN  IF now.there /\ now.xmax = NO_TRANSACTION
        THEN Apply(x, change)
        ELSE /\ lock' = [lock EXCEPT ![change.slot] = x]
             /\ UNCHANGED rows

\* Deleted by a transaction that is no longer running: not ours to change.
Settled(v) ==
    \/ ~heap[v].there
    \/ heap[v].xmax # NO_TRANSACTION /\ heap[v].xmax \notin running_ids

\* DELETE or UPDATE of one row the statement's snapshot shows.
Change(s, change) ==
    LET v == change.slot
        snapshot == snapshot_for(s)
        free == lock[v] \in {NO_TRANSACTION, txn[s]}
    IN  /\ CanRun(s)
        /\ Usable
        /\ v \in DOMAIN heap
        /\ IF ByAddress
           THEN heap[v].there /\ UNCHANGED snap
           ELSE v \in Shown(heap, snapshot) /\ snap' = [snap EXCEPT ![s] = snapshot]
        /\ \/ Settled(v) /\ UNCHANGED <<rows, lock, waiting>>
           \/ ~Settled(v) /\ free /\ ApplyClaimed(txn[s], change) /\ UNCHANGED waiting
           \/ /\ ~Settled(v) /\ ~free
              /\ waiting' = [waiting EXCEPT ![s] = change]
              /\ UNCHANGED <<rows, lock>>
        /\ UNCHANGED <<nextXid, frozen, txn, level, failed, raised, fate>>

\* The lock a statement waits for has been released.
Granted(s) ==
    /\ waiting[s] # NoChange
    /\ lock[waiting[s].slot] = NO_TRANSACTION
    /\ ApplyClaimed(txn[s], waiting[s])
    /\ waiting' = [waiting EXCEPT ![s] = NoChange]
    /\ UNCHANGED <<nextXid, frozen, txn, level, snap, failed, raised, fate>>

\* A statement raises: DeadlockError or LockTimeout in a wait, or an error of
\* its own. Only when it began was the transaction looked at, so one that waits
\* may raise although it has failed since. mark_failed() is called with no
\* session, so it means the default.
Raise(s) ==
    /\ txn[s] # NO_TRANSACTION
    /\ waiting[s] # NoChange \/ Usable
    /\ waiting' = [waiting EXCEPT ![s] = NoChange]
    /\ raised' = [raised EXCEPT ![s] = TRUE]
    /\ failed' = [failed EXCEPT ![DEFAULT_SESSION] = @ \/ txn[DEFAULT_SESSION] # NO_TRANSACTION]
    /\ snap' = IF waiting[s] = NoChange THEN [snap EXCEPT ![s] = snapshot_for(s)] ELSE snap
    /\ UNCHANGED <<nextXid, frozen, txn, level, rows, lock, fate>>

---------------------------------------------------------------------------
(* The end of a transaction.                                               *)

Retire(s, outcome) ==
    /\ txn' = [txn EXCEPT ![s] = NO_TRANSACTION]
    /\ snap' = [snap EXCEPT ![s] = NoSnapshot]
    /\ failed' = [failed EXCEPT ![s] = FALSE]
    /\ raised' = [raised EXCEPT ![s] = FALSE]
    /\ level' = [level EXCEPT ![s] = "read committed"]
    /\ lock' = [v \in Slots |-> IF lock[v] = txn[s] THEN NO_TRANSACTION ELSE lock[v]]
    /\ fate' = [fate EXCEPT ![txn[s]] = outcome]
    /\ UNCHANGED <<nextXid, frozen, waiting>>

\* Undo: x's versions are gone, and so is every xmax it stamped.
RolledBack(s) ==
    LET x == txn[s]
    IN  /\ heap' = [v \in DOMAIN heap |->
                      IF heap[v].xmin = x THEN [heap[v] EXCEPT !.there = FALSE]
                      ELSE IF heap[v].xmax = x
                           THEN [heap[v] EXCEPT !.xmax = NO_TRANSACTION, !.there = TRUE]
                           ELSE heap[v]]
        /\ index' = {v \in DOMAIN heap :
                        /\ heap[v].xmin # x
                        /\ v \in index \/ heap[v].xmax = x}
        /\ Retire(s, "aborted")

rollback(s) == CanRun(s) /\ RolledBack(s)

\* COMMIT of a failed transaction rolls back.
commit(s) ==
    /\ CanRun(s)
    /\ IF failed[s] THEN RolledBack(s) ELSE Retire(s, "committed") /\ UNCHANGED rows

\* Run by a session with no transaction, whose page writes are not undone.
vacuum ==
    /\ heap' = [v \in DOMAIN heap |->
                  IF is_dead(heap[v], oldest_snapshot_xmin)
                  THEN [heap[v] EXCEPT !.there = FALSE] ELSE heap[v]]
    /\ UNCHANGED <<nextXid, frozen, txn, level, snap, failed, raised, waiting, index, lock, fate>>

\* A checkpoint moves the horizon; it is refused while a transaction is open.
stamp_next_xid ==
    /\ running_ids = {}
    /\ frozen' = nextXid
    /\ UNCHANGED <<nextXid, txn, level, snap, failed, raised, waiting, rows, lock, fate>>

---------------------------------------------------------------------------
ChangeOf(s) == \E kind \in {"delete", "update"}, v \in Slots :
                  Change(s, [kind |-> kind, slot |-> v])

Next ==
    \/ \E s \in Sessions, iso \in Levels : begin(s, iso)
    \/ \E s \in Sessions : Query(s) \/ insert(s) \/ ChangeOf(s) \/ Granted(s) \/ Raise(s)
    \/ \E s \in Sessions : commit(s) \/ rollback(s)
    \/ vacuum
    \/ stamp_next_xid

Spec == Init /\ [][Next]_vars

---------------------------------------------------------------------------
(* Correctness.                                                            *)

\* What a reader should be shown at this moment, by the history.
CommittedOrOwn(x) ==
    LET counts(y) == y = x \/ fate[y] = "committed"
    IN  {v \in DOMAIN heap :
            /\ heap[v].there
            /\ counts(heap[v].xmin)
            /\ heap[v].xmax # NO_TRANSACTION => ~counts(heap[v].xmax)}

\* A snapshot shows, at the moment it is taken, exactly the committed versions
\* and the reader's own: the four numbers of Snapshot and the single horizon
\* frozen_xid stand in for a commit log, which the engine does not have.
SnapshotIsExact ==
    [][\A s \in Sessions :
          snap'[s] # snap[s] /\ snap'[s] # NoSnapshot
              => Shown(heap', snap'[s]) \ Shown(heap, snap'[s]) \subseteq
                     {v \in DOMAIN heap' : heap'[v].xmin = txn[s]}
                 /\ Shown(heap, snap'[s]) = CommittedOrOwn(txn[s])]_vars

\* What a snapshot shows of others' work does not change while it is kept:
\* no commit, rollback, vacuum or checkpoint of another session adds or removes
\* a row. Under REPEATABLE READ that is the life of the transaction.
Foreign(h, snapshot, x) ==
    {v \in DOMAIN h :
        /\ h[v].there
        /\ h[v].xmin # x
        /\ sees(snapshot, h[v].xmin)
        /\ h[v].xmax = x \/ ~sees(snapshot, h[v].xmax)}

StableSnapshots ==
    [][\A s \in Sessions :
          txn'[s] = txn[s] /\ snap[s] # NoSnapshot /\ snap'[s] = snap[s]
              => Foreign(heap', snap[s], txn[s]) = Foreign(heap, snap[s], txn[s])]_vars

\* Of the versions of one row at most one is live, whoever
\* changed it, waited to change it or was rolled back, so two sessions never
\* both replace the same version.
OneLiveVersion ==
    \A v, w \in DOMAIN heap :
        /\ heap[v].row = heap[w].row
        /\ heap[v].there /\ heap[w].there
        /\ heap[v].xmax = NO_TRANSACTION /\ heap[w].xmax = NO_TRANSACTION
        => v = w

\* Only the transaction holding the row's lock has put its unfinished work on
\* a version, so a waiter that finds the lock free finds the row settled.
UnfinishedIsLocked ==
    \A v \in DOMAIN heap : \A x \in {heap[v].xmin, heap[v].xmax} :
        heap[v].there /\ x \in running_ids => lock[v] = x

\* No update is lost: a change is made to the one live version of its row, and
\* by the transaction that has it locked.
NoLostUpdate == OneLiveVersion /\ UnfinishedIsLocked

\* The index has an entry for every live version and for nothing else.
IndexIsExact ==
    index = {v \in DOMAIN heap : heap[v].there /\ heap[v].xmax = NO_TRANSACTION}

\* A version leaves the heap because its maker aborted or its deleter committed.
OnlyDeadReclaimed ==
    \A v \in DOMAIN heap :
        ~heap[v].there => \/ fate[heap[v].xmin] = "aborted"
                          \/ heap[v].xmax # NO_TRANSACTION /\ fate[heap[v].xmax] = "committed"

\* Only the dead leave: vacuum, rollback and delete take from the heap and from
\* the index what is dead there and nothing else.
OnlyDeadLeave == TypeOK /\ IndexIsExact /\ OnlyDeadReclaimed

\* Every version a snapshot shows to a scan is found by an index lookup.
IndexFindsVisible ==
    \A s \in Sessions : snap[s] # NoSnapshot => Shown(heap, snap[s]) \subseteq index

\* A transaction one of whose statements raised does not commit.
RaisedNeverCommits ==
    [][\A s \in Sessions :
          raised[s] /\ txn'[s] = NO_TRANSACTION => fate'[txn[s]] = "aborted"]_vars
=============================================================================

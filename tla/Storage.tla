------------------------------ MODULE Storage ------------------------------
(***************************************************************************)
(* The storage engine below SQL: the write-ahead log (engine/wal/log.py),  *)
(* recovery (engine/wal/recovery.py), the pager's write path, checkpoint   *)
(* and open (engine/storage/pager.py), page undo (engine/transaction) and  *)
(* the commit, rollback and checkpoint of engine/database.py.              *)
(*                                                                         *)
(* A page image is the LSN stamped in its header and the rows on it; a row *)
(* is the serial number of the write that made it, and writes[n] keeps the *)
(* xmin of row n, its page and what became of it. An LSN                   *)
(* counts records where the code counts bytes. The buffer pool may evict   *)
(* any page (its LRU order is the BufferPool module's subject). The data   *)
(* file is what the operating system would show a new process; the meta    *)
(* page is reduced to the two fields recovery depends on.                  *)
(***************************************************************************)
EXTENDS Integers, Sequences, FiniteSets, FiniteSetsExt, SequencesExt

CONSTANTS
    Pages,          \* heap pages of the database
    Capacity,       \* frames of the buffer pool, at least MIN_POOL_FRAMES
    UndoCap,        \* MAX_UNDO_BYTES, in page images
    MaxSessions,    \* transactions open at once
    MaxXid,         \* bound: transaction ids
    MaxWrites,      \* bound: page writes
    MaxLsn,         \* bound: LSN up to which a checkpoint is taken
    CrashPlan       \* CrashPlan[i][r]: the points where the i-th crash may strike,
                    \* when the ones before were all repaired (r), and when not

\* The crash actions at the end of the module say what each of them means.
CrashPoints == {"between", "flush", "torn tail", "torn head", "sync",
                "checkpoint flush", "truncated", "recovery", "reset"}

\* The points of a crash after which a restart leaves the files as they must
\* be for any further crash.
Repaired == {"between", "flush", "torn tail", "sync", "checkpoint flush", "recovery"}

ASSUME BoundsAssumption ==
    /\ IsFiniteSet(Pages) /\ Pages # {}
    /\ Capacity \in Nat /\ Capacity >= 2
    /\ {MaxSessions, MaxXid} \subseteq Nat \ {0}
    /\ {UndoCap, MaxWrites, MaxLsn} \subseteq Nat
    /\ CrashPlan \in Seq([BOOLEAN -> SUBSET CrashPoints])

VARIABLES
    disk,       \* the data file: disk[p] is a page image
    metaLsn,    \* checkpoint_lsn of the meta page; also the log's base_lsn
    metaXid,    \* next_xid of the meta page on disk
    log,        \* the log file: records, from base_lsn on
    buffer,     \* staged log records
    pool,       \* pool[p]: the frame of page p, or NoFrame
    undo,       \* undo[x]: the undo log of transaction x
    nextXid,    \* TransactionManager._next_id
    phase,      \* what the process is doing
    rolling,    \* during a rollback: the transaction and the pages to restore
    found,      \* highest_xid of the recovery report
    running,    \* transactions in progress
    writes,     \* history: page, transaction and fate of every write
    crashes     \* how many crashes so far, and whether all were repaired

memory == <<buffer, pool, undo, nextXid, running, rolling, found>>
files == <<disk, metaLsn, metaXid, log>>
vars == <<disk, metaLsn, metaXid, log, buffer, pool, undo, nextXid, phase, rolling,
          found, running, writes, crashes>>

Xids == 1 .. MaxXid
NO_TRANSACTION == 0
Rows == 1 .. MaxWrites
Images == [lsn : Nat \union {-1}, rows : SUBSET Rows]

NoImage == [lsn |-> -1, rows |-> {}]        \* no before-image
BlankImage == [lsn |-> 0, rows |-> {}]      \* a page as bootstrap left it
NoFrame == [image |-> NoImage, dirty |-> FALSE, resident |-> FALSE]
Frame(image, dirty) == [image |-> image, dirty |-> dirty, resident |-> TRUE]
Frames == [image : Images, dirty : BOOLEAN, resident : BOOLEAN]
UndoImages == [page : Pages, image : Images]
NoUndo == [captured |-> {}, images |-> <<>>]

Records == [type : {"update", "commit", "abort", "torn"}, txn : 0 .. MaxXid,
            page : Pages, hasUndo : BOOLEAN, before : Images, after : Images, lsn : Nat]

Fates == {"pending", "committed", "aborted"}

TypeOK ==
    /\ disk \in [Pages -> Images]
    /\ metaLsn \in Nat
    /\ metaXid \in 1 .. MaxXid + 1
    /\ log \in Seq(Records)
    /\ buffer \in Seq(Records)
    /\ pool \in [Pages -> Frames]
    /\ undo \in [Xids -> [captured : SUBSET Pages, images : Seq(UndoImages)]]
    /\ nextXid \in 1 .. MaxXid + 1
    /\ phase \in {"open", "rollback", "down", "redone", "restamped"}
    /\ rolling \in [txn : 0 .. MaxXid, todo : Seq(UndoImages)]
    /\ found \in 0 .. MaxXid
    /\ running \subseteq Xids
    /\ writes \in Seq([page : Pages, txn : Xids, fate : Fates])
    /\ Len(writes) <= MaxWrites
    /\ crashes \in [struck : 0 .. Len(CrashPlan), repaired : BOOLEAN]

Idle == [txn |-> NO_TRANSACTION, todo |-> <<>>]

\* A new database after its first checkpoint: empty pages, empty log.
Init ==
    /\ disk = [p \in Pages |-> BlankImage]
    /\ metaLsn = 1
    /\ metaXid = 1
    /\ log = <<>>
    /\ buffer = <<>>
    /\ pool = [p \in Pages |-> NoFrame]
    /\ undo = [x \in Xids |-> NoUndo]
    /\ nextXid = 1
    /\ phase = "open"
    /\ rolling = Idle
    /\ found = 0
    /\ running = {}
    /\ writes = <<>>
    /\ crashes = [struck |-> 0, repaired |-> TRUE]

\* A finite set of numbers as a list, the highest first and the lowest first.
Descending(S) ==
    CHOOSE s \in [1 .. Cardinality(S) -> S] : \A i, j \in DOMAIN s : i < j => s[i] > s[j]
Ascending(S) == Reverse(Descending(S))

---------------------------------------------------------------------------
(* The write-ahead log.                                                    *)

flushed_lsn == metaLsn + Len(log)
next_lsn == flushed_lsn + Len(buffer)

Record(type, txn, page, before, after, lsn) ==
    [type |-> type, txn |-> txn, page |-> page, hasUndo |-> before # NoImage,
     before |-> before, after |-> after, lsn |-> lsn]

AnyPage == CHOOSE p \in Pages : TRUE
Ending(type, x, lsn) == Record(type, x, AnyPage, NoImage, NoImage, lsn)
Torn == Ending("torn", NO_TRANSACTION, 0)

\* The LSN append_update gives an update: the staged tail's if it supersedes it.
supersedes(x, p) ==
    /\ buffer # <<>>
    /\ LET tail == Last(buffer) IN tail.type = "update" /\ tail.txn = x /\ tail.page = p

update_lsn(x, p) == IF supersedes(x, p) THEN Last(buffer).lsn ELSE next_lsn

\* append_update with the page image already stamped with update_lsn.
append_update(x, p, before, image) ==
    IF supersedes(x, p)
    THEN [buffer EXCEPT ![Len(buffer)].after = image]
    ELSE Append(buffer, Record("update", x, p, before, image, next_lsn))

\* Mutant: eviction never flushes the log.
never_flush(lsn) == FALSE

\* flush_through compares with >, so a record at flushed_lsn stays staged.
must_flush(lsn) == lsn > flushed_lsn

\* Whole records only: the scan stops at the first one that is torn or whose
\* header does not carry the LSN of the place it was found at.
read_all(records, base) ==
    LET whole(i) == records[i].type # "torn" /\ records[i].lsn = base + i - 1
        n == Max({k \in 0 .. Len(records) : \A i \in 1 .. k : whole(i)})
    IN  SubSeq(records, 1, n)

---------------------------------------------------------------------------
(* The pager's write path, undo and the buffer pool.                       *)

Resident == {p \in Pages : pool[p].resident}
DirtyPages == {p \in Pages : pool[p].dirty}

\* The data file once the frames of S have been written through.
Written(S) == [p \in Pages |-> IF p \in S THEN pool[p].image ELSE disk[p]]
Cleaned(S) == [p \in Pages |-> IF p \in S THEN [pool[p] EXCEPT !.dirty = FALSE] ELSE pool[p]]

\* Mutant: each write replaces the before-image of its page.
capture_latest(u, p, image) ==
    [captured |-> u.captured \union {p},
     images |-> SelectSeq(u.images, LAMBDA e : e.page # p) \o <<[page |-> p, image |-> image]>>]

\* UndoLog.capture: every page is marked, its image kept while there is room.
capture(u, p, image) ==
    IF p \in u.captured THEN u
    ELSE [captured |-> u.captured \union {p},
          images |-> IF Len(u.images) < UndoCap
                     THEN Append(u.images, [page |-> p, image |-> image])
                     ELSE u.images]

\* Mutant: a rollback trusts memory to hold every image.
overflow_ignored(u) == FALSE

overflowed(u) == Len(u.images) < Cardinality(u.captured)

\* Bring p into a frame, evicting v when the pool is full.
Fetch(p) ==
    /\ phase \in {"open", "rollback"}
    /\ ~pool[p].resident
    /\ \/ /\ Cardinality(Resident) < Capacity
          /\ pool' = [pool EXCEPT ![p] = Frame(disk[p], FALSE)]
          /\ UNCHANGED <<disk, log, buffer>>
       \/ /\ Cardinality(Resident) >= Capacity
          /\ \E v \in Resident :
                /\ pool' = [pool EXCEPT ![v] = NoFrame, ![p] = Frame(disk[p], FALSE)]
                /\ disk' = Written({v} \intersect DirtyPages)
                /\ IF pool[v].dirty /\ must_flush(pool[v].image.lsn)
                   THEN log' = log \o buffer /\ buffer' = <<>>
                   ELSE UNCHANGED <<log, buffer>>
    /\ UNCHANGED <<metaLsn, metaXid, undo, nextXid, phase, rolling, found, running, writes, crashes>>

\* Pager._write_at for transaction x: capture, log, stamp, store. The caller
\* has just read the page, so it is in a frame.
Write(x, p) ==
    LET row == Len(writes) + 1
        image == [lsn |-> update_lsn(x, p), rows |-> pool[p].image.rows \union {row}]
        before == IF p \in undo[x].captured THEN NoImage ELSE pool[p].image
    IN  /\ phase = "open"
        /\ x \in running
        /\ pool[p].resident
        /\ row <= MaxWrites
        /\ buffer' = append_update(x, p, before, image)
        /\ pool' = [pool EXCEPT ![p] = Frame(image, TRUE)]
        /\ undo' = [undo EXCEPT ![x] = capture(@, p, pool[p].image)]
        /\ writes' = Append(writes, [page |-> p, txn |-> x, fate |-> "pending"])
        /\ UNCHANGED <<files, nextXid, phase, rolling, found, running, crashes>>

---------------------------------------------------------------------------
(* Transactions: engine/database.py over the transaction manager.          *)

begin ==
    /\ phase = "open"
    /\ nextXid <= MaxXid
    /\ Cardinality(running) < MaxSessions
    /\ running' = running \union {nextXid}
    /\ nextXid' = nextXid + 1
    /\ UNCHANGED <<files, buffer, pool, undo, phase, rolling, found, writes, crashes>>

\* The pending writes of the transactions in S have met their fate.
Settled(S, fate) ==
    [n \in DOMAIN writes |->
        IF writes[n].txn \in S /\ writes[n].fate = "pending"
        THEN [writes[n] EXCEPT !.fate = fate] ELSE writes[n]]

Ends(x, fate) ==
    /\ running' = running \ {x}
    /\ undo' = [undo EXCEPT ![x] = NoUndo]
    /\ writes' = Settled({x}, fate)

\* Mutant: the COMMIT record is staged and not flushed.
commit_staged(x) ==
    /\ phase = "open"
    /\ x \in running
    /\ buffer' = Append(buffer, Ending("commit", x, next_lsn))
    /\ Ends(x, "committed")
    /\ UNCHANGED <<files, pool, nextXid, phase, rolling, found, crashes>>

\* The COMMIT record and everything staged before it are flushed and synced.
commit(x) ==
    /\ phase = "open"
    /\ x \in running
    /\ log' = log \o Append(buffer, Ending("commit", x, next_lsn))
    /\ buffer' = <<>>
    /\ Ends(x, "committed")
    /\ UNCHANGED <<disk, metaLsn, metaXid, pool, nextXid, phase, rolling, found, crashes>>

\* _restore_from_wal: the first before-image of x for each page, in log order.
wal_images(x, records) ==
    LET mine == {i \in DOMAIN records : records[i].txn = x /\ records[i].hasUndo}
        first == {i \in mine : \A j \in mine : j < i => records[j].page # records[i].page}
        keep == Ascending(first)
    IN  [i \in DOMAIN keep |->
            [page |-> records[keep[i]].page, image |-> records[keep[i]].before]]

\* rollback begins: what to restore is decided, from memory newest first, after
\* the log's images if memory could not hold them all.
rollback(x) ==
    /\ phase = "open"
    /\ x \in running
    /\ phase' = "rollback"
    /\ IF overflowed(undo[x])
       THEN /\ log' = log \o buffer
            /\ buffer' = <<>>
            /\ rolling' = [txn |-> x, todo |-> wal_images(x, read_all(log \o buffer, metaLsn))
                                                 \o Reverse(undo[x].images)]
       ELSE /\ rolling' = [txn |-> x, todo |-> Reverse(undo[x].images)]
            /\ UNCHANGED <<log, buffer>>
    /\ UNCHANGED <<disk, metaLsn, metaXid, pool, undo, nextXid, found, running, writes, crashes>>

\* restore_page: logged for no transaction and without a before-image.
restore_page ==
    LET p == Head(rolling.todo).page
        image == [lsn |-> update_lsn(NO_TRANSACTION, p), rows |-> Head(rolling.todo).image.rows]
    IN  /\ phase = "rollback"
        /\ rolling.todo # <<>>
        /\ pool[p].resident
        /\ buffer' = append_update(NO_TRANSACTION, p, NoImage, image)
        /\ pool' = [pool EXCEPT ![p] = Frame(image, TRUE)]
        /\ rolling' = [rolling EXCEPT !.todo = Tail(@)]
        /\ UNCHANGED <<files, undo, nextXid, phase, found, running, writes, crashes>>

\* log_abort: staged, not synced.
finish_rollback ==
    LET x == rolling.txn
    IN  /\ phase = "rollback"
        /\ rolling.todo = <<>>
        /\ buffer' = Append(buffer, Ending("abort", x, next_lsn))
        /\ Ends(x, "aborted")
        /\ rolling' = Idle
        /\ phase' = "open"
        /\ UNCHANGED <<files, pool, nextXid, found, crashes>>

---------------------------------------------------------------------------
(* Durability: sync, checkpoint, close.                                    *)

\* Pager.sync, which DDL and ANALYZE also call inside a transaction.
sync ==
    /\ phase = "open"
    /\ log' = log \o buffer
    /\ buffer' = <<>>
    /\ disk' = Written(DirtyPages)
    /\ pool' = Cleaned(DirtyPages)
    /\ UNCHANGED <<metaLsn, metaXid, undo, nextXid, phase, rolling, found, running, writes, crashes>>

\* Pages, CHECKPOINT record, truncation, then the meta page.
CheckpointFiles ==
    /\ next_lsn < MaxLsn
    /\ disk' = Written(DirtyPages)
    /\ log' = <<>>
    /\ metaLsn' = next_lsn + 1
    /\ metaXid' = nextXid

checkpoint ==
    /\ phase = "open"
    /\ running = {}
    /\ CheckpointFiles
    /\ buffer' = <<>>
    /\ pool' = Cleaned(DirtyPages)
    /\ UNCHANGED <<undo, nextXid, phase, rolling, found, running, writes, crashes>>

\* What a process has in memory is gone.
Forgotten ==
    /\ buffer' = <<>>
    /\ pool' = [p \in Pages |-> NoFrame]
    /\ undo' = [x \in Xids |-> NoUndo]
    /\ nextXid' = 1
    /\ running' = {}
    /\ rolling' = Idle
    /\ found' = 0

\* A clean shutdown, once every session has been rolled back.
close ==
    /\ phase = "open"
    /\ running = {}
    /\ CheckpointFiles
    /\ Forgotten
    /\ phase' = "down"
    /\ UNCHANGED <<writes, crashes>>

---------------------------------------------------------------------------
(* Recovery. Each pass is a loop over the records; its result for a page is*)
(* the last image the loop writes there, because LSNs grow along the log.  *)

Updates(records, p) ==
    {i \in DOMAIN records : records[i].type = "update" /\ records[i].page = p}

losers(records) ==
    LET seen == {records[i].txn : i \in DOMAIN records} \ {NO_TRANSACTION}
        finished == {records[i].txn :
                        i \in {j \in DOMAIN records : records[j].type \in {"commit", "abort"}}}
    IN  seen \ finished

highest_xid(records) == Max({records[i].txn : i \in DOMAIN records} \union {0})

redo(d, records) ==
    [p \in Pages |->
        LET newer == {i \in Updates(records, p) : records[i].lsn > d[p].lsn}
        IN  IF newer = {} THEN d[p] ELSE records[Max(newer)].after]

undoable(records) ==
    LET lost == losers(records)
    IN  {i \in DOMAIN records : /\ records[i].type = "update"
                                /\ records[i].hasUndo
                                /\ records[i].txn \in lost}

\* Backwards over the losers' before-images: the oldest is written last.
undo_pass(d, records) ==
    LET steps == undoable(records)
    IN  [p \in Pages |->
            LET mine == {i \in steps : records[i].page = p}
            IN  IF mine = {} THEN d[p] ELSE records[Min(mine)].before]

Recovered(d, records) == undo_pass(redo(d, records), records)

\* The compensation records, newest first, and an ABORT for every loser.
compensation(records, lsn) ==
    LET order == Descending(undoable(records))
        ended == Ascending(losers(records))
    IN  [i \in 1 .. Len(order) + Len(ended) |->
            IF i <= Len(order)
            THEN LET rec == records[order[i]]
                 IN  Record("update", rec.txn, rec.page, NoImage, rec.before, lsn + i - 1)
            ELSE Ending("abort", ended[i - Len(order)], lsn + i - 1)]

\* No whole record: nothing is recovered, and the log file is left as it is.
open_clean ==
    /\ phase = "down"
    /\ read_all(log, metaLsn) = <<>>
    /\ phase' = "open"
    /\ nextXid' = metaXid
    /\ UNCHANGED <<files, buffer, pool, undo, rolling, found, running, writes, crashes>>

\* recover(): the passes write the file, then the compensation is flushed.
open_recover ==
    LET records == read_all(log, metaLsn)
    IN  /\ phase = "down"
        /\ records # <<>>
        /\ disk' = Recovered(disk, records)
        /\ log' = IF losers(records) = {} THEN log
                  ELSE log \o compensation(records, flushed_lsn)
        /\ found' = highest_xid(records)
        /\ phase' = "redone"
        /\ UNCHANGED <<metaLsn, metaXid, buffer, pool, undo, nextXid, rolling, running, writes, crashes>>

\* Pager._recover, afterwards: the meta page first, then the log.
open_restamp ==
    /\ phase = "redone"
    /\ metaLsn' = flushed_lsn
    /\ phase' = "restamped"
    /\ UNCHANGED <<disk, metaXid, log, memory, writes, crashes>>

\* The log is emptied and ids continue past every one the log mentions.
open_reset ==
    /\ phase = "restamped"
    /\ log' = <<>>
    /\ nextXid' = Max({metaXid, found + 1})
    /\ found' = 0
    /\ phase' = "open"
    /\ UNCHANGED <<disk, metaLsn, metaXid, buffer, pool, undo, rolling, running, writes, crashes>>

---------------------------------------------------------------------------
(* Crashes.                                                                *)

\* The process dies at a point of the plan and leaves d and l in its files.
\* As far as the next open is concerned, a transaction the crash interrupts
\* has committed iff its COMMIT record is readable.
Dies(point, d, l) ==
    LET records == read_all(l, metaLsn)
        committed == {records[i].txn :
                        i \in {j \in DOMAIN records : records[j].type = "commit"}}
        fate(n) == IF writes[n].txn \in committed THEN "committed" ELSE "aborted"
    IN  /\ crashes.struck < Len(CrashPlan)
        /\ point \in CrashPlan[crashes.struck + 1][crashes.repaired]
        /\ crashes' = [struck |-> crashes.struck + 1,
                       repaired |-> crashes.repaired /\ point \in Repaired]
        /\ phase' = "down"
        /\ Forgotten
        /\ disk' = d
        /\ log' = l
        /\ writes' = [n \in DOMAIN writes |->
                        IF writes[n].fate = "pending"
                        THEN [writes[n] EXCEPT !.fate = fate(n)] ELSE writes[n]]
        /\ UNCHANGED <<metaLsn, metaXid>>

\* Between two steps: memory is lost, the files stay.
CrashBetween ==
    /\ phase \in {"open", "rollback", "redone"}
    /\ Dies("between", disk, log)

\* What a flush may be writing: the staged records, and the COMMIT record of
\* an interrupted commit.
Pending == {buffer} \union {Append(buffer, Ending("commit", x, next_lsn)) : x \in running}

\* In a flush, at a record boundary: a prefix of the records has arrived.
CrashInFlush ==
    /\ phase = "open"
    /\ \E pending \in Pending : \E n \in 0 .. Len(pending) :
          Dies("flush", disk, log \o SubSeq(pending, 1, n))

\* In a flush, within a record: part of the next one has arrived too.
CrashTearsRecord ==
    /\ phase = "open"
    /\ \E pending \in Pending : \E n \in 0 .. Len(pending) - 1 :
          LET l == log \o Append(SubSeq(pending, 1, n), Torn)
          IN  Dies(IF read_all(l, metaLsn) = <<>> THEN "torn head" ELSE "torn tail", disk, l)

\* In sync: the log is out, some of the dirty pages are.
CrashInSync ==
    /\ phase = "open"
    /\ \E S \in SUBSET DirtyPages : Dies("sync", Written(S), log \o buffer)

\* In a checkpoint's page flush, where flush_through decides about the log.
CrashInCheckpointFlush ==
    /\ phase = "open"
    /\ running = {}
    /\ \E S \in SUBSET DirtyPages :
          Dies("checkpoint flush", Written(S),
               IF \E p \in S : must_flush(pool[p].image.lsn) THEN log \o buffer ELSE log)

\* Between truncating the log and writing the meta page.
CrashAfterTruncate ==
    /\ phase = "open"
    /\ running = {}
    /\ Dies("truncated", Written(DirtyPages), <<>>)

\* In recovery, with each page as found, as redone, or as undone.
CrashInRecovery ==
    LET records == read_all(log, metaLsn)
        redone == redo(disk, records)
        undone == undo_pass(redone, records)
    IN  /\ phase = "down"
        /\ records # <<>>
        /\ \E S, T \in SUBSET Pages :
              Dies("recovery",
                   [p \in Pages |-> IF p \in S THEN undone[p]
                                    ELSE IF p \in T THEN redone[p] ELSE disk[p]],
                   log)

\* Between the meta page and the log's reset at the end of recovery.
CrashBeforeReset ==
    /\ phase = "restamped"
    /\ Dies("reset", disk, log)

---------------------------------------------------------------------------
Stop == \* every bound is used up
    /\ phase = "open"
    /\ nextXid > MaxXid
    /\ running = {}
    /\ UNCHANGED vars

Transact == \E x \in Xids : commit(x) \/ rollback(x) \/ \E p \in Pages : Write(x, p)
Maintain == sync \/ checkpoint \/ close
Restart == open_clean \/ open_recover \/ open_restamp \/ open_reset
Die == CrashBetween \/ CrashInFlush \/ CrashTearsRecord \/ CrashInSync \/ CrashInCheckpointFlush
          \/ CrashAfterTruncate \/ CrashInRecovery \/ CrashBeforeReset

Next ==
    \/ begin
    \/ Transact
    \/ restore_page \/ finish_rollback
    \/ \E p \in Pages : Fetch(p)
    \/ Maintain
    \/ Restart
    \/ Die
    \/ Stop

Spec == Init /\ [][Next]_vars

---------------------------------------------------------------------------
(* Correctness.                                                            *)

\* What the next open would read from the files if the process died now.
Stable ==
    LET recovered == Recovered(disk, read_all(log, metaLsn))
    IN  [p \in Pages |-> recovered[p].rows]

\* The rows that should be there: those of the transactions that committed.
Committed ==
    [p \in Pages |-> {n \in DOMAIN writes : writes[n].page = p /\ writes[n].fate = "committed"}]

\* What the open database returns; an unfinished rollback or recovery is not
\* observable.
View == IF phase = "open"
        THEN [p \in Pages |-> IF pool[p].resident THEN pool[p].image.rows ELSE disk[p].rows]
        ELSE Committed

\* Whatever was flushed, written back or half recovered so far, the data file
\* and the log put through recovery give exactly the committed work: nothing
\* of a transaction that did not commit, everything of one that did. So it is
\* through any crashes of the kinds a restart repairs.
ExactlyCommittedSurvives == TypeOK /\ (crashes.repaired => Stable = Committed)

\* One session: transactions are atomic and durable. A step of the engine is,
\* to whoever reads the pages, a write, a commit, an abort that brings back
\* the committed work and nothing else, a crash that does the same, or nothing.
Store == INSTANCE AtomicStore WITH
            view <- View, stable <- Committed, written <- DOMAIN writes
AtomicAndDurable == Store!Spec

\* Every row on a page was made by an id the running process considers
\* assigned; one it does not is invisible to every snapshot, and would be
\* given out a second time.
RowsHaveKnownXids ==
    phase = "open" => \A p \in Pages : \A n \in View[p] : writes[n].txn < nextXid

\* An aborted transaction's rows are physically gone.
AbortedRowsGone ==
    phase = "open" => \A p \in Pages : \A n \in View[p] : writes[n].fate # "aborted"

\* The rows of an acknowledged commit are where they were written.
CommittedRowsStay ==
    phase = "open" =>
        \A n \in DOMAIN writes : writes[n].fate = "committed" => n \in View[writes[n].page]

\* The write-ahead rule: a page in the data file does not run ahead of the log.
WriteAhead == phase \in {"open", "rollback"} => \A p \in Pages : disk[p].lsn < flushed_lsn

\* What flush_through does guarantee: at most the record at flushed_lsn, the
\* first staged one, can be missing.
WriteAheadButOne ==
    phase \in {"open", "rollback"} => \A p \in Pages : disk[p].lsn <= flushed_lsn
=============================================================================

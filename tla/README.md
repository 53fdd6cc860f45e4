# ChenDB in TLA+

ChenDB is a small relational database in Python: a page store with a buffer
pool and a write-ahead log, transactions with snapshots and row locks, B+ tree
indexes, a SQL planner and executor, and an HTTP server that can run a query one
operator at a time for a visual explorer. This directory holds a model of its
core: TLA+ modules translated from `engine/`, TLC configurations that check them
on small instances, and proofs that TLAPS checks for every instance.

    tlc -workers 2 -config LockModes.cfg MCLockManager      # one run
    tlapm LockManagerProofs.tla                             # the proofs of one module

`PROJECT.json` lists the components, the runs, the source lines behind every
definition, a mutation of the code for every property, and the hazards.

## 1. The system

| Part | State it keeps | Operations | Used by |
|---|---|---|---|
| Lock manager (`concurrency/locks.py`) | lock table, reverse index, waiters, victim marks | `acquire`, `release_all` | row operations of the database |
| Write-ahead log and recovery (`wal/`) | records staged in memory, records in the file, base LSN | append, coalesce, flush, checkpoint, reset, analyse/redo/undo | pager |
| Pager (`storage/pager.py`, `meta.py`) | data file, meta page, free list | read, write, restore, sync, checkpoint, open, close, abandon | heap files, B+ tree, database |
| Buffer pool (`storage/buffer.py`) | frames, free stack, page table in LRU order | fetch, store, invalidate, flush, clear | pager |
| Undo log (`transaction/undo.py`) | first before-image of each page, up to a cap | capture, rewind | pager, rollback |
| Transaction manager (`transaction/manager.py`) | open transaction of each session, next id, frozen id, snapshots | begin, commit, rollback, mark_failed, snapshot_for | database |
| Snapshots (`concurrency/snapshot.py`) | what one transaction may see | take, sees, visible | every scan |
| Database facade (`database.py`) | the parts above | insert, update, delete, scan, vacuum, checkpoint, close | executor, server |
| Statement execution (`executor/engine.py`) | the statement's snapshot and plan | `execute_statement`, `execute_script` | server |
| Step mode (`executor/controller.py`, `server/executions.py`) | one controller per execution, registry of threads | checkpoint, resume, cancel, start, reap, shutdown | HTTP routers |
| Workspace (`server/workspace.py`) | open handles, one lock per handle | get, create, close, delete, crash, eviction | HTTP routers |
| Slotted pages and heap files (`storage/page.py`, `heap.py`) | slots and free space of a page, the chain of a file's pages | insert, delete, compact, extend | catalog, database, B+ tree |
| B+ tree (`index/`) | nodes on pages, root | insert with splits, delete, search, range scan | database, index scans |
| Catalog (`catalog/`) | three system tables, their ends in the meta page, caches of descriptors, heaps and trees | bootstrap, create_table, create_index, heap_for, invalidate | database, binder |
| Parser (`parser/`) | position and depth | tokens to statements | executor, server |
| Binder, operators, expressions (`executor/`) | none across statements | names to positions, rows to rows, a row to a value | executor |
| Optimizer and planner (`optimizer/`, `planner/`) | statistics of each table | rewrite, push down, choose access paths and join orders, gather, estimate | executor |
| Events, tracer, sinks (`diagnostics/`) | ring buffer, list of sinks | emit, record, snapshot | everything |

How they interact. A write takes a row lock, captures the page's before-image,
appends (or coalesces) a log record and dirties a frame; eviction may steal the
page, after flushing the log through its LSN. Commit flushes the log, and is the
only thing that does so for durability. Rollback puts before-images back from
the undo log, or from the write-ahead log past the cap. Opening a file runs
recovery. A reader takes a snapshot from the transaction manager and filters row
versions with it. The server serialises the engine with one lock per database;
a stepped query holds it while it is paused.

What is hard. Threads blocked on row locks, with deadlock detection by whoever
waits last; a crash between any two writes to the log, the data file or the meta
page, and another during recovery; the order of page, log record and meta page;
locks per row but undo per page; snapshots that must not move while other
transactions commit, roll back and vacuum; an execution's engine thread, its
driver and the reaper meeting on one condition variable while a database lock is
held; handles closed by one request while another waits for them; a page chain, a
tree and a catalog that must describe one another through splits, failures and
rollbacks; and a planner that moves predicates and joins about under three-valued
logic, where a wrong move shows only on some rows.

What makes each part correct. Locks: mutual exclusion, two consistent indexes,
no undetected deadlock, every wait ends. Log and recovery: exactly the committed
work survives, and ids are never given out twice. Buffer pool: a read returns the
last write, no frame is lost. Versions: a snapshot sees exactly what was
committed when it was taken and keeps seeing it; one live version per row; vacuum
takes only what nobody can see. Step mode: a pause is one somebody asked for, the
registry is bounded, no thread is left behind. Workspace: one handle per file,
none left open, every request answered. Pages, heap and tree: exactly the rows that
were written, found by every search and range. Catalog: pages, caches and names
agree, whatever failed in between. Queries: the answer is the statement's meaning
under every plan; a script is all or nothing.

## 2. The modules

| Module | Models | One step is |
|---|---|---|
| `LockManager` | `LockManager` of `locks.py` | what a thread does under the mutex: `acquire` until it returns, raises or waits; a wake-up; `release_all` |
| `Storage` | log, pager's write path, undo log, recovery, and the calls of `Database` that drive them | one call of the engine, one step of a rollback or of an opening, or a crash at a named point |
| `AtomicStore` | what `Storage` promises: a view that transactions change and a stable part that a crash falls back to | write, commit, abort, crash |
| `BufferPool` | `buffer.py` | one method |
| `PageMemory` | what the pool promises: a memory of page images | load, store |
| `Mvcc` | snapshots, sessions, row operations, vacuum, what a failing statement does to its transaction | one statement, or one half of a statement that waited for a row lock |
| `StepMode` | `controller.py`, `executions.py`, the fanout of `sink.py`, the lock of a `ManagedDatabase` | what runs under one mutex, or between two |
| `Workspace` | `workspace.py` and the handlers that use it | what a request's thread does between two points where another can get in |
| `SlottedPage`, `PageStore`, `BPlusTree` | `page.py`; allocation of `pager.py` with `heap.py`; `index/` | operators from pages to pages |
| `Table` | one table and its index as `Database` writes them | one statement, BEGIN, COMMIT, ROLLBACK, vacuum, CREATE INDEX, reopening |
| `Catalog` | `catalog.py` | operators from a catalog value to the next |
| `Ddl` | the statements that define and grow tables | one statement, a look-up, BEGIN, COMMIT, ROLLBACK, reopening |
| `Expression`, `Operators` | `expression.py`, `operators.py` | operators: a row to a value, sequences of rows to a sequence of rows |
| `Binder`, `Rules`, `Physical`, `Engine` | `binder.py`; `rules.py`, `nullability.py` and `logical.py`; `physical.py`; `engine.py` | operators: a statement to the set of results its plans may have |
| `Statistics` | `statistics.py` and the estimates of `cost.py` | operators |
| `Parser` | `parser.py` | operators: tokens to statements |
| `Reference`, `Printer` | what a statement means; how it is written | the definitions the engine and the parser are compared with |
| `Query` | parse, `execute_script` and the statistics cache | parsing, one statement, an ANALYZE, the end of a script |
| `MC...` | - | symmetry sets, crash plans, tables and scripts for TLC |
| `LockManagerProofs`, `BufferPoolProofs`, `MvccProofs`, `StepModeProofs`, `WorkspaceProofs`, `StorageProofs` | - | the theorems about the module each is named after |
| `StorageRecoveryProofs` | - | atomicity and durability of `Storage`, on top of `StorageProofs` |
| `SequenceFacts` | - | lemmas about lists (append, remove, front, tail) that those proofs share |

Operators named in Python style (`append_update`, `should_pause`) are the
functions of that name; names in capitals and initials are the model's own. A
definition marked *Mutant* is not part of any specification: it is a wrong
version of the definition after it, and a property has to notice it.

**LockManager.** `holders[r][t]` is `entry.holders`, `heldBy` its reverse index,
`waiters` the queue, `victims` the marks, `pc[t]` where transaction t's thread
is. Transaction ids are numbers because the victim is the youngest. `Expire` lets
a deadline pass at any moment of a wait. `MaxRequests` bounds the calls of a run.

**Storage.** A page image is the set of rows on it with the LSN that stamped it;
a row is the serial number of the write that made it, so that losing, reviving
and duplicating a row can be told apart. An LSN counts records, where the code
counts bytes; whether a checksum matches is whether a record is whole. The log in
the file is a sequence with possibly a torn record in it, and `read_all` stops
there. `CrashPlan` says where the i-th crash may strike, according to whether the
crashes before it were all of the kinds a restart repairs. The points are: between
two calls, inside a flush (any prefix of the staged records arrives, the last one
perhaps torn, at the head or the tail of the log), inside `sync`, inside a
checkpoint's flush, between the checkpoint's truncation and its meta page, during
recovery, and between recovery's meta page and its reset of the log. The compensation
records of a recovery reach the log in one step. `running` and `writes` (with the
fate of each write) are history: no guard reads `writes`.

**Mvcc.** Each version has a slot and a page of its own, so that undo takes back
what its transaction did and no more; what happens when sessions share a page is
Storage's subject. A row lock is granted, waited for or refused here; who waits
for whom is LockManager's subject. A change that waits is split in two actions,
and the second re-reads the row, as `_claim_row` does. `ByAddress` switches on
changes made through the embedded API, by record id and without a snapshot.

**BufferPool.** `resident` is the page table in LRU order, `free` the stack of
free frames, `file` what is on disk, `touched` the history LRU is compared with.

**StepMode.** `ctrl[e]` is a `StepController`, `thread[t]` where a thread is,
`sinks` the fanout's list. The three terminal states are one, because nothing
that is checked tells them apart; `steps_taken`, partial rows and the wording of
reasons are left out. Time is the set `idle`: an execution in it has not been
touched for the idle timeout. An event is delivered to a *copy* of the sinks, one
sink per step, by whatever thread emitted it, as in `FanoutSink.record`; an
exception raised in a sink is swallowed. The timeouts of waits and joins may fire
at any moment. `MaxSteps` bounds the checkpoints and events of one
query, `Brief` names the threads whose query has one, and `Targets` the operators that
clients run to.

**Workspace.** Three kinds of step: under the table's lock, under a handle's lock,
and looks at the file system outside of both. A file has an identity (its inode), so
that a path deleted and created again is told from the file it named before. Each
database has one row, so that two sessions can conflict; a statement that waits for
it keeps the handle's lock, as the code does. `strays` is a ghost: handles opened
between the halves of a delete.

**Table.** A version has an identity; the ghost `want` says which versions the
statements so far have left, and where. Payload bytes are abstracted to the value
they encode, but where they lie on the page is kept, so that overlapping payloads
would be seen. Index keys are ranks in the order of the encoded bytes, with the
width of each encoding, because widths decide where a node splits.

**Catalog and Ddl.** System tables are heaps of rows of one size; the meta page
keeps the ends of each chain; the open catalog caches descriptors, heaps and trees.
An INSERT appears as far as it makes a heap or a tree grow and so calls back into
the catalog. `truth` is what the statements so far have defined, by name.

**Query.** The pipeline is written as the code has it: a bound statement becomes a
logical plan, the rules rewrite it, the planner pushes conjuncts down and builds
*every* plan its search could return (costs are left out, so any of them may be the
cheapest, as with stale statistics), and each is materialised and run. `Reference`
is the other side: rows as environments, joins in written order, logic as the
lattice FALSE < UNKNOWN < TRUE, no plan; only the representation of values and trees
is shared. A statement whose evaluation could raise on some row has no defined
answer there, because SQL leaves the order of evaluation open. Integers have a
small width, and floats are exact rationals; integers above `ExactInDouble` round
when they become float keys, as 2^53 + 1 does. Text is a rank. The tables
are those of one session's snapshot, with versions it does not see.

## 3. The runs

All bounds are in the `.cfg` files. Passing runs:

| Run | Shows | Size |
|---|---|---|
| `lock_modes` | three transactions, both modes, two rows, upgrades, timeouts and the lock limit: `MutualExclusion`, `IndexesAgree`, `VictimsAreBlocked`, `OldestNeverVictim`, `StrictTwoPhase` | three transactions give an upgrade racing two others and cycles of two and three |
| `lock_deadlock` | with exclusive locks, the only ones the engine takes: `NoSleepingCycle`, `EveryTransactionEnds` without any deadline | three rows, so that three transactions can close a cycle |
| `storage_crash` | `Storage` implements `AtomicStore` through a crash at *any* point and a second one (of a kind a restart repairs, or at the end of the recovery from the first); `ExactlyCommittedSurvives` through crashes of the repaired kinds | one session, two pages, three writes |
| `storage_eviction` | with stolen pages: `WriteAheadButOne`, and `AtomicStore` through rollbacks that need the log's images | three pages in two frames |
| `mvcc_sessions` | both isolation levels, changes that wait, vacuum, checkpoint: `SnapshotIsExact`, `StableSnapshots`, `NoLostUpdate` (one live version of a row, and an unfinished change is locked), `OnlyDeadLeave` (the index is exact, and vacuum reclaims only what nobody can see) | two sessions, four transactions, three versions of one row: a reader, a writer, and a writer after it |
| `buffer_pool` | `FramesAccounted`, `MostRecentResident` (exact LRU), and `ReadsLastStore`: the pool implements `PageMemory` | four pages in three frames, so that a hit can change which page goes |
| `step_mode` | `PauseIsAsked`, `EvictedIsCancelled` (and the registry is bounded), `CancelFreesLock`, `AbandonedDrains` with a plain query on the same database | a registry of one and two executions, so that a start evicts; they contend for one lock. One of them takes two steps through a plan of two operators, so that a query can open, run to the operator it was told and pass the other by; the other and the plain query take one each |
| `workspace` | `TwoHandlesOnlyWhileClosing`, `TableHoldsLiveHandles` (a handle outside the table is one a delete let in), `NothingLeftOpen`, `EveryRequestAnswered` | three requests on two databases of which one can be open: every open evicts, and a third request gets between two that conflict |
| `table` | `HeapHoldsWhatWasWritten`, `FileIsSound` (pages are sound and owned once), `TreeIsSound`, `IndexFindsTheRows` (every search, every range) | pages that hold two or three rows; from an empty table, from two rows, and from six whose tree has three levels, so that splits reach the root and a run of equal keys straddles leaves |
| `ddl` | `AppendsAtTheEnd`, `DefinitionsAreWhole` (names and ids are unique, primary keys are indexed), `PagesHoldTheCatalog`, `CachesAgree` | four statements over two tables and two spellings of one name, one transaction, pages of two catalog rows, so that every system table grows |
| `query` | `ParseInvertsPrint`, `AnswerIsRight`, `WritesAreExact`, `FailuresLeaveNothing` (a failed script leaves tables and statistics as they were), `EstimatesAreExact` (complete lists count exactly, histograms are even) | three databases of five tables with NULLs, duplicates, indexes and dead versions; scripts of one to three statements over every clause, join kind and operator, and garbled texts |

The run that finds a disagreement between the code and what it says of itself:

| Run | What happens |
|---|---|
| `ddl_first_session` | `bootstrap` makes the system heaps without the callback that records a new last page. In the session that creates the file a system table that grows leaves the meta page naming its first page; after a reopen the catalog appends in the middle of the chain and cuts off the rows behind. In the `ddl` run only the first statement runs in that session, so that the pages are full later. |

Further counterexamples were met while modelling. They bound what the passing runs
claim, which is why those runs have one session, name their crash points, or have
enough frames. Each is one configuration away: the file named, with the property put
in its place. Where a file serves several, its comment or the row names the constant
to change:

| Configuration | Property | What happens |
|---|---|---|
| `StorageLostRow.cfg` | `CommittedRowsStay` | Two sessions insert into one page. One commits; the other rolls back, and its page-wide before-image (`database.py:442`) erases the committed row. |
| same | `AbortedRowsGone` | Two transactions that wrote one page roll back in the order they began: the second image brings the first one's row back. |
| `StorageRestart.cfg` | `CommittedRowsStay` | A log that holds only a torn record is not reset; what commits next is behind it and unreadable. |
| same, `TruncatedThenCrash` | `CommittedRowsStay` | A crash between the checkpoint's truncation and its meta page leaves page LSNs above the log's base; later updates are skipped by redo. |
| same, `CrashInResetThenCrash` | `CommittedRowsStay` | A crash between recovery's meta page and its reset leaves old records in front of the new ones. |
| same, `CrashTwice` | `RowsHaveKnownXids` | Recovery empties the log without saving the next id. After another crash before a checkpoint, ids of committed rows are handed out again. |
| `StorageStolenLoss.cfg`, `NoCrash` | `WriteAhead` | `flush_through` compares an inclusive LSN with an exclusive one, so the first staged record stays behind the page it describes. |
| `StorageStolenLoss.cfg` | `CommittedRowsStay` | After such a steal the next write coalesces into the staged record, under an LSN the file already carries; redo skips it. |
| `MvccSessions.cfg` | `RaisedNeverCommits` | A statement fails in a session other than the default one. `mark_failed()` (`engine.py:598`) marks the default session's transaction, so the client's `COMMIT` keeps half of the work. |
| same | `IndexFindsVisible` | A delete removes the index entry at once; an older snapshot finds the row by a scan and not by the index. |
| same, `ByAddress = TRUE` | `OnlyDeadReclaimed` | A transaction without a snapshot deletes by address; vacuum reclaims the row before it commits. |
| `LockModes.cfg` | `NoSleepingCycle` | A request blocked by two shared holders closes two cycles; the search stops at the first and the second sleeps until a timeout. The engine takes no shared locks. |
| `StepMode.cfg` | `NoOrphanedThreads` | An execution releases the database lock before it leaves the fanout (`executions.py:191`), still armed. A plain query's page read then pauses *that query*, with the lock, in the ended execution's controller, where after an eviction no call can reach it. |
| `Workspace.cfg` | `TableMatchesDisk` | `delete` closes the handle, then unlinks. A request in between opens the file again and works on a file that has no name any more. |
| same | `CreateIsExclusive` | Two creates of one name both find no file; the second returns the first one's handle as if it had made the database. |
| same | `SessionsEndTheirOwn` | A request for another database evicts a handle and with it rolls back the open transactions of its sessions. |
| `TableIndexDead.cfg` | `EntriesPointAtRows` | CREATE INDEX indexes versions that are deleted and not yet vacuumed; vacuum does not remove their entries, which then point at reused slots (`operators.py:582` says it cannot happen). |
| same, `OneWide` | `SplitsAreNeverRefused` | With one entry almost as wide as a page no split point leaves both halves in bounds, though `plan_split` says "That range is never empty". |
| `Ddl.cfg` | `OneNamespace` | A table may take the name of an index and the other way round. |
| `QueryWrong.cfg` | `AnswerIsRight` | `2 IN (NULL, 2)` is NULL: after a NULL item the later ones are not compared (`expression.py:186`). |
| same, `MCOuterJoin` | `AnswerIsRight` | A WHERE conjunct over two tables is applied at the inner join below a RIGHT or FULL join, and an inner join's condition that reads no table floats to the top. |
| same, `MCProjection` | `AnswerIsRight` | `SELECT a.* FROM a JOIN b` is taken for the identity, because it is compared with the first scan's schema (`rules.py:297`), and answers the columns of both. |
| same, `MCHavingIn` | `AnswerIsRight` | An IN list over a group's key is not rewritten onto the grouped row, so HAVING reads the wrong column. |
| same, `MCAnalyzed` | `EveryBoundIsExact` | `x <= v` with v absent from a complete list counts one row too many. |

`StorageCrash.cfg` takes checkpoints up to LSN 5, so that one can complete over pages a
committed transaction left dirty. It also passes with an undo cap of one page and
`RepairedTwice`, so that a rollback after a crash reads the log.

`StepMode.cfg`: with a registry of one, an execution that holds the lock never meets
another one's controller that is neither cancelled nor over, so the exception
`CancelFreesLock` makes is not used there. It is with `MaxExecutions = 2`: the
invariants hold (2,013,478 states), and, with one operator, step mode and no
`operator_next`, so do the two liveness properties (549,491), while `CancelFreesLock` without its exception
fails: a query's own event can pause it in the controller of an execution that has
released the lock and is still subscribed, as in the row of `NoOrphanedThreads` above.

`WriteAheadButOne` is the rule as `flush_through` keeps it and is one record weaker than
the rule it states (the row of `WriteAhead`). `AnswerIsRight` passes on scripts without
the constructs of `QueryWrong.cfg`, and says nothing of those. In `Table` a statement
writes the catalog's rows together with the heap and the tree; whether the code's
callbacks do is the subject of `Ddl`. `PageMemory` lets any step give up a page
(`Drop`), because its state does not say which calls the pager makes: that no other
call drops one shows in the proof of the refinement, not in its statement.

Fairness. `LockManager`: a notified thread gets the mutex (`WF` on `Wake`), and a
client whose call has returned ends its transaction (`WF` on `release_all`); no
deadline is assumed to pass. `StepMode`: engine threads and the store's workers
run (`WF` on their steps, which includes a thread blocked on the database lock
getting it once it stays free), and somebody goes on calling the store, because every
call reaps and nothing else does. That an abandoned execution's idle timeout has passed
is the premise of `AbandonedDrains`. The assumption about calls matters: plain queries do not reap, so a server that receives only those keeps an
abandoned execution, and its lock, for good. `StepMode` may stop (a server that
has been shut down), so its run does not look for deadlock. `Workspace`: a thread
that can run does, and gets a lock that stays free (`WF` on each request's steps,
the timeout of a row-lock wait among them, which the lock manager always sets); the
server may have stopped. `Table`, `Ddl` and `Query` end when their statements are
used up. The other runs look for deadlock.

Symmetry is used for rows and pages, only in runs without liveness.

## 4. The proofs

Every theorem holds for all values of the constants that meet the named assumptions
of its module: any number of transactions, rows, pages, frames, sessions, requests
and executions, and any bound. TLC evaluates the assumptions in the runs.

| Module | Theorem | Property |
|---|---|---|
| `LockManagerProofs` | `TypeCorrect` | `TypeOK` |
| | `LocksExclude` | `MutualExclusion` |
| | `IndexesStayEqual` | `IndexesAgree` |
| | `MarksAreConsumed` | `VictimsAreBlocked` |
| | `OldestSurvives` | `OldestNeverVictim` |
| | `TwoPhase` | `StrictTwoPhase`, an action property |
| | `DeadlocksAreFound` | `NoSleepingCycle`, when `Modes = {"exclusive"}` |
| `BufferPoolProofs` | `FramesAreAccounted` | `FramesAccounted` |
| | `EvictionIsLRU` | `MostRecentResident` |
| | `PoolImplementsMemory` | `ReadsLastStore`: the pool refines `PageMemory` |
| `MvccProofs` | `UpdatesAreKept` | `NoLostUpdate`, when `ByAddress = FALSE` |
| | `VacuumTakesTheDead` | `OnlyDeadLeave`, when `ByAddress = FALSE` |
| | `SnapshotsAreExact` | `SnapshotIsExact`, an action property, when `ByAddress = FALSE` |
| | `SnapshotsAreStable` | `StableSnapshots`, an action property, when `ByAddress = FALSE` |
| `StepModeProofs` | `PausesAreAsked` | `PauseIsAsked` |
| | `EvictedAreCancelled` | `EvictedIsCancelled` |
| `WorkspaceProofs` | `TwoHandlesRarely` | `TwoHandlesOnlyWhileClosing` |
| | `TableIsLive` | `TableHoldsLiveHandles` |
| | `AllIsClosed` | `NothingLeftOpen` |
| `StorageProofs` | `LogIsAhead` | `WriteAheadButOne`, as long as no crash has struck between truncating the log and writing the meta page |
| | `StorageIsTyped` | `TypeOK` |
| `StorageRecoveryProofs` | `CommittedWorkSurvives` | `ExactlyCommittedSurvives`, with one session and no eviction |
| | `EngineIsAtomic` | `AtomicAndDurable`: `Storage` refines `AtomicStore`, with one session, for crashes that a restart repairs without eviction, or for eviction without crashes |

None of these invariants is inductive alone. Each module states an `IInv` that is
(TLC checked it on the run's instance, where it was found and strengthened), shows
that every action keeps it, one lemma per action, and derives the theorems. All
assumptions are in the modelled modules: the numbers are naturals, sets that are
searched are finite, what must exist is there.

**LockManager.** Assumptions: `Txns` is a finite set of natural numbers, there is at
least one row and at least one mode out of shared and exclusive, and the two limits
are natural numbers. `MutualExclusion` needs
that a granted request was tested against the holders, and `grant` writes both
indexes, so it goes together with `IndexesAgree`. That an ended transaction holds
nothing needs that whoever is blocked does not hold what it asked for in that
mode (`BlockedLacksLock`) and is listed among the waiters (`WaitersListed`).
`OldestNeverVictim` needs that each mark names somebody blocked
(`VictimsAreBlocked`) with an older transaction alive in its cycle
(`VictimsHaveElders`), which is what choosing the maximum of a cycle of at least
two gives. For these theorems only this is used of the search (lemma
`CycleMembers`): each member of a cycle it returns waits for somebody, and the cycle
has at least two members. The transaction the search started from need not be one of
them. `DeadlocksAreFound` needs more: with exclusive locks a row has one holder, so a
waiter has one edge; a walk from a member of a closed set of sleepers never ends, and
because no path is longer than the number of transactions it runs into a cycle, which
the search returns. The hypothesis is what the engine does, and it is necessary:
with shared locks the property fails (section 3).

**BufferPool.** `NoPage` must not be a page. The page table is a map
(`TableIsAMap`), the stack holds each free frame once and together with the table
every frame (`StackIsFree`), a clean frame holds what the file holds
(`CleanIsWritten`), and the history lists a page once (`TouchedOnce`). LRU is then
that the table is a suffix of the history. For the refinement, a fetch or a flush
changes neither what is read nor, because of `CleanIsWritten`, what an eviction
leaves; a store changes one page of it.

**Mvcc.** `ByAddress = FALSE`: rows are changed by statements, under a snapshot, as
every SQL statement does. The embedded API by record id is excluded because
`OnlyDeadReclaimed` fails there (section 3). Ids are handed out once (`IdsAreFresh`); the
versions of a row form a chain in which each earlier one was replaced for good or by
the maker of the later one (`RowsAreChains`); what is unfinished is in the heap and
locked (`UnfinishedIsThere`); an aborted transaction leaves nothing
(`NothingAborted`); a snapshot belongs to an open transaction and shows nobody who
was running when it was taken (`SnapshotsAreKept`). The link between vacuum and
rollback is `ChangersHaveSnapshots`: whoever has deleted a version holds a snapshot,
so vacuum's horizon stays below it and the version it may still restore is there.

**StepMode.** Executions and queries are different threads. A controller reports its
end only when its thread is through (`EndedIsDone`), so an eviction that prefers ended
executions drops nothing alive without cancelling it; hence `LiveIsKnown`: a live
thread is in the registry or told to stop. Only a live thread can pause, so a paused
one that nobody can name has been cancelled. `PauseIsAsked` is inductive with the
types, given that a delivery and a client's action have somebody as their object.

**Workspace.** Everything rests on who may close a handle: whoever took it out of
the table (`ClosersOwn`, `LiveIsKept`), with the table's lock held during an eviction
(`EvictorHoldsTable`). What a delete finds in the table when it unlinks came after
its close (`DeleteMeetsStrays`). After the last request nothing is in the table and
nobody is closing, so nothing is live.

**Storage.** Every LSN is bounded by the place of the record that gave it out: the
i-th record from base b has LSN at most b + i - 1 and its images none newer
(`RecordsBounded`), for the file and for the staged records; a dirty frame's LSN lies
below the end of the log and a clean one's at most there (`FramesBounded`); no page
of the file has passed `flushed_lsn` (`PagesBounded`). Merging an update into the
staged tail keeps the tail's LSN, redo and undo write images of records that are in
the log, compensation records are newer than the images they carry, and an eviction
that does not flush has compared the frame with `flushed_lsn`. While a database is
being opened memory is empty (`QuietMemory`), which is why restamping the meta page
before the log is reset loses no bound. The theorem covers torn records and a crash
before that reset; it excludes the crash after a truncation, where the property is
false until the log has caught up (section 3, `TruncatedThenCrash`).

**Storage, recovery.** `ExactlyCommittedSurvives` is about what redo and undo would
make of the files *if* the engine stopped now. It is not inductive because the next
flush decides how many of the staged records are in the file, and because a commit
record turns what undo would have removed into what redo has to keep. The invariant
`Atomic` therefore speaks of places in the log. `AllRecords` is the file's records
with the staged ones behind; for every place k from the end of the file to the end of
the buffer, and every page, `SoundTo` says that recovery of the first k records gives
the committed rows: either a transaction unfinished at k left a before-image of the
page (`Covered`), and every such image has the committed rows (`ImagesOf`), or the
last update that is newer than the page in the file has them, or there is none and
the file has them (`RedoneRows`). Coalescing changes the tail in place, so it moves
no place; a commit is one more record and makes nobody but its own transaction
finished, whose last updates are what the frames hold (`Redone`, for the whole of
`AllRecords`); a rollback writes redo-only records under no transaction, and a page
that is no longer in its list has one as its last (`LastIsRestore`), so that the
abort record loses nothing. Beside this the invariant ties memory to the log: the one
running transaction owns what is pending and has captured each page it wrote, in
memory or, past the cap, in the log (`UndoIsCommitted`, `LogKnowsTransactions`); a
clean frame agrees with the file (`FramesAgree`); at each staged update some
transaction is unfinished, and an update whose transaction has ended is followed by
another of its page (`CrashIsHarmless`), which is why a flush may stop at any place.
While the database is down the same is said of what `read_all` returns
(`FilesRecover`); it stays true however many pages redo and undo have written when
the next crash comes, because what they write has the LSN of the record that gave it
or of a compensation record behind all others, and recovering a second time gives the
same rows (lemmas `MixedPages`, `CompensatedIsSound`, `RecoveryIsSound`). The end of
a recovery, a clean open and a restamp all arrive in `Afresh`: an empty log below
which every page is right.

TLC checked `Atomic` before it was proved: with `AnyCrashes` (291,022 states), with
three repaired crashes (1,145,026), and without crashes but with evictions and an
undo cap of one page (81,282). One session, and no eviction together with crashes,
are hypotheses the code makes necessary: with two sessions a page-wide rollback takes
the other one's rows (`StorageLostRow.cfg`), and a page stolen ahead of its record is
lost in a crash (`StorageStolenLoss.cfg`). Crashes are limited only in kind
(`Repaired`: between two calls, in a flush with a torn tail or none, in a sync, in a
checkpoint's page writes, in a recovery), not in number; sizes, the undo cap and the
bounds on writes and LSNs are arbitrary. `ExactlyCommittedSurvives` claims nothing
after a crash of another kind, so `CommittedWorkSurvives` holds for every crash plan.
For the refinement the pages a reader sees are, while the engine is open, the
committed rows with the pending ones (`ViewIs`); so a write adds a row to the view, a
commit makes the view the stable part, a rollback drops the view to the stable part
when it begins, a crash does so too or completes the commit it interrupted, and every
other step changes neither.

Only model-checked. Everything under fairness (`EveryTransactionEnds`,
`CancelFreesLock`, `AbandonedDrains`, `EveryRequestAnswered`): the prover has no
temporal reasoning about fairness. `AtomicAndDurable` through a crash that is not
repaired and what follows it, which `storage_crash` covers as far as the promise goes:
such a crash (a torn head of the log, a truncation or a reset cut short) leaves a log
whose records are not where their LSNs say, and the argument by places does not apply.
`Table`, `Ddl` and `Query`: their operators are recursive on trees, page chains and
plans, or filter and fold sequences, and what such a definition computes for every
input needs an induction that is out of the prover's reach.

## 5. What is left out, and the plan

Not modelled:

- **Costs.** Page and CPU costs choose among plans; `Query` lets the planner return
  any plan its search considers, which covers every choice of costs.
- **Lexer.** It works character by character and keeps nothing; tokens are where the
  model begins.
- **Events, tracer and ring buffer.** Observation: nothing in the engine reads them
  back. The one delivery that changes behaviour, the fanout into a step controller,
  is in `StepMode`.
- **Byte formats** of records and pages, and their inspection: conversions without
  protocol. Their widths are kept where a limit depends on them.
- **Free list.** `allocate_page` takes from it in `PageStore`, and `table` starts
  with a page on it, but nothing in the engine ever frees one, so its crash safety
  is not modelled.
- **BEGIN inside a script**, which turns the implicit transaction explicit, and the
  bounded history of finished transactions.
- **I/O errors** other than a crash, HTTP plumbing and the browser front end.

Limits of what is modelled. `Query` has one session and one snapshot; what sessions
do to one another is `Mvcc`'s and `Storage`'s. Indexes in `Query` are not unique;
unique ones are in `Table`. The statements avoid the constructs of the
configurations above that answer wrongly, and nothing else. Met in reading and not
stated as a property: MIN, MAX and COUNT report an overflow as SUM's; a write that
locates exactly `max_rows` rows is refused; `ORDER BY 2` over one column raises an
IndexError; only the depth of `_expression` is guarded, so a chain of NOTs or signs
is not; subqueries inside UPDATE, DELETE and INSERT are not folded.

The hypotheses of `StorageRecoveryProofs` follow the code as it is: they would have to
be looked at again if `flush_through`'s comparison, or the order of the log's truncation
and the meta page, changed.

------------------------------- MODULE Table -------------------------------
(***************************************************************************)
(* One table with one index, as the Database methods of database.py write  *)
(* them: rows in a heap file, an entry in the B+ tree for every version    *)
(* that is not deleted, and the catalog's rows that say where both begin.  *)
(*                                                                         *)
(* A version has an identity, so that the ghost `want` can say which ones  *)
(* the statements so far have left in the table, and where.  There is one  *)
(* session: what sessions do to one another is in Mvcc.                    *)
(***************************************************************************)
EXTENDS BPlusTree

CONSTANTS
    Rows,       \* the rows there are to write: <<key, encoded length>>
    MaxBegins,  \* bound: explicit transactions
    Unique,     \* whether the index is unique
    FreePages,  \* how many pages are on the free list at the start
    Loads,      \* the rows in the table at the start, and the bound: how many
                \* INSERT, UPDATE and DELETE statements follow, [rows, more]
    IndexDead   \* whether CREATE INDEX may meet versions deleted but not vacuumed

ASSUME RowsAssumption == \A row \in Rows \union UNION {Range(load.rows) : load \in Loads} : row[1] \in Keys /\ row[2] <= max_payload_size

VARIABLES
    store,      \* the pages
    heap,       \* the open HeapFile: [first, last]
    root,       \* root of the open BPlusTree, INVALID_PAGE_ID before CREATE INDEX
    cat,        \* the table's row and the index's row in the system tables
    saved,      \* [store, cat, want] at BEGIN, <<>> outside of a transaction
    failed,     \* a statement of the transaction has failed
    want,       \* ghost: versions by id: [key, len, rid, deleted]
    made,       \* ghost: versions written so far
    left,       \* statements still to come
    begun       \* explicit transactions so far

vars == <<store, heap, root, cat, saved, failed, want, made, left, begun>>

InTransaction == saved # <<>>
HasIndex == root # INVALID_PAGE_ID

\* A payload: the version's header and its one column.
Payload(v, k, deleted) == [id |-> v, key |-> k, deleted |-> deleted]

TypeOK ==
    /\ store.count \in Nat /\ DOMAIN store.page = 1 .. store.count - 1
    /\ {heap.first, heap.last} \subseteq DOMAIN store.page
    /\ root \in DOMAIN store.page \union {INVALID_PAGE_ID}
    /\ failed \in BOOLEAN /\ (failed => InTransaction)
    /\ DOMAIN want \subseteq 1 .. made
    /\ \A v \in DOMAIN want : want[v].key \in Keys /\ want[v].deleted \in BOOLEAN
    /\ left \in Nat /\ begun \in 0 .. MaxBegins

\* A file with a free list, and a table in it that has been loaded row by row,
\* before or after its index was created.
IndexEntry(st, rt, k, rid) ==
    IF rt = INVALID_PAGE_ID THEN Grown(st, rt) ELSE tree_insert(st, rt, k, rid)
LoadedRow(want0, row, h, t) ==
    [store |-> t.store, heap |-> h.heap, root |-> t.root,
     want |-> Append(want0, [key |-> row[1], len |-> row[2], rid |-> h.rid,
                             deleted |-> FALSE])]
LoadedEntry(at, row, h) ==
    LoadedRow(at.want, row, h, IndexEntry(h.store, at.root, row[1], h.rid))
Loaded(rows, st, h, rt) ==
    FoldLeft(LAMBDA at, row :
                LoadedEntry(at, row, heap_insert(at.store, at.heap, row[2],
                                                 Payload(Len(at.want) + 1, row[1], FALSE))),
             [store |-> st, heap |-> h, root |-> rt, want |-> <<>>], rows)

Init ==
    LET blank == [NewStore EXCEPT !.count = 1 + FreePages,
                                  !.page = [i \in 1 .. FreePages |-> create("heap")]]
        freed == FoldLeft(free_page, blank, [i \in 1 .. FreePages |-> i])
        h == heap_create(freed)
        t == tree_create(h.store)
    IN  \E load \in Loads, base \in {[store |-> t.store, root |-> t.root],
                                      [store |-> h.store, root |-> INVALID_PAGE_ID]} :
        \E at \in {Loaded(load.rows, base.store, h.heap, base.root)} :
            /\ store = at.store /\ heap = at.heap /\ root = at.root
            /\ want = at.want /\ made = Len(load.rows)
            /\ cat = [first |-> heap.first, last |-> heap.last, root |-> root]
            /\ saved = <<>> /\ failed = FALSE /\ left = load.more /\ begun = 0

---------------------------------------------------------------------------
\* Database.begin, commit and rollback.  Rollback puts the pages back and then
\* forgets every open heap and tree: the next use reads the catalog again.
begin ==
    /\ ~InTransaction /\ begun < MaxBegins
    /\ begun' = begun + 1
    /\ saved' = <<[store |-> store, cat |-> cat, want |-> want]>>
    /\ UNCHANGED <<store, heap, root, cat, failed, want, made, left>>

Restore(s) ==
    /\ store' = s.store /\ cat' = s.cat /\ want' = s.want
    /\ heap' = [first |-> s.cat.first, last |-> s.cat.last]
    /\ root' = s.cat.root

rollback ==
    /\ InTransaction
    /\ Restore(saved[1])
    /\ saved' = <<>> /\ failed' = FALSE
    /\ UNCHANGED <<made, left, begun>>

\* A COMMIT after a failed statement rolls back.
commit ==
    /\ InTransaction
    /\ saved' = <<>> /\ failed' = FALSE
    /\ IF failed THEN Restore(saved[1]) ELSE UNCHANGED <<store, heap, root, cat, want>>
    /\ UNCHANGED <<made, left, begun>>

---------------------------------------------------------------------------
Statement == left > 0 /\ left' = left - 1 /\ UNCHANGED begun

\* What a statement leaves: the pages, the open heap and tree, and through
\* on_pages_changed and on_root_changed the rows of the catalog.
Writes(st, h, rt) ==
    /\ store' = st /\ heap' = h /\ root' = rt
    /\ cat' = [first |-> h.first, last |-> h.last, root |-> rt]

\* A statement that raises: outside of a transaction its own is rolled back,
\* inside of one the transaction has failed and nothing it wrote can commit.
Raises(st, h, rt) ==
    IF InTransaction
    THEN /\ failed' = TRUE
         /\ Writes(st, h, rt)
         /\ UNCHANGED <<saved, want>>
    ELSE /\ Restore([store |-> store, cat |-> cat, want |-> want])
         /\ UNCHANGED <<saved, failed>>

\* The entry of a new row.
IndexInsert(st, rt, k, rid) ==
    IF rt = INVALID_PAGE_ID THEN Grown(st, rt)
    ELSE IF unique_violation(st, rt, Unique, k) THEN Refused(st, rt)
    ELSE tree_insert(st, rt, k, rid)

\* Version v is in the heap as h says and its entry in the tree as t says; a
\* refused entry raises.
NewVersion(v, k, n, h, t, others) ==
    IF t.ok
    THEN /\ Writes(t.store, h.heap, t.root)
         /\ want' = (v :> [key |-> k, len |-> n, rid |-> h.rid, deleted |-> FALSE]) @@ others
         /\ UNCHANGED <<saved, failed>>
    ELSE Raises(t.store, h.heap, t.root)

IndexDelete(st, k, rid) == IF HasIndex THEN tree_delete(st, root, k, rid) ELSE st

\* Database.insert: heap first, then the index, whose violation raises.
insert_row(k, n) ==
    /\ ~failed
    /\ made' = made + 1 /\ Statement
    /\ LET h == heap_insert(store, heap, n, Payload(made + 1, k, FALSE))
       IN  NewVersion(made + 1, k, n, h, IndexInsert(h.store, root, k, h.rid), want)

\* Database._delete_one: the entry goes, the version is marked and stays.
delete_row(v) ==
    /\ ~failed /\ ~want[v].deleted
    /\ LET w == want[v]
           marked == heap_replace(IndexDelete(store, w.key, w.rid), w.rid, w.len,
                                  Payload(v, w.key, TRUE))
       IN  Writes(marked, heap, root)
    /\ want' = [want EXCEPT ![v].deleted = TRUE]
    /\ Statement
    /\ UNCHANGED <<saved, failed, made>>

\* Database._update_one: the old version marked, the new one inserted, then the
\* index: delete, and insert, which may raise.
update_row(v, k, n) ==
    /\ ~failed /\ ~want[v].deleted
    /\ made' = made + 1 /\ Statement
    /\ LET w == want[v]
           marked == heap_replace(store, w.rid, w.len, Payload(v, w.key, TRUE))
           h == heap_insert(marked, heap, n, Payload(made + 1, k, FALSE))
           t == IndexInsert(IndexDelete(h.store, w.key, w.rid), root, k, h.rid)
       IN  NewVersion(made + 1, k, n, h, t, [want EXCEPT ![v].deleted = TRUE])

\* Database.vacuum, with no transaction open: every deleted version is below
\* the horizon and its slot goes.  The index is not looked at.
vacuum ==
    /\ ~InTransaction
    /\ \E v \in DOMAIN want : want[v].deleted
    /\ LET dead == {v \in DOMAIN want : want[v].deleted}
           addresses == SetToSeq({want[v].rid : v \in dead})
       IN  /\ Writes(FoldSeq(LAMBDA r, st : heap_delete(st, r), store, addresses), heap, root)
           /\ want' = [v \in DOMAIN want \ dead |-> want[v]]
    /\ UNCHANGED <<saved, failed, made, left, begun>>

\* Catalog.create_index: every version in the heap, in physical order, the
\* deleted ones included.
BuildIndex ==
    LET t == tree_create(store) IN
    FoldSeq(LAMBDA row, built :
                IF ~built.ok THEN built
                ELSE IndexInsert(built.store, built.root, row[2].key, row[1]),
            Grown(t.store, t.root), heap_scan(store, heap))

create_index ==
    /\ ~failed /\ ~HasIndex
    /\ IndexDead \/ \A v \in DOMAIN want : ~want[v].deleted
    /\ \E t \in {BuildIndex} :
          IF t.ok
          THEN Writes(t.store, heap, t.root) /\ UNCHANGED <<saved, failed, want>>
          ELSE Raises(t.store, heap, INVALID_PAGE_ID)
    /\ UNCHANGED <<made, left, begun>>

\* Closed and opened again: heap_for and tree_for start from the catalog's rows.
reopen ==
    /\ ~InTransaction
    /\ heap' = [first |-> cat.first, last |-> cat.last]
    /\ root' = cat.root
    /\ UNCHANGED <<store, cat, saved, failed, want, made, left, begun>>

Next ==
    \/ begin \/ commit \/ rollback \/ vacuum \/ create_index \/ reopen
    \/ \E row \in Rows : insert_row(row[1], row[2])
    \/ \E v \in DOMAIN want : delete_row(v)
    \/ \E v \in DOMAIN want, row \in Rows : update_row(v, row[1], row[2])

Spec == Init /\ [][Next]_vars

---------------------------------------------------------------------------
\* A transaction that has failed holds a half-made statement, which no commit
\* can keep; the properties of the contents are about the others.
Whole == ~failed

\* A scan meets every version the statements have left, at the address it was
\* given, and nothing else (HeapFile.scan; RecordId's "stable across page
\* compaction").
HeapHoldsWhatWasWritten ==
    Whole =>
        Range(heap_scan(store, heap)) =
            {<<want[v].rid, Payload(v, want[v].key, want[v].deleted)>> : v \in DOMAIN want}

\* Every page passes validate, and no two payloads share a byte: free_start,
\* free_end and the slots agree whatever was deleted, reused and compacted.
PagesAreSound ==
    \A id \in DOMAIN store.page : validate(store.page[id]) /\ Disjoint(store.page[id])

\* Every page belongs to the heap's chain, to the tree or to the free list, to
\* one of them only and once; a page the chain or the list reaches twice would
\* be given to two owners.
PagesOwnedOnce ==
    LET chain == Chain(store, heap.first)
        list == free_list(store)
        tree == IF HasIndex THEN TreePages(store, root) ELSE {}
    IN  Whole =>
          /\ IsInjective(chain) /\ IsInjective(list)
          /\ Range(chain) \union Range(list) \union tree = DOMAIN store.page
          /\ Len(chain) + Len(list) + Cardinality(tree) = store.count - 1
          /\ heap.last = Last(chain)

\* The file is well formed after any sequence of statements, failures and
\* rollbacks: its pages are sound, and each has one owner that can reach it.
FileIsSound == TypeOK /\ PagesAreSound /\ PagesOwnedOnce

\* The invariants BPlusTree.verify asserts: sorted nodes, separators that bound
\* their subtrees, leaves at one depth, the leaf chain in strict order.
TreeIsSound == HasIndex => verify(store, root)

Live(k) == {want[v].rid : v \in {w \in DOMAIN want : ~want[w].deleted /\ want[w].key = k}}

\* A search finds the row of every version with the key that is not deleted,
\* once, and no other: adding an index never changes an answer.
SearchFindsTheRows ==
    HasIndex /\ Whole =>
        \A k \in Keys :
            LET found == search(store, root, k) IN
            IsInjective(found) /\ Range(found) = Live(k)

\* The index holds an entry for every version that is not deleted and for
\* nothing else, and a range scan yields exactly the entries between its
\* bounds, in order, for every pair of bounds, inclusive or not.
RangeScanIsTheRange ==
    HasIndex /\ Whole =>
        LET all == FullScan(store, root)
            live == {v \in DOMAIN want : ~want[v].deleted}
        IN  /\ Range(all) = {<<want[v].key, want[v].rid>> : v \in live}
            /\ Len(all) = Cardinality(live)
            /\ \A low, high \in {<<>>} \union {<<row[1]>> : row \in Rows}, withLow, withHigh \in BOOLEAN :
                  range_scan(store, root, low, high, withLow, withHigh) =
                      SelectSeq(all, LAMBDA e :
                          /\ low = <<>> \/ e[1] > low[1] \/ (withLow /\ e[1] = low[1])
                          /\ high = <<>> \/ e[1] < high[1] \/ (withHigh /\ e[1] = high[1]))

\* Equality and range look-ups through the index find exactly the rows.
IndexFindsTheRows == SearchFindsTheRows /\ RangeScanIsTheRange

\* plan_split of index/node.py on the range of cuts where both halves fit:
\* "That range is never empty".  Whatever key comes next, its leaf has room for
\* the entry or can be split.
SplitsAreNeverRefused ==
    HasIndex /\ Whole =>
        \A k \in Keys :
            LET p == store.page[descend(store, root, k, <<store.count, 0>>).leaf]
                e == Entry(k, <<store.count, 0>>, INVALID_PAGE_ID)
            IN  \/ insert_entry(p, e).fits
                \/ split_index(p, InsertAt(entries(p), lower_bound(p, k, e.rid) + 1, e)) # 0

\* operators.py on an index entry whose row is gone: "Cannot happen while
\* Database.delete maintains both".
EntriesPointAtRows ==
    HasIndex /\ Whole =>
        \A k \in Keys : \A r \in Range(search(store, root, k)) :
            heap_get(store, r) # NoPayload
=============================================================================

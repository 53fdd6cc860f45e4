------------------------------ MODULE Catalog ------------------------------
(***************************************************************************)
(* The catalog of catalog/catalog.py: three system tables kept in heap     *)
(* files whose ends the meta page knows, and what the open Catalog caches  *)
(* of them.  A catalog value is a record                                   *)
(*    store   the pages, shared with the user tables' heaps                *)
(*    meta    [tables, columns, indexes: [first, last]; next: object id]   *)
(*    sys     the open system heaps: <<>> or <<[first, last, told]>>, told *)
(*            when the heap reports a new last page to the meta page       *)
(*    cache   table descriptors by folded name, [info, heap], heap <<>> or *)
(*            <<[first, last]>>                                            *)
(*    imap    <<>>, or <<every index descriptor by folded name>>           *)
(*    trees   roots of the open B+ trees by folded name                    *)
(* Operations map one to the next; a row's bytes are abstracted to the     *)
(* row, of RowSize bytes whatever the table.                               *)
(***************************************************************************)
EXTENDS PageStore

CONSTANTS
    Names,          \* names of tables and indexes
    casefold,       \* the folded form of a name
    pkey,           \* primary_key_index_name: the index behind a primary key
    Reserved,       \* the names with the engine's prefix
    Schemas,        \* [columns: how many; key: whether the first is the key]
    RowSize,        \* bytes of an encoded row
    FirstId         \* FIRST_USER_OBJECT_ID

ASSUME NamesAssumption ==
    /\ casefold \in [Names -> Names] /\ DOMAIN pkey \subseteq Names
    /\ \A n \in Names : casefold[casefold[n]] = casefold[n]
    /\ Reserved \subseteq Names
ASSUME RowSizeAssumption == RowSize \in Nat \ {0} /\ RowSize <= max_payload_size

None == <<>>

\* A value used more than once in what follows from it.
With(v, Body(_)) == Body(v)

SystemTables == {"tables", "columns", "indexes"}
is_system_table(n) == n \in Reserved

TableRow(id, n, ends) == [id |-> id, name |-> n, first |-> ends.first, last |-> ends.last]
ColumnRow(id, i, key) == [owner |-> id, position |-> i, key |-> key]
IndexRow(id, owner, n, i, root, unique) ==
    [id |-> id, owner |-> owner, name |-> n, position |-> i, root |-> root,
     unique |-> unique]

---------------------------------------------------------------------------
\* The system heaps

\* tables_heap, columns_heap and indexes_heap: opened from the meta page.
Opened(c, which) ==
    IF c.sys[which] # None THEN c
    ELSE [c EXCEPT !.sys[which] = <<[first |-> c.meta[which].first,
                                     last |-> c.meta[which].last, told |-> TRUE]>>]

Payloads(rows) == [k \in DOMAIN rows |-> rows[k][2]]
SystemRows(c, which) == Payloads(heap_scan(c.store, c.meta[which]))

Put(o, which, put) == [o EXCEPT !.store = put.store, !.sys[which] = <<put.heap>>]

\* Mutant: nobody is told that the heap has grown.
SystemInsertUntold(c, which, row) ==
    LET o == Opened(c, which) IN
    Put(o, which, heap_insert(o.store, o.sys[which][1], RowSize, row))

\* HeapFile.insert on a system heap; _on_tables_pages_changed and its two
\* twins record a new tail in the meta page, where there is one to call.
SystemInsert(c, which, row) ==
    LET o == Opened(c, which)
        h == o.sys[which][1]
    IN  With(heap_insert(o.store, h, RowSize, row), LAMBDA put :
            IF put.heap.last # h.last /\ h.told
            THEN [Put(o, which, put) EXCEPT
                     !.meta[which] = [first |-> put.heap.first, last |-> put.heap.last]]
            ELSE Put(o, which, put))

\* Delete the row with this id and insert it anew.
SystemReplace(c, which, id, row) ==
    LET o == Opened(c, which) IN
    With(SelectSeq(heap_scan(o.store, o.sys[which][1]), LAMBDA r : r[2].id = id),
         LAMBDA at :
            IF at = <<>> THEN o
            ELSE SystemInsert([o EXCEPT !.store = heap_delete(@, at[1][1])], which, row))

\* Catalog.__init__
Fresh(st, meta) ==
    [store |-> st, meta |-> meta, sys |-> [which \in SystemTables |-> None],
     cache |-> <<>>, imap |-> None, trees |-> <<>>]

\* Catalog.bootstrap: the heaps it creates report to nobody.
bootstrap(st) ==
    LET t == heap_create(st)
        k == heap_create(t.store)
        i == heap_create(k.store)
        ends == [tables |-> t.heap, columns |-> k.heap, indexes |-> i.heap]
        c == Fresh(i.store, ends @@ [next |-> FirstId])
    IN  [c EXCEPT !.sys = [which \in SystemTables |->
                              <<[first |-> ends[which].first, last |-> ends[which].last,
                                 told |-> FALSE]>>]]

\* Mutant: the map of the indexes survives.
invalidate_tables(c) == [Fresh(c.store, c.meta) EXCEPT !.imap = c.imap]

\* Catalog.invalidate
invalidate(c) == Fresh(c.store, c.meta)

---------------------------------------------------------------------------
\* Reading

\* Catalog._load_schema: the columns by position, or None for the
\* CorruptDatabaseError of a table without columns or with a gap.
SchemaOf(byPosition) ==
    IF byPosition = <<>> \/ \E k \in DOMAIN byPosition : byPosition[k].position # k - 1
    THEN None
    ELSE <<[columns |-> Len(byPosition), key |-> byPosition[1].key]>>
load_schema(c, id) ==
    SchemaOf(SortSeq(SelectSeq(SystemRows(c, "columns"), LAMBDA r : r.owner = id),
                     LAMBDA r, s : r.position < s.position))

TableInfo(row, schema) ==
    [id |-> row.id, name |-> row.name, schema |-> schema, first |-> row.first, last |-> row.last]

\* Catalog._scan_for_table: <<info>> or None.
scan_for_table(c, n) ==
    With(SelectSeq(SystemRows(c, "tables"), LAMBDA r : casefold[r.name] = casefold[n]),
         LAMBDA rows :
            IF rows = <<>> THEN None
            ELSE <<TableInfo(rows[1], load_schema(c, rows[1].id))>>)

Cached(c, info) ==
    [c EXCEPT !.cache = (casefold[info.name] :> [info |-> info, heap |-> None]) @@ @]

\* Catalog.get_table: [c, info], info None or <<descriptor>>.  A miss reads the
\* pages and is remembered; an absent table is not.
get_table(c, n) ==
    IF casefold[n] \in DOMAIN c.cache
    THEN [c |-> c, info |-> <<c.cache[casefold[n]].info>>]
    ELSE With(scan_for_table(c, n), LAMBDA found :
            IF found = None THEN [c |-> Opened(c, "tables"), info |-> None]
            ELSE [c |-> Cached(Opened(Opened(c, "tables"), "columns"), found[1]),
                  info |-> found])

\* Catalog.list_tables: reads what is not cached, and caches it.
list_tables(c) ==
    FoldSeq(LAMBDA row, at : get_table(at, row.name).c, Opened(c, "tables"),
            SystemRows(c, "tables"))
TablesOf(c) == {get_table(c, row.name).info[1] : row \in Range(SystemRows(c, "tables"))}

IndexInfo(row, owner) ==
    [id |-> row.id, name |-> row.name, table |-> owner.name, position |-> row.position,
     root |-> row.root, unique |-> row.unique]

\* Catalog._index_map: loaded whole, with the tables.
ByName(infos) ==
    [f \in {casefold[i.name] : i \in infos} |-> CHOOSE i \in infos : casefold[i.name] = f]
IndexesOf(all) ==
    LET owner(row) == CHOOSE t \in TablesOf(all) : t.id = row.owner
    IN  {IndexInfo(row, owner(row)) : row \in Range(SystemRows(all, "indexes"))}
index_map(c) ==
    IF c.imap # None THEN c
    ELSE With(list_tables(c), LAMBDA all :
            [Opened(all, "indexes") EXCEPT !.imap = <<ByName(IndexesOf(all))>>])

\* Catalog.get_index: None or <<descriptor>>.
get_index(c, n) ==
    With(index_map(c), LAMBDA m :
        [c |-> m, info |-> IF casefold[n] \in DOMAIN m.imap[1]
                           THEN <<m.imap[1][casefold[n]]>> ELSE None])

\* Catalog.list_indexes, of one table
list_indexes(c, n) == {i \in Range(index_map(c).imap[1]) : casefold[i.table] = casefold[n]}

\* Catalog.heap_for: the open heap of a table, from its descriptor if need be.
heap_for(c, n) ==
    LET f == casefold[n] IN
    With(get_table(c, n), LAMBDA got :
        IF got.c.cache[f].heap # None THEN got.c
        ELSE [got.c EXCEPT !.cache[f].heap = <<[first |-> got.info[1].first,
                                                last |-> got.info[1].last]>>])

\* Catalog.tree_for
tree_for(c, n) ==
    LET f == casefold[n] IN
    With(index_map(c), LAMBDA m :
        IF f \in DOMAIN m.trees THEN m
        ELSE [m EXCEPT !.trees = (f :> m.imap[1][f].root) @@ @])

---------------------------------------------------------------------------
\* Writing

\* Catalog._update_table_pages, called by a user table's heap that has grown.
update_table_pages(c, info, ends) ==
    LET f == casefold[info.name] IN
    With(SystemReplace(c, "tables", info.id, TableRow(info.id, info.name, ends)),
         LAMBDA rewritten :
            IF f \in DOMAIN rewritten.cache
            THEN [rewritten EXCEPT !.cache[f].info.first = ends.first,
                                   !.cache[f].info.last = ends.last]
            ELSE rewritten)

\* Mutant: only the cache learns of the new root.
update_index_root_cached(c, info, owner, root) ==
    LET f == casefold[info.name] IN
    IF c.imap = None THEN c ELSE [c EXCEPT !.imap[1][f].root = root]

\* Catalog._update_index_root, called by a tree that has a new root.
update_index_root(c, info, owner, root) ==
    LET row == IndexRow(info.id, owner, info.name, info.position, root, info.unique)
        f == casefold[info.name]
    IN  With(SystemReplace(c, "indexes", info.id, row), LAMBDA rewritten :
            IF rewritten.imap = None THEN rewritten
            ELSE [rewritten EXCEPT !.imap[1][f].root = root])

\* What a create returns: whether it went through, and what it left either way.
Done(c) == [ok |-> TRUE, c |-> c]
Raised(c) == [ok |-> FALSE, c |-> c]
NewId(c) == [c EXCEPT !.meta.next = @ + 1]

\* Catalog.create_index.  Building the tree may move its root (splits) or meet
\* a duplicate, which leaves the pages and the id used up and no row.
RecordIndex(c, row) ==
    With(index_map([SystemInsert(c, "indexes", row) EXCEPT !.imap = None]), LAMBDA reread :
        Done([reread EXCEPT !.trees = (casefold[row.name] :> row.root) @@ @]))

BuildTree(st, splits) ==
    LET leaf == allocate_page(st, "leaf") IN
    IF splits THEN allocate_page(leaf.store, "internal") ELSE leaf

IndexOn(c, owner, n, i, unique, splits, duplicate) ==
    With(heap_for(NewId(c), owner.name), LAMBDA opened :
      With(BuildTree(opened.store, splits), LAMBDA built :
        LET left == [opened EXCEPT !.store = built.store] IN
        IF unique /\ duplicate THEN Raised(left)
        ELSE RecordIndex(left, IndexRow(c.meta.next, owner.id, n, i, built.id, unique))))

create_index(c, n, table, i, unique, splits, duplicate) ==
    IF is_system_table(n) THEN Raised(c) ELSE
    With(get_index(c, n), LAMBDA byIndex :
      IF byIndex.info # None THEN Raised(byIndex.c) ELSE
      With(get_table(byIndex.c, n), LAMBDA byTable :
        IF byTable.info # None THEN Raised(byTable.c) ELSE
        With(get_table(byTable.c, table), LAMBDA owner :
          IF owner.info = None \/ i >= owner.info[1].schema[1].columns THEN Raised(owner.c)
          ELSE IndexOn(owner.c, owner.info[1], n, i, unique, splits, duplicate))))

\* Catalog.create_table: the heap, its row, its columns' rows, and the index of
\* its primary key, which may be refused when the table is already there.
NewTable(c, n, schema, heap) ==
    LET id == c.meta.next - 1
        row == TableRow(id, n, heap.heap)
        column(at, k) == SystemInsert(at, "columns", ColumnRow(id, k - 1, schema.key /\ k = 1))
        columns == FoldLeft(column, SystemInsert([c EXCEPT !.store = heap.store], "tables", row),
                            [k \in 1 .. schema.columns |-> k])
    IN  [columns EXCEPT !.cache = (casefold[n] :> [info |-> TableInfo(row, <<schema>>),
                                                   heap |-> <<heap.heap>>]) @@ @]

create_table(c, n, schema) ==
    IF is_system_table(n) THEN Raised(c) ELSE
    With(get_table(c, n), LAMBDA got :
      IF got.info # None THEN Raised(got.c) ELSE
      With(NewTable(NewId(got.c), n, schema, heap_create(got.c.store)), LAMBDA made :
        IF ~schema.key THEN Done(made)
        ELSE create_index(made, pkey[n], n, 0, TRUE, FALSE, FALSE)))
=============================================================================

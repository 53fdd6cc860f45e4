-------------------------------- MODULE Ddl --------------------------------
(***************************************************************************)
(* Statements that define and grow tables and indexes, as execute_script   *)
(* of executor/engine.py runs them one at a time, with the transactions    *)
(* that take them back: CREATE TABLE and CREATE INDEX on the catalog,      *)
(* INSERT as far as it makes a heap or a tree grow, and the look-ups that  *)
(* fill the caches.                                                        *)
(***************************************************************************)
EXTENDS Catalog

CONSTANTS
    IndexNames,     \* the names CREATE INDEX is given
    DataSize,       \* bytes of a user table's row
    MaxStatements,  \* bound: CREATE and INSERT statements
    MaxBegins,      \* bound: explicit transactions
    FirstSession    \* bound: how many of the statements run in the session
                    \* that created the file

VARIABLES
    c,          \* the open catalog and the pages under it
    saved,      \* <<>>, or at BEGIN <<[store, meta, truth]>>
    failed,     \* a statement of the explicit transaction has failed
    truth,      \* ghost: what the statements so far have defined
    ran,        \* statements so far
    begun,      \* explicit transactions so far
    created     \* this session is the one that created the file

vars == <<c, saved, failed, truth, ran, begun, created>>

InTransaction == saved # <<>>
NoObjects == [tables |-> {}, indexes |-> {}]

TypeOK ==
    /\ DOMAIN c.store.page = 1 .. c.store.count - 1
    /\ \A which \in SystemTables : {c.meta[which].first, c.meta[which].last}
                                       \subseteq DOMAIN c.store.page
    /\ c.meta.next \in Nat
    /\ DOMAIN c.cache \subseteq Names /\ DOMAIN c.trees \subseteq Names
    /\ failed \in BOOLEAN /\ (failed => InTransaction)
    /\ ran \in 0 .. MaxStatements /\ begun \in 0 .. MaxBegins /\ created \in BOOLEAN

\* Database.open on a file that does not exist
Init ==
    /\ c = bootstrap(NewStore)
    /\ saved = <<>> /\ failed = FALSE /\ truth = NoObjects
    /\ ran = 0 /\ begun = 0 /\ created = TRUE

---------------------------------------------------------------------------
\* Database.rollback: the pages, then reload_meta, then Catalog.invalidate.
Unwound(to) == invalidate([c EXCEPT !.store = to.store, !.meta = to.meta])

begin ==
    /\ ~InTransaction /\ begun < MaxBegins
    /\ begun' = begun + 1
    /\ saved' = <<[store |-> c.store, meta |-> c.meta, truth |-> truth]>>
    /\ UNCHANGED <<c, failed, truth, ran, created>>

rollback ==
    /\ InTransaction
    /\ c' = Unwound(saved[1]) /\ truth' = saved[1].truth
    /\ saved' = <<>> /\ failed' = FALSE
    /\ UNCHANGED <<ran, begun, created>>

\* COMMIT after a failed statement is a rollback.
commit ==
    /\ InTransaction /\ ~failed
    /\ saved' = <<>>
    /\ UNCHANGED <<c, failed, truth, ran, begun, created>>

\* Mutant: what a refused statement has written stays.
ScriptKeepsHalf(result, then) ==
    /\ ~failed /\ ran < MaxStatements /\ (created => ran < FirstSession)
    /\ ran' = ran + 1
    /\ c' = result.c
    /\ truth' = IF result.ok THEN then ELSE truth
    /\ failed' = (InTransaction /\ ~result.ok)
    /\ UNCHANGED <<saved, begun, created>>

\* execute_script with one statement: its own implicit transaction, committed
\* or rolled back, or a part of the explicit one, which a failure dooms.
Script(result, then) ==
    /\ ~failed /\ ran < MaxStatements /\ (created => ran < FirstSession)
    /\ ran' = ran + 1
    /\ IF result.ok
       THEN c' = result.c /\ truth' = then /\ UNCHANGED failed
       ELSE IF InTransaction
       THEN c' = result.c /\ failed' = TRUE /\ UNCHANGED truth
       ELSE c' = Unwound(c) /\ UNCHANGED <<truth, failed>>
    /\ UNCHANGED <<saved, begun, created>>

---------------------------------------------------------------------------
Table(id, n, schema) == [id |-> id, name |-> n, schema |-> schema, rows |-> 0]
Index(id, n, table, i, root, unique) ==
    [id |-> id, name |-> n, table |-> table, position |-> i, root |-> root, unique |-> unique]

\* _execute_create_table: with IF NOT EXISTS a taken name changes nothing.
ddl_create_table(n, schema, if_not_exists) ==
    \E existing \in {get_table(c, n)} : \E made \in {create_table(existing.c, n, schema)} :
        LET table == Table(c.meta.next, n, schema)
            key == Index(c.meta.next + 1, pkey[n], n, 0, made.c.trees[casefold[pkey[n]]], TRUE)
            then == [truth EXCEPT !.tables = @ \union {table},
                                  !.indexes = IF schema.key THEN @ \union {key} ELSE @]
        IN  IF existing.info # None
            THEN Script([ok |-> if_not_exists, c |-> existing.c], truth)
            ELSE Script(made, then)

\* _execute_create_index
ddl_create_index(n, table, i, unique, if_not_exists, splits, duplicate) ==
    \E existing \in {get_index(c, n)} :
    \E made \in {create_index(existing.c, n, table, i, unique, splits, duplicate)} :
        LET index == Index(c.meta.next, n, get_table(c, table).info[1].name, i,
                           made.c.trees[casefold[n]], unique)
            then == [truth EXCEPT !.indexes = @ \union {index}]
        IN  IF existing.info # None
            THEN Script([ok |-> if_not_exists, c |-> existing.c], truth)
            ELSE Script(made, then)

\* Database.insert_many of one row.  The heap tells the catalog of a new tail
\* before the row is on it; every tree of the table takes an entry, and the one
\* named in `splits` gets a new root for it.
RowPut(opened, f, put) ==
    LET rowed == [opened EXCEPT !.store = put.store, !.cache[f].heap = <<put.heap>>] IN
    IF put.heap.last = opened.cache[f].heap[1].last THEN rowed
    ELSE update_table_pages(rowed, opened.cache[f].info, put.heap)
RootGrown(tree, index, owner, top) ==
    update_index_root([tree EXCEPT !.store = top.store,
                                   !.trees[casefold[index.name]] = top.id],
                      index, owner, top.id)
Inserted(n, splits) ==
    With(index_map(heap_for(c, n)), LAMBDA opened :
        LET f == casefold[n]
            put == heap_insert(opened.store, opened.cache[f].heap[1], DataSize, [row |-> TRUE])
            grow(at, index) ==
                With(tree_for(at, index.name), LAMBDA tree :
                    RootGrown(tree, index, opened.cache[f].info.id,
                              allocate_page(tree.store, "internal")))
            growing == {i \in list_indexes(opened, n) : i.name \in splits}
        IN  FoldLeft(grow, RowPut(opened, f, put), SetToSeq(growing)))

insert_row(n, splits) ==
    /\ get_table(c, n).info # None
    /\ splits \subseteq {i.name : i \in list_indexes(c, n)}
    /\ \E after \in {Inserted(n, splits)} :
       LET root(i) == IF i.name \in splits THEN after.trees[casefold[i.name]] ELSE i.root
           t == CHOOSE x \in truth.tables : casefold[x.name] = casefold[n]
       IN  Script(Done(after),
                  [tables |-> (truth.tables \ {t}) \union {[t EXCEPT !.rows = @ + 1]},
                   indexes |-> {[i EXCEPT !.root = root(i)] : i \in truth.indexes}])

\* A SELECT's look-ups: the table, its heap, and the indexes the planner asks for
lookup(n) ==
    /\ ~failed
    /\ get_table(c, n).info # None
    /\ c' = index_map(heap_for(c, n)) /\ c' # c
    /\ UNCHANGED <<saved, failed, truth, ran, begun, created>>

\* Closed and opened again, by somebody for whom the file is not new
reopen ==
    /\ ~InTransaction
    /\ c' = Fresh(c.store, c.meta) /\ created' = FALSE
    /\ UNCHANGED <<saved, failed, truth, ran, begun>>

\* IF NOT EXISTS matters only to a name that is taken; roots split and
\* duplicates are met where there are rows.
Next ==
    \/ begin \/ commit \/ rollback \/ reopen
    \/ \E n \in DOMAIN pkey \union Reserved, schema \in Schemas : ddl_create_table(n, schema, FALSE)
    \/ \E t \in truth.tables : ddl_create_table(t.name, t.schema, TRUE)
    \/ \E n \in IndexNames, table \in {casefold[t] : t \in DOMAIN pkey} :
          ddl_create_index(n, table, 0, FALSE, FALSE, FALSE, FALSE)
    \/ \E i \in truth.indexes : ddl_create_index(i.name, i.table, 0, i.unique, TRUE, FALSE, FALSE)
    \/ \E n \in IndexNames, t \in truth.tables, duplicate \in BOOLEAN :
          t.rows > 1 /\ ddl_create_index(n, t.name, 0, TRUE, FALSE, TRUE, duplicate)
    \/ \E t \in truth.tables : \E splits \in SUBSET {i.name : i \in truth.indexes} :
          insert_row(t.name, splits)
    \/ \E n \in DOMAIN pkey : lookup(n)

Spec == Init /\ [][Next]_vars

---------------------------------------------------------------------------
\* What a catalog that has cached nothing finds on the pages
OnPages == Fresh(c.store, c.meta)
EndOf(first) == Last(Chain(c.store, first))
TableTruth(t) ==
    [id |-> t.id, name |-> t.name, schema |-> <<t.schema>>]
IndexTruth(i) ==
    [id |-> i.id, name |-> i.name, table |-> i.table, position |-> i.position,
     root |-> i.root, unique |-> i.unique]

\* The system tables hold exactly what the statements that went through have
\* defined, each index at the root its tree has now: whoever opens the file
\* next finds every table, its columns and its indexes.
PagesHoldTheCatalog ==
    ~failed =>
      /\ {[id |-> t.id, name |-> t.name, schema |-> t.schema] : t \in TablesOf(OnPages)} =
            {TableTruth(t) : t \in truth.tables}
      /\ Range(index_map(OnPages).imap[1]) = {IndexTruth(i) : i \in truth.indexes}

\* Whatever the open catalog has cached, it answers as one that reads the pages.
CachesAgree ==
    \E loaded \in {index_map(c)}, fresh \in {index_map(OnPages)} :
        /\ \A n \in Names : /\ get_table(c, n).info = get_table(fresh, n).info
                            /\ get_index(loaded, n).info = get_index(fresh, n).info
        /\ \A f \in DOMAIN c.trees : c.trees[f] = get_index(fresh, f).info[1].root

\* Every place that remembers where a heap ends (the meta page, the tables'
\* rows and the open heaps) remembers the end of its chain: _extend links a new
\* page after the page it believes is the last, and cuts off what follows it.
\* _page_updater: "otherwise a reopened database would start its appends in the
\* middle of the chain".
AppendsAtTheEnd ==
    /\ \A which \in SystemTables :
         /\ c.meta[which].last = EndOf(c.meta[which].first)
         /\ c.sys[which] # None => c.sys[which][1].last = c.meta[which].last
    /\ \A t \in TablesOf(OnPages) : t.last = EndOf(t.first)
    /\ \A f \in DOMAIN c.cache :
         c.cache[f].heap # None => c.cache[f].heap[1].last = EndOf(c.cache[f].heap[1].first)

\* A name, however it is written, is that of one table and of one index at
\* most, and an id that of one object.
NamesAndIdsAreOnes ==
    LET objects == truth.tables \union truth.indexes IN
    /\ \A s, t \in truth.tables : casefold[s.name] = casefold[t.name] => s = t
    /\ \A i, j \in truth.indexes : casefold[i.name] = casefold[j.name] => i = j
    /\ \A x, y \in objects : x.id = y.id => x = y

\* A table with a primary key has its unique index, or it is not there: CREATE
\* TABLE is refused as a whole when the index's name is taken.
PrimaryKeysAreIndexed ==
    ~failed =>
      \E fresh \in {index_map(OnPages)} :
        \A t \in TablesOf(fresh) : t.schema[1].key =>
          \E i \in Range(get_index(fresh, pkey[t.name]).info) :
             i.table = t.name /\ i.unique /\ i.position = 0

\* What is defined is defined once and as a whole.
DefinitionsAreWhole == TypeOK /\ NamesAndIdsAreOnes /\ PrimaryKeysAreIndexed

\* create_index refuses the name of a table ("is already a table name"): tables
\* and indexes share their names.
OneNamespace ==
    \A t \in truth.tables, i \in truth.indexes : casefold[t.name] # casefold[i.name]
=============================================================================

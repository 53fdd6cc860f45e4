------------------------------- MODULE Engine -------------------------------
(***************************************************************************)
(* engine/executor/engine.py: a statement from its syntax tree to the rows *)
(* it answers or the versions it writes.                                   *)
(*                                                                         *)
(* A result is [kind, rows, catalog]: "rows" for a SELECT, "count" for a   *)
(* write, whose new catalog it carries, "plan" for an EXPLAIN, "refused"   *)
(* by the binder or "raised" by the executor.                              *)
(***************************************************************************)
EXTENDS Physical

CONSTANTS
    MaxRows     \* ExecutionContext.max_rows

ASSUME MaxRowsAssumption == MaxRows \in Nat \ {0}

Result(kind, rows, catalog) == [kind |-> kind, rows |-> rows, catalog |-> catalog]

(***************************************************************************)
(* The logical plan of a bound statement.                                  *)
(***************************************************************************)
build_logical_plan(b) ==
    LET total == scope_width(b.scope)
        chain[i \in DOMAIN b.scope] ==
          IF i = 1 THEN LogicalScan(b.scope[1], total)
          ELSE LogicalJoin(b.joins[i - 1].condition, chain[i - 1],
                           LogicalScan(b.scope[i], total), b.joins[i - 1].kind)
        from == chain[Len(b.scope)]
        filtered == IF b.where = <<>> THEN from ELSE LogicalFilter(b.where[1], from)
        grouped == IF b.aggregation = <<>> THEN filtered
                   ELSE LogicalAggregate(b.aggregation[1], filtered)
        projected == LogicalProject(b.projections, grouped)
        distinct == IF b.distinct THEN LogicalDistinct(projected) ELSE projected
        sorted == IF b.order_by = <<>> THEN distinct ELSE LogicalSort(b.order_by, distinct)
    IN  IF b.limit = <<>> THEN sorted
        ELSE LogicalLimit(b.limit[1], IF b.offset = <<>> THEN 0 ELSE b.offset[1], sorted)

build_row_source(info, where) ==
    LET entry == Scope_of(info)[1]
        scan == LogicalScan(entry, Len(info.schema))
    IN  LogicalProject(identity_projection(info.schema),
                       IF where = <<>> THEN scan ELSE LogicalFilter(where[1], scan))

plan_query(b, catalog) == plan_select(build_logical_plan(b), catalog)

plan_row_source(b, catalog) ==
    plan_select(build_row_source(catalog[b.table], b.where), catalog)

(***************************************************************************)
(* SELECT.  The rows are pulled until there are max_rows of them.          *)
(***************************************************************************)
run_select(plan, catalog) ==
    LET First(n, rows) == SubSeq(rows, 1, IF n < Len(rows) THEN n ELSE Len(rows))
        Answered(rows) == IF Ends(rows) THEN Result("raised", <<>>, catalog)
                          ELSE Result("rows", rows, catalog)
    IN  Answered(First(MaxRows, materialise(plan, catalog)))

(***************************************************************************)
(* Subqueries are run first and become literals.  The walk does not enter  *)
(* an IN list, and a subquery it leaves in place is refused by the binder. *)
(***************************************************************************)
ScalarSubquery(s) == [node |-> "ScalarSubquery", statement |-> s]

Bindings(tables) == {casefold(binding_name(tables[i])) : i \in DOMAIN tables}

map_expressions(Op(_), s) ==
    LET all(es) == [i \in DOMAIN es |-> Op(es[i])]
    IN  [s EXCEPT !.projections = [i \in DOMAIN @ |-> [@[i] EXCEPT !.expression = Op(@)]],
                  !.joins = [i \in DOMAIN @ |-> [@[i] EXCEPT !.on = Op(@)]],
                  !.where = all(@), !.group_by = all(@), !.having = all(@),
                  !.order_by = [i \in DOMAIN @ |-> [@[i] EXCEPT !.expression = Op(@)]]]

ExpressionsOf(s) ==
    [i \in DOMAIN s.projections |-> s.projections[i].expression]
    \o [i \in DOMAIN s.joins |-> s.joins[i].on]
    \o s.where \o s.group_by \o s.having
    \o [i \in DOMAIN s.order_by |-> s.order_by[i].expression]

refuse_if_correlated(inner, outer) ==
    LET nodes == UNION {NodesOf(ExpressionsOf(inner)[i]) : i \in DOMAIN ExpressionsOf(inner)}
    IN  \E n \in nodes : /\ n.node = "ColumnRef" /\ n.table # ""
                         /\ casefold(n.table) \in outer \ Bindings(inner.tables)

RECURSIVE execute_select(_, _)
RECURSIVE fold(_, _, _)

(* The value of a subquery, Null of no row, Wrong of more than one. *)
run_scalar(inner, catalog) ==
    LET Single(r) == IF r.kind # "rows" \/ Len(r.rows) > 1 THEN Wrong
                     ELSE Lit(IF r.rows = <<>> THEN Null ELSE r.rows[1][1])
    IN  IF Len(inner.projections) # 1 \/ inner.projections[1].expression.node = "Star"
        THEN Wrong
        ELSE Single(CHOOSE r \in execute_select(inner, catalog) : TRUE)

fold(e, catalog, outer) ==
    CASE e.node = "ScalarSubquery" ->
            IF refuse_if_correlated(e.statement, outer) THEN Wrong
            ELSE run_scalar(e.statement, catalog)
      [] e.node = "InList" -> e
      [] OTHER -> MapChildren(LAMBDA c : fold(c, catalog, outer), e)

fold_subqueries(s, catalog) ==
    map_expressions(LAMBDA e : fold(e, catalog, Bindings(s.tables)), s)

(* Every result some choice of plan gives. *)
execute_select(s, catalog) ==
    With(bind_select(fold_subqueries(s, catalog), catalog), LAMBDA b :
        IF ~b.ok THEN {Result("refused", <<>>, catalog)}
        ELSE {run_select(p, catalog) : p \in plan_query(b, catalog)})

(***************************************************************************)
(* Writes.  The rows are located, and the plan is drained, before the      *)
(* first of them changes.  A write that locates max_rows rows is refused.  *)
(***************************************************************************)
Version(row) == [row |-> row, dead |-> FALSE, visible |-> TRUE]
Slots(heap) == {i \in DOMAIN heap : heap[i].visible /\ ~heap[i].dead}

(* The address of a located row is the scan's last_record_id: the row      *)
(* source projects every column, so its rows are the scanned rows, each    *)
(* with its record id.                                                     *)
AddressedPlan(p) == IF p.op = "Project" THEN p.child ELSE p
ScanPart(p) == IF p.op = "Filter" THEN p.child ELSE p

ScannedSlots(scan, heap) ==
    LET entries == IF scan.op = "SeqScan" THEN [i \in DOMAIN heap |-> i]
                   ELSE IndexEntries(heap, scan.column)
        within(i) ==
            \/ scan.op = "SeqScan"
            \/ LET k == heap[i].row[scan.column]
               IN  AboveLow(k, scan.bounds) /\ BelowHigh(k, scan.bounds)
    IN  Pick(Len(entries),
             LAMBDA n : entries[n] \in Slots(heap) /\ within(entries[n]),
             LAMBDA n : entries[n])

(* A located sequence of record ids; <<0>> when the scan raised. *)
locate_rows(plan, heap) ==
    LET q == AddressedPlan(plan)
        verdict(i) == IF q.op = "Filter" THEN Passes(q.predicate, heap[i].row) ELSE BoolV(TRUE)
        bounded(ids) == IF Len(ids) >= MaxRows THEN <<0>> ELSE ids
        kept(scanned, verdicts) ==
            IF \E n \in DOMAIN verdicts : IsRaised(verdicts[n]) THEN <<0>>
            ELSE bounded(Pick(Len(scanned), LAMBDA n : verdicts[n] = BoolV(TRUE),
                                            LAMBDA n : scanned[n]))
    IN  With(ScannedSlots(ScanPart(q), heap), LAMBDA scanned :
            kept(scanned, [n \in DOMAIN scanned |-> verdict(scanned[n])]))

Hide(heap, ids) ==
    [i \in DOMAIN heap |->
        IF \E n \in DOMAIN ids : ids[n] = i THEN [heap[i] EXCEPT !.visible = FALSE]
        ELSE heap[i]]

Written(catalog, table, heap, n) ==
    Result("count", <<<<IntV(n)>>>>, [catalog EXCEPT ![table].heap = heap])

(* The record encoding: an integer stored in a FLOAT column is a double. *)
StoredValue(v, column) ==
    CASE IsNull(v) -> IF column.nullable THEN v ELSE Raised
      [] column.type = "float" /\ v[1] = "int" -> FloatV(RoundToDouble(v[2]), 1)
      [] v[1] = column.type -> v
      [] OTHER -> Raised

Stored(row, schema) == [c \in DOMAIN schema |-> StoredValue(row[c], schema[c])]
AnyRaised(rows) == \E n \in DOMAIN rows : \E c \in DOMAIN rows[n] : IsRaised(rows[n][c])

AppendRows(rows, table, heap, catalog) ==
    IF AnyRaised(rows) THEN Result("raised", <<>>, catalog)
    ELSE Written(catalog, table, heap \o [n \in DOMAIN rows |-> Version(rows[n])], Len(rows))

execute_insert(s, catalog) ==
    LET values(b, schema) ==
          [n \in DOMAIN b.rows |->
              Stored([c \in DOMAIN schema |-> evaluate(b.rows[n][c], <<>>)], schema)]
    IN  With(bind_insert(s, catalog), LAMBDA b :
            IF ~b.ok THEN {Result("refused", <<>>, catalog)}
            ELSE {AppendRows(values(b, catalog[b.table].schema), b.table,
                             catalog[b.table].heap, catalog)})

run_delete(b, plan, catalog) ==
    LET heap == catalog[b.table].heap
    IN  With(locate_rows(plan, heap), LAMBDA ids :
            IF ids = <<0>> THEN Result("raised", <<>>, catalog)
            ELSE Written(catalog, b.table, Hide(heap, ids), Len(ids)))

execute_delete(s, catalog) ==
    With(bind_delete(s, catalog), LAMBDA b :
        IF ~b.ok THEN {Result("refused", <<>>, catalog)}
        ELSE {run_delete(b, p, catalog) : p \in plan_row_source(b, catalog)})

(* Mutant: an assignment reads what the ones before it wrote. *)
AssignedInTurn(row, assignments) ==
    LET after[i \in 0..Len(assignments)] ==
          IF i = 0 THEN row
          ELSE [after[i - 1] EXCEPT ![assignments[i].column] =
                    evaluate(assignments[i].value, after[i - 1])]
    IN  after[Len(assignments)]

(* Every assignment reads the row as it was located. *)
Assigned(row, assignments) ==
    LET after[i \in 0..Len(assignments)] ==
          IF i = 0 THEN row
          ELSE [after[i - 1] EXCEPT ![assignments[i].column] =
                    evaluate(assignments[i].value, row)]
    IN  after[Len(assignments)]

run_update(b, plan, catalog) ==
    LET heap == catalog[b.table].heap
        replaced(id) == Stored(Assigned(heap[id].row, b.assignments), catalog[b.table].schema)
    IN  With(locate_rows(plan, heap), LAMBDA ids :
            IF ids = <<0>> THEN Result("raised", <<>>, catalog)
            ELSE AppendRows([n \in DOMAIN ids |-> replaced(ids[n])], b.table,
                            Hide(heap, ids), catalog))

execute_update(s, catalog) ==
    With(bind_update(s, catalog), LAMBDA b :
        IF ~b.ok THEN {Result("refused", <<>>, catalog)}
        ELSE {run_update(b, p, catalog) : p \in plan_row_source(b, catalog)})

(* EXPLAIN plans, and with ANALYZE also runs what it planned; its rows are *)
(* the plan's lines.                                                       *)
Executed(s, catalog) ==
    CASE s.kind = "SELECT" -> execute_select(s, catalog)
      [] s.kind = "INSERT" -> execute_insert(s, catalog)
      [] s.kind = "UPDATE" -> execute_update(s, catalog)
      [] s.kind = "DELETE" -> execute_delete(s, catalog)

Subject(s) == IF s.kind = "EXPLAIN" THEN s.statement ELSE s

execute_explain(s, r, catalog) ==
    CASE s.statement.kind = "INSERT" \/ r.kind = "refused" -> Result("refused", <<>>, catalog)
      [] r.kind = "raised" /\ s.analyze -> Result("raised", <<>>, catalog)
      [] OTHER -> Result("plan", <<>>, IF s.analyze THEN r.catalog ELSE catalog)

execute_statement(s, catalog) ==
    {IF s.kind = "EXPLAIN" THEN execute_explain(s, r, catalog) ELSE r :
        r \in Executed(Subject(s), catalog)}
=============================================================================

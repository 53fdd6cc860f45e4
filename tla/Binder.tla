------------------------------- MODULE Binder -------------------------------
(***************************************************************************)
(* engine/executor/binder.py: names become positions, aggregates become    *)
(* slots of a grouped row, and statements that cannot run are refused.     *)
(*                                                                         *)
(* A catalog is a function from folded table names to                      *)
(*     [name, schema, system, heap, indexes]                               *)
(* where schema is a sequence of [name, type, nullable, key].  A clause    *)
(* that may be absent is a sequence of length at most one.  A statement    *)
(* the binder refuses is Refused.                                          *)
(***************************************************************************)
EXTENDS Operators

CONSTANTS
    CaseFold    \* str.casefold on the identifiers of the instance

casefold(n) == IF n \in DOMAIN CaseFold THEN CaseFold[n] ELSE n

Refused == [ok |-> FALSE]
Bad(e) == Wrong \in NodesOf(e)
SomeBad(es) == \E i \in DOMAIN es : Bad(es[i])

(***************************************************************************)
(* Scopes: the tables of a FROM list, each owning a slice of the row.      *)
(***************************************************************************)
resolve_table(name, catalog) ==
    IF casefold(name) \in DOMAIN catalog THEN <<catalog[casefold(name)]>> ELSE <<>>

resolve_writable_table(name, catalog) ==
    LET info == resolve_table(name, catalog)
    IN  IF info # <<>> /\ info[1].system THEN <<>> ELSE info

binding_name(t) == IF t.alias = <<>> THEN t.name ELSE t.alias[1]

scope_width(scope) ==
    IF scope = <<>> THEN 0
    ELSE LET last == scope[Len(scope)] IN last.offset + Len(last.schema)

(* A binding may not be repeated; the comparison is of the names as written. *)
build_scope(tables, catalog) ==
    LET scope[i \in 0..Len(tables)] ==
          IF i = 0 THEN <<>>
          ELSE LET info == resolve_table(tables[i].name, catalog)
                   b == binding_name(tables[i])
                   before == scope[i - 1]
               IN  IF before = <<Wrong>> \/ info = <<>>
                      \/ \E k \in DOMAIN before : before[k].binding = b
                   THEN <<Wrong>>
                   ELSE Append(before, [binding |-> b, table |-> casefold(info[1].name),
                                        schema |-> info[1].schema,
                                        offset |-> scope_width(before),
                                        position |-> i])
    IN  scope[Len(tables)]

Scope_of(info) ==
    <<[binding |-> info.name, table |-> casefold(info.name),
       schema |-> info.schema, offset |-> 0, position |-> 1]>>

Scope_entry(scope, b) ==
    {i \in DOMAIN scope : casefold(scope[i].binding) = casefold(b)}

BoundCol(scope, i, c) ==
    Col(scope[i].offset + c, scope[i].schema[c].type, scope[i].position)

Scope_columns(scope) ==
    Flatten([i \in DOMAIN scope |-> [c \in DOMAIN scope[i].schema |-> <<i, c>>]])

bind_column_ref(r, scope) ==
    LET found == {p \in UNION {{i} \X DOMAIN scope[i].schema : i \in DOMAIN scope} :
                    /\ casefold(scope[p[1]].schema[p[2]].name) = casefold(r.name)
                    /\ r.table = "" \/ casefold(scope[p[1]].binding) = casefold(r.table)}
    IN  IF Cardinality(found) # 1 THEN Wrong
        ELSE LET p == CHOOSE p \in found : TRUE IN BoundCol(scope, p[1], p[2])

RECURSIVE bind_expression(_, _)
bind_expression(e, scope) ==
    CASE e.node = "ColumnRef" -> bind_column_ref(e, scope)
      [] e.node \in {"Star", "ScalarSubquery"} -> Wrong
      [] OTHER -> MapChildren(LAMBDA c : bind_expression(c, scope), e)

BindAll(es, scope) == [i \in DOMAIN es |-> bind_expression(es[i], scope)]

(***************************************************************************)
(* Static types: what the binder can know before there is a row.           *)
(***************************************************************************)
RECURSIVE static_type(_)

aggregate_type(f, argument) ==
    CASE f = "COUNT" -> "int"
      [] f = "AVG" -> "float"
      [] OTHER -> static_type(argument)

static_type(e) ==
    CASE e.node = "Column" -> e.type
      [] e.node = "Literal" -> IF IsNull(e.value) THEN "unknown" ELSE e.value[1]
      [] e.node = "IsNullTest" -> "bool"
      [] e.node = "Aggregate" -> aggregate_type(e.function, e.argument)
      [] e.node = "UnaryOp" -> static_type(e.operand)
      [] e.node = "BinaryOp" ->
            IF e.operator \in Comparisons \cup {"AND", "OR"} THEN "bool"
            ELSE LET l == static_type(e.left)
                     r == static_type(e.right)
                 IN  CASE l = r -> l
                       [] {l, r} \subseteq {"int", "float"} -> "float"
                       [] OTHER -> "unknown"
      [] OTHER -> "unknown"

require_predicate(e) == static_type(e) \in {"unknown", "bool"}

any_aggregate(e) == \E n \in NodesOf(e) : n.node = "Aggregate"
reject_aggregates(e) == ~any_aggregate(e)

(* SUM and AVG need a number; MIN, MAX and COUNT take anything. *)
require_aggregable(call) ==
    call.function \in {"SUM", "AVG"} =>
        static_type(call.argument) \in {"unknown", "int", "float"}

(***************************************************************************)
(* Aggregation.  Two expressions are one when their signatures are equal.  *)
(* An IN list has no signature: it is equal to nothing, itself included.   *)
(***************************************************************************)
Unmatchable == <<"other">>

RECURSIVE signature(_)
signature(e) ==
    CASE e.node = "Column" -> <<"col", e.index>>
      [] e.node = "Literal" -> <<"lit", e.value>>
      [] e.node = "Aggregate" ->
            <<"agg", e.function,
              IF e.argument.node = "Star" THEN <<>> ELSE signature(e.argument)>>
      [] e.node = "UnaryOp" -> <<"un", e.operator, signature(e.operand)>>
      [] e.node = "BinaryOp" ->
            <<"bin", e.operator, signature(e.left), signature(e.right)>>
      [] e.node = "IsNullTest" -> <<"isnull", e.negated, signature(e.operand)>>
      [] OTHER -> Unmatchable

RECURSIVE Signable(_)
Signable(e) == e.node # "InList" /\ \A i \in DOMAIN Children(e) : Signable(Children(e)[i])

SameExpression(d, e) ==
    Signable(d) /\ Signable(e) /\ d.node = e.node /\ signature(d) = signature(e)

(* A dict keyed by signature: the last of equal keys wins. *)
PositionsOf(es, e) == {i \in DOMAIN es : SameExpression(es[i], e)}
LastOf(S) == CHOOSE i \in S : \A k \in S : k <= i

slot_ref(e, slot) == Col(slot, static_type(e), 0)

RECURSIVE rewrite_over_group(_, _, _)
rewrite_over_group(e, keys, aggregates) ==
    CASE PositionsOf(keys, e) # {} -> slot_ref(e, LastOf(PositionsOf(keys, e)))
      [] PositionsOf(aggregates, e) # {} ->
            slot_ref(e, Len(keys) + LastOf(PositionsOf(aggregates, e)))
      [] e.node = "Column" -> Wrong
      [] e.node \in {"UnaryOp", "BinaryOp", "IsNullTest"} ->
            MapChildren(LAMBDA c : rewrite_over_group(c, keys, aggregates), e)
      [] OTHER -> e

(* The distinct aggregate calls of the SELECT list and of HAVING, in order. *)
Registered(es) ==
    LET Calls(nodes) == SelectSeq(nodes, LAMBDA n : n.node = "Aggregate")
        FirstOfEach(calls) ==
            Pick(Len(calls),
                 LAMBDA i : ~\E k \in 1..i - 1 : SameExpression(calls[k], calls[i]),
                 LAMBDA i : calls[i])
    IN  FirstOfEach(Calls(Flatten([i \in DOMAIN es |-> walk(es[i])])))

(* Answers the rewritten projections and the aggregation, if there is one. *)
Aggregation(projections, group_keys, calls, having) ==
    IF SomeBad(projections \o having) THEN Refused
    ELSE [ok |-> TRUE, projections |-> projections,
          aggregation |-> <<[group_keys |-> group_keys, aggregates |-> calls,
                             having |-> having]>>]

plan_aggregation(projections, group_keys, having) ==
    LET Over(calls) ==
          CASE \E i \in DOMAIN calls : ~require_aggregable(calls[i]) -> Refused
            [] group_keys = <<>> /\ calls = <<>> ->
                  [ok |-> TRUE, projections |-> projections, aggregation |-> <<>>]
            [] OTHER ->
                  LET rewrite(es) == [i \in DOMAIN es |->
                                         rewrite_over_group(es[i], group_keys, calls)]
                  IN  Aggregation(rewrite(projections), group_keys, calls, rewrite(having))
    IN  Over(Registered(projections \o having))

(***************************************************************************)
(* The SELECT list and ORDER BY.  An output name is a tuple of words, so   *)
(* that a qualified or made-up name never equals an identifier.            *)
(***************************************************************************)
RECURSIVE label_of(_)
label_of(e) ==
    IF e.node # "Aggregate" THEN <<e.node>>
    ELSE <<e.function>> \o IF e.argument.node = "Star" THEN <<"*">> ELSE label_of(e.argument)

output_name(item, bound, scope) ==
    CASE item.alias # <<>> -> <<item.alias[1]>>
      [] bound.node = "Column" ->
            LET e == scope[bound.position]
            IN  <<e.schema[bound.index - e.offset].name>>
      [] bound.node = "Aggregate" -> label_of(bound)
      [] OTHER -> <<"?column?">>

(* A star expands to the columns of the tables whose binding is the name   *)
(* exactly as written, once the folded name is known to be one of them.    *)
expand_item(item, scope) ==
    IF item.expression.node # "Star"
    THEN LET bound == bind_expression(item.expression, scope)
         IN  <<[expression |-> bound,
                name |-> IF Bad(bound) THEN <<>> ELSE output_name(item, bound, scope)]>>
    ELSE LET wanted == item.expression.table
             all == Scope_columns(scope)
         IN  IF item.alias # <<>> \/ (wanted # "" /\ Scope_entry(scope, wanted) = {})
             THEN <<[expression |-> Wrong, name |-> <<>>]>>
             ELSE Pick(Len(all),
                       LAMBDA n : wanted = "" \/ scope[all[n][1]].binding = wanted,
                       LAMBDA n : LET i == all[n][1]
                                      c == scope[i].schema[all[n][2]].name
                                  IN  [expression |-> BoundCol(scope, i, all[n][2]),
                                       name |-> IF Len(scope) = 1 THEN <<c>>
                                                ELSE <<scope[i].binding, c>>])

(* The position in the SELECT list a sort item means, or 0.  The range     *)
(* check of a bare integer adds the two dictionaries' sizes together.      *)
LastOrNone(S) == IF S = {} THEN 0 ELSE LastOf(S)

sort_position(e, projections, names, scope, aggregation) ==
    LET distinctNames == {names[i] : i \in DOMAIN names}
        signed == {i \in DOMAIN projections :
                     ~\E k \in DOMAIN projections :
                        k > i /\ SameExpression(projections[i], projections[k])}
        byName == {i \in DOMAIN names : names[i] = <<e.name>>}
        OverGroup(bound) ==
            IF aggregation = <<>> \/ Bad(bound) THEN bound
            ELSE rewrite_over_group(bound, aggregation[1].group_keys,
                                           aggregation[1].aggregates)
        Same(over) == IF Bad(over) THEN 0 ELSE LastOrNone(PositionsOf(projections, over))
    IN  CASE e.node = "Literal" /\ e.value[1] \in {"int", "bool"} ->
                LET p == HashKey(e.value)[2]
                IN  IF p \in 1..Cardinality(distinctNames) + Cardinality(signed)
                    THEN p ELSE 0
          [] e.node = "ColumnRef" /\ e.table = "" /\ byName # {} -> LastOf(byName)
          [] OTHER -> Same(OverGroup(bind_expression(e, scope)))

bind_order_by(order_by, projections, names, scope, aggregation) ==
    [i \in DOMAIN order_by |->
        [output_index |-> sort_position(order_by[i].expression, projections, names,
                                        scope, aggregation),
         descending |-> order_by[i].descending]]

(* The clauses bound, each in the scope of the whole FROM list. *)
bind_clauses(s, scope) ==
    [conditions |-> [i \in DOMAIN s.joins |-> bind_expression(s.joins[i].on, scope)],
     where |-> BindAll(s.where, scope),
     group_keys |-> BindAll(s.group_by, scope),
     having |-> BindAll(s.having, scope),
     items |-> Flatten([i \in DOMAIN s.projections |->
                            expand_item(s.projections[i], scope)])]

ItemExpressions(items) == [i \in DOMAIN items |-> items[i].expression]
ItemNames(items) == [i \in DOMAIN items |-> items[i].name]

(* What a clause may not be: unknown to the scope, an aggregate before     *)
(* there are groups, a condition that is no predicate, a HAVING of none.   *)
clauses_refused(c) ==
    LET plain == c.conditions \o c.where \o c.group_keys
        predicates == c.conditions \o c.where \o c.having
    IN  \/ SomeBad(plain \o ItemExpressions(c.items) \o c.having)
        \/ \E i \in DOMAIN plain : ~reject_aggregates(plain[i])
        \/ \E i \in DOMAIN predicates : ~require_predicate(predicates[i])
        \/ c.having # <<>> /\ c.group_keys = <<>> /\ ~any_aggregate(c.having[1])

bind_select(s, catalog) ==
    LET Bound(scope, c, plan, order) ==
          IF \E i \in DOMAIN order : order[i].output_index = 0 THEN Refused
          ELSE [ok |-> TRUE, scope |-> scope,
                joins |-> [i \in DOMAIN s.joins |-> [kind |-> s.joins[i].kind,
                                                     condition |-> c.conditions[i]]],
                projections |-> plan.projections, names |-> ItemNames(c.items),
                where |-> c.where, aggregation |-> plan.aggregation,
                order_by |-> order, limit |-> s.limit, offset |-> s.offset,
                distinct |-> s.distinct]
        Aggregated(scope, c, plan) ==
          IF ~plan.ok THEN Refused
          ELSE Bound(scope, c, plan, bind_order_by(s.order_by, plan.projections,
                                        ItemNames(c.items), scope, plan.aggregation))
        Checked(scope, c) ==
          IF clauses_refused(c) THEN Refused
          ELSE Aggregated(scope, c, plan_aggregation(ItemExpressions(c.items), c.group_keys,
                                                  c.having))
        Scoped(scope) ==
          IF \E i \in DOMAIN scope : scope[i] = Wrong THEN Refused
          ELSE Checked(scope, bind_clauses(s, scope))
    IN  Scoped(build_scope(s.tables, catalog))

is_identity_projection(b) ==
    /\ b.aggregation = <<>>
    /\ \A i \in DOMAIN b.projections :
          b.projections[i].node = "Column" /\ b.projections[i].index = i
    /\ Len(b.projections) = scope_width(b.scope)

identity_projection(schema) == [c \in DOMAIN schema |-> Col(c, schema[c].type, 1)]

(***************************************************************************)
(* The writes and CREATE TABLE.                                            *)
(***************************************************************************)
index_of(schema, name) ==
    {c \in DOMAIN schema : casefold(schema[c].name) = casefold(name)}

(* The target positions, or <<0>> when a name is unknown or repeated. *)
resolve_insert_columns(names, schema) ==
    LET at(i) == index_of(schema, names[i])
    IN  IF \/ \E i \in DOMAIN names : at(i) = {}
           \/ \E i, k \in DOMAIN names : i # k /\ at(i) = at(k)
        THEN <<0>>
        ELSE [i \in DOMAIN names |-> CHOOSE c \in at(i) : TRUE]

require_omitted_columns_are_nullable(schema, targets) ==
    \A c \in DOMAIN schema :
        schema[c].nullable \/ \E i \in DOMAIN targets : targets[i] = c

bind_insert(s, catalog) ==
    LET info == resolve_writable_table(s.table, catalog)
        schema == info[1].schema
        targets == IF s.columns = <<>> THEN [c \in DOMAIN schema |-> c]
                   ELSE resolve_insert_columns(s.columns[1], schema)
        value(row, c) ==
            IF \E i \in DOMAIN targets : targets[i] = c
            THEN bind_expression(row[CHOOSE i \in DOMAIN targets : targets[i] = c],
                                 Scope_of(info[1]))
            ELSE Lit(Null)
        rows == [n \in DOMAIN s.rows |-> [c \in DOMAIN schema |-> value(s.rows[n], c)]]
    IN  CASE info = <<>> -> Refused
          [] targets = <<0>> -> Refused
          [] \E n \in DOMAIN s.rows : Len(s.rows[n]) # Len(targets) -> Refused
          [] ~require_omitted_columns_are_nullable(schema, targets) -> Refused
          [] \E n \in DOMAIN rows : SomeBad(rows[n]) -> Refused
          [] OTHER -> [ok |-> TRUE, table |-> casefold(info[1].name), rows |-> rows]

check_assignable(column, value) ==
    LET t == static_type(value)
    IN  /\ ~(value = Lit(Null) /\ ~column.nullable)
        /\ t \in {"unknown", column.type} \/ (column.type = "float" /\ t = "int")

writable_scope(info) == Scope_of(info)

bind_update(s, catalog) ==
    LET info == resolve_writable_table(s.table, catalog)
        schema == info[1].schema
        at(i) == index_of(schema, s.assignments[i].column)
        col(i) == CHOOSE c \in at(i) : TRUE
        scope == writable_scope(info[1])
        value(i) == bind_expression(s.assignments[i].value, scope)
        where == BindAll(s.where, scope)
    IN  CASE info = <<>> -> Refused
          [] \E i \in DOMAIN s.assignments : at(i) = {} -> Refused
          [] \E i, k \in DOMAIN s.assignments : i # k /\ at(i) = at(k) -> Refused
          [] \E i \in DOMAIN s.assignments :
                Bad(value(i)) \/ ~check_assignable(schema[col(i)], value(i)) -> Refused
          [] SomeBad(where) -> Refused
          [] OTHER -> [ok |-> TRUE, table |-> casefold(info[1].name), where |-> where,
                       assignments |-> [i \in DOMAIN s.assignments |->
                                          [column |-> col(i), value |-> value(i)]]]

bind_delete(s, catalog) ==
    LET info == resolve_writable_table(s.table, catalog)
        where == BindAll(s.where, writable_scope(info[1]))
    IN  CASE info = <<>> -> Refused
          [] SomeBad(where) -> Refused
          [] OTHER -> [ok |-> TRUE, table |-> casefold(info[1].name), where |-> where]
=============================================================================

----------------------------- MODULE Reference -----------------------------
(***************************************************************************)
(* What a statement means, apart from how the engine computes it: SQL's    *)
(* own definition over rows as environments.  Joins are taken in written   *)
(* order, logic is the three-valued lattice FALSE < UNKNOWN < TRUE, a name *)
(* is looked up where it stands, and nothing is planned.  A row of a FROM  *)
(* list is a function from <<table position, column>> to values.           *)
(*                                                                         *)
(* An expression that raises on some row it is defined on makes the whole  *)
(* statement undefined here: SQL leaves the order of evaluation open, so   *)
(* such a statement may answer or raise.                                   *)
(*                                                                         *)
(* Only the representation of values, trees and catalogs is shared with    *)
(* the modules of the engine.                                              *)
(***************************************************************************)
EXTENDS Engine

Live(table) ==
    LET seen == SelectSeq(table.heap, LAMBDA v : v.visible /\ ~v.dead)
    IN  [n \in DOMAIN seen |-> seen[n].row]

Count(s, x) == Cardinality({i \in DOMAIN s : s[i] = x})
SameBag(s, t) == Len(s) = Len(t) /\ \A i \in DOMAIN s : Count(s, s[i]) = Count(t, s[i])
SubBag(s, t) == \A i \in DOMAIN s : Count(s, s[i]) <= Count(t, s[i])

(***************************************************************************)
(* Names.                                                                  *)
(***************************************************************************)
Visible(tables, catalog) ==
    UNION {LET schema == catalog[casefold(tables[i].name)].schema
           IN  {[binding |-> casefold(binding_name(tables[i])), at |-> <<i, c>>,
                 name |-> casefold(schema[c].name)] : c \in DOMAIN schema} :
             i \in DOMAIN tables}

Meant(r, scope) ==
    {x \in scope : /\ x.name = casefold(r.name)
                   /\ r.table = "" \/ x.binding = casefold(r.table)}

AllNodes(es) == UNION {NodesOf(es[i]) : i \in DOMAIN es}

(* The items of the SELECT list, its stars spelt out. *)
Items(s, q) ==
    Flatten([i \in DOMAIN s.projections |->
        LET e == s.projections[i].expression
            of(k) == LET t == s.tables[k]
                         schema == q.catalog[casefold(t.name)].schema
                     IN  [c \in DOMAIN schema |->
                            [expression |-> Ref(binding_name(t), schema[c].name),
                             label |-> schema[c].name]]
        IN  IF e.node # "Star"
            THEN <<[expression |-> e,
                    label |-> CASE s.projections[i].alias # <<>> -> s.projections[i].alias[1]
                                [] e.node = "ColumnRef" -> e.name
                                [] OTHER -> ""]>>
            ELSE Flatten([k \in DOMAIN s.tables |->
                    IF e.table = "" \/ casefold(e.table) = casefold(binding_name(s.tables[k]))
                    THEN of(k) ELSE <<>>])])

Context(s, catalog) == [scope |-> Visible(s.tables, catalog), catalog |-> catalog]

Grouped(s) ==
    \/ s.group_by # <<>> \/ s.having # <<>>
    \/ \E i \in DOMAIN s.projections : any_aggregate(s.projections[i].expression)

(* The names read of single rows, neither grouped by nor aggregated. *)
RECURSIVE Loose(_, _)
Loose(e, groups) ==
    CASE e \in groups \/ e.node = "Aggregate" -> {}
      [] e.node \in {"ColumnRef", "Star"} -> {e}
      [] OTHER -> UNION {Loose(Children(e)[i], groups) : i \in DOMAIN Children(e)}

(* The items an ORDER BY term stands for: one by its position, those of an *)
(* output name, those with its meaning.                                    *)
SortColumns(e, items, scope) ==
    LET named == {i \in DOMAIN items : e.node = "ColumnRef" /\ e.table = ""
                                       /\ items[i].label = e.name}
        same(f) == f = e \/ (/\ e.node = "ColumnRef" /\ f.node = "ColumnRef"
                             /\ Meant(e, scope) = Meant(f, scope))
    IN  IF e.node = "Literal" THEN {e.value[2]} \cap DOMAIN items
        ELSE IF named # {} THEN named
        ELSE {i \in DOMAIN items : same(items[i].expression)}

(* Every table is known, no binding is repeated, every name is of one      *)
(* column, a grouped query reads its groups and their aggregates, and an   *)
(* ORDER BY names an item of the SELECT list.                              *)
Named(s, catalog) ==
    LET scope == Visible(s.tables, catalog)
        bindings == {casefold(binding_name(s.tables[i])) : i \in DOMAIN s.tables}
        refs(es) == {n \in AllNodes(es) : n.node = "ColumnRef"}
        plain == [i \in DOMAIN s.joins |-> s.joins[i].on]
                 \o s.where \o s.group_by \o s.having
                 \o [i \in DOMAIN s.projections |-> s.projections[i].expression]
        stars == {n \in AllNodes(plain) : n.node = "Star" /\ n.table # ""}
    IN  /\ \A i \in DOMAIN s.tables : casefold(s.tables[i].name) \in DOMAIN catalog
        /\ Cardinality(bindings) = Len(s.tables)
        /\ \A r \in refs(plain) : Cardinality(Meant(r, scope)) = 1
        /\ \A n \in stars : casefold(n.table) \in bindings
        /\ Grouped(s) =>
              \A i \in DOMAIN s.projections :
                 Loose(s.projections[i].expression, {s.group_by[g] : g \in DOMAIN s.group_by}) = {}
        /\ \A i \in DOMAIN s.order_by :
              SortColumns(s.order_by[i].expression, Items(s, Context(s, catalog)), scope) # {}

(* The ON of a join reads no table written after it. *)
InScope(s, catalog) ==
    LET scope == Visible(s.tables, catalog)
    IN  \A i \in DOMAIN s.joins :
            \A n \in {m \in NodesOf(s.joins[i].on) : m.node = "ColumnRef"} :
                \A x \in Meant(n, scope) : x.at[1] <= i + 1

(***************************************************************************)
(* Values.                                                                 *)
(***************************************************************************)
Rank(v) == CASE v = BoolV(FALSE) -> 0 [] v = Null -> 1 [] v = BoolV(TRUE) -> 2
Truth(n) == CASE n = 0 -> BoolV(FALSE) [] n = 1 -> Null [] OTHER -> BoolV(TRUE)
IsTruth(v) == v[1] \in {"bool", "null"}
Least(S) == CHOOSE n \in S : \A m \in S : n <= m
Greatest(S) == CHOOSE n \in S : \A m \in S : n >= m

OfKind(v) == IF v[1] = "float" THEN "int" ELSE v[1]

InOrder(v, w) ==
    CASE IsNumber(v) -> NumberLess(v, w)
      [] IsBool(v) -> v = BoolV(FALSE) /\ w = BoolV(TRUE)
      [] OTHER -> v[2] < w[2]

Compared(op, v, w) ==
    CASE v = Null \/ w = Null -> Null
      [] OfKind(v) # OfKind(w) -> Raised
      [] op \in {"<", ">="} -> BoolV(InOrder(v, w) = (op = "<"))
      [] op \in {">", "<="} -> BoolV(InOrder(w, v) = (op = ">"))
      [] OTHER -> BoolV((~InOrder(v, w) /\ ~InOrder(w, v)) = (op = "="))

(* The integer quotient toward zero, by its definition. *)
Quotient(m, n) ==
    CHOOSE q \in -Abs(m)..Abs(m) :
        /\ Abs(q * n) <= Abs(m) /\ Abs(m) < Abs(q * n) + Abs(n)
        /\ q # 0 => (q > 0) = ((m > 0) = (n > 0))

Exact(v, w, num, den) ==
    IF v[1] = "int" /\ w[1] = "int"
    THEN IF num \in IntMin..IntMax THEN IntV(num) ELSE Raised
    ELSE FloatV(num, den)

Computed(op, v, w) ==
    CASE v = Null \/ w = Null -> Null
      [] ~IsNumber(v) \/ ~IsNumber(w) -> Raised
      [] op = "+" -> Exact(v, w, Num(v) * Den(w) + Num(w) * Den(v), Den(v) * Den(w))
      [] op = "-" -> Exact(v, w, Num(v) * Den(w) - Num(w) * Den(v), Den(v) * Den(w))
      [] op = "*" -> Exact(v, w, Num(v) * Num(w), Den(v) * Den(w))
      [] Num(w) = 0 -> Raised
      [] op = "/" -> IF v[1] = "int" /\ w[1] = "int"
                     THEN Exact(v, w, Quotient(Num(v), Num(w)), 1)
                     ELSE FloatV(Num(v) * Den(w), Den(v) * Num(w))
      [] op = "%" -> LET m == Num(v) * Den(w)
                         n == Num(w) * Den(v)
                     IN  Exact(v, w, m - n * Quotient(m, n), Den(v) * Den(w))

RECURSIVE Total(_)
Total(vs) ==
    IF Len(vs) = 1 THEN vs[1]
    ELSE LET t == Total(Tail(vs)) IN IF IsRaised(t) THEN t ELSE Computed("+", t, Head(vs))

Summarised(f, vs) ==
    CASE f = "COUNT" -> IntV(Len(vs))
      [] vs = <<>> -> Null
      [] f = "SUM" -> Total(vs)
      [] f = "AVG" -> LET t == Total([i \in DOMAIN vs |-> FloatV(Num(vs[i]), Den(vs[i]))])
                      IN  FloatV(Num(t), Den(t) * Len(vs))
      [] f = "MIN" -> CHOOSE v \in {vs[i] : i \in DOMAIN vs} :
                        \A i \in DOMAIN vs : ~InOrder(vs[i], v)
      [] f = "MAX" -> CHOOSE v \in {vs[i] : i \in DOMAIN vs} :
                        \A i \in DOMAIN vs : ~InOrder(v, vs[i])

RECURSIVE Rows(_, _)
RECURSIVE Value(_, _, _, _)

(* IN is the disjunction of the comparisons. *)
Among(tests, negated) ==
    IF Raised \in tests THEN Raised
    ELSE LET n == Greatest({Rank(t) : t \in tests})
         IN  Truth(IF negated THEN 2 - n ELSE n)

UnaryValue(op, v) ==
    CASE v = Null \/ IsRaised(v) -> v
      [] op = "NOT" -> IF IsTruth(v) THEN Truth(2 - Rank(v)) ELSE Raised
      [] op = "NEGATE" -> Computed("-", IntV(0), v)
      [] OTHER -> Computed("+", IntV(0), v)

BinaryValue(op, v, w) ==
    CASE IsRaised(v) \/ IsRaised(w) -> Raised
      [] op \in {"AND", "OR"} ->
            IF ~IsTruth(v) \/ ~IsTruth(w) THEN Raised
            ELSE IF op = "AND" THEN Truth(Least({Rank(v), Rank(w)}))
            ELSE Truth(Greatest({Rank(v), Rank(w)}))
      [] op \in Comparisons -> Compared(op, v, w)
      [] OTHER -> Computed(op, v, w)

AggregateValue(f, vs) ==
    IF \E i \in DOMAIN vs : IsRaised(vs[i]) THEN Raised
    ELSE Summarised(f, SelectSeq(vs, LAMBDA v : v # Null))

ScalarValue(r) ==
    IF r.raised \/ Len(r.rows) > 1 THEN Raised
    ELSE IF r.rows = <<>> THEN Null ELSE r.rows[1][1]

(* The value of e on a row; `group` is the group the row stands for, which *)
(* an aggregate ranges over.  q holds the scope and the catalog.           *)
Value(e, row, group, q) ==
    LET V(d) == Value(d, row, group, q)
        Test(v) == IF IsRaised(v) THEN v ELSE BoolV((v = Null) # e.negated)
    IN  CASE e.node = "Literal" -> e.value
          [] e.node = "ColumnRef" -> row[(CHOOSE x \in Meant(e, q.scope) : TRUE).at]
          [] e.node = "IsNullTest" -> Test(V(e.operand))
          [] e.node = "InList" ->
                Among({BinaryValue("=", V(e.operand), V(e.items[i])) : i \in DOMAIN e.items},
                      e.negated)
          [] e.node = "UnaryOp" -> UnaryValue(e.operator, V(e.operand))
          [] e.node = "BinaryOp" -> BinaryValue(e.operator, V(e.left), V(e.right))
          [] e.node = "Aggregate" ->
                IF e.argument.node = "Star" THEN IntV(Len(group))
                ELSE AggregateValue(e.function,
                        [i \in DOMAIN group |-> Value(e.argument, group[i], <<group[i]>>, q)])
          [] e.node = "ScalarSubquery" -> ScalarValue(Rows(e.statement, q.catalog))

(* A condition that may be absent, and what it keeps of some rows. *)
Condition(es, row, group, q) ==
    IF es = <<>> THEN BoolV(TRUE) ELSE Value(es[1], row, group, q)
KeptOf(rows, verdicts) ==
    Pick(Len(rows), LAMBDA n : verdicts[n] = BoolV(TRUE), LAMBDA n : rows[n])
OthersOf(rows, verdicts) ==
    Pick(Len(rows), LAMBDA n : verdicts[n] # BoolV(TRUE), LAMBDA n : rows[n])
SomeNoTruth(verdicts) == \E n \in DOMAIN verdicts : ~IsTruth(verdicts[n])

(***************************************************************************)
(* FROM.                                                                   *)
(***************************************************************************)
Both(l, r) == [p \in DOMAIN l \cup DOMAIN r |-> IF p \in DOMAIN l THEN l[p] ELSE r[p]]

JoinedTo(L, R, lnull, rnull, kind, V(_)) ==
    LET hit(l, r) == V(Both(l, r)) = BoolV(TRUE)
        beside(l) == LET rs == SelectSeq(R, LAMBDA r : hit(l, r))
                     IN  [i \in DOMAIN rs |-> Both(l, rs[i])]
        alone == IF kind \in {"LEFT", "FULL"}
                 THEN SelectSeq(L, LAMBDA l : \A k \in DOMAIN R : ~hit(l, R[k])) ELSE <<>>
        single == IF kind \in {"RIGHT", "FULL"}
                  THEN SelectSeq(R, LAMBDA r : \A i \in DOMAIN L : ~hit(L[i], r)) ELSE <<>>
    IN  [raised |-> \E i \in DOMAIN L, k \in DOMAIN R : IsRaised(V(Both(L[i], R[k]))),
         rows |-> Flatten([i \in DOMAIN L |-> beside(L[i])])
                  \o [i \in DOMAIN alone |-> Both(alone[i], rnull)]
                  \o [i \in DOMAIN single |-> Both(lnull, single[i])]]

From(s, q) ==
    LET table(i) == q.catalog[casefold(s.tables[i].name)]
        columns(i) == {i} \X DOMAIN table(i).schema
        nulls(I) == [p \in UNION {columns(i) : i \in I} |-> Null]
        rows(i) == LET live == Live(table(i))
                   IN  [n \in DOMAIN live |-> [p \in columns(i) |-> live[n][p[2]]]]
        upto[i \in DOMAIN s.tables] ==
          IF i = 1 THEN [raised |-> FALSE, rows |-> rows(1)]
          ELSE LET before == upto[i - 1]
                   made == JoinedTo(before.rows, rows(i), nulls(1..i - 1), nulls({i}),
                                    s.joins[i - 1].kind,
                                    LAMBDA row : Value(s.joins[i - 1].on, row, <<>>, q))
               IN  [made EXCEPT !.raised = @ \/ before.raised]
    IN  upto[Len(s.tables)]

(***************************************************************************)
(* SELECT: the rows before ORDER BY and LIMIT.                             *)
(***************************************************************************)
GroupsBy(rows, keys) ==
    Pick(Len(rows),
         LAMBDA n : \A k \in 1..n - 1 : keys[k] # keys[n],
         LAMBDA n : Pick(Len(rows), LAMBDA k : keys[k] = keys[n], LAMBDA k : rows[k]))

Partition(s, rows, q) ==
    CASE ~Grouped(s) -> [n \in DOMAIN rows |-> <<rows[n]>>]
      [] s.group_by = <<>> -> <<rows>>
      [] OTHER -> GroupsBy(rows, [n \in DOMAIN rows |->
                    [i \in DOMAIN s.group_by |-> Value(s.group_by[i], rows[n], <<>>, q)]])

Standing(group) == IF group = <<>> THEN <<>> ELSE group[1]

ItemRows(groups, items, q) ==
    [n \in DOMAIN groups |->
        [i \in DOMAIN items |-> Value(items[i].expression, Standing(groups[n]), groups[n], q)]]

Answer(rows, distinct, raised) ==
    [raised |-> raised \/ \E n \in DOMAIN rows : \E i \in DOMAIN rows[n] : IsRaised(rows[n][i]),
     rows |-> IF ~distinct THEN rows
              ELSE Pick(Len(rows), LAMBDA n : \A k \in 1..n - 1 : rows[k] # rows[n],
                                   LAMBDA n : rows[n])]

OfGroups(s, groups, raised, q) ==
    With([g \in DOMAIN groups |-> Condition(s.having, Standing(groups[g]), groups[g], q)],
         LAMBDA verdicts : Answer(ItemRows(KeptOf(groups, verdicts), Items(s, q), q),
                                  s.distinct, raised \/ SomeNoTruth(verdicts)))

OfFrom(s, from, q) ==
    With([n \in DOMAIN from.rows |-> Condition(s.where, from.rows[n], <<>>, q)],
         LAMBDA verdicts : OfGroups(s, Partition(s, KeptOf(from.rows, verdicts), q),
                                    from.raised \/ SomeNoTruth(verdicts), q))

Rows(s, catalog) ==
    With(Context(s, catalog), LAMBDA q : OfFrom(s, From(s, q), q))

(***************************************************************************)
(* ORDER BY, LIMIT and OFFSET, as a relation: `answer` holds the rows of   *)
(* some arrangement of `rows` that is sorted as asked, from the offset on, *)
(* no more than the limit.                                                 *)
(***************************************************************************)
Precedes(r, t, order, items, scope) ==
    LET at(n) == CHOOSE i \in SortColumns(order[n].expression, items, scope) : TRUE
        less(v, w) == v # Null /\ (w = Null \/ InOrder(v, w))
        before(n) == IF order[n].descending THEN less(t[at(n)], r[at(n)])
                     ELSE less(r[at(n)], t[at(n)])
    IN  \E n \in DOMAIN order : before(n) /\ \A m \in 1..n - 1 : r[at(m)] = t[at(m)]

(* The answer's n-th row may stand at the place offset + n: the rows that  *)
(* must come before it number less than that, and the rows that may do not.*)
Arranged(answer, rows, offset, order, items, scope) ==
    /\ \A n, m \in DOMAIN answer :
          n < m => ~Precedes(answer[m], answer[n], order, items, scope)
    /\ \A n \in DOMAIN answer :
          LET must == {k \in DOMAIN rows : Precedes(rows[k], answer[n], order, items, scope)}
              may == {k \in DOMAIN rows : ~Precedes(answer[n], rows[k], order, items, scope)}
          IN  Cardinality(must) < offset + n /\ offset + n <= Cardinality(may)

Answers(answer, r, s, catalog) ==
    LET offset == IF s.limit = <<>> \/ s.offset = <<>> THEN 0 ELSE s.offset[1]
        available == IF Len(r.rows) > offset THEN Len(r.rows) - offset ELSE 0
        wanted == Least({available, MaxRows} \cup {s.limit[i] : i \in DOMAIN s.limit})
    IN  /\ answer.kind = "rows"
        /\ Len(answer.rows) = wanted
        /\ SubBag(answer.rows, r.rows)
        /\ Arranged(answer.rows, r.rows, offset, s.order_by,
                    Items(s, Context(s, catalog)), Visible(s.tables, catalog))

Expected(s, catalog, answer) ==
    With(Rows(s, catalog), LAMBDA r : r.raised \/ Answers(answer, r, s, catalog))

(***************************************************************************)
(* The writes: the rows of the table afterwards, as a bag.                 *)
(***************************************************************************)
Fits(v, column) ==
    IF v = Null THEN column.nullable
    ELSE v[1] = column.type \/ (column.type = "float" /\ v[1] = "int")

Kept(v, column) ==
    IF column.type = "float" /\ v[1] = "int" THEN FloatV(RoundToDouble(v[2]), 1) ELSE v

(* The value of a column after UPDATE, and in a row of INSERT. *)
Updated(s, row, env, c, schema, q) ==
    LET mine == {i \in DOMAIN s.assignments :
                    casefold(s.assignments[i].column) = casefold(schema[c].name)}
    IN  IF mine = {} THEN row[c]
        ELSE Value(s.assignments[CHOOSE i \in mine : TRUE].value, env, <<>>, q)

Inserted(s, values, c, schema, q) ==
    LET names == IF s.columns = <<>> THEN [d \in DOMAIN schema |-> schema[d].name]
                 ELSE s.columns[1]
        mine == {i \in DOMAIN names : casefold(names[i]) = casefold(schema[c].name)}
    IN  IF Len(values) # Len(names) THEN Raised
        ELSE IF mine = {} THEN Null
        ELSE Value(values[CHOOSE i \in mine : TRUE], <<>>, <<>>, q)

Environment(row) == [p \in {1} \X DOMAIN row |-> row[p[2]]]

NewRows(s, hits, schema, q) ==
    CASE s.kind = "DELETE" -> <<>>
      [] s.kind = "UPDATE" ->
            [n \in DOMAIN hits |-> [c \in DOMAIN schema |->
                Updated(s, hits[n], Environment(hits[n]), c, schema, q)]]
      [] s.kind = "INSERT" ->
            [n \in DOMAIN s.rows |-> [c \in DOMAIN schema |->
                Inserted(s, s.rows[n], c, schema, q)]]

(* INSERT hits no row. *)
Hit(s, row, q) ==
    IF s.kind = "INSERT" THEN BoolV(FALSE) ELSE Condition(s.where, Environment(row), <<>>, q)

AfterChange(s, others, hits, new, schema, raised) ==
    [raised |-> \/ raised \/ Len(hits) >= MaxRows
                \/ \E n \in DOMAIN new : \E c \in DOMAIN schema :
                        IsRaised(new[n][c]) \/ ~Fits(new[n][c], schema[c]),
     count |-> IF s.kind = "INSERT" THEN Len(s.rows) ELSE Len(hits),
     rows |-> others \o [n \in DOMAIN new |->
                            [c \in DOMAIN schema |-> Kept(new[n][c], schema[c])]]]

Afterwards(s, catalog) ==
    LET schema == catalog[casefold(s.table)].schema
        q == Context([tables |-> <<[name |-> s.table, alias |-> <<>>]>>], catalog)
    IN  With(Live(catalog[casefold(s.table)]), LAMBDA live :
          With([n \in DOMAIN live |-> Hit(s, live[n], q)], LAMBDA verdicts :
            With(KeptOf(live, verdicts), LAMBDA hits :
              AfterChange(s, OthersOf(live, verdicts), hits, NewRows(s, hits, schema, q),
                          schema, SomeNoTruth(verdicts)))))

(* A write does to its table what it says, to no other table anything, and *)
(* nothing at all when it fails.                                           *)
Wrote(s, before, answer, after) ==
    LET t == casefold(s.table)
    IN  /\ \A u \in DOMAIN before \ {t} : after[u] = before[u]
        /\ answer.kind \in {"refused", "raised"} => after = before
        /\ With(Afterwards(s, before), LAMBDA r :
              IF answer.kind \in {"refused", "raised"} THEN r.raised
              ELSE /\ ~r.raised /\ SameBag(Live(after[t]), r.rows)
                   /\ answer.kind = "count" => answer.rows = <<<<IntV(r.count)>>>>)
=============================================================================

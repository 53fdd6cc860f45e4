------------------------------ MODULE Operators ------------------------------
(***************************************************************************)
(* engine/executor/operators.py: the operators of an executable plan.      *)
(*                                                                         *)
(* An operator is pulled row by row, so what it does is determined by the  *)
(* sequence of rows its child yields.  Each is the function from its       *)
(* children's sequences to its own.  A sequence that ends in RaisedRow is  *)
(* an iterator that raised there: a consumer that stops pulling earlier    *)
(* (Limit) never sees it, one that drains its child on open (Sort,         *)
(* HashAggregate, the build side of a join) raises at once.                *)
(***************************************************************************)
EXTENDS Expression

RaisedRow == <<Raised>>
Ends(s) == s # <<>> /\ s[Len(s)] = RaisedRow

(* Pull every row of s through Op, which answers the rows it makes of one. *)
Produce(Op(_), s) ==
    LET out[i \in 0..Len(s)] ==
          IF i = 0 THEN <<>>
          ELSE LET before == out[i - 1]
               IN  CASE Ends(before) -> before
                     [] s[i] = RaisedRow -> Append(before, RaisedRow)
                     [] OTHER -> before \o Op(s[i])
    IN  out[Len(s)]

(* Drain a child on open, then answer rows. *)
Drained(s, rows) == IF Ends(s) THEN <<RaisedRow>> ELSE rows

(* The rows [i |-> Op(i)] for the indices of 1..n that satisfy P, in order. *)
Pick(n, P(_), Op(_)) ==
    LET out[i \in 0..n] ==
          IF i = 0 THEN <<>>
          ELSE IF P(i) THEN Append(out[i - 1], Op(i)) ELSE out[i - 1]
    IN  out[n]

(***************************************************************************)
(* Scans.  A heap is the sequence of its slots in scan order: each holds a *)
(* row version, whether the slot was emptied since (dead), and whether the *)
(* statement's snapshot sees the version.  A table's columns occupy the    *)
(* slice (offset, width) of a row as wide as the whole FROM list.          *)
(***************************************************************************)
place(row, layout) ==
    [i \in 1..layout.total |->
        IF i \in layout.offset + 1 .. layout.offset + layout.width
        THEN row[i - layout.offset] ELSE Null]

visible_row(slot, layout) ==
    IF slot.visible THEN <<place(slot.row, layout)>> ELSE <<>>

SeqScan(heap, layout) ==
    LET rows[i \in 0..Len(heap)] ==
          IF i = 0 THEN <<>>
          ELSE IF heap[i].dead THEN rows[i - 1]
          ELSE rows[i - 1] \o visible_row(heap[i], layout)
    IN  rows[Len(heap)]

(* An index holds an entry for every version not yet removed, and may hold *)
(* one for a slot removed since.  Its keys order NULL below every value.   *)
KeyLess(v, w) == ~IsNull(w) /\ (IsNull(v) \/ LessValue(v, w))
KeyLeq(v, w) == KeyLess(v, w) \/ v = w

IndexEntries(heap, column) ==
    LET ids == 1..Len(heap)
        key(i) == heap[i].row[column]
        before(i, j) == KeyLess(key(i), key(j)) \/ (key(i) = key(j) /\ i < j)
    IN  [n \in ids |-> CHOOSE i \in ids : Cardinality({j \in ids : before(j, i)}) = n - 1]

NoBound == <<"none">>
SmallestValue == <<"smallest">>      \* SMALLEST_VALUE_KEY: above the NULLs only

AboveLow(k, b) ==
    CASE b.low = NoBound -> TRUE
      [] b.low = SmallestValue -> ~IsNull(k)
      [] OTHER -> IF b.include_low THEN KeyLeq(b.low, k) ELSE KeyLess(b.low, k)
BelowHigh(k, b) ==
    CASE b.high = NoBound -> TRUE
      [] OTHER -> IF b.include_high THEN KeyLeq(k, b.high) ELSE KeyLess(k, b.high)

IndexScan(heap, column, bounds, layout) ==
    LET entries == IndexEntries(heap, column)
        rows[n \in 0..Len(heap)] ==
          IF n = 0 THEN <<>>
          ELSE LET slot == heap[entries[n]]
                   k == slot.row[column]
               IN  IF AboveLow(k, bounds) /\ BelowHigh(k, bounds) /\ ~slot.dead
                   THEN rows[n - 1] \o visible_row(slot, layout)
                   ELSE rows[n - 1]
    IN  rows[Len(heap)]

(***************************************************************************)
(* Filter and Project.                                                     *)
(***************************************************************************)
Passes(predicate, row) == is_true(evaluate(predicate, row))

(* The row, if the test is TRUE. *)
IfTrue(test, row) ==
    IF IsRaised(test) THEN <<RaisedRow>> ELSE IF test[2] THEN <<row>> ELSE <<>>

Filter(child, predicate) ==
    Produce(LAMBDA row : IfTrue(Passes(predicate, row), row), child)

OrRaised(vs) == IF \E i \in DOMAIN vs : IsRaised(vs[i]) THEN RaisedRow ELSE vs

EvaluateAll(expressions, row) ==
    OrRaised([i \in 1..Len(expressions) |-> evaluate(expressions[i], row)])

Project(child, projections) ==
    Produce(LAMBDA row : <<EvaluateAll(projections, row)>>, child)

(***************************************************************************)
(* Joins.  Every row is as wide as the FROM list, so merging two is taking *)
(* the right side's slices from the right; an unmatched row, whose other   *)
(* slices are still NULL, is its own NULL-extension.                       *)
(***************************************************************************)
merge(l, r, slices) ==
    [i \in 1..Len(l) |->
        IF \E s \in slices : i \in s[1] + 1 .. s[1] + s[2] THEN r[i] ELSE l[i]]

matches(predicate, row) == Passes(predicate, row)

unmatched_right(left, right, j) ==
    LET Met(l) == matches(j.predicate, merge(l, right, j.slices)) = BoolV(TRUE)
    IN  \A i \in 1..Len(left) : ~Met(left[i])

(* A preserved row that met none is answered alone. *)
OrAlone(rows, row, preserve) == IF rows = <<>> /\ preserve THEN <<row>> ELSE rows

NestedLoopJoin(left, right, j) ==
    LET Matched(m) == IfTrue(matches(j.predicate, m), m)
        Inner(l) == Produce(LAMBDA r : Matched(merge(l, r, j.slices)), right)
        Unmatched(outer) ==
            IF Ends(outer) \/ ~j.preserve_right THEN <<>>
            ELSE Pick(Len(right),
                      LAMBDA n : unmatched_right(left, right[n], j),
                      LAMBDA n : right[n])
    IN  Drained(right, With(Produce(LAMBDA l : OrAlone(Inner(l), l, j.preserve_left), left),
                            LAMBDA outer : outer \o Unmatched(outer)))

(* What a dict takes for equal keys: 1, 1.0 and True are one key. *)
HashKey(v) ==
    CASE IsBool(v) -> IntV(IF v[2] THEN 1 ELSE 0)
      [] v[1] = "float" /\ v[3] = 1 -> IntV(v[2])
      [] OTHER -> v

(* The build table: for a key, the positions of its rows, in build order. *)
bucket(build, build_key, k) ==
    IF IsNull(k) THEN <<>>
    ELSE Pick(Len(build),
              LAMBDA n : LET b == evaluate(build_key, build[n])
                         IN  ~IsNull(b) /\ HashKey(b) = HashKey(k),
              LAMBDA n : n)

hash_matches(merged, j) ==
    IF j.residual THEN matches(j.predicate, merged) ELSE BoolV(TRUE)

Hits(build, probe, j) == bucket(build, j.build_key, evaluate(j.probe_key, probe))

hash_produce(build, probe, j) ==
    LET Merged(hits) == [n \in DOMAIN hits |-> merge(build[hits[n]], probe, j.slices)]
    IN  OrAlone(Produce(LAMBDA m : IfTrue(hash_matches(m, j), m),
                        Merged(Hits(build, probe, j))),
                probe, j.preserve_right)

unmatched_build(build, probes, n, j) ==
    \A p \in 1..Len(probes) :
        LET met(hits) == \E h \in 1..Len(hits) : hits[h] = n
        IN  ~/\ met(Hits(build, probes[p], j))
             /\ hash_matches(merge(build[n], probes[p], j.slices), j) = BoolV(TRUE)

HashJoin(left, right, j) ==
    LET Unmatched(probed) ==
            IF Ends(probed) \/ ~j.preserve_left THEN <<>>
            ELSE Pick(Len(left),
                      LAMBDA n : unmatched_build(left, right, n, j),
                      LAMBDA n : left[n])
    IN  Drained(left, With(Produce(LAMBDA r : hash_produce(left, r, j), right),
                           LAMBDA probed : probed \o Unmatched(probed)))

(***************************************************************************)
(* HashAggregate.                                                          *)
(***************************************************************************)
NoAccumulator == [count |-> 0, sum |-> Null, min |-> Null, max |-> Null]

(* Every accumulator keeps a running sum, whichever aggregate it is for. *)
Accumulator_add(a, v, counts_rows) ==
    IF counts_rows THEN [a EXCEPT !.count = @ + 1]
    ELSE IF IsNull(v) THEN a
    ELSE [count |-> a.count + 1,
          sum |-> IF IsNull(a.sum) \/ ~IsNumber(v) THEN v
                  ELSE check_numeric_range(arithmetic("+", a.sum, v)),
          min |-> IF IsNull(a.min) \/ LessValue(v, a.min) THEN v ELSE a.min,
          max |-> IF IsNull(a.max) \/ LessValue(a.max, v) THEN v ELSE a.max]

Accumulator_value(f, a) ==
    CASE f = "COUNT" -> IntV(a.count)
      [] f = "SUM" -> a.sum
      [] f = "AVG" -> IF a.count = 0 THEN Null
                      ELSE FloatV(Num(a.sum), Den(a.sum) * a.count)
      [] f = "MIN" -> a.min
      [] f = "MAX" -> a.max

CountsRows(agg) == agg.argument.node = "Star"

Accumulate(agg, rows) ==
    LET argument(row) == IF CountsRows(agg) THEN Null ELSE evaluate(agg.argument, row)
        add(before, v) ==
          CASE IsRaised(before.sum) -> before
            [] IsRaised(v) -> [before EXCEPT !.sum = Raised]
            [] OTHER -> Accumulator_add(before, v, CountsRows(agg))
        acc[i \in 0..Len(rows)] ==
          IF i = 0 THEN NoAccumulator ELSE add(acc[i - 1], argument(rows[i]))
    IN  acc[Len(rows)]

AllKeys(keys) == [i \in DOMAIN keys |-> HashKey(keys[i])]

(* The row of a group: its key, then the value of each aggregate. *)
GroupRow(key, aggregates, accs) ==
    IF \E a \in DOMAIN accs : IsRaised(accs[a].sum) THEN RaisedRow
    ELSE key \o [a \in DOMAIN accs |-> Accumulator_value(aggregates[a].function, accs[a])]

(* The groups in the order their first row came. *)
Groups(child, keys) ==
    Pick(Len(child),
         LAMBDA i : \A k \in 1..i - 1 : AllKeys(keys[k]) # AllKeys(keys[i]),
         LAMBDA i : [key |-> keys[i],
                     rows |-> Pick(Len(child),
                                   LAMBDA k : AllKeys(keys[k]) = AllKeys(keys[i]),
                                   LAMBDA k : child[k])])

GroupRows(groups, aggregates) ==
    [g \in DOMAIN groups |->
        GroupRow(groups[g].key, aggregates,
                 [a \in 1..Len(aggregates) |-> Accumulate(aggregates[a], groups[g].rows)])]

AnyRow(rows, row) == \E i \in DOMAIN rows : rows[i] = row

(* Without GROUP BY there is one group, of no rows if the child has none. *)
HashAggregate(child, group_keys, aggregates, having) ==
    LET Of(keys) == IF group_keys = <<>> /\ child = <<>> THEN <<[key |-> <<>>, rows |-> <<>>]>>
                    ELSE Groups(child, keys)
        Kept(rows) == IF having = <<>> THEN rows ELSE Filter(rows, having[1])
        OnceRaised(rows) == IF AnyRow(rows, RaisedRow) THEN <<RaisedRow>> ELSE rows
    IN  Drained(child,
            With([i \in 1..Len(child) |-> EvaluateAll(group_keys, child[i])],
                 LAMBDA keys :
                    IF AnyRow(keys, RaisedRow) THEN <<RaisedRow>>
                    ELSE OnceRaised(Kept(OnceRaised(GroupRows(Of(keys), aggregates))))))

(***************************************************************************)
(* Sort, Limit, Distinct.                                                  *)
(***************************************************************************)

(* NULLs last ascending and first descending; booleans as 0 and 1. *)
sort_key_less(v, w) == ~IsNull(v) /\ (IsNull(w) \/ LessValue(v, w))

(* list.sort on one key: stable in both directions. *)
SortPass(rows, key) ==
    LET n == Len(rows)
        at(i) == rows[i][key.output_index]
        less(i, k) == IF key.descending THEN sort_key_less(at(k), at(i))
                      ELSE sort_key_less(at(i), at(k))
        rank(i) == Cardinality({k \in 1..n : less(k, i) \/ (~less(i, k) /\ k < i)})
    IN  [p \in 1..n |-> rows[CHOOSE i \in 1..n : rank(i) = p - 1]]

(* One stable pass per key, the least significant key first. *)
Sort(child, keys) ==
    LET pass[k \in 1..Len(keys) + 1] ==
          IF k > Len(keys) THEN child ELSE SortPass(pass[k + 1], keys[k])
        outside == \E k \in DOMAIN keys, i \in DOMAIN child :
                        keys[k].output_index > Len(child[i])
    IN  IF Ends(child) \/ outside THEN <<RaisedRow>> ELSE pass[1]

Limit(child, count, offset) ==
    IF Ends(child) /\ Len(child) <= offset THEN <<RaisedRow>>
    ELSE SubSeq(child, offset + 1,
                IF offset + count < Len(child) THEN offset + count ELSE Len(child))

distinct_key(row) == row          \* values are compared with their types

Distinct(child) ==
    Pick(Len(child),
         LAMBDA i : \A k \in 1..i - 1 : distinct_key(child[k]) # distinct_key(child[i]),
         LAMBDA i : child[i])
=============================================================================

----------------------------- MODULE Statistics -----------------------------
(***************************************************************************)
(* engine/planner/statistics.py and the estimates of engine/optimizer/     *)
(* cost.py: what ANALYZE records of a table, and the fraction of its rows  *)
(* the planner then expects a predicate to keep.                           *)
(*                                                                         *)
(* A fraction is an exact rational where the code has a float; the         *)
(* constants the code gives its guesses are parameters, so that they can   *)
(* be chosen with small denominators.                                      *)
(***************************************************************************)
EXTENDS Physical

CONSTANTS
    StatisticsTarget,       \* STATISTICS_TARGET: values listed, and buckets
    EqGuess,                \* 1 / DEFAULT_EQ_SELECTIVITY
    LeastShare              \* 1 / MIN_SELECTIVITY

ASSUME StatisticsAssumption ==
    /\ StatisticsTarget \in Nat \ {0} /\ EqGuess \in Nat \ {0} /\ LeastShare \in Nat \ {0}

Frac(n, d) == FloatV(n, d)
Zero == Frac(0, 1)
One == Frac(1, 1)
Plus(a, b) == arithmetic("+", a, b)
Minus(a, b) == arithmetic("-", a, b)
Times(a, b) == arithmetic("*", a, b)
Over(a, n) == FloatV(Num(a), Den(a) * n)
Larger(a, b) == IF NumberLess(a, b) THEN b ELSE a
Smaller(a, b) == IF NumberLess(a, b) THEN a ELSE b

DEFAULT_EQ_SELECTIVITY == Frac(1, EqGuess)
DEFAULT_INEQ_SELECTIVITY == Frac(1, 3)
MIN_SELECTIVITY == Frac(1, LeastShare)

SumOf(S, Op(_)) ==
    LET sum[R \in SUBSET S] ==
          IF R = {} THEN 0 ELSE LET x == CHOOSE x \in R : TRUE IN Op(x) + sum[R \ {x}]
    IN  sum[S]

(* The members of S in the order Before. *)
Ordered(S, Before(_, _)) ==
    [i \in 1..Cardinality(S) |->
        CHOOSE x \in S : Cardinality({y \in S : Before(y, x)}) = i - 1]

(***************************************************************************)
(* Gathering.  `counts` is a function from the values of a column to the   *)
(* number of rows with it.                                                 *)
(***************************************************************************)

(* Boundaries that split the values of `rest`, in order, into buckets of   *)
(* about equal row counts.  A boundary is the value at which the running   *)
(* count passes the next multiple of total / buckets.                      *)
equi_depth(rest, counts, buckets) ==
    LET n == Len(rest)
        running[i \in 0..n] == IF i = 0 THEN 0 ELSE running[i - 1] + counts[rest[i]]
        total == running[n]
        passed(i) == IF (running[i] * buckets) \div total < buckets - 1
                     THEN (running[i] * buckets) \div total ELSE buckets - 1
        inner == Pick(n, LAMBDA i : i > 1 /\ i < n /\ passed(i) > passed(i - 1),
                         LAMBDA i : rest[i])
    IN  IF n < 2 THEN <<>> ELSE <<rest[1]>> \o inner \o <<rest[n]>>

(* The most common values with their counts, and a histogram of the rest. *)
summarise(counts) ==
    LET values == DOMAIN counts
        ordered == Ordered(values, LAMBDA v, w : \/ counts[v] > counts[w]
                                                 \/ counts[v] = counts[w] /\ LessValue(v, w))
        whole == Len(ordered) <= StatisticsTarget
        listed == IF whole THEN ordered ELSE SubSeq(ordered, 1, StatisticsTarget)
        common == {listed[i] : i \in DOMAIN listed}
    IN  [most_common |-> [i \in DOMAIN listed |-> <<listed[i], counts[listed[i]]>>],
         histogram |-> IF whole THEN <<>>
                       ELSE equi_depth(Ordered(values \ common, LessValue), counts,
                                       StatisticsTarget)]

ColumnStatistics(schema, c, heap) ==
    LET stored == {i \in DOMAIN heap : ~heap[i].dead}
        values == {heap[i].row[c] : i \in stored} \ {Null}
        counts == [v \in values |-> Cardinality({i \in stored : heap[i].row[c] = v})]
        s == summarise(counts)
    IN  [type |-> schema[c].type,
         distinct_count |-> IF values = {} THEN 1 ELSE Cardinality(values),
         null_count |-> Cardinality({i \in stored : heap[i].row[c] = Null}),
         minimum |-> IF values = {} THEN Null ELSE Ordered(values, LessValue)[1],
         maximum |-> IF values = {} THEN Null
                     ELSE Ordered(values, LessValue)[Cardinality(values)],
         most_common |-> s.most_common, histogram |-> s.histogram]

(* Every stored version is counted, the ones no snapshot sees included. *)
gather(table) ==
    [row_count |-> Cardinality({i \in DOMAIN table.heap : ~table.heap[i].dead}),
     columns |-> [c \in DOMAIN table.schema |->
                    ColumnStatistics(table.schema, c, table.heap)]]

(* The cached statistics, gathered on the first use and then kept. *)
for_table(name, cache, catalog) ==
    IF name \in DOMAIN cache THEN cache[name] ELSE gather(catalog[name])

gather_all(cache, catalog) ==
    [t \in DOMAIN cache \cup DOMAIN catalog |->
        IF t \in DOMAIN catalog THEN gather(catalog[t]) ELSE cache[t]]

null_fraction(info, rows) == IF rows = 0 THEN Zero ELSE Frac(info.null_count, rows)

most_common_rows(info) ==
    SumOf(DOMAIN info.most_common, LAMBDA i : info.most_common[i][2])

covers_every_value(info) ==
    info.most_common # <<>> /\ Len(info.most_common) = info.distinct_count

has_range(info) == info.minimum # Null /\ info.type \in {"int", "float"}

(***************************************************************************)
(* The estimates.                                                          *)
(***************************************************************************)
clamp(s) == Smaller(Larger(s, MIN_SELECTIVITY), One)

one_row(rows) == IF rows > 0 THEN Frac(1, rows) ELSE MIN_SELECTIVITY

comparable(info, v) ==
    IF info.type \in {"int", "float"} THEN IsNumber(v) ELSE v[1] = info.type

outside_range(info, v) ==
    /\ info.minimum # Null /\ comparable(info, v)
    /\ LessValue(v, info.minimum) \/ LessValue(info.maximum, v)

Listed(info, v) ==
    {i \in DOMAIN info.most_common :
        kind_of(info.most_common[i][1]) = kind_of(v) /\ SameValue(info.most_common[i][1], v)}

(* Mutant: the share is of the rows that are not NULL. *)
equality_fraction_of_values(info, v, rows) ==
    LET values == rows - info.null_count
    IN  CASE values <= 0 -> DEFAULT_EQ_SELECTIVITY
          [] Listed(info, v) # {} ->
                Frac(info.most_common[CHOOSE i \in Listed(info, v) : TRUE][2], values)
          [] OTHER -> one_row(rows)

equality_fraction(info, v, rows) ==
    LET tail_rows == rows - info.null_count - most_common_rows(info)
        tail_distinct == info.distinct_count - Len(info.most_common)
    IN  CASE rows <= 0 -> DEFAULT_EQ_SELECTIVITY
          [] Listed(info, v) # {} ->
                Frac(info.most_common[CHOOSE i \in Listed(info, v) : TRUE][2], rows)
          [] covers_every_value(info) \/ outside_range(info, v) -> one_row(rows)
          [] info.most_common = <<>> ->
                Over(Minus(One, null_fraction(info, rows)), info.distinct_count)
          [] OTHER -> Frac(IF tail_rows > 0 THEN tail_rows ELSE 0,
                           rows * (IF tail_distinct > 1 THEN tail_distinct ELSE 1))

(* Whole buckets below v, and a straight line inside the one v falls in. *)
histogram_rows_below(info, v, rows) ==
    LET b == info.histogram
        covered == rows - info.null_count - most_common_rows(info)
        buckets == Len(b) - 1
        AtOrBelow(i) == ~LessValue(v, b[i])
        whole == Cardinality({i \in 2..Len(b) : AtOrBelow(i)})
        low == b[whole + 1]
        high == b[whole + 2]
        within == IF IsNumber(v)
                  THEN FloatV((Num(v) * Den(low) - Num(low) * Den(v)) * Den(high),
                              (Num(high) * Den(low) - Num(low) * Den(high)) * Den(v))
                  ELSE Frac(1, 2)
    IN  CASE Len(b) < 2 \/ covered <= 0 -> Zero
          [] ~LessValue(b[1], v) -> Zero
          [] AtOrBelow(Len(b)) -> Frac(covered, 1)
          [] OTHER -> Times(Plus(Frac(whole, 1), within), Frac(covered, buckets))

uniform_fraction(info, v) ==
    IF ~has_range(info) \/ ~(IsNumber(v) \/ IsBool(v)) THEN DEFAULT_INEQ_SELECTIVITY
    ELSE LET point == HashKey(v)
             span == Minus(info.maximum, info.minimum)
             above == Minus(point, info.minimum)
         IN  IF Num(span) <= 0
             THEN IF Num(above) > 0 THEN One ELSE MIN_SELECTIVITY
             ELSE Smaller(Larger(FloatV(Num(above) * Den(span), Den(above) * Num(span)), Zero),
                          One)

below_fraction(info, v, rows, inclusive) ==
    LET listed == SumOf({i \in DOMAIN info.most_common :
                            LessValue(info.most_common[i][1], v)},
                        LAMBDA i : info.most_common[i][2])
        inclusively(below) ==
            IF inclusive THEN Plus(below, equality_fraction(info, v, rows)) ELSE below
    IN  CASE rows <= 0 -> DEFAULT_INEQ_SELECTIVITY
          [] info.most_common = <<>> /\ info.histogram = <<>> ->
                Times(Minus(One, null_fraction(info, rows)), uniform_fraction(info, v))
          [] ~comparable(info, v) -> DEFAULT_INEQ_SELECTIVITY
          [] OTHER -> inclusively(
                Over(Plus(Frac(listed, 1), histogram_rows_below(info, v, rows)), rows))

(* The statistics of a bound column, when it is a column of a table. *)
column_stats(column, offset, stats) ==
    IF column.position = 0 THEN <<>>
    ELSE IF column.index - offset \in DOMAIN stats.columns
    THEN <<stats.columns[column.index - offset]>> ELSE <<>>

as_column_literal(e) ==
    LET mirrored == IF e.operator = "<>" THEN "<>" ELSE Mirrored[e.operator]
    IN  CASE e.left.node = "Column" /\ e.right.node = "Literal" ->
                <<[column |-> e.left, operator |-> e.operator, value |-> e.right.value]>>
          [] e.right.node = "Column" /\ e.left.node = "Literal" ->
                <<[column |-> e.right, operator |-> mirrored, value |-> e.left.value]>>
          [] OTHER -> <<>>

comparison_selectivity(e, offset, stats) ==
    LET m == as_column_literal(e)
        found == column_stats(m[1].column, offset, stats)
        info == found[1]
        v == m[1].value
        rows == stats.row_count
        non_null == Minus(One, null_fraction(info, rows))
        op == m[1].operator
        fraction(f) == IF op \in {"=", "<", "<="} THEN f ELSE Minus(non_null, f)
    IN  CASE m = <<>> -> DEFAULT_INEQ_SELECTIVITY
          [] found = <<>> -> DEFAULT_EQ_SELECTIVITY
          [] IsNull(v) -> MIN_SELECTIVITY
          [] op \in {"=", "<>"} ->
                Larger(fraction(equality_fraction(info, v, rows)), one_row(rows))
          [] OTHER ->
                Larger(fraction(below_fraction(info, v, rows, op \in {"<=", ">"})),
                       one_row(rows))

RECURSIVE FracSum(_)
FracSum(fs) == IF fs = <<>> THEN Zero ELSE Plus(Head(fs), FracSum(Tail(fs)))

RECURSIVE selectivity(_, _, _)
selectivity(e, offset, stats) ==
    LET S(d) == selectivity(d, offset, stats)
        found == column_stats(e.operand, offset, stats)
        rows == stats.row_count
        nulls == null_fraction(found[1], rows)
        one == one_row(rows)
    IN  CASE e.node = "BinaryOp" /\ e.operator = "AND" -> Times(S(e.left), S(e.right))
          [] e.node = "BinaryOp" /\ e.operator = "OR" ->
                Minus(Plus(S(e.left), S(e.right)), Times(S(e.left), S(e.right)))
          [] e.node = "UnaryOp" /\ e.operator = "NOT" -> Minus(One, S(e.operand))
          [] e.node = "IsNullTest" /\ e.operand.node = "Column" ->
                IF found = <<>> THEN DEFAULT_EQ_SELECTIVITY
                ELSE Larger(IF e.negated THEN Minus(One, nulls) ELSE nulls, one)
          [] e.node = "InList" /\ e.operand.node = "Column" ->
                IF found = <<>> \/ \E i \in DOMAIN e.items : e.items[i].node # "Literal"
                THEN DEFAULT_INEQ_SELECTIVITY
                ELSE LET given == SelectSeq(e.items, LAMBDA x : ~IsNull(x.value))
                         sum == FracSum([i \in DOMAIN given |->
                                    equality_fraction(found[1], given[i].value, rows)])
                         non_null == Minus(One, nulls)
                         total == Smaller(sum, non_null)
                     IN  Larger(IF e.negated THEN Minus(non_null, total) ELSE total, one)
          [] e.node = "BinaryOp" /\ e.operator \in Comparisons ->
                comparison_selectivity(e, offset, stats)
          [] OTHER -> DEFAULT_INEQ_SELECTIVITY

estimate_selectivity(e, offset, stats) == clamp(selectivity(e, offset, stats))

(***************************************************************************)
(* The share of the pairs of two tables an equijoin keeps.                 *)
(***************************************************************************)
distinct_join_selectivity(m, n) ==
    clamp(Frac(1, IF m >= n THEN (IF m > 1 THEN m ELSE 1) ELSE (IF n > 1 THEN n ELSE 1)))

(* <<>> when a column has no list to match. *)
mcv_join_selectivity(left, right, left_rows, right_rows) ==
    LET share(info, rows, i) == Frac(info.most_common[i][2], rows)
        shared == {p \in (DOMAIN left.most_common) \X (DOMAIN right.most_common) :
                     SameValue(left.most_common[p[1]][1], right.most_common[p[2]][1])}
        pairs == Ordered(shared, LAMBDA p, q : p[1] < q[1])
        alone(info, rows, I) ==
            Frac(SumOf(DOMAIN info.most_common \ I, LAMBDA i : info.most_common[i][2]), rows)
        other(info, rows) ==
            Larger(Frac(rows - info.null_count - most_common_rows(info), rows), Zero)
        matched == FracSum([i \in DOMAIN pairs |->
                        Times(share(left, left_rows, pairs[i][1]),
                              share(right, right_rows, pairs[i][2]))])
        alone_left == alone(left, left_rows, {p[1] : p \in shared})
        alone_right == alone(right, right_rows, {p[2] : p \in shared})
        other_left == other(left, left_rows)
        other_right == other(right, right_rows)
        tail_left == left.distinct_count - Cardinality(shared)
        tail_right == right.distinct_count - Cardinality(shared)
    IN  IF \/ left.most_common = <<>> \/ right.most_common = <<>>
           \/ left_rows = 0 \/ right_rows = 0
        THEN <<>>
        ELSE <<clamp(Plus(matched, Plus(
                 IF tail_right > 0 THEN Over(Times(alone_left, other_right), tail_right)
                 ELSE Zero,
                 IF tail_left > 0
                 THEN Over(Times(other_left, Plus(alone_right, other_right)), tail_left)
                 ELSE Zero)))>>
=============================================================================

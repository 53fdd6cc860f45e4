------------------------------ MODULE Physical ------------------------------
(***************************************************************************)
(* engine/planner/physical.py: from a logical plan to an executable one.   *)
(*                                                                         *)
(* The planner enumerates candidates and keeps the cheapest.  Costs come   *)
(* from statistics that may be stale, so which candidate is cheapest is    *)
(* not known here: every operator answers the SET of plans some cost       *)
(* estimate could make it return, and each of them must give the right     *)
(* answer.                                                                 *)
(***************************************************************************)
EXTENDS Rules

CONSTANTS
    MaxTablesToEnumerate,   \* above it the join order is not searched
    ExactInDouble           \* integers above it round when stored as FLOAT

ASSUME PhysicalAssumption ==
    MaxTablesToEnumerate \in Nat /\ ExactInDouble \in Nat

(***************************************************************************)
(* Conjunctions, and the tables an expression reads.                       *)
(***************************************************************************)
RECURSIVE split_conjunction(_)
split_conjunction(e) ==
    IF e.node = "BinaryOp" /\ e.operator = "AND"
    THEN split_conjunction(e.left) \o split_conjunction(e.right)
    ELSE <<e>>

(* <<>> of no term, <<conjunction>> otherwise. *)
rebuild_conjunction(terms) ==
    LET conj[i \in 1..Len(terms)] ==
          IF i = 1 THEN terms[1] ELSE Binary("AND", conj[i - 1], terms[i])
    IN  IF terms = <<>> THEN <<>> ELSE <<conj[Len(terms)]>>

Select(conjuncts, S) == Pick(Len(conjuncts), LAMBDA i : i \in S, LAMBDA i : conjuncts[i])

tables_of(e) ==
    {n.position : n \in {m \in NodesOf(e) : m.node = "Column"}} \ {0}

(***************************************************************************)
(* Access paths.                                                           *)
(***************************************************************************)
Mirrored == [op \in {"=", "<", "<=", ">", ">="} |->
    CASE op = "<" -> ">" [] op = "<=" -> ">=" [] op = ">" -> "<"
      [] op = ">=" -> "<=" [] OTHER -> op]

as_column_comparison(e) ==
    CASE e.node # "BinaryOp" \/ e.operator \notin DOMAIN Mirrored -> <<>>
      [] e.left.node = "Column" /\ e.right.node = "Literal" ->
            <<[column |-> e.left, operator |-> e.operator, value |-> e.right.value]>>
      [] e.right.node = "Column" /\ e.left.node = "Literal" ->
            <<[column |-> e.right, operator |-> Mirrored[e.operator],
               value |-> e.left.value]>>
      [] OTHER -> <<>>

(* The double nearest to an integer: the even multiple of two above the    *)
(* exact range.                                                            *)
RoundToDouble(n) ==
    IF Abs(n) <= ExactInDouble THEN n
    ELSE IF n % 2 = 0 THEN n
    ELSE IF (n + 1) % 4 = 0 THEN n + 1 ELSE n - 1

(* A literal as a key of the index: <<>> when its type has no encoding. *)
encode_key(v, type) ==
    CASE type = "float" /\ v[1] = "int" -> <<FloatV(RoundToDouble(v[2]), 1)>>
      [] v[1] = type -> <<v>>
      [] OTHER -> <<>>

decode_key(k, v) == SameValue(k, v)      \* the key reads back as the literal

(* The range of one index that implies the comparisons it absorbs.  An     *)
(* unbounded low end still starts above the NULLs.                         *)
Unbounded == [low |-> NoBound, high |-> NoBound, include_low |-> TRUE,
              include_high |-> TRUE, absorbed |-> {}]

Narrowed(b, operator, k) ==
    LET lower == b.low = NoBound \/ LessValue(b.low, k)
        upper == b.high = NoBound \/ LessValue(k, b.high)
    IN  CASE operator = "=" ->
                [b EXCEPT !.low = IF lower THEN k ELSE @,
                          !.include_low = IF lower THEN TRUE ELSE @,
                          !.high = IF upper THEN k ELSE @,
                          !.include_high = IF upper THEN TRUE ELSE @]
          [] operator \in {">", ">="} ->
                IF lower \/ (k = b.low /\ operator = ">")
                THEN [b EXCEPT !.low = k, !.include_low = operator = ">="] ELSE b
          [] operator \in {"<", "<="} ->
                IF upper \/ (k = b.high /\ operator = "<")
                THEN [b EXCEPT !.high = k, !.include_high = operator = "<="] ELSE b

bounds_for(conjuncts, positions, type) ==
    LET b[i \in 0..Len(conjuncts)] ==
          IF i = 0 \/ i \notin positions THEN IF i = 0 THEN Unbounded ELSE b[i - 1]
          ELSE LET before == b[i - 1]
                   c == as_column_comparison(conjuncts[i])[1]
                   k == encode_key(c.value, type)
               IN  IF IsNull(c.value) \/ k = <<>> THEN before
                   ELSE IF ~decode_key(k[1], c.value) THEN before
                   ELSE [Narrowed(before, c.operator, k[1])
                            EXCEPT !.absorbed = before.absorbed \cup {i}]
        last == b[Len(conjuncts)]
    IN  IF last.absorbed = {} THEN <<>>
        ELSE <<IF last.low = NoBound THEN [last EXCEPT !.low = SmallestValue] ELSE last>>

(* A sequential scan, and one scan per index the comparisons narrow. *)
enumerate(scan, mine, conjuncts, catalog) ==
    LET layout == [offset |-> scan.offset, width |-> Len(scan.schema), total |-> scan.total]
        seq == [leaf |-> [op |-> "SeqScan", table |-> scan.table, layout |-> layout],
                absorbed |-> {}]
        on(c) == {i \in mine : LET m == as_column_comparison(conjuncts[i])
                               IN  m # <<>> /\ m[1].column.index - scan.offset = c}
        ranges == {<<c, bounds_for(conjuncts, on(c), scan.schema[c].type)>> :
                      c \in catalog[scan.table].indexes}
    IN  {seq} \cup
        {[leaf |-> [op |-> "IndexScan", table |-> scan.table, column |-> r[1],
                    bounds |-> r[2][1], layout |-> layout],
          absorbed |-> r[2][1].absorbed] : r \in {q \in ranges : q[2] # <<>>}}

choose_access_path(scan, mine, conjuncts, catalog) ==
    enumerate(scan, mine, conjuncts, catalog)

(***************************************************************************)
(* Joining two relations.                                                  *)
(***************************************************************************)
equijoin_keys(positions, conjuncts, left_tables) ==
    LET Apart(L, R) == /\ L # {} /\ R # {}
                       /\ L \subseteq left_tables /\ R \cap left_tables = {}
        Usable(l, r) == Apart(tables_of(l), tables_of(r))
        Equal(t) == t.node = "BinaryOp" /\ t.operator = "="
        Keys(t) == IF Usable(t.left, t.right) THEN [build |-> t.left, probe |-> t.right]
                   ELSE [build |-> t.right, probe |-> t.left]
        First(good) ==
            IF good = {} THEN <<>>
            ELSE <<Keys(conjuncts[CHOOSE i \in good : \A k \in good : i <= k])>>
    IN  First({i \in positions :
                 LET t == conjuncts[i]
                 IN  Equal(t) /\ (Usable(t.left, t.right) \/ Usable(t.right, t.left))})

outer_equijoin_keys(predicate, left_tables) ==
    With(split_conjunction(predicate),
         LAMBDA terms : equijoin_keys(DOMAIN terms, terms, left_tables))

applicable_to(left, right, conjuncts, joinable) ==
    LET Spans(read) == /\ read \subseteq left.tables \cup right.tables
                       /\ ~(read \subseteq left.tables) /\ ~(read \subseteq right.tables)
    IN  {i \in joinable : /\ i \notin left.handled \cup right.handled
                          /\ Spans(tables_of(conjuncts[i]))}

(* An outer join takes its own ON and nothing else. *)
join(left, right, conjuncts, joinable, scans, kind, on) ==
    LET slices == {<<scans[p].offset, Len(scans[p].schema)>> : p \in right.tables}
        nested(predicate) ==
            [op |-> "NestedLoopJoin", left |-> left.node, right |-> right.node,
             predicate |-> IF predicate = <<>> THEN Lit(BoolV(TRUE)) ELSE predicate[1],
             slices |-> slices, preserve_left |-> preserves_left(kind),
             preserve_right |-> preserves_right(kind)]
        hashed(k, predicate, terms) ==
            [op |-> "HashJoin", left |-> left.node, right |-> right.node,
             predicate |-> predicate[1], build_key |-> k.build,
             probe_key |-> k.probe, residual |-> Len(terms) > 1,
             slices |-> slices, preserve_left |-> preserves_left(kind),
             preserve_right |-> preserves_right(kind)]
        candidates(predicate, keys, terms) ==
            {nested(predicate)} \cup {hashed(keys[i], predicate, terms) : i \in DOMAIN keys}
        handled(applicable) == left.handled \cup right.handled \cup applicable
        joined(applicable, terms, keys) ==
            {[tables |-> left.tables \cup right.tables, node |-> n,
              handled |-> handled(applicable)] :
                n \in candidates(IF is_outer(kind) THEN <<on>> ELSE rebuild_conjunction(terms),
                                 keys, terms)}
    IN  IF is_outer(kind)
        THEN joined({}, split_conjunction(on), outer_equijoin_keys(on, left.tables))
        ELSE With(applicable_to(left, right, conjuncts, joinable), LAMBDA applicable :
                joined(applicable, Select(conjuncts, applicable),
                       equijoin_keys(applicable, conjuncts, left.tables)))

(***************************************************************************)
(* The order to join in.                                                   *)
(***************************************************************************)

(* The outer joins of the chain, by the position of their right side.  A   *)
(* LEFT join needs the tables its ON reads (and what those need); RIGHT    *)
(* and FULL need everything written before them.                           *)
RECURSIVE close_over(_, _)
close_over(wanted, constraints) ==
    LET more == UNION {constraints[p].min_left : p \in DOMAIN constraints \cap wanted}
    IN  IF more \subseteq wanted THEN wanted ELSE close_over(wanted \cup more, constraints)

outer_constraints(steps, first) ==
    LET seen(i) == {first} \cup {steps[k].position : k \in 1..i - 1}
        at[i \in 0..Len(steps)] ==
          IF i = 0 THEN << >>
          ELSE IF ~is_outer(steps[i].kind) THEN at[i - 1]
          ELSE LET named == tables_of(steps[i].on) \cap seen(i)
                   minimum == IF steps[i].kind # "LEFT" THEN seen(i)
                              ELSE close_over(IF named = {} THEN seen(i) ELSE named, at[i - 1])
                   info == [kind |-> steps[i].kind, on |-> steps[i].on,
                            rank |-> Cardinality(DOMAIN at[i - 1]),
                            min_left |-> minimum, syntactic_left |-> seen(i)]
               IN  [p \in DOMAIN at[i - 1] \cup {steps[i].position} |->
                        IF p = steps[i].position THEN info ELSE at[i - 1][p]]
    IN  at[Len(steps)]

is_valid(subset, constraints) ==
    \A p \in DOMAIN constraints \cap subset : constraints[p].min_left \subseteq subset

outer_may_run(rest, outer, constraints) ==
    /\ IF outer.kind = "LEFT" THEN outer.min_left \subseteq rest
       ELSE rest = outer.syntactic_left
    /\ \A p \in DOMAIN constraints : constraints[p].rank < outer.rank => p \in rest

(* Join the leaf p to a relation, with its own kind if it has one. *)
extend(left, p, leaves, constraints, pool) ==
    LET own == p \in DOMAIN constraints
    IN  join(left, leaves[p], pool.conjuncts, pool.joinable, pool.scans,
             IF own THEN constraints[p].kind ELSE "INNER",
             IF own THEN constraints[p].on ELSE Lit(BoolV(TRUE)))

(* Dynamic programming over the valid subsets: what best[subset] may be. *)
RECURSIVE search_constrained(_, _, _, _)
search_constrained(subset, leaves, constraints, pool) ==
    CASE ~is_valid(subset, constraints) -> {}
      [] Cardinality(subset) = 1 -> {leaves[CHOOSE p \in subset : TRUE]}
      [] OTHER ->
            UNION {UNION {extend(l, p, leaves, constraints, pool) :
                            l \in search_constrained(subset \ {p}, leaves, constraints, pool)} :
                   p \in {q \in subset : q \in DOMAIN constraints =>
                            outer_may_run(subset \ {q}, constraints[q], constraints)}}

join_in_written_order(leaves, constraints, pool) ==
    LET result[p \in DOMAIN leaves] ==
          IF p = 1 THEN {leaves[1]}
          ELSE UNION {extend(l, p, leaves, constraints, pool) : l \in result[p - 1]}
    IN  result[Len(leaves)]

(* Without an outer join every left-deep order may win. *)
search_join_order(leaves, pool) ==
    search_constrained(DOMAIN leaves, leaves, << >>, pool)

(* Above the limit: join some two relations, and again. *)
RECURSIVE greedy_join_order(_, _)
greedy_join_order(remaining, pool) ==
    IF Cardinality(remaining) = 1 THEN remaining
    ELSE UNION {UNION {greedy_join_order((remaining \ {q[1], q[2]}) \cup {j}, pool) :
                        j \in join(q[1], q[2], pool.conjuncts, pool.joinable, pool.scans,
                                   "INNER", Lit(BoolV(TRUE)))} :
                  q \in {r \in remaining \X remaining : r[1] # r[2]}}

plan_chain(leaves, steps, pool) ==
    LET large == Len(leaves) > MaxTablesToEnumerate
    IN  With(outer_constraints(steps, 1), LAMBDA constraints :
          CASE DOMAIN constraints = {} /\ ~large -> search_join_order(leaves, pool)
            [] DOMAIN constraints = {} -> greedy_join_order(Members(leaves), pool)
            [] ~large -> search_constrained(DOMAIN leaves, leaves, constraints, pool)
            [] OTHER -> join_in_written_order(leaves, constraints, pool))

(***************************************************************************)
(* plan_select.                                                            *)
(***************************************************************************)
RECURSIVE find_scans(_)
find_scans(p) ==
    CASE p.op = "Scan" -> <<p>>
      [] p.op = "Join" -> find_scans(p.left) \o find_scans(p.right)
      [] OTHER -> find_scans(p.child)

RECURSIVE ChainOf(_)
ChainOf(p) == IF HasChild(p) THEN ChainOf(p.child) ELSE p

join_steps(p) ==
    LET chain == written_order(ChainOf(p))
    IN  [i \in DOMAIN chain |-> [kind |-> chain[i].kind, on |-> chain[i].predicate,
                                 position |-> chain[i].right.position]]

RECURSIVE predicate_of(_)
predicate_of(p) ==
    CASE p.op = "Filter" -> <<p.predicate>>
      [] HasChild(p) -> predicate_of(p.child)
      [] OTHER -> <<>>

(* The tables an outer join among the first `before` steps NULL-extends. *)
null_supplied(steps, before) ==
    LET seen(i) == {1} \cup {steps[k].position : k \in 1..i - 1}
    IN  UNION {(IF preserves_left(steps[i].kind) THEN {steps[i].position} ELSE {})
               \cup (IF preserves_right(steps[i].kind) THEN seen(i) ELSE {}) :
                 i \in 1..before}

(* Mutant: a conjunct goes below the outer join that was to extend it. *)
pushed_past_outer(p, conjuncts, origins, steps) ==
    {i \in DOMAIN conjuncts : tables_of(conjuncts[i]) = {p}}

(* The conjuncts pushed to the scan at position p: those that read it      *)
(* alone and were written where no outer join has NULL-extended it.        *)
pushed_to(p, conjuncts, origins, steps) ==
    {i \in DOMAIN conjuncts : /\ tables_of(conjuncts[i]) = {p}
                              /\ p \notin null_supplied(steps, origins[i])}

(* The leaf for one access path: what the path does not absorb filters it. *)
Leaf(p, candidate, mine, conjuncts) ==
    LET below == rebuild_conjunction(Select(conjuncts, mine \ candidate.absorbed))
    IN  [tables |-> {p}, handled |-> {},
         node |-> IF below = <<>> THEN candidate.leaf
                  ELSE [op |-> "Filter", predicate |-> below[1], child |-> candidate.leaf]]

join_leaves(leaves, handled, scans, conjuncts, steps) ==
    LET pool == [conjuncts |-> conjuncts, scans |-> scans,
                 joinable |-> {i \in DOMAIN conjuncts :
                        i \notin handled /\ Cardinality(tables_of(conjuncts[i])) > 1}]
    IN  IF Len(scans) = 1 THEN {[node |-> f[1].node, handled |-> handled] : f \in leaves}
        ELSE UNION {{[node |-> r.node, handled |-> handled \cup r.handled] :
                       r \in plan_chain(f, steps, pool)} : f \in leaves}

plan_joins(scans, conjuncts, origins, steps, catalog) ==
    LET choices(p, mine) == {Leaf(p, c, mine, conjuncts) :
                               c \in choose_access_path(scans[p], mine, conjuncts, catalog)}
        each(chosen) == {f \in [DOMAIN scans -> UNION Members(chosen)] :
                           \A p \in DOMAIN scans : f[p] \in chosen[p]}
    IN  With([p \in DOMAIN scans |-> pushed_to(p, conjuncts, origins, steps)],
             LAMBDA mine :
                join_leaves(each([p \in DOMAIN scans |-> choices(p, mine[p])]),
                            UNION Members(mine), scans, conjuncts, steps))

(* The operators above the joins, outermost first. *)
RECURSIVE spine(_)
spine(p) ==
    CASE ~HasChild(p) -> <<>>
      [] p.op = "Filter" -> spine(p.child)
      [] OTHER -> <<p>> \o spine(p.child)

stack(p, joined, residual) ==
    LET above == spine(p)
        filtered == IF residual = <<>> THEN joined
                    ELSE [op |-> "Filter", predicate |-> residual[1], child |-> joined]
        node[i \in 1..Len(above) + 1] ==
          IF i > Len(above) THEN filtered ELSE [above[i] EXCEPT !.child = node[i + 1]]
    IN  node[1]

(* WHERE and every inner ON in one pool, each term with the number of the  *)
(* join it was written at (the number of joins, for a term of the WHERE).  *)
pooled_terms(where, steps) ==
    LET terms(e, origin) == With(split_conjunction(e), LAMBDA ts :
                                [k \in DOMAIN ts |-> [term |-> ts[k], origin |-> origin]])
        inner(i) == IF steps[i].kind = "INNER" THEN terms(steps[i].on, i - 1) ELSE <<>>
    IN  Flatten([i \in DOMAIN where |-> terms(where[i], Len(steps))])
        \o Flatten([i \in DOMAIN steps |-> inner(i)])

stack_over(plan, steps, pooled, catalog) ==
    LET conjuncts == [i \in DOMAIN pooled |-> pooled[i].term]
        origins == [i \in DOMAIN pooled |-> pooled[i].origin]
    IN  {stack(plan, j.node,
               rebuild_conjunction(Select(conjuncts, DOMAIN conjuncts \ j.handled))) :
            j \in plan_joins(find_scans(plan), conjuncts, origins, steps, catalog)}

plan_select(logical, catalog) ==
    With(apply_rules(logical), LAMBDA plan :
        With(join_steps(plan), LAMBDA steps :
            stack_over(plan, steps, pooled_terms(predicate_of(plan), steps), catalog)))

(***************************************************************************)
(* materialise and run: what the operators of the plan yield.              *)
(***************************************************************************)
RECURSIVE materialise(_, _)
materialise(p, catalog) ==
    LET child == materialise(p.child, catalog)
    IN  CASE p.op = "SeqScan" -> SeqScan(catalog[p.table].heap, p.layout)
          [] p.op = "IndexScan" ->
                IndexScan(catalog[p.table].heap, p.column, p.bounds, p.layout)
          [] p.op = "NestedLoopJoin" ->
                NestedLoopJoin(materialise(p.left, catalog), materialise(p.right, catalog), p)
          [] p.op = "HashJoin" ->
                HashJoin(materialise(p.left, catalog), materialise(p.right, catalog), p)
          [] p.op = "Aggregate" -> HashAggregate(child, p.group_keys, p.aggregates, p.having)
          [] p.op = "Distinct" -> Distinct(child)
          [] p.op = "Sort" -> Sort(child, p.keys)
          [] p.op = "Limit" -> Limit(child, p.count, p.offset)
          [] p.op = "Filter" -> Filter(child, p.predicate)
          [] p.op = "Project" -> Project(child, p.projections)
=============================================================================

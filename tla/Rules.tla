-------------------------------- MODULE Rules --------------------------------
(***************************************************************************)
(* The logical plan and its rewrites: engine/planner/logical.py,           *)
(* engine/optimizer/rules.py and engine/optimizer/nullability.py.          *)
(*                                                                         *)
(* A plan is a tree of records [op, ...].  The tables of a query are a     *)
(* left-deep chain of joins whose right sides are scans, in written order. *)
(***************************************************************************)
EXTENDS Binder

LogicalScan(entry, total) ==
    [op |-> "Scan", table |-> entry.table, schema |-> entry.schema,
     position |-> entry.position, offset |-> entry.offset, total |-> total]
LogicalFilter(p, child) == [op |-> "Filter", predicate |-> p, child |-> child]
LogicalProject(ps, child) == [op |-> "Project", projections |-> ps, child |-> child]
LogicalJoin(on, l, r, kind) ==
    [op |-> "Join", predicate |-> on, left |-> l, right |-> r, kind |-> kind]
LogicalAggregate(a, child) ==
    [op |-> "Aggregate", group_keys |-> a.group_keys, aggregates |-> a.aggregates,
     having |-> a.having, child |-> child]
LogicalSort(keys, child) == [op |-> "Sort", keys |-> keys, child |-> child]
LogicalDistinct(child) == [op |-> "Distinct", child |-> child]
LogicalLimit(n, off, child) ==
    [op |-> "Limit", count |-> n, offset |-> off, child |-> child]

HasChild(p) == p.op \notin {"Scan", "Join"}
preserves_left(kind) == kind \in {"LEFT", "FULL"}
preserves_right(kind) == kind \in {"RIGHT", "FULL"}
is_outer(kind) == kind # "INNER"
JoinKind_of(l, r) ==
    IF l THEN (IF r THEN "FULL" ELSE "LEFT") ELSE (IF r THEN "RIGHT" ELSE "INNER")

(***************************************************************************)
(* fold_constants.  A subtree that would raise is left for the row that    *)
(* reaches it.  The rule looks through Filter and Project from the root    *)
(* only, so a plan under a Sort or a Limit keeps its constants.            *)
(***************************************************************************)
is_constant(e) ==
    /\ e.node \in {"Literal", "UnaryOp", "BinaryOp", "IsNullTest", "InList"}
    /\ \A n \in NodesOf(e) : n.node \notin {"Column", "Aggregate"}

try_fold(e) ==
    LET Folded(v) == IF IsRaised(v) THEN e ELSE Lit(v)
    IN  IF e.node = "Literal" \/ ~is_constant(e) THEN e ELSE Folded(evaluate(e, <<>>))

RECURSIVE fold_constants_in(_)
fold_constants_in(e) ==
    CASE e.node \in {"UnaryOp", "BinaryOp"} -> try_fold(MapChildren(fold_constants_in, e))
      [] e.node \in {"InList", "IsNullTest"} -> MapChildren(fold_constants_in, e)
      [] OTHER -> e

RECURSIVE fold_constants(_)
fold_constants(p) ==
    CASE p.op = "Filter" ->
            LogicalFilter(fold_constants_in(p.predicate), fold_constants(p.child))
      [] p.op = "Project" ->
            LogicalProject([i \in DOMAIN p.projections |->
                               fold_constants_in(p.projections[i])],
                           fold_constants(p.child))
      [] OTHER -> p

(***************************************************************************)
(* The filter rules, likewise from the root through Filter and Project.    *)
(***************************************************************************)
RECURSIVE merge_adjacent_filters(_)
merge_adjacent_filters(p) ==
    CASE p.op = "Filter" ->
            IF p.child.op = "Filter"
            THEN merge_adjacent_filters(
                    LogicalFilter(Binary("AND", p.predicate, p.child.predicate),
                                  p.child.child))
            ELSE [p EXCEPT !.child = merge_adjacent_filters(@)]
      [] p.op = "Project" -> [p EXCEPT !.child = merge_adjacent_filters(@)]
      [] OTHER -> p

RECURSIVE remove_trivial_filter(_)
remove_trivial_filter(p) ==
    CASE p.op = "Filter" /\ p.predicate = Lit(BoolV(TRUE)) ->
            remove_trivial_filter(p.child)
      [] p.op \in {"Filter", "Project"} -> [p EXCEPT !.child = remove_trivial_filter(@)]
      [] OTHER -> p

(* The schema of the first scan in pre-order, whatever lies above it. *)
RECURSIVE scanned_schema(_)
scanned_schema(p) ==
    CASE p.op = "Scan" -> p.schema
      [] p.op = "Join" -> scanned_schema(p.left)
      [] OTHER -> scanned_schema(p.child)

drop_identity_projection(p) ==
    IF /\ p.op = "Project"
       /\ Len(p.projections) = Len(scanned_schema(p))
       /\ \A i \in DOMAIN p.projections :
             p.projections[i].node = "Column" /\ p.projections[i].index = i
    THEN p.child ELSE p

(***************************************************************************)
(* What a predicate can come to when every column of the given tables is   *)
(* NULL: a set of truth values, each possible outcome being a member.      *)
(***************************************************************************)
T == "TRUE"
F == "FALSE"
U == "UNKNOWN"
AnyTruth == {T, F, U}

AND_TABLE(a, b) == CASE F \in {a, b} -> F [] U \in {a, b} -> U [] OTHER -> T
OR_TABLE(a, b) == CASE T \in {a, b} -> T [] U \in {a, b} -> U [] OTHER -> F
NOT_TABLE(a) == CASE a = T -> F [] a = F -> T [] OTHER -> U

combine(Table(_, _), A, B) == {Table(a, b) : a \in A, b \in B}

RECURSIVE truth_of(_, _)
RECURSIVE definitely_null(_, _)

definitely_null(e, sources) ==
    CASE e.node = "Literal" -> IsNull(e.value)
      [] e.node = "Column" -> e.position \in sources
      [] e.node = "UnaryOp" ->
            IF e.operator = "NOT" THEN truth_of(e, sources) = {U}
            ELSE definitely_null(e.operand, sources)
      [] e.node = "BinaryOp" ->
            IF e.operator \in Comparisons \cup {"AND", "OR"}
            THEN truth_of(e, sources) = {U}
            ELSE definitely_null(e.left, sources) \/ definitely_null(e.right, sources)
      [] OTHER -> FALSE

truth_of(e, sources) ==
    CASE e.node = "Literal" ->
            CASE IsBool(e.value) -> {IF e.value[2] THEN T ELSE F}
              [] IsNull(e.value) -> {U}
              [] OTHER -> AnyTruth
      [] e.node = "IsNullTest" ->
            IF definitely_null(e.operand, sources)
            THEN {IF e.negated THEN F ELSE T} ELSE {T, F}
      [] e.node = "UnaryOp" /\ e.operator = "NOT" ->
            {NOT_TABLE(a) : a \in truth_of(e.operand, sources)}
      [] e.node = "BinaryOp" /\ e.operator = "AND" ->
            combine(AND_TABLE, truth_of(e.left, sources), truth_of(e.right, sources))
      [] e.node = "BinaryOp" /\ e.operator = "OR" ->
            combine(OR_TABLE, truth_of(e.left, sources), truth_of(e.right, sources))
      [] e.node = "BinaryOp" /\ e.operator \in Comparisons ->
            IF definitely_null(e.left, sources) \/ definitely_null(e.right, sources)
            THEN {U} ELSE AnyTruth
      [] e.node = "InList" ->
            IF \/ definitely_null(e.operand, sources)
               \/ \A i \in DOMAIN e.items : definitely_null(e.items[i], sources)
            THEN {U} ELSE AnyTruth
      [] e.node = "Column" -> IF e.position \in sources THEN {U} ELSE AnyTruth
      [] OTHER -> AnyTruth

(* No row whose `sources` are all NULL can make every predicate TRUE. *)
rejects_nulls(predicates, sources) ==
    LET outcome[i \in 0..Len(predicates)] ==
          IF i = 0 THEN {T}
          ELSE combine(AND_TABLE, outcome[i - 1], truth_of(predicates[i], sources))
    IN  T \notin outcome[Len(predicates)]

(***************************************************************************)
(* simplify_outer_joins: a side whose NULL-extended rows nothing above can *)
(* keep need not be preserved.  The joins are decided from the top down.   *)
(***************************************************************************)
RECURSIVE written_order(_)
written_order(p) == IF p.op = "Join" THEN Append(written_order(p.left), p) ELSE <<>>

RECURSIVE Leftmost(_)
Leftmost(p) == IF p.op = "Join" THEN Leftmost(p.left) ELSE p

reduced_kinds(chain, first, where) ==
    LET n == Len(chain)
        right(i) == chain[i].right.position
        lefts(i) == {first} \cup {right(k) : k \in 1..i - 1}
        kinds[i \in 1..n + 1] ==          \* the kinds of joins i..n
          IF i > n THEN <<>>
          ELSE LET above == kinds[i + 1]
                   k == chain[i].kind
                   later == Pick(n - i, LAMBDA j : ~preserves_left(above[j]),
                                        LAMBDA j : chain[i + j].predicate)
                   witnesses == where \o later
               IN  <<IF ~is_outer(k) THEN k
                     ELSE JoinKind_of(
                            preserves_left(k) /\ ~rejects_nulls(witnesses, {right(i)}),
                            preserves_right(k) /\ ~rejects_nulls(witnesses, lefts(i)))>>
                   \o above
    IN  kinds[1]

ChainWith(chain, first, kinds) ==
    LET node[i \in 0..Len(chain)] ==
          IF i = 0 THEN first
          ELSE [chain[i] EXCEPT !.left = node[i - 1], !.kind = kinds[i]]
    IN  node[Len(chain)]

reduce_join_chain(root, where) ==
    LET chain == written_order(root)
        first == Leftmost(root)
    IN  ChainWith(chain, first, reduced_kinds(chain, first.position, where))

RECURSIVE simplify_outer_joins(_)
simplify_outer_joins(p) ==
    CASE p.op = "Join" -> reduce_join_chain(p, <<>>)
      [] p.op = "Filter" /\ p.child.op = "Join" ->
            [p EXCEPT !.child = reduce_join_chain(p.child, <<p.predicate>>)]
      [] HasChild(p) -> [p EXCEPT !.child = simplify_outer_joins(@)]
      [] OTHER -> p

(* One pass, in the order of RULES. *)
apply_rules(p) ==
    simplify_outer_joins(
        drop_identity_projection(
            remove_trivial_filter(
                merge_adjacent_filters(
                    fold_constants(p)))))
=============================================================================

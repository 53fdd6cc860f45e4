----------------------------- MODULE Expression -----------------------------
(***************************************************************************)
(* engine/executor/expression.py: the value of a bound expression on one   *)
(* row, under SQL's three-valued logic.                                    *)
(*                                                                         *)
(* A value carries its Python type as a tag, so that a comparison across   *)
(* kinds is a decision of the model (require_comparable) and never one of  *)
(* TLC's.  A float is an exact rational in lowest terms.  A text is the    *)
(* rank of the string among the strings of the instance.  A raised         *)
(* EvaluationError is the value Raised, which every operator propagates.   *)
(*                                                                         *)
(* This module is evaluated by TLC only: its operators are recursive.      *)
(***************************************************************************)
EXTENDS Integers, Sequences, FiniteSets

CONSTANTS
    IntMax      \* the largest INTEGER (2^63 - 1 in the code)

ASSUME IntMaxAssumption == IntMax \in Nat

IntMin == -IntMax - 1

(* LET v == value IN Body(v), with the value computed once. *)
With(value, Body(_)) == Body(value)

Null == <<"null">>
Raised == <<"raised">>
IntV(n) == <<"int", n>>
BoolV(b) == <<"bool", b>>
TextV(rank) == <<"text", rank>>

IsNull(v) == v[1] = "null"
IsBool(v) == v[1] = "bool"
IsRaised(v) == v[1] = "raised"
IsNumber(v) == v[1] \in {"int", "float"}

(***************************************************************************)
(* Rational arithmetic for FLOAT.                                          *)
(***************************************************************************)
Abs(n) == IF n < 0 THEN -n ELSE n
RECURSIVE Gcd(_, _)
Gcd(m, n) == IF n = 0 THEN m ELSE Gcd(n, m % n)

FloatV(num, den) ==
    LET g == Gcd(Abs(num), Abs(den))
        s == IF den < 0 THEN -1 ELSE 1
    IN  <<"float", s * (num \div g), s * (den \div g)>>

Num(v) == v[2]
Den(v) == IF v[1] = "float" THEN v[3] ELSE 1

(* Two numbers compare by value whatever their types, as Python's do. *)
NumberLess(v, w) == Num(v) * Den(w) < Num(w) * Den(v)
NumberEqual(v, w) == Num(v) * Den(w) = Num(w) * Den(v)

(***************************************************************************)
(* The syntax trees: the AST's nodes and the binder's.                     *)
(***************************************************************************)
Lit(v) == [node |-> "Literal", value |-> v]
Col(i, type, position) ==                               \* BoundColumnRef
    [node |-> "Column", index |-> i, type |-> type, position |-> position]
Ref(t, c) == [node |-> "ColumnRef", table |-> t, name |-> c]
IsNullTest(e, neg) == [node |-> "IsNullTest", operand |-> e, negated |-> neg]
InList(e, xs, neg) ==
    [node |-> "InList", operand |-> e, items |-> xs, negated |-> neg]
Unary(op, e) == [node |-> "UnaryOp", operator |-> op, operand |-> e]
Binary(op, l, r) ==
    [node |-> "BinaryOp", operator |-> op, left |-> l, right |-> r]
Aggregate(f, e) == [node |-> "Aggregate", function |-> f, argument |-> e]
Star(t) == [node |-> "Star", table |-> t]
Wrong == [node |-> "Wrong"]                             \* a BindingError

(* The children of a node, in order; COUNT( * ) has no argument. *)
Children(e) ==
    CASE e.node \in {"IsNullTest", "UnaryOp"} -> <<e.operand>>
      [] e.node = "BinaryOp" -> <<e.left, e.right>>
      [] e.node = "InList" -> <<e.operand>> \o e.items
      [] e.node = "Aggregate" ->
            IF e.argument.node = "Star" THEN <<>> ELSE <<e.argument>>
      [] OTHER -> <<>>

(* The node with Op applied to each child. *)
MapChildren(Op(_), e) ==
    CASE e.node \in {"IsNullTest", "UnaryOp"} -> [e EXCEPT !.operand = Op(@)]
      [] e.node = "BinaryOp" -> [e EXCEPT !.left = Op(@), !.right = Op(@)]
      [] e.node = "InList" ->
            [e EXCEPT !.operand = Op(@), !.items = [i \in DOMAIN @ |-> Op(@[i])]]
      [] e.node = "Aggregate" ->
            IF e.argument.node = "Star" THEN e ELSE [e EXCEPT !.argument = Op(@)]
      [] OTHER -> e

Flatten(ss) ==
    LET cat[i \in 0..Len(ss)] == IF i = 0 THEN <<>> ELSE cat[i - 1] \o ss[i]
    IN  cat[Len(ss)]

(* Every node of the tree, parents before children. *)
RECURSIVE walk(_)
walk(e) == <<e>> \o Flatten([i \in DOMAIN Children(e) |-> walk(Children(e)[i])])

Members(s) == {s[i] : i \in DOMAIN s}
NodesOf(e) == Members(walk(e))

Comparisons == {"=", "<>", "<", "<=", ">", ">="}
Arithmetic == {"+", "-", "*"}

kind_of(v) == IF IsNumber(v) THEN "number" ELSE v[1]

(***************************************************************************)
(* check_numeric_range: an INTEGER result outside 64 bits raises.  The     *)
(* infinite FLOATs it also refuses have no rational and do not arise.      *)
(***************************************************************************)
check_numeric_range(v) ==
    IF v[1] = "int" /\ ~(v[2] \in IntMin..IntMax) THEN Raised ELSE v

require_boolean(v) == IsBool(v)
require_number(v) == IsNumber(v)
require_comparable(v, w) == kind_of(v) = kind_of(w)

SameValue(v, w) ==
    IF IsNumber(v) THEN NumberEqual(v, w) ELSE v = w

LessValue(v, w) ==
    CASE IsNumber(v) -> NumberLess(v, w)
      [] IsBool(v) -> ~v[2] /\ w[2]
      [] OTHER -> v[2] < w[2]

compare(op, v, w) ==
    CASE op = "=" -> SameValue(v, w)
      [] op = "<>" -> ~SameValue(v, w)
      [] op = "<" -> LessValue(v, w)
      [] op = "<=" -> LessValue(v, w) \/ SameValue(v, w)
      [] op = ">" -> LessValue(w, v)
      [] op = ">=" -> LessValue(w, v) \/ SameValue(v, w)

Number(num, den, isInt) == IF isInt THEN IntV(num) ELSE FloatV(num, den)

arithmetic(op, v, w) ==
    LET isInt == v[1] = "int" /\ w[1] = "int"
        d == Den(v) * Den(w)
    IN  CASE op = "+" -> Number(Num(v) * Den(w) + Num(w) * Den(v), d, isInt)
          [] op = "-" -> Number(Num(v) * Den(w) - Num(w) * Den(v), d, isInt)
          [] op = "*" -> Number(Num(v) * Num(w), d, isInt)

(* The quotient of two integers is truncated toward zero, not floored, and *)
(* alone among the arithmetic it is not range checked (INT64_MIN / -1).    *)
divide(v, w) ==
    CASE ~require_number(v) \/ ~require_number(w) -> Raised
      [] Num(w) = 0 -> Raised
      [] v[1] = "int" /\ w[1] = "int" ->
            LET q == Abs(Num(v)) \div Abs(Num(w))
            IN  IntV(IF (Num(v) < 0) # (Num(w) < 0) THEN -q ELSE q)
      [] OTHER ->
            check_numeric_range(FloatV(Num(v) * Den(w), Den(v) * Num(w)))

exact_remainder(m, n, d) == m % n    \* of |v| and |w| over a common denominator

(* The remainder takes the sign of the dividend. *)
modulo(v, w) ==
    IF ~require_number(v) \/ ~require_number(w) \/ Num(w) = 0 THEN Raised
    ELSE LET d == Den(v) * Den(w)
             r == exact_remainder(Abs(Num(v) * Den(w)), Abs(Num(w) * Den(v)), d)
             s == IF Num(v) < 0 THEN -r ELSE r
         IN  check_numeric_range(Number(s, d, v[1] = "int" /\ w[1] = "int"))

(***************************************************************************)
(* The evaluator.  AND and OR evaluate their right side only when the left *)
(* has not decided, so a right side that would raise may never be reached. *)
(***************************************************************************)
RECURSIVE evaluate(_, _)

evaluate_and(e, row) ==
    LET l == evaluate(e.left, row)
    IN  IF IsRaised(l) \/ (~IsNull(l) /\ ~require_boolean(l)) THEN Raised
        ELSE IF l = BoolV(FALSE) THEN l
        ELSE LET r == evaluate(e.right, row)
             IN  IF IsRaised(r) \/ (~IsNull(r) /\ ~require_boolean(r)) THEN Raised
                 ELSE IF r = BoolV(FALSE) THEN r
                 ELSE IF IsNull(l) \/ IsNull(r) THEN Null
                 ELSE BoolV(TRUE)

evaluate_or(e, row) ==
    LET l == evaluate(e.left, row)
    IN  IF IsRaised(l) \/ (~IsNull(l) /\ ~require_boolean(l)) THEN Raised
        ELSE IF l = BoolV(TRUE) THEN l
        ELSE LET r == evaluate(e.right, row)
             IN  IF IsRaised(r) \/ (~IsNull(r) /\ ~require_boolean(r)) THEN Raised
                 ELSE IF r = BoolV(TRUE) THEN r
                 ELSE IF IsNull(l) \/ IsNull(r) THEN Null
                 ELSE BoolV(FALSE)

evaluate_binary(e, row) ==
    LET op == e.operator
        l == evaluate(e.left, row)
        r == evaluate(e.right, row)
    IN  CASE op = "AND" -> evaluate_and(e, row)
          [] op = "OR" -> evaluate_or(e, row)
          [] OTHER ->
            CASE IsRaised(l) \/ IsRaised(r) -> Raised
              [] IsNull(l) \/ IsNull(r) -> Null
              [] op \in Comparisons ->
                    IF require_comparable(l, r) THEN BoolV(compare(op, l, r))
                    ELSE Raised
              [] op \in Arithmetic ->
                    IF require_number(l) /\ require_number(r)
                    THEN check_numeric_range(arithmetic(op, l, r)) ELSE Raised
              [] op = "/" -> divide(l, r)
              [] op = "%" -> modulo(l, r)

evaluate_unary(e, row) ==
    LET v == evaluate(e.operand, row)
    IN  CASE IsRaised(v) \/ IsNull(v) -> v
          [] e.operator = "NOT" ->
                IF require_boolean(v) THEN BoolV(~v[2]) ELSE Raised
          [] e.operator = "NEGATE" ->
                IF require_number(v)
                THEN check_numeric_range(Number(-Num(v), Den(v), v[1] = "int"))
                ELSE Raised
          [] e.operator = "PLUS" -> IF require_number(v) THEN v ELSE Raised

(* IN looks at its items in order and answers at the first match.  Once an *)
(* item was NULL the items after it are evaluated and no longer compared.  *)
RECURSIVE in_items(_, _, _, _, _)
in_items(v, items, row, unknown, negated) ==
    IF items = <<>> THEN (IF unknown THEN Null ELSE BoolV(negated))
    ELSE LET c == evaluate(Head(items), row)
         IN  CASE IsRaised(c) -> Raised
               [] IsNull(c) \/ unknown ->
                    in_items(v, Tail(items), row, TRUE, negated)
               [] ~require_comparable(v, c) -> Raised
               [] SameValue(v, c) -> BoolV(~negated)
               [] OTHER -> in_items(v, Tail(items), row, unknown, negated)

evaluate_in(e, row) ==
    LET v == evaluate(e.operand, row)
    IN  IF IsRaised(v) THEN v
        ELSE in_items(v, e.items, row, IsNull(v), e.negated)

evaluate(e, row) ==
    CASE e.node = "Literal" -> e.value
      [] e.node = "Column" -> IF e.index <= Len(row) THEN row[e.index] ELSE Raised
      [] e.node = "IsNullTest" ->
            LET v == evaluate(e.operand, row)
            IN  IF IsRaised(v) THEN v ELSE BoolV(IsNull(v) # e.negated)
      [] e.node = "InList" -> evaluate_in(e, row)
      [] e.node = "UnaryOp" -> evaluate_unary(e, row)
      [] e.node = "BinaryOp" -> evaluate_binary(e, row)
      [] OTHER -> Raised

(* A row passes only a predicate that is exactly TRUE; a value that is     *)
(* neither boolean nor NULL is refused.                                    *)
is_true(v) ==
    IF IsNull(v) \/ IsBool(v) THEN BoolV(v = BoolV(TRUE)) ELSE Raised
=============================================================================

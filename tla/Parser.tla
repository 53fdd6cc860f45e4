------------------------------- MODULE Parser -------------------------------
(***************************************************************************)
(* engine/parser/parser.py: recursive descent from tokens to statements.   *)
(*                                                                         *)
(* A token is <<type, value>>; the stream ends in EOF.  The parser's state *)
(* is a position in the stream and, for _expression, the nesting depth:    *)
(* a method is an operator of the context c = [toks, depth] and of the     *)
(* position, and answers the node it made and the position after it, or    *)
(* Failed.  Spans, node ids and messages are left out.                     *)
(***************************************************************************)
EXTENDS Engine

CONSTANTS
    MaxExpressionDepth      \* MAX_EXPRESSION_DEPTH

ASSUME MaxExpressionDepthAssumption == MaxExpressionDepth \in Nat

Kw(k) == <<"KEYWORD", k>>
Sym(x) == <<"SYMBOL", x>>
Id(n) == <<"IDENTIFIER", n>>
IntT(n) == <<"INT_LITERAL", n>>
FloatT(v) == <<"FLOAT_LITERAL", v>>
StringT(rank) == <<"STRING_LITERAL", rank>>
Eof == <<"EOF", "">>

Failed == [ok |-> FALSE]
Got(node, at) == [ok |-> TRUE, node |-> node, at |-> at]
Then(r, Op(_)) == IF r.ok THEN Op(r) ELSE Failed

(***************************************************************************)
(* The cursor.                                                             *)
(***************************************************************************)
current(c, p) == c.toks[p]
at_end(c, p) == current(c, p) = Eof
check(c, p, t) == current(c, p) = t
checks(c, p, ts) == \E t \in ts : check(c, p, t)
peek(c, p, t) == p <= Len(c.toks) /\ c.toks[p] = t
advance(c, p) == IF at_end(c, p) THEN p ELSE p + 1
match(c, p, t) == IF check(c, p, t) THEN advance(c, p) ELSE p
expect(c, p, t) == IF check(c, p, t) THEN Got(t, advance(c, p)) ELSE Failed
is_identifier(c, p) == current(c, p)[1] = "IDENTIFIER"

identifier(c, p) ==
    IF is_identifier(c, p) THEN Got(current(c, p)[2], advance(c, p)) ELSE Failed

(* One or more items with commas between them. *)
CommaList(Item(_), c, p) ==
    LET from[q \in 1..Len(c.toks)] ==
          Then(Item(q), LAMBDA r :
              IF check(c, r.at, Sym(","))
              THEN Then(from[r.at + 1], LAMBDA s : Got(<<r.node>> \o s.node, s.at))
              ELSE Got(<<r.node>>, r.at))
    IN  from[p]

(* A clause that is there when its first token is: at most one node. *)
Clause(Item(_), c, p, token) ==
    IF check(c, p, token)
    THEN Then(Item(p + 1), LAMBDA r : Got(<<r.node>>, r.at))
    ELSE Got(<<>>, p)

(* Operands with operators of `ops` between them, grouped to the left. *)
LeftGrouped(Operand(_), c, p, ops) ==
    LET rest[q \in 1..Len(c.toks)] ==       \* the <<operator, operand>>s from q
          IF current(c, q) \notin ops THEN Got(<<>>, q)
          ELSE Then(Operand(q + 1), LAMBDA r :
                   Then(rest[r.at], LAMBDA s :
                       Got(<<<<current(c, q)[2], r.node>>>> \o s.node, s.at)))
        grouped(first, pairs) ==
            LET tree[i \in 0..Len(pairs)] ==
                  IF i = 0 THEN first
                  ELSE Binary(pairs[i][1], tree[i - 1], pairs[i][2])
            IN  tree[Len(pairs)]
    IN  Then(Operand(p), LAMBDA r :
            Then(rest[r.at], LAMBDA s : Got(grouped(r.node, s.node), s.at)))

(***************************************************************************)
(* Expressions, loosest binding first.                                     *)
(***************************************************************************)
RECURSIVE expression(_, _)
RECURSIVE not_expression(_, _)
RECURSIVE unary(_, _)
RECURSIVE select_statement(_, _)

column_reference(c, p) ==
    Then(identifier(c, p), LAMBDA r :
        IF check(c, r.at, Sym("."))
        THEN Then(identifier(c, r.at + 1), LAMBDA s : Got(Ref(r.node, s.node), s.at))
        ELSE Got(Ref("", r.node), r.at))

peek_is_call(c, p) == peek(c, p + 1, Sym("("))

AggregateFunctions == {"COUNT", "SUM", "AVG", "MIN", "MAX"}

(* Only COUNT takes a star, and an aggregate's argument is not a call. *)
function_call(c, p) ==
    LET f == current(c, p)[2]
        q == p + 2
    IN  CASE f \notin AggregateFunctions -> Failed
          [] check(c, q, Sym("*")) ->
                IF f # "COUNT" THEN Failed
                ELSE Then(expect(c, q + 1, Sym(")")),
                          LAMBDA r : Got(Aggregate(f, Star("")), r.at))
          [] OTHER ->
                Then(expression(c, q), LAMBDA a :
                    IF a.node.node = "Aggregate" THEN Failed
                    ELSE Then(expect(c, a.at, Sym(")")),
                              LAMBDA r : Got(Aggregate(f, a.node), r.at)))

primary(c, p) ==
    LET t == current(c, p)
    IN  CASE t = Sym("(") /\ check(c, p + 1, Kw("SELECT")) ->
                Then(select_statement(c, p + 1), LAMBDA s :
                    Then(expect(c, s.at, Sym(")")),
                         LAMBDA r : Got(ScalarSubquery(s.node), r.at)))
          [] t = Sym("(") ->
                Then(expression(c, p + 1), LAMBDA e :
                    Then(expect(c, e.at, Sym(")")), LAMBDA r : Got(e.node, r.at)))
          [] t[1] = "INT_LITERAL" -> Got(Lit(IntV(t[2])), p + 1)
          [] t[1] = "FLOAT_LITERAL" -> Got(Lit(t[2]), p + 1)
          [] t[1] = "STRING_LITERAL" -> Got(Lit(TextV(t[2])), p + 1)
          [] t \in {Kw("TRUE"), Kw("FALSE")} -> Got(Lit(BoolV(t[2] = "TRUE")), p + 1)
          [] t = Kw("NULL") -> Got(Lit(Null), p + 1)
          [] t[1] = "IDENTIFIER" ->
                IF peek_is_call(c, p) THEN function_call(c, p) ELSE column_reference(c, p)
          [] OTHER -> Failed

unary(c, p) ==
    IF checks(c, p, {Sym("-"), Sym("+")})
    THEN Then(unary(c, p + 1), LAMBDA r :
             Got(Unary(IF check(c, p, Sym("-")) THEN "NEGATE" ELSE "PLUS", r.node), r.at))
    ELSE primary(c, p)

multiplicative(c, p) ==
    LeftGrouped(LAMBDA q : unary(c, q), c, p, {Sym("*"), Sym("/"), Sym("%")})

(* Mutant: one level of operators for all, so no precedence. *)
additive_only(c, p) ==
    LeftGrouped(LAMBDA q : unary(c, q), c, p,
                {Sym("+"), Sym("-"), Sym("*"), Sym("/"), Sym("%")})

additive(c, p) ==
    LeftGrouped(LAMBDA q : multiplicative(c, q), c, p, {Sym("+"), Sym("-")})

in_list(c, p, left, negated) ==
    Then(expect(c, p, Kw("IN")), LAMBDA i :
        Then(expect(c, i.at, Sym("(")), LAMBDA o :
            IF check(c, o.at, Kw("SELECT")) THEN Failed
            ELSE Then(CommaList(LAMBDA q : expression(c, q), c, o.at), LAMBDA xs :
                     Then(expect(c, xs.at, Sym(")")),
                          LAMBDA r : Got(InList(left, xs.node, negated), r.at)))))

(* A comparison does not chain: a = b = c stops before the second sign. *)
comparison(c, p) ==
    Then(additive(c, p), LAMBDA l :
        LET t == current(c, l.at)
            negated == t = Kw("NOT") /\ peek(c, l.at + 1, Kw("IN"))
            q == IF negated THEN l.at + 1 ELSE l.at
            isNot == match(c, l.at + 1, Kw("NOT"))
        IN  CASE t[1] = "SYMBOL" /\ t[2] \in Comparisons ->
                    Then(additive(c, l.at + 1),
                         LAMBDA r : Got(Binary(t[2], l.node, r.node), r.at))
              [] t = Kw("IS") ->
                    Then(expect(c, isNot, Kw("NULL")),
                         LAMBDA r : Got(IsNullTest(l.node, isNot # l.at + 1), r.at))
              [] check(c, q, Kw("IN")) -> in_list(c, q, l.node, negated)
              [] checks(c, q, {Kw("LIKE"), Kw("BETWEEN")}) -> Failed
              [] OTHER -> Got(l.node, l.at))

not_expression(c, p) ==
    IF check(c, p, Kw("NOT"))
    THEN Then(not_expression(c, p + 1), LAMBDA r : Got(Unary("NOT", r.node), r.at))
    ELSE comparison(c, p)

and_expression(c, p) ==
    LeftGrouped(LAMBDA q : not_expression(c, q), c, p, {Kw("AND")})

or_expression(c, p) ==
    LeftGrouped(LAMBDA q : and_expression(c, q), c, p, {Kw("OR")})

(* The depth is counted here and nowhere else. *)
expression(c, p) ==
    IF c.depth + 1 > MaxExpressionDepth THEN Failed
    ELSE or_expression([c EXCEPT !.depth = @ + 1], p)

Expressions(c, p) == CommaList(LAMBDA q : expression(c, q), c, p)

(***************************************************************************)
(* SELECT.                                                                 *)
(***************************************************************************)
(* An alias follows AS, or stands alone. *)
Aliased(c, p, Node(_)) ==
    CASE check(c, p, Kw("AS")) ->
            Then(identifier(c, p + 1), LAMBDA a : Got(Node(<<a.node>>), a.at))
      [] is_identifier(c, p) -> Got(Node(<<current(c, p)[2]>>), p + 1)
      [] OTHER -> Got(Node(<<>>), p)

table_ref(c, p) ==
    Then(identifier(c, p), LAMBDA n :
        Aliased(c, n.at, LAMBDA a : [name |-> n.node, alias |-> a]))

peek_is_qualified_star(c, p) == peek(c, p + 1, Sym(".")) /\ peek(c, p + 2, Sym("*"))

select_item(c, p) ==
    CASE check(c, p, Sym("*")) -> Got([expression |-> Star(""), alias |-> <<>>], p + 1)
      [] is_identifier(c, p) /\ peek_is_qualified_star(c, p) ->
            Got([expression |-> Star(current(c, p)[2]), alias |-> <<>>], p + 3)
      [] OTHER ->
            Then(expression(c, p), LAMBDA e :
                Aliased(c, e.at, LAMBDA a : [expression |-> e.node, alias |-> a]))

sort_item(c, p) ==
    Then(expression(c, p), LAMBDA e :
        Got([expression |-> e.node, descending |-> check(c, e.at, Kw("DESC"))],
            IF checks(c, e.at, {Kw("ASC"), Kw("DESC")}) THEN e.at + 1 ELSE e.at))

(* The kind of the join that starts at p and the place of its JOIN. *)
join_kind(c, p) ==
    CASE check(c, p, Kw("INNER")) -> Got("INNER", p + 1)
      [] checks(c, p, {Kw("LEFT"), Kw("RIGHT"), Kw("FULL")}) ->
            Got(current(c, p)[2], match(c, p + 1, Kw("OUTER")))
      [] check(c, p, Kw("CROSS")) -> Failed
      [] check(c, p, Kw("JOIN")) -> Got("INNER", p)
      [] OTHER -> Got("none", p)

(* A comma is an inner join on TRUE. *)
from_clause(c, p) ==
    LET more[q \in 1..Len(c.toks)] ==
          IF check(c, q, Sym(","))
          THEN Then(table_ref(c, q + 1), LAMBDA t :
                   Then(more[t.at], LAMBDA r :
                       Got(<<[table |-> t.node, on |-> Lit(BoolV(TRUE)),
                              kind |-> "INNER"]>> \o r.node, r.at)))
          ELSE Then(join_kind(c, q), LAMBDA k :
                   IF k.node = "none" THEN Got(<<>>, q)
                   ELSE Then(expect(c, k.at, Kw("JOIN")), LAMBDA j :
                        Then(table_ref(c, j.at), LAMBDA t :
                        Then(expect(c, t.at, Kw("ON")), LAMBDA o :
                        Then(expression(c, o.at), LAMBDA e :
                        Then(more[e.at], LAMBDA r :
                            Got(<<[table |-> t.node, on |-> e.node, kind |-> k.node]>>
                                \o r.node, r.at)))))))
    IN  Then(table_ref(c, p), LAMBDA t :
            Then(more[t.at], LAMBDA r :
                Got([tables |-> <<t.node>> \o [i \in DOMAIN r.node |-> r.node[i].table],
                     joins |-> [i \in DOMAIN r.node |->
                                  [kind |-> r.node[i].kind, on |-> r.node[i].on]]], r.at)))

(* KEYWORD BY list, or nothing. *)
ByClause(Item(_), c, p, keyword) ==
    IF ~check(c, p, Kw(keyword)) THEN Got(<<>>, p)
    ELSE Then(expect(c, p + 1, Kw("BY")), LAMBDA b : CommaList(Item, c, b.at))

row_count(c, p) ==
    IF current(c, p)[1] = "INT_LITERAL" THEN Got(current(c, p)[2], p + 1) ELSE Failed

select_statement(c, p) ==
    LET E(q) == expression(c, q)
        distinct == check(c, p + 1, Kw("DISTINCT"))
    IN  Then(expect(c, p, Kw("SELECT")), LAMBDA start :
        Then(CommaList(LAMBDA q : select_item(c, q), c, match(c, start.at, Kw("DISTINCT"))),
             LAMBDA items :
        Then(expect(c, items.at, Kw("FROM")), LAMBDA f :
        Then(from_clause(c, f.at), LAMBDA from :
        Then(Clause(E, c, from.at, Kw("WHERE")), LAMBDA where :
        Then(ByClause(E, c, where.at, "GROUP"), LAMBDA group :
        Then(Clause(E, c, group.at, Kw("HAVING")), LAMBDA having :
        Then(ByClause(LAMBDA q : sort_item(c, q), c, having.at, "ORDER"), LAMBDA order :
        Then(Clause(LAMBDA q : row_count(c, q), c, order.at, Kw("LIMIT")), LAMBDA limit :
        Then(IF limit.node = <<>> /\ check(c, limit.at, Kw("OFFSET")) THEN Failed
             ELSE Clause(LAMBDA q : row_count(c, q), c, limit.at, Kw("OFFSET")), LAMBDA offset :
            Got([kind |-> "SELECT", tables |-> from.node.tables, joins |-> from.node.joins,
                 where |-> where.node, group_by |-> group.node, having |-> having.node,
                 projections |-> items.node, order_by |-> order.node,
                 limit |-> limit.node, offset |-> offset.node, distinct |-> distinct],
                offset.at)))))))))))

(***************************************************************************)
(* The other statements.                                                   *)
(***************************************************************************)
reject_trailing_clauses(c, p) == ~checks(c, p, {Kw("ORDER"), Kw("LIMIT")})

NameList(c, p) ==
    Then(CommaList(LAMBDA q : identifier(c, q), c, p), LAMBDA ns :
        Then(expect(c, ns.at, Sym(")")), LAMBDA r : Got(ns.node, r.at)))

values_row(c, p) ==
    Then(expect(c, p, Sym("(")), LAMBDA o :
        Then(Expressions(c, o.at), LAMBDA vs :
            Then(expect(c, vs.at, Sym(")")), LAMBDA r : Got(vs.node, r.at))))

insert_statement(c, p) ==
    Then(expect(c, p + 1, Kw("INTO")), LAMBDA i :
    Then(table_ref(c, i.at), LAMBDA t :
    Then(Clause(LAMBDA q : NameList(c, q), c, t.at, Sym("(")), LAMBDA names :
    Then(expect(c, names.at, Kw("VALUES")), LAMBDA v :
    Then(CommaList(LAMBDA q : values_row(c, q), c, v.at), LAMBDA rows :
        LET widths == {Len(rows.node[n]) : n \in DOMAIN rows.node}
                      \cup {Len(names.node[n]) : n \in DOMAIN names.node}
        IN  IF Cardinality(widths) > 1 THEN Failed
            ELSE Got([kind |-> "INSERT", table |-> t.node.name, columns |-> names.node,
                      rows |-> rows.node], rows.at))))))

assignment(c, p) ==
    Then(identifier(c, p), LAMBDA n :
        Then(expect(c, n.at, Sym("=")), LAMBDA q :
            Then(expression(c, q.at), LAMBDA e :
                Got([column |-> n.node, value |-> e.node], e.at))))

update_statement(c, p) ==
    Then(table_ref(c, p + 1), LAMBDA t :
    Then(expect(c, t.at, Kw("SET")), LAMBDA s :
    Then(CommaList(LAMBDA q : assignment(c, q), c, s.at), LAMBDA sets :
    Then(IF check(c, sets.at, Kw("FROM")) THEN Failed
         ELSE Clause(LAMBDA q : expression(c, q), c, sets.at, Kw("WHERE")), LAMBDA where :
        IF ~reject_trailing_clauses(c, where.at) THEN Failed
        ELSE Got([kind |-> "UPDATE", table |-> t.node.name, assignments |-> sets.node,
                  where |-> where.node], where.at)))))

delete_statement(c, p) ==
    Then(expect(c, p + 1, Kw("FROM")), LAMBDA f :
    Then(table_ref(c, f.at), LAMBDA t :
    Then(Clause(LAMBDA q : expression(c, q), c, t.at, Kw("WHERE")), LAMBDA where :
        IF ~reject_trailing_clauses(c, where.at) THEN Failed
        ELSE Got([kind |-> "DELETE", table |-> t.node.name, where |-> where.node],
                 where.at))))

transaction_statement(c, p) ==
    Got([kind |-> current(c, p)[2]], match(c, p + 1, Kw("TRANSACTION")))

(* ANALYZE takes a table; a keyword after it is taken for one, and refused. *)
analyze_statement(c, p) ==
    IF current(c, p + 1)[1] \in {"IDENTIFIER", "KEYWORD"}
    THEN Then(table_ref(c, p + 1), LAMBDA t :
             Got([kind |-> "ANALYZE", tables |-> <<t.node.name>>], t.at))
    ELSE Got([kind |-> "ANALYZE", tables |-> <<>>], p + 1)

(* IF NOT EXISTS, or nothing. *)
if_not_exists(c, p) ==
    IF ~check(c, p, Kw("IF")) THEN Got(FALSE, p)
    ELSE Then(expect(c, p + 1, Kw("NOT")), LAMBDA n :
             Then(expect(c, n.at, Kw("EXISTS")), LAMBDA e : Got(TRUE, e.at)))

create_index_statement(c, p) ==
    LET unique == check(c, p, Kw("UNIQUE"))
    IN  Then(expect(c, match(c, p, Kw("UNIQUE")), Kw("INDEX")), LAMBDA i :
        Then(if_not_exists(c, i.at), LAMBDA x :
        Then(identifier(c, x.at), LAMBDA n :
        Then(expect(c, n.at, Kw("ON")), LAMBDA o :
        Then(table_ref(c, o.at), LAMBDA t :
        Then(expect(c, t.at, Sym("(")), LAMBDA l :
        Then(identifier(c, l.at), LAMBDA col :
        Then(expect(c, col.at, Sym(")")), LAMBDA r :
            Got([kind |-> "CREATE INDEX", name |-> n.node, table |-> t.node.name,
                 column |-> col.node, unique |-> unique, if_not_exists |-> x.node],
                r.at)))))))))

TypeByKeyword ==
    [k \in {"INTEGER", "INT", "BIGINT", "FLOAT", "REAL", "DOUBLE", "BOOLEAN", "BOOL",
            "TEXT", "VARCHAR"} |->
        CASE k \in {"INTEGER", "INT", "BIGINT"} -> "int"
          [] k \in {"FLOAT", "REAL", "DOUBLE"} -> "float"
          [] k \in {"BOOLEAN", "BOOL"} -> "bool"
          [] OTHER -> "text"]

(* A constraint, or "none". *)
column_constraint(c, p) ==
    CASE check(c, p, Kw("NOT")) ->
            Then(expect(c, p + 1, Kw("NULL")), LAMBDA r : Got("NOT NULL", r.at))
      [] check(c, p, Kw("NULL")) -> Got("NULL", p + 1)
      [] check(c, p, Kw("PRIMARY")) ->
            Then(expect(c, p + 1, Kw("KEY")), LAMBDA r : Got("PRIMARY KEY", r.at))
      [] checks(c, p, {Kw("UNIQUE"), Kw("DEFAULT")}) -> Failed
      [] OTHER -> Got("none", p)

RECURSIVE Constraints(_, _, _)
Constraints(c, p, seen) ==
    Then(column_constraint(c, p), LAMBDA r :
        CASE r.node = "none" -> Got(seen, p)
          [] r.node \in seen -> Failed
          [] OTHER -> Constraints(c, r.at, seen \cup {r.node}))

column_definition(c, p) ==
    Then(identifier(c, p), LAMBDA n :
        LET t == current(c, n.at)
            sized == t = Kw("VARCHAR") /\ check(c, n.at + 1, Sym("("))
            length == IF ~sized THEN Got(0, n.at + 1)
                      ELSE Then(row_count(c, n.at + 2), LAMBDA w : expect(c, w.at, Sym(")")))
        IN  IF t[1] # "KEYWORD" \/ t[2] \notin DOMAIN TypeByKeyword THEN Failed
            ELSE Then(length, LAMBDA l :
                 Then(Constraints(c, l.at, {}), LAMBDA k :
                     IF {"NULL", "NOT NULL"} \subseteq k.node THEN Failed
                     ELSE Got([name |-> n.node, type |-> TypeByKeyword[t[2]],
                               constraints |-> k.node], k.at))))

create_table_statement(c, p) ==
    Then(expect(c, p, Kw("TABLE")), LAMBDA k :
    Then(if_not_exists(c, k.at), LAMBDA x :
    Then(table_ref(c, x.at), LAMBDA t :
    Then(expect(c, t.at, Sym("(")), LAMBDA o :
    Then(CommaList(LAMBDA q : column_definition(c, q), c, o.at), LAMBDA cols :
    Then(expect(c, cols.at, Sym(")")), LAMBDA r :
        Got([kind |-> "CREATE TABLE", table |-> t.node.name, columns |-> cols.node,
             if_not_exists |-> x.node], r.at)))))))

create_statement(c, p) ==
    IF checks(c, p + 1, {Kw("UNIQUE"), Kw("INDEX")})
    THEN create_index_statement(c, p + 1) ELSE create_table_statement(c, p + 1)

RECURSIVE parse_statement(_, _)

explain_statement(c, p) ==
    LET q == match(c, p + 1, Kw("ANALYZE"))
    IN  Then(parse_statement(c, q), LAMBDA s :
            IF s.node.kind = "EXPLAIN" THEN Failed
            ELSE Got([kind |-> "EXPLAIN", statement |-> s.node, analyze |-> q # p + 1], s.at))

parse_statement(c, p) ==
    CASE check(c, p, Kw("SELECT")) -> select_statement(c, p)
      [] check(c, p, Kw("INSERT")) -> insert_statement(c, p)
      [] check(c, p, Kw("UPDATE")) -> update_statement(c, p)
      [] check(c, p, Kw("DELETE")) -> delete_statement(c, p)
      [] check(c, p, Kw("CREATE")) -> create_statement(c, p)
      [] check(c, p, Kw("EXPLAIN")) -> explain_statement(c, p)
      [] check(c, p, Kw("ANALYZE")) -> analyze_statement(c, p)
      [] checks(c, p, {Kw("BEGIN"), Kw("COMMIT"), Kw("ROLLBACK")}) ->
            transaction_statement(c, p)
      [] OTHER -> Failed

(* Statements end at a semicolon or at the end; empty ones are skipped. *)
RECURSIVE statements_from(_, _)
statements_from(c, p) ==
    CASE at_end(c, p) -> Got(<<>>, p)
      [] check(c, p, Sym(";")) -> statements_from(c, p + 1)
      [] OTHER ->
            Then(parse_statement(c, p), LAMBDA s :
                IF ~checks(c, s.at, {Eof, Sym(";")}) THEN Failed
                ELSE Then(statements_from(c, s.at), LAMBDA r :
                         Got(<<s.node>> \o r.node, r.at)))

parse_script(toks) == statements_from([toks |-> toks, depth |-> 0], 1)
=============================================================================

------------------------------ MODULE Printer ------------------------------
(***************************************************************************)
(* How a statement is written: its tokens, with a parenthesis only where   *)
(* SQL's precedence needs one.  The parser must read back what is written  *)
(* here.  Precedence rises from OR through AND, NOT, the comparisons       *)
(* (which do not associate), the sums, the products and the signs.         *)
(***************************************************************************)
EXTENDS Parser

Binding(e) ==
    CASE e.node = "BinaryOp" ->
            CASE e.operator = "OR" -> 1
              [] e.operator = "AND" -> 2
              [] e.operator \in Comparisons -> 4
              [] e.operator \in {"+", "-"} -> 5
              [] OTHER -> 6
      [] e.node = "UnaryOp" -> IF e.operator = "NOT" THEN 3 ELSE 7
      [] e.node \in {"IsNullTest", "InList"} -> 4
      [] OTHER -> 8

Between(ss, sep) ==
    Flatten([i \in DOMAIN ss |-> IF i = 1 THEN ss[i] ELSE <<sep>> \o ss[i]])

OpToken(op) == IF op \in {"AND", "OR", "NOT"} THEN Kw(op) ELSE Sym(op)

LiteralToken(v) ==
    CASE v[1] = "int" -> IntT(v[2])
      [] v[1] = "float" -> FloatT(v)
      [] v[1] = "text" -> StringT(v[2])
      [] v[1] = "bool" -> Kw(IF v[2] THEN "TRUE" ELSE "FALSE")
      [] v[1] = "null" -> Kw("NULL")

RECURSIVE Show(_, _)
RECURSIVE ShowSelect(_)

Plain(e) ==
    CASE e.node = "Literal" -> <<LiteralToken(e.value)>>
      [] e.node = "ColumnRef" ->
            IF e.table = "" THEN <<Id(e.name)>> ELSE <<Id(e.table), Sym("."), Id(e.name)>>
      [] e.node = "Star" ->
            IF e.table = "" THEN <<Sym("*")>> ELSE <<Id(e.table), Sym("."), Sym("*")>>
      [] e.node = "Aggregate" ->
            <<Id(e.function), Sym("(")>> \o Show(e.argument, 1) \o <<Sym(")")>>
      [] e.node = "ScalarSubquery" -> <<Sym("(")>> \o ShowSelect(e.statement) \o <<Sym(")")>>
      [] e.node = "IsNullTest" ->
            Show(e.operand, 5) \o (IF e.negated THEN <<Kw("IS"), Kw("NOT"), Kw("NULL")>>
                                   ELSE <<Kw("IS"), Kw("NULL")>>)
      [] e.node = "InList" ->
            Show(e.operand, 5) \o (IF e.negated THEN <<Kw("NOT")>> ELSE <<>>)
            \o <<Kw("IN"), Sym("(")>>
            \o Between([i \in DOMAIN e.items |-> Show(e.items[i], 1)], Sym(",")) \o <<Sym(")")>>
      [] e.node = "UnaryOp" ->
            IF e.operator = "NOT" THEN <<Kw("NOT")>> \o Show(e.operand, 3)
            ELSE <<Sym(IF e.operator = "NEGATE" THEN "-" ELSE "+")>> \o Show(e.operand, 7)
      [] e.node = "BinaryOp" ->
            LET b == Binding(e)
                left == IF b = 4 THEN 5 ELSE b
            IN  Show(e.left, left) \o <<OpToken(e.operator)>> \o Show(e.right, b + 1)

Show(e, least) ==
    IF Binding(e) < least THEN <<Sym("(")>> \o Plain(e) \o <<Sym(")")>> ELSE Plain(e)

ShowAlias(a) == IF a = <<>> THEN <<>> ELSE <<Kw("AS"), Id(a[1])>>
ShowTable(t) == <<Id(t.name)>> \o ShowAlias(t.alias)
ShowList(es) == Between([i \in DOMAIN es |-> Show(es[i], 1)], Sym(","))
ShowClause(keywords, es) == IF es = <<>> THEN <<>> ELSE keywords \o ShowList(es)
ShowNumber(keyword, n) == IF n = <<>> THEN <<>> ELSE <<Kw(keyword), IntT(n[1])>>
Names(ns) == Between([i \in DOMAIN ns |-> <<Id(ns[i])>>], Sym(","))

ShowSelect(s) ==
    <<Kw("SELECT")>> \o (IF s.distinct THEN <<Kw("DISTINCT")>> ELSE <<>>)
    \o Between([i \in DOMAIN s.projections |->
                   Show(s.projections[i].expression, 1) \o ShowAlias(s.projections[i].alias)],
               Sym(","))
    \o <<Kw("FROM")>> \o ShowTable(s.tables[1])
    \o Flatten([i \in DOMAIN s.joins |->
                  <<Kw(s.joins[i].kind), Kw("JOIN")>> \o ShowTable(s.tables[i + 1])
                  \o <<Kw("ON")>> \o Show(s.joins[i].on, 1)])
    \o ShowClause(<<Kw("WHERE")>>, s.where)
    \o ShowClause(<<Kw("GROUP"), Kw("BY")>>, s.group_by)
    \o ShowClause(<<Kw("HAVING")>>, s.having)
    \o (IF s.order_by = <<>> THEN <<>>
        ELSE <<Kw("ORDER"), Kw("BY")>>
             \o Between([i \in DOMAIN s.order_by |->
                           Show(s.order_by[i].expression, 1)
                           \o (IF s.order_by[i].descending THEN <<Kw("DESC")>> ELSE <<>>)],
                        Sym(",")))
    \o ShowNumber("LIMIT", s.limit) \o ShowNumber("OFFSET", s.offset)

RECURSIVE ShowStatement(_)
ShowStatement(s) ==
    CASE s.kind = "SELECT" -> ShowSelect(s)
      [] s.kind = "EXPLAIN" ->
            <<Kw("EXPLAIN")>> \o (IF s.analyze THEN <<Kw("ANALYZE")>> ELSE <<>>)
            \o ShowStatement(s.statement)
      [] s.kind = "ANALYZE" -> <<Kw("ANALYZE")>> \o [i \in DOMAIN s.tables |-> Id(s.tables[i])]
      [] s.kind = "INSERT" ->
            <<Kw("INSERT"), Kw("INTO"), Id(s.table)>>
            \o (IF s.columns = <<>> THEN <<>>
                ELSE <<Sym("(")>> \o Names(s.columns[1]) \o <<Sym(")")>>)
            \o <<Kw("VALUES")>>
            \o Between([n \in DOMAIN s.rows |->
                          <<Sym("(")>> \o ShowList(s.rows[n]) \o <<Sym(")")>>], Sym(","))
      [] s.kind = "UPDATE" ->
            <<Kw("UPDATE"), Id(s.table), Kw("SET")>>
            \o Between([i \in DOMAIN s.assignments |->
                          <<Id(s.assignments[i].column), Sym("=")>>
                          \o Show(s.assignments[i].value, 1)], Sym(","))
            \o ShowClause(<<Kw("WHERE")>>, s.where)
      [] s.kind = "DELETE" ->
            <<Kw("DELETE"), Kw("FROM"), Id(s.table)>> \o ShowClause(<<Kw("WHERE")>>, s.where)
      [] s.kind = "CREATE INDEX" ->
            <<Kw("CREATE")>> \o (IF s.unique THEN <<Kw("UNIQUE")>> ELSE <<>>) \o <<Kw("INDEX")>>
            \o (IF s.if_not_exists THEN <<Kw("IF"), Kw("NOT"), Kw("EXISTS")>> ELSE <<>>)
            \o <<Id(s.name), Kw("ON"), Id(s.table), Sym("("), Id(s.column), Sym(")")>>
      [] s.kind = "CREATE TABLE" ->
            LET word(t) == CASE t = "int" -> "INTEGER" [] t = "float" -> "FLOAT"
                             [] t = "bool" -> "BOOLEAN" [] OTHER -> "TEXT"
                given(col, k, ks) == IF k \in col.constraints THEN ks ELSE <<>>
            IN  <<Kw("CREATE"), Kw("TABLE")>>
                \o (IF s.if_not_exists THEN <<Kw("IF"), Kw("NOT"), Kw("EXISTS")>> ELSE <<>>)
                \o <<Id(s.table), Sym("(")>>
                \o Between([i \in DOMAIN s.columns |->
                      <<Id(s.columns[i].name), Kw(word(s.columns[i].type))>>
                      \o given(s.columns[i], "PRIMARY KEY", <<Kw("PRIMARY"), Kw("KEY")>>)
                      \o given(s.columns[i], "NOT NULL", <<Kw("NOT"), Kw("NULL")>>)
                      \o given(s.columns[i], "NULL", <<Kw("NULL")>>)], Sym(","))
                \o <<Sym(")")>>
      [] OTHER -> <<Kw(s.kind)>>

Write(ss) ==
    Between([i \in DOMAIN ss |-> ShowStatement(ss[i])], Sym(";")) \o <<Eof>>
=============================================================================

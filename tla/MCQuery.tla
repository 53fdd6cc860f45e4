------------------------------ MODULE MCQuery ------------------------------
(* The instances of Query: its tables, its scripts and its literals. *)
EXTENDS Query

i0 == IntV(0)
i1 == IntV(1)
i2 == IntV(2)
i3 == IntV(3)
I(n) == Lit(IntV(n))
Half(n) == FloatV(n, 2)
Z == Lit(Null)
Tab(n) == [name |-> n, alias |-> <<>>]
As(n, b) == [name |-> n, alias |-> <<b>>]
Item(e) == [expression |-> e, alias |-> <<>>]
Named_(e, n) == [expression |-> e, alias |-> <<n>>]
On(k, e) == [kind |-> k, on |-> e]
Eq(l, r) == Binary("=", l, r)
And(l, r) == Binary("AND", l, r)
Or(l, r) == Binary("OR", l, r)
Not(e) == Unary("NOT", e)
K(t) == Ref(t, "k")
X(t) == Ref(t, "x")
k == Ref("", "k")
x == Ref("", "x")
n == Ref("", "n")
MCCaseFold == [w \in {"A", "K"} |-> IF w = "A" THEN "a" ELSE "k"]

(***************************************************************************)
(* Tables: a(k, x) indexed on k, b(k, x), c(k, x) indexed on k, f(n), of   *)
(* FLOATs, indexed, and h(k, x), of more values than a list of the most    *)
(* common holds.  Slots hold versions no snapshot sees, and slots emptied  *)
(* since.                                                                  *)
(***************************************************************************)
Row(v, w) == Version(<<v, w>>)
Old(v, w) == [Version(<<v, w>>) EXCEPT !.visible = FALSE]
Gone(v, w) == [Version(<<v, w>>) EXCEPT !.dead = TRUE]
Column(name, type) == [name |-> name, type |-> type, nullable |-> TRUE, key |-> FALSE]
Ints == <<Column("k", "int"), Column("x", "int")>>
Made(name, schema, ix, heap) ==
    [name |-> name, schema |-> schema, system |-> FALSE, heap |-> heap, indexes |-> ix]
Floats == Made("f", <<[Column("n", "float") EXCEPT !.nullable = FALSE]>>, {1},
               <<Version(<<Half(1)>>), Version(<<Half(4)>>), Version(<<Half(20)>>)>>)

Spread == Made("h", Ints, {}, [i \in 1..9 |->
                Row(IntV(<<1, 1, 2, 4, 4, 4, 5, 6, 7>>[i]), IF i < 4 THEN Null ELSE IntV(i % 5))])

Some == [a |-> Made("a", Ints, {1}, <<Row(i1, i1), Row(i2, Null), Row(Null, i1), Old(i1, i3)>>),
         b |-> Made("b", Ints, {}, <<Row(i1, i2), Row(i1, Null), Row(i3, i1)>>),
         c |-> Made("c", Ints, {1}, <<Row(i1, i1), Gone(i1, i2), Row(i3, i2), Row(i2, Null)>>),
         f |-> Floats, h |-> Spread]
Few == [Some EXCEPT !["a"].heap = <<Row(i3, i2)>>, !["b"].heap = <<>>,
                    !["c"].heap = <<Row(i3, i1), Row(i3, i1)>>]
Many == [Some EXCEPT !["a"].heap = <<Row(i1, i1), Row(i1, i2), Row(i3, Null)>>,
                     !["b"].heap = <<Row(i2, i1), Row(Null, Null), Row(i1, i1), Row(i3, i2)>>,
                     !["c"].heap = <<Row(i3, i2), Row(i1, i2), Row(Null, i1), Old(i2, i2)>>]
MCDatabases == {Some, Few, Many}

(***************************************************************************)
(* Statements.                                                             *)
(***************************************************************************)
Sel(tables, joins, where) ==
    [kind |-> "SELECT", tables |-> tables, joins |-> joins, where |-> where,
     group_by |-> <<>>, having |-> <<>>, projections |-> <<Item(Star(""))>>,
     order_by |-> <<>>, limit |-> <<>>, offset |-> <<>>, distinct |-> FALSE]
FromA(where) == Sel(<<Tab("a")>>, <<>>, where)
FromF(where) == Sel(<<Tab("f")>>, <<>>, where)
Kinds == {"INNER", "LEFT", "RIGHT", "FULL"}
AB == <<Tab("a"), Tab("b")>>
ABC == <<Tab("a"), Tab("b"), Tab("c")>>
True == Lit(BoolV(TRUE))

Joins2 ==
    {Sel(AB, <<On(j, o)>>, w) :
        j \in Kinds,
        o \in {Eq(K("a"), K("b")), And(Eq(K("a"), K("b")), Eq(X("a"), I(1))),
               And(Eq(K("b"), K("a")), Eq(X("b"), I(2))), Binary("<", K("a"), K("b")), True},
        w \in {<<>>, <<Eq(X("a"), X("b"))>>, <<IsNullTest(X("b"), FALSE)>>,
               <<Or(Eq(K("a"), I(2)), Eq(K("b"), I(3)))>>,
               <<And(Binary(">", K("a"), I(0)), Eq(X("a"), I(1)))>>}}

Joins3 ==
    {Sel(ABC, <<On(j, i), On(l, o)>>, w) :
        j \in Kinds, l \in Kinds,
        i \in {Eq(K("a"), K("b")), And(Eq(K("b"), K("a")), Eq(X("b"), I(1)))},
        o \in {Eq(K("a"), K("c")), Eq(K("b"), K("c")), And(Eq(K("b"), K("c")), Eq(X("c"), I(2)))},
        w \in {<<>>, <<Eq(X("a"), I(1))>>, <<IsNullTest(X("b"), FALSE)>>,
               <<Or(IsNullTest(K("c"), FALSE), Eq(K("c"), I(3)))>>}}

(* Above MaxTablesToEnumerate: greedy, and in written order. *)
Joins4 ==
    {Sel(ABC \o <<As("a", "d")>>,
         <<On("INNER", Eq(K("a"), K("b"))), On(j, Eq(K("b"), K("c"))),
           On("INNER", Eq(K("d"), K("a")))>>, <<>>) : j \in {"INNER", "LEFT"}}

Wheres ==
    {And(Binary(">", k, I(1)), Binary("<=", k, I(3))),
     And(Binary(">=", k, I(1)), And(Binary(">", k, I(1)), Binary("<", I(0), x))),
     Or(Binary("<", k, I(2)), IsNullTest(k, FALSE)),
     Not(Or(Eq(x, I(1)), Eq(k, I(2)))), Not(InList(k, <<I(1), I(3)>>, FALSE)),
     InList(k, <<I(1), I(2)>>, FALSE), InList(x, <<k, I(1)>>, TRUE), Eq(k, Z),
     And(Eq(k, I(1)), Binary("=", Binary("/", I(1), I(0)), I(1))),
     Eq(Binary("-", Binary("*", k, I(2)), Binary("%", x, I(2))), I(1)),
     Eq(Binary("/", Unary("NEGATE", I(3)), I(2)), Unary("NEGATE", I(1))),
     Binary(">", Binary("*", I(50), k), I(60)), Binary("<", Binary("+", I(100), I(1)), k),
     Eq(k, Ref("", "zz")), Eq(k, True), Binary(">", k, Lit(Half(3))),
     Binary("<", k, ScalarSubquery([FromA(<<>>) EXCEPT
                                      !.projections = <<Item(Aggregate("MAX", k))>>]))}
FloatWheres ==
    {Eq(n, I(2)), Binary(">=", n, I(9)), Binary("<", n, I(9)), Eq(n, I(9)),
     And(Binary(">", n, I(0)), Binary("<=", n, I(2)))}
Singles == {FromA(<<w>>) : w \in Wheres} \cup {FromF(<<w>>) : w \in FloatWheres}

Agg(f, e) == Aggregate(f, e)
Counted == Agg("COUNT", Star(""))
Shaped ==
    LET q == FromA(<<>>)
        two == Sel(<<Tab("b"), Tab("a")>>, <<On("LEFT", Eq(K("a"), K("b")))>>, <<>>)
    IN  {[q EXCEPT !.projections = <<Item(Agg(f, x)), Item(Counted)>>] :
            f \in {"SUM", "MIN", "MAX", "AVG", "COUNT"}}
        \cup {[q EXCEPT !.projections = <<Item(k), Item(Agg("SUM", x)), Item(Counted)>>,
                        !.group_by = <<k>>, !.having = h] :
                h \in {<<>>, <<Binary(">", Counted, I(0))>>, <<Eq(k, I(1))>>}}
        \cup {[two EXCEPT !.projections = <<Named_(Binary("+", X("b"), I(1)), "y"),
                                            Item(Agg("COUNT", K("a")))>>,
                          !.group_by = <<Binary("+", X("b"), I(1))>>]}
        \cup {[two EXCEPT !.projections = <<Item(X("a")), Item(K("b"))>>, !.distinct = d,
                          !.order_by = <<[expression |-> e, descending |-> down],
                                         [expression |-> I(2), descending |-> FALSE]>>,
                          !.limit = l, !.offset = IF l = <<>> THEN <<>> ELSE <<1>>] :
                d \in BOOLEAN, down \in BOOLEAN, e \in {X("a"), x}, l \in {<<>>, <<2>>}}
        \cup {[q EXCEPT !.projections = <<Item(x)>>],
              [q EXCEPT !.projections = <<Item(x), Item(k)>>, !.tables = <<As("A", "t")>>],
              [two EXCEPT !.projections = <<Item(Star("a")), Item(K("b"))>>],
              [q EXCEPT !.projections = <<Item(k), Item(Counted)>>],
              [two EXCEPT !.projections = <<Item(k)>>]}

Update(t, sets, where) ==
    [kind |-> "UPDATE", table |-> t, assignments |-> sets, where |-> where]
Set(c, e) == [column |-> c, value |-> e]
Delete(t, where) == [kind |-> "DELETE", table |-> t, where |-> where]
Insert(t, columns, rows) == [kind |-> "INSERT", table |-> t, columns |-> columns, rows |-> rows]
Explain(s, analyze) == [kind |-> "EXPLAIN", statement |-> s, analyze |-> analyze]
Analyze(ts) == [kind |-> "ANALYZE", tables |-> ts]

Swap == Update("a", <<Set("k", x), Set("x", k)>>, <<>>)
Raise == Update("a", <<Set("k", Binary("+", k, I(1)))>>, <<Binary(">=", k, I(1))>>)
Writes ==
    {Swap, Raise, Delete("a", <<Binary("<", k, I(2))>>), Delete("b", <<>>),
     Insert("a", <<<<"x">>>>, <<<<I(3)>>, <<Z>>>>), Insert("f", <<>>, <<<<I(9)>>>>),
     Update("a", <<Set("x", Binary("+", x, I(99)))>>, <<>>), Insert("f", <<>>, <<<<Z>>>>), Insert("a", <<>>, <<<<I(1)>>>>),
     Update("c", <<Set("x", Binary("/", I(2), Binary("-", k, I(1))))>>, <<>>),
     Update("f", <<Set("n", Binary("*", n, I(2)))>>, <<Binary(">", n, I(1))>>)}

Bad_ == FromA(<<Eq(Ref("", "zz"), I(1))>>)
LongScripts ==
    {<<w, FromA(<<Binary(">", k, I(1))>>)>> : w \in {Swap, Raise, Delete("a", <<Eq(k, I(1))>>)}}
    \cup {<<Insert("a", <<>>, <<<<I(2), I(3)>>>>), Analyze(<<"a">>), Bad_>>,
          <<Swap, Analyze(<<>>), Update("a", <<Set("x", Binary("+", x, I(99)))>>, <<>>)>>,
          <<Explain(Raise, FALSE), Explain(Raise, TRUE), Raise>>,
          <<Explain(Bad_, FALSE)>>, <<Analyze(<<"zz">>)>>,
          <<Analyze(<<>>), Insert("b", <<>>, <<<<I(1), I(1)>>, <<I(2), I(1)>>>>), Analyze(<<"b">>)>>}

(* Statements that are only parsed. *)
Definitions ==
    {<<[kind |-> "CREATE TABLE", table |-> "t", if_not_exists |-> FALSE,
        columns |-> <<[name |-> "k", type |-> "int", constraints |-> {"PRIMARY KEY", "NOT NULL"}],
                      [name |-> "x", type |-> "text", constraints |-> {"NULL"}]>>]>>,
     <<[kind |-> "CREATE INDEX", name |-> "ix", table |-> "t", column |-> "k",
        unique |-> TRUE, if_not_exists |-> TRUE], [kind |-> "BEGIN"], [kind |-> "COMMIT"]>>}

Intended(ss) == [text |-> Write(ss), intended |-> <<ss>>]

(* The tokens of any short WHERE, most of them no expression at all. *)
Alphabet == {Id("k"), IntT(1), Sym("="), Sym("-"), Sym("("), Sym(")"), Kw("NOT"), Kw("NULL"),
             Kw("IS"), Kw("AND"), Kw("OR"), Kw("IN"), Sym(",")}
Prefix == <<Kw("SELECT"), Id("x"), Kw("FROM"), Id("a"), Kw("WHERE")>>
Clauses == {Id("k"), IntT(1), Sym(","), Kw("WHERE"), Kw("GROUP"), Kw("ORDER"), Kw("BY"),
            Kw("LIMIT"), Kw("JOIN"), Kw("LEFT"), Kw("DESC"), Id("b"), Sym(";")}
Garbled == {[text |-> Prefix \o g \o <<Eof>>, intended |-> <<>>] :
              g \in UNION {[1..m -> Alphabet] : m \in 1..3}}
           \cup {[text |-> SubSeq(Prefix, 1, 4) \o g \o <<Eof>>, intended |-> <<>>] :
              g \in UNION {[1..m -> Clauses] : m \in 1..3}}

MCSources ==
    {Intended(<<s>>) : s \in Joins2 \cup Joins3 \cup Joins4 \cup Singles \cup Shaped \cup Writes}
    \cup {Intended(ss) : ss \in LongScripts \cup Definitions}
    \cup Garbled

(***************************************************************************)
(* Sources whose answers are wrong, one kind each; MCSources has none.     *)
(***************************************************************************)
Only(S) == {Intended(<<s>>) : s \in S}

(* A list item after a NULL. *)
MCInNull == Only({FromA(<<InList(k, <<Z, I(2)>>, FALSE)>>)})

(* A conjunct of WHERE over the tables of an inner join that is inside an  *)
(* outer one, and the condition of an inner join that reads no table.      *)
MCOuterJoin ==
    Only({Sel(ABC, <<On("INNER", Eq(K("a"), K("b"))), On("RIGHT", Eq(K("a"), K("c")))>>,
              <<Or(Eq(X("a"), X("b")), IsNullTest(X("a"), FALSE))>>),
          Sel(ABC, <<On("INNER", Eq(I(1), I(2))), On("RIGHT", Eq(K("a"), K("c")))>>, <<>>)})

(* The columns of one table of two. *)
MCProjection ==
    Only({[Sel(AB, <<On("INNER", Eq(K("a"), K("b")))>>, <<>>) EXCEPT
             !.projections = <<Item(Star("a"))>>]})

(* A list over a group's key. *)
MCHavingIn ==
    Only({[FromA(<<>>) EXCEPT !.projections = <<Item(x), Item(Counted)>>, !.group_by = <<x>>,
             !.having = <<InList(x, <<I(1)>>, FALSE)>>]})

MCAnalyzed == {Intended(<<Analyze(<<>>)>>)}

MCProbes == {i0, i1, i2, i3, IntV(4), IntV(6), IntV(8), Half(1), Half(3), Half(4), Half(20)}
=============================================================================

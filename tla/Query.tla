------------------------------- MODULE Query -------------------------------
(***************************************************************************)
(* A script from its text to its answers: engine.parser.parse,             *)
(* engine.parser.analyze.analyze_sql and execute_script, which parses the  *)
(* whole script, runs its statements in one implicit transaction and rolls *)
(* back when one of them raises.                                           *)
(*                                                                         *)
(* The tables are those of one session's snapshot.  A source is a script's *)
(* tokens and, where the script was written from statements, those         *)
(* statements.  Which plan a statement runs under is a choice: the         *)
(* statistics the costs come from may be stale.                            *)
(***************************************************************************)
EXTENDS Reference, Printer, Statistics

CONSTANTS
    Sources,    \* the scripts: [text, intended]
    Databases,  \* the catalogs to start from
    Probes      \* the literals the estimates are tried on

VARIABLES
    source,     \* the script as given
    script,     \* the statements parsed and not yet run
    db,         \* the tables
    saved,      \* the tables at the begin of the implicit transaction
    stats,      \* StatisticsCatalog._cache
    answer,     \* the last statement with its result, and the tables around it
    status,     \* text, checked, rejected, running, failed, done
    lived       \* the versions of the tables since the last rollback

vars == <<source, script, db, saved, stats, answer, status, lived>>

NoAnswer == [kind |-> "none"]
NoStatistics == [t \in {} |-> {}]
Versions(catalog) == {<<t, catalog[t]>> : t \in DOMAIN catalog}

Init ==
    /\ source \in Sources
    /\ db \in Databases
    /\ script = <<>>
    /\ saved = db
    /\ stats = NoStatistics
    /\ answer = NoAnswer
    /\ status = "text"
    /\ lived = Versions(db)

(* analyze_sql: parse and report, run nothing. *)
analyze_sql ==
    /\ status = "text"
    /\ \E r \in {parse_script(source.text)} :
           IF r.ok THEN status' = "checked" /\ script' = r.node
           ELSE status' = "rejected" /\ UNCHANGED script
    /\ UNCHANGED <<source, db, saved, stats, answer, lived>>

Runnable(ss) ==
    \A i \in DOMAIN ss : ss[i].kind \in {"SELECT", "INSERT", "UPDATE", "DELETE",
                                         "EXPLAIN", "ANALYZE"}

(* execute_script up to its begin: a script that does not parse runs none  *)
(* of its statements.                                                      *)
execute_script ==
    /\ status = "text"
    /\ \E r \in {parse_script(source.text)} :
           /\ r.ok /\ Runnable(r.node)
           /\ script' = r.node
           /\ status' = "running"
           /\ saved' = db
    /\ UNCHANGED <<source, db, stats, answer, lived>>

(* The tables a statement is planned over have statistics from then on. *)
RECURSIVE Planned(_)
Planned(s) ==
    CASE s.kind = "SELECT" ->
            {casefold(s.tables[i].name) : i \in DOMAIN s.tables}
            \cup UNION {Planned(n.statement) :
                    n \in {m \in AllNodes(ExpressionsOf(s)) : m.node = "ScalarSubquery"}}
      [] s.kind \in {"UPDATE", "DELETE"} -> {casefold(s.table)}
      [] OTHER -> {}

Gathered(tables) ==
    [t \in DOMAIN stats \cup tables |-> for_table(t, stats, db)]

(* Mutant: the statistics are not forgotten. *)
rollback_keeps_statistics ==
    /\ db' = saved
    /\ stats' = stats
    /\ status' = "failed"
    /\ lived' = Versions(saved)

(* Database.rollback: the tables as they were, and statistics forgotten. *)
rollback ==
    /\ db' = saved
    /\ stats' = NoStatistics
    /\ status' = "failed"
    /\ lived' = Versions(saved)

RunStatement ==
    /\ status = "running" /\ script # <<>> /\ Head(script).kind # "ANALYZE"
    /\ LET s == Head(script)
       IN  \E r \in execute_statement(s, db) :
            /\ answer' = [kind |-> r.kind, rows |-> r.rows, statement |-> s,
                          before |-> db, after |-> r.catalog]
            /\ IF r.kind \in {"refused", "raised"} THEN rollback
               ELSE /\ db' = r.catalog
                    /\ stats' = Gathered(Planned(Subject(s)))
                    /\ lived' = lived \cup Versions(db')
                    /\ UNCHANGED status
    /\ script' = Tail(script)
    /\ UNCHANGED <<source, saved>>

(* ANALYZE of one table, or of all. *)
execute_analyze ==
    /\ status = "running" /\ script # <<>> /\ Head(script).kind = "ANALYZE"
    /\ LET s == Head(script)
           named == {casefold(s.tables[i]) : i \in DOMAIN s.tables}
           known == named \subseteq DOMAIN db
       IN  /\ answer' = [kind |-> IF known THEN "analyzed" ELSE "refused", rows |-> <<>>,
                         statement |-> s, before |-> db, after |-> db]
           /\ IF ~known THEN rollback
              ELSE /\ stats' = IF named = {} THEN gather_all(stats, db)
                                ELSE [t \in DOMAIN stats \cup named |->
                                        IF t \in named THEN gather(db[t]) ELSE stats[t]]
                   /\ UNCHANGED <<db, status, lived>>
    /\ script' = Tail(script)
    /\ UNCHANGED <<source, saved>>

commit ==
    /\ status = "running" /\ script = <<>>
    /\ status' = "done"
    /\ saved' = db
    /\ UNCHANGED <<source, script, db, stats, answer, lived>>

Next == analyze_sql \/ execute_script \/ RunStatement \/ execute_analyze \/ commit

Spec == Init /\ [][Next]_vars
-----------------------------------------------------------------------------
TypeOK ==
    /\ status \in {"text", "checked", "rejected", "running", "failed", "done"}
    /\ DOMAIN db = DOMAIN saved
    /\ \A t \in DOMAIN db : \A i \in DOMAIN db[t].heap :
          LET row == db[t].heap[i].row
              schema == db[t].schema
          IN  /\ DOMAIN row = DOMAIN schema
              /\ \A c \in DOMAIN row : row[c][1] = schema[c].type
                                         \/ (row[c] = Null /\ schema[c].nullable)
    /\ DOMAIN stats \subseteq DOMAIN db

(* What is written from statements is read back as those statements, and   *)
(* what can be read at all is read the same way again after it is written. *)
ParseInvertsPrint ==
    /\ status \in {"checked", "rejected"} /\ source.intended # <<>> =>
          status = "checked" /\ script = source.intended[1]
    /\ status = "checked" =>
          With(parse_script(Write(script)),
               LAMBDA again : again.ok /\ again.node = script)

(* Whatever plan is chosen, a SELECT answers the rows SQL says it has, in  *)
(* the order asked for, and one that names what is not there is refused.   *)
AnswerIsRight ==
    (answer # NoAnswer /\ answer.statement.kind = "SELECT") =>
        LET s == answer.statement
        IN  IF ~Named(s, answer.before) THEN answer.kind = "refused"
            ELSE InScope(s, answer.before) => Expected(s, answer.before, answer)

(* A write changes the rows its WHERE keeps, each once, whichever index    *)
(* located them, and what it stores is of its column's type; an EXPLAIN    *)
(* changes nothing unless it is an EXPLAIN ANALYZE, which does what its    *)
(* statement does.                                                         *)
WritesAreExact ==
  /\ TypeOK
  /\ answer # NoAnswer =>
        LET s == answer.statement
            writes == Subject(s).kind \in {"INSERT", "UPDATE", "DELETE"}
            acts == s.kind # "EXPLAIN" \/ s.analyze
        IN  IF writes /\ acts THEN Wrote(Subject(s), answer.before, answer, answer.after)
            ELSE answer.after = answer.before

(* A script that fails leaves the tables as they were when it began, and   *)
(* no statistics outlive the rows they were counted from: each describes a *)
(* version of its table that was not rolled back.                          *)
FailuresLeaveNothing ==
    /\ status \in {"rejected", "checked", "failed"} => db = saved
    /\ \A t \in DOMAIN stats : \E w \in lived : w[1] = t /\ gather(w[2]) = stats[t]
-----------------------------------------------------------------------------
(***************************************************************************)
(* The estimates, right after an ANALYZE.                                  *)
(***************************************************************************)
Share(t, c, op, v) ==
    LET heap == db[t].heap
        stored == {i \in DOMAIN heap : ~heap[i].dead}
        hit(i) == LET w == heap[i].row[c] IN w # Null /\ Compared(op, w, v) = BoolV(TRUE)
    IN  Frac(Cardinality({i \in stored : hit(i)}), stats[t].row_count)

Estimated(t, c, op, v) ==
    estimate_selectivity(Binary(op, Col(c, db[t].schema[c].type, 1), Lit(v)), 0, stats[t])

Present(t, c, v) == \E i \in DOMAIN db[t].heap :
                        ~db[t].heap[i].dead /\ db[t].heap[i].row[c] = v

Fresh == answer # NoAnswer /\ answer.kind = "analyzed"

(* Over a column whose values are all listed, a comparison with one of     *)
(* them, and a bound that excludes it, come out exact, but never below one *)
(* row; so does an equijoin of two such columns.                           *)
ListedIsExact ==
    Fresh => \A t \in DOMAIN stats : \A c \in DOMAIN stats[t].columns :
        LET info == stats[t].columns[c]
            rows == stats[t].row_count
        IN  covers_every_value(info) =>
            /\ \A v \in Probes, op \in Comparisons :
                  (v[1] = info.type /\ (op \in {"<", ">="} \/ Present(t, c, v))) =>
                      Estimated(t, c, op, v) = clamp(Larger(Share(t, c, op, v), one_row(rows)))
            /\ \A u \in DOMAIN stats :
                  LET far == stats[u].columns[1]
                      met == {p \in (DOMAIN db[t].heap) \X (DOMAIN db[u].heap) :
                                /\ ~db[t].heap[p[1]].dead /\ ~db[u].heap[p[2]].dead
                                /\ db[t].heap[p[1]].row[c] # Null
                                /\ db[t].heap[p[1]].row[c] = db[u].heap[p[2]].row[1]}
                  IN  (covers_every_value(far) /\ info.type = far.type) =>
                        mcv_join_selectivity(info, far, rows, stats[u].row_count)
                            = <<clamp(Frac(Cardinality(met), rows * stats[u].row_count))>>

(* A histogram's bounds increase, no bucket holds a bucket's share of rows *)
(* strictly inside it, and the share below a value grows with the value    *)
(* and never exceeds the rows that are not NULL.                           *)
HistogramsAreEven ==
    Fresh => \A t \in DOMAIN stats : \A c \in DOMAIN stats[t].columns :
        LET info == stats[t].columns[c]
            rows == stats[t].row_count
            b == info.histogram
            heap == db[t].heap
            rest == {i \in DOMAIN heap : /\ ~heap[i].dead /\ heap[i].row[c] # Null
                                         /\ Listed(info, heap[i].row[c]) = {}}
            inside(n) == {i \in rest : /\ LessValue(b[n], heap[i].row[c])
                                       /\ LessValue(heap[i].row[c], b[n + 1])}
            values == {v \in Probes : v[1] = info.type}
            below(v) == below_fraction(info, v, rows, FALSE)
        IN  /\ \A n \in 1..Len(b) - 1 :
                  /\ LessValue(b[n], b[n + 1])
                  /\ Cardinality(inside(n)) * StatisticsTarget < Cardinality(rest)
            /\ info.most_common # <<>> =>
                  \A v, w \in values :
                    /\ LessValue(v, w) => ~NumberLess(below(w), below(v))
                    /\ ~NumberLess(below(v), Zero)
                    /\ ~NumberLess(Minus(One, null_fraction(info, rows)), below(v))

(* Statistics describe the table they were gathered from: estimates over a *)
(* column with every value listed are exact, and histograms are even and   *)
(* monotone.                                                               *)
EstimatesAreExact == ListedIsExact /\ HistogramsAreEven

(* What statistics.py says of a column with every value listed: equality,  *)
(* inequality and range predicates come out exact, but for the row they    *)
(* never fall below.                                                       *)
EveryBoundIsExact ==
    Fresh => \A t \in DOMAIN stats : \A c \in DOMAIN stats[t].columns :
        covers_every_value(stats[t].columns[c]) =>
            \A v \in {w \in Probes : w[1] = stats[t].columns[c].type}, op \in Comparisons :
                Estimated(t, c, op, v)
                    = clamp(Larger(Share(t, c, op, v), one_row(stats[t].row_count)))
=============================================================================

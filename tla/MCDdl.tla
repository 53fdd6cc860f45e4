------------------------------- MODULE MCDdl -------------------------------
(* Instances of Ddl for TLC.                                               *)
EXTENDS Ddl

\* Two spellings of one table, another table, and their keys' indexes.
TwoTables == {"t", "T", "u", "t_pkey", "u_pkey", "chendb_x"}
Fold == [n \in TwoTables |-> IF n = "T" THEN "t" ELSE n]
\* The key of T is T_pkey, which folds to t_pkey.
KeyNames == ("t" :> "t_pkey") @@ ("T" :> "t_pkey") @@ ("u" :> "u_pkey")

KeyOrTwoColumns == {[columns |-> 1, key |-> TRUE], [columns |-> 2, key |-> FALSE]}

\* Three plain tables of two columns, which fill a page of chendb_columns each.
ThreeTables == {"t", "u", "v", "chendb_x"}
AsWritten == [n \in ThreeTables |-> n]
NoKeys == [n \in {"t", "u", "v"} |-> n]
TwoColumns == {[columns |-> 2, key |-> FALSE]}
=============================================================================

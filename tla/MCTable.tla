------------------------------ MODULE MCTable ------------------------------
(* Instances of Table for TLC.                                             *)
EXTENDS Table

\* Keys of two widths: the tag, and one byte or two.
TwoWidths == [v \in Values |-> IF v % 2 = 0 THEN 2 ELSE 3]

\* One value as wide as a page allows.
OneWide == [v \in Values |-> IF v = 2 THEN 8 ELSE 2]

\* A short row and a long one, and one with a NULL key.
ShortAndLong == {<<3, 3>>, <<2, 6>>, <<NULL_KEY, 3>>}

\* Nothing; two rows on one page; and six rows, whose tree has three levels
\* and a run of NULLs that straddles two leaves.
EmptyToDeep ==
    LET deep == <<<<1, 6>>, <<4, 3>>, <<NULL_KEY, 3>>, <<2, 3>>, <<NULL_KEY, 3>>, <<0, 6>>>>
    IN  {[rows |-> <<>>, more |-> 3], [rows |-> <<<<1, 3>>, <<4, 3>>>>, more |-> 3],
         [rows |-> deep, more |-> 2]}
=============================================================================

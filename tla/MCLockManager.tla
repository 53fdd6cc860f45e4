--------------------------- MODULE MCLockManager ---------------------------
(* Instances of LockManager for TLC; the .cfg files give the sizes.        *)
EXTENDS LockManager, TLC

\* Rows are interchangeable: no definition tells one from another.
RowSymmetry == Permutations(Resources)
=============================================================================

------------------------------- MODULE MCMvcc -------------------------------
(* Instances of Mvcc for TLC; the .cfg files give the sizes.               *)
EXTENDS Mvcc, TLC

BothLevels == {"read committed", "repeatable read"}
=============================================================================

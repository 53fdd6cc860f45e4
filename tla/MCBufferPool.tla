---------------------------- MODULE MCBufferPool ----------------------------
(* Instances of BufferPool for TLC; the .cfg file gives the sizes.         *)
EXTENDS BufferPool, TLC

\* Pages are interchangeable.
PoolSymmetry == Permutations(Pages)
=============================================================================

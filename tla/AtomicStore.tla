---------------------------- MODULE AtomicStore ----------------------------
(***************************************************************************)
(* What the storage engine promises a single session: pages of rows with   *)
(* one transaction at a time, whose work becomes part of the stable state  *)
(* as a whole or not at all. A crash leaves the stable state, except that  *)
(* a commit the crash interrupts may turn out either way.                  *)
(***************************************************************************)
CONSTANTS Pages, Rows

VARIABLES
    view,       \* what a read returns
    stable,     \* what a crash leaves
    written     \* the rows written so far, the ones gone since included

avars == <<view, stable, written>>

Init == view = [p \in Pages |-> {}] /\ stable = view /\ written = {}

(* A row is written once: none comes back by itself. *)
Write ==
    \E p \in Pages, row \in Rows \ written :
        /\ view' = [view EXCEPT ![p] = @ \union {row}]
        /\ written' = written \union {row}
        /\ UNCHANGED stable

Commit == stable' = view /\ UNCHANGED <<view, written>>

Abort == view' = stable /\ UNCHANGED <<stable, written>>

Crash == stable' \in {stable, view} /\ view' = stable' /\ UNCHANGED written

Next == Write \/ Commit \/ Abort \/ Crash

Spec == Init /\ [][Next]_avars
=============================================================================

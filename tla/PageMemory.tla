---------------------------- MODULE PageMemory ----------------------------
(***************************************************************************)
(* What the buffer pool promises the pager: pages that hold what was last  *)
(* stored, over a file that holds what was last written back. Which pages  *)
(* are cached, and when a page is written back early, is not observable.   *)
(***************************************************************************)
CONSTANTS Pages, Data

VARIABLES
    current,    \* what a fetch returns
    durable     \* what the file holds

pvars == <<current, durable>>

Init == current \in [Pages -> Data] /\ durable = current

Store == \E p \in Pages, d \in Data :
            /\ current' = [current EXCEPT ![p] = d]
            /\ durable' \in {[durable EXCEPT ![q] = current[q]] : q \in Pages} \union {durable}

WriteBack == UNCHANGED current /\ durable' = current

WriteBackOne ==
    UNCHANGED current /\ \E p \in Pages : durable' = [durable EXCEPT ![p] = current[p]]

\* The pager gives up a page it is about to overwrite.
Drop == UNCHANGED durable /\ \E p \in Pages : current' = [current EXCEPT ![p] = durable[p]]

\* A simulated crash.
Discard == UNCHANGED durable /\ current' = durable

Next == Store \/ WriteBack \/ WriteBackOne \/ Drop \/ Discard

Spec == Init /\ [][Next]_pvars
=============================================================================

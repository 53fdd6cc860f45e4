---------------------------- MODULE BufferPool ----------------------------
(***************************************************************************)
(* The buffer pool of engine/storage/buffer.py: a fixed set of frames, a   *)
(* stack of free ones, and the page table in least-recently-used order.    *)
(* The pool belongs to one thread, so every method is one action.          *)
(***************************************************************************)
EXTENDS Integers, Sequences, FiniteSets, SequencesExt

CONSTANTS
    Pages,      \* page ids
    Data,       \* page images
    Capacity    \* frames

NoPage == "none"

ASSUME PoolAssumption ==
    /\ Capacity \in Nat /\ Capacity >= 2        \* MIN_POOL_FRAMES
    /\ Data # {}
    /\ NoPage \notin Pages

VARIABLES
    frames,     \* frames[i]: the page, its image and its dirty flag
    free,       \* the stack of free frames, top last
    resident,   \* page table: <<page, frame>> pairs, least recently used first
    file,       \* the pages in the data file
    touched     \* history: pages in order of last use, most recent last

vars == <<frames, free, resident, file, touched>>

FrameIds == 1 .. Capacity
AnyData == CHOOSE d \in Data : TRUE
Entries == Pages \X FrameIds
EmptyFrame == [page |-> NoPage, data |-> AnyData, dirty |-> FALSE]

TypeOK ==
    /\ frames \in [FrameIds -> [page : Pages \union {NoPage}, data : Data, dirty : BOOLEAN]]
    /\ free \in Seq(FrameIds)
    /\ resident \in Seq(Entries)
    /\ file \in [Pages -> Data]
    /\ touched \in Seq(Pages)

AllFree == [i \in FrameIds |-> Capacity + 1 - i]

Init ==
    /\ frames = [i \in FrameIds |-> EmptyFrame]
    /\ free = AllFree
    /\ resident = <<>>
    /\ file \in [Pages -> Data]
    /\ touched = <<>>

---------------------------------------------------------------------------
(* The page table.                                                         *)

contains(p) == \E k \in DOMAIN resident : resident[k][1] = p
Position(p) == CHOOSE k \in DOMAIN resident : resident[k][1] = p
FrameOf(p) == resident[Position(p)][2]
Without(p) == RemoveAt(resident, Position(p))
DirtyFrames == {i \in FrameIds : frames[i].dirty}

\* Mutant: a hit leaves the page where it is in the order.
KeepPlace(p) == resident

move_to_end(p) == Append(Without(p), <<p, FrameOf(p)>>)

Touch(p) == touched' = Append(RemoveFirst(touched, p), p)

\* Mutant: the victim's image is dropped, dirty or not.
evicted_unwritten(i) == file

\* The file once the frame i has been evicted.
evicted(i) ==
    IF frames[i].dirty THEN [file EXCEPT ![frames[i].page] = frames[i].data] ELSE file

\* _admit: a free frame, or the one of the least recently used page.
admit(p, d, dirty) ==
    LET i == IF free # <<>> THEN Last(free) ELSE Head(resident)[2]
    IN  /\ frames' = [frames EXCEPT ![i] = [page |-> p, data |-> d, dirty |-> dirty]]
        /\ IF free # <<>>
           THEN /\ free' = Front(free)
                /\ resident' = Append(resident, <<p, i>>)
                /\ UNCHANGED file
           ELSE /\ resident' = Append(Tail(resident), <<p, i>>)
                /\ file' = evicted(i)
                /\ UNCHANGED free

---------------------------------------------------------------------------
(* The operations.                                                         *)

fetch(p) ==
    /\ IF contains(p)
       THEN resident' = move_to_end(p) /\ UNCHANGED <<frames, free, file>>
       ELSE admit(p, file[p], FALSE)
    /\ Touch(p)

store(p, d) ==
    /\ IF contains(p)
       THEN /\ frames' = [frames EXCEPT ![FrameOf(p)] =
                            [page |-> p, data |-> d, dirty |-> TRUE]]
            /\ resident' = move_to_end(p)
            /\ UNCHANGED <<free, file>>
       ELSE admit(p, d, TRUE)
    /\ Touch(p)

\* Mutant: the frame is forgotten and not given back.
invalidate_leaks(p) ==
    /\ contains(p)
    /\ frames' = [frames EXCEPT ![FrameOf(p)].page = NoPage, ![FrameOf(p)].dirty = FALSE]
    /\ resident' = Without(p)
    /\ touched' = RemoveFirst(touched, p)
    /\ UNCHANGED <<free, file>>

\* Forget a page without writing it back.
invalidate(p) ==
    /\ contains(p)
    /\ frames' = [frames EXCEPT ![FrameOf(p)].page = NoPage, ![FrameOf(p)].dirty = FALSE]
    /\ free' = Append(free, FrameOf(p))
    /\ resident' = Without(p)
    /\ touched' = RemoveFirst(touched, p)
    /\ UNCHANGED file

Flushed == [p \in Pages |->
              IF contains(p) /\ frames[FrameOf(p)].dirty THEN frames[FrameOf(p)].data ELSE file[p]]

flush ==
    /\ file' = Flushed
    /\ frames' = [i \in FrameIds |-> [frames[i] EXCEPT !.dirty = FALSE]]
    /\ UNCHANGED <<free, resident, touched>>

\* Drop everything; a simulated crash asks for no flush.
clear(flushing) ==
    /\ file' = IF flushing THEN Flushed ELSE file
    /\ frames' = [i \in FrameIds |-> [frames[i] EXCEPT !.page = NoPage, !.dirty = FALSE]]
    /\ free' = AllFree
    /\ resident' = <<>>
    /\ touched' = <<>>

Next ==
    \/ \E p \in Pages : fetch(p) \/ invalidate(p) \/ \E d \in Data : store(p, d)
    \/ flush
    \/ \E flushing \in BOOLEAN : clear(flushing)

Spec == Init /\ [][Next]_vars

---------------------------------------------------------------------------
(* Correctness.                                                            *)

\* No frame is lost or used twice: the free frames and those in the page table
\* are all the frames, each once, and a frame in the table holds that page.
FramesAccounted ==
    /\ TypeOK
    /\ \A e \in ToSet(resident) : frames[e[2]].page = e[1]
    /\ Len(free) + Len(resident) = Capacity
    /\ ToSet(free) \union {e[2] : e \in ToSet(resident)} = FrameIds
    /\ \A i \in ToSet(free) : frames[i].page = NoPage /\ ~frames[i].dirty

\* Exact LRU: the pages in the pool are the most recently used ones, so a page
\* is evicted only when Capacity others have been used since.
MostRecentResident ==
    /\ Len(resident) <= Len(touched)
    /\ \A k \in 1 .. Len(resident) :
          resident[k][1] = touched[Len(touched) - Len(resident) + k]

\* Whatever is evicted, and in whatever order, a fetch returns what was last
\* stored: the pool implements a plain memory over the file.
Current == [p \in Pages |-> IF contains(p) THEN frames[FrameOf(p)].data ELSE file[p]]
Memory == INSTANCE PageMemory WITH current <- Current, durable <- file
ReadsLastStore == Memory!Spec
=============================================================================

---------------------------- MODULE SlottedPage ----------------------------
(***************************************************************************)
(* The slotted page of storage/page.py: a directory of slots that grows up *)
(* from the header, payloads that grow down from the end of the page.      *)
(*                                                                         *)
(* The bytes of a payload are abstracted to the value they encode, kept in *)
(* the slot that points at them; where they lie, [off, off + len), is kept *)
(* as the code keeps it, so that two payloads can be seen to overlap.      *)
(***************************************************************************)
EXTENDS Integers, Sequences, FiniteSets, FiniteSetsExt, SequencesExt

CONSTANTS
    PageSize,   \* bytes of a page
    HeaderSize, \* PAGE_HEADER_SIZE
    SlotSize    \* SLOT_SIZE

ASSUME PageSizeAssumption ==
    /\ PageSize \in Nat /\ HeaderSize \in Nat \ {0} /\ SlotSize \in Nat \ {0}
    /\ HeaderSize + SlotSize < PageSize

INVALID_PAGE_ID == -1   \* no next page
NoPayload == [none |-> TRUE]

\* _DEAD_OFFSET and _DEAD_LENGTH: offset 0 is the header's, never a payload's.
Dead == [off |-> 0, len |-> 0, rec |-> NoPayload]
SlotOf(o, n, r) == [off |-> o, len |-> n, rec |-> r]
is_live(slot) == slot.off # 0

\* A page is [type, slots, free_start, free_end, next]; slot ids count from 0,
\* the sequence from 1.
create(type) ==
    [type |-> type, slots |-> <<>>, free_start |-> HeaderSize,
     free_end |-> PageSize, next |-> INVALID_PAGE_ID]

slot_count(p) == Len(p.slots)
SlotIds(p) == 0 .. slot_count(p) - 1
read_slot(p, i) == p.slots[i + 1]
max_payload_size == PageSize - HeaderSize - SlotSize
free_space(p) == p.free_end - p.free_start

LiveIds(p) == {i \in SlotIds(p) : is_live(read_slot(p, i))}
LiveBytes(p) == MapThenSumSet(LAMBDA i : read_slot(p, i).len, LiveIds(p))
live_record_count(p) == Cardinality(LiveIds(p))

\* The dead slots after the last live one.
TrailingDead(p) == slot_count(p) - 1 - Max({-1} \union LiveIds(p))
reclaimable_space(p) ==
    (PageSize - p.free_end - LiveBytes(p)) + TrailingDead(p) * SlotSize

\* The slot a new payload takes: the first tombstone, if there is one.
find_dead_slot(p) ==
    LET dead == SlotIds(p) \ LiveIds(p) IN
    IF dead = {} THEN -1 ELSE Min(dead)

space_needed_for(p, n) == IF find_dead_slot(p) # -1 THEN n ELSE n + SlotSize
would_fit(p, n) == space_needed_for(p, n) <= free_space(p)
would_fit_after_compaction(p, n) ==
    space_needed_for(p, n) <= free_space(p) + reclaimable_space(p)

\* Mutant: the directory grows and nobody moves its end.
insert_unaccounted(p, n, r) ==
    LET end == p.free_end - n IN
    IF n > free_space(p)
    THEN [fits |-> FALSE, page |-> p, slot |-> -1]
    ELSE [fits |-> TRUE, slot |-> slot_count(p),
          page |-> [p EXCEPT !.slots = Append(@, SlotOf(end, n, r)),
                             !.free_end = end]]

\* Page.insert: [fits, page, slot].  Never compacts.
insert(p, n, r) ==
    LET reuse == find_dead_slot(p)
        needed == IF reuse # -1 THEN n ELSE n + SlotSize
        end == p.free_end - n
        slot == SlotOf(end, n, r)
    IN  IF needed > free_space(p)
        THEN [fits |-> FALSE, page |-> p, slot |-> -1]
        ELSE IF reuse # -1
        THEN [fits |-> TRUE, slot |-> reuse,
              page |-> [p EXCEPT !.slots[reuse + 1] = slot, !.free_end = end]]
        ELSE [fits |-> TRUE, slot |-> slot_count(p),
              page |-> [p EXCEPT !.slots = Append(@, slot), !.free_end = end,
                                 !.free_start = @ + SlotSize]]

\* Page.insert_at: takes slot i and renumbers the ones after it.
insert_at(p, i, n, r) ==
    IF n + SlotSize > free_space(p)
    THEN [fits |-> FALSE, page |-> p]
    ELSE [fits |-> TRUE,
          page |-> [p EXCEPT
              !.slots = InsertAt(@, i + 1, SlotOf(p.free_end - n, n, r)),
              !.free_end = @ - n, !.free_start = @ + SlotSize]]

\* Page.delete_at: the slot goes, the payload's bytes stay until compact.
delete_at(p, i) ==
    [p EXCEPT !.slots = RemoveAt(@, i + 1), !.free_start = @ - SlotSize]

clear_records(p) ==
    [p EXCEPT !.slots = <<>>, !.free_start = HeaderSize, !.free_end = PageSize]

read(p, i) ==
    IF i \in SlotIds(p) /\ is_live(read_slot(p, i)) THEN read_slot(p, i).rec
    ELSE NoPayload

\* Page.overwrite: in place.  A change of length raises, which `ok` does not
\* tell from a dead slot; no caller asks for one.
overwrite(p, i, n, r) ==
    IF i \in SlotIds(p) /\ read_slot(p, i).len # 0 /\ read_slot(p, i).len = n
    THEN [ok |-> TRUE, page |-> [p EXCEPT !.slots[i + 1].rec = r]]
    ELSE [ok |-> FALSE, page |-> p]

\* Page.delete: a tombstone.  The bytes stay where they are.
delete(p, i) ==
    IF i \in LiveIds(p)
    THEN [ok |-> TRUE, page |-> [p EXCEPT !.slots[i + 1] = Dead]]
    ELSE [ok |-> FALSE, page |-> p]

iter_records(p) == {<<i, read_slot(p, i).rec>> : i \in LiveIds(p)}

\* _trim_trailing_dead_slots: only the tail of the directory may go.
trim_trailing_dead_slots(p) ==
    LET keep == slot_count(p) - TrailingDead(p) IN
    [p EXCEPT !.slots = SubSeq(@, 1, keep),
              !.free_start = HeaderSize + keep * SlotSize]

\* Page.compact: the live payloads slide to the end of the page in slot order;
\* a slot keeps its id and changes its offset.
compact(p) ==
    LET n == slot_count(p)
        cursor[i \in 0 .. n] ==     \* where the payload of slot i - 1 begins
            IF i = 0 THEN PageSize ELSE cursor[i - 1] - p.slots[i].len
    IN  trim_trailing_dead_slots(
            [p EXCEPT
                !.slots = [i \in 1 .. n |->
                              IF is_live(p.slots[i])
                              THEN [p.slots[i] EXCEPT !.off = cursor[i]]
                              ELSE Dead],
                !.free_end = cursor[n]])

\* Page.validate_header, made on every read from disk.
validate_header(p) ==
    /\ p.free_start = HeaderSize + slot_count(p) * SlotSize
    /\ p.free_start <= p.free_end /\ p.free_end <= PageSize

\* Page.validate: with the walk over the directory that no read can afford.
validate(p) ==
    /\ validate_header(p)
    /\ \A i \in LiveIds(p) :
         LET s == read_slot(p, i) IN
         p.free_end <= s.off /\ s.off + s.len <= PageSize

\* What validate does not look at: no two payloads share a byte.
Disjoint(p) ==
    \A i, j \in LiveIds(p) :
        LET s == read_slot(p, i)
            t == read_slot(p, j)
        IN  i # j => s.off + s.len <= t.off \/ t.off + t.len <= s.off
=============================================================================

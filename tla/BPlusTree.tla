----------------------------- MODULE BPlusTree -----------------------------
(***************************************************************************)
(* The B+ tree of index/bplustree.py and index/node.py, on the pages of a  *)
(* PageStore.  A node is a page whose payloads are entries in sort order;  *)
(* a leaf's point at rows, an internal node's at children.  Splits go up   *)
(* the path the descent took; a delete never merges.                       *)
(*                                                                         *)
(* A key is its rank in the order of the encoded bytes: the minus infinity *)
(* of an internal node's first entry, then NULL, then the values.          *)
(***************************************************************************)
EXTENDS PageStore

CONSTANTS
    Values,     \* the column's values, as ranks 0, 1, ...
    ValueLen,   \* the bytes of each one's encoding, tag included
    RidSize,    \* RID_SIZE
    ChildSize,  \* CHILD_SIZE
    MaxDepth    \* _MAX_DEPTH

ASSUME ValuesAssumption == Values \subseteq Nat /\ ValueLen \in [Values -> Nat \ {0}]

MINUS_INFINITY == -2
NULL_KEY == -1
SMALLEST_VALUE_KEY == 0     \* what the empty string encodes to
Keys == Values \union {NULL_KEY}
key_len(k) == IF k < 0 THEN 1 ELSE ValueLen[k]
is_null_key(k) == k = NULL_KEY

NoRid == <<-1, -1>>         \* "no record id": sorts below every one
SentinelRid == <<0, 0>>
Entry(k, r, c) == [key |-> k, rid |-> r, child |-> c]
minus_infinity_entry(c) == Entry(MINUS_INFINITY, SentinelRid, c)

\* Entry.sort_key: the key, and the record id to tell equal keys apart.
RidLt(r, s) == r[1] < s[1] \/ (r[1] = s[1] /\ r[2] < s[2])
Lt(k, r, l, s) == k < l \/ (k = l /\ RidLt(r, s))
EntryLt(e, f) == Lt(e.key, e.rid, f.key, f.rid)

is_leaf(p) == p.type = "leaf"
count(p) == slot_count(p)
entry_at(p, i) == read_slot(p, i).rec
entries(p) == [i \in 1 .. count(p) |-> p.slots[i].rec]
encoded_len(p, e) == key_len(e.key) + RidSize + (IF is_leaf(p) THEN 0 ELSE ChildSize)
entry_widths(p, es) == [i \in DOMAIN es |-> encoded_len(p, es[i]) + SlotSize]
usable_bytes == PageSize - HeaderSize

\* BTreeNode.lower_bound: binary search for the first entry not below (k, r).
lower_bound(p, k, r) ==
    LET between[low \in 0 .. count(p), high \in 0 .. count(p)] ==
            LET middle == (low + high) \div 2
                e == entry_at(p, middle)
            IN  IF low >= high THEN low
                ELSE IF Lt(e.key, e.rid, k, r) THEN between[middle + 1, high]
                ELSE between[low, middle]
    IN  between[0, count(p)]

\* BTreeNode.child_index_for: the last separator not above (k, r).
IsAt(p, i, k, r) ==
    i < count(p) /\ entry_at(p, i).key = k /\ entry_at(p, i).rid = r
child_index_for(p, k, r) ==
    LET bound == lower_bound(p, k, r)
    IN  IF IsAt(p, bound, k, r) THEN bound ELSE Max({bound - 1, 0})

\* BTreeNode.insert_entry_at: [fits, page].  Stranded bytes are compacted away
\* before the node is declared full.
insert_entry_at(p, i, e) ==
    LET first == insert_at(p, i, encoded_len(p, e), e) IN
    IF first.fits \/ reclaimable_space(p) <= 0 THEN first
    ELSE insert_at(compact(p), i, encoded_len(p, e), e)

insert_entry(p, e) == insert_entry_at(p, lower_bound(p, e.key, e.rid), e)

\* BTreeNode.replace_all: the node rebuilt from nothing.
replace_all(p, es) ==
    LET at[i \in 0 .. Len(es)] ==
            IF i = 0 THEN clear_records(p)
            ELSE insert_at(at[i - 1], i - 1, encoded_len(p, es[i]), es[i]).page
    IN  at[Len(es)]

Sum(s) == FoldSeq(+, 0, s)

\* plan_split: how many entries stay on the left, or 0 where the code raises.
\* Balanced by bytes, then clamped to where both halves fit a page.
plan_split(widths, capacity) ==
    LET n == Len(widths)
        left(i) == Sum(SubSeq(widths, 1, i))
        right(i) == Sum(SubSeq(widths, i + 1, n))
        max_left == Max({i \in 0 .. n : left(i) <= capacity})
        min_left == Min({i \in 0 .. n : right(i) <= capacity})
        low == Max({min_left, 1})
        high == Min({max_left, n - 1})
        balanced == Min({i \in 1 .. n : left(i) * 2 >= Sum(widths)})
    IN  IF n < 2 \/ low > high THEN 0 ELSE Min({Max({balanced, low}), high})

split_index(p, es) == plan_split(entry_widths(p, es), usable_bytes)

---------------------------------------------------------------------------
\* BPlusTree._descend: [leaf, path], path holding <<page id, child index>>
\* from the root down.
RECURSIVE DescendFrom(_, _, _, _, _)
DescendFrom(st, id, k, r, path) ==
    LET p == st.page[id]
        i == child_index_for(p, k, r)
    IN  IF is_leaf(p) \/ Len(path) > MaxDepth THEN [leaf |-> id, path |-> path]
        ELSE DescendFrom(st, entry_at(p, i).child, k, r, Append(path, <<id, i>>))
descend(st, root, k, r) == DescendFrom(st, root, k, r, <<>>)

RECURSIVE leftmost_leaf(_, _)
leftmost_leaf(st, id) ==
    IF is_leaf(st.page[id]) THEN id
    ELSE leftmost_leaf(st, entry_at(st.page[id], 0).child)

\* BPlusTree.create: one empty leaf.
tree_create(st) ==
    LET a == allocate_page(st, "leaf") IN [store |-> a.store, root |-> a.id]

\* BPlusTree.search: from the leftmost leaf that could hold the key, right
\* along the leaves until a larger key.
RECURSIVE SearchFrom(_, _, _, _)
SearchFrom(st, id, i, k) ==
    LET p == st.page[id] IN
    IF i < count(p)
    THEN IF entry_at(p, i).key # k THEN <<>>
         ELSE <<entry_at(p, i).rid>> \o SearchFrom(st, id, i + 1, k)
    ELSE IF p.next = INVALID_PAGE_ID THEN <<>>
    ELSE SearchFrom(st, p.next, 0, k)
\* Mutant: the leaf the descent found is the only one looked at.
search_one_leaf(st, root, k) ==
    LET p == st.page[descend(st, root, k, NoRid).leaf]
        hits == SelectSeq(entries(p), LAMBDA e : e.key = k)
    IN  [i \in DOMAIN hits |-> hits[i].rid]

SearchLeaf(st, leaf, k) == SearchFrom(st, leaf, lower_bound(st.page[leaf], k, NoRid), k)
search(st, root, k) == SearchLeaf(st, descend(st, root, k, NoRid).leaf, k)

contains(st, root, k) == search(st, root, k) # <<>>

\* BPlusTree.range_scan: <<key, rid>> in key order.  A bound is a sequence,
\* empty for none.
RECURSIVE ScanFrom(_, _, _, _, _, _, _)
ScanFrom(st, id, i, low, high, withLow, withHigh) ==
    LET p == st.page[id]
        e == entry_at(p, i)
    IN  IF i < count(p)
        THEN IF low # <<>> /\ ~withLow /\ e.key = low[1]
             THEN ScanFrom(st, id, i + 1, low, high, withLow, withHigh)
             ELSE IF high # <<>> /\ (e.key > high[1] \/ (~withHigh /\ e.key = high[1]))
             THEN <<>>
             ELSE <<<<e.key, e.rid>>>>
                    \o ScanFrom(st, id, i + 1, low, high, withLow, withHigh)
        ELSE IF p.next = INVALID_PAGE_ID THEN <<>>
        ELSE ScanFrom(st, p.next, 0, low, high, withLow, withHigh)

ScanLeaf(st, leaf, low, high, withLow, withHigh) ==
    ScanFrom(st, leaf, lower_bound(st.page[leaf], low[1], NoRid), low, high, withLow, withHigh)

range_scan(st, root, low, high, withLow, withHigh) ==
    IF low = <<>>
    THEN ScanFrom(st, leftmost_leaf(st, root), 0, low, high, withLow, withHigh)
    ELSE ScanLeaf(st, descend(st, root, low[1], NoRid).leaf, low, high, withLow, withHigh)

FullScan(st, root) == range_scan(st, root, <<>>, <<>>, TRUE, TRUE)

---------------------------------------------------------------------------
\* Where a split cannot be made the code raises: the result carries ok = FALSE
\* and what was written up to there.
Grown(st, root) == [ok |-> TRUE, store |-> st, root |-> root]
Refused(st, root) == [ok |-> FALSE, store |-> st, root |-> root]

\* Mutant: the old root is reached under its smallest key instead of minus
\* infinity.
grow_root_from_smallest(st, left, separator) ==
    LET a == allocate_page(st, "internal")
        smallest == Entry(entry_at(st.page[left], 0).key, SentinelRid, left)
        top == replace_all(create("internal"), <<smallest, separator>>)
    IN  Grown(SetPage(a.store, a.id, top), a.id)

\* BPlusTree._grow_root: the only step that adds a level.
grow_root(st, left, separator) ==
    LET a == allocate_page(st, "internal")
        top == replace_all(create("internal"), <<minus_infinity_entry(left), separator>>)
    IN  Grown(SetPage(a.store, a.id, top), a.id)

\* A node's entries with one more, which it has no room for
WithEntry(p, e) == InsertAt(entries(p), lower_bound(p, e.key, e.rid) + 1, e)

SplitInternal(a, id, parent, all, cut) ==
    LET right == <<minus_infinity_entry(all[cut + 1].child)>> \o SubSeq(all, cut + 2, Len(all))
    IN  SetPage(SetPage(a.store, a.id, replace_all(create("internal"), right)),
                id, replace_all(parent, SubSeq(all, 1, cut)))

\* BPlusTree._insert_into_parent: the middle separator of a full parent moves
\* up, and the right half begins at minus infinity.
RECURSIVE insert_into_parent(_, _, _, _, _)
insert_into_parent(st, root, path, separator, left) ==
    LET id == path[Len(path)][1]
        parent == st.page[id]
        placed == insert_entry(parent, separator)
        all == WithEntry(parent, separator)
        cut == split_index(parent, all)
        a == allocate_page(st, "internal")
        promoted == all[cut + 1]
    IN  IF path = <<>> THEN grow_root(st, left, separator)
        ELSE IF placed.fits THEN Grown(SetPage(st, id, placed.page), root)
        ELSE IF cut = 0 THEN Refused(st, root)
        ELSE insert_into_parent(SplitInternal(a, id, parent, all, cut), root, Front(path),
                                Entry(promoted.key, promoted.rid, a.id), id)

\* BPlusTree._split_leaf: the separator is a copy of the right half's first key.
SplitLeaf(a, id, leaf, all, cut) ==
    LET sibling == [replace_all(create("leaf"), SubSeq(all, cut + 1, Len(all)))
                       EXCEPT !.next = leaf.next]
        left == [replace_all(leaf, SubSeq(all, 1, cut)) EXCEPT !.next = a.id]
    IN  SetPage(SetPage(a.store, a.id, sibling), id, left)

split_leaf(st, root, id, path, e) ==
    LET all == WithEntry(st.page[id], e)
        cut == split_index(st.page[id], all)
        a == allocate_page(st, "leaf")
        first == all[cut + 1]
    IN  IF cut = 0 THEN Refused(st, root)
        ELSE insert_into_parent(SplitLeaf(a, id, st.page[id], all, cut),
                                root, path, Entry(first.key, first.rid, a.id), id)

\* BPlusTree.insert, after its check for uniqueness
InsertAtLeaf(st, root, d, e) ==
    LET placed == insert_entry(st.page[d.leaf], e)
    IN  IF placed.fits THEN Grown(SetPage(st, d.leaf, placed.page), root)
        ELSE split_leaf(st, root, d.leaf, d.path, e)
tree_insert(st, root, k, r) ==
    InsertAtLeaf(st, root, descend(st, root, k, r), Entry(k, r, INVALID_PAGE_ID))

\* The check: a second NULL is not a duplicate.
unique_violation(st, root, unique, k) ==
    unique /\ ~is_null_key(k) /\ contains(st, root, k)

\* BTreeNode.remove and BPlusTree.delete
DeleteAtLeaf(st, id, k, r) ==
    LET i == lower_bound(st.page[id], k, r)
    IN  IF IsAt(st.page[id], i, k, r) THEN SetPage(st, id, delete_at(st.page[id], i)) ELSE st
tree_delete(st, root, k, r) == DeleteAtLeaf(st, descend(st, root, k, r).leaf, k, r)

---------------------------------------------------------------------------
\* BPlusTree._walk, and what its page_ids returns
RECURSIVE TreePages(_, _)
TreePages(st, id) ==
    {id} \union (IF is_leaf(st.page[id]) THEN {}
                 ELSE UNION {TreePages(st, e.child) : e \in Range(entries(st.page[id]))})

RECURSIVE height(_, _)
height(st, id) ==
    IF is_leaf(st.page[id]) THEN 1 ELSE 1 + height(st, entry_at(st.page[id], 0).child)

\* BPlusTree._verify_subtree, with bounds as sequences; depth counts down.
RECURSIVE verify_subtree(_, _, _, _, _)
verify_subtree(st, id, low, high, depth) ==
    LET p == st.page[id]
        es == entries(p)
        upper(i) == IF i < Len(es) THEN <<es[i + 1].key>> ELSE high
        lower(i) == IF es[i].key = MINUS_INFINITY THEN <<>> ELSE <<es[i].key>>
    IN  /\ \A i \in 1 .. Len(es) - 1 : EntryLt(es[i], es[i + 1])
        /\ \A i \in DOMAIN es : es[i].key # MINUS_INFINITY =>
             (low = <<>> \/ es[i].key >= low[1]) /\ (high = <<>> \/ es[i].key <= high[1])
        /\ is_leaf(p) => depth = 1
        /\ ~is_leaf(p) =>
             /\ depth > 1 /\ es # <<>> /\ es[1].key = MINUS_INFINITY
             /\ \A i \in DOMAIN es :
                  verify_subtree(st, es[i].child, lower(i), upper(i), depth - 1)

\* BPlusTree.verify: the shape, and the leaves' chain in strict order.
InOrder(scan) ==
    \A i \in 1 .. Len(scan) - 1 :
       Lt(scan[i][1], scan[i][2], scan[i + 1][1], scan[i + 1][2])
verify(st, root) ==
    /\ verify_subtree(st, root, <<>>, <<>>, height(st, root))
    /\ InOrder(FullScan(st, root))
=============================================================================

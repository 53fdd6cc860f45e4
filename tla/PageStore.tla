----------------------------- MODULE PageStore -----------------------------
(***************************************************************************)
(* The pages of a file and who owns them: allocation and the free list of  *)
(* storage/pager.py, and the chain of pages that is a heap file            *)
(* (storage/heap.py).                                                      *)
(*                                                                         *)
(* A store is [page, count, free]: the pages by id, how many there are     *)
(* (page 0 is the meta page's and is not one of them), and the head of the *)
(* free list.  count and free are fields of the meta page.                 *)
(***************************************************************************)
EXTENDS SlottedPage

NewStore == [page |-> <<>>, count |-> 1, free |-> INVALID_PAGE_ID]

SetPage(st, id, p) == [st EXCEPT !.page = (id :> p) @@ @]

\* Pager.allocate_page: [store, id].
allocate_page(st, type) ==
    IF st.free # INVALID_PAGE_ID
    THEN [id |-> st.free,
          store |-> SetPage([st EXCEPT !.free = st.page[st.free].next],
                            st.free, create(type))]
    ELSE [id |-> st.count,
          store |-> SetPage([st EXCEPT !.count = @ + 1], st.count, create(type))]

\* Pager.free_page: pushed on the free list, chained through `next`.
free_page(st, id) ==
    SetPage([st EXCEPT !.free = id], id,
            [create("free") EXCEPT !.next = st.free])

\* The ids met along `next` from id: free_list and HeapFile.page_ids, which
\* also raise on a cycle; here a cycle is a chain longer than the file.
Chain(st, id) ==
    LET at[n \in 0 .. st.count] ==
            IF n = 0 THEN id
            ELSE IF at[n - 1] = INVALID_PAGE_ID THEN INVALID_PAGE_ID
            ELSE st.page[at[n - 1]].next
    IN  SelectSeq([n \in 1 .. st.count + 1 |-> at[n - 1]],
                  LAMBDA i : i # INVALID_PAGE_ID)

free_list(st) == Chain(st, st.free)

---------------------------------------------------------------------------
\* A heap is [first, last]: the ends of its chain of pages.

\* HeapFile.create
heap_create(st) ==
    LET a == allocate_page(st, "heap") IN
    [store |-> a.store, heap |-> [first |-> a.id, last |-> a.id]]

\* Mutant: the new page is the tail and nothing leads to it.
heap_extend_unlinked(st, heap) ==
    LET a == allocate_page(st, "heap") IN
    [store |-> a.store, heap |-> [heap EXCEPT !.last = a.id]]

\* HeapFile._extend: a new tail page, linked after the old one.
heap_extend(st, heap) ==
    LET a == allocate_page(st, "heap")
        tail == [st.page[heap.last] EXCEPT !.next = a.id]
    IN  [store |-> SetPage(a.store, heap.last, tail), heap |-> [heap EXCEPT !.last = a.id]]

\* HeapFile.insert: the tail page, the tail page compacted, or a new tail.
OnTail(st, heap, put) ==
    [store |-> SetPage(st, heap.last, put.page), heap |-> heap,
     rid |-> <<heap.last, put.slot>>]
OnNewTail(more, n, r) ==
    OnTail(more.store, more.heap, insert(more.store.page[more.heap.last], n, r))
OrCompacted(put, page, n, r) ==
    IF ~put.fits /\ would_fit_after_compaction(page, n)
    THEN insert(compact(page), n, r) ELSE put
OrNewTail(put, st, heap, n, r) ==
    IF put.fits THEN OnTail(st, heap, put)
    ELSE OnNewTail(heap_extend(SetPage(st, heap.last, put.page), heap), n, r)
heap_insert(st, heap, n, r) ==
    LET page == st.page[heap.last] IN
    OrNewTail(OrCompacted(insert(page, n, r), page, n, r), st, heap, n, r)

\* HeapFile.delete and HeapFile.replace, which say whether they found it
heap_delete(st, rid) ==
    SetPage(st, rid[1], delete(st.page[rid[1]], rid[2]).page)
heap_replace(st, rid, n, r) ==
    SetPage(st, rid[1], overwrite(st.page[rid[1]], rid[2], n, r).page)

\* HeapFile.get: NoPayload stands for RecordNotFoundError.
heap_get(st, rid) == read(st.page[rid[1]], rid[2])

\* HeapFile.scan, in physical order: <<rid, payload>>
PageRows(st, id) ==
    LET live == SetToSortSeq(LiveIds(st.page[id]), <) IN
    [k \in DOMAIN live |-> <<<<id, live[k]>>, read(st.page[id], live[k])>>]
heap_scan(st, heap) ==
    LET ids == Chain(st, heap.first) IN
    FlattenSeq([k \in DOMAIN ids |-> PageRows(st, ids[k])])
=============================================================================

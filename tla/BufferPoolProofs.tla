-------------------------- MODULE BufferPoolProofs --------------------------
(***************************************************************************)
(* The buffer pool for any number of frames, pages and images: the frames  *)
(* are accounted for, eviction is exact LRU, and the pool implements the   *)
(* plain memory of PageMemory.                                             *)
(***************************************************************************)
EXTENDS BufferPool, SequenceFacts

\* The page table lists a page once, and its frame holds that page.
TableIsAMap ==
    /\ \A j, k \in 1 .. Len(resident) : resident[j][1] = resident[k][1] => j = k
    /\ \A k \in 1 .. Len(resident) : frames[resident[k][2]].page = resident[k][1]

\* A free frame is on the stack once and is clean; every frame is on the stack
\* or in the table.
StackIsFree ==
    /\ \A j, k \in 1 .. Len(free) : free[j] = free[k] => j = k
    /\ \A k \in 1 .. Len(free) : frames[free[k]].page = NoPage /\ ~frames[free[k]].dirty
    /\ \A i \in FrameIds :
          \/ \E k \in 1 .. Len(free) : free[k] = i
          \/ \E k \in 1 .. Len(resident) : resident[k][2] = i
    /\ Len(free) + Len(resident) = Capacity

\* A clean frame holds what the file holds.
CleanIsWritten ==
    \A k \in 1 .. Len(resident) :
        ~frames[resident[k][2]].dirty => frames[resident[k][2]].data = file[resident[k][1]]

TouchedOnce == \A j, k \in 1 .. Len(touched) : touched[j] = touched[k] => j = k

IInv == TypeOK /\ TableIsAMap /\ StackIsFree /\ CleanIsWritten /\ TouchedOnce /\ MostRecentResident

---------------------------------------------------------------------------
(* What the invariant says of the lists.                                   *)

\* The page table, the free stack and the history are lists of the right things.
LEMMA Lists ==
    ASSUME TypeOK
    PROVE  /\ Len(free) \in Nat /\ Len(resident) \in Nat /\ Len(touched) \in Nat
           /\ DOMAIN free = 1 .. Len(free)
           /\ DOMAIN resident = 1 .. Len(resident)
           /\ DOMAIN touched = 1 .. Len(touched)
           /\ \A k \in 1 .. Len(free) : free[k] \in FrameIds
           /\ \A k \in 1 .. Len(resident) :
                 resident[k] \in Entries /\ resident[k][1] \in Pages /\ resident[k][2] \in FrameIds
           /\ \A k \in 1 .. Len(touched) : touched[k] \in Pages
<1> USE DEF TypeOK
<1>1. free \in Seq(FrameIds) /\ resident \in Seq(Entries) /\ touched \in Seq(Pages)
  OBVIOUS
<1>2. /\ Len(free) \in Nat /\ Len(resident) \in Nat /\ Len(touched) \in Nat
      /\ DOMAIN free = 1 .. Len(free)
      /\ DOMAIN resident = 1 .. Len(resident)
      /\ DOMAIN touched = 1 .. Len(touched)
  BY <1>1, LenProperties
<1>3. \A k \in 1 .. Len(free) : free[k] \in FrameIds
  BY <1>1, ElementOfSeq
<1>4. \A k \in 1 .. Len(resident) : resident[k] \in Entries
  BY <1>1, ElementOfSeq
<1>5. \A k \in 1 .. Len(touched) : touched[k] \in Pages
  BY <1>1, ElementOfSeq
<1>6. \A e \in Entries : e[1] \in Pages /\ e[2] \in FrameIds
  BY DEF Entries
<1> QED BY <1>2, <1>3, <1>4, <1>5, <1>6

\* A page the table contains has one entry, which names its frame.
LEMMA Found ==
    ASSUME TypeOK, NEW p, contains(p)
    PROVE  /\ Position(p) \in 1 .. Len(resident)
           /\ resident[Position(p)][1] = p
           /\ resident[Position(p)] = <<p, FrameOf(p)>>
           /\ FrameOf(p) \in FrameIds
<1>1. Position(p) \in DOMAIN resident /\ resident[Position(p)][1] = p
  BY DEF contains, Position
<1>2. Position(p) \in 1 .. Len(resident) /\ resident[Position(p)] \in Entries
  BY <1>1, Lists
<1>3. \A e \in Entries : e = <<e[1], e[2]>> /\ e[2] \in FrameIds
  BY DEF Entries
<1> QED BY <1>1, <1>2, <1>3 DEF FrameOf

\* A frame is in the table once, and not in the table and on the stack.
LEMMA FramesUsedOnce ==
    ASSUME TypeOK, TableIsAMap, StackIsFree
    PROVE  /\ \A j, k \in 1 .. Len(resident) : resident[j][2] = resident[k][2] => j = k
           /\ \A j \in 1 .. Len(free), k \in 1 .. Len(resident) : free[j] # resident[k][2]
<1>1. \A j, k \in 1 .. Len(resident) : resident[j][2] = resident[k][2] => j = k
  BY DEF TableIsAMap
<1>2. \A k \in 1 .. Len(resident) : resident[k][1] # NoPage
  BY Lists, PoolAssumption
<1>3. \A j \in 1 .. Len(free), k \in 1 .. Len(resident) : free[j] # resident[k][2]
  BY <1>2 DEF TableIsAMap, StackIsFree
<1> QED BY <1>1, <1>3

\* What a fetch returns: the frame's image, or the file's.
CurrentIsExact ==
    /\ Current \in [Pages -> Data]
    /\ \A k \in 1 .. Len(resident) : Current[resident[k][1]] = frames[resident[k][2]].data
    /\ \A q \in Pages :
          (\A k \in 1 .. Len(resident) : resident[k][1] # q) => Current[q] = file[q]

\* The image of a page is the one in its frame, and that of a page with no
\* frame the one in the file.
LEMMA CurrentFacts == TypeOK /\ TableIsAMap => CurrentIsExact
<1> SUFFICES ASSUME TypeOK, TableIsAMap PROVE CurrentIsExact
  OBVIOUS
<1>1. DOMAIN resident = 1 .. Len(resident)
  BY Lists
<1>2. \A q \in Pages : Current[q] = IF contains(q) THEN frames[FrameOf(q)].data ELSE file[q]
  BY DEF Current
<1>3. ASSUME NEW q \in Pages, contains(q)
      PROVE  FrameOf(q) \in FrameIds
  BY <1>3, Found
<1>4. \A q \in Pages : (IF contains(q) THEN frames[FrameOf(q)].data ELSE file[q]) \in Data
  BY <1>3 DEF TypeOK
<1>5. Current \in [Pages -> Data]
  BY <1>4 DEF Current
<1>6. ASSUME NEW k \in 1 .. Len(resident)
      PROVE  Current[resident[k][1]] = frames[resident[k][2]].data
  <2>1. resident[k][1] \in Pages /\ contains(resident[k][1])
    BY <1>1, Lists DEF contains
  <2>2. Position(resident[k][1]) = k
    BY <2>1, Found DEF TableIsAMap
  <2> QED BY <1>2, <2>1, <2>2 DEF FrameOf
<1>7. \A q \in Pages :
          (\A k \in 1 .. Len(resident) : resident[k][1] # q) => Current[q] = file[q]
  BY <1>1, <1>2 DEF contains
<1> QED BY <1>5, <1>6, <1>7 DEF CurrentIsExact

\* The same after a step.
LEMMA CurrentAfter == ASSUME TypeOK', TableIsAMap' PROVE CurrentIsExact'
BY CurrentFacts, PTL

---------------------------------------------------------------------------
(* The page table and the history move together.                           *)

\* Using a page puts it last in the history, and moves the pages that were
\* used after it one place down.
LEMMA TouchFacts ==
    ASSUME TypeOK, TouchedOnce, NEW p \in Pages, Touch(p)
    PROVE  /\ touched' \in Seq(Pages)
           /\ TouchedOnce'
           /\ \/ /\ \A k \in 1 .. Len(touched) : touched[k] # p
                 /\ Len(touched') = Len(touched) + 1
                 /\ \A k \in 1 .. Len(touched) + 1 :
                        touched'[k] = IF k <= Len(touched) THEN touched[k] ELSE p
              \/ \E i \in 1 .. Len(touched) :
                    /\ touched[i] = p
                    /\ Len(touched') = Len(touched)
                    /\ \A k \in 1 .. Len(touched) :
                          touched'[k] = IF k < i THEN touched[k]
                                        ELSE IF k < Len(touched) THEN touched[k + 1] ELSE p
<1>0. touched \in Seq(Pages) /\ Len(touched) \in Nat /\ touched' = Append(RemoveFirst(touched, p), p)
  BY Lists DEF TypeOK, Touch
<1>1. CASE /\ \A k \in 1 .. Len(touched) : touched[k] # p
           /\ RemoveFirst(touched, p) = touched
  <2>1. touched' = Append(touched, p)
    BY <1>0, <1>1
  <2>2. /\ touched' \in Seq(Pages)
        /\ Len(touched') = Len(touched) + 1
        /\ \A k \in 1 .. Len(touched) + 1 :
              touched'[k] = IF k <= Len(touched) THEN touched[k] ELSE p
    BY <1>0, <2>1, AppendFacts
  <2>3. TouchedOnce'
    BY <1>0, <1>1, <2>2 DEF TouchedOnce
  <2> QED BY <1>1, <2>2, <2>3
<1>2. CASE \E i \in 1 .. Len(touched) :
              touched[i] = p /\ RemoveFirst(touched, p) = RemoveAt(touched, i)
  <2>1. PICK i \in 1 .. Len(touched) :
            touched[i] = p /\ RemoveFirst(touched, p) = RemoveAt(touched, i)
    BY <1>2
  <2>2. touched' = Append(RemoveAt(touched, i), p)
    BY <1>0, <2>1
  <2>3. /\ touched' \in Seq(Pages)
        /\ Len(touched') = Len(touched)
        /\ \A k \in 1 .. Len(touched) :
              touched'[k] = IF k < i THEN touched[k]
                            ELSE IF k < Len(touched) THEN touched[k + 1] ELSE p
    BY <1>0, <2>2, MoveFacts
  <2>4. TouchedOnce'
    <3> DEFINE n == Len(touched)
               old(k) == IF k < i THEN k ELSE IF k < n THEN k + 1 ELSE i
    <3>1. \A k \in 1 .. n : old(k) \in 1 .. n /\ touched'[k] = touched[old(k)]
      BY <1>0, <2>1, <2>3
    <3>2. \A j, k \in 1 .. n : old(j) = old(k) => j = k
      BY <1>0
    <3> HIDE DEF old
    <3>3. ASSUME NEW j \in 1 .. n, NEW k \in 1 .. n, touched'[j] = touched'[k]
          PROVE  j = k
      <4>1. old(j) \in 1 .. n /\ old(k) \in 1 .. n /\ touched[old(j)] = touched[old(k)]
        BY <3>1, <3>3
      <4>2. old(j) = old(k)
        BY <1>0, <4>1 DEF TouchedOnce
      <4> QED BY <3>2, <4>2
    <3> QED BY <2>3, <3>3 DEF TouchedOnce
  <2> QED BY <2>1, <2>3, <2>4
<1> QED BY <1>0, <1>1, <1>2, RemoveFirstFacts

\* A hit permutes the page table, and moves the page in the history alike.
LEMMA HitFacts ==
    ASSUME IInv, NEW p \in Pages, contains(p), resident' = move_to_end(p), Touch(p)
    PROVE  /\ resident' \in Seq(Entries)
           /\ Len(resident') = Len(resident)
           /\ \A k \in 1 .. Len(resident) : \E j \in 1 .. Len(resident) : resident'[k] = resident[j]
           /\ \A j \in 1 .. Len(resident) : \E k \in 1 .. Len(resident) : resident'[k] = resident[j]
           /\ \A j, k \in 1 .. Len(resident) : resident'[j][1] = resident'[k][1] => j = k
           /\ MostRecentResident'
<1> DEFINE n == Len(resident)
           m == Len(touched)
           h == Position(p)
           old(k) == IF k < h THEN k ELSE IF k < n THEN k + 1 ELSE h
<1>1. /\ h \in 1 .. n /\ resident[h][1] = p /\ resident[h] = <<p, FrameOf(p)>>
      /\ resident \in Seq(Entries) /\ n \in Nat /\ m \in Nat /\ resident[h] \in Entries
  BY Found, Lists DEF IInv, TypeOK
<1>2. resident' = Append(RemoveAt(resident, h), resident[h])
  BY <1>1 DEF move_to_end, Without
<1>3. /\ resident' \in Seq(Entries)
      /\ Len(resident') = n
      /\ \A k \in 1 .. n : resident'[k] = IF k < h THEN resident[k]
                                         ELSE IF k < n THEN resident[k + 1] ELSE resident[h]
  <2> DEFINE e == resident[h]
  <2>1. /\ h \in 1 .. Len(resident) /\ e \in Entries /\ resident \in Seq(Entries)
        /\ resident' = Append(RemoveAt(resident, h), e)
    BY <1>1, <1>2
  <2> HIDE DEF h, e
  <2>2. /\ resident' \in Seq(Entries)
        /\ Len(resident') = Len(resident)
        /\ \A k \in 1 .. Len(resident) :
              resident'[k] = IF k < h THEN resident[k]
                             ELSE IF k < Len(resident) THEN resident[k + 1] ELSE e
    BY <2>1, MoveFacts
  <2> QED BY <2>2 DEF e
<1>4. \A k \in 1 .. n : old(k) \in 1 .. n /\ resident'[k] = resident[old(k)]
  <2>1. \A k \in 1 .. n : old(k) \in 1 .. n
    BY <1>1
  <2> QED BY <1>3, <2>1
<1>5. \A j, k \in 1 .. n : old(j) = old(k) => j = k
  BY <1>1
<1>6. ASSUME NEW j \in 1 .. n PROVE \E k \in 1 .. n : old(k) = j
  <2>1. CASE j < h
    <3>1. j \in 1 .. n /\ old(j) = j
      BY <2>1
    <3> QED BY <3>1
  <2>2. CASE j = h
    <3>1. n \in 1 .. n /\ old(n) = j
      BY <1>1, <2>2
    <3> QED BY <3>1
  <2>3. CASE j > h
    <3>1. j - 1 \in 1 .. n /\ old(j - 1) = j
      BY <1>1, <2>3
    <3> QED BY <3>1
  <2> QED BY <1>1, <2>1, <2>2, <2>3
<1>7. MostRecentResident'
  <2>1. n <= m /\ \A k \in 1 .. n : resident[k][1] = touched[m - n + k]
    BY DEF IInv, MostRecentResident
  <2>2. m - n + h \in 1 .. m /\ touched[m - n + h] = p
    BY <1>1, <2>1
  <2>3. /\ \A j, k \in 1 .. m : touched[j] = touched[k] => j = k
        /\ TouchedOnce /\ TypeOK
    BY DEF IInv, TouchedOnce
  <2>4. PICK i \in 1 .. m :
            /\ touched[i] = p
            /\ Len(touched') = m
            /\ \A k \in 1 .. m : touched'[k] = IF k < i THEN touched[k]
                                              ELSE IF k < m THEN touched[k + 1] ELSE p
    BY <2>2, <2>3, TouchFacts
  <2>5. i = m - n + h
    BY <2>2, <2>3, <2>4
  <2>6. ASSUME NEW k \in 1 .. n PROVE resident'[k][1] = touched'[m - n + k]
    <3>1. m - n + k \in 1 .. m
      BY <1>1, <2>1
    <3>2. CASE k < h
      <4>1. m - n + k < i
        BY <1>1, <2>1, <2>5, <3>2
      <4>2. touched'[m - n + k] = touched[m - n + k] /\ resident'[k] = resident[k]
        BY <1>3, <2>4, <3>1, <3>2, <4>1
      <4> QED BY <2>1, <4>2
    <3>3. CASE ~(k < h) /\ k < n
      <4>1. ~(m - n + k < i) /\ m - n + k < m /\ k + 1 \in 1 .. n /\ m - n + k + 1 = m - n + (k + 1)
        BY <1>1, <2>1, <2>5, <3>3
      <4>2. touched'[m - n + k] = touched[m - n + (k + 1)] /\ resident'[k] = resident[k + 1]
        BY <1>3, <2>4, <3>1, <3>3, <4>1
      <4> QED BY <2>1, <4>1, <4>2
    <3>4. CASE ~(k < h) /\ ~(k < n)
      <4>1. m - n + k = m /\ m \in 1 .. m /\ ~(m < i) /\ ~(m < m)
        BY <1>1, <2>1, <3>1, <3>4
      <4>2. touched'[m] = p
        BY <2>4, <4>1
      <4>3. resident'[k] = resident[h]
        BY <1>3, <3>4
      <4> QED BY <1>1, <4>1, <4>2, <4>3
    <3> QED BY <3>2, <3>3, <3>4
  <2> QED BY <1>3, <2>1, <2>4, <2>6 DEF MostRecentResident
<1>8. \A j, k \in 1 .. n : resident[j][1] = resident[k][1] => j = k
  BY DEF IInv, TableIsAMap
<1> HIDE DEF old
<1>9. ASSUME NEW j \in 1 .. n, NEW k \in 1 .. n, resident'[j][1] = resident'[k][1]
      PROVE  j = k
  <2>1. old(j) \in 1 .. n /\ old(k) \in 1 .. n /\ resident[old(j)][1] = resident[old(k)][1]
    BY <1>4, <1>9
  <2>2. old(j) = old(k)
    BY <1>8, <2>1
  <2> QED BY <1>5, <2>2
<1>10. \A k \in 1 .. n : \E j \in 1 .. n : resident'[k] = resident[j]
  BY <1>4
<1>11. \A j \in 1 .. n : \E k \in 1 .. n : resident'[k] = resident[j]
  BY <1>4, <1>6
<1> QED BY <1>3, <1>7, <1>9, <1>10, <1>11

\* A page that comes in is the most recently used one.
LEMMA MissIsMostRecent ==
    ASSUME IInv, NEW p \in Pages, ~contains(p), Touch(p),
           NEW drop \in {0, 1}, drop <= Len(resident),
           Len(resident') = Len(resident) - drop + 1,
           \A k \in 1 .. Len(resident') :
               resident'[k][1] = IF k < Len(resident') THEN resident[k + drop][1] ELSE p
    PROVE  MostRecentResident'
<1> DEFINE n == Len(resident)
           m == Len(touched)
<1>1. n \in Nat /\ m \in Nat /\ DOMAIN resident = 1 .. n /\ TypeOK /\ TouchedOnce
  BY Lists DEF IInv
<1>2. n <= m /\ \A k \in 1 .. n : resident[k][1] = touched[m - n + k]
  BY DEF IInv, MostRecentResident
<1>3. \A k \in 1 .. n : touched[m - n + k] # p
  BY <1>1, <1>2 DEF contains
<1>4. CASE /\ Len(touched') = m + 1
           /\ \A k \in 1 .. m + 1 : touched'[k] = IF k <= m THEN touched[k] ELSE p
  <2>1. ASSUME NEW k \in 1 .. Len(resident')
        PROVE  resident'[k][1] = touched'[m + 1 - (n - drop + 1) + k]
    <3> DEFINE c == m + 1 - (n - drop + 1) + k
    <3>1. c \in 1 .. m + 1
      BY <1>1, <1>2
    <3>2. CASE k < Len(resident')
      <4>1. c <= m /\ k + drop \in 1 .. n /\ m - n + (k + drop) = c
        BY <1>1, <1>2, <3>2
      <4> QED BY <1>2, <1>4, <3>1, <3>2, <4>1
    <3>3. CASE k = Len(resident')
      <4>1. ~(c <= m)
        BY <1>1, <1>2, <3>3
      <4> QED BY <1>4, <3>1, <3>3, <4>1
    <3> QED BY <1>1, <3>2, <3>3
  <2>2. n - drop + 1 <= m + 1
    BY <1>1, <1>2
  <2> QED BY <1>4, <2>1, <2>2 DEF MostRecentResident
<1>5. CASE \E i \in 1 .. m :
             /\ touched[i] = p
             /\ Len(touched') = m
             /\ \A k \in 1 .. m : touched'[k] = IF k < i THEN touched[k]
                                               ELSE IF k < m THEN touched[k + 1] ELSE p
  <2>1. PICK i \in 1 .. m :
             /\ touched[i] = p
             /\ Len(touched') = m
             /\ \A k \in 1 .. m : touched'[k] = IF k < i THEN touched[k]
                                               ELSE IF k < m THEN touched[k + 1] ELSE p
    BY <1>5
  <2>2. i <= m - n
    <3>1. CASE i > m - n
      <4>1. i - (m - n) \in 1 .. n /\ m - n + (i - (m - n)) = i
        BY <1>1, <1>2, <3>1
      <4> QED BY <1>3, <2>1, <4>1
    <3> QED BY <1>1, <3>1
  <2>3. ASSUME NEW k \in 1 .. Len(resident')
        PROVE  resident'[k][1] = touched'[m - (n - drop + 1) + k]
    <3> DEFINE c == m - (n - drop + 1) + k
    <3>1. c \in 1 .. m
      BY <1>1, <1>2, <2>2
    <3>2. CASE k < Len(resident')
      <4>1. c < m /\ ~(c < i) /\ k + drop \in 1 .. n /\ m - n + (k + drop) = c + 1
        BY <1>1, <1>2, <2>2, <3>2
      <4>2. touched'[c] = touched[c + 1]
        BY <2>1, <3>1, <4>1
      <4>3. resident[k + drop][1] = touched[c + 1]
        BY <1>2, <4>1
      <4> QED BY <3>2, <4>2, <4>3
    <3>3. CASE k = Len(resident')
      <4>1. ~(c < m) /\ ~(c < i)
        BY <1>1, <1>2, <2>2, <3>3
      <4>2. touched'[c] = p
        BY <2>1, <3>1, <4>1
      <4>3. ~(k < Len(resident'))
        BY <1>1, <3>3
      <4> QED BY <4>2, <4>3
    <3> QED BY <1>1, <3>2, <3>3
  <2>4. n - drop + 1 <= m
    BY <1>1, <1>2, <2>1, <2>2
  <2> QED BY <2>1, <2>3, <2>4 DEF MostRecentResident
<1> QED BY <1>1, <1>4, <1>5, TouchFacts

---------------------------------------------------------------------------
(* The invariant, one operation at a time.                                 *)

\* An empty pool has every frame on its stack, once.
LEMMA AllFreeFacts ==
    /\ AllFree \in Seq(FrameIds) /\ Len(AllFree) = Capacity
    /\ \A k \in 1 .. Capacity : AllFree[k] = Capacity + 1 - k /\ AllFree[k] \in FrameIds
    /\ \A i \in FrameIds : Capacity + 1 - i \in 1 .. Capacity /\ AllFree[Capacity + 1 - i] = i
<1>1. Capacity \in Nat
  BY PoolAssumption
<1>2. AllFree \in [1 .. Capacity -> FrameIds]
  BY <1>1 DEF AllFree, FrameIds
<1>3. AllFree \in Seq(FrameIds) /\ Len(AllFree) = Capacity
  BY <1>1, <1>2, SeqDef
<1> QED BY <1>1, <1>3 DEF AllFree, FrameIds

\* The invariant holds of a new pool.
LEMMA InitInv == Init => IInv
<1> SUFFICES ASSUME Init PROVE IInv
  OBVIOUS
<1>1. AnyData \in Data /\ Capacity \in Nat
  BY PoolAssumption DEF AnyData
<1>2. TypeOK
  BY <1>1, AllFreeFacts DEF Init, TypeOK, EmptyFrame
<1>3. free = AllFree /\ Len(resident) = 0 /\ Len(touched) = 0
  BY DEF Init
<1>4. StackIsFree
  <2>1. \A j, k \in 1 .. Capacity : AllFree[j] = AllFree[k] => j = k
    BY <1>1, AllFreeFacts
  <2>2. \A k \in 1 .. Capacity : frames[AllFree[k]].page = NoPage /\ ~frames[AllFree[k]].dirty
    BY AllFreeFacts DEF Init, EmptyFrame
  <2>3. \A i \in FrameIds : \E k \in 1 .. Capacity : AllFree[k] = i
    BY AllFreeFacts
  <2>4. Len(AllFree) = Capacity /\ Capacity + 0 = Capacity
    BY <1>1, AllFreeFacts
  <2> QED BY <1>3, <2>1, <2>2, <2>3, <2>4 DEF StackIsFree
<1> QED
  BY <1>2, <1>3, <1>4
  DEF IInv, TableIsAMap, CleanIsWritten, TouchedOnce, MostRecentResident

\* What is read from a frame that was just filled.
LEMMA FrameUpdate ==
    ASSUME TypeOK, NEW i \in FrameIds, NEW p \in Pages, NEW d \in Data, NEW b \in BOOLEAN,
           frames' = [frames EXCEPT ![i] = [page |-> p, data |-> d, dirty |-> b]]
    PROVE  /\ frames' \in [FrameIds -> [page : Pages \union {NoPage}, data : Data, dirty : BOOLEAN]]
           /\ frames'[i].page = p /\ frames'[i].data = d /\ frames'[i].dirty = b
           /\ \A j \in FrameIds : j # i => frames'[j] = frames[j]
BY DEF TypeOK

\* admit: a page is given a free frame, or the frame of the page evicted for it,
\* which is written back first when it is dirty.
LEMMA AdmitInv ==
    ASSUME IInv, NEW p \in Pages, NEW d \in Data, NEW b \in BOOLEAN,
           ~contains(p), admit(p, d, b), Touch(p), ~b => d = file[p]
    PROVE  /\ IInv'
           /\ Current' = [Current EXCEPT ![p] = d]
           /\ file' = file \/ \E q \in Pages : file' = [file EXCEPT ![q] = Current[q]]
<1> USE DEF IInv
<1>1. /\ TypeOK /\ free \in Seq(FrameIds) /\ resident \in Seq(Entries)
      /\ Len(free) \in Nat /\ Len(resident) \in Nat
  BY Lists DEF TypeOK
<1>2. touched' \in Seq(Pages) /\ TouchedOnce'
  BY TouchFacts
<1>3. \A k \in 1 .. Len(resident) : resident[k][1] # p
  BY Lists DEF contains
<1>6. CurrentIsExact
  BY CurrentFacts
<1>4. CASE free # <<>>
  <2> DEFINE i == Last(free)
             n == Len(resident)
             e == <<p, i>>
  <2>1. /\ frames' = [frames EXCEPT ![i] = [page |-> p, data |-> d, dirty |-> b]]
        /\ free' = Front(free) /\ resident' = Append(resident, e) /\ file' = file
    BY <1>4 DEF admit
  <2>2. /\ free' \in Seq(FrameIds) /\ Len(free') = Len(free) - 1 /\ Len(free) \in 1 .. Len(free)
        /\ \A k \in 1 .. Len(free) - 1 : free'[k] = free[k]
    BY <1>1, <1>4, <2>1, FrontFacts
  <2>3. i = free[Len(free)] /\ i \in FrameIds
    BY <2>2, Lists DEF Last
  <2> HIDE DEF i
  <2>4. e \in Entries /\ e[1] = p /\ e[2] = i
    BY <2>3 DEF Entries
  <2> HIDE DEF e
  <2>5. /\ resident' \in Seq(Entries) /\ Len(resident') = n + 1
        /\ \A k \in 1 .. n + 1 : resident'[k] = IF k <= n THEN resident[k] ELSE e
    BY <1>1, <2>1, <2>4, AppendFacts
  <2>6. /\ frames' \in [FrameIds -> [page : Pages \union {NoPage}, data : Data, dirty : BOOLEAN]]
        /\ frames'[i].page = p /\ frames'[i].data = d /\ frames'[i].dirty = b
        /\ \A j \in FrameIds : j # i => frames'[j] = frames[j]
    BY <1>1, <2>1, <2>3, FrameUpdate
  <2>7. TypeOK'
    BY <1>1, <1>2, <2>1, <2>2, <2>5, <2>6 DEF TypeOK
  <2>8. \A k \in 1 .. n : /\ resident'[k] = resident[k] /\ k \in 1 .. n + 1
                         /\ resident[k][2] \in FrameIds /\ resident[k][2] # i
                         /\ frames'[resident[k][2]] = frames[resident[k][2]]
    <3>1. \A k \in 1 .. n : resident'[k] = resident[k] /\ k \in 1 .. n + 1
      BY <1>1, <2>5
    <3>2. \A k \in 1 .. n : resident[k][2] \in FrameIds /\ resident[k][2] # i
      BY <2>2, <2>3, Lists, FramesUsedOnce
    <3> QED BY <2>6, <3>1, <3>2
  <2>9. n + 1 \in 1 .. n + 1 /\ resident'[n + 1] = e /\ \A k \in 1 .. n + 1 : k \in 1 .. n \/ k = n + 1
    BY <1>1, <2>5
  <2>10. TableIsAMap'
    <3>1. \A j, k \in 1 .. n + 1 : resident'[j][1] = resident'[k][1] => j = k
      BY <1>3, <2>4, <2>8, <2>9 DEF TableIsAMap
    <3>2. \A k \in 1 .. n + 1 : frames'[resident'[k][2]].page = resident'[k][1]
      BY <2>4, <2>6, <2>8, <2>9 DEF TableIsAMap
    <3> QED BY <2>5, <3>1, <3>2 DEF TableIsAMap
  <2>11. CleanIsWritten'
    <3>1. \A k \in 1 .. n + 1 : ~frames'[resident'[k][2]].dirty
                => frames'[resident'[k][2]].data = file[resident'[k][1]]
      BY <2>4, <2>6, <2>8, <2>9 DEF CleanIsWritten
    <3> QED BY <2>1, <2>5, <3>1 DEF CleanIsWritten
  <2>12. StackIsFree'
    <3>1. \A k \in 1 .. Len(free') : k \in 1 .. Len(free) /\ free'[k] = free[k] /\ k # Len(free)
      BY <1>1, <2>2
    <3>2. \A k \in 1 .. Len(free') : free[k] \in FrameIds /\ free[k] # i
      BY <2>2, <2>3, <3>1, Lists DEF StackIsFree
    <3>3. \A k \in 1 .. Len(free') : frames'[free'[k]].page = NoPage /\ ~frames'[free'[k]].dirty
      BY <2>6, <3>1, <3>2 DEF StackIsFree
    <3>4. ASSUME NEW j \in FrameIds
          PROVE  \/ \E k \in 1 .. Len(free') : free'[k] = j
                 \/ \E k \in 1 .. Len(resident') : resident'[k][2] = j
      <4>1. CASE j = i
        BY <2>4, <2>5, <2>9, <4>1
      <4>2. CASE j # i /\ \E k \in 1 .. Len(free) : free[k] = j
        <5>1. PICK k \in 1 .. Len(free) : free[k] = j
          BY <4>2
        <5>2. k \in 1 .. Len(free')
          BY <1>1, <2>2, <2>3, <4>2, <5>1
        <5> QED BY <3>1, <5>1, <5>2
      <4>3. CASE \E k \in 1 .. n : resident[k][2] = j
        BY <2>5, <2>8, <4>3
      <4> QED BY <4>1, <4>2, <4>3 DEF StackIsFree
    <3>5. Len(free') + Len(resident') = Capacity
      BY <1>1, <2>2, <2>5 DEF StackIsFree
    <3>6. \A j, k \in 1 .. Len(free') : free'[j] = free'[k] => j = k
      BY <3>1 DEF StackIsFree
    <3> QED BY <3>3, <3>4, <3>5, <3>6 DEF StackIsFree
  <2>13. MostRecentResident'
    <3>1. ASSUME NEW k \in 1 .. Len(resident')
          PROVE  resident'[k][1] = IF k < Len(resident') THEN resident[k + 0][1] ELSE p
      <4>1. CASE k \in 1 .. n
        BY <1>1, <2>5, <2>8, <4>1
      <4>2. CASE k = n + 1
        BY <1>1, <2>4, <2>5, <2>9, <4>2
      <4> QED BY <2>5, <2>9, <4>1, <4>2
    <3>2. Len(resident') = n - 0 + 1 /\ 0 <= n /\ 0 \in {0, 1}
      BY <1>1, <2>5
    <3> QED BY <3>1, <3>2, MissIsMostRecent
  <2>14. Current' = [Current EXCEPT ![p] = d]
    <3>1. CurrentIsExact'
      BY <2>7, <2>10, CurrentAfter
    <3>2. ASSUME NEW q \in Pages PROVE Current'[q] = IF q = p THEN d ELSE Current[q]
      <4>1. CASE q = p
        BY <2>4, <2>5, <2>6, <2>9, <3>1, <4>1 DEF CurrentIsExact
      <4>2. CASE q # p /\ \E k \in 1 .. n : resident[k][1] = q
        <5>1. PICK k \in 1 .. n : resident[k][1] = q
          BY <4>2
        <5>2. Current'[q] = frames'[resident'[k][2]].data
          BY <2>5, <2>8, <3>1, <5>1 DEF CurrentIsExact
        <5> QED BY <1>6, <2>8, <4>2, <5>1, <5>2 DEF CurrentIsExact
      <4>3. CASE q # p /\ \A k \in 1 .. n : resident[k][1] # q
        <5>1. \A k \in 1 .. n + 1 : resident'[k][1] # q
          BY <2>4, <2>8, <2>9, <4>3
        <5> QED BY <1>6, <2>1, <2>5, <3>1, <4>3, <5>1 DEF CurrentIsExact
      <4> QED BY <4>1, <4>2, <4>3
    <3> QED BY <1>6, <3>1, <3>2 DEF CurrentIsExact
  <2> QED BY <1>2, <2>1, <2>7, <2>10, <2>11, <2>12, <2>13, <2>14
<1>5. CASE free = <<>>
  <2> DEFINE n == Len(resident)
             i == resident[1][2]
             e == <<p, i>>
  <2>0. Len(free) = 0 /\ n = Capacity /\ n \in Nat /\ n >= 2
    BY <1>1, <1>5, PoolAssumption DEF StackIsFree
  <2>1. Head(resident) = resident[1] /\ Tail(resident) = RemoveAt(resident, 1) /\ 1 \in 1 .. n
    <3>1. resident # <<>>
      BY <2>0
    <3> QED BY <1>1, <3>1, TailIsRemove
  <2>2. i \in FrameIds /\ resident[1][1] \in Pages
    BY <2>1, Lists
  <2>3. /\ frames' = [frames EXCEPT ![i] = [page |-> p, data |-> d, dirty |-> b]]
        /\ free' = free /\ resident' = Append(RemoveAt(resident, 1), e) /\ file' = evicted(i)
    BY <1>5, <2>1 DEF admit
  <2> HIDE DEF i
  <2>4. e \in Entries /\ e[1] = p /\ e[2] = i
    BY <2>2 DEF Entries
  <2> HIDE DEF e
  <2>5. /\ resident' \in Seq(Entries) /\ Len(resident') = n
        /\ \A k \in 1 .. n : resident'[k] = IF k < 1 THEN resident[k]
                                           ELSE IF k < n THEN resident[k + 1] ELSE e
    BY <1>1, <2>1, <2>3, <2>4, MoveFacts
  <2>6. /\ frames' \in [FrameIds -> [page : Pages \union {NoPage}, data : Data, dirty : BOOLEAN]]
        /\ frames'[i].page = p /\ frames'[i].data = d /\ frames'[i].dirty = b
        /\ \A j \in FrameIds : j # i => frames'[j] = frames[j]
    BY <1>1, <2>2, <2>3, FrameUpdate
  <2>7. frames[i].page = resident[1][1] /\ resident[1][1] # p
    BY <1>3, <2>1 DEF TableIsAMap, i
  <2>8. file' \in [Pages -> Data] /\ \A q \in Pages : q # resident[1][1] => file'[q] = file[q]
    BY <2>2, <2>3, <2>7 DEF evicted, TypeOK
  <2>9. TypeOK'
    BY <1>1, <1>2, <2>3, <2>5, <2>6, <2>8 DEF TypeOK
  <2>10. \A k \in 1 .. n : k < n =>
               /\ resident'[k] = resident[k + 1] /\ k + 1 \in 1 .. n
               /\ resident[k + 1][2] \in FrameIds /\ resident[k + 1][2] # i
               /\ resident[k + 1][1] \in Pages /\ resident[k + 1][1] # resident[1][1]
               /\ frames'[resident[k + 1][2]] = frames[resident[k + 1][2]]
    <3>1. \A k \in 1 .. n : k < n => resident'[k] = resident[k + 1] /\ k + 1 \in 1 .. n /\ k + 1 # 1
      BY <2>0, <2>5
    <3>2. \A k \in 1 .. n : k # 1 => /\ resident[k][2] \in FrameIds /\ resident[k][2] # i
                                  /\ resident[k][1] \in Pages /\ resident[k][1] # resident[1][1]
      BY <2>1, Lists, FramesUsedOnce DEF TableIsAMap, i
    <3> QED BY <2>6, <3>1, <3>2
  <2>11. n \in 1 .. n /\ resident'[n] = e /\ \A k \in 1 .. n : k < n \/ k = n
    BY <2>0, <2>5
  <2>12. TableIsAMap'
    <3>1. ASSUME NEW j \in 1 .. n, NEW k \in 1 .. n, resident'[j][1] = resident'[k][1] PROVE j = k
      <4>1. CASE j < n /\ k < n
        <5>1. j + 1 = k + 1
          BY <2>10, <3>1, <4>1 DEF TableIsAMap
        <5> QED BY <5>1, <2>0
      <4>2. CASE j = n /\ k < n
        BY <1>3, <2>4, <2>10, <2>11, <3>1, <4>2
      <4>3. CASE j < n /\ k = n
        BY <1>3, <2>4, <2>10, <2>11, <3>1, <4>3
      <4> QED BY <2>11, <4>1, <4>2, <4>3
    <3>2. \A k \in 1 .. n : frames'[resident'[k][2]].page = resident'[k][1]
      BY <2>4, <2>6, <2>10, <2>11 DEF TableIsAMap
    <3> QED BY <2>5, <3>1, <3>2 DEF TableIsAMap
  <2>13. CleanIsWritten'
    <3>1. \A k \in 1 .. n : ~frames'[resident'[k][2]].dirty
                => frames'[resident'[k][2]].data = file'[resident'[k][1]]
      BY <2>4, <2>6, <2>7, <2>8, <2>10, <2>11 DEF CleanIsWritten
    <3> QED BY <2>5, <3>1 DEF CleanIsWritten
  <2>14. StackIsFree'
    <3>1. ASSUME NEW j \in FrameIds
          PROVE  \E k \in 1 .. n : resident'[k][2] = j
      <4>1. PICK k \in 1 .. n : resident[k][2] = j
        BY <1>1, <2>0 DEF StackIsFree
      <4>2. CASE k = 1
        BY <2>4, <2>11, <4>1, <4>2 DEF i
      <4>3. CASE k # 1
        <5>1. k - 1 \in 1 .. n /\ k - 1 < n /\ (k - 1) + 1 = k
          BY <2>0, <4>3
        <5> QED BY <2>10, <4>1, <5>1
      <4> QED BY <4>2, <4>3
    <3>2. Len(free') = 0 /\ Len(free') + Len(resident') = Capacity
      BY <2>0, <2>3, <2>5
    <3> QED BY <2>5, <3>1, <3>2 DEF StackIsFree
  <2>15. MostRecentResident'
    <3>1. ASSUME NEW k \in 1 .. Len(resident')
          PROVE  resident'[k][1] = IF k < Len(resident') THEN resident[k + 1][1] ELSE p
      BY <2>4, <2>5, <2>10, <2>11
    <3>2. Len(resident') = n - 1 + 1 /\ 1 <= n /\ 1 \in {0, 1}
      BY <2>0, <2>5
    <3> QED BY <3>1, <3>2, MissIsMostRecent
  <2>16. Current' = [Current EXCEPT ![p] = d]
    <3>1. CurrentIsExact'
      BY <2>9, <2>12, CurrentAfter
    <3>2. ASSUME NEW q \in Pages PROVE Current'[q] = IF q = p THEN d ELSE Current[q]
      <4>1. CASE q = p
        BY <2>4, <2>5, <2>6, <2>11, <3>1, <4>1 DEF CurrentIsExact
      <4>2. CASE q # p /\ q = resident[1][1]
        <5>1. \A k \in 1 .. n : resident'[k][1] # q
          BY <2>4, <2>10, <2>11, <4>2
        <5>2. Current'[q] = file'[q]
          BY <2>5, <3>1, <5>1 DEF CurrentIsExact
        <5>3. Current[q] = frames[i].data
          BY <1>6, <2>1, <4>2 DEF CurrentIsExact, i
        <5>4. file'[q] = frames[i].data
          <6>1. CASE frames[i].dirty
            BY <2>2, <2>3, <2>7, <4>2, <6>1 DEF evicted, TypeOK
          <6>2. CASE ~frames[i].dirty
            BY <2>1, <2>3, <4>2, <6>2 DEF evicted, CleanIsWritten, i
          <6> QED BY <6>1, <6>2
        <5> QED BY <4>2, <5>2, <5>3, <5>4
      <4>3. CASE q # p /\ q # resident[1][1] /\ \E k \in 1 .. n : resident[k][1] = q
        <5>1. PICK k \in 1 .. n : resident[k][1] = q
          BY <4>3
        <5>2. k - 1 \in 1 .. n /\ k - 1 < n /\ (k - 1) + 1 = k
          BY <2>0, <4>3, <5>1
        <5>3. Current'[q] = frames'[resident'[k - 1][2]].data
          BY <2>5, <2>10, <3>1, <5>1, <5>2 DEF CurrentIsExact
        <5> QED BY <1>6, <2>10, <4>3, <5>1, <5>2, <5>3 DEF CurrentIsExact
      <4>4. CASE q # p /\ \A k \in 1 .. n : resident[k][1] # q
        <5>1. \A k \in 1 .. n : resident'[k][1] # q
          BY <2>4, <2>10, <2>11, <4>4
        <5>2. Current'[q] = file'[q] /\ file'[q] = file[q]
          BY <2>1, <2>5, <2>8, <3>1, <4>4, <5>1 DEF CurrentIsExact
        <5> QED BY <1>6, <4>4, <5>2 DEF CurrentIsExact
      <4> QED BY <4>1, <4>2, <4>3, <4>4
    <3> QED BY <1>6, <3>1, <3>2 DEF CurrentIsExact
  <2>17. file' = file \/ \E q \in Pages : file' = [file EXCEPT ![q] = Current[q]]
    <3>1. Current[resident[1][1]] = frames[i].data
      BY <1>6, <2>1 DEF CurrentIsExact, i
    <3> QED BY <2>2, <2>3, <2>7, <3>1 DEF evicted
  <2> QED BY <1>2, <2>9, <2>12, <2>13, <2>14, <2>15, <2>16, <2>17
<1> QED BY <1>4, <1>5

\* A hit, with the frame rewritten (store) or left alone (fetch).
LEMMA HitInv ==
    ASSUME IInv, NEW p \in Pages, contains(p), resident' = move_to_end(p), Touch(p),
           free' = free, file' = file,
           \/ frames' = frames
           \/ \E d \in Data : frames' = [frames EXCEPT ![FrameOf(p)] =
                                          [page |-> p, data |-> d, dirty |-> TRUE]]
    PROVE  /\ IInv'
           /\ frames' = frames => Current' = Current
           /\ \A d \in Data :
                 frames' = [frames EXCEPT ![FrameOf(p)] = [page |-> p, data |-> d, dirty |-> TRUE]]
                     => Current' = [Current EXCEPT ![p] = d]
<1> DEFINE n == Len(resident)
           i == FrameOf(p)
<1>0. TypeOK /\ TableIsAMap /\ StackIsFree /\ CleanIsWritten /\ TouchedOnce
  BY DEF IInv
<1>1. /\ TypeOK /\ n \in Nat /\ Position(p) \in 1 .. n /\ i \in FrameIds
      /\ resident[Position(p)][1] = p /\ resident[Position(p)][2] = i
  BY <1>0, Found, Lists DEF FrameOf
<1>2. touched' \in Seq(Pages) /\ TouchedOnce'
  BY <1>0, TouchFacts
<1>3. /\ resident' \in Seq(Entries)
      /\ Len(resident') = n
      /\ \A k \in 1 .. n : \E j \in 1 .. n : resident'[k] = resident[j]
      /\ \A j \in 1 .. n : \E k \in 1 .. n : resident'[k] = resident[j]
      /\ \A j, k \in 1 .. n : resident'[j][1] = resident'[k][1] => j = k
      /\ MostRecentResident'
  BY HitFacts
<1> HIDE DEF i
<1>4. \/ frames' = frames
      \/ /\ frames'[i].page = p /\ frames'[i].dirty = TRUE
         /\ \A j \in FrameIds : j # i => frames'[j] = frames[j]
  <2>1. CASE \E d \in Data : frames' = [frames EXCEPT ![i] = [page |-> p, data |-> d, dirty |-> TRUE]]
    BY <1>1, <2>1 DEF TypeOK
  <2> QED BY <2>1 DEF i
<1>5. frames' \in [FrameIds -> [page : Pages \union {NoPage}, data : Data, dirty : BOOLEAN]]
  <2>1. CASE \E d \in Data : frames' = [frames EXCEPT ![i] = [page |-> p, data |-> d, dirty |-> TRUE]]
    BY <1>1, <2>1 DEF TypeOK
  <2> QED BY <1>0, <2>1 DEF i, TypeOK
<1>6. TypeOK'
  BY <1>0, <1>2, <1>3, <1>5 DEF TypeOK
<1>7. \A j \in 1 .. n : resident[j][2] \in FrameIds /\ (resident[j][2] = i => j = Position(p))
  BY <1>0, <1>1, Lists, FramesUsedOnce
<1>8. \A j \in 1 .. n : frames'[resident[j][2]].page = resident[j][1]
  BY <1>0, <1>1, <1>4, <1>7 DEF TableIsAMap
<1>9. TableIsAMap'
  <2>1. ASSUME NEW k \in 1 .. n PROVE frames'[resident'[k][2]].page = resident'[k][1]
    <3>1. PICK j \in 1 .. n : resident'[k] = resident[j]
      BY <1>3
    <3> QED BY <1>8, <3>1
  <2> QED BY <1>3, <2>1 DEF TableIsAMap
<1>10. \A j \in 1 .. n : ~frames'[resident[j][2]].dirty
                => frames'[resident[j][2]].data = file[resident[j][1]]
  BY <1>0, <1>4, <1>7 DEF CleanIsWritten
<1>11. CleanIsWritten'
  <2>1. ASSUME NEW k \in 1 .. n, ~frames'[resident'[k][2]].dirty
        PROVE  frames'[resident'[k][2]].data = file[resident'[k][1]]
    <3>1. PICK j \in 1 .. n : resident'[k] = resident[j]
      BY <1>3
    <3> QED BY <1>10, <2>1, <3>1
  <2> QED BY <1>3, <2>1 DEF CleanIsWritten
<1>12. StackIsFree'
  <2>1. \A k \in 1 .. Len(free) : free[k] \in FrameIds /\ free[k] # i
    BY <1>0, <1>1, Lists, FramesUsedOnce
  <2>2. \A k \in 1 .. Len(free) : frames'[free[k]] = frames[free[k]]
    BY <1>4, <2>1
  <2>3. ASSUME NEW j \in FrameIds
        PROVE  \/ \E k \in 1 .. Len(free) : free[k] = j
               \/ \E k \in 1 .. n : resident'[k][2] = j
    <3>1. CASE \E k \in 1 .. n : resident[k][2] = j
      <4>1. PICK k \in 1 .. n : resident[k][2] = j
        BY <3>1
      <4>2. PICK c \in 1 .. n : resident'[c] = resident[k]
        BY <1>3
      <4> QED BY <4>1, <4>2
    <3> QED BY <1>0, <3>1 DEF StackIsFree
  <2>4. /\ \A j, k \in 1 .. Len(free) : free[j] = free[k] => j = k
        /\ \A k \in 1 .. Len(free) : frames'[free[k]].page = NoPage /\ ~frames'[free[k]].dirty
        /\ Len(free) + n = Capacity
    BY <1>0, <2>2 DEF StackIsFree
  <2> QED BY <1>3, <2>3, <2>4 DEF StackIsFree
<1>13. CurrentIsExact /\ CurrentIsExact'
  BY <1>0, <1>6, <1>9, CurrentFacts, CurrentAfter
<1>14. ASSUME NEW q \in Pages, \A k \in 1 .. n : resident[k][1] # q
       PROVE  Current'[q] = Current[q] /\ q # p
  <2>1. ASSUME NEW k \in 1 .. n PROVE resident'[k][1] # q
    <3>1. PICK j \in 1 .. n : resident'[k] = resident[j]
      BY <1>3
    <3> QED BY <1>14, <3>1
  <2>2. Current[q] = file[q]
    BY <1>13, <1>14 DEF CurrentIsExact
  <2>3. Current'[q] = file'[q]
    BY <1>3, <1>13, <2>1 DEF CurrentIsExact
  <2> QED BY <1>1, <1>14, <2>2, <2>3
<1>15. ASSUME NEW k \in 1 .. n
       PROVE  Current'[resident[k][1]] = frames'[resident[k][2]].data
  <2>1. PICK j \in 1 .. n : resident'[j] = resident[k]
    BY <1>3
  <2>2. \A c \in 1 .. n : Current'[resident'[c][1]] = frames'[resident'[c][2]].data
    BY <1>3, <1>13 DEF CurrentIsExact
  <2> QED BY <2>1, <2>2
<1>16. \A k \in 1 .. n : Current[resident[k][1]] = frames[resident[k][2]].data
  BY <1>13 DEF CurrentIsExact
<1>17. ASSUME frames' = frames PROVE Current' = Current
  <2>1. ASSUME NEW q \in Pages PROVE Current'[q] = Current[q]
    <3>1. CASE \E k \in 1 .. n : resident[k][1] = q
      BY <1>15, <1>16, <1>17, <3>1
    <3> QED BY <1>14, <3>1
  <2> QED BY <1>13, <2>1 DEF CurrentIsExact
<1>18. ASSUME NEW d \in Data,
              frames' = [frames EXCEPT ![i] = [page |-> p, data |-> d, dirty |-> TRUE]]
       PROVE  Current' = [Current EXCEPT ![p] = d]
  <2>1. frames'[i].data = d /\ \A j \in FrameIds : j # i => frames'[j] = frames[j]
    BY <1>0, <1>1, <1>18 DEF TypeOK
  <2>2. ASSUME NEW q \in Pages PROVE Current'[q] = IF q = p THEN d ELSE Current[q]
    <3>1. CASE q = p
      BY <1>1, <1>15, <2>1, <3>1
    <3>2. CASE q # p /\ \E k \in 1 .. n : resident[k][1] = q
      <4>1. PICK k \in 1 .. n : resident[k][1] = q
        BY <3>2
      <4>2. resident[k][2] \in FrameIds /\ resident[k][2] # i
        BY <1>1, <1>7, <3>2, <4>1
      <4> QED BY <1>15, <1>16, <2>1, <3>2, <4>1, <4>2
    <3> QED BY <1>14, <3>1, <3>2
  <2> QED BY <1>13, <2>2 DEF CurrentIsExact
<1>19. IInv'
  BY <1>2, <1>3, <1>6, <1>9, <1>11, <1>12 DEF IInv
<1> QED BY <1>17, <1>18, <1>19 DEF i

\* invalidate: the frame goes back to the stack and what it held is forgotten.
LEMMA InvalidateInv ==
    ASSUME IInv, NEW p \in Pages, invalidate(p)
    PROVE  IInv' /\ Current' = [Current EXCEPT ![p] = file[p]]
<1>0. /\ TypeOK /\ TableIsAMap /\ StackIsFree /\ CleanIsWritten /\ TouchedOnce
      /\ MostRecentResident
  BY DEF IInv
<1> DEFINE n == Len(resident)
           h == Position(p)
           i == FrameOf(p)
           old(k) == IF k < h THEN k ELSE k + 1
<1>1. /\ TypeOK /\ n \in Nat /\ h \in 1 .. n /\ i \in FrameIds
      /\ resident[h][1] = p /\ resident[h][2] = i
      /\ resident \in Seq(Entries) /\ free \in Seq(FrameIds) /\ Len(free) \in Nat
      /\ touched \in Seq(Pages) /\ Len(touched) \in Nat
  BY <1>0, Found, Lists DEF FrameOf, invalidate, TypeOK
<1>2. /\ resident' = RemoveAt(resident, h) /\ free' = Append(free, i)
      /\ frames' = [frames EXCEPT ![i].page = NoPage, ![i].dirty = FALSE]
      /\ touched' = RemoveFirst(touched, p) /\ file' = file
  BY DEF invalidate, Without
<1>3. /\ resident' \in Seq(Entries) /\ Len(resident') = n - 1
      /\ \A k \in 1 .. n - 1 : resident'[k] = IF k < h THEN resident[k] ELSE resident[k + 1]
  BY <1>1, <1>2, RemoveAtFacts
<1>4. /\ free' \in Seq(FrameIds) /\ Len(free') = Len(free) + 1
      /\ \A k \in 1 .. Len(free) + 1 : free'[k] = IF k <= Len(free) THEN free[k] ELSE i
  BY <1>1, <1>2, AppendFacts
<1> HIDE DEF h, i
<1>5. /\ frames' \in [FrameIds -> [page : Pages \union {NoPage}, data : Data, dirty : BOOLEAN]]
      /\ frames'[i].page = NoPage /\ frames'[i].dirty = FALSE
      /\ \A j \in FrameIds : j # i => frames'[j] = frames[j]
  <2> DEFINE F == [page : Pages \union {NoPage}, data : Data, dirty : BOOLEAN]
             was == frames[i]
             x == [was EXCEPT !.page = NoPage, !.dirty = FALSE]
  <2>1. frames \in [FrameIds -> F] /\ was \in F
    BY <1>1 DEF TypeOK
  <2>2. frames' = [frames EXCEPT ![i] = x]
    BY <1>2, <2>1
  <2> HIDE DEF was
  <2>3. x \in F /\ x.page = NoPage /\ x.dirty = FALSE
    BY <2>1
  <2> HIDE DEF x, F
  <2>4. frames' \in [FrameIds -> F] /\ frames'[i] = x
    BY <1>1, <2>1, <2>2, <2>3
  <2>5. \A j \in FrameIds : j # i => frames'[j] = frames[j]
    BY <2>1, <2>2
  <2> QED BY <2>3, <2>4, <2>5 DEF F
<1>6. /\ \A k \in 1 .. n - 1 : old(k) \in 1 .. n /\ old(k) # h /\ resident'[k] = resident[old(k)]
      /\ \A j, k \in 1 .. n - 1 : old(j) = old(k) => j = k
      /\ \A j \in 1 .. n : j # h => \E k \in 1 .. n - 1 : old(k) = j
  <2>1. \A k \in 1 .. n - 1 : old(k) \in 1 .. n /\ old(k) # h
    BY <1>1
  <2>2. \A j, k \in 1 .. n - 1 : old(j) = old(k) => j = k
    BY <1>1
  <2>3. ASSUME NEW j \in 1 .. n, j # h PROVE \E k \in 1 .. n - 1 : old(k) = j
    <3>1. CASE j < h
      <4>1. j \in 1 .. n - 1 /\ old(j) = j
        BY <1>1, <3>1
      <4> QED BY <4>1
    <3>2. CASE j > h
      <4>1. j - 1 \in 1 .. n - 1 /\ old(j - 1) = j
        BY <1>1, <3>2
      <4> QED BY <4>1
    <3> QED BY <1>1, <2>3, <3>1, <3>2
  <2> QED BY <1>3, <2>1, <2>2, <2>3
<1>7. MostRecentResident' /\ TouchedOnce' /\ touched' \in Seq(Pages)
  <2> DEFINE m == Len(touched)
  <2>1. n <= m /\ \A k \in 1 .. n : resident[k][1] = touched[m - n + k]
    BY <1>0 DEF MostRecentResident
  <2>2. m - n + h \in 1 .. m /\ touched[m - n + h] = p
    BY <1>1, <2>1
  <2>3. PICK c \in 1 .. m : touched[c] = p /\ touched' = RemoveAt(touched, c)
    BY <1>1, <1>2, <2>2, RemoveFirstFacts
  <2>4. c = m - n + h
    BY <1>0, <2>2, <2>3 DEF TouchedOnce
  <2>5. /\ touched' \in Seq(Pages) /\ Len(touched') = m - 1
        /\ \A k \in 1 .. m - 1 : touched'[k] = IF k < c THEN touched[k] ELSE touched[k + 1]
    BY <1>1, <2>3, RemoveAtFacts
  <2>6. TouchedOnce'
    <3> DEFINE was(k) == IF k < c THEN k ELSE k + 1
    <3>1. \A k \in 1 .. m - 1 : was(k) \in 1 .. m /\ touched'[k] = touched[was(k)]
      <4>1. \A k \in 1 .. m - 1 : was(k) \in 1 .. m
        BY <1>1
      <4> QED BY <2>5, <4>1
    <3>2. \A j, k \in 1 .. m - 1 : was(j) = was(k) => j = k
      BY <1>1
    <3> HIDE DEF was
    <3>3. \A j, k \in 1 .. m - 1 : touched'[j] = touched'[k] => j = k
      BY <1>0, <3>1, <3>2 DEF TouchedOnce
    <3> QED BY <2>5, <3>3 DEF TouchedOnce
  <2>7. ASSUME NEW k \in 1 .. n - 1
        PROVE  resident'[k][1] = touched'[m - 1 - (n - 1) + k]
    <3>1. m - 1 - (n - 1) + k = m - n + k /\ m - n + k \in 1 .. m - 1 /\ k \in 1 .. n /\ k + 1 \in 1 .. n
      BY <1>1, <2>1
    <3>2. CASE k < h
      <4>1. m - n + k < c
        BY <1>1, <2>1, <2>4, <3>2
      <4>2. touched'[m - n + k] = touched[m - n + k] /\ resident'[k] = resident[k]
        BY <1>3, <2>5, <3>1, <3>2, <4>1
      <4> QED BY <2>1, <3>1, <4>2
    <3>3. CASE ~(k < h)
      <4>1. ~(m - n + k < c) /\ m - n + k + 1 = m - n + (k + 1)
        BY <1>1, <2>1, <2>4, <3>3
      <4>2. touched'[m - n + k] = touched[m - n + (k + 1)] /\ resident'[k] = resident[k + 1]
        BY <1>3, <2>5, <3>1, <3>3, <4>1
      <4> QED BY <2>1, <3>1, <4>2
    <3> QED BY <3>2, <3>3
  <2>8. n - 1 <= m - 1
    BY <1>1, <2>1
  <2>9. MostRecentResident'
    BY <1>3, <2>5, <2>7, <2>8 DEF MostRecentResident
  <2> QED BY <2>5, <2>6, <2>9
<1>8. TypeOK'
  BY <1>0, <1>2, <1>3, <1>4, <1>5, <1>7 DEF TypeOK
<1> HIDE DEF old
<1>9. \A k \in 1 .. n - 1 : resident[old(k)][2] \in FrameIds /\ resident[old(k)][2] # i
  BY <1>0, <1>1, <1>6, Lists, FramesUsedOnce
<1>10. \A k \in 1 .. n - 1 : frames'[resident'[k][2]] = frames[resident[old(k)][2]]
  BY <1>5, <1>6, <1>9
<1>11. TableIsAMap'
  <2>1. ASSUME NEW j \in 1 .. n - 1, NEW k \in 1 .. n - 1, resident'[j][1] = resident'[k][1]
        PROVE  j = k
    <3>1. resident[old(j)][1] = resident[old(k)][1] /\ old(j) \in 1 .. n /\ old(k) \in 1 .. n
      BY <1>6, <2>1
    <3>2. old(j) = old(k)
      BY <1>0, <3>1 DEF TableIsAMap
    <3> QED BY <1>6, <3>2
  <2>2. ASSUME NEW k \in 1 .. n - 1 PROVE frames'[resident'[k][2]].page = resident'[k][1]
    <3>1. old(k) \in 1 .. n /\ resident'[k] = resident[old(k)]
      BY <1>6
    <3>2. frames[resident[old(k)][2]].page = resident[old(k)][1]
      BY <1>0, <3>1 DEF TableIsAMap
    <3> QED BY <1>10, <3>1, <3>2
  <2> QED BY <1>3, <2>1, <2>2 DEF TableIsAMap
<1>12. CleanIsWritten'
  <2>1. ASSUME NEW k \in 1 .. n - 1, ~frames'[resident'[k][2]].dirty
        PROVE  frames'[resident'[k][2]].data = file[resident'[k][1]]
    <3>1. old(k) \in 1 .. n /\ resident'[k] = resident[old(k)]
      BY <1>6
    <3>2. frames'[resident'[k][2]] = frames[resident[old(k)][2]]
      BY <1>10, <3>1
    <3>3. ~frames[resident[old(k)][2]].dirty
                => frames[resident[old(k)][2]].data = file[resident[old(k)][1]]
      BY <1>0, <3>1 DEF CleanIsWritten
    <3> QED BY <2>1, <3>1, <3>2, <3>3
  <2> QED BY <1>2, <1>3, <2>1 DEF CleanIsWritten
<1>13. StackIsFree'
  <2>1. \A k \in 1 .. Len(free) : /\ free[k] \in FrameIds /\ free[k] # i /\ free'[k] = free[k]
                                /\ k \in 1 .. Len(free')
    <3>1. \A k \in 1 .. Len(free) : free[k] \in FrameIds /\ free[k] # i
      BY <1>0, <1>1, Lists, FramesUsedOnce
    <3> QED BY <1>1, <1>4, <3>1
  <2>2. /\ Len(free') \in 1 .. Len(free') /\ free'[Len(free')] = i
        /\ \A k \in 1 .. Len(free') : k \in 1 .. Len(free) \/ k = Len(free')
    BY <1>1, <1>4
  <2>3. \A j, k \in 1 .. Len(free') : free'[j] = free'[k] => j = k
    BY <1>0, <2>1, <2>2 DEF StackIsFree
  <2>4. \A k \in 1 .. Len(free') : frames'[free'[k]].page = NoPage /\ ~frames'[free'[k]].dirty
    BY <1>0, <1>5, <2>1, <2>2 DEF StackIsFree
  <2>5. ASSUME NEW j \in FrameIds
        PROVE  \/ \E k \in 1 .. Len(free') : free'[k] = j
               \/ \E k \in 1 .. Len(resident') : resident'[k][2] = j
    <3>1. CASE \E k \in 1 .. Len(free) : free[k] = j
      BY <2>1, <3>1
    <3>2. CASE \E k \in 1 .. n : resident[k][2] = j
      <4>1. PICK k \in 1 .. n : resident[k][2] = j
        BY <3>2
      <4>2. CASE k = h
        BY <1>1, <2>2, <4>1, <4>2
      <4>3. CASE k # h
        BY <1>3, <1>6, <4>1, <4>3
      <4> QED BY <4>2, <4>3
    <3> QED BY <1>0, <3>1, <3>2 DEF StackIsFree
  <2>6. Len(free') + Len(resident') = Capacity
    BY <1>0, <1>1, <1>3, <1>4 DEF StackIsFree
  <2> QED BY <2>3, <2>4, <2>5, <2>6 DEF StackIsFree
<1>14. Current' = [Current EXCEPT ![p] = file[p]]
  <2>1. CurrentIsExact /\ CurrentIsExact'
    BY <1>0, <1>8, <1>11, CurrentFacts, CurrentAfter
  <2>2. ASSUME NEW q \in Pages PROVE Current'[q] = IF q = p THEN file[p] ELSE Current[q]
    <3>1. CASE q = p
      <4>1. ASSUME NEW k \in 1 .. n - 1 PROVE resident'[k][1] # q
        <5>1. old(k) \in 1 .. n /\ old(k) # h /\ resident'[k] = resident[old(k)]
          BY <1>6
        <5> QED BY <1>0, <1>1, <3>1, <5>1 DEF TableIsAMap
      <4> QED BY <1>2, <1>3, <2>1, <3>1, <4>1 DEF CurrentIsExact
    <3>2. CASE q # p /\ \E k \in 1 .. n : resident[k][1] = q
      <4>1. PICK k \in 1 .. n : resident[k][1] = q
        BY <3>2
      <4>2. PICK j \in 1 .. n - 1 : old(j) = k
        BY <1>1, <1>6, <3>2, <4>1
      <4>3. Current'[q] = frames'[resident'[j][2]].data
        BY <1>3, <1>6, <2>1, <4>1, <4>2 DEF CurrentIsExact
      <4> QED BY <1>10, <2>1, <3>2, <4>1, <4>2, <4>3 DEF CurrentIsExact
    <3>3. CASE q # p /\ \A k \in 1 .. n : resident[k][1] # q
      <4>1. \A k \in 1 .. n - 1 : resident'[k][1] # q
        BY <1>6, <3>3
      <4> QED BY <1>2, <1>3, <2>1, <3>3, <4>1 DEF CurrentIsExact
    <3> QED BY <3>1, <3>2, <3>3
  <2> QED BY <2>1, <2>2 DEF CurrentIsExact
<1> QED BY <1>7, <1>8, <1>11, <1>12, <1>13, <1>14 DEF IInv

\* Flushing writes to every page what a fetch of it returns.
LEMMA FlushWritesCurrent ==
    ASSUME IInv
    PROVE  Flushed = Current /\ CurrentIsExact
<1>1. TypeOK /\ TableIsAMap /\ CleanIsWritten
  BY DEF IInv
<1>2. ASSUME NEW p \in Pages, contains(p), ~frames[FrameOf(p)].dirty
      PROVE  frames[FrameOf(p)].data = file[p]
  BY <1>1, <1>2, Found DEF CleanIsWritten, FrameOf
<1> QED BY <1>1, <1>2, CurrentFacts DEF Flushed, Current

\* flush: the file catches up with the frames.
LEMMA FlushInv ==
    ASSUME IInv, flush
    PROVE  IInv' /\ file' = Current /\ Current' = Current
<1>1. /\ TypeOK /\ TableIsAMap /\ StackIsFree /\ TouchedOnce /\ MostRecentResident
      /\ CurrentIsExact
  BY FlushWritesCurrent DEF IInv
<1>2. /\ file' = Current /\ frames' = [i \in FrameIds |-> [frames[i] EXCEPT !.dirty = FALSE]]
      /\ free' = free /\ resident' = resident /\ touched' = touched
  BY FlushWritesCurrent DEF flush
<1>3. \A i \in FrameIds : /\ frames'[i].page = frames[i].page /\ frames'[i].data = frames[i].data
                        /\ frames'[i].dirty = FALSE
  BY <1>1, <1>2 DEF TypeOK
<1>4. TypeOK'
  <2>1. frames' \in [FrameIds -> [page : Pages \union {NoPage}, data : Data, dirty : BOOLEAN]]
    BY <1>1, <1>2 DEF TypeOK
  <2> QED BY <1>1, <1>2, <2>1 DEF TypeOK, CurrentIsExact
<1>5. \A k \in 1 .. Len(resident) : resident[k][2] \in FrameIds /\ resident[k][1] \in Pages
  BY <1>1, Lists
<1>6. TableIsAMap'
  BY <1>1, <1>2, <1>3, <1>5 DEF TableIsAMap
<1>7. \A k \in 1 .. Len(free) : free[k] \in FrameIds
  BY <1>1, Lists
<1>8. StackIsFree'
  BY <1>1, <1>2, <1>3, <1>7 DEF StackIsFree
<1>9. CleanIsWritten'
  BY <1>1, <1>2, <1>3, <1>5 DEF CleanIsWritten, CurrentIsExact
<1>10. CurrentIsExact'
  BY <1>4, <1>6, CurrentAfter
<1>11. ASSUME NEW q \in Pages PROVE Current'[q] = Current[q]
  BY <1>1, <1>2, <1>3, <1>5, <1>10 DEF CurrentIsExact
<1>12. Current' = Current
  BY <1>1, <1>10, <1>11 DEF CurrentIsExact
<1>13. TouchedOnce' /\ MostRecentResident'
  BY <1>1, <1>2 DEF TouchedOnce, MostRecentResident
<1> QED BY <1>2, <1>4, <1>6, <1>8, <1>9, <1>12, <1>13 DEF IInv

\* clear: every frame is free again.
LEMMA ClearInv ==
    ASSUME IInv, NEW flushing \in BOOLEAN, clear(flushing)
    PROVE  IInv' /\ Current' = file' /\ file' = IF flushing THEN Current ELSE file
<1>1. TypeOK /\ CurrentIsExact /\ Capacity \in Nat
  BY FlushWritesCurrent, PoolAssumption DEF IInv
<1>2. /\ file' = (IF flushing THEN Current ELSE file)
      /\ frames' = [i \in FrameIds |-> [frames[i] EXCEPT !.page = NoPage, !.dirty = FALSE]]
      /\ free' = AllFree /\ resident' = <<>> /\ touched' = <<>>
  BY FlushWritesCurrent DEF clear
<1>3. \A i \in FrameIds : frames'[i].page = NoPage /\ frames'[i].dirty = FALSE
  BY <1>1, <1>2 DEF TypeOK
<1>4. /\ AllFree \in Seq(FrameIds) /\ Len(AllFree) = Capacity
      /\ \A k \in 1 .. Capacity : AllFree[k] = Capacity + 1 - k /\ AllFree[k] \in FrameIds
      /\ \A i \in FrameIds : Capacity + 1 - i \in 1 .. Capacity /\ AllFree[Capacity + 1 - i] = i
  BY AllFreeFacts
<1>5. TypeOK'
  <2>1. frames' \in [FrameIds -> [page : Pages \union {NoPage}, data : Data, dirty : BOOLEAN]]
    BY <1>1, <1>2 DEF TypeOK
  <2>2. file' \in [Pages -> Data]
    BY <1>1, <1>2 DEF TypeOK, CurrentIsExact
  <2>3. free' \in Seq(FrameIds) /\ resident' \in Seq(Entries) /\ touched' \in Seq(Pages)
    BY <1>2, <1>4, EmptySeq
  <2> QED BY <2>1, <2>2, <2>3 DEF TypeOK
<1>6. Len(resident') = 0 /\ Len(touched') = 0
  BY <1>2
<1>7. TableIsAMap' /\ CleanIsWritten' /\ TouchedOnce' /\ MostRecentResident'
  BY <1>6 DEF TableIsAMap, CleanIsWritten, TouchedOnce, MostRecentResident
<1>8. StackIsFree'
  <2>1. Len(free') = Capacity /\ free' = AllFree
    BY <1>2, <1>4
  <2>2. \A j, k \in 1 .. Capacity : AllFree[j] = AllFree[k] => j = k
    BY <1>1, <1>4
  <2>3. \A k \in 1 .. Capacity : frames'[AllFree[k]].page = NoPage /\ ~frames'[AllFree[k]].dirty
    BY <1>3, <1>4
  <2>4. \A i \in FrameIds : \E k \in 1 .. Capacity : AllFree[k] = i
    BY <1>4
  <2>5. Capacity + 0 = Capacity
    BY <1>1
  <2> QED BY <1>6, <2>1, <2>2, <2>3, <2>4, <2>5 DEF StackIsFree
<1>9. CurrentIsExact'
  BY <1>5, <1>7, CurrentAfter
<1>10. Current' = file'
  BY <1>5, <1>6, <1>9 DEF CurrentIsExact, TypeOK
<1> QED BY <1>2, <1>5, <1>7, <1>8, <1>10 DEF IInv

---------------------------------------------------------------------------
(* The operations together.                                                *)

\* Every operation preserves the invariant and is a step of PageMemory.
LEMMA FetchStep ==
    ASSUME IInv, NEW p \in Pages, fetch(p)
    PROVE  IInv' /\ (Memory!WriteBackOne \/ UNCHANGED Memory!pvars)
<1>1. Touch(p)
  BY DEF fetch
<1>2. TypeOK /\ TableIsAMap /\ CurrentIsExact
  BY CurrentFacts DEF IInv
<1>3. CASE contains(p)
  <2>1. resident' = move_to_end(p) /\ frames' = frames /\ free' = free /\ file' = file
    BY <1>3 DEF fetch
  <2>2. IInv' /\ Current' = Current
    BY <1>1, <1>3, <2>1, HitInv
  <2> QED BY <2>1, <2>2 DEF Memory!pvars
<1>4. CASE ~contains(p)
  <2>1. admit(p, file[p], FALSE) /\ file[p] \in Data
    BY <1>2, <1>4 DEF fetch, TypeOK
  <2>2. /\ IInv' /\ Current' = [Current EXCEPT ![p] = file[p]]
        /\ file' = file \/ \E q \in Pages : file' = [file EXCEPT ![q] = Current[q]]
    BY <1>1, <1>4, <2>1, AdmitInv
  <2>3. Current[p] = file[p]
    BY <1>2, <1>4, Lists DEF CurrentIsExact, contains
  <2>4. Current' = Current
    BY <1>2, <2>2, <2>3 DEF CurrentIsExact
  <2> QED BY <2>2, <2>4 DEF Memory!pvars, Memory!WriteBackOne
<1> QED BY <1>3, <1>4

\* store is a Store of the memory.
LEMMA StoreStep ==
    ASSUME IInv, NEW p \in Pages, NEW d \in Data, store(p, d)
    PROVE  IInv' /\ Memory!Store
<1>1. Touch(p)
  BY DEF store
<1>2. CASE contains(p)
  <2>1. /\ frames' = [frames EXCEPT ![FrameOf(p)] = [page |-> p, data |-> d, dirty |-> TRUE]]
        /\ resident' = move_to_end(p) /\ free' = free /\ file' = file
    BY <1>2 DEF store
  <2>2. IInv' /\ Current' = [Current EXCEPT ![p] = d]
    BY <1>1, <1>2, <2>1, HitInv
  <2> QED BY <2>1, <2>2 DEF Memory!Store
<1>3. CASE ~contains(p)
  <2>1. admit(p, d, TRUE)
    BY <1>3 DEF store
  <2>2. /\ IInv' /\ Current' = [Current EXCEPT ![p] = d]
        /\ file' = file \/ \E q \in Pages : file' = [file EXCEPT ![q] = Current[q]]
    BY <1>1, <1>3, <2>1, AdmitInv
  <2> QED BY <2>2 DEF Memory!Store
<1> QED BY <1>2, <1>3

\* invalidate is a Drop of the memory.
LEMMA InvalidateStep ==
    ASSUME IInv, NEW p \in Pages, invalidate(p)
    PROVE  IInv' /\ Memory!Drop
<1>1. file' = file
  BY DEF invalidate
<1> QED BY <1>1, InvalidateInv DEF Memory!Drop

\* Every step preserves the invariant and is a step of the memory, or none.
LEMMA NextStep == IInv /\ [Next]_vars => IInv' /\ [Memory!Next]_(Memory!pvars)
<1> SUFFICES ASSUME IInv, [Next]_vars PROVE IInv' /\ [Memory!Next]_(Memory!pvars)
  OBVIOUS
<1>1. CASE \E p \in Pages : fetch(p)
  BY <1>1, FetchStep DEF Memory!Next
<1>2. CASE \E p \in Pages : invalidate(p)
  BY <1>2, InvalidateStep DEF Memory!Next
<1>3. CASE \E p \in Pages, d \in Data : store(p, d)
  BY <1>3, StoreStep DEF Memory!Next
<1>4. CASE flush
  BY <1>4, FlushInv DEF Memory!Next, Memory!WriteBack
<1>5. CASE \E flushing \in BOOLEAN : clear(flushing)
  <2>1. PICK flushing \in BOOLEAN : clear(flushing)
    BY <1>5
  <2>2. IInv' /\ Current' = file' /\ file' = IF flushing THEN Current ELSE file
    BY <2>1, ClearInv
  <2> QED BY <2>2 DEF Memory!Next, Memory!WriteBack, Memory!Discard
<1>6. CASE UNCHANGED vars
  <2>1. /\ frames' = frames /\ free' = free /\ resident' = resident /\ file' = file
        /\ touched' = touched
    BY <1>6 DEF vars
  <2>2. IInv'
    BY <2>1
    DEF IInv, TypeOK, TableIsAMap, StackIsFree, CleanIsWritten, TouchedOnce, MostRecentResident
  <2>3. Current' = Current
    BY <2>1 DEF Current, contains, FrameOf, Position
  <2> QED BY <2>1, <2>2, <2>3 DEF Memory!pvars
<1> QED BY <1>1, <1>2, <1>3, <1>4, <1>5, <1>6 DEF Next

---------------------------------------------------------------------------
(* The theorems.                                                           *)

\* The pool of engine/storage/buffer.py never loses a frame, never hands one
\* out twice, and lists in the page table only frames that hold the page.
THEOREM FramesAreAccounted == Spec => []FramesAccounted
<1>1. IInv => FramesAccounted
  <2> SUFFICES ASSUME IInv PROVE FramesAccounted
    OBVIOUS
  <2>1. TypeOK /\ TableIsAMap /\ StackIsFree
    BY DEF IInv
  <2>2. /\ ToSet(resident) = {resident[k] : k \in 1 .. Len(resident)}
        /\ ToSet(free) = {free[k] : k \in 1 .. Len(free)}
    BY <2>1, Lists DEF ToSet
  <2>3. \A e \in ToSet(resident) : frames[e[2]].page = e[1]
    BY <2>1, <2>2 DEF TableIsAMap
  <2>4. \A i \in ToSet(free) : frames[i].page = NoPage /\ ~frames[i].dirty
    BY <2>1, <2>2 DEF StackIsFree
  <2>5. ToSet(free) \union {e[2] : e \in ToSet(resident)} = FrameIds
    <3>1. ToSet(free) \union {e[2] : e \in ToSet(resident)} \subseteq FrameIds
      BY <2>1, <2>2, Lists
    <3>2. ASSUME NEW i \in FrameIds PROVE i \in ToSet(free) \union {e[2] : e \in ToSet(resident)}
      BY <2>1, <2>2 DEF StackIsFree
    <3> QED BY <3>1, <3>2
  <2> QED BY <2>1, <2>3, <2>4, <2>5 DEF FramesAccounted, StackIsFree
<1> QED BY <1>1, InitInv, NextStep, PTL DEF Spec

\* _admit evicts exactly the least recently used page, whatever was fetched,
\* stored and invalidated before.
THEOREM EvictionIsLRU == Spec => []MostRecentResident
<1>1. IInv => MostRecentResident
  BY DEF IInv
<1> QED BY <1>1, InitInv, NextStep, PTL DEF Spec

\* The pool implements a plain memory: a fetch returns what was last stored,
\* and eviction, flush and clear write back nothing else.
THEOREM PoolImplementsMemory == Spec => ReadsLastStore
<1>1. Init => Memory!Init
  <2> SUFFICES ASSUME Init PROVE Memory!Init
    OBVIOUS
  <2>1. CurrentIsExact /\ Len(resident) = 0 /\ file \in [Pages -> Data]
    BY InitInv, CurrentFacts DEF IInv, Init
  <2>2. Current = file
    BY <2>1 DEF CurrentIsExact
  <2> QED BY <2>1, <2>2 DEF Memory!Init
<1> QED BY <1>1, InitInv, NextStep, PTL DEF Spec, ReadsLastStore, Memory!Spec
=============================================================================

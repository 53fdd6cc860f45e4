------------------------ MODULE StorageRecoveryProofs ------------------------
(***************************************************************************)
(* Atomicity and durability of the storage engine, for any number of       *)
(* pages, transactions and writes and any plan of crashes: what recovery   *)
(* makes of the files is the committed work, at every moment, and the      *)
(* engine implements AtomicStore.                                          *)
(*                                                                         *)
(* The argument is about the log by places. Staged records may reach the   *)
(* file up to any place k, so it says of every k from the end of the file  *)
(* to the end of the buffer what recovery would make of the first k        *)
(* records. A page is either put right by undo, because a transaction that *)
(* is unfinished at k left a before-image of it, and then the image is the *)
(* committed one; or redo alone has to give the committed rows.            *)
(***************************************************************************)
EXTENDS StorageProofs

(* The first k records of a log.                                           *)

\* The log file and what is staged behind it.
AllRecords == log \o buffer

IsEnding(r) == r.type \in {"commit", "abort"}
IsUpdate(r, p) == r.type = "update" /\ r.page = p

\* Transaction t neither committed nor aborted in the first k records.
Unfinished(s, k, t) == t # NO_TRANSACTION /\ \A j \in 1 .. k : IsEnding(s[j]) => s[j].txn # t

\* Undo would write a before-image of p.
Covered(s, k, p) ==
    \E i \in 1 .. k : /\ IsUpdate(s[i], p) /\ s[i].hasUndo
                      /\ Unfinished(s, k, s[i].txn)

\* Of the first k records, i is the last update of p that is newer than the
\* page in the file; it is 0 when there is none.
IsSource(d, s, k, p, i) ==
    /\ i > 0 => IsUpdate(s[i], p) /\ s[i].lsn > d[p].lsn
    /\ \A j \in i + 1 .. k : IsUpdate(s[j], p) => ~(s[j].lsn > d[p].lsn)

ImageAt(d, s, p, i) == IF i = 0 THEN d[p] ELSE s[i].after

\* Redo of the first k records leaves this image of p, or these rows on it.
Redone(d, s, k, p, image) ==
    \E i \in 0 .. k : IsSource(d, s, k, p, i) /\ image = ImageAt(d, s, p, i)
RedoneRows(d, s, k, p, rows) ==
    \E i \in 0 .. k : IsSource(d, s, k, p, i) /\ rows = ImageAt(d, s, p, i).rows

\* Recovery of the first k records gives the rows c.
SoundTo(d, s, k, c) == \A p \in Pages : Covered(s, k, p) \/ RedoneRows(d, s, k, p, c[p])

\* The before-images that undo may use are those of c.
ImagesOf(s, k, c) ==
    \A i \in 1 .. Len(s) :
        s[i].hasUndo /\ Unfinished(s, k, s[i].txn) => s[i].before.rows = c[s[i].page]

\* Some transaction in the first k records is unfinished there.
SomeLoser(s, k) == \E i \in 1 .. k : Unfinished(s, k, s[i].txn)

---------------------------------------------------------------------------
(* The inductive invariant.                                                *)

\* No page is ever evicted.
NoSteal == Cardinality(Pages) <= Capacity

Current(p) == IF pool[p].resident THEN pool[p].image ELSE disk[p]
Unsettled(p) == {n \in DOMAIN writes : writes[n].page = p /\ writes[n].fate = "pending"}
NothingPending == \A n \in DOMAIN writes : writes[n].fate # "pending"

\* The images are of pages: none is the mark for a missing one.
RealPages(d) == \A p \in Pages : d[p] # NoImage
RealRecords(s) ==
    \A i \in 1 .. Len(s) : /\ s[i].hasUndo => s[i].before # NoImage
                           /\ s[i].type = "update" => s[i].after # NoImage

LogIsWhole ==
    \A i \in 1 .. Len(AllRecords) :
        LET r == AllRecords[i]
        IN  /\ r.type # "torn" /\ r.lsn = metaLsn + i - 1
            /\ r.hasUndo => r.type = "update"
            /\ r.type = "update" => r.after.lsn = r.lsn

LogKnowsTransactions ==
    /\ \A i \in 1 .. Len(AllRecords) :
          LET r == AllRecords[i]
          IN  /\ \/ r.txn = NO_TRANSACTION \/ r.txn \in running
                 \/ ~Unfinished(AllRecords, Len(AllRecords), r.txn)
              /\ IsEnding(r) => r.txn \notin running
              /\ r.txn < nextXid
              /\ \A p \in Pages : IsUpdate(r, p) /\ r.txn \in running => p \in undo[r.txn].captured
    /\ \A x \in running : \A p \in undo[x].captured :
          \E i \in 1 .. Len(AllRecords) : /\ AllRecords[i].hasUndo
                                          /\ AllRecords[i].txn = x /\ AllRecords[i].page = p

\* Clean frames agree with the file.
FramesAgree ==
    \A p \in Pages : /\ pool[p].dirty => pool[p].resident
                     /\ pool[p].resident /\ ~pool[p].dirty => pool[p].image = disk[p]
                     /\ pool[p].resident => pool[p].image # NoImage

UndoIsCommitted ==
    /\ \A x \in Xids : x \notin running => undo[x] = NoUndo
    /\ \A x \in running :
          LET u == undo[x]
          IN  /\ \A i \in 1 .. Len(u.images) : /\ u.images[i].page \in u.captured
                                               /\ u.images[i].image.rows = Committed[u.images[i].page]
              /\ Len(u.images) <= Cardinality(u.captured)
              /\ \/ Len(u.images) < Cardinality(u.captured)
                 \/ \A p \in u.captured : \E i \in 1 .. Len(u.images) : u.images[i].page = p

OneTransaction ==
    /\ \A x, y \in running : x = y
    /\ \A x \in running : x < nextXid
    /\ \A n \in DOMAIN writes : writes[n].fate = "pending" =>
          writes[n].txn \in running /\ writes[n].page \in undo[writes[n].txn].captured

IsListed(p) == \E i \in 1 .. Len(rolling.todo) : rolling.todo[i].page = p
LastIsRestore(p) ==
    \E j \in 1 .. Len(AllRecords) :
        /\ IsUpdate(AllRecords[j], p) /\ AllRecords[j].txn = NO_TRANSACTION
        /\ \A i \in j + 1 .. Len(AllRecords) : ~IsUpdate(AllRecords[i], p)

\* What the open database shows, and what a rollback still has to restore.
PagesAreRight ==
    /\ phase = "open" =>
          \A p \in Pages : Current(p).rows = Committed[p] \union Unsettled(p)
    /\ phase = "rollback" =>
          /\ running = {rolling.txn}
          /\ \A i \in 1 .. Len(rolling.todo) :
                /\ rolling.todo[i].image.rows = Committed[rolling.todo[i].page]
                /\ rolling.todo[i].page \in undo[rolling.txn].captured
          /\ \A p \in Pages :
                \/ IsListed(p)
                \/ /\ Current(p).rows = Committed[p]
                   /\ p \in undo[rolling.txn].captured => LastIsRestore(p)

\* Whatever part of the staged records reaches the file, recovery gives the
\* committed work; and redo of all of them gives the frames.
CrashIsHarmless ==
    /\ \A k \in Len(log) .. Len(AllRecords) : SoundTo(disk, AllRecords, k, Committed)
    /\ \A p \in Pages : Redone(disk, AllRecords, Len(AllRecords), p, Current(p))
    /\ \A p \in Pages : disk[p].lsn < flushed_lsn
    /\ \A j \in Len(log) + 1 .. Len(AllRecords) :
          AllRecords[j].type = "update" =>
              /\ SomeLoser(AllRecords, j)
              /\ AllRecords[j].txn \notin running \union {NO_TRANSACTION} =>
                    \E i \in j + 1 .. Len(AllRecords) : IsUpdate(AllRecords[i], AllRecords[j].page)

OpenIsSound ==
    /\ LogIsWhole /\ RealRecords(AllRecords) /\ LogKnowsTransactions
    /\ ImagesOf(AllRecords, Len(log), Committed)
    /\ FramesAgree /\ UndoIsCommitted /\ OneTransaction /\ PagesAreRight
    /\ NoSteal => CrashIsHarmless

\* The files between a crash, or a close, and the end of recovery.
FilesRecover(d, l, m, c) ==
    LET records == read_all(l, m)
        n == Len(records)
    IN  /\ SoundTo(d, records, n, c)
        /\ ImagesOf(records, n, c)
        /\ SomeLoser(records, n) \/ \A p \in Pages : d[p].lsn < m + Len(l)
        /\ n = 0 => l = <<>>
        /\ RealRecords(records)

DownIsSound ==
    /\ running = {} /\ undo = [x \in Xids |-> NoUndo] /\ NothingPending
    /\ phase \in {"down", "redone"} => FilesRecover(disk, log, metaLsn, Committed)
    /\ phase \in {"redone", "restamped"} =>
          \A p \in Pages : disk[p].rows = Committed[p] /\ disk[p].lsn < FileTop
    /\ phase = "redone" => Len(read_all(log, metaLsn)) > 0
    /\ phase = "restamped" => Len(log) > 0 /\ log[1].lsn < metaLsn

Atomic ==
    crashes.repaired =>
        /\ RealPages(disk)
        /\ phase \in Running => OpenIsSound
        /\ phase \notin Running => DownIsSound
---------------------------------------------------------------------------
(* Logs by places.                                                         *)

\* Two logs with the same first k records.
LEMMA SameStart ==
    ASSUME NEW s, NEW t, NEW k \in Nat, \A i \in 1 .. k : s[i] = t[i]
    PROVE  /\ \A x : Unfinished(s, k, x) <=> Unfinished(t, k, x)
           /\ SomeLoser(s, k) <=> SomeLoser(t, k)
           /\ \A p : Covered(s, k, p) <=> Covered(t, k, p)
           /\ \A d, p, i : i \in 0 .. k =>
                 /\ IsSource(d, s, k, p, i) <=> IsSource(d, t, k, p, i)
                 /\ ImageAt(d, s, p, i) = ImageAt(d, t, p, i)
           /\ \A d, p, image : Redone(d, s, k, p, image) <=> Redone(d, t, k, p, image)
           /\ \A d, c : SoundTo(d, s, k, c) <=> SoundTo(d, t, k, c)
<1>1. \A x : Unfinished(s, k, x) <=> Unfinished(t, k, x)
  BY DEF Unfinished
<1>2. \A p : Covered(s, k, p) <=> Covered(t, k, p)
  BY <1>1 DEF Covered
<1>3. SomeLoser(s, k) <=> SomeLoser(t, k)
  BY <1>1 DEF SomeLoser
<1>4. ASSUME NEW d, NEW p, NEW i \in 0 .. k
      PROVE  /\ IsSource(d, s, k, p, i) <=> IsSource(d, t, k, p, i)
             /\ ImageAt(d, s, p, i) = ImageAt(d, t, p, i)
  <2>1. \A j \in i + 1 .. k : j \in 1 .. k
    OBVIOUS
  <2>2. i > 0 => i \in 1 .. k
    OBVIOUS
  <2>3. i = 0 \/ i > 0
    OBVIOUS
  <2> QED BY <2>1, <2>2, <2>3 DEF IsSource, ImageAt
<1>5. \A d, p, image : Redone(d, s, k, p, image) <=> Redone(d, t, k, p, image)
  BY <1>4 DEF Redone
<1>6. \A d, p, rows : RedoneRows(d, s, k, p, rows) <=> RedoneRows(d, t, k, p, rows)
  BY <1>4 DEF RedoneRows
<1>7. \A d, c : SoundTo(d, s, k, c) <=> SoundTo(d, t, k, c)
  BY <1>2, <1>6 DEF SoundTo
<1> QED BY <1>1, <1>2, <1>3, <1>4, <1>5, <1>7

\* The greatest and the least of a set of places.
LEMMA Extremes ==
    ASSUME NEW n \in Nat, NEW T, T \subseteq 1 .. n, T # {}
    PROVE  /\ Max(T) \in T /\ \A y \in T : y <= Max(T)
           /\ Min(T) \in T /\ \A y \in T : Min(T) <= y
<1>1. T \subseteq Nat /\ \A y \in T : y <= n
  OBVIOUS
<1>2. \E x \in T : \A y \in T : y <= x
  BY <1>1, GreatestNat
<1>3. \E x \in T : \A y \in T : x >= y
  BY <1>1, <1>2
<1>4. Max(T) \in T /\ \A y \in T : Max(T) >= y
  BY <1>3 DEF Max
<1>5. \E x \in T : \A y \in T : x <= y
  BY <1>1, LeastNat
<1>6. Min(T) \in T /\ \A y \in T : Min(T) <= y
  BY <1>5 DEF Min
<1>7. \A y \in T : y <= Max(T)
  BY <1>1, <1>4
<1> QED BY <1>4, <1>6, <1>7

\* redo by places.
LEMMA RedoFacts ==
    ASSUME NEW d, NEW s \in Seq(Records), NEW p \in Pages
    PROVE  Redone(d, s, Len(s), p, redo(d, s)[p])
<1> DEFINE n == Len(s)
           newer == {i \in Updates(s, p) : s[i].lsn > d[p].lsn}
<1>1. n \in Nat /\ DOMAIN s = 1 .. n
  BY LenProperties
<1>2. \A i : i \in newer <=> i \in 1 .. n /\ IsUpdate(s[i], p) /\ s[i].lsn > d[p].lsn
  BY <1>1 DEF Updates, IsUpdate
<1>3. redo(d, s)[p] = IF newer = {} THEN d[p] ELSE s[Max(newer)].after
  BY DEF redo
<1> HIDE DEF newer, n
<1>4. CASE newer = {}
  <2>1. IsSource(d, s, n, p, 0)
    BY <1>1, <1>2, <1>4 DEF IsSource
  <2>2. 0 \in 0 .. n /\ redo(d, s)[p] = ImageAt(d, s, p, 0)
    BY <1>1, <1>3, <1>4 DEF ImageAt
  <2> QED BY <2>1, <2>2 DEF Redone, n
<1>5. CASE newer # {}
  <2> DEFINE i == Max(newer)
  <2>1. newer \subseteq 1 .. n
    BY <1>2
  <2>2. i \in newer /\ \A y \in newer : y <= i
    BY <1>1, <1>5, <2>1, Extremes
  <2> HIDE DEF i
  <2>3. i \in 1 .. n /\ \A j \in i + 1 .. n : j \in 1 .. n /\ ~(j <= i)
    BY <1>1, <2>1, <2>2
  <2>4. IsSource(d, s, n, p, i)
    BY <1>2, <2>2, <2>3 DEF IsSource
  <2>5. i \in 0 .. n /\ redo(d, s)[p] = ImageAt(d, s, p, i)
    BY <1>1, <1>3, <1>5, <2>3 DEF ImageAt, i
  <2> QED BY <2>4, <2>5 DEF Redone, n
<1> QED BY <1>4, <1>5

\* There is one source.
LEMMA OneSource ==
    ASSUME NEW d, NEW s, NEW k \in Nat, NEW p
    PROVE  /\ \A i, j \in 0 .. k : IsSource(d, s, k, p, i) /\ IsSource(d, s, k, p, j) => i = j
           /\ \A a, b : Redone(d, s, k, p, a) /\ Redone(d, s, k, p, b) => a = b
           /\ \A a, rows : Redone(d, s, k, p, a) =>
                 (RedoneRows(d, s, k, p, rows) <=> a.rows = rows)
<1>1. ASSUME NEW i \in 0 .. k, NEW j \in 0 .. k, i < j, IsSource(d, s, k, p, i), IsSource(d, s, k, p, j)
      PROVE  FALSE
  <2>1. j \in i + 1 .. k /\ j > 0
    BY <1>1
  <2> QED BY <1>1, <2>1 DEF IsSource
<1>2. ASSUME NEW i \in 0 .. k, NEW j \in 0 .. k, IsSource(d, s, k, p, i), IsSource(d, s, k, p, j)
      PROVE  i = j
  <2>1. i < j \/ j < i \/ i = j
    OBVIOUS
  <2> QED BY <1>1, <1>2, <2>1
<1> QED BY <1>2 DEF Redone, RedoneRows

\* The rows redo leaves are those of the image it leaves.
LEMMA RowsOfImage ==
    ASSUME NEW d, NEW s, NEW k \in Nat, NEW p, NEW a, NEW rows,
           Redone(d, s, k, p, a), RedoneRows(d, s, k, p, rows)
    PROVE  a.rows = rows
BY OneSource

\* undo by places.
LEMMA UndoFacts ==
    ASSUME NEW s \in Seq(Records)
    PROVE  /\ losers(s) # {} <=> SomeLoser(s, Len(s))
           /\ \A t : t \in losers(s) <=>
                 \E i \in 1 .. Len(s) : s[i].txn = t /\ Unfinished(s, Len(s), t)
           /\ \A i : i \in undoable(s) <=>
                 /\ i \in 1 .. Len(s) /\ s[i].type = "update" /\ s[i].hasUndo
                 /\ Unfinished(s, Len(s), s[i].txn)
<1> DEFINE n == Len(s)
<1>1. n \in Nat /\ DOMAIN s = 1 .. n
  BY LenProperties
<1> HIDE DEF n
<1>2. ASSUME NEW t
      PROVE  t \in losers(s) <=> \E i \in 1 .. n : s[i].txn = t /\ Unfinished(s, n, t)
  BY <1>1 DEF losers, Unfinished, IsEnding
<1>3. losers(s) # {} <=> SomeLoser(s, n)
  BY <1>2 DEF SomeLoser
<1>4. ASSUME NEW i
      PROVE  i \in undoable(s) <=> /\ i \in 1 .. n /\ s[i].type = "update" /\ s[i].hasUndo
                                   /\ Unfinished(s, n, s[i].txn)
  BY <1>1, <1>2 DEF undoable
<1> QED BY <1>2, <1>3, <1>4 DEF n

\* What undo does to one page: nothing, or the oldest before-image.
LEMMA UndoPassFacts ==
    ASSUME NEW d, NEW s \in Seq(Records), NEW p \in Pages
    PROVE  /\ ~Covered(s, Len(s), p) => undo_pass(d, s)[p] = d[p]
           /\ Covered(s, Len(s), p) =>
                 \E i \in undoable(s) : /\ s[i].page = p /\ undo_pass(d, s)[p] = s[i].before
                                        /\ \A e : undo_pass(e, s)[p] = s[i].before
                                        /\ \A j \in undoable(s) : s[j].page = p => i <= j
<1> DEFINE n == Len(s)
           mine == {i \in undoable(s) : s[i].page = p}
<1>1. n \in Nat
  BY LenProperties
<1>2. \A i : i \in mine <=> /\ i \in 1 .. n /\ IsUpdate(s[i], p) /\ s[i].hasUndo
                            /\ Unfinished(s, n, s[i].txn)
  BY UndoFacts DEF IsUpdate
<1>3. \A e : undo_pass(e, s)[p] = IF mine = {} THEN e[p] ELSE s[Min(mine)].before
  BY DEF undo_pass
<1>4. \A i \in mine : i \in undoable(s) /\ s[i].page = p
  OBVIOUS
<1>5. \A j \in undoable(s) : s[j].page = p => j \in mine
  OBVIOUS
<1> HIDE DEF mine, n
<1>6. Covered(s, n, p) <=> mine # {}
  BY <1>2 DEF Covered
<1>7. ASSUME mine # {} PROVE Min(mine) \in mine /\ \A y \in mine : Min(mine) <= y
  <2>1. mine \subseteq 1 .. n
    BY <1>2
  <2> QED BY <1>1, <1>7, <2>1, Extremes
<1> QED BY <1>3, <1>4, <1>5, <1>6, <1>7 DEF n

\* Sound files are recovered to the rows they should have.
LEMMA RecoveryIsSound ==
    ASSUME NEW d, NEW s \in Seq(Records), NEW c,
           SoundTo(d, s, Len(s), c), ImagesOf(s, Len(s), c)
    PROVE  \A p \in Pages : Recovered(d, s)[p].rows = c[p]
<1> TAKE p \in Pages
<1>1. Len(s) \in Nat
  BY LenProperties
<1>2. CASE Covered(s, Len(s), p)
  <2>1. PICK i \in undoable(s) : s[i].page = p /\ \A e : undo_pass(e, s)[p] = s[i].before
    BY <1>2, UndoPassFacts
  <2>2. s[i].before.rows = c[p]
    BY <2>1, UndoFacts DEF ImagesOf
  <2> QED BY <2>1, <2>2 DEF Recovered
<1>3. CASE ~Covered(s, Len(s), p)
  <2>1. Recovered(d, s)[p] = redo(d, s)[p]
    BY <1>3, UndoPassFacts DEF Recovered
  <2>2. RedoneRows(d, s, Len(s), p, c[p])
    BY <1>3 DEF SoundTo
  <2>3. Redone(d, s, Len(s), p, redo(d, s)[p])
    BY RedoFacts
  <2>4. redo(d, s)[p].rows = c[p]
    BY <1>1, <2>2, <2>3, RowsOfImage
  <2> QED BY <2>1, <2>4
<1> QED BY <1>2, <1>3

\* Records whose LSNs are those of their places.
Placed(s, base) == \A i \in 1 .. Len(s) : s[i].type # "torn" /\ s[i].lsn = base + i - 1

\* Redo of a page it has already put right.
LEMMA RedoneAgain ==
    ASSUME NEW d \in [Pages -> Images], NEW e \in [Pages -> Images], NEW s \in Seq(Records),
           NEW base \in Nat, Placed(s, base),
           NEW p \in Pages, NEW image \in Images, Redone(d, s, Len(s), p, image),
           e[p] = d[p] \/ e[p] = image
    PROVE  Redone(e, s, Len(s), p, image)
<1> DEFINE n == Len(s)
<1>1. n \in Nat /\ \A i \in 1 .. n : s[i] \in Records
  BY LenProperties, ElementOfSeq
<1>2. \A i \in 1 .. n : s[i].lsn \in Nat
  BY <1>1, RecordFields
<1>3. PICK i \in 0 .. n : IsSource(d, s, n, p, i) /\ image = ImageAt(d, s, p, i)
  BY DEF Redone
<1>4. \A j \in 1 .. n : s[j].lsn = base + j - 1
  BY DEF Placed
<1>5. d[p].lsn \in Int /\ e[p].lsn \in Int /\ image.lsn \in Int
  BY DEF Images
<1> HIDE DEF n
<1>6. CASE e[p] = d[p]
  <2>1. IsSource(e, s, n, p, i) /\ image = ImageAt(e, s, p, i)
    BY <1>3, <1>6 DEF IsSource, ImageAt
  <2> QED BY <2>1 DEF Redone, n
<1>7. CASE i = 0
  BY <1>3, <1>6, <1>7 DEF ImageAt
<1>8. CASE i # 0 /\ e[p] = image
  <2>1. i \in 1 .. n /\ i > 0
    BY <1>1, <1>8
  <2>2. IsUpdate(s[i], p) /\ s[i].lsn > d[p].lsn /\ image = s[i].after
    BY <1>3, <1>8, <2>1 DEF IsSource, ImageAt
  <2>3. ASSUME NEW j \in i + 1 .. n PROVE ~IsUpdate(s[j], p)
    <3>1. j \in 1 .. n /\ j > i
      BY <1>1, <2>1
    <3>2. s[j].lsn > s[i].lsn
      BY <1>1, <1>4, <2>1, <3>1
    <3>3. s[j].lsn > d[p].lsn
      BY <1>2, <1>5, <2>1, <2>2, <3>1, <3>2
    <3> QED BY <1>3, <3>3 DEF IsSource
  <2>4. CASE s[i].lsn > image.lsn
    <3>1. IsSource(e, s, n, p, i) /\ image = ImageAt(e, s, p, i)
      BY <1>8, <2>1, <2>2, <2>3, <2>4 DEF IsSource, ImageAt
    <3> QED BY <3>1 DEF Redone, n
  <2>5. CASE ~(s[i].lsn > image.lsn)
    <3>1. ASSUME NEW j \in 0 + 1 .. n, IsUpdate(s[j], p) PROVE ~(s[j].lsn > e[p].lsn)
      <4>1. j \in 1 .. n /\ j <= i
        BY <1>1, <2>1, <2>3, <3>1
      <4>2. s[j].lsn <= s[i].lsn
        BY <1>1, <1>4, <2>1, <4>1
      <4> QED BY <1>2, <1>5, <1>8, <2>1, <2>5, <4>1, <4>2
    <3>2. IsSource(e, s, n, p, 0) /\ image = ImageAt(e, s, p, 0) /\ 0 \in 0 .. n
      BY <1>1, <1>8, <3>1 DEF IsSource, ImageAt
    <3> QED BY <3>2 DEF Redone, n
  <2> QED BY <2>4, <2>5
<1> QED BY <1>6, <1>7, <1>8

\* A record that ends a transaction, added to a log.
LEMMA EndingAdded ==
    ASSUME NEW s, NEW t, NEW n \in Nat, \A i \in 1 .. n : t[i] = s[i], IsEnding(t[n + 1])
    PROVE  /\ \A x : Unfinished(t, n + 1, x) <=> Unfinished(s, n, x) /\ x # t[n + 1].txn
           /\ \A d, p, image : Redone(d, s, n, p, image) => Redone(d, t, n + 1, p, image)
<1>1. \A i \in 1 .. n : i \in 1 .. n + 1
  OBVIOUS
<1>2. \A i \in 1 .. n + 1 : i \in 1 .. n \/ i = n + 1
  OBVIOUS
<1>3. n + 1 \in 1 .. n + 1
  OBVIOUS
<1>4. \A x : Unfinished(t, n + 1, x) <=> Unfinished(s, n, x) /\ x # t[n + 1].txn
  BY <1>1, <1>2, <1>3 DEF Unfinished
<1>5. ASSUME NEW d, NEW p, NEW image, Redone(d, s, n, p, image)
      PROVE  Redone(d, t, n + 1, p, image)
  <2>1. PICK i \in 0 .. n : IsSource(d, s, n, p, i) /\ image = ImageAt(d, s, p, i)
    BY <1>5 DEF Redone
  <2>2. \A j \in i + 1 .. n + 1 : (j \in i + 1 .. n /\ j \in 1 .. n) \/ j = n + 1
    OBVIOUS
  <2>3. ~IsUpdate(t[n + 1], p)
    BY DEF IsEnding, IsUpdate
  <2>4. (i > 0 => i \in 1 .. n) /\ (i = 0 \/ i > 0) /\ i \in 0 .. n + 1
    OBVIOUS
  <2>5. IsSource(d, t, n + 1, p, i)
    BY <2>1, <2>2, <2>3, <2>4 DEF IsSource
  <2>6. image = ImageAt(d, t, p, i)
    BY <2>1, <2>4 DEF ImageAt
  <2> QED BY <2>4, <2>5, <2>6 DEF Redone
<1> QED BY <1>4, <1>5

\* An update of page p by x makes log t of log s: it comes after the records
\* of s, or takes the place of the last of them, which x wrote for p too.
Staged(s, t, m, x, p, before, image) ==
    /\ m \in Nat /\ Len(t) = m + 1 /\ \A i \in 1 .. m : t[i] = s[i]
    /\ IsUpdate(t[m + 1], p) /\ t[m + 1].txn = x /\ t[m + 1].after = image
    /\ \/ /\ m = Len(s)
          /\ t[m + 1].before = before /\ t[m + 1].hasUndo = (before # NoImage)
       \/ /\ m + 1 = Len(s) /\ IsUpdate(s[m + 1], p) /\ s[m + 1].txn = x
          /\ t[m + 1].before = s[m + 1].before /\ t[m + 1].hasUndo = s[m + 1].hasUndo

\* What such an update changes is the page p.
LEMMA UpdateAdded ==
    ASSUME NEW s, NEW t, NEW m, NEW x, NEW p, NEW before, NEW image,
           Staged(s, t, m, x, p, before, image)
    PROVE  /\ \A y : Unfinished(t, m + 1, y) <=> Unfinished(s, Len(s), y)
           /\ \A q : Covered(s, Len(s), q) => Covered(t, m + 1, q)
           /\ \A d, q, e : q # p /\ Redone(d, s, Len(s), q, e) => Redone(d, t, m + 1, q, e)
           /\ \A d, q, e : q # p /\ RedoneRows(d, s, Len(s), q, e) => RedoneRows(d, t, m + 1, q, e)
           /\ \A d : t[m + 1].lsn > d[p].lsn => Redone(d, t, m + 1, p, image)
<1> DEFINE n == Len(s)
<1>1. /\ m \in Nat /\ (n = m \/ n = m + 1)
      /\ \A i \in 1 .. m : t[i] = s[i]
      /\ IsUpdate(t[m + 1], p) /\ t[m + 1].txn = x /\ t[m + 1].after = image
      /\ n = m + 1 => IsUpdate(s[m + 1], p) /\ s[m + 1].txn = x /\ t[m + 1].hasUndo = s[m + 1].hasUndo
  BY DEF Staged
<1> HIDE DEF n
<1>2. \A i \in 1 .. m + 1 : i \in 1 .. m \/ i = m + 1
  BY <1>1
<1>3. \A i \in 1 .. m : i \in 1 .. m + 1 /\ i \in 1 .. n
  BY <1>1
<1>4. m + 1 \in 1 .. m + 1 /\ \A i \in 1 .. n : i \in 1 .. m \/ (i = m + 1 /\ n = m + 1)
  BY <1>1
<1>5. ASSUME NEW y PROVE Unfinished(t, m + 1, y) <=> Unfinished(s, n, y)
  <2>1. ~IsEnding(t[m + 1]) /\ (n = m + 1 => ~IsEnding(s[m + 1]))
    BY <1>1 DEF IsEnding, IsUpdate
  <2> QED BY <1>1, <1>2, <1>3, <1>4, <2>1 DEF Unfinished
<1>6. ASSUME NEW q, Covered(s, n, q) PROVE Covered(t, m + 1, q)
  <2>1. PICK i \in 1 .. n : /\ IsUpdate(s[i], q) /\ s[i].hasUndo
                            /\ Unfinished(s, n, s[i].txn)
    BY <1>6 DEF Covered
  <2>2. CASE i \in 1 .. m
    BY <1>1, <1>3, <1>5, <2>1, <2>2 DEF Covered
  <2>3. CASE i = m + 1 /\ n = m + 1
    <3>1. q = p
      BY <1>1, <2>1, <2>3 DEF IsUpdate
    <3> QED BY <1>1, <1>4, <1>5, <2>1, <2>3, <3>1 DEF Covered
  <2> QED BY <1>4, <2>1, <2>2, <2>3
<1>7. ASSUME NEW d, NEW q, q # p, NEW i \in 0 .. n, IsSource(d, s, n, q, i)
      PROVE  i \in 0 .. m + 1 /\ IsSource(d, t, m + 1, q, i) /\ ImageAt(d, t, q, i) = ImageAt(d, s, q, i)
  <2>1. n = m + 1 => ~IsUpdate(s[m + 1], q)
    BY <1>1, <1>7 DEF IsUpdate
  <2>2. ~IsUpdate(t[m + 1], q)
    BY <1>1, <1>7 DEF IsUpdate
  <2>3. i = 0 \/ i \in 1 .. m
    <3>1. i = 0 \/ (i > 0 /\ i \in 1 .. n)
      BY <1>1
    <3> QED BY <1>4, <1>7, <2>1, <3>1 DEF IsSource
  <2>4. i \in 0 .. m + 1 /\ (i > 0 => i \in 1 .. m)
    BY <1>1, <2>3
  <2>5. \A j \in i + 1 .. m + 1 : (j \in 1 .. m /\ j \in i + 1 .. n) \/ j = m + 1
    BY <1>1, <2>4
  <2>6. IsSource(d, t, m + 1, q, i)
    BY <1>1, <1>7, <2>2, <2>4, <2>5 DEF IsSource
  <2>7. ImageAt(d, t, q, i) = ImageAt(d, s, q, i)
    BY <1>1, <2>3 DEF ImageAt
  <2> QED BY <2>4, <2>6, <2>7
<1>8. ASSUME NEW d, t[m + 1].lsn > d[p].lsn PROVE Redone(d, t, m + 1, p, image)
  <2>1. m + 1 \in 0 .. m + 1 /\ m + 1 # 0 /\ m + 1 + 1 .. m + 1 = {}
    BY <1>1
  <2>2. IsSource(d, t, m + 1, p, m + 1)
    BY <1>1, <1>8, <2>1 DEF IsSource
  <2>3. image = ImageAt(d, t, p, m + 1)
    BY <1>1, <2>1 DEF ImageAt
  <2> QED BY <2>1, <2>2, <2>3 DEF Redone
<1>9. \A d, q, e : q # p /\ Redone(d, s, n, q, e) => Redone(d, t, m + 1, q, e)
  BY <1>7 DEF Redone
<1>10. \A d, q, e : q # p /\ RedoneRows(d, s, n, q, e) => RedoneRows(d, t, m + 1, q, e)
  BY <1>7 DEF RedoneRows
<1> QED BY <1>5, <1>6, <1>8, <1>9, <1>10 DEF n

---------------------------------------------------------------------------
(* The log file and the staged records as one log.                         *)

\* A record of two logs put together is a record of the first or of the second.
LEMMA Joined ==
    ASSUME NEW l \in Seq(Records), NEW b \in Seq(Records)
    PROVE  /\ l \o b \in Seq(Records) /\ Len(l) \in Nat /\ Len(b) \in Nat
           /\ Len(l \o b) = Len(l) + Len(b)
           /\ \A i \in 1 .. Len(l) + Len(b) :
                 /\ (l \o b)[i] \in Records
                 /\ (l \o b)[i] = IF i <= Len(l) THEN l[i] ELSE b[i - Len(l)]
<1> DEFINE s == l \o b
<1>1. Len(l) \in Nat /\ Len(b) \in Nat
  BY LenProperties
<1>2. /\ s \in Seq(Records) /\ Len(s) = Len(l) + Len(b)
      /\ \A i \in 1 .. Len(l) + Len(b) : s[i] = IF i <= Len(l) THEN l[i] ELSE b[i - Len(l)]
  BY ConcatProperties
<1> HIDE DEF s
<1>3. \A i \in 1 .. Len(s) : s[i] \in Records
  BY <1>2, ElementOfSeq
<1> QED BY <1>1, <1>2, <1>3 DEF s

\* The log file comes first in AllRecords, the staged records after it.
LEMMA AllFacts ==
    ASSUME IInv
    PROVE  /\ AllRecords \in Seq(Records)
           /\ Len(AllRecords) \in Nat /\ Len(log) \in Nat /\ Len(buffer) \in Nat
           /\ Len(AllRecords) = Len(log) + Len(buffer) /\ Len(log) <= Len(AllRecords)
           /\ \A i \in 1 .. Len(AllRecords) :
                 /\ AllRecords[i] \in Records
                 /\ AllRecords[i] = IF i <= Len(log) THEN log[i] ELSE buffer[i - Len(log)]
<1>1. log \in Seq(Records) /\ buffer \in Seq(Records)
  BY LogNumbers
<1>2. /\ AllRecords \in Seq(Records) /\ Len(log) \in Nat /\ Len(buffer) \in Nat
      /\ Len(AllRecords) = Len(log) + Len(buffer)
      /\ \A i \in 1 .. Len(log) + Len(buffer) :
            /\ AllRecords[i] \in Records
            /\ AllRecords[i] = IF i <= Len(log) THEN log[i] ELSE buffer[i - Len(log)]
  BY <1>1, Joined DEF AllRecords
<1>3. Len(AllRecords) \in Nat /\ Len(log) <= Len(AllRecords)
  BY <1>2
<1> QED BY <1>2, <1>3

\* A flush moves no record.
LEMMA AllFlushed ==
    ASSUME IInv, log' = log \o buffer, buffer' = <<>>
    PROVE  AllRecords' = AllRecords /\ Len(log') = Len(AllRecords)
<1>1. log \o buffer \in Seq(Records)
  BY FlushFacts
<1>2. log' \o <<>> = log'
  BY <1>1, ConcatEmptySeq
<1> QED BY <1>2 DEF AllRecords

\* An update that is staged.
LEMMA UpdateIsStaged ==
    ASSUME IInv, LogIsWhole, NEW x \in 0 .. MaxXid, NEW p \in Pages, NEW before \in Images,
           NEW image \in Images, image.lsn = update_lsn(x, p),
           log' = log, buffer' = append_update(x, p, before, image)
    PROVE  \E m \in Nat : /\ Staged(AllRecords, AllRecords', m, x, p, before, image)
                          /\ Len(log) <= m
                          /\ AllRecords'[m + 1].lsn = metaLsn + m
                          /\ image.lsn = metaLsn + m
<1> DEFINE s == AllRecords
           t == AllRecords'
           a == Len(log)
           b == Len(buffer)
<1>1. /\ a \in Nat /\ b \in Nat /\ Len(s) = a + b /\ s \in Seq(Records)
      /\ \A i \in 1 .. a + b : s[i] = IF i <= a THEN log[i] ELSE buffer[i - a]
  BY AllFacts
<1>2. log \in Seq(Records) /\ buffer \in Seq(Records) /\ metaLsn \in Nat
  BY LogNumbers
<1>3. ASSUME NEW g \in Seq(Records), buffer' = g
      PROVE  /\ Len(t) = a + Len(g)
             /\ \A i \in 1 .. a + Len(g) : t[i] = IF i <= a THEN log[i] ELSE g[i - a]
  <2>1. t = log \o g
    BY <1>3 DEF AllRecords
  <2> HIDE DEF t
  <2> QED BY <1>2, <2>1, Joined
<1>4. CASE supersedes(x, p)
  <2>1. buffer # <<>> /\ IsUpdate(Last(buffer), p) /\ Last(buffer).txn = x
    BY <1>4 DEF supersedes, IsUpdate
  <2>2. b \in 1 .. b /\ Last(buffer) = buffer[b] /\ b > 0
    BY <1>1, <1>2, <2>1, EmptySeq DEF Last
  <2>3. buffer' = [buffer EXCEPT ![b].after = image]
    BY <1>4 DEF append_update
  <2> DEFINE r == [buffer[b] EXCEPT !.after = image]
             g == [buffer EXCEPT ![b] = r]
             m == a + b - 1
  <2>4. buffer[b] \in Records
    BY <1>2, <2>2, ElementOfSeq
  <2>5. /\ r \in Records /\ r.type = buffer[b].type /\ r.txn = buffer[b].txn
        /\ r.page = buffer[b].page /\ r.hasUndo = buffer[b].hasUndo
        /\ r.before = buffer[b].before /\ r.lsn = buffer[b].lsn /\ r.after = image
    BY <2>4 DEF Records
  <2> HIDE DEF r
  <2>6. g \in [1 .. b -> Records] /\ \A i \in 1 .. b : g[i] = IF i = b THEN r ELSE buffer[i]
    <3>1. buffer \in [1 .. b -> Records]
      BY <1>2, LenProperties
    <3> QED BY <2>5, <3>1
  <2>7. buffer' = g
    BY <2>3 DEF r
  <2> HIDE DEF g
  <2>8. g \in Seq(Records) /\ Len(g) = b
    <3> HIDE DEF b
    <3> QED BY <1>1, <2>6, ListOfFunction
  <2>9. Len(t) = a + b /\ \A i \in 1 .. a + b : t[i] = IF i <= a THEN log[i] ELSE g[i - a]
    BY <1>3, <2>7, <2>8
  <2> HIDE DEF t, a, b, s
  <2>10. m \in Nat /\ a <= m /\ m + 1 = a + b /\ m + 1 \in 1 .. a + b
    BY <1>1, <2>2
  <2>11. ~(m + 1 <= a) /\ m + 1 - a = b
    BY <1>1, <2>2
  <2>12. t[m + 1] = r /\ s[m + 1] = buffer[b]
    BY <1>1, <2>2, <2>6, <2>9, <2>10, <2>11
  <2>13. ASSUME NEW i \in 1 .. m PROVE t[i] = s[i]
    <3>1. i \in 1 .. a + b /\ (~(i <= a) => i - a \in 1 .. b /\ i - a # b)
      BY <1>1, <2>2, <2>10
    <3> QED BY <1>1, <2>6, <2>9, <3>1
  <2>14. r.lsn = metaLsn + m
    <3>1. s[m + 1].lsn = metaLsn + (m + 1) - 1
      BY <1>1, <2>10 DEF LogIsWhole, s
    <3> QED BY <1>2, <2>5, <2>10, <2>12, <3>1
  <2>15. image.lsn = r.lsn
    BY <1>4, <2>2, <2>5 DEF update_lsn
  <2>16. Staged(s, t, m, x, p, before, image)
    <3> HIDE DEF m
    <3> QED BY <1>1, <2>1, <2>2, <2>5, <2>9, <2>10, <2>12, <2>13 DEF Staged, IsUpdate
  <2> HIDE DEF m
  <2> QED BY <2>10, <2>12, <2>14, <2>15, <2>16 DEF s, t, a
<1>5. CASE ~supersedes(x, p)
  <2> DEFINE r == Record("update", x, p, before, image, next_lsn)
             g == Append(buffer, r)
             m == a + b
  <2>1. buffer' = g /\ image.lsn = next_lsn
    BY <1>5 DEF append_update, update_lsn
  <2>2. next_lsn = metaLsn + m /\ next_lsn \in Nat
    BY <1>1, LogNumbers
  <2>3. /\ r \in Records /\ r.type = "update" /\ r.txn = x /\ r.page = p /\ r.before = before
        /\ r.hasUndo = (before # NoImage) /\ r.after = image /\ r.lsn = next_lsn
    BY <2>2 DEF Record, Records
  <2> HIDE DEF r
  <2>4. /\ g \in Seq(Records) /\ Len(g) = b + 1
        /\ \A i \in 1 .. b + 1 : g[i] = IF i <= b THEN buffer[i] ELSE r
    BY <1>2, <2>3, AppendFacts
  <2> HIDE DEF g
  <2>5. Len(t) = a + (b + 1) /\ \A i \in 1 .. a + (b + 1) : t[i] = IF i <= a THEN log[i] ELSE g[i - a]
    BY <1>3, <2>1, <2>4
  <2> HIDE DEF t, a, b, s
  <2>6. m \in Nat /\ a <= m /\ m + 1 = a + (b + 1) /\ m + 1 \in 1 .. a + (b + 1)
    BY <1>1
  <2>7. ~(m + 1 <= a) /\ m + 1 - a = b + 1 /\ b + 1 \in 1 .. b + 1 /\ ~(b + 1 <= b)
    BY <1>1
  <2>8. t[m + 1] = r
    <3>1. \A k \in 1 .. a + (b + 1) : ~(k <= a) /\ k - a = b + 1 => t[k] = r
      BY <2>4, <2>5, <2>7
    <3> DEFINE k == m + 1
    <3>2. k \in 1 .. a + (b + 1) /\ ~(k <= a) /\ k - a = b + 1
      BY <1>1, <2>6, <2>7
    <3> HIDE DEF k
    <3>3. t[k] = r
      BY <3>1, <3>2
    <3> QED BY <3>3 DEF k
  <2>9. ASSUME NEW i \in 1 .. m PROVE t[i] = s[i]
    <3>1. i \in 1 .. a + b /\ i \in 1 .. a + (b + 1) /\ (~(i <= a) => i - a \in 1 .. b + 1 /\ i - a <= b)
      BY <1>1
    <3> QED BY <1>1, <2>4, <2>5, <3>1
  <2>10. Staged(s, t, m, x, p, before, image)
    <3>1. Len(s) = m
      BY <1>1
    <3> HIDE DEF m
    <3> QED BY <2>3, <2>5, <2>6, <2>8, <2>9, <3>1 DEF Staged, IsUpdate
  <2> HIDE DEF m
  <2> QED BY <2>1, <2>2, <2>3, <2>6, <2>8, <2>10 DEF s, t, a
<1> QED BY <1>4, <1>5

---------------------------------------------------------------------------
(* The history of writes.                                                  *)

\* The types a step of an open database starts from.
LEMMA OpenTyped ==
    ASSUME IInv
    PROVE  /\ disk \in [Pages -> Images] /\ pool \in [Pages -> Frames]
           /\ undo \in [Xids -> UndoLogs] /\ running \subseteq Xids
           /\ writes \in Seq(History) /\ Len(writes) \in Nat /\ DOMAIN writes = 1 .. Len(writes)
           /\ \A n \in DOMAIN writes : writes[n] \in History
           /\ nextXid \in Nat /\ NO_TRANSACTION \notin running
<1>1. /\ disk \in [Pages -> Images] /\ pool \in [Pages -> Frames]
      /\ undo \in [Xids -> UndoLogs] /\ running \subseteq Xids
      /\ writes \in Seq(History) /\ nextXid \in 1 .. MaxXid + 1
  BY DEF IInv, TypeOK, UndoLogs, History
<1>2. Len(writes) \in Nat /\ DOMAIN writes = 1 .. Len(writes) /\ \A n \in DOMAIN writes : writes[n] \in History
  BY <1>1, LenProperties, ElementOfSeq
<1>3. nextXid \in Nat /\ NO_TRANSACTION \notin running
  BY <1>1, XidFacts DEF Xids, NO_TRANSACTION
<1> QED BY <1>1, <1>2, <1>3

\* One write more, pending.
LEMMA HistoryGrows ==
    ASSUME IInv, NEW x \in Xids, NEW p \in Pages,
           writes' = Append(writes, [page |-> p, txn |-> x, fate |-> "pending"])
    PROVE  /\ DOMAIN writes' = DOMAIN writes \union {Len(writes) + 1}
           /\ Len(writes) + 1 \notin DOMAIN writes
           /\ \A n \in DOMAIN writes : writes'[n] = writes[n]
           /\ writes'[Len(writes) + 1] = [page |-> p, txn |-> x, fate |-> "pending"]
           /\ Committed' = Committed
           /\ \A q \in Pages : Unsettled(q)' = IF q = p THEN Unsettled(q) \union {Len(writes) + 1}
                                               ELSE Unsettled(q)
<1> DEFINE w == [page |-> p, txn |-> x, fate |-> "pending"]
           k == Len(writes) + 1
<1>1. w \in History /\ w.page = p /\ w.fate = "pending"
  BY DEF History, Fates
<1> HIDE DEF w
<1>2. writes' = Append(writes, w)
  BY DEF w
<1>3. /\ writes' \in Seq(History) /\ Len(writes') = Len(writes) + 1
      /\ \A n \in 1 .. Len(writes) + 1 : writes'[n] = IF n <= Len(writes) THEN writes[n] ELSE w
  BY <1>1, <1>2, OpenTyped, AppendFacts
<1>4. DOMAIN writes' = 1 .. Len(writes) + 1
  BY <1>3, LenProperties
<1>5. /\ 1 .. Len(writes) + 1 = DOMAIN writes \union {k} /\ k \notin DOMAIN writes
      /\ \A n \in DOMAIN writes : n \in 1 .. Len(writes) + 1 /\ n <= Len(writes)
      /\ k \in 1 .. Len(writes) + 1 /\ ~(k <= Len(writes))
  BY OpenTyped
<1>6. /\ DOMAIN writes' = DOMAIN writes \union {k}
      /\ \A n \in DOMAIN writes : writes'[n] = writes[n]
      /\ writes'[k] = w
  BY <1>3, <1>4, <1>5
<1> HIDE DEF k
<1>7. Committed' = Committed
  <2>1. ASSUME NEW q \in Pages
        PROVE  {n \in DOMAIN writes' : writes'[n].page = q /\ writes'[n].fate = "committed"}
                  = {n \in DOMAIN writes : writes[n].page = q /\ writes[n].fate = "committed"}
    BY <1>1, <1>6
  <2> QED BY <2>1 DEF Committed
<1>8. ASSUME NEW q \in Pages
      PROVE  Unsettled(q)' = IF q = p THEN Unsettled(q) \union {k} ELSE Unsettled(q)
  BY <1>1, <1>6 DEF Unsettled
<1> QED BY <1>5, <1>6, <1>7, <1>8 DEF w, k

\* The pending writes get a fate.
LEMMA HistorySettles ==
    ASSUME IInv, NEW fate \in {"committed", "aborted"},
           writes' = [n \in DOMAIN writes |->
                        IF writes[n].fate = "pending" THEN [writes[n] EXCEPT !.fate = fate]
                                                      ELSE writes[n]]
    PROVE  /\ NothingPending' /\ DOMAIN writes' = DOMAIN writes
           /\ \A p \in Pages : Unsettled(p)' = {}
           /\ \A p \in Pages : Committed'[p] = IF fate = "committed" THEN Committed[p] \union Unsettled(p)
                                               ELSE Committed[p]
           /\ fate = "aborted" => Committed' = Committed
<1>1. \A n \in DOMAIN writes : writes[n] \in History
  BY OpenTyped
<1>2. ASSUME NEW n \in DOMAIN writes
      PROVE  /\ writes'[n].page = writes[n].page
             /\ writes'[n].fate = IF writes[n].fate = "pending" THEN fate ELSE writes[n].fate
  BY <1>1 DEF History
<1>3. DOMAIN writes' = DOMAIN writes
  OBVIOUS
<1>4. NothingPending'
  BY <1>2, <1>3 DEF NothingPending
<1>5. \A p \in Pages : Unsettled(p)' = {}
  BY <1>4 DEF Unsettled, NothingPending
<1>6. ASSUME NEW p \in Pages
      PROVE  {n \in DOMAIN writes' : writes'[n].page = p /\ writes'[n].fate = "committed"}
                = IF fate = "committed"
                  THEN {n \in DOMAIN writes : writes[n].page = p /\ writes[n].fate = "committed"}
                          \union {n \in DOMAIN writes : writes[n].page = p /\ writes[n].fate = "pending"}
                  ELSE {n \in DOMAIN writes : writes[n].page = p /\ writes[n].fate = "committed"}
  BY <1>2, <1>3
<1>7. ASSUME NEW p \in Pages
      PROVE  Committed'[p] = IF fate = "committed" THEN Committed[p] \union Unsettled(p)
                             ELSE Committed[p]
  BY <1>6 DEF Committed, Unsettled
<1>8. fate = "aborted" => Committed' = Committed
  BY <1>6 DEF Committed
<1> QED BY <1>3, <1>4, <1>5, <1>7, <1>8

\* The one transaction ends.
LEMMA HistoryEnds ==
    ASSUME IInv, OneTransaction, NEW x \in running, NEW fate \in {"committed", "aborted"},
           Ends(x, fate)
    PROVE  /\ running' = {} /\ \A y \in Xids : undo'[y] = IF y = x THEN NoUndo ELSE undo[y]
           /\ NothingPending' /\ DOMAIN writes' = DOMAIN writes
           /\ \A p \in Pages : Unsettled(p)' = {}
           /\ \A p \in Pages : Committed'[p] = IF fate = "committed" THEN Committed[p] \union Unsettled(p)
                                               ELSE Committed[p]
           /\ fate = "aborted" => Committed' = Committed
<1>1. running' = {}
  BY DEF Ends, OneTransaction
<1>2. \A n \in DOMAIN writes : writes[n].fate = "pending" => writes[n].txn = x
  BY DEF OneTransaction
<1>3. writes' = [n \in DOMAIN writes |->
                   IF writes[n].fate = "pending" THEN [writes[n] EXCEPT !.fate = fate]
                                                 ELSE writes[n]]
  BY <1>2 DEF Ends, Settled
<1>4. \A y \in Xids : undo'[y] = IF y = x THEN NoUndo ELSE undo[y]
  BY OpenTyped DEF Ends
<1> QED BY <1>1, <1>3, <1>4, HistorySettles

\* Nothing is written and no fate changes.
LEMMA HistoryStays ==
    ASSUME UNCHANGED writes
    PROVE  /\ Committed' = Committed /\ NothingPending' = NothingPending
           /\ \A p : Unsettled(p)' = Unsettled(p)
BY DEF Committed, NothingPending, Unsettled

---------------------------------------------------------------------------
(* Steps of an open database that write nothing.                           *)

\* The part of the invariant that depends neither on the file nor on how much
\* of the log is in it.
OpenCore ==
    /\ LogIsWhole /\ RealRecords(AllRecords) /\ LogKnowsTransactions
    /\ ImagesOf(AllRecords, Len(log), Committed)
    /\ UndoIsCommitted /\ OneTransaction /\ PagesAreRight

\* OpenIsSound is that part, the frames, and what a crash would leave.
LEMMA OpenParts ==
    OpenIsSound <=> OpenCore /\ FramesAgree /\ (NoSteal => CrashIsHarmless)
BY DEF OpenIsSound, OpenCore

\* Longer logs leave fewer transactions unfinished.
LEMMA ImagesStay ==
    ASSUME NEW s, NEW k \in Nat, NEW m \in Nat, k <= m, NEW c, ImagesOf(s, k, c)
    PROVE  ImagesOf(s, m, c)
<1>1. \A j \in 1 .. k : j \in 1 .. m
  OBVIOUS
<1>2. \A x : Unfinished(s, m, x) => Unfinished(s, k, x)
  BY <1>1 DEF Unfinished
<1> QED BY <1>2 DEF ImagesOf

\* A step that moves no record and changes no page.
LEMMA CoreStays ==
    ASSUME IInv, OpenCore, AllRecords' = AllRecords,
           Len(log') \in Nat, Len(log) <= Len(log'),
           \A p \in Pages : Current(p)' = Current(p),
           UNCHANGED <<metaLsn, undo, nextXid, phase, rolling, running, writes>>
    PROVE  OpenCore'
<1>1. /\ LogIsWhole /\ RealRecords(AllRecords) /\ LogKnowsTransactions
      /\ ImagesOf(AllRecords, Len(log), Committed)
      /\ UndoIsCommitted /\ OneTransaction /\ PagesAreRight
  BY DEF OpenCore
<1>2. Committed' = Committed /\ \A p : Unsettled(p)' = Unsettled(p)
  BY HistoryStays
<1>3. LogIsWhole' /\ RealRecords(AllRecords)'
  BY <1>1 DEF LogIsWhole, RealRecords
<1>4. LogKnowsTransactions'
  BY <1>1 DEF LogKnowsTransactions
<1>5. ImagesOf(AllRecords, Len(log), Committed)'
  BY <1>1, <1>2, AllFacts, ImagesStay
<1>6. UndoIsCommitted' /\ OneTransaction'
  BY <1>1, <1>2 DEF UndoIsCommitted, OneTransaction
<1>7. PagesAreRight'
  BY <1>1, <1>2 DEF PagesAreRight, IsListed, LastIsRestore
<1> QED BY <1>3, <1>4, <1>5, <1>6, <1>7 DEF OpenCore

\* begin.
LEMMA BeginIsSound ==
    ASSUME IInv, MaxSessions = 1, begin, OpenIsSound
    PROVE  OpenIsSound'
<1>1. OpenCore /\ FramesAgree /\ (NoSteal => CrashIsHarmless)
  BY OpenParts
<1>2. running = {}
  <2>1. IsFiniteSet(running)
    <3>1. IsFiniteSet(Xids)
      BY XidFacts, FS_Interval DEF Xids
    <3> QED BY <3>1, OpenTyped, FS_Subset
  <2>2. Cardinality(running) < 1 /\ Cardinality(running) \in Nat
    BY <2>1, FS_CardinalityType DEF begin
  <2>3. Cardinality(running) = 0
    BY <2>2
  <2> QED BY <2>1, <2>3, FS_EmptySet
<1> DEFINE x == nextXid
<1>3. /\ running' = {x} /\ nextXid' = x + 1 /\ phase = "open" /\ x \in Xids
      /\ UNCHANGED <<disk, metaLsn, log, buffer, pool, undo, phase, rolling, writes>>
  BY <1>2, OpenTyped DEF begin, files, Xids, IInv, TypeOK
<1>4. Committed' = Committed /\ \A p : Unsettled(p)' = Unsettled(p)
  BY <1>3, HistoryStays
<1>5. AllRecords' = AllRecords /\ \A p : Current(p)' = Current(p)
  BY <1>3 DEF AllRecords, Current
<1>6. undo[x] = NoUndo
  BY <1>1, <1>2, <1>3 DEF OpenCore, UndoIsCommitted
<1>7. /\ LogIsWhole /\ RealRecords(AllRecords) /\ LogKnowsTransactions
      /\ ImagesOf(AllRecords, Len(log), Committed)
      /\ UndoIsCommitted /\ OneTransaction /\ PagesAreRight
  BY <1>1 DEF OpenCore
<1>8. LogIsWhole' /\ RealRecords(AllRecords)' /\ ImagesOf(AllRecords, Len(log), Committed)'
  BY <1>3, <1>4, <1>5, <1>7 DEF LogIsWhole, RealRecords, ImagesOf
<1>9. x \in Nat /\ \A i \in 1 .. Len(AllRecords) : AllRecords[i].txn \in Nat /\ AllRecords[i].txn < x
  <2>1. \A i \in 1 .. Len(AllRecords) : AllRecords[i].txn \in 0 .. MaxXid
    BY AllFacts, RecordFields
  <2> QED BY <1>7, <2>1, OpenTyped DEF LogKnowsTransactions
<1> HIDE DEF x
<1>10. \A i \in 1 .. Len(AllRecords) : AllRecords[i].txn < x + 1 /\ AllRecords[i].txn # x
  BY <1>9
<1>11. LogKnowsTransactions'
  <2>1. nextXid' = x + 1 /\ running' = {x} /\ undo'[x].captured = {}
    BY <1>3, <1>6 DEF NoUndo
  <2> QED BY <1>2, <1>5, <1>7, <1>10, <2>1 DEF LogKnowsTransactions
<1>12. UndoIsCommitted'
  <2>1. /\ undo'[x].captured = {} /\ undo'[x].images = <<>> /\ Len(undo'[x].images) = 0
        /\ Cardinality(undo'[x].captured) = 0
    BY <1>3, <1>6, FS_EmptySet DEF NoUndo
  <2>2. \A y \in Xids : y \notin running' => undo'[y] = NoUndo
    BY <1>2, <1>3, <1>7 DEF UndoIsCommitted
  <2>3. 1 .. Len(undo'[x].images) = {} /\ 0 <= 0
    BY <2>1
  <2>4. running' = {x}
    BY <1>3
  <2> QED BY <2>1, <2>2, <2>3, <2>4 DEF UndoIsCommitted
<1>13. OneTransaction'
  <2>1. \A n \in DOMAIN writes : writes[n].fate # "pending"
    BY <1>2, <1>7 DEF OneTransaction
  <2>2. x < x + 1
    BY <1>9
  <2>3. nextXid' = x + 1 /\ running' = {x} /\ writes' = writes
    BY <1>3
  <2> QED BY <2>1, <2>2, <2>3 DEF OneTransaction
<1>14. PagesAreRight'
  BY <1>3, <1>4, <1>5, <1>7 DEF PagesAreRight
<1>15. FramesAgree'
  BY <1>1, <1>3 DEF FramesAgree
<1>16. NoSteal => CrashIsHarmless'
  BY <1>1, <1>2, <1>3, <1>4, <1>5 DEF CrashIsHarmless, flushed_lsn
<1>17. OpenCore'
  BY <1>8, <1>11, <1>12, <1>13, <1>14 DEF OpenCore
<1> QED BY <1>15, <1>16, <1>17 DEF OpenIsSound, OpenCore

\* Reading a page into a frame.
LEMMA FetchIsSound ==
    ASSUME IInv, NEW p \in Pages, Fetch(p), RealPages(disk), OpenIsSound
    PROVE  OpenIsSound' /\ RealPages(disk')
<1>1. OpenCore /\ FramesAgree /\ (NoSteal => CrashIsHarmless)
  BY OpenParts
<1>2. /\ ~pool[p].resident
      /\ UNCHANGED <<metaLsn, undo, nextXid, phase, rolling, running, writes>>
  BY DEF Fetch
<1>3. Frame(disk[p], FALSE).resident /\ Frame(disk[p], FALSE).image = disk[p] /\ ~Frame(disk[p], FALSE).dirty
  BY DEF Frame
<1>4. ~NoFrame.resident /\ ~NoFrame.dirty
  BY DEF NoFrame
<1>5. CASE /\ Cardinality(Resident) < Capacity
           /\ pool' = [pool EXCEPT ![p] = Frame(disk[p], FALSE)]
           /\ UNCHANGED <<disk, log, buffer>>
  <2> DEFINE f == Frame(disk[p], FALSE)
  <2> HIDE DEF f
  <2>1. \A q \in Pages : pool'[q] = IF q = p THEN f ELSE pool[q]
    BY <1>5, OpenTyped DEF f
  <2>10. f.resident /\ f.image = disk[p] /\ ~f.dirty
    BY <1>3 DEF f
  <2>11. disk' = disk
    BY <1>5
  <2>2. AllRecords' = AllRecords /\ \A q \in Pages : Current(q)' = Current(q)
    <3>1. \A q \in Pages : Current(q)' = Current(q)
      BY <1>2, <2>1, <2>10, <2>11 DEF Current
    <3> QED BY <1>5, <3>1 DEF AllRecords
  <2>3. OpenCore'
    <3>1. Len(log') \in Nat /\ Len(log) <= Len(log')
      BY <1>5, AllFacts
    <3> QED BY <1>1, <1>2, <2>2, <3>1, CoreStays
  <2>4. FramesAgree'
    BY <1>1, <2>1, <2>10, <2>11 DEF FramesAgree, RealPages
  <2>5. NoSteal => CrashIsHarmless'
    <3>1. Committed' = Committed
      BY <1>2, HistoryStays
    <3> QED BY <1>1, <1>2, <1>5, <2>2, <3>1 DEF CrashIsHarmless, flushed_lsn
  <2> QED BY <1>5, <2>3, <2>4, <2>5 DEF OpenIsSound, OpenCore
<1>6. ASSUME Cardinality(Resident) >= Capacity,
             NEW v \in Resident,
             pool' = [pool EXCEPT ![v] = NoFrame, ![p] = Frame(disk[p], FALSE)],
             disk' = Written({v} \intersect DirtyPages),
             IF pool[v].dirty /\ must_flush(pool[v].image.lsn)
                   THEN log' = log \o buffer /\ buffer' = <<>>
                   ELSE UNCHANGED <<log, buffer>>
      PROVE  OpenIsSound' /\ RealPages(disk')
  <2>1. v \in Pages /\ v # p /\ pool[v].resident
    BY <1>2, <1>6 DEF Resident
  <2>2. \A q \in Pages : pool'[q] = IF q = p THEN Frame(disk[p], FALSE)
                                    ELSE IF q = v THEN NoFrame ELSE pool[q]
    BY <1>6, <2>1, OpenTyped
  <2>3. \A q \in Pages : disk'[q] = IF q = v /\ pool[v].dirty THEN pool[v].image ELSE disk[q]
    BY <1>6, <2>1 DEF Written, DirtyPages
  <2>4. \A q \in Pages : Current(q)' = Current(q)
    BY <1>1, <1>2, <1>3, <1>4, <2>1, <2>2, <2>3 DEF Current, FramesAgree
  <2>5. AllRecords' = AllRecords /\ Len(log') \in Nat /\ Len(log) <= Len(log')
    <3>1. CASE log' = log \o buffer /\ buffer' = <<>>
      BY <3>1, AllFacts, AllFlushed
    <3>2. CASE UNCHANGED <<log, buffer>>
      BY <3>2, AllFacts DEF AllRecords
    <3> QED BY <1>6, <3>1, <3>2
  <2>6. OpenCore'
    BY <1>1, <1>2, <2>4, <2>5, CoreStays
  <2>7. RealPages(disk') /\ FramesAgree'
    <3>1. RealPages(disk')
      BY <1>1, <1>2, <1>3, <1>4, <2>1, <2>3 DEF FramesAgree, RealPages
    <3>2. ASSUME NEW q \in Pages
          PROVE  /\ pool'[q].dirty => pool'[q].resident
                 /\ pool'[q].resident /\ ~pool'[q].dirty => pool'[q].image = disk'[q]
                 /\ pool'[q].resident => pool'[q].image # NoImage
      <4>1. CASE q = p
        BY <1>1, <1>2, <1>3, <1>4, <2>1, <2>2, <2>3, <4>1 DEF RealPages
      <4>2. CASE q = v
        BY <1>1, <1>2, <1>3, <1>4, <2>1, <2>2, <2>3, <4>2
      <4>3. CASE q # p /\ q # v
        BY <1>1, <2>2, <2>3, <4>3 DEF FramesAgree
      <4> QED BY <4>1, <4>2, <4>3
    <3> QED BY <3>1, <3>2 DEF FramesAgree
  <2>8. ~NoSteal
    <3>1. Resident \subseteq Pages /\ p \notin Resident
      BY <1>2 DEF Resident
    <3>2. /\ IsFiniteSet(Resident) /\ Cardinality(Resident) <= Cardinality(Pages)
          /\ Cardinality(Resident) = Cardinality(Pages) => Resident = Pages
      BY <3>1, BoundsAssumption, FS_Subset
    <3>3. Cardinality(Resident) # Cardinality(Pages)
      BY <3>1, <3>2
    <3>4. Cardinality(Resident) \in Nat /\ Cardinality(Pages) \in Nat /\ Capacity \in Nat
      BY <3>2, BoundsAssumption, FS_CardinalityType
    <3> QED BY <1>6, <3>2, <3>3, <3>4 DEF NoSteal
  <2> QED BY <2>6, <2>7, <2>8 DEF OpenIsSound, OpenCore
<1>7. \/ /\ Cardinality(Resident) < Capacity
         /\ pool' = [pool EXCEPT ![p] = Frame(disk[p], FALSE)]
         /\ UNCHANGED <<disk, log, buffer>>
      \/ \E v \in Resident :
            /\ Cardinality(Resident) >= Capacity
            /\ pool' = [pool EXCEPT ![v] = NoFrame, ![p] = Frame(disk[p], FALSE)]
            /\ disk' = Written({v} \intersect DirtyPages)
            /\ IF pool[v].dirty /\ must_flush(pool[v].image.lsn)
               THEN log' = log \o buffer /\ buffer' = <<>>
               ELSE UNCHANGED <<log, buffer>>
  BY DEF Fetch
<1> QED BY <1>5, <1>6, <1>7

---------------------------------------------------------------------------
(* Writing pages back.                                                     *)

\* The images the open database has, and how new they are.
LEMMA CurrentFacts ==
    ASSUME IInv, phase \in Running, crashes.repaired, NEW p \in Pages
    PROVE  /\ Current(p) \in Images /\ Current(p).lsn \in Int /\ Current(p).lsn <= next_lsn
           /\ pool[p].image \in Images /\ pool[p].image.lsn \in Int /\ disk[p] \in Images
           /\ disk[p].lsn \in Int /\ disk[p].lsn <= flushed_lsn
           /\ pool[p].image.lsn <= next_lsn /\ (pool[p].dirty => pool[p].image.lsn < next_lsn)
<1>1. FramesBounded(pool, next_lsn) /\ PagesBounded(disk, flushed_lsn)
  BY OpenFacts DEF Continuous
<1>2. pool[p] \in Frames /\ disk[p] \in Images
  BY OpenTyped
<1>3. pool[p].image \in Images /\ pool[p].image.lsn \in Int /\ disk[p].lsn \in Int
  BY <1>2 DEF Frames, Images
<1>4. /\ pool[p].image.lsn <= next_lsn /\ (pool[p].dirty => pool[p].image.lsn < next_lsn)
      /\ disk[p].lsn <= flushed_lsn
  BY <1>1 DEF FramesBounded, PagesBounded
<1>5. disk[p].lsn <= next_lsn
  BY <1>3, <1>4, LogNumbers
<1> QED BY <1>2, <1>3, <1>4, <1>5 DEF Current

\* Some dirty pages reach the file: recovery of the whole log does not mind.
LEMMA WrittenOut ==
    ASSUME IInv, phase \in Running, crashes.repaired, RealPages(disk), OpenIsSound,
           NEW S \in SUBSET DirtyPages
    PROVE  /\ Written(S) \in [Pages -> Images] /\ RealPages(Written(S))
           /\ \A p \in Pages : Written(S)[p] = IF p \in S THEN Current(p) ELSE disk[p]
           /\ NoSteal => /\ \A p \in Pages :
                               Redone(Written(S), AllRecords, Len(AllRecords), p, Current(p))
                         /\ SoundTo(Written(S), AllRecords, Len(AllRecords), Committed)
                         /\ \A p \in Pages : Written(S)[p].lsn < next_lsn
<1> DEFINE e == Written(S)
           n == Len(AllRecords)
<1>1. FramesAgree /\ LogIsWhole /\ (NoSteal => CrashIsHarmless)
  BY DEF OpenIsSound
<1>2. \A p \in Pages : p \in S => pool[p].dirty /\ pool[p].resident
  BY <1>1 DEF DirtyPages, FramesAgree
<1>3. \A p \in Pages : e[p] = IF p \in S THEN Current(p) ELSE disk[p]
  BY <1>2 DEF Written, Current
<1>4. \A p \in Pages : e[p] \in Images
  BY <1>3, CurrentFacts
<1>5. e \in [Pages -> Images]
  <2>1. e = [p \in Pages |-> e[p]]
    BY DEF Written
  <2> QED BY <1>4, <2>1
<1>6. RealPages(e)
  BY <1>1, <1>2, <1>3 DEF RealPages, FramesAgree, Current
<1> HIDE DEF e, n
<1>7. Placed(AllRecords, metaLsn)
  BY <1>1 DEF LogIsWhole, Placed
<1>8. ASSUME NoSteal, NEW p \in Pages
      PROVE  Redone(e, AllRecords, n, p, Current(p))
  <2>1. Redone(disk, AllRecords, n, p, Current(p))
    BY <1>1, <1>8 DEF CrashIsHarmless, n
  <2>2. e[p] = disk[p] \/ e[p] = Current(p)
    BY <1>3
  <2>3. Current(p) \in Images /\ disk \in [Pages -> Images] /\ AllRecords \in Seq(Records) /\ metaLsn \in Nat
    BY CurrentFacts, OpenTyped, AllFacts, LogNumbers
  <2> QED BY <1>5, <1>7, <2>1, <2>2, <2>3, RedoneAgain DEF n
<1>9. n \in Nat /\ n \in Len(log) .. n
  BY AllFacts DEF n
<1>10. ASSUME NoSteal, NEW p \in Pages
       PROVE  Covered(AllRecords, n, p) \/ RedoneRows(e, AllRecords, n, p, Committed[p])
  <2>1. SoundTo(disk, AllRecords, n, Committed) /\ Redone(disk, AllRecords, n, p, Current(p))
    BY <1>1, <1>9, <1>10 DEF CrashIsHarmless, n
  <2>2. CASE RedoneRows(disk, AllRecords, n, p, Committed[p])
    <3>1. Current(p).rows = Committed[p]
      BY <1>9, <2>1, <2>2, OneSource
    <3> QED BY <1>8, <1>9, <1>10, <3>1, OneSource
  <2> QED BY <2>1, <2>2 DEF SoundTo
<1>11. ASSUME NoSteal, NEW p \in Pages PROVE e[p].lsn < next_lsn
  <2>1. CASE p \in S
    <3>1. e[p] = pool[p].image /\ pool[p].dirty
      BY <1>2, <1>3, <2>1 DEF Current
    <3> QED BY <3>1, CurrentFacts
  <2>2. CASE p \notin S
    <3>1. e[p] = disk[p] /\ disk[p].lsn < flushed_lsn
      BY <1>1, <1>3, <1>11, <2>2 DEF CrashIsHarmless
    <3> QED BY <3>1, CurrentFacts, LogNumbers
  <2> QED BY <2>1, <2>2
<1>12. NoSteal => SoundTo(e, AllRecords, n, Committed)
  BY <1>10 DEF SoundTo
<1> QED BY <1>3, <1>5, <1>6, <1>8, <1>11, <1>12 DEF e, n

\* All of them do.
LEMMA AllWritten ==
    ASSUME FramesAgree
    PROVE  \A p \in Pages : /\ Written(DirtyPages)[p] = Current(p)
                            /\ Cleaned(DirtyPages)[p].resident = pool[p].resident
                            /\ Cleaned(DirtyPages)[p].image = pool[p].image
                            /\ ~Cleaned(DirtyPages)[p].dirty
BY DEF FramesAgree, Written, Cleaned, DirtyPages, Current

\* sync.
LEMMA SyncIsSound ==
    ASSUME IInv, sync, crashes.repaired, RealPages(disk), OpenIsSound
    PROVE  OpenIsSound' /\ RealPages(disk')
<1>1. OpenCore /\ FramesAgree
  BY OpenParts
<1>2. /\ log' = log \o buffer /\ buffer' = <<>>
      /\ disk' = Written(DirtyPages) /\ pool' = Cleaned(DirtyPages)
      /\ UNCHANGED <<metaLsn, undo, nextXid, phase, rolling, running, writes>>
      /\ phase \in Running
  BY DEF sync, Running
<1>3. AllRecords' = AllRecords /\ Len(log') = Len(AllRecords)
  BY <1>2, AllFlushed
<1>4. \A p \in Pages : /\ disk'[p] = Current(p) /\ pool'[p].resident = pool[p].resident
                       /\ pool'[p].image = pool[p].image /\ ~pool'[p].dirty
  BY <1>1, <1>2, AllWritten
<1>5. \A p \in Pages : Current(p)' = Current(p)
  BY <1>4 DEF Current
<1>6. /\ RealPages(disk')
      /\ NoSteal => /\ \A p \in Pages : Redone(disk', AllRecords, Len(AllRecords), p, Current(p))
                    /\ SoundTo(disk', AllRecords, Len(AllRecords), Committed)
                    /\ \A p \in Pages : disk'[p].lsn < next_lsn
  BY <1>2, WrittenOut
<1>7. Len(log') \in Nat /\ Len(log) <= Len(log')
  BY <1>3, AllFacts
<1>8. OpenCore'
  BY <1>1, <1>2, <1>3, <1>5, <1>7, CoreStays
<1>9. FramesAgree'
  BY <1>1, <1>4 DEF FramesAgree, Current
<1>10. ASSUME NoSteal PROVE CrashIsHarmless'
  <2>1. Committed' = Committed
    BY <1>2, HistoryStays
  <2>2. flushed_lsn' = next_lsn
    <3>1. flushed_lsn' = metaLsn + Len(AllRecords)
      BY <1>2, <1>3 DEF flushed_lsn
    <3>2. Len(AllRecords) = Len(log) + Len(buffer)
      BY AllFacts
    <3> QED BY <3>1, <3>2, LogNumbers
  <2>3. /\ \A k \in Len(AllRecords) .. Len(AllRecords) : k = Len(AllRecords)
        /\ Len(AllRecords) + 1 .. Len(AllRecords) = {}
    BY AllFacts
  <2>4. \A k \in Len(log') .. Len(AllRecords') : SoundTo(disk', AllRecords', k, Committed')
    BY <1>3, <1>6, <1>10, <2>1, <2>3
  <2>5. \A p \in Pages : Redone(disk', AllRecords', Len(AllRecords'), p, Current(p)')
    BY <1>3, <1>5, <1>6, <1>10
  <2>6. \A p \in Pages : disk'[p].lsn < flushed_lsn'
    BY <1>6, <1>10, <2>2
  <2>7. Len(log') + 1 .. Len(AllRecords') = {}
    BY <1>3, <2>3
  <2> QED BY <2>4, <2>5, <2>6, <2>7 DEF CrashIsHarmless
<1> QED BY <1>6, <1>8, <1>9, <1>10 DEF OpenIsSound, OpenCore

\* A database with an empty log and no transaction, whose pages are right.
Afresh ==
    /\ phase = "open" /\ log = <<>> /\ buffer = <<>>
    /\ running = {} /\ (\A x \in Xids : undo[x] = NoUndo) /\ NothingPending
    /\ FramesAgree
    /\ \A p \in Pages : /\ Current(p) = disk[p] /\ disk[p].rows = Committed[p]
                        /\ disk[p].lsn < flushed_lsn

\* It is a sound open database: a clean open, a restamp and the end of a recovery
\* arrive here.
LEMMA AfreshIsSound == Afresh => OpenIsSound
<1> SUFFICES ASSUME Afresh PROVE OpenIsSound
  OBVIOUS
<1>1. AllRecords = <<>> /\ Len(AllRecords) = 0 /\ Len(log) = 0
  BY EmptySeq, ConcatEmptySeq DEF Afresh, AllRecords
<1>2. 1 .. Len(AllRecords) = {} /\ Len(log) .. Len(AllRecords) = {0} /\ Len(log) + 1 .. Len(AllRecords) = {}
  BY <1>1
<1>3. LogIsWhole /\ RealRecords(AllRecords) /\ ImagesOf(AllRecords, Len(log), Committed)
  BY <1>2 DEF LogIsWhole, RealRecords, ImagesOf
<1>4. LogKnowsTransactions /\ UndoIsCommitted /\ OneTransaction
  BY <1>2 DEF Afresh, LogKnowsTransactions, UndoIsCommitted, OneTransaction, NothingPending
<1>5. PagesAreRight
  <2>1. \A p \in Pages : Unsettled(p) = {}
    BY DEF Afresh, NothingPending, Unsettled
  <2> QED BY <2>1 DEF Afresh, PagesAreRight
<1>6. ASSUME NEW p \in Pages
      PROVE  /\ Redone(disk, AllRecords, 0, p, Current(p))
             /\ RedoneRows(disk, AllRecords, 0, p, Committed[p])
  <2>1. 0 + 1 .. 0 = {} /\ 0 \in 0 .. 0 /\ ~(0 > 0)
    OBVIOUS
  <2>2. IsSource(disk, AllRecords, 0, p, 0)
    BY <2>1 DEF IsSource
  <2>3. Current(p) = ImageAt(disk, AllRecords, p, 0) /\ Committed[p] = ImageAt(disk, AllRecords, p, 0).rows
    BY DEF Afresh, ImageAt
  <2> QED BY <2>1, <2>2, <2>3 DEF Redone, RedoneRows
<1>7. CrashIsHarmless
  <2>1. SoundTo(disk, AllRecords, 0, Committed)
    BY <1>6 DEF SoundTo
  <2> QED BY <1>1, <1>2, <1>6, <2>1 DEF CrashIsHarmless, Afresh
<1> QED BY <1>3, <1>4, <1>5, <1>7 DEF OpenIsSound, Afresh

\* A checkpoint's pages.
LEMMA CheckpointPages ==
    ASSUME IInv, phase = "open", running = {}, crashes.repaired, RealPages(disk), OpenIsSound,
           disk' = Written(DirtyPages), log' = <<>>, metaLsn' = next_lsn + 1, UNCHANGED writes
    PROVE  /\ RealPages(disk') /\ NothingPending' /\ Committed' = Committed
           /\ flushed_lsn' = next_lsn + 1
           /\ \A p \in Pages : /\ disk'[p] = Current(p) /\ disk'[p].rows = Committed[p]
                               /\ disk'[p].lsn < next_lsn + 1
<1>1. FramesAgree /\ PagesAreRight /\ OneTransaction /\ phase \in Running
  BY DEF OpenIsSound, Running
<1>2. \A p \in Pages : disk'[p] = Current(p)
  BY <1>1, AllWritten
<1>3. NothingPending
  BY <1>1 DEF OneTransaction, NothingPending
<1>4. \A p \in Pages : Unsettled(p) = {}
  BY <1>3 DEF NothingPending, Unsettled
<1>5. \A p \in Pages : disk'[p].rows = Committed[p]
  BY <1>1, <1>2, <1>4 DEF PagesAreRight
<1>6. ASSUME NEW p \in Pages PROVE disk'[p].lsn < next_lsn + 1
  BY <1>1, <1>2, CurrentFacts, LogNumbers
<1>7. RealPages(disk')
  BY <1>1, WrittenOut
<1>8. flushed_lsn' = next_lsn + 1
  <2>1. Len(log') = 0
    BY EmptySeq
  <2> QED BY <2>1, LogNumbers DEF flushed_lsn
<1> QED BY <1>2, <1>3, <1>5, <1>6, <1>7, <1>8, HistoryStays

\* checkpoint.
LEMMA CheckpointIsSound ==
    ASSUME IInv, checkpoint, crashes.repaired, RealPages(disk), OpenIsSound
    PROVE  OpenIsSound' /\ RealPages(disk')
<1>1. /\ phase = "open" /\ running = {} /\ disk' = Written(DirtyPages) /\ log' = <<>>
      /\ metaLsn' = next_lsn + 1 /\ buffer' = <<>> /\ pool' = Cleaned(DirtyPages)
      /\ UNCHANGED <<undo, phase, running, writes>>
  BY DEF checkpoint, CheckpointFiles
<1>2. FramesAgree /\ UndoIsCommitted
  BY DEF OpenIsSound
<1>3. /\ RealPages(disk') /\ NothingPending' /\ Committed' = Committed /\ flushed_lsn' = next_lsn + 1
      /\ \A p \in Pages : /\ disk'[p] = Current(p) /\ disk'[p].rows = Committed[p]
                          /\ disk'[p].lsn < next_lsn + 1
  BY <1>1, CheckpointPages
<1>4. \A p \in Pages : /\ pool'[p].resident = pool[p].resident
                       /\ pool'[p].image = pool[p].image /\ ~pool'[p].dirty
  BY <1>1, <1>2, AllWritten
<1>5. FramesAgree' /\ \A p \in Pages : Current(p)' = disk'[p]
  BY <1>2, <1>3, <1>4 DEF FramesAgree, Current
<1>6. \A x \in Xids : undo'[x] = NoUndo
  BY <1>1, <1>2 DEF UndoIsCommitted
<1>7. Afresh'
  BY <1>1, <1>3, <1>5, <1>6 DEF Afresh
<1>8. Afresh' => OpenIsSound'
  BY AfreshIsSound, PTL
<1> QED BY <1>3, <1>7, <1>8

---------------------------------------------------------------------------
(* The end of a transaction.                                               *)

\* Log t is log s and a record at its end that finishes x.
Finishing(s, t, type, x, base) ==
    /\ t \in Seq(Records) /\ Len(t) = Len(s) + 1
    /\ \A i \in 1 .. Len(s) : t[i] = s[i]
    /\ t[Len(s) + 1].type = type /\ t[Len(s) + 1].txn = x
    /\ ~t[Len(s) + 1].hasUndo
    /\ t[Len(s) + 1].lsn = base + Len(s)

\* Its record comes after all the others, staged or flushed with them.
LEMMA EndingIsStaged ==
    ASSUME IInv, NEW type \in {"commit", "abort"}, NEW x \in 0 .. MaxXid
    PROVE  Finishing(AllRecords, log \o Append(buffer, Ending(type, x, next_lsn)), type, x, metaLsn)
<1> DEFINE t == log \o Append(buffer, Ending(type, x, next_lsn))
           r == Ending(type, x, next_lsn)
           b == Append(buffer, r)
           s == AllRecords
           n == Len(AllRecords)
<1>1. /\ r \in Records /\ r.type = type /\ r.txn = x /\ ~r.hasUndo /\ r.lsn = next_lsn
  <2>1. r \in Records
    BY LogNumbers, EndingTyped
  <2> QED BY <2>1 DEF Ending, Record
<1> HIDE DEF r
<1>2. /\ b \in Seq(Records) /\ Len(b) = Len(buffer) + 1
      /\ \A i \in 1 .. Len(buffer) + 1 : b[i] = IF i <= Len(buffer) THEN buffer[i] ELSE r
  BY <1>1, LogNumbers, AppendFacts
<1>3. t = log \o b
  BY DEF r
<1> HIDE DEF b, t
<1>4. /\ t \in Seq(Records) /\ Len(t) = Len(log) + Len(b)
      /\ \A i \in 1 .. Len(log) + Len(b) : t[i] = IF i <= Len(log) THEN log[i] ELSE b[i - Len(log)]
  <2>1. log \in Seq(Records)
    BY LogNumbers
  <2> DEFINE u == log \o b
  <2>2. /\ u \in Seq(Records) /\ Len(u) = Len(log) + Len(b)
        /\ \A i \in 1 .. Len(log) + Len(b) : u[i] = IF i <= Len(log) THEN log[i] ELSE b[i - Len(log)]
    BY <1>2, <2>1, Joined
  <2>3. t = u
    BY <1>3
  <2> HIDE DEF u
  <2> QED BY <2>2, <2>3
<1>5. /\ n = Len(log) + Len(buffer) /\ Len(log) \in Nat /\ Len(buffer) \in Nat
      /\ \A i \in 1 .. n : s[i] = IF i <= Len(log) THEN log[i] ELSE buffer[i - Len(log)]
  BY AllFacts
<1> HIDE DEF n, s
<1>6. Len(t) = n + 1 /\ n + 1 \in 1 .. Len(log) + Len(b) /\ ~(n + 1 <= Len(log))
  BY <1>2, <1>4, <1>5
<1>7. n + 1 - Len(log) = Len(buffer) + 1 /\ Len(buffer) + 1 \in 1 .. Len(buffer) + 1 /\ ~(Len(buffer) + 1 <= Len(buffer))
  BY <1>5
<1>8. t[n + 1] = r
  <2>1. \A k \in 1 .. Len(log) + Len(b) : ~(k <= Len(log)) /\ k - Len(log) = Len(buffer) + 1 => t[k] = r
    BY <1>2, <1>4, <1>7
  <2> DEFINE k == n + 1
  <2>2. k \in 1 .. Len(log) + Len(b) /\ ~(k <= Len(log)) /\ k - Len(log) = Len(buffer) + 1
    BY <1>5, <1>6, <1>7
  <2> HIDE DEF k
  <2>3. t[k] = r
    BY <2>1, <2>2
  <2> QED BY <2>3 DEF k
<1>9. ASSUME NEW i \in 1 .. n PROVE t[i] = s[i]
  <2>1. i \in 1 .. Len(log) + Len(b) /\ (~(i <= Len(log)) => i - Len(log) \in 1 .. Len(buffer) + 1 /\ i - Len(log) <= Len(buffer))
    BY <1>2, <1>5
  <2> QED BY <1>2, <1>4, <1>5, <2>1
<1>10. next_lsn = metaLsn + n
  BY <1>5, LogNumbers
<1>11. Finishing(s, t, type, x, metaLsn)
  BY <1>1, <1>4, <1>6, <1>8, <1>9, <1>10 DEF Finishing, n, s
<1> QED BY <1>11 DEF s, t

\* What the log of a transaction that ends is like.
LEMMA LogAfterEnding ==
    ASSUME IInv, OpenIsSound, NEW x \in running, OneTransaction,
           NEW type \in {"commit", "abort"},
           Finishing(AllRecords, AllRecords', type, x, metaLsn),
           running' = {}, UNCHANGED <<metaLsn, nextXid>>
    PROVE  /\ LogIsWhole' /\ RealRecords(AllRecords') /\ LogKnowsTransactions'
           /\ \A i \in 1 .. Len(AllRecords') :
                 ~Unfinished(AllRecords', Len(AllRecords'), AllRecords'[i].txn)
<1> DEFINE s == AllRecords
           t == AllRecords'
           n == Len(AllRecords)
           r == t[n + 1]
<1>1. LogIsWhole /\ RealRecords(s) /\ LogKnowsTransactions
  BY DEF OpenIsSound
<1>2. n \in Nat /\ x < nextXid /\ metaLsn \in Nat
  BY AllFacts, LogNumbers DEF OneTransaction
<1>3. \A i \in 1 .. n + 1 : i \in 1 .. n \/ i = n + 1
  BY <1>2
<1>4. /\ r.type \in {"commit", "abort"} /\ r.txn = x /\ ~r.hasUndo /\ r.lsn = metaLsn + n
      /\ r.type # "torn" /\ r.type # "update" /\ IsEnding(r)
  BY DEF IsEnding, Finishing
<1>5. \A i \in 1 .. n : t[i] = s[i]
  BY DEF Finishing
<1>6. Len(t) = n + 1
  BY DEF Finishing
<1>7. \A y : Unfinished(t, n + 1, y) <=> Unfinished(s, n, y) /\ y # x
  <2> HIDE DEF s, t, n
  <2>1. \A y : Unfinished(t, n + 1, y) <=> Unfinished(s, n, y) /\ y # t[n + 1].txn
    BY <1>2, <1>4, <1>5, EndingAdded
  <2> QED BY <1>4, <2>1
<1> HIDE DEF s, t, n, r
<1>8. LogIsWhole'
  <2>1. metaLsn + n = metaLsn + (n + 1) - 1
    BY <1>2
  <2>2. ASSUME NEW i \in 1 .. n + 1
        PROVE  /\ t[i].type # "torn" /\ t[i].lsn = metaLsn + i - 1
               /\ t[i].hasUndo => t[i].type = "update"
               /\ t[i].type = "update" => t[i].after.lsn = t[i].lsn
    <3>1. CASE i \in 1 .. n
      BY <1>1, <1>5, <3>1 DEF LogIsWhole, s, n
    <3>2. CASE i = n + 1
      BY <1>4, <2>1, <3>2 DEF r
    <3> QED BY <1>3, <3>1, <3>2
  <2> QED BY <1>6, <2>2 DEF LogIsWhole, t
<1>9. RealRecords(t)
  BY <1>1, <1>3, <1>4, <1>5, <1>6 DEF RealRecords, r, n, s
<1>10. ASSUME NEW i \in 1 .. n + 1 PROVE ~Unfinished(t, n + 1, t[i].txn) /\ t[i].txn < nextXid
  <2>1. CASE i \in 1 .. n
    <3>1. /\ s[i].txn = NO_TRANSACTION \/ s[i].txn \in running \/ ~Unfinished(s, n, s[i].txn)
          /\ s[i].txn < nextXid
      BY <1>1, <2>1 DEF LogKnowsTransactions, s, n
    <3>2. s[i].txn \in running => s[i].txn = x
      BY DEF OneTransaction
    <3>3. s[i].txn = NO_TRANSACTION => ~Unfinished(s, n, s[i].txn)
      BY DEF Unfinished
    <3> QED BY <1>5, <1>7, <2>1, <3>1, <3>2, <3>3
  <2>2. CASE i = n + 1
    BY <1>2, <1>4, <1>7, <2>2 DEF r
  <2> QED BY <1>3, <2>1, <2>2
<1>11. LogKnowsTransactions'
  <2> QED BY <1>6, <1>10 DEF LogKnowsTransactions, t
<1> QED BY <1>6, <1>8, <1>9, <1>10, <1>11 DEF t

\* With no transaction there is nothing left to undo or to restore.
LEMMA NoTransaction ==
    ASSUME running' = {}, NothingPending', \A y \in Xids : undo'[y] = NoUndo
    PROVE  UndoIsCommitted' /\ OneTransaction'
BY DEF UndoIsCommitted, OneTransaction, NothingPending

\* commit.
LEMMA CommitIsSound ==
    ASSUME IInv, NEW x \in Xids, commit(x), OpenIsSound
    PROVE  OpenIsSound'
<1> DEFINE s == AllRecords
           t == AllRecords'
           n == Len(AllRecords)
<1>1. /\ phase = "open" /\ x \in running /\ Ends(x, "committed")
      /\ log' = log \o Append(buffer, Ending("commit", x, next_lsn)) /\ buffer' = <<>>
      /\ UNCHANGED <<disk, metaLsn, pool, nextXid, phase, rolling>>
  BY DEF commit
<1>2. OneTransaction /\ PagesAreRight /\ FramesAgree /\ UndoIsCommitted /\ (NoSteal => CrashIsHarmless)
  BY DEF OpenIsSound
<1>3. /\ running' = {} /\ NothingPending'
      /\ \A y \in Xids : undo'[y] = IF y = x THEN NoUndo ELSE undo[y]
      /\ \A p \in Pages : Unsettled(p)' = {}
      /\ \A p \in Pages : Committed'[p] = Committed[p] \union Unsettled(p)
  <2>1. "committed" \in {"committed", "aborted"}
    OBVIOUS
  <2> QED BY <1>1, <1>2, <2>1, HistoryEnds
<1>4. \A y \in Xids : undo'[y] = NoUndo
  BY <1>1, <1>2, <1>3 DEF UndoIsCommitted, OneTransaction
<1>15. "commit" \in {"commit", "abort"} /\ x \in 0 .. MaxXid
  BY XidFacts
<1>16. Finishing(AllRecords, log', "commit", x, metaLsn)
  BY <1>1, <1>15, EndingIsStaged
<1>5. log' \in Seq(Records) /\ Len(log') = n + 1 /\ \A i \in 1 .. n : log'[i] = s[i]
  BY <1>16 DEF Finishing
<1>6. AllRecords' = log'
  BY <1>1, <1>5, ConcatEmptySeq DEF AllRecords
<1>7. IsEnding(t[n + 1])
  BY <1>6, <1>16 DEF IsEnding, Finishing
<1>8. /\ LogIsWhole' /\ RealRecords(AllRecords)' /\ LogKnowsTransactions'
      /\ \A i \in 1 .. Len(t) : ~Unfinished(t, Len(t), t[i].txn)
  BY <1>1, <1>2, <1>3, <1>6, <1>15, <1>16, LogAfterEnding
<1>9. ImagesOf(AllRecords, Len(log), Committed)'
  BY <1>6, <1>8 DEF ImagesOf
<1>10. UndoIsCommitted' /\ OneTransaction'
  BY <1>3, <1>4, NoTransaction
<1>11. \A p \in Pages : Current(p)' = Current(p) /\ Current(p).rows = Committed'[p]
  BY <1>1, <1>2, <1>3 DEF Current, PagesAreRight
<1>12. PagesAreRight'
  BY <1>1, <1>3, <1>11 DEF PagesAreRight
<1>13. FramesAgree'
  BY <1>1, <1>2 DEF FramesAgree
<1>14. ASSUME NoSteal PROVE CrashIsHarmless'
  <2>1. n \in Nat
    BY AllFacts
  <2>2. ASSUME NEW p \in Pages PROVE Redone(disk, t, n + 1, p, Current(p))
    <3>1. Redone(disk, s, n, p, Current(p))
      BY <1>2, <1>14 DEF CrashIsHarmless
    <3>2. \A i \in 1 .. n : t[i] = s[i]
      BY <1>5, <1>6
    <3> QED BY <1>7, <2>1, <3>1, <3>2, EndingAdded
  <2>3. Len(log') = n + 1 /\ Len(t) = n + 1
    BY <1>5, <1>6
  <2> HIDE DEF n, t, s
  <2>4. ASSUME NEW p \in Pages PROVE RedoneRows(disk, t, n + 1, p, Committed'[p])
    <3>1. n + 1 \in Nat
      BY <2>1
    <3> QED BY <1>11, <2>2, <3>1, OneSource
  <2>5. SoundTo(disk, t, n + 1, Committed')
    BY <2>4 DEF SoundTo
  <2>6. (\A k \in n + 1 .. n + 1 : k = n + 1) /\ n + 1 + 1 .. n + 1 = {}
    BY <2>1
  <2>7. ASSUME NEW p \in Pages PROVE disk'[p].lsn < flushed_lsn'
    <3>1. disk[p].lsn < flushed_lsn /\ disk[p] \in Images
      BY <1>2, <1>14, OpenTyped DEF CrashIsHarmless
    <3>2. flushed_lsn' = metaLsn + (n + 1)
      BY <1>1, <2>3 DEF flushed_lsn
    <3>3. n = Len(log) + Len(buffer)
      BY AllFacts DEF n
    <3>4. disk[p].lsn \in Int /\ disk'[p] = disk[p]
      BY <1>1, <3>1 DEF Images
    <3>5. flushed_lsn < metaLsn + (n + 1) /\ flushed_lsn \in Nat
      BY <3>3, LogNumbers
    <3> QED BY <2>1, <3>1, <3>2, <3>4, <3>5, LogNumbers
  <2>8. \A k \in Len(log') .. Len(t) : SoundTo(disk', t, k, Committed')
    BY <1>1, <2>3, <2>5, <2>6
  <2>9. \A p \in Pages : Redone(disk', t, Len(t), p, Current(p)')
    BY <1>1, <1>11, <2>2, <2>3
  <2>10. Len(log') + 1 .. Len(t) = {}
    BY <2>3, <2>6
  <2> QED BY <2>7, <2>8, <2>9, <2>10 DEF CrashIsHarmless, t
<1> QED BY <1>8, <1>9, <1>10, <1>12, <1>13, <1>14 DEF OpenIsSound

\* finish_rollback.
LEMMA FinishIsSound ==
    ASSUME IInv, finish_rollback, OpenIsSound
    PROVE  OpenIsSound'
<1> DEFINE s == AllRecords
           t == AllRecords'
           n == Len(AllRecords)
           x == rolling.txn
<1>1. /\ phase = "rollback" /\ rolling.todo = <<>> /\ Ends(x, "aborted") /\ log' = log
      /\ buffer' = Append(buffer, Ending("abort", x, next_lsn)) /\ phase' = "open"
      /\ UNCHANGED <<disk, metaLsn, pool, nextXid>>
  BY DEF finish_rollback, files
<1>2. /\ OneTransaction /\ PagesAreRight /\ FramesAgree /\ UndoIsCommitted
      /\ LogKnowsTransactions /\ ImagesOf(s, Len(log), Committed)
      /\ (NoSteal => CrashIsHarmless)
  BY DEF OpenIsSound
<1>3. /\ running = {x}
      /\ \A p \in Pages : /\ Current(p).rows = Committed[p]
                          /\ p \in undo[x].captured => LastIsRestore(p)
  <2>1. \A p : ~IsListed(p)
    <3>1. 1 .. Len(rolling.todo) = {}
      BY <1>1, EmptySeq
    <3> QED BY <3>1 DEF IsListed
  <2> QED BY <1>1, <1>2, <2>1 DEF PagesAreRight
<1>4. x \in running /\ x \in 0 .. MaxXid /\ x # NO_TRANSACTION /\ "abort" \in {"commit", "abort"}
  BY <1>3, OpenTyped, XidFacts
<1>5. /\ running' = {} /\ NothingPending' /\ Committed' = Committed
      /\ \A y \in Xids : undo'[y] = IF y = x THEN NoUndo ELSE undo[y]
      /\ \A p \in Pages : Unsettled(p)' = {}
  <2>1. "aborted" \in {"committed", "aborted"}
    OBVIOUS
  <2> HIDE DEF x
  <2> QED BY <1>1, <1>2, <1>4, <2>1, HistoryEnds
<1>6. \A y \in Xids : undo'[y] = NoUndo
  BY <1>2, <1>3, <1>5 DEF UndoIsCommitted
<1>7. AllRecords' = log \o Append(buffer, Ending("abort", x, next_lsn))
  BY <1>1 DEF AllRecords
<1>8. Finishing(AllRecords, AllRecords', "abort", x, metaLsn)
  <2> HIDE DEF x
  <2> QED BY <1>4, <1>7, EndingIsStaged
<1>9. /\ t \in Seq(Records) /\ Len(t) = n + 1 /\ (\A i \in 1 .. n : t[i] = s[i])
      /\ IsEnding(t[n + 1]) /\ ~t[n + 1].hasUndo /\ t[n + 1].type # "update"
  BY <1>8 DEF Finishing, IsEnding
<1>10. LogIsWhole' /\ RealRecords(AllRecords)' /\ LogKnowsTransactions'
  <2> HIDE DEF x
  <2> QED BY <1>1, <1>2, <1>4, <1>5, <1>8, LogAfterEnding
<1>11. n \in Nat /\ Len(log) \in Nat /\ Len(log) <= n
  BY AllFacts
<1>12. \A i \in 1 .. n + 1 : i \in 1 .. n \/ i = n + 1
  BY <1>11
<1> HIDE DEF s, t, n, x
<1>13. ASSUME NEW k \in Nat, k <= n
       PROVE  \A i \in 1 .. k : t[i] = s[i]
  <2>1. \A i \in 1 .. k : i \in 1 .. n
    BY <1>11, <1>13
  <2> QED BY <1>9, <2>1
<1>14. ImagesOf(t, Len(log), Committed)
  <2>1. \A y : Unfinished(t, Len(log), y) <=> Unfinished(s, Len(log), y)
    BY <1>11, <1>13, SameStart
  <2>2. Len(s) = n
    BY DEF s, n
  <2> QED BY <1>2, <1>9, <1>12, <2>1, <2>2 DEF ImagesOf
<1>15. UndoIsCommitted' /\ OneTransaction'
  BY <1>5, <1>6, NoTransaction
<1>16. \A p \in Pages : Current(p)' = Current(p)
  BY <1>1 DEF Current
<1>17. PagesAreRight'
  BY <1>1, <1>3, <1>5, <1>16 DEF PagesAreRight
<1>18. FramesAgree'
  BY <1>1, <1>2 DEF FramesAgree
<1>19. ASSUME NoSteal PROVE CrashIsHarmless'
  <2>1. /\ \A k \in Len(log) .. n : SoundTo(disk, s, k, Committed)
        /\ \A p \in Pages : Redone(disk, s, n, p, Current(p))
        /\ \A p \in Pages : disk[p].lsn < flushed_lsn
        /\ \A j \in Len(log) + 1 .. n :
              s[j].type = "update" =>
                  /\ SomeLoser(s, j)
                  /\ s[j].txn \notin running \union {NO_TRANSACTION} =>
                        \E i \in j + 1 .. n : IsUpdate(s[i], s[j].page)
    BY <1>2, <1>19 DEF CrashIsHarmless, s, n
  <2>2. ASSUME NEW p \in Pages PROVE Redone(disk, t, n + 1, p, Current(p))
    <3>1. Redone(disk, s, n, p, Current(p))
      BY <2>1
    <3> QED BY <1>9, <1>11, <3>1, EndingAdded
  <2>3. SoundTo(disk, t, n + 1, Committed)
    <3>1. n + 1 \in Nat
      BY <1>11
    <3>2. \A p \in Pages : RedoneRows(disk, t, n + 1, p, Committed[p])
      BY <1>3, <2>2, <3>1, OneSource
    <3> QED BY <3>2 DEF SoundTo
  <2>4. ASSUME NEW k \in Len(log) .. n + 1 PROVE SoundTo(disk, t, k, Committed)
    <3>1. (k \in Nat /\ k <= n /\ k \in Len(log) .. n) \/ k = n + 1
      BY <1>11
    <3>2. CASE k \in Nat /\ k <= n /\ k \in Len(log) .. n
      <4>1. SoundTo(disk, s, k, Committed)
        BY <2>1, <3>2
      <4> QED BY <1>13, <3>2, <4>1, SameStart
    <3> QED BY <2>3, <3>1, <3>2
  <2>5. ASSUME NEW j \in Len(log) + 1 .. n + 1, t[j].type = "update"
        PROVE  /\ SomeLoser(t, j)
               /\ t[j].txn # NO_TRANSACTION => \E i \in j + 1 .. n + 1 : IsUpdate(t[i], t[j].page)
    <3>1. j \in Nat /\ j <= n /\ j \in Len(log) + 1 .. n /\ j \in 1 .. n
      <4>1. j # n + 1
        BY <1>9, <2>5
      <4> QED BY <1>11, <4>1
    <3>2. t[j] = s[j] /\ s[j].type = "update"
      BY <1>9, <2>5, <3>1
    <3>3. SomeLoser(t, j)
      <4>1. SomeLoser(s, j)
        BY <2>1, <3>1, <3>2
      <4> QED BY <1>13, <3>1, <4>1, SameStart
    <3>4. ASSUME s[j].txn # NO_TRANSACTION PROVE \E i \in j + 1 .. n : IsUpdate(s[i], s[j].page)
      <4>1. CASE s[j].txn \notin running
        BY <2>1, <3>1, <3>2, <3>4, <4>1
      <4>2. CASE s[j].txn \in running
        <5>1. s[j].txn = x /\ s[j] \in Records
          BY <1>3, <3>1, <4>2, AllFacts DEF s, n
        <5>2. s[j].page \in Pages /\ IsUpdate(s[j], s[j].page)
          BY <3>2, <5>1, RecordFields DEF IsUpdate
        <5>3. s[j].page \in undo[x].captured
          BY <1>2, <1>3, <3>1, <5>1, <5>2 DEF LogKnowsTransactions, s, n
        <5>4. PICK i \in 1 .. n : /\ IsUpdate(s[i], s[j].page) /\ s[i].txn = NO_TRANSACTION
                                  /\ \A h \in i + 1 .. n : ~IsUpdate(s[h], s[j].page)
          BY <1>3, <5>2, <5>3 DEF LastIsRestore, s, n
        <5>5. i # j /\ j \notin i + 1 .. n
          BY <1>4, <5>1, <5>2, <5>4
        <5>6. i \in j + 1 .. n
          BY <1>11, <3>1, <5>5
        <5> QED BY <5>4, <5>6
      <4> QED BY <4>1, <4>2
    <3>5. \A i \in j + 1 .. n : i \in j + 1 .. n + 1 /\ i \in 1 .. n
      BY <1>11, <3>1
    <3> QED BY <1>9, <3>2, <3>3, <3>4, <3>5
  <2>6. flushed_lsn' = flushed_lsn
    BY <1>1 DEF flushed_lsn
  <2>7. \A k \in Len(log') .. Len(t) : SoundTo(disk', t, k, Committed')
    BY <1>1, <1>5, <1>9, <2>4
  <2>8. \A p \in Pages : Redone(disk', t, Len(t), p, Current(p)') /\ disk'[p].lsn < flushed_lsn'
    BY <1>1, <1>9, <1>16, <2>1, <2>2, <2>6
  <2> QED BY <1>1, <1>9, <2>5, <2>7, <2>8 DEF CrashIsHarmless, t
<1>20. ImagesOf(AllRecords, Len(log), Committed)'
  BY <1>1, <1>5, <1>14 DEF t
<1> QED BY <1>10, <1>15, <1>17, <1>18, <1>19, <1>20 DEF OpenIsSound

---------------------------------------------------------------------------
(* What a rollback has to restore.                                         *)

\* Descending lists every member.
LEMMA DescendingAll ==
    ASSUME NEW S \in SUBSET Nat, IsFiniteSet(S)
    PROVE  /\ Descending(S) \in Seq(S) /\ Len(Descending(S)) \in Nat
           /\ \A i, j \in 1 .. Len(Descending(S)) : i < j => Descending(S)[i] > Descending(S)[j]
           /\ \A e \in S : \E i \in 1 .. Len(Descending(S)) : Descending(S)[i] = e
<1> DEFINE n == Cardinality(S)
           t == Descending(S)
<1>1. n \in Nat
  BY FS_CardinalityType
<1>2. \E s \in [1 .. n -> S] : \A i, j \in DOMAIN s : i < j => s[i] > s[j]
  <2>1. PICK s : Lists(s, n, S)
    BY CanBeListed
  <2>2. s \in [1 .. n -> S] /\ \A i, j \in 1 .. n : i < j => s[i] > s[j]
    BY <2>1 DEF Lists
  <2> QED BY <2>2
<1> HIDE DEF n
<1>3. t \in [1 .. n -> S] /\ \A i, j \in DOMAIN t : i < j => t[i] > t[j]
  BY <1>2 DEF Descending, n
<1> HIDE DEF t
<1>4. t \in Seq(S) /\ Len(t) = n
  BY <1>1, <1>3, ListOfFunction
<1>5. \A i, j \in 1 .. n : i < j => t[i] > t[j]
  BY <1>3
<1>6. ASSUME NEW i \in 1 .. n, NEW j \in 1 .. n, t[i] = t[j] PROVE i = j
  <2>1. t[i] \in Nat /\ t[j] \in Nat
    BY <1>3
  <2>2. ~(t[i] > t[j]) /\ ~(t[j] > t[i])
    BY <1>6, <2>1
  <2>3. ~(i < j) /\ ~(j < i)
    BY <1>5, <2>2
  <2> QED BY <2>3
<1>7. t \in Injection(1 .. n, S)
  BY <1>3, <1>6 DEF Injection, IsInjective
<1>8. Cardinality(1 .. n) = n
  BY <1>1, FS_Interval
<1>9. t \in Surjection(1 .. n, S)
  <2>1. Cardinality(1 .. n) = Cardinality(S)
    BY <1>8 DEF n
  <2> QED BY <1>7, <2>1, FS_Injection
<1>10. \A e \in S : \E i \in 1 .. n : t[i] = e
  BY <1>9 DEF Surjection
<1> QED BY <1>1, <1>4, <1>5, <1>10 DEF t

\* Reverse has the same members.
LEMMA ReverseAll ==
    ASSUME NEW S, NEW s \in Seq(S)
    PROVE  /\ Reverse(s) \in Seq(S) /\ Len(Reverse(s)) = Len(s) /\ Len(s) \in Nat
           /\ \A i \in 1 .. Len(s) : \E j \in 1 .. Len(s) : Reverse(s)[i] = s[j]
           /\ \A j \in 1 .. Len(s) : \E i \in 1 .. Len(s) : Reverse(s)[i] = s[j]
<1> DEFINE n == Len(s)
           e(i) == s[n - i + 1]
           t == Reverse(s)
<1>1. n \in Nat
  BY LenProperties
<1>2. t = [i \in 1 .. n |-> e(i)]
  BY DEF Reverse
<1>3. \A i \in 1 .. n : n - i + 1 \in 1 .. n /\ n - (n - i + 1) + 1 = i
  BY <1>1
<1> HIDE DEF n, t
<1>4. \A i \in 1 .. n : t[i] = s[n - i + 1]
  BY <1>2
<1>5. \A i \in 1 .. n : \E j \in 1 .. n : t[i] = s[j]
  BY <1>3, <1>4
<1>6. ASSUME NEW j \in 1 .. n PROVE \E i \in 1 .. n : t[i] = s[j]
  <2>1. n - j + 1 \in 1 .. n /\ n - (n - j + 1) + 1 = j
    BY <1>3
  <2>2. t[n - j + 1] = s[n - (n - j + 1) + 1]
    BY <1>4, <2>1
  <2> QED BY <2>1, <2>2
<1> QED BY <1>1, <1>5, <1>6, ReverseFacts DEF n, t

\* The images in the log: one for every page x has a before-image of.
LEMMA WalImagesFacts ==
    ASSUME NEW x, NEW s \in Seq(Records)
    PROVE  /\ wal_images(x, s) \in Seq(UndoImages) /\ Len(wal_images(x, s)) \in Nat
           /\ \A k \in 1 .. Len(wal_images(x, s)) : \E i \in 1 .. Len(s) :
                 /\ s[i].txn = x /\ s[i].hasUndo
                 /\ wal_images(x, s)[k].page = s[i].page /\ wal_images(x, s)[k].image = s[i].before
           /\ \A i \in 1 .. Len(s) : s[i].txn = x /\ s[i].hasUndo =>
                 \E k \in 1 .. Len(wal_images(x, s)) : wal_images(x, s)[k].page = s[i].page
<1> DEFINE mine == {i \in DOMAIN s : s[i].txn = x /\ s[i].hasUndo}
           first == {i \in mine : \A j \in mine : j < i => s[j].page # s[i].page}
           keep == Ascending(first)
           n == Len(keep)
           w == wal_images(x, s)
<1>1. DOMAIN s = 1 .. Len(s) /\ Len(s) \in Nat
  BY LenProperties
<1>2. \A i : i \in mine <=> i \in 1 .. Len(s) /\ s[i].txn = x /\ s[i].hasUndo
  BY <1>1
<1>3. \A i : i \in first <=> i \in mine /\ \A j \in mine : j < i => s[j].page # s[i].page
  OBVIOUS
<1>4. w = [i \in DOMAIN keep |-> [page |-> s[keep[i]].page, image |-> s[keep[i]].before]]
  BY DEF wal_images
<1>5. first \subseteq DOMAIN s
  OBVIOUS
<1> HIDE DEF w, keep, first, mine
<1>6. first \in SUBSET Nat /\ IsFiniteSet(first)
  BY <1>5, PlacesFacts
<1>7. /\ keep \in Seq(first) /\ n \in Nat
      /\ \A e \in first : \E i \in 1 .. n : keep[i] = e
  <2> DEFINE d == Descending(first)
  <2>1. d \in Seq(first) /\ Len(d) \in Nat /\ \A e \in first : \E i \in 1 .. Len(d) : d[i] = e
    BY <1>6, DescendingAll
  <2>2. keep = Reverse(d)
    BY DEF Ascending, keep
  <2> HIDE DEF d
  <2>3. /\ keep \in Seq(first) /\ n = Len(d)
        /\ \A j \in 1 .. Len(d) : \E i \in 1 .. Len(d) : keep[i] = d[j]
    BY <2>1, <2>2, ReverseAll
  <2>4. ASSUME NEW e \in first PROVE \E i \in 1 .. n : keep[i] = e
    <3>1. PICK j \in 1 .. Len(d) : d[j] = e
      BY <2>1
    <3> QED BY <2>3, <3>1
  <2> QED BY <2>1, <2>3, <2>4
<1>8. DOMAIN keep = 1 .. n /\ \A i \in 1 .. n : keep[i] \in first
  BY <1>7, LenProperties, ElementOfSeq
<1> HIDE DEF n
<1>9. w \in Seq(UndoImages)
  BY WalImagesTyped DEF w
<1>10. DOMAIN w = 1 .. n
  BY <1>4, <1>8
<1>11. Len(w) = n
  <2>1. DOMAIN w = 1 .. Len(w) /\ Len(w) \in Nat
    BY <1>9, LenProperties
  <2> QED BY <1>7, <1>10, <2>1
<1>12. ASSUME NEW k \in 1 .. n
       PROVE  \E i \in 1 .. Len(s) : /\ s[i].txn = x /\ s[i].hasUndo
                                     /\ w[k].page = s[i].page /\ w[k].image = s[i].before
  <2>1. keep[k] \in 1 .. Len(s) /\ s[keep[k]].txn = x /\ s[keep[k]].hasUndo
    BY <1>2, <1>3, <1>8
  <2>2. w[k].page = s[keep[k]].page /\ w[k].image = s[keep[k]].before
    BY <1>4, <1>8
  <2> QED BY <2>1, <2>2
<1>13. ASSUME NEW i \in 1 .. Len(s), s[i].txn = x, s[i].hasUndo
       PROVE  \E k \in 1 .. n : w[k].page = s[i].page
  <2> DEFINE same == {j \in mine : s[j].page = s[i].page}
  <2>1. same \subseteq Nat /\ same # {}
    BY <1>1, <1>2, <1>13
  <2>2. PICK e \in same : \A j \in same : e <= j
    BY <2>1, LeastNat
  <2>3. e \in mine /\ s[e].page = s[i].page /\ e \in Nat
    BY <2>1, <2>2
  <2>4. ASSUME NEW j \in mine, j < e PROVE s[j].page # s[e].page
    <3>1. j \in Nat /\ ~(e <= j)
      BY <1>1, <1>2, <2>3, <2>4
    <3> QED BY <2>2, <2>3, <3>1
  <2>5. e \in first
    BY <1>3, <2>3, <2>4
  <2>6. PICK k \in 1 .. n : keep[k] = e
    BY <1>7, <2>5
  <2>7. w[k].page = s[e].page
    BY <1>4, <1>8, <2>6
  <2> QED BY <2>3, <2>7
<1> QED BY <1>7, <1>9, <1>11, <1>12, <1>13 DEF w

---------------------------------------------------------------------------
(* What a scan of the log file finds.                                      *)

\* A record at the place its LSN says.
IsWhole(s, base, i) == s[i].type # "torn" /\ s[i].lsn = base + i - 1

\* read_all returns the records before the first that is not whole.
LEMMA ReadAllIs ==
    ASSUME NEW s \in Seq(Records), NEW base \in Nat
    PROVE  /\ read_all(s, base) \in Seq(Records)
           /\ Len(read_all(s, base)) \in 0 .. Len(s)
           /\ \A k \in 1 .. Len(read_all(s, base)) : read_all(s, base)[k] = s[k]
           /\ Placed(read_all(s, base), base)
           /\ Len(read_all(s, base)) < Len(s) => ~IsWhole(s, base, Len(read_all(s, base)) + 1)
<1> DEFINE T == {k \in 0 .. Len(s) : \A i \in 1 .. k : s[i].type # "torn" /\ s[i].lsn = base + i - 1}
           n == Max(T)
           r == read_all(s, base)
<1>1. Len(s) \in Nat
  BY LenProperties
<1>2. T \subseteq 0 .. Len(s) /\ 0 \in T
  BY <1>1
<1>3. \A k : k \in T <=> k \in 0 .. Len(s) /\ \A i \in 1 .. k : IsWhole(s, base, i)
  BY DEF IsWhole
<1>4. r = SubSeq(s, 1, n)
  BY DEF read_all
<1> HIDE DEF T, r
<1>5. n \in T /\ n \in 0 .. Len(s) /\ \A y \in T : y <= n
  <2>1. T \subseteq Nat /\ \A y \in T : y <= Len(s)
    BY <1>1, <1>2
  <2>2. \E x \in T : \A y \in T : y <= x
    BY <1>1, <1>2, <2>1, GreatestNat
  <2>3. \E x \in T : \A y \in T : x >= y
    BY <2>1, <2>2
  <2>4. n \in T /\ \A y \in T : n >= y
    BY <2>3 DEF Max
  <2> QED BY <1>2, <2>1, <2>4
<1> HIDE DEF n
<1>6. r \in Seq(Records) /\ Len(r) = n /\ \A k \in 1 .. n : r[k] = s[k]
  BY <1>4, <1>5, PrefixFacts
<1>7. \A i \in 1 .. n : IsWhole(s, base, i)
  BY <1>3, <1>5
<1>8. Placed(r, base)
  BY <1>6, <1>7 DEF Placed, IsWhole
<1>9. ASSUME n < Len(s), IsWhole(s, base, n + 1) PROVE FALSE
  <2>1. n + 1 \in 0 .. Len(s) /\ (\A i \in 1 .. n + 1 : i \in 1 .. n \/ i = n + 1) /\ ~(n + 1 <= n)
    BY <1>1, <1>5, <1>9
  <2>2. n + 1 \in T
    BY <1>3, <1>7, <1>9, <2>1
  <2> QED BY <1>5, <2>1, <2>2
<1> QED BY <1>5, <1>6, <1>8, <1>9 DEF r

\* And so a log that starts with whole records and then ends, or goes on with
\* one that is not whole, is read up to there.
LEMMA ReadAllStops ==
    ASSUME NEW s \in Seq(Records), NEW base \in Nat, NEW r \in Seq(Records),
           Len(r) <= Len(s), \A k \in 1 .. Len(r) : r[k] = s[k], Placed(r, base),
           Len(r) = Len(s) \/ ~IsWhole(s, base, Len(r) + 1)
    PROVE  read_all(s, base) = r
<1> DEFINE t == read_all(s, base)
           a == Len(t)
           b == Len(r)
           n == Len(s)
<1>1. b \in Nat /\ n \in Nat
  BY LenProperties
<1>2. /\ t \in Seq(Records) /\ a \in 0 .. n /\ (\A k \in 1 .. a : t[k] = s[k])
      /\ Placed(t, base) /\ (a < n => ~IsWhole(s, base, a + 1))
  BY ReadAllIs
<1> HIDE DEF t
<1>3. \A k \in 1 .. b : IsWhole(s, base, k)
  BY DEF Placed, IsWhole
<1>4. \A k \in 1 .. a : IsWhole(s, base, k)
  BY <1>2 DEF Placed, IsWhole
<1> HIDE DEF a, b, n
<1>5. ~(a < b)
  <2>1. a < b => a + 1 \in 1 .. b /\ a < n
    BY <1>1, <1>2 DEF b, n
  <2> QED BY <1>2, <1>3, <2>1
<1>6. ~(b < a)
  <2>1. b < a => b + 1 \in 1 .. a /\ b # n
    BY <1>1, <1>2 DEF b, n
  <2> QED BY <1>4, <2>1 DEF b, n
<1>7. a = b
  BY <1>1, <1>2, <1>5, <1>6
<1>8. Len(t) = Len(r) /\ \A k \in 1 .. Len(t) : t[k] = r[k]
  BY <1>2, <1>7 DEF a, b
<1>9. t = r
  BY <1>2, <1>8, SeqEqual
<1> QED BY <1>9 DEF t

\* The log of an open database is whole.
LEMMA WholeIsRead ==
    ASSUME NEW s \in Seq(Records), NEW base \in Nat, Placed(s, base)
    PROVE  read_all(s, base) = s
<1>1. Len(s) <= Len(s)
  BY LenProperties
<1> QED BY <1>1, ReadAllStops

---------------------------------------------------------------------------
(* Rollback.                                                               *)

\* What rollback decides to restore: committed images, of every page the
\* transaction has written.
LEMMA TodoFacts ==
    ASSUME IInv, NEW x \in Xids, rollback(x), OpenIsSound
    PROVE  /\ rolling'.txn = x
           /\ \A i \in 1 .. Len(rolling'.todo) :
                 /\ rolling'.todo[i].image.rows = Committed[rolling'.todo[i].page]
                 /\ rolling'.todo[i].page \in undo[x].captured
           /\ \A p \in undo[x].captured : \E i \in 1 .. Len(rolling'.todo) : rolling'.todo[i].page = p
<1> DEFINE s == AllRecords
           u == undo[x].images
           a == Reverse(undo[x].images)
           w == wal_images(x, AllRecords)
           C == undo[x].captured
           t == rolling'.todo
<1>1. x \in running /\ x # NO_TRANSACTION
  BY OpenTyped DEF rollback
<1>2. /\ LogIsWhole /\ LogKnowsTransactions /\ UndoIsCommitted /\ ImagesOf(s, Len(log), Committed)
  BY DEF OpenIsSound
<1>3. s \in Seq(Records) /\ metaLsn \in Nat /\ Len(s) \in Nat /\ Len(log) \in Nat /\ Len(log) <= Len(s)
  BY AllFacts, LogNumbers
<1>4. read_all(log \o buffer, metaLsn) = s
  <2>1. Placed(s, metaLsn)
    BY <1>2 DEF LogIsWhole, Placed
  <2>2. read_all(s, metaLsn) = s
    BY <1>3, <2>1, WholeIsRead
  <2> QED BY <2>2 DEF AllRecords
<1>5. u \in Seq(UndoImages)
  BY OpenTyped DEF UndoLogs
<1>6. /\ a \in Seq(UndoImages) /\ Len(a) = Len(u) /\ Len(u) \in Nat
      /\ \A i \in 1 .. Len(u) : \E j \in 1 .. Len(u) : a[i] = u[j]
      /\ \A j \in 1 .. Len(u) : \E i \in 1 .. Len(u) : a[i] = u[j]
  BY <1>5, ReverseAll
<1>7. /\ w \in Seq(UndoImages) /\ Len(w) \in Nat
      /\ \A k \in 1 .. Len(w) : \E i \in 1 .. Len(s) :
            s[i].txn = x /\ s[i].hasUndo /\ w[k].page = s[i].page /\ w[k].image = s[i].before
      /\ \A i \in 1 .. Len(s) : s[i].txn = x /\ s[i].hasUndo =>
            \E k \in 1 .. Len(w) : w[k].page = s[i].page
  BY <1>3, WalImagesFacts
<1>8. /\ \A i \in 1 .. Len(u) : u[i].page \in C /\ u[i].image.rows = Committed[u[i].page]
      /\ Len(u) <= Cardinality(C)
      /\ \/ Len(u) < Cardinality(C)
         \/ \A p \in C : \E i \in 1 .. Len(u) : u[i].page = p
  BY <1>1, <1>2 DEF UndoIsCommitted
<1>9. \/ overflowed(undo[x]) /\ rolling' = [txn |-> x, todo |-> w \o a]
      \/ ~overflowed(undo[x]) /\ rolling' = [txn |-> x, todo |-> a]
  BY <1>4 DEF rollback
<1>10. rolling'.txn = x /\ ((overflowed(undo[x]) /\ t = w \o a) \/ (~overflowed(undo[x]) /\ t = a))
  BY <1>9
<1>11. ~overflowed(undo[x]) => \A p \in C : \E i \in 1 .. Len(u) : u[i].page = p
  BY <1>8 DEF overflowed
<1>12. \A i \in 1 .. Len(s) : /\ s[i].txn = x /\ s[i].hasUndo => s[i].page \in C
                              /\ s[i].txn = x /\ s[i].hasUndo => s[i].before.rows = Committed[s[i].page]
  <2>1. Unfinished(s, Len(log), x)
    <3>1. \A j \in 1 .. Len(log) : j \in 1 .. Len(s)
      BY <1>3
    <3> QED BY <1>1, <1>2, <3>1 DEF Unfinished, LogKnowsTransactions
  <2>2. ASSUME NEW i \in 1 .. Len(s), s[i].txn = x, s[i].hasUndo
        PROVE  s[i].page \in C /\ s[i].before.rows = Committed[s[i].page]
    <3>1. s[i].page \in Pages
      BY AllFacts, RecordFields
    <3>2. IsUpdate(s[i], s[i].page)
      BY <1>2, <2>2 DEF LogIsWhole, IsUpdate
    <3>3. s[i].page \in C
      BY <1>1, <1>2, <2>2, <3>1, <3>2 DEF LogKnowsTransactions
    <3> QED BY <1>2, <2>1, <2>2, <3>3 DEF ImagesOf
  <2> QED BY <2>2
<1>13. \A p \in C : \E i \in 1 .. Len(s) : s[i].hasUndo /\ s[i].txn = x /\ s[i].page = p
  BY <1>1, <1>2 DEF LogKnowsTransactions
<1> HIDE DEF s, u, a, w, C, t
<1>14. ASSUME NEW i \in 1 .. Len(a) PROVE a[i].page \in C /\ a[i].image.rows = Committed[a[i].page]
  <2>1. PICK j \in 1 .. Len(u) : a[i] = u[j]
    BY <1>6
  <2> QED BY <1>8, <2>1
<1>15. \A k \in 1 .. Len(w) : w[k].page \in C /\ w[k].image.rows = Committed[w[k].page]
  BY <1>7, <1>12
<1>16. ASSUME NEW p \in C PROVE \E k \in 1 .. Len(w) : w[k].page = p
  <2>1. PICK i \in 1 .. Len(s) : s[i].hasUndo /\ s[i].txn = x /\ s[i].page = p
    BY <1>13
  <2>2. PICK k \in 1 .. Len(w) : w[k].page = s[i].page
    BY <1>7, <2>1
  <2> QED BY <2>1, <2>2
<1>17. ASSUME ~overflowed(undo[x]), NEW p \in C PROVE \E i \in 1 .. Len(a) : a[i].page = p
  <2>1. PICK j \in 1 .. Len(u) : u[j].page = p
    BY <1>11, <1>17
  <2>2. PICK i \in 1 .. Len(u) : a[i] = u[j]
    BY <1>6
  <2> QED BY <1>6, <2>1, <2>2
<1>18. CASE t = a /\ ~overflowed(undo[x])
  BY <1>10, <1>14, <1>17, <1>18 DEF t, C
<1>19. CASE t = w \o a
  <2>1. /\ Len(t) = Len(w) + Len(a) /\ Len(a) \in Nat
        /\ \A i \in 1 .. Len(w) + Len(a) : t[i] = IF i <= Len(w) THEN w[i] ELSE a[i - Len(w)]
    <3> DEFINE v == w \o a
    <3>1. /\ Len(v) = Len(w) + Len(a)
          /\ \A i \in 1 .. Len(w) + Len(a) : v[i] = IF i <= Len(w) THEN w[i] ELSE a[i - Len(w)]
      <4>1. w \in Seq(UndoImages) /\ a \in Seq(UndoImages)
        BY <1>6, <1>7
      <4> QED BY <4>1, ConcatProperties
    <3>2. v = t
      BY <1>19
    <3> HIDE DEF v
    <3> QED BY <1>6, <3>1, <3>2
  <2>2. ASSUME NEW i \in 1 .. Len(t) PROVE t[i].page \in C /\ t[i].image.rows = Committed[t[i].page]
    <3>1. i \in 1 .. Len(w) + Len(a)
      BY <2>1
    <3>2. CASE i <= Len(w)
      <4>1. i \in 1 .. Len(w)
        BY <1>7, <2>1, <3>2
      <4> QED BY <1>15, <2>1, <3>1, <3>2, <4>1
    <3>3. CASE ~(i <= Len(w))
      <4>1. i - Len(w) \in 1 .. Len(a)
        BY <1>7, <2>1, <3>1, <3>3
      <4> QED BY <1>14, <2>1, <3>1, <3>3, <4>1
    <3> QED BY <3>2, <3>3
  <2>3. ASSUME NEW p \in C PROVE \E i \in 1 .. Len(t) : t[i].page = p
    <3>1. PICK k \in 1 .. Len(w) : w[k].page = p
      BY <1>16
    <3>2. k \in 1 .. Len(w) + Len(a) /\ k <= Len(w) /\ k \in 1 .. Len(t)
      BY <1>7, <2>1
    <3> QED BY <2>1, <3>1, <3>2
  <2> QED BY <1>10, <2>2, <2>3 DEF t, C
<1> QED BY <1>10, <1>18, <1>19

\* rollback.
LEMMA RollbackIsSound ==
    ASSUME IInv, NEW x \in Xids, rollback(x), OpenIsSound
    PROVE  OpenIsSound'
<1> DEFINE s == AllRecords
           n == Len(AllRecords)
<1>1. /\ phase = "open" /\ x \in running /\ phase' = "rollback"
      /\ UNCHANGED <<disk, metaLsn, pool, undo, nextXid, running, writes>>
  BY DEF rollback
<1>2. /\ LogIsWhole /\ RealRecords(s) /\ LogKnowsTransactions
      /\ ImagesOf(s, Len(log), Committed)
      /\ FramesAgree /\ UndoIsCommitted /\ OneTransaction /\ PagesAreRight
      /\ NoSteal => CrashIsHarmless
  BY DEF OpenIsSound
<1>3. \/ log' = log \o buffer /\ buffer' = <<>>
      \/ UNCHANGED <<log, buffer>>
  BY DEF rollback
<1>4. /\ AllRecords' = s /\ Len(log') \in Nat /\ Len(log) <= Len(log') /\ Len(log) \in Nat
      /\ log' = log \/ Len(log') = n
  <2>1. CASE log' = log \o buffer /\ buffer' = <<>>
    BY <2>1, AllFacts, AllFlushed
  <2>2. CASE UNCHANGED <<log, buffer>>
    BY <2>2, AllFacts DEF AllRecords
  <2> QED BY <1>3, <2>1, <2>2
<1>5. Committed' = Committed /\ \A p : Unsettled(p)' = Unsettled(p)
  BY <1>1, HistoryStays
<1>6. LogIsWhole' /\ RealRecords(AllRecords)' /\ LogKnowsTransactions'
  BY <1>1, <1>2, <1>4 DEF LogIsWhole, RealRecords, LogKnowsTransactions
<1>7. ImagesOf(AllRecords, Len(log), Committed)'
  BY <1>2, <1>4, <1>5, ImagesStay
<1>8. UndoIsCommitted' /\ OneTransaction' /\ FramesAgree'
  BY <1>1, <1>2, <1>5 DEF UndoIsCommitted, OneTransaction, FramesAgree
<1>9. \A p : Current(p)' = Current(p)
  BY <1>1 DEF Current
<1>10. /\ rolling'.txn = x
       /\ \A i \in 1 .. Len(rolling'.todo) :
             /\ rolling'.todo[i].image.rows = Committed[rolling'.todo[i].page]
             /\ rolling'.todo[i].page \in undo[x].captured
       /\ \A p \in undo[x].captured : IsListed(p)'
  BY TodoFacts DEF IsListed
<1>11. running' = {x}
  BY <1>1, <1>2 DEF OneTransaction
<1>12. ASSUME NEW p \in Pages, p \notin undo[x].captured PROVE Current(p).rows = Committed[p]
  <2>1. Unsettled(p) = {}
    BY <1>1, <1>2, <1>12 DEF Unsettled, OneTransaction
  <2> QED BY <1>1, <1>2, <2>1 DEF PagesAreRight
<1>13. PagesAreRight'
  BY <1>1, <1>5, <1>9, <1>10, <1>11, <1>12 DEF PagesAreRight
<1>14. ASSUME NoSteal, CrashIsHarmless PROVE CrashIsHarmless'
  <2>1. /\ \A k \in Len(log) .. n : SoundTo(disk, s, k, Committed)
        /\ \A p \in Pages : Redone(disk, s, n, p, Current(p))
        /\ \A p \in Pages : disk[p].lsn < flushed_lsn
        /\ \A j \in Len(log) + 1 .. n :
              s[j].type = "update" =>
                  /\ SomeLoser(s, j)
                  /\ s[j].txn \notin running \union {NO_TRANSACTION} =>
                        \E i \in j + 1 .. n : IsUpdate(s[i], s[j].page)
    BY <1>14 DEF CrashIsHarmless
  <2>2. n \in Nat
    BY AllFacts
  <2>3. ASSUME NEW p \in Pages PROVE disk'[p].lsn < flushed_lsn'
    <3>1. disk[p].lsn < flushed_lsn /\ disk[p].lsn \in Int /\ disk'[p] = disk[p]
      <4>1. disk[p] \in Images
        BY OpenTyped
      <4> QED BY <1>1, <2>1, <4>1 DEF Images
    <3>2. flushed_lsn' = metaLsn + Len(log')
      BY <1>1 DEF flushed_lsn
    <3> QED BY <1>4, <3>1, <3>2, LogNumbers
  <2> HIDE DEF n, s
  <2>4. \A k \in Len(log') .. n : k \in Len(log) .. n
    BY <1>4, <2>2
  <2>5. \A j \in Len(log') + 1 .. n : j \in Len(log) + 1 .. n
    BY <1>4, <2>2
  <2>6. Len(AllRecords') = n
    BY <1>4 DEF s, n
  <2> QED BY <1>1, <1>4, <1>5, <1>9, <2>1, <2>3, <2>4, <2>5, <2>6 DEF CrashIsHarmless
<1> QED BY <1>2, <1>6, <1>7, <1>8, <1>13, <1>14 DEF OpenIsSound

---------------------------------------------------------------------------
(* Updates of pages.                                                       *)

\* A page the running transaction has written is one undo would put right.
LEMMA CapturedIsCovered ==
    ASSUME IInv, LogIsWhole, LogKnowsTransactions, NEW x \in running
    PROVE  /\ Unfinished(AllRecords, Len(AllRecords), x)
           /\ \A p \in undo[x].captured : Covered(AllRecords, Len(AllRecords), p)
<1>1. x # NO_TRANSACTION
  BY OpenTyped
<1>2. Unfinished(AllRecords, Len(AllRecords), x)
  BY <1>1 DEF Unfinished, LogKnowsTransactions
<1>3. ASSUME NEW p \in undo[x].captured PROVE Covered(AllRecords, Len(AllRecords), p)
  <2>1. PICK i \in 1 .. Len(AllRecords) : /\ AllRecords[i].hasUndo
                                          /\ AllRecords[i].txn = x /\ AllRecords[i].page = p
    BY DEF LogKnowsTransactions
  <2>2. IsUpdate(AllRecords[i], p)
    BY <2>1 DEF LogIsWhole, IsUpdate
  <2> QED BY <1>2, <2>1, <2>2 DEF Covered
<1> QED BY <1>2, <1>3

\* The frame of the updated page.
LEMMA FrameUpdated ==
    ASSUME IInv, FramesAgree, NEW p \in Pages, NEW image \in Images, image.lsn \in Nat,
           \A q \in Pages : pool'[q] = IF q = p THEN Frame(image, TRUE) ELSE pool[q],
           disk' = disk
    PROVE  /\ FramesAgree'
           /\ \A q \in Pages : Current(q)' = IF q = p THEN image ELSE Current(q)
<1> DEFINE f == Frame(image, TRUE)
<1>1. f.resident /\ f.dirty /\ f.image = image
  BY DEF Frame
<1>2. image # NoImage
  BY DEF NoImage
<1> HIDE DEF f
<1>3. ASSUME NEW q \in Pages
      PROVE  /\ pool'[q].dirty => pool'[q].resident
             /\ pool'[q].resident /\ ~pool'[q].dirty => pool'[q].image = disk'[q]
             /\ pool'[q].resident => pool'[q].image # NoImage
             /\ Current(q)' = IF q = p THEN image ELSE Current(q)
  <2>1. CASE q = p
    <3>1. pool'[q] = f
      BY <2>1 DEF f
    <3> QED BY <1>1, <1>2, <2>1, <3>1 DEF Current
  <2>2. CASE q # p
    <3>1. pool'[q] = pool[q]
      BY <2>2
    <3> QED BY <2>2, <3>1 DEF Current, FramesAgree
  <2> QED BY <2>1, <2>2
<1> QED BY <1>3 DEF FramesAgree

\* What an update does to the log.
LEMMA LogAfterUpdate ==
    ASSUME IInv, LogIsWhole, RealRecords(AllRecords), LogKnowsTransactions, OneTransaction,
           ImagesOf(AllRecords, Len(log), Committed),
           NEW x \in running \union {NO_TRANSACTION}, NEW p \in Pages,
           NEW before \in Images, NEW image \in Images, NEW m \in Nat,
           Staged(AllRecords, AllRecords', m, x, p, before, image),
           Len(log) <= m, AllRecords'[m + 1].lsn = metaLsn + m, image.lsn = metaLsn + m,
           before # NoImage => before.rows = Committed[p],
           \A y \in running : undo[y].captured \subseteq undo'[y].captured,
           x \in running => p \in undo'[x].captured,
           \A y \in running : \A q \in undo'[y].captured :
               q \in undo[y].captured \/ (y = x /\ q = p /\ AllRecords'[m + 1].hasUndo),
           Committed' = Committed, UNCHANGED <<metaLsn, log, nextXid, running>>
    PROVE  /\ LogIsWhole' /\ RealRecords(AllRecords)' /\ LogKnowsTransactions'
           /\ ImagesOf(AllRecords, Len(log), Committed)'
<1> DEFINE s == AllRecords
           t == AllRecords'
           n == Len(AllRecords)
           r == AllRecords'[m + 1]
<1>1. /\ Len(t) = m + 1 /\ (\A i \in 1 .. m : t[i] = s[i])
      /\ IsUpdate(r, p) /\ r.txn = x /\ r.after = image
      /\ \/ n = m /\ r.before = before /\ r.hasUndo = (before # NoImage)
         \/ /\ m + 1 = n /\ IsUpdate(s[n], p) /\ s[n].txn = x
            /\ r.before = s[n].before /\ r.hasUndo = s[n].hasUndo
  BY DEF Staged
<1>2. n \in Nat /\ metaLsn \in Nat /\ Len(log) \in Nat /\ s \in Seq(Records)
  BY AllFacts, LogNumbers
<1>3. \A y : Unfinished(t, m + 1, y) <=> Unfinished(s, n, y)
  BY UpdateAdded
<1>4. r.lsn = metaLsn + m /\ r.type = "update" /\ r.page = p /\ ~IsEnding(r) /\ r.type # "torn"
  BY <1>1 DEF IsUpdate, IsEnding
<1>5. x < nextXid /\ NO_TRANSACTION \notin running
  <2>1. nextXid \in Nat /\ 0 < nextXid /\ NO_TRANSACTION = 0
    BY OpenTyped, XidFacts DEF IInv, TypeOK, NO_TRANSACTION
  <2> QED BY <2>1, OpenTyped DEF OneTransaction
<1> HIDE DEF s, t, n, r
<1>6. (\A i \in 1 .. m + 1 : i \in 1 .. m \/ i = m + 1) /\ (\A i \in 1 .. m : i \in 1 .. n) /\ t[m + 1] = r
  <2>1. (\A i \in 1 .. m + 1 : i \in 1 .. m \/ i = m + 1) /\ (\A i \in 1 .. m : i \in 1 .. n)
    BY <1>1, <1>2
  <2> QED BY <2>1 DEF r, t
<1>7. \A i \in 1 .. n : i \in 1 .. m \/ (i = n /\ n = m + 1)
  BY <1>1, <1>2
<1>8. m + 1 = n => n \in 1 .. n
  BY <1>2
<1>9. LogIsWhole'
  <2>1. ASSUME NEW i \in 1 .. m + 1
        PROVE  /\ t[i].type # "torn" /\ t[i].lsn = metaLsn + i - 1
               /\ t[i].hasUndo => t[i].type = "update"
               /\ t[i].type = "update" => t[i].after.lsn = t[i].lsn
    <3>1. CASE i \in 1 .. m
      BY <1>1, <1>6, <3>1 DEF LogIsWhole, s, n
    <3>2. CASE i = m + 1
      <4>1. metaLsn + m = metaLsn + (m + 1) - 1
        BY <1>2
      <4> QED BY <1>1, <1>4, <1>6, <3>2, <4>1
    <3> QED BY <1>6, <3>1, <3>2
  <2> QED BY <1>1, <2>1 DEF LogIsWhole, t
<1>10. RealRecords(t)
  <2>1. image # NoImage
    BY <1>2 DEF NoImage
  <2>2. r.hasUndo => r.before # NoImage
    BY <1>1, <1>8 DEF RealRecords, s, n
  <2>3. ASSUME NEW i \in 1 .. m + 1
        PROVE  (t[i].hasUndo => t[i].before # NoImage) /\ (t[i].type = "update" => t[i].after # NoImage)
    <3>1. CASE i \in 1 .. m
      BY <1>1, <1>6, <3>1 DEF RealRecords, s, n
    <3>2. CASE i = m + 1
      BY <1>1, <1>6, <2>1, <2>2, <3>2
    <3> QED BY <1>6, <3>1, <3>2
  <2> QED BY <1>1, <2>3 DEF RealRecords
<1>11. LogKnowsTransactions'
  <2>1. /\ \A i \in 1 .. n : /\ \/ s[i].txn = NO_TRANSACTION \/ s[i].txn \in running
                                \/ ~Unfinished(s, n, s[i].txn)
                             /\ IsEnding(s[i]) => s[i].txn \notin running
                             /\ s[i].txn < nextXid
                             /\ \A q \in Pages : IsUpdate(s[i], q) /\ s[i].txn \in running =>
                                   q \in undo[s[i].txn].captured
        /\ \A y \in running : \A q \in undo[y].captured :
              \E i \in 1 .. n : s[i].hasUndo /\ s[i].txn = y /\ s[i].page = q
    BY DEF LogKnowsTransactions, s, n
  <2>2. ASSUME NEW i \in 1 .. m + 1
        PROVE  /\ \/ t[i].txn = NO_TRANSACTION \/ t[i].txn \in running
                  \/ ~Unfinished(t, m + 1, t[i].txn)
               /\ IsEnding(t[i]) => t[i].txn \notin running
               /\ t[i].txn < nextXid
               /\ \A q \in Pages : IsUpdate(t[i], q) /\ t[i].txn \in running =>
                     q \in undo'[t[i].txn].captured
    <3>1. CASE i \in 1 .. m
      BY <1>1, <1>3, <1>6, <2>1, <3>1
    <3>2. CASE i = m + 1
      BY <1>1, <1>4, <1>5, <1>6, <3>2 DEF IsUpdate
    <3> QED BY <1>6, <3>1, <3>2
  <2>3. ASSUME NEW y \in running, NEW q \in undo'[y].captured
        PROVE  \E i \in 1 .. m + 1 : t[i].hasUndo /\ t[i].txn = y /\ t[i].page = q
    <3>1. m + 1 \in 1 .. m + 1 /\ \A i \in 1 .. m : i \in 1 .. m + 1
      OBVIOUS
    <3>2. CASE y = x /\ q = p /\ r.hasUndo
      BY <1>1, <1>4, <1>6, <3>1, <3>2
    <3>3. CASE q \in undo[y].captured
      <4>1. PICK i \in 1 .. n : s[i].hasUndo /\ s[i].txn = y /\ s[i].page = q
        BY <2>1, <3>3
      <4>2. CASE i \in 1 .. m
        BY <1>1, <3>1, <4>1, <4>2
      <4>3. CASE i = n /\ n = m + 1
        <5>1. n # m
          BY <1>2, <4>3
        <5>2. r.hasUndo /\ r.txn = y /\ r.page = q
          BY <1>1, <1>4, <4>1, <4>3, <5>1 DEF IsUpdate
        <5> QED BY <1>6, <3>1, <5>2
      <4> QED BY <1>7, <4>2, <4>3
    <3> QED BY <3>2, <3>3 DEF r, t
  <2> QED BY <1>1, <2>2, <2>3 DEF LogKnowsTransactions, t
<1>12. ImagesOf(t, Len(log), Committed)
  <2>1. \A i \in 1 .. Len(log) : t[i] = s[i]
    <3>1. \A i \in 1 .. Len(log) : i \in 1 .. m
      BY <1>2
    <3> QED BY <1>1, <3>1
  <2>2. \A y : Unfinished(t, Len(log), y) <=> Unfinished(s, Len(log), y)
    BY <1>2, <2>1, SameStart
  <2>3. \A i \in 1 .. n : s[i].hasUndo /\ Unfinished(s, Len(log), s[i].txn) =>
           s[i].before.rows = Committed[s[i].page]
    BY DEF ImagesOf, s, n
  <2>4. ASSUME NEW i \in 1 .. m + 1, t[i].hasUndo, Unfinished(t, Len(log), t[i].txn)
        PROVE  t[i].before.rows = Committed[t[i].page]
    <3>1. CASE i \in 1 .. m
      BY <1>1, <1>6, <2>2, <2>3, <2>4, <3>1
    <3>2. CASE i = m + 1 /\ m + 1 = n
      <4>1. n # m
        BY <1>2, <3>2
      <4>2. r.before = s[n].before /\ s[n].hasUndo /\ s[n].txn = r.txn /\ s[n].page = p
        BY <1>1, <1>6, <2>4, <3>2, <4>1 DEF IsUpdate
      <4> QED BY <1>4, <1>6, <1>8, <2>2, <2>3, <2>4, <3>2, <4>2
    <3>3. CASE i = m + 1 /\ m + 1 # n
      BY <1>1, <1>4, <1>6, <2>4, <3>3
    <3> QED BY <1>6, <3>1, <3>2, <3>3
  <2> QED BY <1>1, <2>4 DEF ImagesOf
<1> QED BY <1>9, <1>10, <1>11, <1>12 DEF t

\* An update of a page that undo would put right is harmless.
LEMMA UpdateIsHarmless ==
    ASSUME IInv, CrashIsHarmless,
           NEW x \in running \union {NO_TRANSACTION}, NEW p \in Pages,
           NEW before \in Images, NEW image \in Images, NEW m \in Nat,
           Staged(AllRecords, AllRecords', m, x, p, before, image),
           Len(log) <= m, AllRecords'[m + 1].lsn = metaLsn + m,
           Covered(AllRecords', m + 1, p),
           \A q \in Pages : Current(q)' = IF q = p THEN image ELSE Current(q),
           Committed' = Committed, UNCHANGED <<disk, metaLsn, log, running>>
    PROVE  CrashIsHarmless'
<1> DEFINE s == AllRecords
           t == AllRecords'
           n == Len(AllRecords)
<1>1. /\ Len(t) = m + 1 /\ (\A i \in 1 .. m : t[i] = s[i])
      /\ IsUpdate(t[m + 1], p) /\ t[m + 1].txn = x
      /\ n = m \/ (m + 1 = n /\ IsUpdate(s[n], p))
  BY DEF Staged
<1>2. n \in Nat /\ metaLsn \in Nat /\ Len(log) \in Nat /\ Len(log) <= n
  BY AllFacts, LogNumbers
<1>3. /\ \A k \in Len(log) .. n : SoundTo(disk, s, k, Committed)
      /\ \A q \in Pages : Redone(disk, s, n, q, Current(q))
      /\ \A q \in Pages : disk[q].lsn < flushed_lsn
      /\ \A j \in Len(log) + 1 .. n :
            s[j].type = "update" =>
                /\ SomeLoser(s, j)
                /\ s[j].txn \notin running \union {NO_TRANSACTION} =>
                      \E i \in j + 1 .. n : IsUpdate(s[i], s[j].page)
  BY DEF CrashIsHarmless
<1>4. /\ \A q : Covered(s, n, q) => Covered(t, m + 1, q)
      /\ \A d, q, e : q # p /\ Redone(d, s, n, q, e) => Redone(d, t, m + 1, q, e)
      /\ \A d, q, e : q # p /\ RedoneRows(d, s, n, q, e) => RedoneRows(d, t, m + 1, q, e)
      /\ \A d : t[m + 1].lsn > d[p].lsn => Redone(d, t, m + 1, p, image)
  BY UpdateAdded
<1>5. t[m + 1].lsn = metaLsn + m /\ Covered(t, m + 1, p)
  OBVIOUS
<1> HIDE DEF s, t, n
<1>6. ASSUME NEW k \in Nat, k <= m PROVE \A i \in 1 .. k : t[i] = s[i]
  <2>1. \A i \in 1 .. k : i \in 1 .. m
    BY <1>6
  <2> QED BY <1>1, <2>1
<1>7. SoundTo(disk, t, m + 1, Committed)
  <2>1. SoundTo(disk, s, n, Committed)
    <3>1. n \in Len(log) .. n
      BY <1>2
    <3> QED BY <1>3, <3>1
  <2> QED BY <1>4, <1>5, <2>1 DEF SoundTo
<1>8. ASSUME NEW k \in Len(log) .. m + 1 PROVE SoundTo(disk, t, k, Committed)
  <2>1. (k \in Nat /\ k <= m /\ k \in Len(log) .. n) \/ k = m + 1
    BY <1>1, <1>2
  <2>2. CASE k \in Nat /\ k <= m /\ k \in Len(log) .. n
    <3>1. SoundTo(disk, s, k, Committed)
      BY <1>3, <2>2
    <3> QED BY <1>6, <2>2, <3>1, SameStart
  <2> QED BY <1>7, <2>1, <2>2
<1>9. ASSUME NEW q \in Pages PROVE Redone(disk, t, m + 1, q, Current(q)')
  <2>1. CASE q = p
    <3>1. disk[p].lsn < flushed_lsn /\ flushed_lsn <= metaLsn + m /\ flushed_lsn \in Nat
      BY <1>2, <1>3, LogNumbers
    <3>2. disk[p].lsn \in Int
      <4>1. disk[p] \in Images
        BY OpenTyped
      <4> QED BY <4>1 DEF Images
    <3>3. t[m + 1].lsn > disk[p].lsn
      BY <1>2, <1>5, <3>1, <3>2
    <3> QED BY <1>4, <2>1, <3>3
  <2>2. CASE q # p
    BY <1>3, <1>4, <2>2
  <2> QED BY <2>1, <2>2
<1>10. ASSUME NEW j \in Len(log) + 1 .. m + 1, t[j].type = "update"
       PROVE  /\ SomeLoser(t, j)
              /\ t[j].txn \notin running \union {NO_TRANSACTION} =>
                    \E i \in j + 1 .. m + 1 : IsUpdate(t[i], t[j].page)
  <2>1. (j \in 1 .. m /\ j \in Nat /\ j <= m /\ j \in Len(log) + 1 .. n) \/ j = m + 1
    BY <1>1, <1>2
  <2>2. CASE j = m + 1
    <3>1. SomeLoser(t, m + 1)
      BY <1>5 DEF Covered, SomeLoser
    <3> QED BY <1>1, <2>2, <3>1
  <2>3. CASE j \in 1 .. m /\ j \in Nat /\ j <= m /\ j \in Len(log) + 1 .. n
    <3>1. t[j] = s[j]
      BY <1>1, <2>3
    <3>2. SomeLoser(t, j)
      <4>1. SomeLoser(s, j)
        BY <1>3, <1>10, <2>3, <3>1
      <4> QED BY <1>6, <2>3, <4>1, SameStart
    <3>3. ASSUME t[j].txn \notin running \union {NO_TRANSACTION}
          PROVE  \E i \in j + 1 .. m + 1 : IsUpdate(t[i], t[j].page)
      <4>1. PICK i \in j + 1 .. n : IsUpdate(s[i], s[j].page)
        BY <1>3, <1>10, <2>3, <3>1, <3>3
      <4>2. (i \in j + 1 .. m + 1 /\ i \in 1 .. m) \/ (i = m + 1 /\ i = n /\ i \in j + 1 .. m + 1)
        BY <1>1, <1>2, <2>3
      <4>3. CASE i \in j + 1 .. m + 1 /\ i \in 1 .. m
        BY <1>1, <3>1, <4>1, <4>3
      <4>4. CASE i = m + 1 /\ i = n /\ i \in j + 1 .. m + 1
        <5>1. n # m
          BY <4>4
        <5>2. s[j].page = p
          BY <1>1, <4>1, <4>4, <5>1 DEF IsUpdate
        <5> QED BY <1>1, <3>1, <4>4, <5>2
      <4> QED BY <4>2, <4>3, <4>4
    <3> QED BY <3>2, <3>3
  <2> QED BY <2>1, <2>2, <2>3
<1>11. flushed_lsn' = flushed_lsn
  BY DEF flushed_lsn
<1>12. \A k \in Len(log') .. Len(t) : SoundTo(disk', t, k, Committed')
  BY <1>1, <1>8
<1>13. \A q \in Pages : Redone(disk', t, Len(t), q, Current(q)') /\ disk'[q].lsn < flushed_lsn'
  BY <1>1, <1>3, <1>9, <1>11
<1> QED BY <1>1, <1>10, <1>12, <1>13 DEF CrashIsHarmless, t

\* An undo log holds images of the rows c: of all the pages it has captured,
\* or of fewer than those.
HoldsImages(u, c) ==
    /\ \A i \in 1 .. Len(u.images) : /\ u.images[i].page \in u.captured
                                     /\ u.images[i].image.rows = c[u.images[i].page]
    /\ Len(u.images) <= Cardinality(u.captured)
    /\ \/ Len(u.images) < Cardinality(u.captured)
       \/ \A p \in u.captured : \E i \in 1 .. Len(u.images) : u.images[i].page = p

\* UndoLog.capture of a page with its committed rows.
LEMMA CaptureHolds ==
    ASSUME NEW u \in UndoLogs, NEW p \in Pages, NEW image \in Images, NEW c,
           p \notin u.captured => image.rows = c[p], HoldsImages(u, c)
    PROVE  /\ capture(u, p, image).captured = u.captured \union {p}
           /\ HoldsImages(capture(u, p, image), c)
<1> DEFINE k == Len(u.images)
           v == capture(u, p, image)
           e == [page |-> p, image |-> image]
<1>1. u.images \in Seq(UndoImages) /\ u.captured \in SUBSET Pages /\ k \in Nat
  BY LenProperties DEF UndoLogs
<1>2. IsFiniteSet(u.captured)
  BY <1>1, BoundsAssumption, FS_Subset
<1>3. /\ \A i \in 1 .. k : u.images[i].page \in u.captured /\ u.images[i].image.rows = c[u.images[i].page]
      /\ k <= Cardinality(u.captured)
      /\ k < Cardinality(u.captured) \/ \A q \in u.captured : \E i \in 1 .. k : u.images[i].page = q
  BY DEF HoldsImages
<1>4. CASE p \in u.captured
  BY <1>4 DEF capture
<1>5. CASE p \notin u.captured
  <2>1. Cardinality(u.captured \union {p}) = Cardinality(u.captured) + 1 /\ Cardinality(u.captured) \in Nat
    BY <1>2, <1>5, FS_AddElement, FS_CardinalityType
  <2>2. v = [captured |-> u.captured \union {p},
             images |-> IF k < UndoCap THEN Append(u.images, e) ELSE u.images]
    BY <1>5 DEF capture
  <2>3. e \in UndoImages /\ e.page = p /\ e.image = image
    BY DEF UndoImages
  <2> HIDE DEF e, v
  <2>4. v.captured = u.captured \union {p} /\ v.images = IF k < UndoCap THEN Append(u.images, e) ELSE u.images
    BY <2>2
  <2> DEFINE a == Cardinality(u.captured)
             b == Cardinality(v.captured)
  <2>5. a \in Nat /\ b = a + 1 /\ k <= a /\ (k < a \/ \A q \in u.captured : \E i \in 1 .. k : u.images[i].page = q)
    BY <1>3, <2>1, <2>4
  <2>6. CASE ~(k < UndoCap)
    <3>1. v.images = u.images
      BY <2>4, <2>6
    <3> HIDE DEF a, b
    <3>2. k < b /\ k <= b
      BY <1>1, <2>5
    <3>3. \A i \in 1 .. k : u.images[i].page \in v.captured
      BY <1>3, <2>4
    <3> QED BY <1>3, <2>4, <3>1, <3>2, <3>3 DEF HoldsImages, b, v
  <2>7. CASE k < UndoCap
    <3> DEFINE w == Append(u.images, e)
    <3>1. Len(w) = k + 1 /\ \A i \in 1 .. k + 1 : w[i] = IF i <= k THEN u.images[i] ELSE e
      BY <1>1, <2>3, AppendFacts
    <3>2. v.images = w
      BY <2>4, <2>7
    <3> HIDE DEF w, a, b, k
    <3>3. ASSUME NEW i \in 1 .. k + 1
          PROVE  w[i].page \in v.captured /\ w[i].image.rows = c[w[i].page]
      <4>1. (i <= k /\ i \in 1 .. k) \/ ~(i <= k)
        BY <1>1
      <4> QED BY <1>3, <1>5, <2>3, <2>4, <3>1, <4>1
    <3>4. k + 1 <= b /\ (k < a => k + 1 < b)
      BY <1>1, <2>5
    <3>5. ASSUME ~(k < a), NEW q \in v.captured PROVE \E i \in 1 .. k + 1 : w[i].page = q
      <4>1. k + 1 \in 1 .. k + 1 /\ ~(k + 1 <= k) /\ \A i \in 1 .. k : i \in 1 .. k + 1 /\ i <= k
        BY <1>1
      <4>2. CASE q = p
        BY <2>3, <3>1, <4>1, <4>2
      <4>3. CASE q \in u.captured
        BY <2>5, <3>1, <3>5, <4>1, <4>3
      <4> QED BY <2>4, <4>2, <4>3
    <3> QED BY <2>4, <3>1, <3>2, <3>3, <3>4, <3>5 DEF HoldsImages, b, v
  <2> QED BY <2>6, <2>7
<1> QED BY <1>4, <1>5

\* Write.
LEMMA WriteIsSound ==
    ASSUME IInv, NEW x \in Xids, NEW p \in Pages, Write(x, p), OpenIsSound
    PROVE  OpenIsSound'
<1> DEFINE row == Len(writes) + 1
           image == [lsn |-> update_lsn(x, p), rows |-> pool[p].image.rows \union {row}]
           before == IF p \in undo[x].captured THEN NoImage ELSE pool[p].image
           s == AllRecords
           t == AllRecords'
<1>1. /\ phase = "open" /\ phase' = "open" /\ x \in running /\ pool[p].resident
      /\ row <= MaxWrites
      /\ buffer' = append_update(x, p, before, image)
      /\ pool' = [pool EXCEPT ![p] = Frame(image, TRUE)]
      /\ undo' = [undo EXCEPT ![x] = capture(undo[x], p, pool[p].image)]
      /\ writes' = Append(writes, [page |-> p, txn |-> x, fate |-> "pending"])
      /\ UNCHANGED <<disk, metaLsn, log, nextXid, rolling, running>>
  BY DEF Write, files
<1>2. /\ LogIsWhole /\ RealRecords(s) /\ LogKnowsTransactions
      /\ ImagesOf(s, Len(log), Committed)
      /\ FramesAgree /\ UndoIsCommitted /\ OneTransaction /\ PagesAreRight
      /\ NoSteal => CrashIsHarmless
  BY DEF OpenIsSound
<1>3. pool[p].image \in Images /\ pool[p].image.rows \in SUBSET Rows /\ pool[p].image # NoImage
  <2>1. pool[p] \in Frames
    BY OpenTyped
  <2>2. pool[p].image # NoImage
    BY <1>1, <1>2 DEF FramesAgree
  <2> QED BY <2>1, <2>2 DEF Frames, Images
<1>4. row \in Rows
  BY <1>1, OpenTyped, BoundsAssumption DEF Rows
<1>5. /\ image \in Images /\ before \in Images /\ image.lsn = update_lsn(x, p) /\ image.lsn \in Nat
      /\ image.rows = pool[p].image.rows \union {row}
  BY <1>3, <1>4, UpdateLsnTyped, ConstantsTyped DEF Images
<1>6. /\ Committed' = Committed
      /\ DOMAIN writes' = DOMAIN writes \union {row} /\ row \notin DOMAIN writes
      /\ \A n \in DOMAIN writes : writes'[n] = writes[n]
      /\ writes'[row] = [page |-> p, txn |-> x, fate |-> "pending"]
      /\ \A q \in Pages : Unsettled(q)' = IF q = p THEN Unsettled(q) \union {row} ELSE Unsettled(q)
  BY <1>1, HistoryGrows
<1>7. Current(p).rows = pool[p].image.rows /\ \A q \in Pages : Current(q).rows = Committed[q] \union Unsettled(q)
  BY <1>1, <1>2 DEF Current, PagesAreRight
<1>8. p \notin undo[x].captured => pool[p].image.rows = Committed[p]
  <2>1. p \notin undo[x].captured => Unsettled(p) = {}
    BY <1>1, <1>2 DEF Unsettled, OneTransaction
  <2> QED BY <1>7, <2>1
<1>9. /\ capture(undo[x], p, pool[p].image).captured = undo[x].captured \union {p}
      /\ HoldsImages(capture(undo[x], p, pool[p].image), Committed)
  <2>1. undo[x] \in UndoLogs /\ HoldsImages(undo[x], Committed)
    BY <1>1, <1>2, OpenTyped DEF UndoIsCommitted, HoldsImages
  <2> QED BY <1>3, <1>8, <2>1, CaptureHolds
<1> DEFINE v == capture(undo[x], p, pool[p].image)
<1> HIDE DEF v
<1>10. \A y \in Xids : undo'[y] = IF y = x THEN v ELSE undo[y]
  BY <1>1, OpenTyped DEF v
<1>11. v.captured = undo[x].captured \union {p} /\ HoldsImages(v, Committed)
  BY <1>9 DEF v
<1>12. before = IF p \in undo[x].captured THEN NoImage ELSE pool[p].image
  OBVIOUS
<1> HIDE DEF before, image, row
<1>13. PICK m \in Nat : /\ Staged(s, t, m, x, p, before, image)
                        /\ Len(log) <= m /\ t[m + 1].lsn = metaLsn + m /\ image.lsn = metaLsn + m
  <2>1. x \in 0 .. MaxXid /\ log' = log
    BY <1>1, XidFacts
  <2> QED BY <1>1, <1>2, <1>5, <2>1, UpdateIsStaged
<1>14. p \notin undo[x].captured => t[m + 1].hasUndo
  <2>1. ASSUME p \notin undo[x].captured, m + 1 = Len(s), IsUpdate(s[m + 1], p), s[m + 1].txn = x
        PROVE  FALSE
    <3>1. m + 1 \in 1 .. Len(s)
      BY <1>13, <2>1
    <3> QED BY <1>1, <1>2, <2>1, <3>1 DEF LogKnowsTransactions
  <2>2. p \notin undo[x].captured => before # NoImage
    BY <1>3, <1>12
  <2> QED BY <1>13, <2>1, <2>2 DEF Staged
<1>15. before # NoImage => before.rows = Committed[p]
  BY <1>8, <1>12
<1>16. /\ \A y \in running : undo[y].captured \subseteq undo'[y].captured
       /\ p \in undo'[x].captured
       /\ \A y \in running : \A q \in undo'[y].captured :
             q \in undo[y].captured \/ (y = x /\ q = p /\ t[m + 1].hasUndo)
  BY <1>10, <1>11, <1>14, OpenTyped
<1>17. Unfinished(s, Len(s), x) /\ \A q \in undo[x].captured : Covered(s, Len(s), q)
  BY <1>1, <1>2, CapturedIsCovered
<1>18. Covered(t, m + 1, p)
  <2>1. /\ \A y : Unfinished(t, m + 1, y) <=> Unfinished(s, Len(s), y)
        /\ \A q : Covered(s, Len(s), q) => Covered(t, m + 1, q)
    BY <1>13, UpdateAdded
  <2>2. CASE p \in undo[x].captured
    BY <1>17, <2>1, <2>2
  <2>3. CASE p \notin undo[x].captured
    <3>1. IsUpdate(t[m + 1], p) /\ t[m + 1].txn = x
      BY <1>13 DEF Staged
    <3>2. m + 1 \in 1 .. m + 1
      BY <1>13
    <3> QED BY <1>14, <1>17, <2>1, <2>3, <3>1, <3>2 DEF Covered
  <2> QED BY <2>2, <2>3
<1>19. /\ LogIsWhole' /\ RealRecords(AllRecords)' /\ LogKnowsTransactions'
       /\ ImagesOf(AllRecords, Len(log), Committed)'
  <2>1. x \in running \union {NO_TRANSACTION}
    BY <1>1
  <2> HIDE DEF s, t
  <2> QED BY <1>1, <1>2, <1>5, <1>6, <1>13, <1>15, <1>16, <2>1, LogAfterUpdate DEF s, t
<1>20. /\ FramesAgree'
       /\ \A q \in Pages : Current(q)' = IF q = p THEN image ELSE Current(q)
  <2>1. \A q \in Pages : pool'[q] = IF q = p THEN Frame(image, TRUE) ELSE pool[q]
    BY <1>1, OpenTyped
  <2>2. disk' = disk
    BY <1>1
  <2> QED BY <1>2, <1>5, <2>1, <2>2, FrameUpdated
<1>21. NoSteal => CrashIsHarmless'
  <2>1. x \in running \union {NO_TRANSACTION} /\ UNCHANGED <<disk, metaLsn, log, running>>
    BY <1>1
  <2> QED BY <1>2, <1>5, <1>6, <1>13, <1>18, <1>20, <2>1, UpdateIsHarmless
<1>22. UndoIsCommitted'
  <2>1. running' = running /\ \A y \in running : y = x
    BY <1>1, <1>2 DEF OneTransaction
  <2>2. \A y \in Xids : y \notin running => undo'[y] = NoUndo
    BY <1>1, <1>2, <1>10 DEF UndoIsCommitted
  <2>3. undo'[x] = v
    BY <1>10
  <2>4. Committed' = Committed
    BY <1>6
  <2>5. \A y \in running' : HoldsImages(undo'[y], Committed')
    BY <1>11, <2>1, <2>3, <2>4
  <2>6. \A y \in Xids : y \notin running' => undo'[y] = NoUndo
    BY <2>1, <2>2
  <2> QED BY <2>5, <2>6 DEF UndoIsCommitted, HoldsImages
<1>23. OneTransaction'
  <2>1. running' = running /\ nextXid' = nextXid
    BY <1>1
  <2>2. ASSUME NEW n \in DOMAIN writes', writes'[n].fate = "pending"
        PROVE  writes'[n].txn \in running /\ writes'[n].page \in undo'[writes'[n].txn].captured
    <3>1. CASE n = row
      BY <1>1, <1>6, <1>16, <3>1
    <3>2. CASE n \in DOMAIN writes
      <4>1. writes[n].txn \in running /\ writes[n].page \in undo[writes[n].txn].captured
        BY <1>2, <1>6, <2>2, <3>2 DEF OneTransaction
      <4> QED BY <1>6, <1>16, <3>2, <4>1
    <3> QED BY <1>6, <3>1, <3>2
  <2> QED BY <1>2, <2>1, <2>2 DEF OneTransaction
<1>24. PagesAreRight'
  <2>1. ASSUME NEW q \in Pages PROVE Current(q)'.rows = Committed'[q] \union Unsettled(q)'
    <3>1. CASE q = p
      BY <1>5, <1>6, <1>7, <1>20, <3>1
    <3>2. CASE q # p
      BY <1>6, <1>7, <1>20, <3>2
    <3> QED BY <3>1, <3>2
  <2> QED BY <1>1, <2>1 DEF PagesAreRight
<1> QED BY <1>19, <1>20, <1>21, <1>22, <1>23, <1>24 DEF OpenIsSound

\* restore_page.
LEMMA RestoreIsSound ==
    ASSUME IInv, restore_page, OpenIsSound
    PROVE  OpenIsSound'
<1> DEFINE todo == rolling.todo
           p == Head(rolling.todo).page
           image == [lsn |-> update_lsn(NO_TRANSACTION, p), rows |-> Head(rolling.todo).image.rows]
           s == AllRecords
           t == AllRecords'
           x == rolling.txn
<1>1. /\ phase = "rollback" /\ phase' = "rollback" /\ todo # <<>>
      /\ buffer' = append_update(NO_TRANSACTION, p, NoImage, image)
      /\ pool' = [pool EXCEPT ![p] = Frame(image, TRUE)]
      /\ rolling' = [rolling EXCEPT !.todo = Tail(todo)]
      /\ UNCHANGED <<disk, metaLsn, log, undo, nextXid, running, writes>>
  BY DEF restore_page, files
<1>2. /\ LogIsWhole /\ RealRecords(s) /\ LogKnowsTransactions
      /\ ImagesOf(s, Len(log), Committed)
      /\ FramesAgree /\ UndoIsCommitted /\ OneTransaction /\ PagesAreRight
      /\ NoSteal => CrashIsHarmless
  BY DEF OpenIsSound
<1>3. rolling \in [txn : 0 .. MaxXid, todo : Seq(UndoImages)] /\ todo \in Seq(UndoImages)
  BY DEF IInv, TypeOK
<1>4. Tail(todo) = RemoveAt(todo, 1) /\ Head(todo) = todo[1] /\ 1 \in 1 .. Len(todo)
  BY <1>1, <1>3, TailIsRemove
<1>5. /\ Len(Tail(todo)) = Len(todo) - 1 /\ Len(todo) \in Nat
      /\ \A k \in 1 .. Len(todo) - 1 : Tail(todo)[k] = todo[k + 1]
  <2>1. Len(todo) \in Nat
    BY <1>3, LenProperties
  <2>2. /\ Len(RemoveAt(todo, 1)) = Len(todo) - 1
        /\ \A k \in 1 .. Len(todo) - 1 :
              RemoveAt(todo, 1)[k] = IF k < 1 THEN todo[k] ELSE todo[k + 1]
    <3> HIDE DEF todo
    <3> QED BY <1>3, <1>4, RemoveAtFacts
  <2>3. \A k \in 1 .. Len(todo) - 1 : ~(k < 1)
    BY <2>1
  <2> DEFINE g == RemoveAt(todo, 1)
  <2>4. g = Tail(todo) /\ Len(g) = Len(todo) - 1 /\ \A k \in 1 .. Len(todo) - 1 : g[k] = todo[k + 1]
    BY <1>4, <2>2, <2>3
  <2> HIDE DEF g
  <2> QED BY <2>1, <2>4
<1>6. todo[1] \in UndoImages
  BY <1>3, <1>4, ElementOfSeq
<1>7. /\ p = todo[1].page /\ p \in Pages /\ image.rows = todo[1].image.rows
      /\ todo[1].image.rows \in SUBSET Rows
  BY <1>4, <1>6 DEF UndoImages, Images
<1>8. /\ image \in Images /\ image.lsn = update_lsn(NO_TRANSACTION, p) /\ image.lsn \in Nat
      /\ NoImage \in Images /\ NO_TRANSACTION \in 0 .. MaxXid
  BY <1>7, UpdateLsnTyped, ConstantsTyped, XidFacts DEF Images, NO_TRANSACTION
<1>9. /\ running = {x}
      /\ \A i \in 1 .. Len(todo) : /\ todo[i].image.rows = Committed[todo[i].page]
                                   /\ todo[i].page \in undo[x].captured
      /\ \A q \in Pages : \/ IsListed(q)
                          \/ /\ Current(q).rows = Committed[q]
                             /\ q \in undo[x].captured => LastIsRestore(q)
  BY <1>1, <1>2 DEF PagesAreRight
<1>10. p \in undo[x].captured /\ image.rows = Committed[p] /\ x \in running
  BY <1>4, <1>7, <1>9
<1>11. Committed' = Committed /\ \A q : Unsettled(q)' = Unsettled(q)
  BY <1>1, HistoryStays
<1>12. rolling'.todo = Tail(todo) /\ rolling'.txn = x
  BY <1>1, <1>3
<1>13. NO_TRANSACTION \notin running
  BY OpenTyped
<1> HIDE DEF p, image, todo, x
<1>14. PICK m \in Nat : /\ Staged(s, t, m, NO_TRANSACTION, p, NoImage, image)
                        /\ Len(log) <= m /\ t[m + 1].lsn = metaLsn + m /\ image.lsn = metaLsn + m
  <2>1. log' = log
    BY <1>1
  <2> QED BY <1>1, <1>2, <1>7, <1>8, <2>1, UpdateIsStaged
<1>15. Covered(t, m + 1, p)
  <2>1. Covered(s, Len(s), p)
    BY <1>2, <1>10, CapturedIsCovered
  <2> QED BY <1>14, <2>1, UpdateAdded
<1>16. NO_TRANSACTION \in running \union {NO_TRANSACTION}
  OBVIOUS
<1>17. /\ LogIsWhole' /\ RealRecords(AllRecords)' /\ LogKnowsTransactions'
       /\ ImagesOf(AllRecords, Len(log), Committed)'
  <2>1. /\ \A y \in running : undo[y].captured \subseteq undo'[y].captured
        /\ NO_TRANSACTION \in running => p \in undo'[NO_TRANSACTION].captured
        /\ \A y \in running : \A q \in undo'[y].captured :
              q \in undo[y].captured \/ (y = NO_TRANSACTION /\ q = p /\ AllRecords'[m + 1].hasUndo)
        /\ NoImage # NoImage => NoImage.rows = Committed[p]
    BY <1>1, <1>13
  <2>2. UNCHANGED <<metaLsn, log, nextXid, running>> /\ Committed' = Committed
    BY <1>1, <1>11
  <2>3. /\ LogIsWhole /\ RealRecords(AllRecords) /\ LogKnowsTransactions /\ OneTransaction
        /\ ImagesOf(AllRecords, Len(log), Committed)
    BY <1>2
  <2>4. /\ Staged(AllRecords, AllRecords', m, NO_TRANSACTION, p, NoImage, image)
        /\ Len(log) <= m /\ AllRecords'[m + 1].lsn = metaLsn + m /\ image.lsn = metaLsn + m
    BY <1>14
  <2>5. p \in Pages /\ NoImage \in Images /\ image \in Images
    BY <1>7, <1>8
  <2> QED BY <1>16, <2>1, <2>2, <2>3, <2>4, <2>5, LogAfterUpdate
<1>18. /\ FramesAgree'
       /\ \A q \in Pages : Current(q)' = IF q = p THEN image ELSE Current(q)
  <2>1. \A q \in Pages : pool'[q] = IF q = p THEN Frame(image, TRUE) ELSE pool[q]
    BY <1>1, OpenTyped
  <2>2. disk' = disk
    BY <1>1
  <2> QED BY <1>2, <1>7, <1>8, <2>1, <2>2, FrameUpdated
<1>19. NoSteal => CrashIsHarmless'
  <2>1. UNCHANGED <<disk, metaLsn, log, running>>
    BY <1>1
  <2> QED BY <1>2, <1>7, <1>8, <1>11, <1>14, <1>15, <1>16, <1>18, <2>1, UpdateIsHarmless
<1>20. UndoIsCommitted' /\ OneTransaction'
  BY <1>1, <1>2, <1>11 DEF UndoIsCommitted, OneTransaction
<1>21. /\ Len(t) = m + 1 /\ (\A i \in 1 .. m : t[i] = s[i])
       /\ IsUpdate(t[m + 1], p) /\ t[m + 1].txn = NO_TRANSACTION
       /\ Len(s) = m \/ (m + 1 = Len(s) /\ IsUpdate(s[m + 1], p))
  BY <1>14 DEF Staged
<1>22. ASSUME NEW q \in Pages, q = p PROVE LastIsRestore(q)'
  <2>1. m + 1 \in 1 .. m + 1 /\ (m + 1) + 1 .. m + 1 = {}
    BY <1>14
  <2>2. IsUpdate(t[m + 1], q) /\ t[m + 1].txn = NO_TRANSACTION /\ Len(t) = m + 1
    BY <1>21, <1>22
  <2> QED BY <2>1, <2>2 DEF LastIsRestore
<1>23. ASSUME NEW q \in Pages, q # p, LastIsRestore(q) PROVE LastIsRestore(q)'
  <2> DEFINE n == Len(s)
  <2>1. PICK j \in 1 .. n : /\ IsUpdate(s[j], q) /\ s[j].txn = NO_TRANSACTION
                            /\ \A i \in j + 1 .. n : ~IsUpdate(s[i], q)
    BY <1>23 DEF LastIsRestore
  <2>2. n = m \/ (m + 1 = n /\ IsUpdate(s[m + 1], p))
    BY <1>21
  <2> HIDE DEF n
  <2>3. j # m + 1 \/ n = m
    BY <1>23, <2>1, <2>2 DEF IsUpdate
  <2>4. j \in 1 .. m /\ j \in 1 .. m + 1
    BY <1>14, <2>1, <2>2, <2>3
  <2>5. ASSUME NEW i \in j + 1 .. m + 1 PROVE ~IsUpdate(t[i], q)
    <3>1. (i \in 1 .. m /\ i \in j + 1 .. n) \/ i = m + 1
      BY <1>14, <2>2, <2>4
    <3>2. ~IsUpdate(t[m + 1], q)
      BY <1>21, <1>23 DEF IsUpdate
    <3> QED BY <1>21, <2>1, <3>1, <3>2
  <2>6. t[j] = s[j]
    BY <1>21, <2>4
  <2> QED BY <1>21, <2>1, <2>4, <2>5, <2>6 DEF LastIsRestore
<1>24. ASSUME NEW q \in Pages, q # p, IsListed(q) PROVE IsListed(q)'
  <2>1. PICK i \in 1 .. Len(todo) : todo[i].page = q
    BY <1>24 DEF IsListed, todo
  <2>2. i # 1
    BY <1>7, <1>24, <2>1
  <2> DEFINE k == i - 1
  <2>3. k \in 1 .. Len(todo) - 1 /\ k + 1 = i
    BY <1>5, <2>1, <2>2
  <2> HIDE DEF k
  <2>4. Tail(todo)[k] = todo[i] /\ k \in 1 .. Len(Tail(todo))
    BY <1>5, <2>3
  <2> QED BY <1>12, <2>1, <2>4 DEF IsListed
<1>25. ASSUME NEW i \in 1 .. Len(rolling'.todo)
       PROVE  /\ rolling'.todo[i].image.rows = Committed'[rolling'.todo[i].page]
              /\ rolling'.todo[i].page \in undo'[x].captured
  <2>1. i \in 1 .. Len(todo) - 1
    BY <1>5, <1>12
  <2>2. i + 1 \in 1 .. Len(todo)
    BY <1>5, <2>1
  <2>3. rolling'.todo[i] = todo[i + 1]
    BY <1>5, <1>12, <2>1
  <2>4. undo' = undo
    BY <1>1
  <2> QED BY <1>9, <1>11, <2>2, <2>3, <2>4
<1>26. ASSUME NEW q \in Pages
       PROVE  \/ IsListed(q)'
              \/ /\ Current(q)'.rows = Committed'[q]
                 /\ q \in undo'[x].captured => LastIsRestore(q)'
  <2>1. CASE q = p
    BY <1>10, <1>11, <1>18, <1>22, <2>1
  <2>2. CASE q # p
    <3>1. undo' = undo
      BY <1>1
    <3> QED BY <1>9, <1>11, <1>18, <1>23, <1>24, <2>2, <3>1
  <2> QED BY <2>1, <2>2
<1>27. PagesAreRight'
  <2>1. phase' = "rollback" /\ running' = {rolling'.txn} /\ rolling'.txn = x
    BY <1>1, <1>9, <1>12
  <2> QED BY <1>25, <1>26, <2>1 DEF PagesAreRight
<1> QED BY <1>17, <1>18, <1>19, <1>20, <1>27 DEF OpenIsSound

---------------------------------------------------------------------------
(* Closing and opening.                                                    *)

\* Recovery with no record.
LEMMA EmptyLog ==
    ASSUME NEW d, NEW c
    PROVE  /\ SoundTo(d, <<>>, 0, c) <=> \A p \in Pages : d[p].rows = c[p]
           /\ ~SomeLoser(<<>>, 0)
<1>1. 1 .. 0 = {} /\ 0 .. 0 = {0} /\ 0 + 1 .. 0 = {} /\ ~(0 > 0)
  OBVIOUS
<1>2. \A p : ~Covered(<<>>, 0, p)
  BY <1>1 DEF Covered
<1>3. \A p : IsSource(d, <<>>, 0, p, 0) /\ ImageAt(d, <<>>, p, 0) = d[p]
  BY <1>1 DEF IsSource, ImageAt
<1>4. \A p, rows : RedoneRows(d, <<>>, 0, p, rows) <=> rows = d[p].rows
  BY <1>1, <1>3 DEF RedoneRows
<1> QED BY <1>1, <1>2, <1>4 DEF SoundTo, SomeLoser

\* The empty log is read as it is.
LEMMA EmptyIsRead == \A m \in Nat : read_all(<<>>, m) = <<>>
<1> TAKE m \in Nat
<1>1. <<>> \in Seq(Records) /\ Len(<<>>) = 0
  BY EmptySeq
<1>2. Placed(<<>>, m)
  BY <1>1 DEF Placed
<1> QED BY <1>1, <1>2, WholeIsRead

\* close.
LEMMA CloseIsSound ==
    ASSUME IInv, close, crashes.repaired, RealPages(disk), OpenIsSound
    PROVE  RealPages(disk') /\ DownIsSound' /\ phase' = "down"
<1>1. /\ phase = "open" /\ running = {} /\ disk' = Written(DirtyPages) /\ log' = <<>>
      /\ metaLsn' = next_lsn + 1 /\ writes' = writes /\ phase' = "down"
      /\ running' = {} /\ undo' = [x \in Xids |-> NoUndo]
  BY DEF close, CheckpointFiles, Forgotten
<1>2. /\ RealPages(disk') /\ NothingPending' /\ Committed' = Committed
      /\ \A p \in Pages : disk'[p].rows = Committed[p] /\ disk'[p].lsn < next_lsn + 1
  BY <1>1, CheckpointPages
<1>3. metaLsn' \in Nat /\ metaLsn' + 0 = next_lsn + 1
  BY <1>1, LogNumbers
<1>4. read_all(log', metaLsn') = <<>> /\ Len(<<>>) = 0 /\ 1 .. 0 = {}
  BY <1>1, <1>3, EmptyIsRead, EmptySeq
<1>5. SoundTo(disk', <<>>, 0, Committed')
  BY <1>2, EmptyLog
<1>6. ImagesOf(<<>>, 0, Committed') /\ RealRecords(<<>>)
  BY <1>4 DEF ImagesOf, RealRecords
<1>7. Len(log') = 0 /\ \A p \in Pages : disk'[p].lsn < metaLsn' + 0
  BY <1>1, <1>2, <1>3, EmptySeq
<1>8. FilesRecover(disk', log', metaLsn', Committed')
  BY <1>1, <1>4, <1>5, <1>6, <1>7 DEF FilesRecover
<1> QED BY <1>1, <1>2, <1>8 DEF DownIsSound

\* The database as opened, with nothing in memory, when the pages of the file
\* are right and the log is empty.
LEMMA OpenedAfresh ==
    ASSUME IInv, phase \in {"down", "redone", "restamped"}, DownIsSound,
           phase' = "open", log' = <<>>,
           \A p \in Pages : disk[p].rows = Committed[p] /\ disk[p].lsn < metaLsn,
           UNCHANGED <<disk, metaLsn, buffer, pool, undo, running, writes>>
    PROVE  OpenIsSound'
<1>1. buffer = <<>> /\ (\A p \in Pages : pool[p] = NoFrame) /\ metaLsn \in Nat
  BY DownFacts, LogNumbers
<1>2. Committed' = Committed /\ NothingPending'
  BY HistoryStays DEF DownIsSound
<1>3. ~NoFrame.resident /\ ~NoFrame.dirty
  BY DEF NoFrame
<1>4. \A p \in Pages : ~pool'[p].resident /\ ~pool'[p].dirty
  BY <1>1, <1>3
<1>5. FramesAgree' /\ \A p \in Pages : Current(p)' = disk'[p]
  BY <1>4 DEF FramesAgree, Current
<1>6. flushed_lsn' = metaLsn
  <2>1. flushed_lsn' = metaLsn + 0
    BY EmptySeq DEF flushed_lsn
  <2> QED BY <1>1, <2>1
<1>7. (\A x \in Xids : undo'[x] = NoUndo) /\ running' = {}
  BY DEF DownIsSound
<1>8. Afresh'
  BY <1>1, <1>2, <1>5, <1>6, <1>7 DEF Afresh
<1>9. Afresh' => OpenIsSound'
  BY AfreshIsSound, PTL
<1> QED BY <1>8, <1>9

\* open_clean.
LEMMA OpenCleanIsSound ==
    ASSUME IInv, open_clean, DownIsSound
    PROVE  OpenIsSound'
<1>1. /\ phase = "down" /\ read_all(log, metaLsn) = <<>> /\ phase' = "open"
      /\ UNCHANGED <<disk, metaLsn, log, buffer, pool, undo, running, writes>>
  BY DEF open_clean, files
<1>2. Len(read_all(log, metaLsn)) = 0
  BY <1>1, EmptySeq
<1>3. /\ SoundTo(disk, <<>>, 0, Committed)
      /\ SomeLoser(<<>>, 0) \/ \A p \in Pages : disk[p].lsn < metaLsn + Len(log)
      /\ log = <<>>
  BY <1>1, <1>2 DEF DownIsSound, FilesRecover
<1>4. metaLsn + Len(log) = metaLsn
  BY <1>3, LogNumbers, EmptySeq
<1>5. \A p \in Pages : disk[p].rows = Committed[p] /\ disk[p].lsn < metaLsn
  BY <1>3, <1>4, EmptyLog
<1>6. log' = <<>>
  BY <1>1, <1>3
<1> QED BY <1>1, <1>5, <1>6, OpenedAfresh

\* open_restamp.
LEMMA OpenRestampIsSound ==
    ASSUME IInv, open_restamp, DownIsSound
    PROVE  DownIsSound' /\ phase' = "restamped"
<1>1. /\ phase = "redone" /\ metaLsn' = flushed_lsn /\ phase' = "restamped"
      /\ UNCHANGED <<disk, log, undo, running, writes>>
  BY DEF open_restamp, memory
<1>2. /\ running = {} /\ undo = [x \in Xids |-> NoUndo] /\ NothingPending
      /\ \A p \in Pages : disk[p].rows = Committed[p] /\ disk[p].lsn < FileTop
      /\ Len(read_all(log, metaLsn)) > 0
  BY <1>1 DEF DownIsSound
<1>3. FileTop = flushed_lsn /\ FileTop' = flushed_lsn
  BY <1>1 DEF FileTop
<1>4. Committed' = Committed /\ NothingPending'
  BY <1>1, <1>2, HistoryStays
<1> DEFINE r == read_all(log, metaLsn)
<1>5. Len(r) \in 0 .. Len(log) /\ (\A k \in 1 .. Len(r) : r[k] = log[k]) /\ Placed(r, metaLsn)
  BY LogNumbers, ReadAllIs
<1>6. Len(r) > 0
  BY <1>2
<1> HIDE DEF r
<1>7. 1 \in 1 .. Len(r) /\ Len(log) > 0
  BY <1>5, <1>6, LogNumbers
<1>8. log[1].lsn = metaLsn + 1 - 1
  BY <1>5, <1>7 DEF Placed
<1>9. log[1].lsn < flushed_lsn
  BY <1>7, <1>8, LogNumbers
<1>10. /\ running' = {} /\ undo' = [x \in Xids |-> NoUndo] /\ Len(log') > 0 /\ log'[1].lsn < metaLsn'
       /\ \A p \in Pages : disk'[p].rows = Committed'[p] /\ disk'[p].lsn < FileTop'
  BY <1>1, <1>2, <1>3, <1>4, <1>7, <1>9
<1> QED BY <1>1, <1>4, <1>10 DEF DownIsSound

\* open_reset.
LEMMA OpenResetIsSound ==
    ASSUME IInv, open_reset, DownIsSound
    PROVE  OpenIsSound'
<1>1. /\ phase = "restamped" /\ log' = <<>> /\ phase' = "open"
      /\ UNCHANGED <<disk, metaLsn, buffer, pool, undo, running, writes>>
  BY DEF open_reset
<1>2. \A p \in Pages : disk[p].rows = Committed[p] /\ disk[p].lsn < metaLsn
  BY <1>1 DEF DownIsSound, FileTop
<1> QED BY <1>1, <1>2, OpenedAfresh

---------------------------------------------------------------------------
(* Recovery.                                                               *)

\* The compensation records by places: an image for every step of undo, older
\* steps later, and then an ABORT for every loser.
LEMMA CompensationIs ==
    ASSUME NEW s \in Seq(Records), NEW lsn \in Nat
    PROVE  /\ compensation(s, lsn) \in Seq(Records) /\ Placed(compensation(s, lsn), lsn)
           /\ \A k \in 1 .. Len(compensation(s, lsn)) :
                 LET r == compensation(s, lsn)[k]
                 IN  /\ ~r.hasUndo /\ r.txn \in losers(s)
                     /\ r.type = "update" =>
                           \E j \in undoable(s) : r.page = s[j].page /\ r.after = s[j].before
           /\ \A x \in losers(s) : \E k \in 1 .. Len(compensation(s, lsn)) :
                 IsEnding(compensation(s, lsn)[k]) /\ compensation(s, lsn)[k].txn = x
           /\ \A j \in undoable(s) : \E k \in 1 .. Len(compensation(s, lsn)) :
                 /\ IsUpdate(compensation(s, lsn)[k], s[j].page)
                 /\ compensation(s, lsn)[k].after = s[j].before
                 /\ \A h \in k + 1 .. Len(compensation(s, lsn)) :
                       compensation(s, lsn)[h].type = "update" =>
                           \E i \in undoable(s) : i < j /\ compensation(s, lsn)[h].page = s[i].page
<1> DEFINE U == undoable(s)
           L == losers(s)
           order == Descending(U)
           ended == Ascending(L)
           a == Len(order)
           b == Len(ended)
           n == a + b
           c == compensation(s, lsn)
           back(i) == Record("update", s[order[i]].txn, s[order[i]].page, NoImage,
                             s[order[i]].before, lsn + i - 1)
           end(i) == Ending("abort", ended[i - a], lsn + i - 1)
<1>1. c = [i \in 1 .. n |-> IF i <= a THEN back(i) ELSE end(i)]
  BY DEF compensation
<1>2. U \subseteq DOMAIN s
  BY DEF undoable
<1>3. U \in SUBSET Nat /\ IsFiniteSet(U) /\ \A i \in U : s[i] \in Records
  BY <1>2, PlacesFacts
<1>4. L \in SUBSET Nat /\ IsFiniteSet(L)
  BY LosersFacts
<1>5. \A i \in U : s[i].txn \in L
  BY DEF undoable
<1>6. c \in Seq(Records)
  <2>1. Len(s) \in Nat
    BY LenProperties
  <2>2. PICK m \in Nat : m = lsn + Len(s)
    BY <2>1
  <2> DEFINE e == [i \in 1 .. n |-> IF i <= a THEN back(i) ELSE end(i)]
  <2> HIDE DEF U, L, order, ended
  <2>3. /\ order \in Seq(U) /\ a \in Nat /\ ended \in Seq(L) /\ b \in Nat
    BY <1>3, <1>4, DescendingFacts, AscendingFacts DEF order, ended
  <2>4. ASSUME NEW i \in 1 .. n PROVE (IF i <= a THEN back(i) ELSE end(i)) \in Records
    <3>1. (i <= a => i \in 1 .. a) /\ (~(i <= a) => i - a \in 1 .. b) /\ lsn + i - 1 \in Nat
      BY <2>3
    <3>2. CASE i <= a
      <4>1. order[i] \in U
        BY <2>3, <3>1, <3>2, ElementOfSeq
      <4>2. s[order[i]] \in Records
        BY <1>3, <4>1
      <4> DEFINE x == s[order[i]].txn
                 g == s[order[i]].page
                 f == s[order[i]].before
                 k == lsn + i - 1
      <4>3. /\ x \in 0 .. MaxXid /\ g \in Pages /\ f \in Images /\ k \in Nat /\ NoImage \in Images
            /\ "update" \in {"update", "commit", "abort", "torn"}
        BY <3>1, <4>2, RecordFields, ConstantsTyped
      <4>4. back(i) = Record("update", x, g, NoImage, f, k)
        OBVIOUS
      <4> HIDE DEF x, g, f, k, back
      <4>5. back(i) \in Records
        BY <4>3, <4>4, RecordTyped
      <4> QED BY <3>2, <4>5
    <3>3. CASE ~(i <= a)
      <4>1. ended[i - a] \in L
        BY <2>3, <3>1, <3>3, ElementOfSeq
      <4>2. ended[i - a] \in 0 .. MaxXid
        BY <4>1, LosersFacts DEF L
      <4>3. end(i) \in Records
        BY <3>1, <4>2, EndingTyped
      <4> QED BY <3>3, <4>3
    <3> QED BY <3>2, <3>3
  <2>5. n \in Nat
    BY <2>3
  <2>6. c = e
    BY <1>1
  <2> HIDE DEF n, a, back, end
  <2>7. e \in [1 .. n -> Records]
    BY <2>4
  <2>8. e \in Seq(Records)
    <3> HIDE DEF e
    <3> QED BY <2>5, <2>7, ListOfFunction
  <2> QED BY <2>6, <2>8
<1>7. /\ order \in Seq(U) /\ a \in Nat
      /\ \A i, j \in 1 .. a : i < j => order[i] > order[j]
      /\ \A e \in U : \E i \in 1 .. a : order[i] = e
  <2> HIDE DEF U
  <2> QED BY <1>3, DescendingAll
<1>8. ended \in Seq(L) /\ b \in Nat /\ \A e \in L : \E i \in 1 .. b : ended[i] = e
  <2> DEFINE d == Descending(L)
  <2> HIDE DEF L
  <2>1. d \in Seq(L) /\ Len(d) \in Nat /\ \A e \in L : \E i \in 1 .. Len(d) : d[i] = e
    BY <1>4, DescendingAll
  <2>2. ended = Reverse(d)
    BY DEF Ascending
  <2> HIDE DEF d, ended
  <2>3. /\ ended \in Seq(L) /\ Len(ended) = Len(d)
        /\ \A j \in 1 .. Len(d) : \E i \in 1 .. Len(d) : ended[i] = d[j]
    BY <2>1, <2>2, ReverseAll
  <2>4. ASSUME NEW e \in L PROVE \E i \in 1 .. b : ended[i] = e
    <3>1. PICK j \in 1 .. Len(d) : d[j] = e
      BY <2>1
    <3> QED BY <2>3, <3>1
  <2> QED BY <2>1, <2>3, <2>4
<1> HIDE DEF order, ended
<1>9. (\A i \in 1 .. a : order[i] \in U) /\ (\A i \in 1 .. b : ended[i] \in L)
  BY <1>7, <1>8, ElementOfSeq
<1> HIDE DEF a, b
<1>10. n \in Nat /\ \A i \in 1 .. n : (i <= a => i \in 1 .. a) /\ (~(i <= a) => i - a \in 1 .. b)
  BY <1>7, <1>8
<1>11. \A i : /\ back(i).type = "update" /\ back(i).txn = s[order[i]].txn
              /\ back(i).page = s[order[i]].page /\ back(i).after = s[order[i]].before
              /\ ~back(i).hasUndo /\ back(i).lsn = lsn + i - 1
  BY DEF Record
<1>12. \A i : /\ end(i).type = "abort" /\ end(i).txn = ended[i - a]
              /\ ~end(i).hasUndo /\ end(i).lsn = lsn + i - 1
  BY DEF Ending, Record
<1> HIDE DEF back, end
<1>13. Len(c) = n /\ \A i \in 1 .. n : c[i] = IF i <= a THEN back(i) ELSE end(i)
  <2>1. DOMAIN c = 1 .. n /\ \A i \in 1 .. n : c[i] = IF i <= a THEN back(i) ELSE end(i)
    <3> HIDE DEF n, c
    <3> QED BY <1>1
  <2> HIDE DEF c, n
  <2>2. DOMAIN c = 1 .. Len(c) /\ Len(c) \in Nat
    BY <1>6, LenProperties
  <2> QED BY <1>10, <2>1, <2>2
<1> HIDE DEF c, n
<1>14. \A i \in 1 .. n : c[i].lsn = lsn + i - 1 /\ c[i].type # "torn" /\ ~c[i].hasUndo
  BY <1>11, <1>12, <1>13
<1>15. Placed(c, lsn)
  BY <1>13, <1>14 DEF Placed
<1>16. ASSUME NEW k \in 1 .. n
       PROVE  /\ c[k].txn \in L
              /\ c[k].type = "update" => k <= a /\ k \in 1 .. a /\ c[k].page = s[order[k]].page
                                         /\ c[k].after = s[order[k]].before /\ order[k] \in U
  <2>1. CASE k <= a
    <3>1. order[k] \in U /\ k \in 1 .. a /\ c[k] = back(k)
      BY <1>9, <1>10, <1>13, <2>1
    <3> QED BY <1>5, <1>11, <2>1, <3>1
  <2>2. CASE ~(k <= a)
    <3>1. ended[k - a] \in L /\ c[k] = end(k)
      BY <1>9, <1>10, <1>13, <2>2
    <3> QED BY <1>12, <3>1
  <2> QED BY <2>1, <2>2
<1>17. ASSUME NEW x \in L PROVE \E k \in 1 .. n : IsEnding(c[k]) /\ c[k].txn = x
  <2>1. PICK i \in 1 .. b : ended[i] = x
    BY <1>8
  <2> DEFINE k == a + i
  <2>2. k \in 1 .. n /\ ~(k <= a) /\ k - a = i
    BY <1>7, <1>8, <2>1 DEF n
  <2> HIDE DEF k
  <2>3. c[k] = end(k)
    BY <1>13, <2>2
  <2> QED BY <1>12, <2>1, <2>2, <2>3 DEF IsEnding
<1>18. ASSUME NEW j \in U
       PROVE  \E k \in 1 .. n :
                 /\ IsUpdate(c[k], s[j].page) /\ c[k].after = s[j].before
                 /\ \A h \in k + 1 .. n : c[h].type = "update" =>
                       \E i \in U : i < j /\ c[h].page = s[i].page
  <2>1. PICK k \in 1 .. a : order[k] = j
    BY <1>7
  <2>2. k \in 1 .. n /\ k <= a
    BY <1>7, <1>8, <2>1 DEF n
  <2>3. c[k] = back(k)
    BY <1>13, <2>2
  <2>4. IsUpdate(c[k], s[j].page) /\ c[k].after = s[j].before
    BY <1>11, <2>1, <2>3 DEF IsUpdate
  <2>5. ASSUME NEW h \in k + 1 .. n, c[h].type = "update"
        PROVE  \E i \in U : i < j /\ c[h].page = s[i].page
    <3>1. h \in 1 .. n /\ k < h
      BY <1>10, <2>1
    <3>2. h \in 1 .. a /\ c[h].page = s[order[h]].page /\ order[h] \in U
      BY <1>16, <2>5, <3>1
    <3>3. order[k] > order[h]
      BY <1>7, <2>1, <3>1, <3>2
    <3>4. order[h] < j
      <4>1. order[h] \in Nat /\ j \in Nat
        BY <1>3, <3>2
      <4> QED BY <2>1, <3>3, <4>1
    <3> QED BY <3>2, <3>4
  <2> QED BY <2>2, <2>4, <2>5
<1>19. \A k \in 1 .. n : c[k].type = "update" => \E j \in U : c[k].page = s[j].page /\ c[k].after = s[j].before
  BY <1>16
<1> QED BY <1>6, <1>13, <1>14, <1>15, <1>16, <1>17, <1>18, <1>19 DEF c
\* A file whose pages are, each on its own, as recovery found them, as redo or
\* as undo leaves them is recovered to the same rows.
LEMMA MixedPages ==
    ASSUME NEW d \in [Pages -> Images], NEW s \in Seq(Records), NEW base \in Nat, NEW c,
           NEW e \in [Pages -> Images], NEW top \in Int, base + Len(s) <= top,
           Placed(s, base), RecordsBounded(s, base), RealRecords(s), RealPages(d),
           SoundTo(d, s, Len(s), c), SomeLoser(s, Len(s)) \/ \A p \in Pages : d[p].lsn < top,
           \A p \in Pages : e[p] \in {d[p], redo(d, s)[p], undo_pass(redo(d, s), s)[p]}
    PROVE  /\ RealPages(e) /\ SoundTo(e, s, Len(s), c)
           /\ SomeLoser(s, Len(s)) \/ \A p \in Pages : e[p].lsn < top
<1> DEFINE n == Len(s)
           f == redo(d, s)
<1>1. n \in Nat /\ \A i \in 1 .. n : s[i] \in Records
  BY LenProperties, ElementOfSeq
<1>2. \A i \in 1 .. n : s[i].lsn \in Int /\ s[i].after.lsn \in Int /\ s[i].after.lsn <= s[i].lsn
  BY <1>1, RecordFields DEF RecordsBounded
<1>3. \A p \in Pages : Redone(d, s, n, p, f[p])
  BY RedoFacts
<1>4. f \in [Pages -> Images]
  BY <1>1, RecoveredFacts
<1>5. \A p \in Pages : ~Covered(s, n, p) => e[p] = d[p] \/ e[p] = f[p]
  BY UndoPassFacts
<1>6. \A i \in 1 .. n : s[i].lsn = base + i - 1
  BY DEF Placed
<1>7. \A i \in 1 .. n : s[i].type = "update" => s[i].after # NoImage
  BY DEF RealRecords
<1>8. ASSUME NEW p \in Pages
      PROVE  f[p] # NoImage /\ (d[p].lsn < top => f[p].lsn < top)
  <2>1. PICK i \in 0 .. n : IsSource(d, s, n, p, i) /\ f[p] = ImageAt(d, s, p, i)
    BY <1>3 DEF Redone
  <2>2. CASE i = 0
    BY <2>1, <2>2 DEF ImageAt, RealPages
  <2>3. CASE i # 0
    <3>1. i \in 1 .. n /\ i > 0
      BY <1>1, <2>3
    <3>2. f[p] = s[i].after /\ s[i].type = "update"
      BY <2>1, <2>3, <3>1 DEF ImageAt, IsSource, IsUpdate
    <3>3. s[i].after.lsn < top
      BY <1>1, <1>2, <1>6, <3>1
    <3> QED BY <1>7, <3>1, <3>2, <3>3
  <2> QED BY <2>2, <2>3
<1>9. ASSUME NEW p \in Pages PROVE e[p] # NoImage
  <2>1. CASE Covered(s, n, p) /\ e[p] = undo_pass(f, s)[p]
    <3>1. PICK i \in undoable(s) : undo_pass(f, s)[p] = s[i].before
      BY <2>1, UndoPassFacts
    <3>2. i \in 1 .. n /\ s[i].hasUndo
      BY UndoFacts
    <3> QED BY <2>1, <3>1, <3>2 DEF RealRecords
  <2>2. CASE e[p] = d[p]
    BY <2>2 DEF RealPages
  <2>3. CASE e[p] = f[p]
    BY <1>8, <2>3
  <2> QED BY <1>5, <2>1, <2>2, <2>3
<1>10. ASSUME ~SomeLoser(s, n), NEW p \in Pages PROVE e[p].lsn < top
  <2>1. ~Covered(s, n, p)
    BY <1>10 DEF Covered, SomeLoser
  <2>2. d[p].lsn < top
    BY <1>10
  <2> HIDE DEF f, n
  <2> QED BY <1>5, <1>8, <2>1, <2>2
<1>11. ASSUME NEW p \in Pages, ~Covered(s, n, p) PROVE RedoneRows(e, s, n, p, c[p])
  <2> DEFINE image == f[p]
  <2>1. image \in Images /\ Redone(d, s, n, p, image) /\ (e[p] = d[p] \/ e[p] = image)
    BY <1>3, <1>4, <1>5, <1>11
  <2>2. RedoneRows(d, s, n, p, c[p])
    BY <1>11 DEF SoundTo
  <2> HIDE DEF image
  <2>3. Redone(e, s, n, p, image)
    BY <2>1, RedoneAgain
  <2> HIDE DEF n
  <2>4. image.rows = c[p]
    BY <1>1, <2>1, <2>2, RowsOfImage
  <2> QED BY <1>1, <2>3, <2>4, OneSource
<1> QED BY <1>9, <1>10, <1>11 DEF RealPages, SoundTo

\* The log with the compensation records behind it: recovery of the recovered
\* file gives the same rows again, and has nothing left to undo.
LEMMA CompensatedIsSound ==
    ASSUME NEW d \in [Pages -> Images], NEW s \in Seq(Records), NEW base \in Nat, NEW c,
           NEW e \in [Pages -> Images], e = Recovered(d, s),
           Placed(s, base), RecordsBounded(s, base), RealRecords(s), RealPages(d),
           SoundTo(d, s, Len(s), c), ImagesOf(s, Len(s), c), losers(s) # {},
           NEW t, t = s \o compensation(s, base + Len(s))
    PROVE  /\ t \in Seq(Records) /\ Placed(t, base) /\ RealRecords(t)
           /\ SoundTo(e, t, Len(t), c) /\ ImagesOf(t, Len(t), c)
<1> DEFINE n == Len(s)
           lsn == base + Len(s)
           w == compensation(s, lsn)
           m == Len(w)
           N == Len(t)
<1>1. n \in Nat /\ lsn \in Nat /\ lsn = base + n /\ \A i \in 1 .. n : s[i] \in Records
  BY LenProperties, ElementOfSeq
<1>a. t = s \o w
  OBVIOUS
<1> HIDE DEF lsn
<1>2. /\ w \in Seq(Records) /\ Placed(w, lsn)
      /\ \A k \in 1 .. m : /\ ~w[k].hasUndo /\ w[k].txn \in losers(s)
                           /\ w[k].type = "update" =>
                                 \E j \in undoable(s) : w[k].page = s[j].page /\ w[k].after = s[j].before
      /\ \A x \in losers(s) : \E k \in 1 .. m : IsEnding(w[k]) /\ w[k].txn = x
      /\ \A j \in undoable(s) : \E k \in 1 .. m :
            /\ IsUpdate(w[k], s[j].page) /\ w[k].after = s[j].before
            /\ \A h \in k + 1 .. m : w[h].type = "update" =>
                  \E i \in undoable(s) : i < j /\ w[h].page = s[i].page
  BY <1>1, CompensationIs
<1> HIDE DEF w
<1>3. /\ t \in Seq(Records) /\ m \in Nat /\ N = n + m
      /\ \A i \in 1 .. n + m : t[i] = IF i <= n THEN s[i] ELSE w[i - n]
  <2>1. w \in Seq(Records)
    BY <1>2
  <2>2. /\ s \o w \in Seq(Records) /\ Len(w) \in Nat /\ Len(s \o w) = Len(s) + Len(w)
        /\ \A i \in 1 .. Len(s) + Len(w) : (s \o w)[i] = IF i <= Len(s) THEN s[i] ELSE w[i - Len(s)]
    BY <2>1, Joined
  <2> QED BY <1>a, <2>2
<1> HIDE DEF m, N, n
<1>4. \A i \in 1 .. n : i \in 1 .. N /\ t[i] = s[i]
  <2>1. \A i \in 1 .. n : i \in 1 .. n + m /\ i <= n
    BY <1>1, <1>3
  <2> QED BY <1>3, <2>1
<1>5. \A k \in 1 .. m : n + k \in 1 .. N /\ t[n + k] = w[k]
  <2> TAKE k \in 1 .. m
  <2> DEFINE i == n + k
  <2>1. i \in 1 .. n + m /\ ~(i <= n) /\ i - n = k
    BY <1>1, <1>3
  <2> HIDE DEF i
  <2>2. t[i] = w[k]
    BY <1>3, <2>1
  <2> QED BY <1>3, <2>1, <2>2 DEF i
<1>6. \A i \in 1 .. N : i \in 1 .. n \/ \E k \in 1 .. m : i = n + k
  <2> TAKE i \in 1 .. N
  <2>1. CASE i <= n
    BY <1>1, <1>3, <2>1
  <2>2. CASE ~(i <= n)
    <3>1. i - n \in 1 .. m /\ i = n + (i - n)
      BY <1>1, <1>3, <2>2
    <3> QED BY <3>1
  <2> QED BY <2>1, <2>2
<1>7. \A i \in 1 .. n : s[i].lsn = base + i - 1 /\ s[i].type # "torn"
  BY DEF Placed, n
<1>8. \A k \in 1 .. m : w[k].lsn = base + n + k - 1 /\ w[k].type # "torn"
  <2>1. \A k \in 1 .. m : w[k].lsn = lsn + k - 1 /\ w[k].type # "torn"
    BY <1>2 DEF Placed, m
  <2> QED BY <1>1, <2>1
<1>9. Placed(t, base)
  <2>1. ASSUME NEW i \in 1 .. N PROVE t[i].type # "torn" /\ t[i].lsn = base + i - 1
    <3>1. CASE i \in 1 .. n
      BY <1>4, <1>7, <3>1
    <3>2. ASSUME NEW k \in 1 .. m, i = n + k PROVE t[i].type # "torn" /\ t[i].lsn = base + i - 1
      <4>1. t[i] = w[k]
        BY <1>5, <3>2
      <4>2. base + n + k - 1 = base + i - 1
        BY <1>1, <1>3, <3>2
      <4> QED BY <1>8, <4>1, <4>2
    <3> QED BY <1>6, <3>1, <3>2
  <2> QED BY <2>1 DEF Placed, N
<1>10. \A x : ~(\E i \in 1 .. N : t[i].txn = x /\ Unfinished(t, N, x))
  <2> SUFFICES ASSUME NEW x, NEW i \in 1 .. N, t[i].txn = x, Unfinished(t, N, x) PROVE FALSE
    OBVIOUS
  <2>1. Unfinished(s, n, x)
    BY <1>4 DEF Unfinished
  <2>2. x \in losers(s)
    <3>1. CASE i \in 1 .. n
      BY <1>4, <2>1, <3>1, UndoFacts DEF n
    <3>2. ASSUME NEW k \in 1 .. m, i = n + k PROVE x \in losers(s)
      <4>1. t[i] = w[k] /\ w[k].txn \in losers(s)
        BY <1>2, <1>5, <3>2 DEF m
      <4> QED BY <4>1
    <3> QED BY <1>6, <3>1, <3>2
  <2>3. PICK k \in 1 .. m : IsEnding(w[k]) /\ w[k].txn = x
    BY <1>2, <2>2 DEF m
  <2> QED BY <1>5, <2>3 DEF Unfinished
<1>11. ImagesOf(t, N, c)
  BY <1>10 DEF ImagesOf, N
<1>12. ASSUME NEW i \in 1 .. N
       PROVE  (t[i].hasUndo => t[i].before # NoImage) /\ (t[i].type = "update" => t[i].after # NoImage)
  <2>1. CASE i \in 1 .. n
    BY <1>4, <2>1 DEF RealRecords, n
  <2>2. ASSUME NEW k \in 1 .. m, i = n + k
        PROVE  (t[i].hasUndo => t[i].before # NoImage) /\ (t[i].type = "update" => t[i].after # NoImage)
    <3>1. t[i] = w[k] /\ ~w[k].hasUndo
      BY <1>2, <1>5, <2>2 DEF m
    <3>2. ASSUME w[k].type = "update" PROVE w[k].after # NoImage
      <4>1. PICK j \in undoable(s) : w[k].after = s[j].before
        BY <1>2, <3>2 DEF m
      <4>2. j \in 1 .. n /\ s[j].hasUndo
        BY UndoFacts DEF n
      <4> QED BY <4>1, <4>2 DEF RealRecords, n
    <3> QED BY <3>1, <3>2
  <2> QED BY <1>6, <2>1, <2>2
<1>13. RealRecords(t)
  BY <1>12 DEF RealRecords, N
<1>14. ASSUME NEW p \in Pages PROVE RedoneRows(e, t, N, p, c[p])
  <2>1. CASE Covered(s, n, p)
    <3>1. PICK j \in undoable(s) : /\ s[j].page = p /\ \A g : undo_pass(g, s)[p] = s[j].before
                                   /\ \A i \in undoable(s) : s[i].page = p => j <= i
      BY <2>1, UndoPassFacts DEF n
    <3>2. j \in 1 .. n /\ s[j].hasUndo /\ Unfinished(s, n, s[j].txn) /\ \A i \in undoable(s) : i \in 1 .. n
      BY UndoFacts DEF n
    <3>3. e[p] = s[j].before /\ s[j].before.rows = c[p]
      BY <3>1, <3>2 DEF Recovered, ImagesOf, n
    <3>4. PICK k \in 1 .. m : /\ IsUpdate(w[k], p) /\ w[k].after = s[j].before
                              /\ \A h \in k + 1 .. m : w[h].type = "update" =>
                                    \E i \in undoable(s) : i < j /\ w[h].page = s[i].page
      BY <1>2, <3>1 DEF m
    <3>5. e[p].lsn \in Int /\ e[p].lsn <= base + j - 1
      <4>1. s[j].before.lsn \in Int /\ s[j].before.lsn <= s[j].lsn
        BY <1>1, <3>2, RecordFields DEF RecordsBounded, n
      <4> QED BY <1>7, <3>2, <3>3, <4>1
    <3> DEFINE z == n + k
    <3>6. z \in 1 .. N /\ t[z] = w[k] /\ z > 0 /\ z # 0 /\ z \in 0 .. N
      <4>1. z \in 1 .. N /\ t[z] = w[k]
        BY <1>5
      <4>2. N \in Nat
        BY <1>1, <1>3
      <4> HIDE DEF z
      <4>3. z > 0 /\ z # 0 /\ z \in 0 .. N
        BY <4>1, <4>2
      <4> QED BY <4>1, <4>3
    <3>7. t[z].lsn > e[p].lsn
      <4>1. t[z].lsn = base + n + k - 1
        BY <1>8, <3>6
      <4> DEFINE a == t[z].lsn
                 b == e[p].lsn
      <4>2. a = base + n + k - 1 /\ b \in Int /\ b <= base + j - 1
        BY <3>5, <4>1
      <4> HIDE DEF a, b, z
      <4>3. a > b
        BY <1>1, <1>3, <3>2, <4>2
      <4> QED BY <4>3 DEF a, b
    <3>8. ASSUME NEW i \in z + 1 .. N PROVE ~IsUpdate(t[i], p)
      <4> DEFINE h == i - n
      <4>1. h \in k + 1 .. m /\ h \in 1 .. m /\ n + h = i
        BY <1>1, <1>3
      <4>2. t[n + h] = w[h]
        BY <1>5, <4>1
      <4> HIDE DEF h, z
      <4>3. ASSUME IsUpdate(w[h], p) PROVE FALSE
        <5>1. PICK g \in undoable(s) : g < j /\ w[h].page = s[g].page
          BY <3>4, <4>1, <4>3 DEF IsUpdate
        <5>2. j <= g
          BY <3>1, <4>3, <5>1 DEF IsUpdate
        <5> QED BY <1>1, <3>2, <5>1, <5>2
      <4> QED BY <4>1, <4>2, <4>3
    <3> HIDE DEF z
    <3>9. IsSource(e, t, N, p, z)
      BY <3>4, <3>6, <3>7, <3>8 DEF IsSource
    <3>10. ImageAt(e, t, p, z).rows = c[p]
      BY <3>3, <3>4, <3>6 DEF ImageAt
    <3> QED BY <3>6, <3>9, <3>10 DEF RedoneRows
  <2>2. CASE ~Covered(s, n, p)
    <3>1. \A q \in Pages : e[q] \in {d[q], redo(d, s)[q], undo_pass(redo(d, s), s)[q]}
      BY DEF Recovered
    <3>2. SomeLoser(s, n)
      BY UndoFacts DEF n
    <3> DEFINE top == base + n
    <3>3. top \in Int /\ base + Len(s) <= top
      BY <1>1 DEF n
    <3> HIDE DEF top
    <3>4. SoundTo(e, s, n, c)
      BY <3>1, <3>2, <3>3, MixedPages DEF n
    <3>5. PICK i \in 0 .. n : IsSource(e, s, n, p, i) /\ c[p] = ImageAt(e, s, p, i).rows
      BY <2>2, <3>4 DEF SoundTo, RedoneRows
    <3>6. i \in 0 .. N /\ (i > 0 => i \in 1 .. n) /\ (i # 0 => i > 0)
      BY <1>1, <1>3
    <3>7. ASSUME NEW k \in 1 .. m PROVE ~IsUpdate(w[k], p)
      <4> SUFFICES ASSUME IsUpdate(w[k], p) PROVE FALSE
        OBVIOUS
      <4>1. PICK j \in undoable(s) : w[k].page = s[j].page
        BY <1>2 DEF IsUpdate, m
      <4>2. /\ j \in 1 .. n /\ s[j].type = "update" /\ s[j].hasUndo
            /\ Unfinished(s, n, s[j].txn)
        BY UndoFacts DEF n
      <4> QED BY <2>2, <4>1, <4>2 DEF Covered, IsUpdate
    <3>8. ASSUME NEW j \in i + 1 .. N, IsUpdate(t[j], p) PROVE ~(t[j].lsn > e[p].lsn)
      <4>1. j \in 1 .. N
        BY <1>1, <1>3
      <4>2. j \in 1 .. n
        BY <1>5, <1>6, <3>7, <3>8, <4>1
      <4>3. j \in i + 1 .. n
        BY <1>1, <4>2
      <4> QED BY <1>4, <3>5, <3>8, <4>2, <4>3 DEF IsSource
    <3>9. IsSource(e, t, N, p, i)
      BY <1>4, <3>5, <3>6, <3>8 DEF IsSource
    <3>10. ImageAt(e, t, p, i) = ImageAt(e, s, p, i)
      BY <1>4, <3>6 DEF ImageAt
    <3> QED BY <3>5, <3>6, <3>9, <3>10 DEF RedoneRows
  <2> QED BY <2>1, <2>2
<1> QED BY <1>3, <1>9, <1>11, <1>13, <1>14 DEF SoundTo, N

\* open_recover.
LEMMA OpenRecoverIsSound ==
    ASSUME IInv, open_recover, crashes.repaired, RealPages(disk), DownIsSound
    PROVE  RealPages(disk') /\ DownIsSound' /\ phase' = "redone"
<1> DEFINE r == read_all(log, metaLsn)
           n == Len(r)
           w == compensation(r, flushed_lsn)
           f == redo(disk, r)
<1>1. /\ phase = "down" /\ r # <<>> /\ disk' = undo_pass(f, r) /\ disk' = Recovered(disk, r)
      /\ log' = IF losers(r) = {} THEN log ELSE log \o w
      /\ phase' = "redone" /\ metaLsn' = metaLsn /\ undo' = undo /\ running' = running /\ writes' = writes
  BY DEF open_recover, Recovered
<1>2. /\ r \in Seq(Records) /\ n \in 0 .. Len(log) /\ (\A k \in 1 .. n : r[k] = log[k])
      /\ Placed(r, metaLsn) /\ (n < Len(log) => ~IsWhole(log, metaLsn, n + 1))
  BY LogNumbers, ReadAllIs
<1>3. /\ running = {} /\ undo = [x \in Xids |-> NoUndo] /\ NothingPending
      /\ SoundTo(disk, r, n, Committed) /\ ImagesOf(r, n, Committed) /\ RealRecords(r)
      /\ SomeLoser(r, n) \/ \A p \in Pages : disk[p].lsn < metaLsn + Len(log)
  BY <1>1 DEF DownIsSound, FilesRecover
<1>4. Committed' = Committed /\ NothingPending'
  BY <1>1, <1>3, HistoryStays
<1>5. /\ disk \in [Pages -> Images] /\ PagesBounded(disk, flushed_lsn)
      /\ RecordsBounded(log, metaLsn)
  BY <1>1, DownFacts DEF Continuous
<1>6. RecordsBounded(r, metaLsn)
  BY <1>5, LogNumbers, ReadAllFacts
<1>7. /\ flushed_lsn = metaLsn + Len(log) /\ flushed_lsn \in Nat /\ metaLsn \in Nat
      /\ log \in Seq(Records) /\ Len(log) \in Nat
  BY LogNumbers DEF flushed_lsn
<1>8. n \in Nat /\ n > 0 /\ metaLsn + n <= flushed_lsn
  <2>1. n # 0
    BY <1>1, <1>2, EmptySeq
  <2> HIDE DEF n
  <2> QED BY <1>2, <1>7, <2>1
<1> HIDE DEF r
<1>9. f \in [Pages -> Images] /\ PagesBounded(f, flushed_lsn)
  BY <1>2, <1>5, <1>6, <1>7, <1>8, RecoveredFacts
<1>10. disk' \in [Pages -> Images] /\ PagesBounded(disk', flushed_lsn)
  <2>1. undo_pass(f, r) \in [Pages -> Images] /\ PagesBounded(undo_pass(f, r), flushed_lsn)
    <3> HIDE DEF f
    <3> QED BY <1>2, <1>6, <1>7, <1>8, <1>9, RecoveredFacts
  <2> QED BY <1>1, <2>1
<1>11. /\ RealPages(disk') /\ SoundTo(disk', r, n, Committed)
       /\ SomeLoser(r, n) \/ \A p \in Pages : disk'[p].lsn < flushed_lsn
  <2> DEFINE e == disk'
             c == Committed
             top == flushed_lsn
  <2>1. /\ e \in [Pages -> Images] /\ top \in Int /\ metaLsn + n <= top
        /\ \A p \in Pages : e[p] \in {disk[p], redo(disk, r)[p], undo_pass(redo(disk, r), r)[p]}
    BY <1>1, <1>7, <1>8, <1>10
  <2>2. SoundTo(disk, r, n, c) /\ (SomeLoser(r, n) \/ \A p \in Pages : disk[p].lsn < top)
    BY <1>3, <1>7
  <2> HIDE DEF e, c, top
  <2>3. /\ RealPages(e) /\ SoundTo(e, r, n, c)
        /\ SomeLoser(r, n) \/ \A p \in Pages : e[p].lsn < top
    BY <1>2, <1>3, <1>5, <1>6, <1>7, <2>1, <2>2, MixedPages
  <2> QED BY <2>3 DEF e, c, top
<1>12. \A p \in Pages : disk'[p].rows = Committed[p]
  BY <1>1, <1>2, <1>3, RecoveryIsSound
<1>13. FileTop' = metaLsn + Len(log')
  BY <1>1 DEF FileTop, flushed_lsn
<1> DEFINE s == read_all(log', metaLsn)
<1>14. /\ SoundTo(disk', s, Len(s), Committed) /\ ImagesOf(s, Len(s), Committed)
       /\ RealRecords(s) /\ Len(s) > 0
       /\ \A p \in Pages : disk'[p].lsn < metaLsn + Len(log')
  <2>1. CASE losers(r) = {}
    <3>1. log' = log /\ s = r
      BY <1>1, <2>1 DEF r
    <3>2. ~SomeLoser(r, n)
      BY <1>2, <2>1, UndoFacts
    <3> QED BY <1>3, <1>7, <1>8, <1>11, <3>1, <3>2
  <2>2. CASE losers(r) # {}
    <3>1. /\ w \in Seq(Records) /\ Placed(w, flushed_lsn)
          /\ \A x \in losers(r) : \E k \in 1 .. Len(w) : IsEnding(w[k]) /\ w[k].txn = x
      BY <1>2, <1>7, CompensationIs
    <3>2. log' = log \o w
      BY <1>1, <2>2
    <3> HIDE DEF w
    <3>3. /\ log \o w \in Seq(Records) /\ Len(w) \in Nat /\ Len(log \o w) = Len(log) + Len(w)
          /\ \A i \in 1 .. Len(log) + Len(w) : (log \o w)[i] = IF i <= Len(log) THEN log[i] ELSE w[i - Len(log)]
      BY <1>7, <3>1, Joined
    <3>4. Len(w) > 0
      <4>1. PICK x \in losers(r) : TRUE
        BY <2>2
      <4>2. PICK k \in 1 .. Len(w) : TRUE
        BY <3>1
      <4> QED BY <3>3, <4>2
    <3>5. /\ log' \in Seq(Records) /\ Len(log') = Len(log) + Len(w)
          /\ \A i \in 1 .. Len(log) : log'[i] = log[i]
      <4>1. \A i \in 1 .. Len(log) : i \in 1 .. Len(log) + Len(w) /\ i <= Len(log)
        BY <1>7, <3>3
      <4> QED BY <3>2, <3>3, <4>1
    <3>6. \A p \in Pages : disk'[p].lsn < metaLsn + Len(log')
      <4> DEFINE top == metaLsn + Len(log')
      <4>1. top \in Int /\ flushed_lsn < top
        BY <1>7, <3>3, <3>4, <3>5
      <4> HIDE DEF top
      <4>2. ASSUME NEW p \in Pages PROVE disk'[p].lsn < top
        <5>1. disk'[p].lsn \in Int /\ disk'[p].lsn <= flushed_lsn
          BY <1>10 DEF PagesBounded, Images
        <5> QED BY <1>7, <4>1, <5>1
      <4> QED BY <4>2 DEF top
    <3>7. CASE n < Len(log)
      <4> DEFINE l == log'
                 k == n + 1
      <4>1. k \in 1 .. Len(log) /\ n <= Len(l) /\ \A i \in 1 .. n : i \in 1 .. Len(log)
        BY <1>7, <1>8, <3>3, <3>5, <3>7
      <4>2. ~IsWhole(l, metaLsn, k)
        BY <1>2, <3>5, <3>7, <4>1 DEF IsWhole
      <4>3. l \in Seq(Records) /\ \A i \in 1 .. n : r[i] = l[i]
        BY <1>2, <3>5, <4>1
      <4> HIDE DEF l
      <4>4. read_all(l, metaLsn) = r
        BY <1>2, <1>7, <4>1, <4>2, <4>3, ReadAllStops
      <4>5. s = r
        BY <4>4 DEF l
      <4> QED BY <1>3, <1>8, <1>11, <3>6, <4>5
    <3>8. CASE n = Len(log)
      <4>1. r = log
        BY <1>2, <1>7, <3>8, SeqEqual
      <4>2. flushed_lsn = metaLsn + Len(r)
        BY <1>7, <3>8
      <4> DEFINE e == disk'
                 c == Committed
                 t == log'
      <4>3. /\ e \in [Pages -> Images] /\ e = Recovered(disk, r)
            /\ SoundTo(disk, r, Len(r), c) /\ ImagesOf(r, Len(r), c)
            /\ t = r \o compensation(r, metaLsn + Len(r))
        BY <1>1, <1>3, <1>10, <3>2, <4>1, <4>2 DEF w
      <4> HIDE DEF e, c, t
      <4>4. /\ t \in Seq(Records) /\ Placed(t, metaLsn) /\ RealRecords(t)
            /\ SoundTo(e, t, Len(t), c) /\ ImagesOf(t, Len(t), c)
        BY <1>2, <1>3, <1>5, <1>6, <1>7, <2>2, <4>3, CompensatedIsSound
      <4>5. s = t
        BY <1>7, <4>4, WholeIsRead DEF t
      <4>6. Len(t) > 0
        BY <1>7, <3>3, <3>4, <3>5 DEF t
      <4> QED BY <3>6, <4>4, <4>5, <4>6 DEF e, c
    <3>9. n < Len(log) \/ n = Len(log)
      BY <1>2, <1>7
    <3> QED BY <3>7, <3>8, <3>9
  <2> QED BY <2>1, <2>2
<1> DEFINE top == metaLsn + Len(log')
<1>15. FilesRecover(disk', log', metaLsn', Committed')
  <2>1. read_all(log', metaLsn') = s /\ Committed' = Committed /\ metaLsn' = metaLsn
    BY <1>1, <1>4
  <2> HIDE DEF s
  <2>2. Len(s) # 0
    <3> DEFINE k == Len(s)
    <3>1. k > 0
      BY <1>14
    <3> HIDE DEF k
    <3> QED BY <3>1 DEF k
  <2> QED BY <1>14, <2>1, <2>2 DEF FilesRecover
<1>16. Len(read_all(log', metaLsn')) > 0
  BY <1>1, <1>14
<1>17. /\ running' = {} /\ undo' = [x \in Xids |-> NoUndo]
       /\ \A p \in Pages : disk'[p].rows = Committed'[p] /\ disk'[p].lsn < FileTop'
  BY <1>1, <1>3, <1>4, <1>12, <1>13, <1>14
<1> QED BY <1>1, <1>4, <1>11, <1>15, <1>16, <1>17 DEF DownIsSound

---------------------------------------------------------------------------
(* Crashes.                                                                *)

\* A crash decides about the writes that were pending: they are committed if
\* the log it leaves has the COMMIT record of their transaction.
LEMMA DiesHistory ==
    ASSUME IInv, NEW point, NEW d, NEW l, Dies(point, d, l), read_all(l, metaLsn) \in Seq(Records)
    PROVE  /\ NothingPending' /\ DOMAIN writes' = DOMAIN writes
           /\ (\A n \in DOMAIN writes : writes[n].fate = "pending" =>
                  \A i \in 1 .. Len(read_all(l, metaLsn)) :
                     read_all(l, metaLsn)[i].type = "commit" => read_all(l, metaLsn)[i].txn # writes[n].txn)
              => Committed' = Committed
           /\ (\A n \in DOMAIN writes : writes[n].fate = "pending" =>
                  \E i \in 1 .. Len(read_all(l, metaLsn)) :
                     read_all(l, metaLsn)[i].type = "commit" /\ read_all(l, metaLsn)[i].txn = writes[n].txn)
              => \A p \in Pages : Committed'[p] = Committed[p] \union Unsettled(p)
<1> DEFINE r == read_all(l, metaLsn)
           done == {r[i].txn : i \in {j \in DOMAIN r : r[j].type = "commit"}}
           fate(n) == IF writes[n].txn \in done THEN "committed" ELSE "aborted"
<1>1. writes' = [n \in DOMAIN writes |->
                   IF writes[n].fate = "pending" THEN [writes[n] EXCEPT !.fate = fate(n)]
                                                 ELSE writes[n]]
  BY DEF Dies
<1>2. DOMAIN r = 1 .. Len(r)
  BY LenProperties
<1> HIDE DEF r
<1>3. \A x : x \in done <=> \E i \in 1 .. Len(r) : r[i].type = "commit" /\ r[i].txn = x
  BY <1>2
<1>4. \A n \in DOMAIN writes : writes[n] \in History
  BY OpenTyped
<1> HIDE DEF done
<1>5. DOMAIN writes' = DOMAIN writes
  BY <1>1
<1>6. ASSUME NEW n \in DOMAIN writes, writes[n].fate = "pending"
      PROVE  /\ writes'[n].page = writes[n].page
             /\ writes'[n].fate = IF writes[n].txn \in done THEN "committed" ELSE "aborted"
  BY <1>1, <1>4, <1>6 DEF History
<1>7. ASSUME NEW n \in DOMAIN writes, writes[n].fate # "pending" PROVE writes'[n] = writes[n]
  BY <1>1, <1>7
<1>8. NothingPending'
  BY <1>5, <1>6, <1>7 DEF NothingPending
<1>9. ASSUME \A n \in DOMAIN writes : writes[n].fate = "pending" => writes[n].txn \notin done
      PROVE  Committed' = Committed
  <2>1. ASSUME NEW p \in Pages
        PROVE  {n \in DOMAIN writes' : writes'[n].page = p /\ writes'[n].fate = "committed"}
                  = {n \in DOMAIN writes : writes[n].page = p /\ writes[n].fate = "committed"}
    BY <1>5, <1>6, <1>7, <1>9
  <2> QED BY <2>1 DEF Committed
<1>10. ASSUME \A n \in DOMAIN writes : writes[n].fate = "pending" => writes[n].txn \in done, NEW p \in Pages
       PROVE  Committed'[p] = Committed[p] \union Unsettled(p)
  <2>1. {n \in DOMAIN writes' : writes'[n].page = p /\ writes'[n].fate = "committed"}
           = {n \in DOMAIN writes : writes[n].page = p /\ writes[n].fate = "committed"}
                \union {n \in DOMAIN writes : writes[n].page = p /\ writes[n].fate = "pending"}
    BY <1>5, <1>6, <1>7, <1>10
  <2> QED BY <2>1 DEF Committed, Unsettled
<1> QED BY <1>3, <1>5, <1>8, <1>9, <1>10 DEF r

\* What a crash leaves, when recovery can make the committed work of the files.
LEMMA DiesDown ==
    ASSUME IInv, NEW point, NEW d, NEW l, Dies(point, d, l), NothingPending',
           RealPages(d), FilesRecover(d, l, metaLsn, Committed')
    PROVE  RealPages(disk') /\ DownIsSound' /\ phase' = "down"
<1>1. /\ disk' = d /\ log' = l /\ metaLsn' = metaLsn /\ phase' = "down" /\ running' = {}
      /\ undo' = [x \in Xids |-> NoUndo]
  BY DEF Dies, Forgotten
<1> QED BY <1>1 DEF DownIsSound

\* A crash of an open database that leaves a log of the first records: its
\* transaction is lost.
LEMMA DiesInLog ==
    ASSUME IInv, OpenIsSound, NEW point, NEW d, NEW l, NEW r \in Seq(Records),
           read_all(l, metaLsn) = r, Dies(point, d, l), RealPages(d),
           Len(log) <= Len(r), Len(r) <= Len(AllRecords), \A i \in 1 .. Len(r) : r[i] = AllRecords[i],
           SoundTo(d, AllRecords, Len(r), Committed), Len(r) = 0 => l = <<>>,
           SomeLoser(AllRecords, Len(r)) \/ \A p \in Pages : d[p].lsn < metaLsn + Len(l)
    PROVE  RealPages(disk') /\ DownIsSound' /\ phase' = "down" /\ Committed' = Committed
<1> DEFINE s == AllRecords
           n == Len(r)
<1>1. LogKnowsTransactions /\ OneTransaction /\ RealRecords(s) /\ ImagesOf(s, Len(log), Committed)
  BY DEF OpenIsSound
<1>2. n \in Nat /\ Len(log) \in Nat /\ \A i \in 1 .. n : i \in 1 .. Len(s)
  BY AllFacts, LenProperties
<1>3. \A i \in 1 .. n : r[i].type = "commit" => r[i].txn \notin running
  BY <1>1, <1>2 DEF LogKnowsTransactions, IsEnding
<1>4. \A k \in DOMAIN writes : writes[k].fate = "pending" => writes[k].txn \in running
  BY <1>1 DEF OneTransaction
<1>5. NothingPending' /\ Committed' = Committed
  <2>1. \A k \in DOMAIN writes : writes[k].fate = "pending" =>
           \A i \in 1 .. n : r[i].type = "commit" => r[i].txn # writes[k].txn
    BY <1>3, <1>4
  <2> QED BY <2>1, DiesHistory
<1>6. ImagesOf(s, n, Committed)
  BY <1>1, <1>2, ImagesStay
<1>7. /\ \A x : Unfinished(r, n, x) <=> Unfinished(s, n, x)
      /\ SomeLoser(r, n) <=> SomeLoser(s, n)
      /\ SoundTo(d, r, n, Committed) <=> SoundTo(d, s, n, Committed)
  BY <1>2, SameStart
<1>8. ImagesOf(r, n, Committed)
  <2> HIDE DEF s
  <2> QED BY <1>2, <1>6, <1>7 DEF ImagesOf, s
<1>9. RealRecords(r)
  BY <1>1, <1>2 DEF RealRecords
<1>10. FilesRecover(d, l, metaLsn, Committed)
  BY <1>7, <1>8, <1>9 DEF FilesRecover
<1> QED BY <1>5, <1>10, DiesDown

\* The log of an open database is read as it is.
LEMMA OpenLogIsRead ==
    ASSUME IInv, OpenIsSound
    PROVE  /\ read_all(log, metaLsn) = log /\ read_all(AllRecords, metaLsn) = AllRecords
           /\ Placed(AllRecords, metaLsn) /\ \A i \in 1 .. Len(log) : log[i] = AllRecords[i]
<1>1. Placed(AllRecords, metaLsn)
  BY DEF OpenIsSound, LogIsWhole, Placed
<1>2. \A i \in 1 .. Len(log) : i \in 1 .. Len(AllRecords) /\ i <= Len(log)
  BY AllFacts
<1>3. \A i \in 1 .. Len(log) : log[i] = AllRecords[i]
  BY <1>2, AllFacts
<1>4. Placed(log, metaLsn)
  BY <1>1, <1>2, <1>3 DEF Placed
<1> QED BY <1>1, <1>3, <1>4, WholeIsRead, AllFacts, LogNumbers

\* A crash that loses memory, and no more.
LEMMA DiesBetweenIsSound ==
    ASSUME IInv, OpenIsSound, NoSteal, RealPages(disk), NEW point, Dies(point, disk, log)
    PROVE  RealPages(disk') /\ DownIsSound' /\ phase' = "down" /\ Committed' = Committed
<1>1. CrashIsHarmless
  BY DEF OpenIsSound
<1>2. Len(log) <= Len(log) /\ Len(log) <= Len(AllRecords) /\ Len(log) \in Len(log) .. Len(AllRecords)
  BY AllFacts
<1>3. SoundTo(disk, AllRecords, Len(log), Committed) /\ \A p \in Pages : disk[p].lsn < metaLsn + Len(log)
  BY <1>1, <1>2 DEF CrashIsHarmless, flushed_lsn
<1>4. log \in Seq(Records) /\ (Len(log) = 0 => log = <<>>)
  BY LogNumbers, EmptySeq
<1> QED BY <1>2, <1>3, <1>4, OpenLogIsRead, DiesInLog

\* A start of the staged records behind the log is a start of all records.
LEMMA StartArrives ==
    ASSUME IInv, NEW t \in Seq(Records), Len(t) <= Len(buffer), \A i \in 1 .. Len(t) : t[i] = buffer[i]
    PROVE  /\ log \o t \in Seq(Records) /\ Len(log \o t) = Len(log) + Len(t)
           /\ Len(log) <= Len(log \o t) /\ Len(log \o t) <= Len(AllRecords)
           /\ \A i \in 1 .. Len(log \o t) : (log \o t)[i] = AllRecords[i]
<1> DEFINE a == Len(log)
           b == Len(t)
           l == log \o t
<1>1. /\ l \in Seq(Records) /\ a \in Nat /\ b \in Nat /\ Len(l) = a + b
      /\ \A i \in 1 .. a + b : l[i] = IF i <= a THEN log[i] ELSE t[i - a]
  BY LogNumbers, Joined
<1>2. /\ Len(buffer) \in Nat /\ Len(AllRecords) = a + Len(buffer)
      /\ \A i \in 1 .. Len(AllRecords) : AllRecords[i] = IF i <= a THEN log[i] ELSE buffer[i - a]
  BY AllFacts
<1>3. b <= Len(buffer)
  OBVIOUS
<1> HIDE DEF a, b, l
<1>4. a <= Len(l) /\ Len(l) <= Len(AllRecords)
  BY <1>1, <1>2, <1>3
<1>5. ASSUME NEW i \in 1 .. a + b PROVE l[i] = AllRecords[i]
  <2>1. i \in 1 .. Len(AllRecords) /\ (~(i <= a) => i - a \in 1 .. b)
    BY <1>1, <1>2, <1>3
  <2> QED BY <1>1, <1>2, <2>1 DEF b
<1> QED BY <1>1, <1>4, <1>5 DEF a, b, l

\* A crash in a flush, when the COMMIT record has not arrived.
LEMMA DiesInFlush ==
    ASSUME IInv, OpenIsSound, NoSteal, RealPages(disk),
           NEW t \in Seq(Records), Len(t) <= Len(buffer), \A i \in 1 .. Len(t) : t[i] = buffer[i],
           NEW point, NEW l \in Seq(Records), Dies(point, disk, l), Len(log \o t) <= Len(l),
           read_all(l, metaLsn) = log \o t, log \o t = <<>> => l = <<>>
    PROVE  RealPages(disk') /\ DownIsSound' /\ phase' = "down" /\ Committed' = Committed
<1> DEFINE r == log \o t
           n == Len(r)
<1>1. /\ r \in Seq(Records) /\ Len(log) <= n /\ n <= Len(AllRecords)
      /\ \A i \in 1 .. n : r[i] = AllRecords[i]
  BY StartArrives
<1>2. read_all(l, metaLsn) = r /\ (r = <<>> => l = <<>>) /\ n <= Len(l)
  OBVIOUS
<1> HIDE DEF r
<1>3. n \in Nat /\ Len(l) \in Nat /\ (n = 0 => r = <<>>)
  BY <1>1, LenProperties, EmptySeq
<1>4. CrashIsHarmless
  BY DEF OpenIsSound
<1>5. SoundTo(disk, AllRecords, n, Committed)
  <2>1. n \in Len(log) .. Len(AllRecords)
    BY <1>1, <1>3, AllFacts
  <2> QED BY <1>4, <2>1 DEF CrashIsHarmless
<1>6. ASSUME NEW p \in Pages PROVE disk[p].lsn < metaLsn + Len(l)
  <2> DEFINE k == Len(l)
  <2>1. disk[p].lsn < flushed_lsn /\ disk[p] \in Images
    BY <1>4, OpenTyped DEF CrashIsHarmless
  <2>2. disk[p].lsn \in Int
    BY <2>1 DEF Images
  <2>3. k \in Nat /\ Len(log) <= k
    BY <1>1, <1>2, <1>3, AllFacts
  <2> HIDE DEF k
  <2>4. disk[p].lsn < metaLsn + k
    BY <2>1, <2>2, <2>3, LogNumbers
  <2> QED BY <2>4 DEF k
<1>7. n = 0 => l = <<>>
  BY <1>2, <1>3
<1> QED BY <1>1, <1>2, <1>5, <1>6, <1>7, DiesInLog

\* The log with the COMMIT record at its end.
LEMMA EndedLog ==
    ASSUME IInv, OpenIsSound, NEW x \in running, NEW type \in {"commit", "abort"}, NEW t,
           Finishing(AllRecords, t, type, x, metaLsn)
    PROVE  /\ Placed(t, metaLsn) /\ RealRecords(t)
           /\ \A i \in 1 .. Len(t) : ~Unfinished(t, Len(t), t[i].txn)
<1> DEFINE s == AllRecords
           n == Len(AllRecords)
           r == t[n + 1]
<1>1. LogIsWhole /\ RealRecords(s) /\ LogKnowsTransactions /\ OneTransaction
  BY DEF OpenIsSound
<1>2. n \in Nat /\ metaLsn \in Nat
  BY AllFacts, LogNumbers
<1>3. \A i \in 1 .. n + 1 : i \in 1 .. n \/ i = n + 1
  BY <1>2
<1>4. /\ r.txn = x /\ ~r.hasUndo /\ r.lsn = metaLsn + n
      /\ r.type # "torn" /\ r.type # "update" /\ IsEnding(r)
  BY DEF IsEnding, Finishing
<1>5. Len(t) = n + 1 /\ \A i \in 1 .. n : t[i] = s[i]
  BY DEF Finishing
<1>6. \A y : Unfinished(t, n + 1, y) <=> Unfinished(s, n, y) /\ y # x
  <2> HIDE DEF s, n
  <2>1. \A y : Unfinished(t, n + 1, y) <=> Unfinished(s, n, y) /\ y # t[n + 1].txn
    BY <1>2, <1>4, <1>5, EndingAdded
  <2> QED BY <1>4, <2>1
<1> HIDE DEF s, n, r
<1>7. Placed(t, metaLsn)
  <2>1. metaLsn + n = metaLsn + (n + 1) - 1
    BY <1>2
  <2>2. ASSUME NEW i \in 1 .. n + 1 PROVE t[i].type # "torn" /\ t[i].lsn = metaLsn + i - 1
    <3>1. CASE i \in 1 .. n
      BY <1>1, <1>5, <3>1 DEF LogIsWhole, s, n
    <3>2. CASE i = n + 1
      BY <1>4, <2>1, <3>2 DEF r
    <3> QED BY <1>3, <3>1, <3>2
  <2> QED BY <1>5, <2>2 DEF Placed
<1>8. RealRecords(t)
  BY <1>1, <1>3, <1>4, <1>5 DEF RealRecords, r, n, s
<1>9. ASSUME NEW i \in 1 .. n + 1 PROVE ~Unfinished(t, n + 1, t[i].txn)
  <2>1. CASE i \in 1 .. n
    <3>1. s[i].txn = NO_TRANSACTION \/ s[i].txn \in running \/ ~Unfinished(s, n, s[i].txn)
      BY <1>1, <2>1 DEF LogKnowsTransactions, s, n
    <3>2. s[i].txn \in running => s[i].txn = x
      BY <1>1 DEF OneTransaction
    <3>3. s[i].txn = NO_TRANSACTION => ~Unfinished(s, n, s[i].txn)
      BY DEF Unfinished
    <3> QED BY <1>5, <1>6, <2>1, <3>1, <3>2, <3>3
  <2>2. CASE i = n + 1
    BY <1>4, <1>6, <2>2 DEF r
  <2> QED BY <1>3, <2>1, <2>2
<1> QED BY <1>5, <1>7, <1>8, <1>9

\* A crash in the flush of a commit, after its COMMIT record has arrived.
LEMMA DiesCommitted ==
    ASSUME IInv, OpenIsSound, NoSteal, RealPages(disk), phase = "open", NEW x \in running, NEW point,
           NEW l, Finishing(AllRecords, l, "commit", x, metaLsn), Dies(point, disk, l)
    PROVE  /\ RealPages(disk') /\ DownIsSound' /\ phase' = "down"
           /\ \A p \in Pages : Committed'[p] = Current(p).rows
<1> DEFINE s == AllRecords
           n == Len(AllRecords)
           k == n + 1
<1>1. "commit" \in {"commit", "abort"}
  OBVIOUS
<1>2. Finishing(AllRecords, l, "commit", x, metaLsn)
  OBVIOUS
<1>3. /\ l \in Seq(Records) /\ Len(l) = k /\ (\A i \in 1 .. n : l[i] = s[i])
      /\ IsEnding(l[k]) /\ l[k].type = "commit" /\ l[k].txn = x
  BY <1>2 DEF Finishing, IsEnding
<1>4. /\ Placed(l, metaLsn) /\ RealRecords(l)
      /\ \A i \in 1 .. Len(l) : ~Unfinished(l, Len(l), l[i].txn)
  BY <1>1, <1>2, EndedLog
<1>5. read_all(l, metaLsn) = l
  BY <1>3, <1>4, LogNumbers, WholeIsRead
<1>6. OneTransaction /\ PagesAreRight /\ CrashIsHarmless
  BY DEF OpenIsSound
<1>7. n \in Nat /\ k \in Nat /\ k \in 1 .. k /\ k # 0 /\ n = Len(log) + Len(buffer)
  BY AllFacts
<1>8. NothingPending' /\ \A p \in Pages : Committed'[p] = Committed[p] \union Unsettled(p)
  <2>1. \A i \in DOMAIN writes : writes[i].fate = "pending" => writes[i].txn = x
    BY <1>6 DEF OneTransaction
  <2>2. \A i \in DOMAIN writes : writes[i].fate = "pending" =>
           \E j \in 1 .. Len(l) : l[j].type = "commit" /\ l[j].txn = writes[i].txn
    <3> HIDE DEF k
    <3> QED BY <1>3, <1>7, <2>1
  <2> DEFINE r == read_all(l, metaLsn)
  <2>3. r = l /\ r \in Seq(Records)
    BY <1>3, <1>5
  <2>4. \A i \in DOMAIN writes : writes[i].fate = "pending" =>
           \E j \in 1 .. Len(r) : r[j].type = "commit" /\ r[j].txn = writes[i].txn
    BY <2>2, <2>3
  <2> QED BY <2>3, <2>4, DiesHistory
<1>9. \A p \in Pages : Committed'[p] = Current(p).rows
  BY <1>6, <1>8 DEF PagesAreRight
<1>10. ASSUME NEW p \in Pages PROVE RedoneRows(disk, l, k, p, Committed'[p])
  <2>1. Redone(disk, s, n, p, Current(p))
    BY <1>6 DEF CrashIsHarmless
  <2> HIDE DEF s, n
  <2>2. Redone(disk, l, k, p, Current(p))
    BY <1>3, <1>7, <2>1, EndingAdded
  <2> HIDE DEF k
  <2> DEFINE a == Current(p)
             rows == Committed'[p]
  <2>3. a.rows = rows /\ Redone(disk, l, k, p, a) /\ k \in Nat
    BY <1>7, <1>9, <2>2
  <2> HIDE DEF a, rows
  <2>4. RedoneRows(disk, l, k, p, rows)
    BY <2>3, OneSource
  <2> QED BY <2>4 DEF rows
<1>11. SoundTo(disk, l, Len(l), Committed') /\ ImagesOf(l, Len(l), Committed')
  <2> HIDE DEF k
  <2> QED BY <1>3, <1>4, <1>10 DEF SoundTo, ImagesOf
<1>12. ASSUME NEW p \in Pages PROVE disk[p].lsn < metaLsn + Len(l)
  <2>1. disk[p].lsn < flushed_lsn /\ disk[p] \in Images
    BY <1>6, OpenTyped DEF CrashIsHarmless
  <2>2. disk[p].lsn \in Int
    BY <2>1 DEF Images
  <2>3. disk[p].lsn < metaLsn + k
    <3> HIDE DEF n
    <3> QED BY <1>7, <2>1, <2>2, LogNumbers
  <2> QED BY <1>3, <2>3
<1>13. FilesRecover(disk, l, metaLsn, Committed')
  BY <1>3, <1>4, <1>5, <1>7, <1>11, <1>12 DEF FilesRecover
<1> QED BY <1>8, <1>9, <1>13, DiesDown

\* What a flush may be writing starts with the staged records.
LEMMA PendingStarts ==
    ASSUME IInv, NEW pending \in Pending
    PROVE  /\ pending \in Seq(Records) /\ Len(pending) \in Nat /\ Len(buffer) \in Nat
           /\ \A i \in 1 .. Len(buffer) : pending[i] = buffer[i]
           /\ \/ Len(pending) = Len(buffer)
              \/ \E x \in running : /\ pending = Append(buffer, Ending("commit", x, next_lsn))
                                    /\ Len(pending) = Len(buffer) + 1
<1>1. pending \in Seq(Records) /\ Len(pending) \in Nat
  BY PendingFacts
<1>2. buffer \in Seq(Records) /\ Len(buffer) \in Nat
  BY LogNumbers
<1>3. CASE pending = buffer
  BY <1>1, <1>2, <1>3
<1>4. ASSUME NEW x \in running, pending = Append(buffer, Ending("commit", x, next_lsn))
      PROVE  Len(pending) = Len(buffer) + 1 /\ \A i \in 1 .. Len(buffer) : pending[i] = buffer[i]
  <2> DEFINE e == Ending("commit", x, next_lsn)
  <2>1. x \in 0 .. MaxXid /\ next_lsn \in Nat
    BY XidFacts, LogNumbers DEF IInv, TypeOK
  <2>2. e \in Records
    BY <2>1, EndingTyped
  <2> HIDE DEF e
  <2>3. pending = Append(buffer, e)
    BY <1>4 DEF e
  <2>4. /\ Len(pending) = Len(buffer) + 1
        /\ \A i \in 1 .. Len(buffer) + 1 : pending[i] = IF i <= Len(buffer) THEN buffer[i] ELSE e
    BY <1>2, <2>2, <2>3, AppendFacts
  <2>5. \A i \in 1 .. Len(buffer) : i \in 1 .. Len(buffer) + 1 /\ i <= Len(buffer)
    BY <1>2
  <2> QED BY <2>4, <2>5
<1> QED BY <1>1, <1>2, <1>3, <1>4 DEF Pending

\* CrashInFlush.
LEMMA CrashInFlushIsSound ==
    ASSUME IInv, CrashInFlush, OpenIsSound, NoSteal, RealPages(disk)
    PROVE  /\ RealPages(disk') /\ DownIsSound' /\ phase' = "down"
           /\ Committed' = Committed \/ \A p \in Pages : Committed'[p] = Current(p).rows
<1>1. phase = "open"
  BY DEF CrashInFlush
<1>2. PICK pending \in Pending : \E n \in 0 .. Len(pending) :
         Dies("flush", disk, log \o SubSeq(pending, 1, n))
  BY DEF CrashInFlush
<1>3. PICK n \in 0 .. Len(pending) : Dies("flush", disk, log \o SubSeq(pending, 1, n))
  BY <1>2
<1>4. /\ pending \in Seq(Records) /\ Len(pending) \in Nat /\ Len(buffer) \in Nat
      /\ \A i \in 1 .. Len(buffer) : pending[i] = buffer[i]
      /\ \/ Len(pending) = Len(buffer)
         \/ \E x \in running : /\ pending = Append(buffer, Ending("commit", x, next_lsn))
                               /\ Len(pending) = Len(buffer) + 1
  BY PendingStarts
<1> DEFINE t == SubSeq(pending, 1, n)
<1>5. t \in Seq(Records) /\ Len(t) = n /\ \A i \in 1 .. n : t[i] = pending[i]
  BY <1>4, PrefixFacts
<1>6. Dies("flush", disk, log \o t)
  BY <1>3
<1> HIDE DEF t
<1>7. CASE n <= Len(buffer)
  <2> DEFINE l == log \o t
  <2>1. Len(t) <= Len(buffer) /\ \A i \in 1 .. Len(t) : t[i] = buffer[i]
    BY <1>4, <1>5, <1>7
  <2>2. /\ l \in Seq(Records) /\ Len(l) <= Len(AllRecords)
        /\ \A i \in 1 .. Len(l) : l[i] = AllRecords[i]
    BY <1>5, <2>1, StartArrives
  <2>3. Dies("flush", disk, l) /\ l = log \o t
    BY <1>6
  <2> HIDE DEF l
  <2>4. Len(l) \in Nat /\ \A i \in 1 .. Len(l) : i \in 1 .. Len(AllRecords)
    BY <2>2, LenProperties, AllFacts
  <2>5. Placed(l, metaLsn)
    BY <2>2, <2>4, OpenLogIsRead DEF Placed
  <2>6. read_all(l, metaLsn) = l /\ Len(l) <= Len(l)
    BY <2>2, <2>4, <2>5, LogNumbers, WholeIsRead
  <2> QED BY <1>5, <2>1, <2>2, <2>3, <2>6, DiesInFlush
<1>8. CASE ~(n <= Len(buffer))
  <2>1. PICK x \in running : /\ pending = Append(buffer, Ending("commit", x, next_lsn))
                             /\ Len(pending) = Len(buffer) + 1
    BY <1>4, <1>8
  <2>2. Len(t) = Len(pending) /\ n = Len(pending)
    BY <1>4, <1>5, <1>8, <2>1
  <2>3. t = pending
    BY <1>4, <1>5, <2>2, SeqEqual
  <2> DEFINE l == log \o t
  <2>4. l = log \o Append(buffer, Ending("commit", x, next_lsn))
    BY <2>1, <2>3
  <2>5. "commit" \in {"commit", "abort"} /\ x \in 0 .. MaxXid
    BY XidFacts, OpenTyped
  <2>6. Finishing(AllRecords, l, "commit", x, metaLsn)
    BY <2>4, <2>5, EndingIsStaged
  <2>7. Dies("flush", disk, l)
    BY <1>6
  <2> HIDE DEF l
  <2> QED BY <1>1, <2>6, <2>7, DiesCommitted
<1> QED BY <1>7, <1>8

\* CrashTearsRecord, when something before the torn record can be read.
LEMMA CrashTearsIsSound ==
    ASSUME IInv, CrashTearsRecord, crashes'.repaired, OpenIsSound, NoSteal, RealPages(disk)
    PROVE  RealPages(disk') /\ DownIsSound' /\ phase' = "down" /\ Committed' = Committed
<1> DEFINE Point(l) == IF read_all(l, metaLsn) = <<>> THEN "torn head" ELSE "torn tail"
<1>1. PICK pending \in Pending : \E n \in 0 .. Len(pending) - 1 :
         Dies(Point(log \o Append(SubSeq(pending, 1, n), Torn)), disk,
              log \o Append(SubSeq(pending, 1, n), Torn))
  BY DEF CrashTearsRecord
<1>2. PICK n \in 0 .. Len(pending) - 1 :
         Dies(Point(log \o Append(SubSeq(pending, 1, n), Torn)), disk,
              log \o Append(SubSeq(pending, 1, n), Torn))
  BY <1>1
<1>3. /\ pending \in Seq(Records) /\ Len(pending) \in Nat /\ Len(buffer) \in Nat
      /\ \A i \in 1 .. Len(buffer) : pending[i] = buffer[i]
      /\ Len(pending) = Len(buffer) \/ Len(pending) = Len(buffer) + 1
  BY PendingStarts
<1>4. n \in 0 .. Len(pending) /\ n <= Len(buffer) /\ n \in Nat
  BY <1>3
<1> DEFINE t == SubSeq(pending, 1, n)
           u == Append(t, Torn)
           l == log \o u
           r == log \o t
<1>5. t \in Seq(Records) /\ Len(t) = n /\ \A i \in 1 .. n : t[i] = pending[i]
  BY <1>3, <1>4, PrefixFacts
<1>6. Dies(Point(l), disk, l)
  BY <1>2
<1> HIDE DEF t, Point
<1>7. Torn \in Records /\ Torn.type = "torn"
  BY XidFacts, EndingTyped DEF Torn, NO_TRANSACTION, Ending, Record
<1>8. /\ u \in Seq(Records) /\ Len(u) = n + 1
      /\ \A i \in 1 .. n + 1 : u[i] = IF i <= n THEN t[i] ELSE Torn
  BY <1>5, <1>7, AppendFacts
<1> HIDE DEF u
<1>9. Len(t) <= Len(buffer) /\ \A i \in 1 .. Len(t) : t[i] = buffer[i]
  BY <1>3, <1>4, <1>5
<1>10. /\ r \in Seq(Records) /\ Len(r) <= Len(AllRecords) /\ Len(r) = Len(log) + n
       /\ \A i \in 1 .. Len(r) : r[i] = AllRecords[i]
  BY <1>5, <1>9, StartArrives
<1>11. \A i \in 1 .. Len(log) + n : r[i] = IF i <= Len(log) THEN log[i] ELSE t[i - Len(log)]
  BY <1>5, LogNumbers, Joined
<1>12. /\ l \in Seq(Records) /\ Len(l) = Len(log) + (n + 1)
       /\ \A i \in 1 .. Len(log) + (n + 1) : l[i] = IF i <= Len(log) THEN log[i] ELSE u[i - Len(log)]
  <2>1. log \in Seq(Records) /\ Len(log) \in Nat
    BY LogNumbers
  <2>2. /\ log \o u \in Seq(Records) /\ Len(log \o u) = Len(log) + Len(u)
        /\ \A i \in 1 .. Len(log) + Len(u) :
              (log \o u)[i] = IF i <= Len(log) THEN log[i] ELSE u[i - Len(log)]
    BY <1>8, <2>1, Joined
  <2> QED BY <1>8, <2>2
<1>13. r = log \o t
  OBVIOUS
<1> HIDE DEF l, r
<1> DEFINE a == Len(log)
           k == a + n
<1>14. a \in Nat /\ k \in Nat /\ k <= Len(l) /\ Len(r) = k
  BY <1>4, <1>10, <1>12, LogNumbers
<1>15. ASSUME NEW i \in 1 .. k PROVE r[i] = l[i]
  <2>1. i \in 1 .. a + (n + 1) /\ (~(i <= a) => i - a \in 1 .. n /\ i - a \in 1 .. n + 1 /\ i - a <= n)
    BY <1>4, <1>14
  <2> QED BY <1>8, <1>11, <1>12, <2>1
<1>16. ~IsWhole(l, metaLsn, k + 1)
  <2> DEFINE j == k + 1
  <2>1. j \in 1 .. a + (n + 1) /\ ~(j <= a) /\ j - a = n + 1 /\ n + 1 \in 1 .. n + 1 /\ ~(n + 1 <= n)
    BY <1>4, <1>14
  <2> HIDE DEF j, k, a
  <2>2. l[j] = u[n + 1]
    BY <1>12, <2>1 DEF a
  <2>3. l[j].type = "torn"
    BY <1>7, <1>8, <2>1, <2>2
  <2> QED BY <2>3 DEF IsWhole, j
<1>17. Placed(r, metaLsn)
  <2>1. \A i \in 1 .. Len(r) : i \in 1 .. Len(AllRecords)
    BY <1>10, <1>14, AllFacts
  <2> QED BY <1>10, <2>1, OpenLogIsRead DEF Placed
<1> HIDE DEF k, a
<1>18. read_all(l, metaLsn) = r
  BY <1>10, <1>12, <1>14, <1>15, <1>16, <1>17, LogNumbers, ReadAllStops
<1>19. r # <<>>
  <2>1. Point(l) \in Repaired
    BY <1>6 DEF Dies
  <2> QED BY <1>18, <2>1 DEF Repaired, Point
<1> DEFINE point == Point(l)
<1>20. Dies(point, disk, l) /\ read_all(l, metaLsn) = log \o t /\ log \o t # <<>> /\ Len(log \o t) <= Len(l)
  BY <1>6, <1>13, <1>14, <1>18, <1>19
<1> HIDE DEF point
<1> QED BY <1>5, <1>9, <1>12, <1>20, DiesInFlush

\* A crash after the whole log and some of the dirty pages are out.
LEMMA DiesWritten ==
    ASSUME IInv, phase \in Running, crashes.repaired, OpenIsSound, NoSteal, RealPages(disk),
           NEW S \in SUBSET DirtyPages, NEW point, Dies(point, Written(S), log \o buffer)
    PROVE  RealPages(disk') /\ DownIsSound' /\ phase' = "down" /\ Committed' = Committed
<1> DEFINE d == Written(S)
           r == AllRecords
<1>1. /\ RealPages(d) /\ SoundTo(d, AllRecords, Len(AllRecords), Committed)
      /\ \A p \in Pages : d[p].lsn < next_lsn
  BY WrittenOut
<1>2. Dies(point, d, r)
  BY DEF AllRecords
<1>3. r \in Seq(Records) /\ Len(log) <= Len(r) /\ Len(r) <= Len(r) /\ (Len(r) = 0 => r = <<>>)
  BY AllFacts, EmptySeq
<1>4. next_lsn = metaLsn + Len(r)
  BY AllFacts, LogNumbers
<1>5. read_all(r, metaLsn) = r
  BY OpenLogIsRead
<1>6. r = AllRecords
  OBVIOUS
<1> HIDE DEF d, r
<1>7. /\ \A p \in Pages : d[p].lsn < metaLsn + Len(r)
      /\ SoundTo(d, AllRecords, Len(r), Committed) /\ Len(r) <= Len(AllRecords)
      /\ \A i \in 1 .. Len(r) : r[i] = AllRecords[i]
  BY <1>1, <1>3, <1>4, <1>6
<1> QED BY <1>1, <1>2, <1>3, <1>5, <1>7, DiesInLog

\* CrashInSync.
LEMMA CrashInSyncIsSound ==
    ASSUME IInv, CrashInSync, crashes.repaired, OpenIsSound, NoSteal, RealPages(disk)
    PROVE  RealPages(disk') /\ DownIsSound' /\ phase' = "down" /\ Committed' = Committed
<1>1. phase \in Running
  BY DEF CrashInSync, Running
<1>2. PICK S \in SUBSET DirtyPages : Dies("sync", Written(S), log \o buffer)
  BY DEF CrashInSync
<1> QED BY <1>1, <1>2, DiesWritten

\* Without a transaction, a page that flush_through lets out without a flush
\* is up to date, and past the log by one record at most; then that record is
\* of a rollback whose ABORT record is still staged too.
LEMMA PagesAhead ==
    ASSUME IInv, phase = "open", running = {}, crashes.repaired, OpenIsSound, NoSteal,
           NEW p \in Pages, Current(p).lsn <= flushed_lsn
    PROVE  /\ Current(p).rows = Committed[p]
           /\ \A j \in 1 .. Len(log) : IsUpdate(AllRecords[j], p) => ~(AllRecords[j].lsn > Current(p).lsn)
           /\ Current(p).lsn < flushed_lsn \/ SomeLoser(AllRecords, Len(log))
<1> DEFINE s == AllRecords
           N == Len(AllRecords)
           a == Len(log)
           image == Current(p)
<1>1. PagesAreRight /\ OneTransaction /\ LogIsWhole /\ CrashIsHarmless
  BY DEF OpenIsSound
<1>2. Unsettled(p) = {}
  BY <1>1 DEF OneTransaction, Unsettled
<1>3. image.rows = Committed[p]
  BY <1>1, <1>2 DEF PagesAreRight
<1>4. Redone(disk, s, N, p, image) /\ disk[p].lsn < flushed_lsn
  BY <1>1 DEF CrashIsHarmless
<1>5. PICK i \in 0 .. N : IsSource(disk, s, N, p, i) /\ image = ImageAt(disk, s, p, i)
  BY <1>4 DEF Redone
<1>6. N \in Nat /\ a \in Nat /\ a <= N /\ flushed_lsn = metaLsn + a /\ metaLsn \in Nat
  BY AllFacts, LogNumbers DEF flushed_lsn
<1>7. image.lsn \in Int /\ disk[p].lsn \in Int /\ image.lsn <= flushed_lsn
  BY CurrentFacts DEF Running
<1>8. \A j \in 1 .. N : s[j].lsn = metaLsn + j - 1 /\ (s[j].type = "update" => s[j].after.lsn = s[j].lsn)
  BY <1>1 DEF LogIsWhole
<1>9. \A j \in a + 1 .. N : s[j].type = "update" =>
         /\ SomeLoser(s, j)
         /\ s[j].txn \notin running \union {NO_TRANSACTION} => \E h \in j + 1 .. N : IsUpdate(s[h], s[j].page)
  BY <1>1 DEF CrashIsHarmless
<1> HIDE DEF s, N, a, image
<1>10. CASE i = 0
  <2>1. image = disk[p]
    BY <1>5, <1>10 DEF ImageAt
  <2>2. ASSUME NEW j \in 1 .. a, IsUpdate(s[j], p) PROVE ~(s[j].lsn > image.lsn)
    <3>1. j \in i + 1 .. N
      BY <1>6, <1>10
    <3> QED BY <1>5, <2>1, <2>2, <3>1 DEF IsSource
  <2> QED BY <1>3, <1>4, <2>1, <2>2 DEF s, a, image
<1>11. CASE i # 0
  <2>1. i \in 1 .. N /\ i > 0
    BY <1>6, <1>11
  <2>2. IsUpdate(s[i], p) /\ s[i].lsn > disk[p].lsn /\ image = s[i].after
    BY <1>5, <1>11, <2>1 DEF IsSource, ImageAt
  <2>3. s[i].lsn = metaLsn + i - 1 /\ image.lsn = metaLsn + i - 1
    BY <1>8, <2>1, <2>2 DEF IsUpdate
  <2>4. ASSUME NEW j \in i + 1 .. N PROVE ~IsUpdate(s[j], p)
    <3>1. j \in 1 .. N /\ j > i
      BY <1>6, <2>1
    <3>2. s[j].lsn = metaLsn + j - 1
      BY <1>8, <3>1
    <3>3. s[j].lsn > disk[p].lsn
      BY <1>6, <1>7, <2>1, <2>2, <2>3, <3>1, <3>2
    <3> QED BY <1>5, <3>3 DEF IsSource
  <2>5. ASSUME NEW j \in 1 .. a, IsUpdate(s[j], p) PROVE ~(s[j].lsn > image.lsn)
    <3>1. j \in 1 .. N /\ j <= i
      BY <1>6, <2>1, <2>4, <2>5
    <3>2. s[j].lsn = metaLsn + j - 1
      BY <1>8, <3>1
    <3> QED BY <1>6, <2>1, <2>3, <3>1, <3>2
  <2>6. ASSUME ~(image.lsn < flushed_lsn) PROVE SomeLoser(s, a)
    <3>1. i = a + 1 /\ i \in a + 1 .. N
      BY <1>6, <1>7, <2>1, <2>3, <2>6
    <3>2. s[i].type = "update" /\ s[i].page = p
      BY <2>2 DEF IsUpdate
    <3>3. SomeLoser(s, i) /\ s[i].txn = NO_TRANSACTION
      BY <1>9, <2>4, <3>1, <3>2
    <3>4. PICK h \in 1 .. i : Unfinished(s, i, s[h].txn)
      BY <3>3 DEF SomeLoser
    <3>5. h # i
      BY <3>3, <3>4 DEF Unfinished
    <3>6. h \in 1 .. a /\ \A j \in 1 .. a : j \in 1 .. i
      BY <1>6, <3>1, <3>4, <3>5
    <3>7. Unfinished(s, a, s[h].txn)
      BY <3>4, <3>6 DEF Unfinished
    <3> QED BY <3>6, <3>7 DEF SomeLoser
  <2> QED BY <1>3, <2>5, <2>6 DEF s, a, image
<1> QED BY <1>10, <1>11

\* CrashInCheckpointFlush.
LEMMA CrashInCheckpointIsSound ==
    ASSUME IInv, CrashInCheckpointFlush, crashes.repaired, OpenIsSound, NoSteal, RealPages(disk)
    PROVE  RealPages(disk') /\ DownIsSound' /\ phase' = "down" /\ Committed' = Committed
<1>1. phase = "open" /\ running = {} /\ phase \in Running
  BY DEF CrashInCheckpointFlush, Running
<1>2. PICK S \in SUBSET DirtyPages :
         Dies("checkpoint flush", Written(S),
              IF \E p \in S : must_flush(pool[p].image.lsn) THEN log \o buffer ELSE log)
  BY DEF CrashInCheckpointFlush
<1>3. CASE \E p \in S : must_flush(pool[p].image.lsn)
  <2>1. Dies("checkpoint flush", Written(S), log \o buffer)
    BY <1>2, <1>3
  <2> QED BY <1>1, <2>1, DiesWritten
<1>4. CASE ~\E p \in S : must_flush(pool[p].image.lsn)
  <2> DEFINE d == Written(S)
             s == AllRecords
             n == Len(log)
  <2>1. Dies("checkpoint flush", d, log)
    BY <1>2, <1>4
  <2>2. RealPages(d) /\ \A p \in Pages : d[p] = IF p \in S THEN Current(p) ELSE disk[p]
    BY <1>1, WrittenOut
  <2>3. FramesAgree /\ CrashIsHarmless
    BY DEF OpenIsSound
  <2>4. n \in Nat /\ n <= n /\ n <= Len(s) /\ n \in n .. Len(s) /\ log \in Seq(Records)
    BY AllFacts, LogNumbers
  <2>5. /\ SoundTo(disk, s, n, Committed)
        /\ \A p \in Pages : disk[p].lsn < flushed_lsn
    BY <2>3, <2>4 DEF CrashIsHarmless
  <2>6. ASSUME NEW p \in Pages, p \in S
        PROVE  /\ Current(p).rows = Committed[p]
               /\ \A j \in 1 .. n : IsUpdate(s[j], p) => ~(s[j].lsn > Current(p).lsn)
               /\ Current(p).lsn < flushed_lsn \/ SomeLoser(s, n)
    <3>1. pool[p].resident
      BY <2>3, <2>6 DEF DirtyPages, FramesAgree
    <3>2. Current(p) = pool[p].image /\ ~must_flush(pool[p].image.lsn)
      BY <1>4, <2>6, <3>1 DEF Current
    <3>3. pool[p].image.lsn \in Int
      BY <1>1, CurrentFacts
    <3>4. Current(p).lsn <= flushed_lsn
      BY <3>2, <3>3, LogNumbers DEF must_flush
    <3> QED BY <1>1, <3>4, PagesAhead
  <2>7. flushed_lsn = metaLsn + n
    BY DEF flushed_lsn
  <2> HIDE DEF d, s, n
  <2>8. ASSUME NEW p \in Pages PROVE Covered(s, n, p) \/ RedoneRows(d, s, n, p, Committed[p])
    <3>1. CASE p \in S
      <4>1. d[p] = Current(p)
        BY <2>2, <3>1
      <4>2. 0 \in 0 .. n /\ ~(0 > 0) /\ \A j \in 0 + 1 .. n : j \in 1 .. n
        BY <2>4
      <4>3. IsSource(d, s, n, p, 0)
        BY <2>6, <3>1, <4>1, <4>2 DEF IsSource
      <4>4. ImageAt(d, s, p, 0).rows = Committed[p]
        BY <2>6, <3>1, <4>1 DEF ImageAt
      <4> QED BY <4>2, <4>3, <4>4 DEF RedoneRows
    <3>2. CASE p \notin S
      <4>1. d[p] = disk[p]
        BY <2>2, <3>2
      <4>2. Covered(s, n, p) \/ RedoneRows(disk, s, n, p, Committed[p])
        BY <2>5 DEF SoundTo
      <4> QED BY <4>1, <4>2 DEF RedoneRows, IsSource, ImageAt
    <3> QED BY <3>1, <3>2
  <2>9. SoundTo(d, s, n, Committed)
    BY <2>8 DEF SoundTo
  <2>10. SomeLoser(s, n) \/ \A p \in Pages : d[p].lsn < metaLsn + n
    <3>1. ASSUME ~SomeLoser(s, n), NEW p \in Pages PROVE d[p].lsn < metaLsn + n
      BY <2>2, <2>5, <2>6, <2>7, <3>1
    <3> QED BY <3>1
  <2>11. n = 0 => log = <<>>
    BY <2>4, EmptySeq DEF n
  <2> QED BY <2>1, <2>2, <2>4, <2>9, <2>10, <2>11, OpenLogIsRead, DiesInLog DEF s, n
<1> QED BY <1>3, <1>4

\* A crash while the database is being opened.
LEMMA DiesOpening ==
    ASSUME IInv, phase \in {"down", "redone"}, DownIsSound, NEW point, NEW d, Dies(point, d, log),
           RealPages(d), FilesRecover(d, log, metaLsn, Committed)
    PROVE  RealPages(disk') /\ DownIsSound' /\ phase' = "down" /\ Committed' = Committed
<1>1. NothingPending
  BY DEF DownIsSound
<1>2. read_all(log, metaLsn) \in Seq(Records)
  BY LogNumbers, ReadAllIs
<1>3. NothingPending' /\ Committed' = Committed
  BY <1>1, <1>2, DiesHistory DEF NothingPending
<1> QED BY <1>3, DiesDown

\* CrashBetween.
LEMMA CrashBetweenIsSound ==
    ASSUME IInv, CrashBetween, NoSteal, RealPages(disk),
           phase \in Running => OpenIsSound, phase \notin Running => DownIsSound
    PROVE  RealPages(disk') /\ DownIsSound' /\ phase' = "down" /\ Committed' = Committed
<1>1. Dies("between", disk, log) /\ (phase \in Running \/ phase = "redone")
  BY DEF CrashBetween, Running
<1>2. CASE phase \in Running
  BY <1>1, <1>2, DiesBetweenIsSound
<1>3. CASE phase = "redone"
  <2>1. DownIsSound
    BY <1>3 DEF Running
  <2>2. FilesRecover(disk, log, metaLsn, Committed)
    BY <1>3, <2>1 DEF DownIsSound
  <2> QED BY <1>1, <1>3, <2>1, <2>2, DiesOpening
<1> QED BY <1>1, <1>2, <1>3

\* CrashInRecovery.
LEMMA CrashInRecoveryIsSound ==
    ASSUME IInv, CrashInRecovery, crashes.repaired, RealPages(disk), DownIsSound
    PROVE  RealPages(disk') /\ DownIsSound' /\ phase' = "down" /\ Committed' = Committed
<1> DEFINE r == read_all(log, metaLsn)
           f == redo(disk, r)
           g == undo_pass(f, r)
           mixed(S, T) == [p \in Pages |-> IF p \in S THEN g[p] ELSE IF p \in T THEN f[p] ELSE disk[p]]
<1>1. phase = "down" /\ \E S, T \in SUBSET Pages : Dies("recovery", mixed(S, T), log)
  BY DEF CrashInRecovery
<1>2. PICK S \in SUBSET Pages, T \in SUBSET Pages : Dies("recovery", mixed(S, T), log)
  BY <1>1
<1>3. /\ r \in Seq(Records) /\ Len(r) \in 0 .. Len(log) /\ Placed(r, metaLsn)
  BY LogNumbers, ReadAllIs
<1>4. /\ SoundTo(disk, r, Len(r), Committed) /\ ImagesOf(r, Len(r), Committed) /\ RealRecords(r)
      /\ SomeLoser(r, Len(r)) \/ \A p \in Pages : disk[p].lsn < flushed_lsn
      /\ Len(r) = 0 => log = <<>>
  BY <1>1 DEF DownIsSound, FilesRecover, flushed_lsn
<1>5. disk \in [Pages -> Images] /\ RecordsBounded(log, metaLsn)
  BY <1>1, DownFacts DEF Continuous
<1>6. RecordsBounded(r, metaLsn)
  BY <1>5, LogNumbers, ReadAllFacts
<1>7. flushed_lsn \in Int /\ metaLsn \in Nat /\ metaLsn + Len(r) <= flushed_lsn
  BY <1>3, LogNumbers
<1>8. read_all(log, metaLsn) = r
  OBVIOUS
<1> HIDE DEF r
<1>9. f \in [Pages -> Images]
  BY <1>3, <1>5, <1>7, RecoveredFacts
<1>10. g \in [Pages -> Images]
  <2> HIDE DEF f
  <2> QED BY <1>3, <1>7, <1>9, RecoveredFacts
<1> DEFINE d == mixed(S, T)
<1>11. d \in [Pages -> Images] /\ \A p \in Pages : d[p] \in {disk[p], f[p], g[p]}
  <2> HIDE DEF f, g
  <2> QED BY <1>5, <1>9, <1>10
<1>12. Dies("recovery", d, log)
  BY <1>2
<1> HIDE DEF d, mixed
<1> DEFINE c == Committed
           top == flushed_lsn
<1>13. /\ RealPages(d) /\ SoundTo(d, r, Len(r), c)
       /\ SomeLoser(r, Len(r)) \/ \A p \in Pages : d[p].lsn < top
  <2>1. /\ SoundTo(disk, r, Len(r), c) /\ (SomeLoser(r, Len(r)) \/ \A p \in Pages : disk[p].lsn < top)
        /\ top \in Int /\ metaLsn + Len(r) <= top
        /\ \A p \in Pages : d[p] \in {disk[p], redo(disk, r)[p], undo_pass(redo(disk, r), r)[p]}
    BY <1>4, <1>7, <1>11
  <2> HIDE DEF c, top
  <2> QED BY <1>3, <1>4, <1>5, <1>6, <1>7, <1>11, <2>1, MixedPages
<1>14. FilesRecover(d, log, metaLsn, Committed)
  BY <1>4, <1>8, <1>13 DEF FilesRecover, flushed_lsn
<1> QED BY <1>1, <1>12, <1>13, <1>14, DiesOpening

---------------------------------------------------------------------------
(* The inductive invariant holds.                                          *)

\* One session; and pages are never evicted, or nothing ever crashes.
Sheltered == MaxSessions = 1 /\ (NoSteal \/ CrashPlan = <<>>)

\* A new database.
LEMMA InitAtomic == Init => Atomic
<1> SUFFICES ASSUME Init PROVE Atomic
  OBVIOUS
<1>1. IInv
  BY InitSound
<1>2. /\ phase = "open" /\ log = <<>> /\ buffer = <<>> /\ running = {} /\ writes = <<>> /\ metaLsn = 1
      /\ \A x \in Xids : undo[x] = NoUndo
      /\ \A p \in Pages : disk[p] = BlankImage /\ pool[p] = NoFrame
  BY DEF Init
<1>3. DOMAIN writes = {}
  <2>1. writes \in Seq(History) /\ Len(writes) = 0
    BY <1>2, EmptySeq
  <2>2. DOMAIN writes = 1 .. 0
    BY <2>1, LenProperties
  <2> QED BY <2>2
<1>4. NothingPending /\ \A p \in Pages : Committed[p] = {}
  BY <1>3 DEF NothingPending, Committed
<1>5. BlankImage # NoImage /\ BlankImage.rows = {} /\ BlankImage.lsn = 0
  BY DEF BlankImage, NoImage
<1>6. ~NoFrame.resident /\ ~NoFrame.dirty
  BY DEF NoFrame
<1>7. flushed_lsn = 1
  BY <1>2, EmptySeq DEF flushed_lsn
<1>8. FramesAgree /\ \A p \in Pages : Current(p) = disk[p]
  BY <1>2, <1>6 DEF FramesAgree, Current
<1>9. \A p \in Pages : disk[p].rows = Committed[p] /\ disk[p].lsn < flushed_lsn
  <2>1. \A p \in Pages : disk[p].rows = {} /\ disk[p].lsn = 0
    BY <1>2, <1>5
  <2>2. \A p \in Pages : disk[p].rows = Committed[p]
    BY <1>4, <2>1
  <2>3. 0 < flushed_lsn
    BY <1>7
  <2> QED BY <2>1, <2>2, <2>3
<1>10. Afresh
  BY <1>2, <1>4, <1>8, <1>9 DEF Afresh
<1> QED BY <1>2, <1>5, <1>10, AfreshIsSound DEF Atomic, Running, RealPages

\* Whatever the crash, it is one of the plan.
LEMMA DieIsPlanned ==
    ASSUME IInv, Die
    PROVE  /\ CrashPlan # <<>> /\ phase' = "down" /\ DOMAIN writes' = DOMAIN writes
           /\ crashes'.repaired => crashes.repaired /\ ~CrashAfterTruncate /\ ~CrashBeforeReset
<1>1. \E point, d, l : Dies(point, d, l)
  BY DEF Die, CrashBetween, CrashInFlush, CrashTearsRecord, CrashInSync, CrashInCheckpointFlush,
         CrashAfterTruncate, CrashInRecovery, CrashBeforeReset
<1>2. PICK point, d, l : Dies(point, d, l)
  BY <1>1
<1>3. /\ crashes.struck < Len(CrashPlan) /\ phase' = "down"
      /\ crashes' = [struck |-> crashes.struck + 1, repaired |-> crashes.repaired /\ point \in Repaired]
      /\ DOMAIN writes' = DOMAIN writes
  BY <1>2 DEF Dies
<1>4. crashes'.repaired => crashes.repaired
  BY <1>3
<1>5. CrashPlan # <<>>
  <2>1. crashes.struck \in Nat /\ Len(CrashPlan) \in Nat
    BY BoundsAssumption, LenProperties DEF IInv, TypeOK
  <2>2. Len(CrashPlan) # 0
    BY <1>3, <2>1
  <2> QED BY <2>2, EmptySeq
<1>6. CrashAfterTruncate => ~crashes'.repaired
  <2>1. "truncated" \notin Repaired
    BY DEF Repaired
  <2> DEFINE b == crashes.repaired /\ "truncated" \in Repaired
  <2>2. CrashAfterTruncate => crashes' = [struck |-> crashes.struck + 1, repaired |-> b]
    BY DEF CrashAfterTruncate, Dies
  <2>3. ~b
    BY <2>1
  <2> HIDE DEF b
  <2>4. CrashAfterTruncate => crashes'.repaired = b
    BY <2>2
  <2> QED BY <2>3, <2>4
<1>7. CrashBeforeReset => ~crashes'.repaired
  <2>1. "reset" \notin Repaired
    BY DEF Repaired
  <2> DEFINE b == crashes.repaired /\ "reset" \in Repaired
  <2>2. CrashBeforeReset => crashes' = [struck |-> crashes.struck + 1, repaired |-> b]
    BY DEF CrashBeforeReset, Dies
  <2>3. ~b
    BY <2>1
  <2> HIDE DEF b
  <2>4. CrashBeforeReset => crashes'.repaired = b
    BY <2>2
  <2> QED BY <2>3, <2>4
<1> QED BY <1>3, <1>4, <1>5, <1>6, <1>7

\* Only a crash changes what is known of crashes.
LEMMA NoCrashKnown ==
    ASSUME [Next]_vars, ~Die
    PROVE  crashes' = crashes
BY DEF Next, begin, Transact, commit, rollback, Write, restore_page, finish_rollback, Fetch, Maintain,
       sync, checkpoint, close, Restart, open_clean, open_recover, open_restamp, open_reset, Stop, vars

\* A crash.
LEMMA DieIsSound ==
    ASSUME IInv, Die, Sheltered, crashes'.repaired, Atomic
    PROVE  /\ RealPages(disk') /\ DownIsSound' /\ phase' = "down"
           /\ Committed' = Committed \/ (phase = "open" /\ \A p \in Pages : Committed'[p] = Current(p).rows)
<1>1. crashes.repaired /\ ~CrashAfterTruncate /\ ~CrashBeforeReset /\ NoSteal
  BY DieIsPlanned DEF Sheltered
<1>2. RealPages(disk) /\ (phase \in Running => OpenIsSound) /\ (phase \notin Running => DownIsSound)
  BY <1>1 DEF Atomic
<1>3. CASE CrashBetween
  BY <1>1, <1>2, <1>3, CrashBetweenIsSound
<1>4. CASE CrashInFlush
  <2>1. phase = "open" /\ phase \in Running
    BY <1>4 DEF CrashInFlush, Running
  <2> QED BY <1>1, <1>2, <1>4, <2>1, CrashInFlushIsSound
<1>5. CASE CrashTearsRecord
  <2>1. phase \in Running
    BY <1>5 DEF CrashTearsRecord, Running
  <2> QED BY <1>1, <1>2, <1>5, <2>1, CrashTearsIsSound
<1>6. CASE CrashInSync
  <2>1. phase \in Running
    BY <1>6 DEF CrashInSync, Running
  <2> QED BY <1>1, <1>2, <1>6, <2>1, CrashInSyncIsSound
<1>7. CASE CrashInCheckpointFlush
  <2>1. phase \in Running
    BY <1>7 DEF CrashInCheckpointFlush, Running
  <2> QED BY <1>1, <1>2, <1>7, <2>1, CrashInCheckpointIsSound
<1>8. CASE CrashInRecovery
  <2>1. phase \notin Running
    BY <1>8 DEF CrashInRecovery, Running
  <2> QED BY <1>1, <1>2, <1>8, <2>1, CrashInRecoveryIsSound
<1> QED BY <1>1, <1>3, <1>4, <1>5, <1>6, <1>7, <1>8 DEF Die

\* Nothing happens.
LEMMA OpenSame ==
    ASSUME UNCHANGED vars
    PROVE  OpenIsSound' = OpenIsSound /\ DownIsSound' = DownIsSound /\ RealPages(disk') = RealPages(disk)
<1>1. /\ disk' = disk /\ metaLsn' = metaLsn /\ log' = log /\ buffer' = buffer /\ pool' = pool
      /\ undo' = undo /\ nextXid' = nextXid /\ phase' = phase /\ rolling' = rolling
      /\ running' = running /\ writes' = writes
  BY DEF vars
<1>2. AllRecords' = AllRecords /\ flushed_lsn' = flushed_lsn /\ FileTop' = FileTop
  BY <1>1 DEF AllRecords, flushed_lsn, FileTop
<1>3. Committed' = Committed /\ NothingPending' = NothingPending /\ \A p : Unsettled(p)' = Unsettled(p)
  BY <1>1, HistoryStays
<1>4. \A p : Current(p)' = Current(p) /\ IsListed(p)' = IsListed(p) /\ LastIsRestore(p)' = LastIsRestore(p)
  BY <1>1, <1>2 DEF Current, IsListed, LastIsRestore
<1>5. LogIsWhole' = LogIsWhole /\ LogKnowsTransactions' = LogKnowsTransactions
  BY <1>1, <1>2 DEF LogIsWhole, LogKnowsTransactions
<1>6. /\ FramesAgree' = FramesAgree /\ UndoIsCommitted' = UndoIsCommitted
      /\ OneTransaction' = OneTransaction
  BY <1>1, <1>3 DEF FramesAgree, UndoIsCommitted, OneTransaction
<1>7. PagesAreRight' = PagesAreRight
  BY <1>1, <1>3, <1>4 DEF PagesAreRight
<1>8. CrashIsHarmless' = CrashIsHarmless
  BY <1>1, <1>2, <1>3, <1>4 DEF CrashIsHarmless
<1>9. OpenIsSound' = OpenIsSound
  BY <1>1, <1>2, <1>3, <1>5, <1>6, <1>7, <1>8 DEF OpenIsSound
<1>10. DownIsSound' = DownIsSound
  BY <1>1, <1>2, <1>3 DEF DownIsSound
<1> QED BY <1>1, <1>9, <1>10

\* Everything else.
LEMMA StepIsSound ==
    ASSUME IInv, Next, ~Die, Sheltered, crashes.repaired, RealPages(disk),
           phase \in Running => OpenIsSound, phase \notin Running => DownIsSound
    PROVE  /\ RealPages(disk')
           /\ phase' \in Running => OpenIsSound'
           /\ phase' \notin Running => DownIsSound'
<1>1. CASE begin
  <2>1. phase \in Running /\ phase' \in Running /\ disk' = disk /\ MaxSessions = 1
    BY <1>1 DEF begin, Running, files, Sheltered
  <2>2. OpenIsSound'
    BY <1>1, <2>1, BeginIsSound
  <2> QED BY <2>1, <2>2
<1>2. CASE Transact
  <2>1. PICK x \in Xids : commit(x) \/ rollback(x) \/ \E p \in Pages : Write(x, p)
    BY <1>2 DEF Transact
  <2>2. phase \in Running /\ phase' \in Running /\ disk' = disk
    BY <2>1 DEF commit, rollback, Write, files, Running
  <2>3. OpenIsSound'
    BY <2>1, <2>2, CommitIsSound, RollbackIsSound, WriteIsSound
  <2> QED BY <2>2, <2>3
<1>3. CASE restore_page \/ finish_rollback
  <2>1. phase \in Running /\ phase' \in Running /\ disk' = disk
    BY <1>3 DEF restore_page, finish_rollback, files, Running
  <2>2. OpenIsSound'
    BY <1>3, <2>1, RestoreIsSound, FinishIsSound
  <2> QED BY <2>1, <2>2
<1>4. CASE \E p \in Pages : Fetch(p)
  <2>1. PICK p \in Pages : Fetch(p)
    BY <1>4
  <2>2. phase \in Running /\ phase' \in Running
    BY <2>1 DEF Fetch, Running
  <2>3. OpenIsSound' /\ RealPages(disk')
    BY <2>1, <2>2, FetchIsSound
  <2> QED BY <2>2, <2>3
<1>5. CASE sync
  <2>1. phase \in Running /\ phase' \in Running
    BY <1>5 DEF sync, Running
  <2> QED BY <1>5, <2>1, SyncIsSound
<1>6. CASE checkpoint
  <2>1. phase \in Running /\ phase' \in Running
    BY <1>6 DEF checkpoint, Running
  <2> QED BY <1>6, <2>1, CheckpointIsSound
<1>7. CASE close
  <2>1. phase \in Running /\ phase' \notin Running
    BY <1>7 DEF close, Running
  <2> QED BY <1>7, <2>1, CloseIsSound
<1>8. CASE open_clean
  <2>1. phase \notin Running /\ phase' \in Running /\ disk' = disk
    BY <1>8 DEF open_clean, files, Running
  <2>2. OpenIsSound'
    BY <1>8, <2>1, OpenCleanIsSound
  <2> QED BY <2>1, <2>2
<1>9. CASE open_recover
  <2>1. phase \notin Running /\ phase' \notin Running
    BY <1>9 DEF open_recover, Running
  <2> QED BY <1>9, <2>1, OpenRecoverIsSound
<1>10. CASE open_restamp
  <2>1. phase \notin Running /\ phase' \notin Running /\ disk' = disk
    BY <1>10 DEF open_restamp, Running
  <2>2. DownIsSound'
    BY <1>10, <2>1, OpenRestampIsSound
  <2> QED BY <2>1, <2>2
<1>11. CASE open_reset
  <2>1. phase \notin Running /\ phase' \in Running /\ disk' = disk
    BY <1>11 DEF open_reset, Running
  <2>2. OpenIsSound'
    BY <1>11, <2>1, OpenResetIsSound
  <2> QED BY <2>1, <2>2
<1>12. CASE Stop
  <2>1. UNCHANGED vars /\ phase \in Running
    BY <1>12 DEF Stop, Running
  <2>2. OpenIsSound' = OpenIsSound
    BY <2>1, OpenSame
  <2> QED BY <2>1, <2>2 DEF vars
<1> QED BY <1>1, <1>2, <1>3, <1>4, <1>5, <1>6, <1>7, <1>8, <1>9, <1>10, <1>11, <1>12
    DEF Next, Maintain, Restart

\* Every step leaves the invariant.
LEMMA AtomicStays == IInv /\ Atomic /\ Sheltered /\ [Next]_vars => Atomic'
<1> SUFFICES ASSUME IInv, Atomic, Sheltered, [Next]_vars, crashes'.repaired
             PROVE  /\ RealPages(disk')
                    /\ phase' \in Running => OpenIsSound'
                    /\ phase' \notin Running => DownIsSound'
  BY DEF Atomic
<1>1. CASE Die
  <2>1. RealPages(disk') /\ DownIsSound' /\ phase' = "down"
    BY <1>1, DieIsSound
  <2> QED BY <2>1 DEF Running
<1>2. CASE ~Die
  <2>1. crashes.repaired
    BY <1>2, NoCrashKnown
  <2>2. RealPages(disk) /\ (phase \in Running => OpenIsSound) /\ (phase \notin Running => DownIsSound)
    BY <2>1 DEF Atomic
  <2>3. CASE Next
    BY <1>2, <2>1, <2>2, <2>3, StepIsSound
  <2>4. CASE UNCHANGED vars
    <3>1. phase' = phase
      BY <2>4 DEF vars
    <3> QED BY <2>2, <2>4, <3>1, OpenSame
  <2> QED BY <2>3, <2>4
<1> QED BY <1>1, <1>2

\* What the invariant says of recovery.
LEMMA AtomicSurvives == IInv /\ Atomic /\ NoSteal => ExactlyCommittedSurvives
<1> SUFFICES ASSUME IInv, Atomic, NoSteal, crashes.repaired PROVE Stable = Committed
  BY DEF ExactlyCommittedSurvives, IInv
<1> DEFINE r == read_all(log, metaLsn)
           n == Len(r)
<1>1. r \in Seq(Records)
  BY LogNumbers, ReadAllIs
<1>2. SoundTo(disk, r, n, Committed) /\ ImagesOf(r, n, Committed)
  <2>1. CASE phase \in Running
    <3>1. OpenIsSound /\ CrashIsHarmless /\ ImagesOf(AllRecords, Len(log), Committed)
      BY <2>1 DEF Atomic, OpenIsSound
    <3>2. r = log /\ \A i \in 1 .. Len(log) : log[i] = AllRecords[i]
      BY <3>1, OpenLogIsRead
    <3>3. Len(log) \in Nat /\ Len(log) \in Len(log) .. Len(AllRecords) /\ \A i \in 1 .. Len(log) : i \in 1 .. Len(AllRecords)
      BY AllFacts
    <3>4. SoundTo(disk, AllRecords, Len(log), Committed)
      BY <3>1, <3>3 DEF CrashIsHarmless
    <3>5. SoundTo(disk, log, Len(log), Committed) /\ \A x : Unfinished(log, Len(log), x) <=> Unfinished(AllRecords, Len(log), x)
      BY <3>2, <3>3, <3>4, SameStart
    <3>6. ImagesOf(log, Len(log), Committed)
      BY <3>1, <3>2, <3>3, <3>5 DEF ImagesOf
    <3> QED BY <3>2, <3>5, <3>6
  <2>2. CASE phase \in {"down", "redone"}
    <3>1. DownIsSound
      BY <2>2 DEF Atomic, Running
    <3> QED BY <2>2, <3>1 DEF DownIsSound, FilesRecover
  <2>3. CASE phase = "restamped"
    <3>1. DownIsSound
      BY <2>3 DEF Atomic, Running
    <3>2. /\ Len(log) > 0 /\ log[1].lsn < metaLsn
          /\ \A p \in Pages : disk[p].rows = Committed[p]
      BY <2>3, <3>1 DEF DownIsSound
    <3>3. log \in Seq(Records) /\ metaLsn \in Nat /\ Len(log) \in Nat
      BY LogNumbers
    <3>4. <<>> \in Seq(Records) /\ Len(<<>>) = 0 /\ 1 .. 0 = {} /\ 0 <= Len(log)
      BY <3>3, EmptySeq
    <3>5. log[1] \in Records
      BY <3>2, <3>3, ElementOfSeq
    <3>6. ~IsWhole(log, metaLsn, 0 + 1)
      <4>1. log[1].lsn \in Nat
        BY <3>5, RecordFields
      <4>2. log[1].lsn # metaLsn + 1 - 1
        BY <3>2, <3>3, <4>1
      <4> QED BY <4>2 DEF IsWhole
    <3>7. Placed(<<>>, metaLsn)
      BY <3>4 DEF Placed
    <3>8. r = <<>>
      BY <3>3, <3>4, <3>6, <3>7, ReadAllStops
    <3>9. SoundTo(disk, <<>>, 0, Committed) /\ ImagesOf(<<>>, 0, Committed)
      BY <3>2, <3>4, EmptyLog DEF ImagesOf
    <3> QED BY <3>4, <3>8, <3>9
  <2> QED BY <2>1, <2>2, <2>3 DEF IInv, TypeOK, Running
<1> HIDE DEF r
<1>3. \A p \in Pages : Recovered(disk, r)[p].rows = Committed[p]
  BY <1>1, <1>2, RecoveryIsSound
<1>4. Committed = [p \in Pages |-> Committed[p]]
  BY DEF Committed
<1>5. Stable = [p \in Pages |-> Recovered(disk, r)[p].rows]
  BY DEF Stable, r
<1> HIDE DEF n
<1> QED BY <1>3, <1>4, <1>5

\* Atomicity and durability, however large the database and whatever crashes a
\* restart repairs: with one session and room for every page in the buffer
\* pool, at every moment of every run the data file and the log, put through
\* redo and undo, give the rows of the committed transactions and no others.
\* Neither condition can be left out: a page evicted before its log record is
\* flushed is lost (flush_through compares with >), and a rollback restores
\* whole pages, so it takes another session's rows with it.
THEOREM CommittedWorkSurvives ==
    MaxSessions = 1 /\ Cardinality(Pages) <= Capacity => (Spec => []ExactlyCommittedSurvives)
<1> SUFFICES ASSUME MaxSessions = 1, Cardinality(Pages) <= Capacity
             PROVE  Spec => []ExactlyCommittedSurvives
  OBVIOUS
<1>1. NoSteal /\ Sheltered
  BY DEF NoSteal, Sheltered
<1>2. Init => IInv /\ Atomic
  BY InitSound, InitAtomic
<1>3. IInv /\ Atomic /\ [Next]_vars => IInv' /\ Atomic'
  BY <1>1, StepKeeps, AtomicStays
<1>4. IInv /\ Atomic => ExactlyCommittedSurvives
  BY <1>1, AtomicSurvives
<1> QED BY <1>2, <1>3, <1>4, PTL DEF Spec

---------------------------------------------------------------------------
(* The engine implements the atomic store.                                 *)

\* Every crash the plan has after crashes that a restart repairs is one more.
OnlyRepaired == \A i \in 1 .. Len(CrashPlan) : CrashPlan[i][TRUE] \subseteq Repaired

\* Then no other crash ever strikes.
LEMMA StaysRepaired ==
    IInv /\ OnlyRepaired /\ crashes.repaired /\ [Next]_vars => crashes'.repaired
<1> SUFFICES ASSUME IInv, OnlyRepaired, crashes.repaired, [Next]_vars PROVE crashes'.repaired
  OBVIOUS
<1>1. CASE ~Die
  BY <1>1, NoCrashKnown
<1>2. CASE Die
  <2>1. \E point, d, l : Dies(point, d, l)
    BY <1>2 DEF Die, CrashBetween, CrashInFlush, CrashTearsRecord, CrashInSync, CrashInCheckpointFlush,
                CrashAfterTruncate, CrashInRecovery, CrashBeforeReset
  <2>2. PICK point, d, l : Dies(point, d, l)
    BY <2>1
  <2> DEFINE k == crashes.struck + 1
             b == crashes.repaired /\ point \in Repaired
  <2>3. /\ crashes.struck < Len(CrashPlan) /\ point \in CrashPlan[k][crashes.repaired]
        /\ crashes' = [struck |-> k, repaired |-> b]
    BY <2>2 DEF Dies
  <2>4. crashes.struck \in Nat /\ Len(CrashPlan) \in Nat /\ crashes.repaired \in BOOLEAN
    BY BoundsAssumption, LenProperties DEF IInv, TypeOK
  <2>5. k \in 1 .. Len(CrashPlan)
    BY <2>3, <2>4
  <2>6. crashes.repaired = TRUE
    BY <2>4
  <2> HIDE DEF k
  <2>7. point \in CrashPlan[k][TRUE]
    BY <2>3, <2>6
  <2>8. point \in Repaired
    BY <2>5, <2>7 DEF OnlyRepaired
  <2>9. b
    BY <2>8
  <2> HIDE DEF b
  <2> QED BY <2>3, <2>9
<1> QED BY <1>1, <1>2

\* A state in which the engine has kept its promise, after repaired crashes only.
Sound == IInv /\ Atomic /\ crashes.repaired

\* What a reader sees: the pages, hence the committed rows and the pending ones while the
\* engine is open, and the committed rows alone when it is not or nothing is pending.
LEMMA ViewIs ==
    Sound => /\ phase = "open" => View = [p \in Pages |-> Current(p).rows]
             /\ phase = "open" => View = [p \in Pages |-> Committed[p] \union Unsettled(p)]
             /\ phase # "open" \/ NothingPending => View = Committed
             /\ Committed = [p \in Pages |-> Committed[p]]
             /\ phase \notin Running \/ running = {} => NothingPending
<1> SUFFICES ASSUME Sound
             PROVE  /\ phase = "open" => View = [p \in Pages |-> Current(p).rows]
                    /\ phase = "open" => View = [p \in Pages |-> Committed[p] \union Unsettled(p)]
                    /\ phase # "open" \/ NothingPending => View = Committed
                    /\ Committed = [p \in Pages |-> Committed[p]]
                    /\ phase \notin Running \/ running = {} => NothingPending
  OBVIOUS
<1>1. (phase \in Running => OpenIsSound) /\ (phase \notin Running => DownIsSound)
  BY DEF Sound, Atomic
<1>2. Committed = [p \in Pages |-> Committed[p]]
  BY DEF Committed
<1>3. phase # "open" => View = Committed
  BY DEF View
<1>4. phase = "open" => View = [p \in Pages |-> Current(p).rows]
  <2>1. \A p \in Pages : Current(p).rows = IF pool[p].resident THEN pool[p].image.rows ELSE disk[p].rows
    BY DEF Current
  <2> QED BY <2>1 DEF View
<1>5. phase = "open" => \A p \in Pages : Current(p).rows = Committed[p] \union Unsettled(p)
  BY <1>1 DEF OpenIsSound, PagesAreRight, Running
<1>6. phase = "open" => View = [p \in Pages |-> Committed[p] \union Unsettled(p)]
  BY <1>4, <1>5
<1>7. NothingPending => \A p \in Pages : Unsettled(p) = {}
  BY DEF NothingPending, Unsettled
<1>8. NothingPending /\ phase = "open" => View = Committed
  <2>1. NothingPending => [p \in Pages |-> Committed[p] \union Unsettled(p)] = [p \in Pages |-> Committed[p]]
    BY <1>7
  <2> QED BY <1>2, <1>6, <2>1
<1>9. phase \notin Running \/ running = {} => NothingPending
  BY <1>1 DEF DownIsSound, OpenIsSound, OneTransaction, NothingPending
<1> QED BY <1>2, <1>3, <1>4, <1>6, <1>8, <1>9

\* What ViewIs says of the rows, as one formula of the state.
SeesTheRows == /\ phase = "open" => View = [p \in Pages |-> Committed[p] \union Unsettled(p)]
               /\ phase # "open" \/ NothingPending => View = Committed
               /\ Committed = [p \in Pages |-> Committed[p]]

\* It holds of every sound state.
LEMMA RowsAreSeen == Sound => SeesTheRows
BY ViewIs DEF SeesTheRows

\* The same, after a step.
LEMMA ViewIsNext ==
    ASSUME Sound'
    PROVE  /\ phase' = "open" => View' = [p \in Pages |-> Committed'[p] \union Unsettled(p)']
           /\ phase' # "open" \/ NothingPending' => View' = Committed'
           /\ Committed' = [p \in Pages |-> Committed'[p]]
<1>1. Sound' => SeesTheRows'
  BY RowsAreSeen, PTL
<1>2. SeesTheRows'
  BY <1>1
<1> QED BY <1>2 DEF SeesTheRows

\* A step that settles no write and after which there is the same to see.
LEMMA ViewStays ==
    ASSUME Sound, Sound', UNCHANGED writes, (phase' = "open") = (phase = "open") \/ NothingPending
    PROVE  UNCHANGED Store!avars
<1>1. Committed' = Committed /\ NothingPending' = NothingPending /\ \A p : Unsettled(p)' = Unsettled(p)
  BY HistoryStays
<1>2. View' = View
  <2>1. CASE NothingPending
    BY <1>1, <2>1, ViewIs, ViewIsNext
  <2>2. CASE phase = "open" /\ phase' = "open"
    BY <1>1, <2>2, ViewIs, ViewIsNext
  <2>3. CASE phase # "open" /\ phase' # "open"
    BY <1>1, <2>3, ViewIs, ViewIsNext
  <2> QED BY <2>1, <2>2, <2>3
<1> QED BY <1>1, <1>2 DEF Store!avars

\* Write is a write of the store.
LEMMA WriteRefines ==
    ASSUME Sound, Sound', NEW x \in Xids, NEW p \in Pages, Write(x, p)
    PROVE  Store!Write
<1> DEFINE k == Len(writes) + 1
<1>1. /\ phase = "open" /\ phase' = "open" /\ k <= MaxWrites
      /\ writes' = Append(writes, [page |-> p, txn |-> x, fate |-> "pending"])
  BY DEF Write
<1>2. IInv
  BY DEF Sound
<1>3. /\ DOMAIN writes' = DOMAIN writes \union {k} /\ k \notin DOMAIN writes /\ Committed' = Committed
      /\ \A q \in Pages : Unsettled(q)' = IF q = p THEN Unsettled(q) \union {k} ELSE Unsettled(q)
  BY <1>1, <1>2, HistoryGrows
<1>4. k \in Rows
  <2>1. Len(writes) \in Nat /\ MaxWrites \in Nat
    BY <1>2, OpenTyped, BoundsAssumption
  <2> QED BY <1>1, <2>1 DEF Rows
<1> HIDE DEF k
<1>5. View = [q \in Pages |-> Committed[q] \union Unsettled(q)]
  BY <1>1, ViewIs
<1>6. View' = [q \in Pages |-> Committed[q] \union Unsettled(q)']
  BY <1>1, <1>3, ViewIsNext
<1>7. View' = [View EXCEPT ![p] = @ \union {k}]
  <2> DEFINE a(q) == Committed[q] \union Unsettled(q)
             b(q) == Committed[q] \union Unsettled(q)'
  <2>1. \A q \in Pages : b(q) = IF q = p THEN a(q) \union {k} ELSE a(q)
    BY <1>3
  <2>2. View = [q \in Pages |-> a(q)] /\ View' = [q \in Pages |-> b(q)]
    BY <1>5, <1>6
  <2> HIDE DEF a, b
  <2> QED BY <2>1, <2>2
<1> QED BY <1>3, <1>4, <1>7 DEF Store!Write

\* commit is the store's.
LEMMA CommitRefines ==
    ASSUME Sound, Sound', NEW x \in Xids, commit(x)
    PROVE  Store!Commit
<1>1. /\ phase = "open" /\ phase' = "open" /\ x \in running /\ Ends(x, "committed") /\ disk' = disk /\ pool' = pool
  BY DEF commit
<1>2. IInv /\ OneTransaction
  BY <1>1 DEF Sound, Atomic, OpenIsSound, Running
<1>3. /\ NothingPending' /\ DOMAIN writes' = DOMAIN writes
      /\ \A p \in Pages : Committed'[p] = Committed[p] \union Unsettled(p)
  <2>1. "committed" \in {"committed", "aborted"}
    OBVIOUS
  <2> QED BY <1>1, <1>2, <2>1, HistoryEnds
<1>4. View' = Committed' /\ Committed' = [p \in Pages |-> Committed'[p]]
  BY <1>3, ViewIsNext
<1>5. View = [p \in Pages |-> Committed[p] \union Unsettled(p)]
  BY <1>1, ViewIs
<1>6. Committed' = View
  BY <1>3, <1>4, <1>5
<1> QED BY <1>3, <1>4, <1>6 DEF Store!Commit

\* To a reader, the rollback has happened when it begins.
LEMMA RollbackRefines ==
    ASSUME Sound, Sound', NEW x \in Xids, rollback(x)
    PROVE  Store!Abort
<1>1. phase' # "open" /\ writes' = writes
  BY DEF rollback
<1>2. Committed' = Committed
  BY <1>1, HistoryStays
<1>3. View' = Committed'
  BY <1>1, ViewIsNext
<1> QED BY <1>1, <1>2, <1>3 DEF Store!Abort

\* The end of a rollback changes nothing a reader sees.
LEMMA FinishRefines ==
    ASSUME Sound, Sound', finish_rollback
    PROVE  UNCHANGED Store!avars
<1> DEFINE x == rolling.txn
<1>1. phase = "rollback" /\ Ends(x, "aborted")
  BY DEF finish_rollback
<1>2. IInv /\ OneTransaction /\ PagesAreRight
  BY <1>1 DEF Sound, Atomic, OpenIsSound, Running
<1>3. x \in running
  BY <1>1, <1>2 DEF PagesAreRight
<1> HIDE DEF x
<1>4. NothingPending' /\ DOMAIN writes' = DOMAIN writes /\ Committed' = Committed
  <2>1. "aborted" \in {"committed", "aborted"}
    OBVIOUS
  <2> QED BY <1>1, <1>2, <1>3, <2>1, HistoryEnds
<1>5. View = Committed /\ View' = Committed'
  BY <1>1, <1>4, ViewIs, ViewIsNext
<1> QED BY <1>4, <1>5 DEF Store!avars

\* A crash is the store's crash.
LEMMA DieRefines ==
    ASSUME Sound, Sound', Sheltered, Die
    PROVE  Store!Crash
<1>1. phase' = "down" /\ DOMAIN writes' = DOMAIN writes
  BY DieIsPlanned DEF Sound
<1>2. Committed' = Committed \/ (phase = "open" /\ \A p \in Pages : Committed'[p] = Current(p).rows)
  BY DieIsSound DEF Sound
<1>3. View' = Committed' /\ Committed' = [p \in Pages |-> Committed'[p]]
  BY <1>1, ViewIsNext
<1>4. ASSUME phase = "open", \A p \in Pages : Committed'[p] = Current(p).rows
      PROVE  Committed' = View
  <2>1. View = [p \in Pages |-> Current(p).rows]
    BY <1>4, ViewIs
  <2> QED BY <1>3, <1>4, <2>1
<1> QED BY <1>1, <1>2, <1>3, <1>4 DEF Store!Crash

\* Every step of the engine is a step of the store, or nothing to a reader.
LEMMA StepRefines ==
    Sound /\ Sound' /\ Sheltered /\ [Next]_vars => [Store!Next]_(Store!avars)
<1> SUFFICES ASSUME Sound, Sound', Sheltered, [Next]_vars PROVE [Store!Next]_(Store!avars)
  OBVIOUS
<1>1. CASE begin
  <2>1. UNCHANGED <<phase, writes>>
    BY <1>1 DEF begin
  <2> QED BY <2>1, ViewStays
<1>2. CASE Transact
  <2>1. PICK x \in Xids : commit(x) \/ rollback(x) \/ \E p \in Pages : Write(x, p)
    BY <1>2 DEF Transact
  <2> QED BY <2>1, CommitRefines, RollbackRefines, WriteRefines DEF Store!Next
<1>3. CASE restore_page
  <2>1. UNCHANGED <<phase, writes>>
    BY <1>3 DEF restore_page
  <2> QED BY <2>1, ViewStays
<1>4. CASE finish_rollback
  BY <1>4, FinishRefines
<1>5. CASE \E p \in Pages : Fetch(p)
  <2>1. UNCHANGED <<phase, writes>>
    BY <1>5 DEF Fetch
  <2> QED BY <2>1, ViewStays
<1>6. CASE sync \/ checkpoint
  <2>1. UNCHANGED <<phase, writes>>
    BY <1>6 DEF sync, checkpoint
  <2> QED BY <2>1, ViewStays
<1>7. CASE close \/ Restart
  <2>1. writes' = writes /\ (phase \notin Running \/ running = {})
    BY <1>7 DEF close, Restart, open_clean, open_recover, open_restamp, open_reset, Running
  <2>2. NothingPending
    BY <2>1, ViewIs
  <2> QED BY <2>1, <2>2, ViewStays
<1>8. CASE Die
  BY <1>8, DieRefines DEF Store!Next
<1>9. CASE Stop \/ UNCHANGED vars
  <2>1. UNCHANGED <<phase, writes>>
    BY <1>9 DEF Stop, vars
  <2> QED BY <2>1, ViewStays
<1> QED BY <1>1, <1>2, <1>3, <1>4, <1>5, <1>6, <1>7, <1>8, <1>9 DEF Next, Maintain

\* The engine implements the atomic store, step by step and for any sizes: with
\* one session, every step is to a reader of the pages a write, a commit, an
\* abort or a crash of AtomicStore, or no step at all. Dirty pages may be
\* evicted, and an undo log may overflow, as long as nothing crashes; or the
\* engine may crash, any number of times in the ways a restart repairs, as long
\* as nothing is evicted.
THEOREM EngineIsAtomic ==
    /\ MaxSessions = 1
    /\ Cardinality(Pages) <= Capacity \/ CrashPlan = <<>>
    /\ \A i \in 1 .. Len(CrashPlan) : CrashPlan[i][TRUE] \subseteq Repaired
    => (Spec => AtomicAndDurable)
<1> SUFFICES ASSUME MaxSessions = 1, Cardinality(Pages) <= Capacity \/ CrashPlan = <<>>,
                    \A i \in 1 .. Len(CrashPlan) : CrashPlan[i][TRUE] \subseteq Repaired
             PROVE  Spec => AtomicAndDurable
  OBVIOUS
<1>1. Sheltered /\ OnlyRepaired
  BY DEF NoSteal, Sheltered, OnlyRepaired
<1>2. Init => Sound
  BY InitSound, InitAtomic DEF Init, Sound
<1>3. Sound /\ [Next]_vars => Sound'
  BY <1>1, StepKeeps, AtomicStays, StaysRepaired DEF Sound
<1>4. Init => Store!Init
  <2> SUFFICES ASSUME Init PROVE Store!Init
    OBVIOUS
  <2>1. phase = "open" /\ running = {} /\ writes = <<>>
    BY DEF Init
  <2>2. DOMAIN writes = {}
    <3>1. writes \in Seq(History) /\ Len(writes) = 0
      BY <2>1, EmptySeq
    <3>2. DOMAIN writes = 1 .. 0
      BY <3>1, LenProperties
    <3> QED BY <3>2
  <2>3. Committed = [p \in Pages |-> {}]
    BY <2>2 DEF Committed
  <2>4. View = Committed
    BY <1>2, <2>1, ViewIs
  <2> QED BY <2>2, <2>3, <2>4 DEF Store!Init
<1>5. Sound /\ Sound' /\ [Next]_vars => [Store!Next]_(Store!avars)
  BY <1>1, StepRefines
<1> QED BY <1>2, <1>3, <1>4, <1>5, PTL DEF Spec, AtomicAndDurable, Store!Spec
=============================================================================

---------------------------- MODULE StorageProofs ----------------------------
(***************************************************************************)
(* The storage engine for any number of pages, transactions, sessions and  *)
(* frames, and any plan of crashes: its types, and the write-ahead rule as *)
(* flush_through keeps it. The argument bounds every LSN in the process    *)
(* and in its files by the place of the record that gave it out.           *)
(***************************************************************************)
EXTENDS Storage, SequenceFacts, FiniteSetTheorems

(* Lists.                                                                  *)

\* s lists the members of S, the highest first.
Lists(s, n, S) == s \in [1 .. n -> S] /\ \A i, j \in 1 .. n : i < j => s[i] > s[j]

\* A finite set of naturals can be listed from the highest member down. The
\* proof takes the least size at which that would fail.
LEMMA CanBeListed ==
    ASSUME NEW S \in SUBSET Nat, IsFiniteSet(S)
    PROVE  \E s : Lists(s, Cardinality(S), S)
<1> DEFINE Fails(n) == \E R \in SUBSET Nat : /\ IsFiniteSet(R) /\ Cardinality(R) = n
                                             /\ ~ \E s : Lists(s, n, R)
           T == {n \in Nat : Fails(n)}
<1>1. SUFFICES ASSUME T # {} PROVE FALSE
  <2>1. Cardinality(S) \in Nat
    BY FS_CardinalityType
  <2> QED BY <1>1, <2>1
<1>2. PICK n \in T : \A k \in T : n <= k
  <2>1. T \subseteq Nat
    OBVIOUS
  <2> HIDE DEF T
  <2> QED BY <1>1, <2>1, LeastNat
<1>3. PICK R \in SUBSET Nat : /\ IsFiniteSet(R) /\ Cardinality(R) = n
                              /\ ~ \E s : Lists(s, n, R)
  BY <1>2
<1>4. n \in Nat /\ n # 0
  <2>1. n \in Nat
    BY <1>2
  <2>2. ASSUME n = 0 PROVE FALSE
    <3>1. 1 .. 0 = {}
      OBVIOUS
    <3>2. [i \in 1 .. 0 |-> 0] \in [1 .. 0 -> R]
      BY <3>1
    <3>3. Lists([i \in 1 .. 0 |-> 0], 0, R)
      BY <3>1, <3>2 DEF Lists
    <3> QED BY <1>3, <2>2, <3>3
  <2> QED BY <2>1, <2>2
<1>5. R # {}
  BY <1>3, <1>4, FS_EmptySet
<1>6. PICK x \in R : \A y \in R : x <= y
  BY <1>5, LeastNat
<1> DEFINE Q == R \ {x}
<1>7. IsFiniteSet(Q) /\ Cardinality(Q) = n - 1 /\ Q \in SUBSET Nat
  BY <1>3, <1>6, FS_RemoveElement
<1>8. \A y \in Q : y > x
  BY <1>6
<1> HIDE DEF Q
<1>9. PICK q : Lists(q, n - 1, Q)
  <2>1. n - 1 \in Nat /\ ~(n <= n - 1)
    BY <1>4
  <2>2. n - 1 \notin T
    BY <1>2, <2>1
  <2> QED BY <1>7, <2>1, <2>2
<1> DEFINE s == [i \in 1 .. n |-> IF i = n THEN x ELSE q[i]]
<1>10. \A i \in 1 .. n : i # n => i \in 1 .. n - 1
  BY <1>4
<1>11. q \in [1 .. n - 1 -> Q] /\ \A i, j \in 1 .. n - 1 : i < j => q[i] > q[j]
  BY <1>9 DEF Lists
<1>12. \A i \in 1 .. n : i # n => q[i] \in Q
  BY <1>10, <1>11
<1>13. s \in [1 .. n -> R]
  BY <1>12 DEF Q
<1>14. ASSUME NEW i \in 1 .. n, NEW j \in 1 .. n, i < j
       PROVE  s[i] > s[j]
  <2>1. i # n
    BY <1>4, <1>14
  <2>2. CASE j = n
    BY <1>8, <1>12, <2>1, <2>2
  <2>3. CASE j # n
    BY <1>10, <1>11, <1>14, <2>1, <2>3
  <2> QED BY <2>2, <2>3
<1> HIDE DEF s
<1>15. Lists(s, n, R)
  BY <1>13, <1>14 DEF Lists
<1> QED BY <1>3, <1>15

\* What Descending returns.
LEMMA DescendingFacts ==
    ASSUME NEW S \in SUBSET Nat, IsFiniteSet(S)
    PROVE  Descending(S) \in Seq(S) /\ Len(Descending(S)) \in Nat
<1> DEFINE n == Cardinality(S)
<1>1. n \in Nat
  BY FS_CardinalityType
<1>2. \E s \in [1 .. n -> S] : \A i, j \in DOMAIN s : i < j => s[i] > s[j]
  <2>1. PICK s : Lists(s, n, S)
    BY CanBeListed
  <2>2. s \in [1 .. n -> S] /\ \A i, j \in 1 .. n : i < j => s[i] > s[j]
    BY <2>1 DEF Lists
  <2> QED BY <2>2
<1> HIDE DEF n
<1>3. Descending(S) \in [1 .. n -> S]
  BY <1>2 DEF Descending, n
<1> DEFINE t == Descending(S)
<1>4. t \in [1 .. n -> S]
  BY <1>3
<1> HIDE DEF t
<1>5. t \in Seq(S)
  BY <1>1, <1>4
<1> QED BY <1>5, LenProperties DEF t

\* Reverse keeps the elements.
LEMMA ReverseFacts ==
    ASSUME NEW S, NEW s \in Seq(S)
    PROVE  Reverse(s) \in Seq(S) /\ Len(Reverse(s)) = Len(s)
<1>1. Len(s) \in Nat /\ \A k \in 1 .. Len(s) : s[k] \in S
  BY LenProperties, ElementOfSeq
<1>2. \A i \in 1 .. Len(s) : Len(s) - i + 1 \in 1 .. Len(s)
  BY <1>1
<1>3. \A i \in 1 .. Len(s) : s[Len(s) - i + 1] \in S
  BY <1>1, <1>2
<1> DEFINE n == Len(s)
           e(i) == s[n - i + 1]
<1>4. n \in Nat /\ \A i \in 1 .. n : e(i) \in S
  BY <1>1, <1>3
<1>5. Reverse(s) = [i \in 1 .. n |-> e(i)]
  BY DEF Reverse
<1> HIDE DEF n, e
<1>6. [i \in 1 .. n |-> e(i)] \in Seq(S) /\ Len([i \in 1 .. n |-> e(i)]) = n
  BY <1>4
<1> QED BY <1>5, <1>6 DEF n

\* What Ascending returns.
LEMMA AscendingFacts ==
    ASSUME NEW S \in SUBSET Nat, IsFiniteSet(S)
    PROVE  Ascending(S) \in Seq(S) /\ Len(Ascending(S)) \in Nat
BY DescendingFacts, ReverseFacts DEF Ascending

\* A prefix.
LEMMA PrefixFacts ==
    ASSUME NEW S, NEW s \in Seq(S), NEW n \in 0 .. Len(s)
    PROVE  /\ SubSeq(s, 1, n) \in Seq(S) /\ Len(SubSeq(s, 1, n)) = n
           /\ \A k \in 1 .. n : SubSeq(s, 1, n)[k] = s[k]
<1>1. Len(s) \in Nat /\ n \in Nat /\ \A k \in 1 .. Len(s) : s[k] \in S
  BY LenProperties, ElementOfSeq
<1>2. \A k \in 1 .. n : s[k] \in S
  BY <1>1
<1>3. n = (IF 1 <= n THEN n - 1 + 1 ELSE 0) /\ \A k \in 1 .. n : k \in 1 .. n - 1 + 1 /\ 1 + k - 1 = k
  BY <1>1
<1> DEFINE t == SubSeq(s, 1, n)
<1>4. /\ t \in Seq(S) /\ Len(t) = IF 1 <= n THEN n - 1 + 1 ELSE 0
      /\ \A k \in 1 .. n - 1 + 1 : t[k] = s[1 + k - 1]
  BY <1>1, <1>2, SubSeqProperties
<1> HIDE DEF t
<1>5. \A k \in 1 .. n : t[k] = s[k]
  BY <1>3, <1>4
<1>6. t \in Seq(S) /\ Len(t) = n
  BY <1>3, <1>4
<1> QED BY <1>5, <1>6 DEF t

\* The greatest of some numbers below a bound, and the least.
LEMMA MaxFacts ==
    ASSUME NEW n \in Nat, NEW T, T \subseteq 0 .. n, T # {}
    PROVE  Max(T) \in T /\ Max(T) \in 0 .. n
<1>1. T \subseteq Nat /\ \A y \in T : y <= n
  OBVIOUS
<1>2. \E x \in T : \A y \in T : y <= x
  BY <1>1, GreatestNat
<1>3. \E x \in T : \A y \in T : x >= y
  BY <1>1, <1>2
<1>4. Max(T) \in T
  BY <1>3 DEF Max
<1> QED BY <1>4

\* The least of some numbers.
LEMMA MinFacts ==
    ASSUME NEW T, T \subseteq Nat, T # {}
    PROVE  Min(T) \in T
<1>1. \E x \in T : \A y \in T : x <= y
  BY LeastNat
<1> QED BY <1>1 DEF Min
---------------------------------------------------------------------------
(* The inductive invariant.                                                *)

\* The plan has no crash between truncating the log and writing the meta
\* page. After that one the log starts again at an LSN its pages have passed.
NeverTruncated == \A i \in 1 .. Len(CrashPlan), r \in BOOLEAN : "truncated" \notin CrashPlan[i][r]

\* No such crash has struck.
Continuous == crashes.repaired \/ NeverTruncated

\* A record's LSN is at most the LSN of its place, when the list starts at
\* base, and its images are no newer than the record.
RecordsBounded(s, base) ==
    \A i \in 1 .. Len(s) : /\ s[i].lsn <= base + i - 1
                           /\ s[i].before.lsn <= s[i].lsn
                           /\ s[i].after.lsn <= s[i].lsn

\* A frame has no newer LSN than n, and an older one when it is dirty.
FramesBounded(frames, n) ==
    \A p \in Pages : /\ frames[p].image.lsn <= n
                     /\ frames[p].dirty => frames[p].image.lsn < n

PagesBounded(d, n) == \A p \in Pages : d[p].lsn <= n

\* The LSN no page of the file has passed. Once the meta page is restamped
\* the log is as good as empty.
FileTop == IF phase = "restamped" THEN metaLsn ELSE flushed_lsn

LsnsBounded ==
    /\ RecordsBounded(log, metaLsn)
    /\ RecordsBounded(buffer, flushed_lsn)
    /\ FramesBounded(pool, next_lsn)
    /\ PagesBounded(disk, FileTop)

\* While the database is being opened nothing is staged or in a frame.
QuietMemory ==
    phase \in {"down", "redone", "restamped"} =>
        buffer = <<>> /\ \A p \in Pages : pool[p] = NoFrame

IInv == TypeOK /\ QuietMemory /\ (Continuous => LsnsBounded)

---------------------------------------------------------------------------
(* Lists of log records.                                                   *)

\* Members of the types.
LEMMA ConstantsTyped ==
    /\ NoImage \in Images /\ BlankImage \in Images /\ NoFrame \in Frames
    /\ AnyPage \in Pages
    /\ \A i \in Images, d \in BOOLEAN : Frame(i, d) \in Frames
<1>1. NoImage \in Images /\ BlankImage \in Images
  BY DEF NoImage, BlankImage, Images
<1>2. NoFrame \in Frames
  BY <1>1 DEF NoFrame, Frames
<1>3. AnyPage \in Pages
  BY BoundsAssumption DEF AnyPage
<1> QED BY <1>1, <1>2, <1>3 DEF Frame, Frames

\* A record, and its images.
LEMMA RecordTyped ==
    ASSUME NEW type \in {"update", "commit", "abort", "torn"}, NEW x \in 0 .. MaxXid,
           NEW p \in Pages, NEW before \in Images, NEW after \in Images, NEW lsn \in Nat
    PROVE  /\ Record(type, x, p, before, after, lsn) \in Records
           /\ Record(type, x, p, before, after, lsn).lsn = lsn
           /\ Record(type, x, p, before, after, lsn).before = before
           /\ Record(type, x, p, before, after, lsn).after = after
BY DEF Record, Records

\* A record that ends a transaction, or the torn one.
LEMMA EndingTyped ==
    ASSUME NEW type \in {"update", "commit", "abort", "torn"}, NEW x \in 0 .. MaxXid,
           NEW lsn \in Nat
    PROVE  /\ Ending(type, x, lsn) \in Records
           /\ Ending(type, x, lsn).lsn = lsn
           /\ Ending(type, x, lsn).before.lsn = -1
           /\ Ending(type, x, lsn).after.lsn = -1
BY ConstantsTyped, RecordTyped DEF Ending, NoImage

\* The fields of a record.
LEMMA RecordFields ==
    ASSUME NEW r \in Records
    PROVE  /\ r.type \in {"update", "commit", "abort", "torn"} /\ r.txn \in 0 .. MaxXid
           /\ r.page \in Pages /\ r.before \in Images /\ r.after \in Images /\ r.lsn \in Nat
           /\ r.before.lsn \in Int /\ r.after.lsn \in Int
BY DEF Records, Images

\* One list of records after the other.
LEMMA ConcatRecords ==
    ASSUME NEW s \in Seq(Records), NEW t \in Seq(Records), NEW base \in Nat
    PROVE  /\ s \o t \in Seq(Records) /\ Len(s \o t) = Len(s) + Len(t)
           /\ RecordsBounded(s, base) /\ RecordsBounded(t, base + Len(s))
                 => RecordsBounded(s \o t, base)
<1>1. Len(s) \in Nat /\ Len(t) \in Nat
  BY LenProperties
<1> DEFINE c == s \o t
<1>2. /\ c \in Seq(Records) /\ Len(c) = Len(s) + Len(t)
      /\ \A k \in 1 .. Len(s) + Len(t) : c[k] = IF k <= Len(s) THEN s[k] ELSE t[k - Len(s)]
  BY ConcatProperties
<1> HIDE DEF c
<1>3. ASSUME RecordsBounded(s, base), RecordsBounded(t, base + Len(s)), NEW k \in 1 .. Len(c)
      PROVE  /\ c[k].lsn <= base + k - 1
             /\ c[k].before.lsn <= c[k].lsn /\ c[k].after.lsn <= c[k].lsn
  <2>1. CASE k <= Len(s)
    <3>1. k \in 1 .. Len(s) /\ c[k] = s[k]
      BY <1>1, <1>2, <2>1
    <3> QED BY <1>3, <3>1 DEF RecordsBounded
  <2>2. CASE ~(k <= Len(s))
    <3>1. k - Len(s) \in 1 .. Len(t) /\ c[k] = t[k - Len(s)]
      BY <1>1, <1>2, <2>2
    <3>2. base + Len(s) + (k - Len(s)) - 1 = base + k - 1
      BY <1>1, <1>2
    <3>3. /\ c[k].lsn <= base + Len(s) + (k - Len(s)) - 1
          /\ c[k].before.lsn <= c[k].lsn /\ c[k].after.lsn <= c[k].lsn
      BY <1>3, <3>1 DEF RecordsBounded
    <3> QED BY <3>2, <3>3
  <2> QED BY <2>1, <2>2
<1>4. RecordsBounded(s, base) /\ RecordsBounded(t, base + Len(s)) => RecordsBounded(c, base)
  BY <1>3 DEF RecordsBounded
<1> QED BY <1>2, <1>4 DEF c

\* A record more.
LEMMA AppendRecord ==
    ASSUME NEW s \in Seq(Records), NEW r \in Records, NEW base \in Nat
    PROVE  /\ Append(s, r) \in Seq(Records) /\ Len(Append(s, r)) = Len(s) + 1
           /\ /\ RecordsBounded(s, base) /\ r.lsn <= base + Len(s)
              /\ r.before.lsn <= r.lsn /\ r.after.lsn <= r.lsn
              => RecordsBounded(Append(s, r), base)
<1>1. Len(s) \in Nat
  BY LenProperties
<1> DEFINE c == Append(s, r)
<1>2. /\ c \in Seq(Records) /\ Len(c) = Len(s) + 1
      /\ \A k \in 1 .. Len(s) + 1 : c[k] = IF k <= Len(s) THEN s[k] ELSE r
  BY AppendFacts
<1> HIDE DEF c
<1>3. ASSUME RecordsBounded(s, base), r.lsn <= base + Len(s), r.before.lsn <= r.lsn,
             r.after.lsn <= r.lsn, NEW k \in 1 .. Len(c)
      PROVE  /\ c[k].lsn <= base + k - 1
             /\ c[k].before.lsn <= c[k].lsn /\ c[k].after.lsn <= c[k].lsn
  <2>1. CASE k <= Len(s)
    <3>1. k \in 1 .. Len(s) /\ c[k] = s[k]
      BY <1>1, <1>2, <2>1
    <3> QED BY <1>3, <3>1 DEF RecordsBounded
  <2>2. CASE ~(k <= Len(s))
    <3>1. k = Len(s) + 1 /\ c[k] = r
      BY <1>1, <1>2, <2>2
    <3>2. base + k - 1 = base + Len(s)
      BY <1>1, <3>1
    <3> QED BY <1>3, <3>1, <3>2
  <2> QED BY <2>1, <2>2
<1>4. /\ RecordsBounded(s, base) /\ r.lsn <= base + Len(s)
      /\ r.before.lsn <= r.lsn /\ r.after.lsn <= r.lsn
      => RecordsBounded(c, base)
  BY <1>3 DEF RecordsBounded
<1> QED BY <1>2, <1>4 DEF c

\* The tail record with another after-image.
LEMMA ReplaceTail ==
    ASSUME NEW s \in Seq(Records), s # <<>>, NEW image \in Images, NEW base \in Nat
    PROVE  /\ [s EXCEPT ![Len(s)].after = image] \in Seq(Records)
           /\ Len([s EXCEPT ![Len(s)].after = image]) = Len(s)
           /\ Last(s) \in Records
           /\ RecordsBounded(s, base) => Last(s).lsn < base + Len(s)
           /\ RecordsBounded(s, base) /\ image.lsn <= Last(s).lsn
                 => RecordsBounded([s EXCEPT ![Len(s)].after = image], base)
<1>1. Len(s) \in Nat \ {0} /\ \A k \in 1 .. Len(s) : s[k] \in Records
  BY LenProperties, ElementOfSeq, EmptySeq
<1> DEFINE n == Len(s)
           r == [s[n] EXCEPT !.after = image]
           c == [s EXCEPT ![n] = r]
<1>2. n \in 1 .. n /\ n \in Nat
  BY <1>1
<1>3. s[n] \in Records /\ Last(s) = s[n]
  BY <1>1, <1>2 DEF Last
<1>4. /\ r \in Records /\ r.lsn = s[n].lsn /\ r.before = s[n].before /\ r.after = image
  BY <1>3 DEF Records
<1>5. s[n].lsn \in Nat
  BY <1>3, RecordFields
<1> HIDE DEF r
<1>6. c \in Seq(Records) /\ Len(c) = n /\ \A k \in 1 .. n : c[k] = IF k = n THEN r ELSE s[k]
  <2>1. s \in [1 .. n -> Records]
    BY <1>1, LenProperties
  <2>2. c \in [1 .. n -> Records] /\ \A k \in 1 .. n : c[k] = IF k = n THEN r ELSE s[k]
    BY <1>4, <2>1
  <2>3. n \in Nat
    BY <1>2
  <2> HIDE DEF c, n
  <2>4. c \in Seq(Records) /\ Len(c) = n
    BY <2>2, <2>3
  <2> QED BY <2>2, <2>4
<1>7. [s EXCEPT ![Len(s)].after = image] = c
  BY DEF r
<1> HIDE DEF c
<1>8. ASSUME RecordsBounded(s, base)
      PROVE  s[n].lsn < base + n
  <2>1. s[n].lsn <= base + n - 1
    BY <1>2, <1>8 DEF RecordsBounded
  <2> HIDE DEF n
  <2> QED BY <1>2, <1>5, <2>1
<1>9. ASSUME RecordsBounded(s, base), image.lsn <= s[n].lsn, NEW k \in 1 .. Len(c)
      PROVE  /\ c[k].lsn <= base + k - 1
             /\ c[k].before.lsn <= c[k].lsn /\ c[k].after.lsn <= c[k].lsn
  <2>1. k \in 1 .. n /\ c[k] = IF k = n THEN r ELSE s[k]
    BY <1>6
  <2>2. /\ s[k].lsn <= base + k - 1 /\ s[k].before.lsn <= s[k].lsn /\ s[k].after.lsn <= s[k].lsn
    BY <1>9, <2>1 DEF RecordsBounded
  <2> HIDE DEF n
  <2>3. CASE k = n
    BY <1>4, <1>9, <2>1, <2>2, <2>3
  <2>4. CASE k # n
    BY <2>1, <2>2, <2>4
  <2> QED BY <2>3, <2>4
<1>10. RecordsBounded(s, base) /\ image.lsn <= s[n].lsn => RecordsBounded(c, base)
  BY <1>9 DEF RecordsBounded
<1> QED BY <1>3, <1>6, <1>7, <1>8, <1>10

\* The first n records.
LEMMA PrefixRecords ==
    ASSUME NEW s \in Seq(Records), NEW n \in 0 .. Len(s), NEW base \in Nat
    PROVE  /\ SubSeq(s, 1, n) \in Seq(Records) /\ Len(SubSeq(s, 1, n)) = n
           /\ \A k \in 1 .. n : SubSeq(s, 1, n)[k] = s[k]
           /\ RecordsBounded(s, base) => RecordsBounded(SubSeq(s, 1, n), base)
<1>1. Len(s) \in Nat /\ n \in Nat
  BY LenProperties
<1> DEFINE c == SubSeq(s, 1, n)
<1>2. c \in Seq(Records) /\ Len(c) = n /\ \A k \in 1 .. n : c[k] = s[k]
  BY PrefixFacts
<1> HIDE DEF c
<1>3. \A k \in 1 .. n : k \in 1 .. Len(s)
  BY <1>1
<1>4. RecordsBounded(s, base) => RecordsBounded(c, base)
  BY <1>2, <1>3 DEF RecordsBounded
<1> QED BY <1>2, <1>4 DEF c

\* A base further on bounds what the base bounds; and no record is bounded.
LEMMA BoundsMove ==
    ASSUME NEW s \in Seq(Records), NEW a \in Nat, NEW b \in Nat, a <= b, RecordsBounded(s, a)
    PROVE  RecordsBounded(s, b)
<1>1. Len(s) \in Nat /\ \A k \in 1 .. Len(s) : s[k] \in Records
  BY LenProperties, ElementOfSeq
<1>2. ASSUME NEW k \in 1 .. Len(s)
      PROVE  s[k].lsn <= b + k - 1
  <2>1. s[k].lsn <= a + k - 1 /\ s[k].lsn \in Nat
    BY <1>1, RecordFields DEF RecordsBounded
  <2> QED BY <1>1, <2>1
<1> QED BY <1>2 DEF RecordsBounded

\* The empty list.
LEMMA NoRecords == \A base : RecordsBounded(<<>>, base)
BY DEF RecordsBounded

---------------------------------------------------------------------------
(* The log and the pages in one step.                                      *)

\* The part of TypeOK about the files, the staged records and the frames, for
\* given values of them; and the bounds on their LSNs.
StoreIsSound(d, m, l, b, f, top) ==
    /\ d \in [Pages -> Images] /\ m \in Nat
    /\ l \in Seq(Records) /\ b \in Seq(Records) /\ f \in [Pages -> Frames]
    /\ Continuous => /\ RecordsBounded(l, m)
                     /\ RecordsBounded(b, m + Len(l))
                     /\ FramesBounded(f, m + Len(l) + Len(b))
                     /\ PagesBounded(d, top)

\* The rest of TypeOK.
OthersTyped ==
    /\ metaXid \in 1 .. MaxXid + 1
    /\ undo \in [Xids -> [captured : SUBSET Pages, images : Seq(UndoImages)]]
    /\ nextXid \in 1 .. MaxXid + 1
    /\ phase \in {"open", "rollback", "down", "redone", "restamped"}
    /\ rolling \in [txn : 0 .. MaxXid, todo : Seq(UndoImages)]
    /\ found \in 0 .. MaxXid
    /\ running \subseteq Xids
    /\ writes \in Seq([page : Pages, txn : Xids, fate : Fates])
    /\ Len(writes) <= MaxWrites
    /\ crashes \in [struck : 0 .. Len(CrashPlan), repaired : BOOLEAN]

\* The parts make the invariant.
LEMMA Parts ==
    IInv <=> /\ OthersTyped /\ QuietMemory
             /\ StoreIsSound(disk, metaLsn, log, buffer, pool, FileTop)
BY DEF IInv, TypeOK, OthersTyped, StoreIsSound, LsnsBounded, flushed_lsn, next_lsn

\* The numbers of the log.
LEMMA LogNumbers ==
    ASSUME IInv
    PROVE  /\ log \in Seq(Records) /\ buffer \in Seq(Records) /\ metaLsn \in Nat
           /\ Len(log) \in Nat /\ Len(buffer) \in Nat
           /\ flushed_lsn \in Nat /\ flushed_lsn = metaLsn + Len(log) /\ metaLsn <= flushed_lsn
           /\ next_lsn \in Nat /\ next_lsn = flushed_lsn + Len(buffer) /\ flushed_lsn <= next_lsn
<1>1. log \in Seq(Records) /\ buffer \in Seq(Records) /\ metaLsn \in Nat
  BY DEF IInv, TypeOK
<1>2. Len(log) \in Nat /\ Len(buffer) \in Nat
  BY <1>1, LenProperties
<1> QED BY <1>1, <1>2 DEF flushed_lsn, next_lsn

\* The bounds on the frames and on the pages of the file, in a later log.
LEMMA PagesMove ==
    ASSUME NEW a \in Int, NEW b \in Int, a <= b
    PROVE  /\ \A f \in [Pages -> Frames] : FramesBounded(f, a) => FramesBounded(f, b)
           /\ \A d \in [Pages -> Images] : PagesBounded(d, a) => PagesBounded(d, b)
<1>1. ASSUME NEW f \in [Pages -> Frames], FramesBounded(f, a), NEW p \in Pages
      PROVE  f[p].image.lsn <= b /\ (f[p].dirty => f[p].image.lsn < b)
  <2>1. f[p] \in Frames
    OBVIOUS
  <2>2. f[p].image.lsn \in Int
    BY <2>1 DEF Frames, Images
  <2>3. f[p].image.lsn <= a /\ (f[p].dirty => f[p].image.lsn < a)
    BY <1>1 DEF FramesBounded
  <2> QED BY <2>2, <2>3
<1>2. ASSUME NEW d \in [Pages -> Images], PagesBounded(d, a), NEW p \in Pages
      PROVE  d[p].lsn <= b
  <2>1. d[p] \in Images
    OBVIOUS
  <2>2. d[p].lsn \in Int
    BY <2>1 DEF Images
  <2>3. d[p].lsn <= a
    BY <1>2 DEF PagesBounded
  <2> QED BY <2>2, <2>3
<1> QED BY <1>1, <1>2 DEF FramesBounded, PagesBounded

\* A flush.
LEMMA FlushFacts ==
    ASSUME IInv
    PROVE  /\ log \o buffer \in Seq(Records) /\ metaLsn + Len(log \o buffer) = next_lsn
           /\ Continuous => RecordsBounded(log \o buffer, metaLsn)
<1>1. Continuous => RecordsBounded(log, metaLsn) /\ RecordsBounded(buffer, metaLsn + Len(log))
  BY DEF IInv, LsnsBounded, flushed_lsn
<1>2. /\ log \o buffer \in Seq(Records) /\ Len(log \o buffer) = Len(log) + Len(buffer)
      /\ RecordsBounded(log, metaLsn) /\ RecordsBounded(buffer, metaLsn + Len(log))
            => RecordsBounded(log \o buffer, metaLsn)
  BY LogNumbers, ConcatRecords
<1> DEFINE n == Len(log \o buffer)
<1>3. n = Len(log) + Len(buffer)
  BY <1>2
<1> HIDE DEF n
<1>4. metaLsn + n = next_lsn
  BY <1>3, LogNumbers
<1> QED BY <1>1, <1>2, <1>4 DEF n

\* The record that ends a transaction, staged.
LEMMA EndingStaged ==
    ASSUME IInv, NEW type \in {"commit", "abort"}, NEW x \in 0 .. MaxXid
    PROVE  /\ Append(buffer, Ending(type, x, next_lsn)) \in Seq(Records)
           /\ Len(Append(buffer, Ending(type, x, next_lsn))) = Len(buffer) + 1
           /\ Continuous =>
                 RecordsBounded(Append(buffer, Ending(type, x, next_lsn)), flushed_lsn)
<1> DEFINE r == Ending(type, x, next_lsn)
<1>1. r \in Records /\ r.lsn = next_lsn /\ r.before.lsn = -1 /\ r.after.lsn = -1
  BY LogNumbers, EndingTyped
<1> HIDE DEF r
<1>2. r.lsn <= flushed_lsn + Len(buffer) /\ r.before.lsn <= r.lsn /\ r.after.lsn <= r.lsn
  BY <1>1, LogNumbers
<1>3. Continuous => RecordsBounded(buffer, flushed_lsn)
  BY DEF IInv, LsnsBounded
<1>4. /\ Append(buffer, r) \in Seq(Records) /\ Len(Append(buffer, r)) = Len(buffer) + 1
      /\ RecordsBounded(buffer, flushed_lsn) => RecordsBounded(Append(buffer, r), flushed_lsn)
  BY <1>1, <1>2, LogNumbers, AppendRecord
<1> QED BY <1>3, <1>4 DEF r

\* An update, staged or merged into the staged tail: the page's new LSN lies
\* below the end of the log.
LEMMA UpdateStaged ==
    ASSUME IInv, NEW x \in 0 .. MaxXid, NEW p \in Pages, NEW before \in Images,
           NEW image \in Images, image.lsn = update_lsn(x, p),
           Continuous => before.lsn <= next_lsn
    PROVE  /\ append_update(x, p, before, image) \in Seq(Records)
           /\ Len(append_update(x, p, before, image)) \in Nat
           /\ Len(append_update(x, p, before, image)) >= Len(buffer)
           /\ Continuous =>
                 /\ RecordsBounded(append_update(x, p, before, image), flushed_lsn)
                 /\ image.lsn < flushed_lsn + Len(append_update(x, p, before, image))
<1>1. Continuous => RecordsBounded(buffer, flushed_lsn)
  BY DEF IInv, LsnsBounded
<1> DEFINE b == append_update(x, p, before, image)
<1>2. CASE supersedes(x, p)
  <2>1. buffer # <<>> /\ image.lsn = Last(buffer).lsn
    BY <1>2 DEF supersedes, update_lsn
  <2>2. b = [buffer EXCEPT ![Len(buffer)].after = image]
    BY <1>2 DEF append_update
  <2> HIDE DEF b
  <2>3. /\ b \in Seq(Records) /\ Len(b) = Len(buffer) /\ Last(buffer) \in Records
        /\ RecordsBounded(buffer, flushed_lsn) => Last(buffer).lsn < flushed_lsn + Len(buffer)
        /\ RecordsBounded(buffer, flushed_lsn) /\ image.lsn <= Last(buffer).lsn
              => RecordsBounded(b, flushed_lsn)
    BY <2>1, <2>2, LogNumbers, ReplaceTail
  <2>4. Last(buffer).lsn \in Nat
    BY <2>3, RecordFields
  <2>5. image.lsn <= Last(buffer).lsn
    BY <2>1, <2>4
  <2> QED BY <1>1, <2>1, <2>3, <2>5, LogNumbers DEF b
<1>3. CASE ~supersedes(x, p)
  <2> DEFINE r == Record("update", x, p, before, image, next_lsn)
  <2>1. image.lsn = next_lsn
    BY <1>3 DEF update_lsn
  <2>2. b = Append(buffer, r)
    BY <1>3 DEF append_update
  <2>3. r \in Records /\ r.lsn = next_lsn /\ r.before = before /\ r.after = image
    BY LogNumbers, RecordTyped
  <2> HIDE DEF b, r
  <2>4. r.lsn <= flushed_lsn + Len(buffer) /\ r.after.lsn <= r.lsn
    BY <2>1, <2>3, LogNumbers
  <2>5. Continuous => r.before.lsn <= r.lsn
    BY <2>3
  <2>6. /\ b \in Seq(Records) /\ Len(b) = Len(buffer) + 1
        /\ /\ RecordsBounded(buffer, flushed_lsn) /\ r.lsn <= flushed_lsn + Len(buffer)
           /\ r.before.lsn <= r.lsn /\ r.after.lsn <= r.lsn
           => RecordsBounded(b, flushed_lsn)
    BY <2>2, <2>3, LogNumbers, AppendRecord
  <2>7. image.lsn < flushed_lsn + Len(b) /\ Len(b) \in Nat /\ Len(b) >= Len(buffer)
    BY <2>1, <2>6, LogNumbers
  <2> QED BY <1>1, <2>4, <2>5, <2>6, <2>7 DEF b
<1> QED BY <1>2, <1>3

---------------------------------------------------------------------------
(* What the operators of the model return.                                 *)

UndoLogs == [captured : SUBSET Pages, images : Seq(UndoImages)]
History == [page : Pages, txn : Xids, fate : Fates]

\* A transaction id is one that is not NO_TRANSACTION.
LEMMA XidFacts == MaxXid \in Nat \ {0} /\ 0 \in 0 .. MaxXid /\ \A x \in Xids : x \in 0 .. MaxXid
BY BoundsAssumption DEF Xids

\* An update's LSN.
LEMMA UpdateLsnTyped ==
    ASSUME IInv, NEW x, NEW p
    PROVE  update_lsn(x, p) \in Nat
<1>1. CASE supersedes(x, p)
  <2>1. buffer # <<>> /\ update_lsn(x, p) = Last(buffer).lsn
    BY <1>1 DEF supersedes, update_lsn
  <2>2. Len(buffer) \in 1 .. Len(buffer)
    BY <2>1, LogNumbers, EmptySeq
  <2>3. Last(buffer) \in Records
    BY <2>2, LogNumbers, ElementOfSeq DEF Last
  <2> QED BY <2>1, <2>3, RecordFields
<1>2. CASE ~supersedes(x, p)
  BY <1>2, LogNumbers DEF update_lsn
<1> QED BY <1>1, <1>2

\* UndoLog.capture.
LEMMA CaptureTyped ==
    ASSUME NEW u \in UndoLogs, NEW p \in Pages, NEW image \in Images
    PROVE  capture(u, p, image) \in UndoLogs
<1>1. u.captured \in SUBSET Pages /\ u.images \in Seq(UndoImages)
  BY DEF UndoLogs
<1> DEFINE e == [page |-> p, image |-> image]
<1>2. e \in UndoImages
  BY DEF UndoImages
<1> HIDE DEF e
<1>3. Append(u.images, e) \in Seq(UndoImages)
  BY <1>1, <1>2, AppendProperties
<1>4. CASE p \in u.captured
  BY <1>4 DEF capture
<1>5. CASE p \notin u.captured
  <2>1. capture(u, p, image) =
           [captured |-> u.captured \union {p},
            images |-> IF Len(u.images) < UndoCap THEN Append(u.images, e) ELSE u.images]
    BY <1>5 DEF capture, e
  <2>2. (IF Len(u.images) < UndoCap THEN Append(u.images, e) ELSE u.images) \in Seq(UndoImages)
    BY <1>1, <1>3
  <2> QED BY <1>1, <2>1, <2>2 DEF UndoLogs
<1> QED BY <1>4, <1>5

\* The history with other fates.
LEMMA FatesTyped ==
    ASSUME NEW w \in Seq(History), Len(w) <= MaxWrites, NEW v, DOMAIN v = DOMAIN w,
           v = [n \in DOMAIN v |-> v[n]],
           \A n \in DOMAIN w : v[n] = w[n] \/ \E fate \in Fates : v[n] = [w[n] EXCEPT !.fate = fate]
    PROVE  v \in Seq(History) /\ Len(v) <= MaxWrites
<1> DEFINE k == Len(w)
<1>1. k \in Nat /\ DOMAIN w = 1 .. k /\ \A n \in 1 .. k : w[n] \in History
  BY LenProperties, ElementOfSeq
<1>2. ASSUME NEW n \in 1 .. k PROVE v[n] \in History
  <2>1. w[n] \in History
    BY <1>1
  <2>2. \A r \in History, fate \in Fates : [r EXCEPT !.fate = fate] \in History
    BY DEF History
  <2> QED BY <1>1, <2>1, <2>2
<1> HIDE DEF k
<1>3. v \in [1 .. k -> History]
  BY <1>1, <1>2
<1>4. v \in Seq(History) /\ Len(v) = k
  BY <1>1, <1>3
<1> QED BY <1>4 DEF k

\* What a transaction's end leaves.
LEMMA EndsTyped ==
    ASSUME OthersTyped, NEW x, NEW fate \in Fates, Ends(x, fate)
    PROVE  /\ running' \subseteq Xids
           /\ undo' \in [Xids -> UndoLogs]
           /\ writes' \in Seq(History) /\ Len(writes') <= MaxWrites
<1>1. NoUndo \in UndoLogs
  BY EmptySeq DEF NoUndo, UndoLogs
<1>2. undo \in [Xids -> UndoLogs] /\ writes \in Seq(History) /\ Len(writes) <= MaxWrites
  BY DEF OthersTyped, UndoLogs, History
<1>3. undo' \in [Xids -> UndoLogs]
  BY <1>1, <1>2 DEF Ends
<1>4. running' \subseteq Xids
  BY DEF Ends, OthersTyped
<1> DEFINE v == Settled({x}, fate)
<1>5. v \in Seq(History) /\ Len(v) <= MaxWrites
  <2>1. /\ DOMAIN v = DOMAIN writes /\ v = [n \in DOMAIN v |-> v[n]]
        /\ \A n \in DOMAIN writes :
              v[n] = writes[n] \/ \E g \in Fates : v[n] = [writes[n] EXCEPT !.fate = g]
    BY DEF Settled
  <2> HIDE DEF v
  <2> QED BY <1>2, <2>1, FatesTyped
<1>6. writes' = v
  BY DEF Ends
<1> HIDE DEF v
<1> QED BY <1>3, <1>4, <1>5, <1>6

\* The whole records of a log are a prefix of it.
LEMMA ReadAllFacts ==
    ASSUME NEW s \in Seq(Records), NEW base \in Nat
    PROVE  /\ read_all(s, base) \in Seq(Records)
           /\ RecordsBounded(s, base) => RecordsBounded(read_all(s, base), base)
           /\ Len(read_all(s, base)) \in Nat /\ Len(read_all(s, base)) <= Len(s)
<1> DEFINE whole(i) == s[i].type # "torn" /\ s[i].lsn = base + i - 1
           T == {k \in 0 .. Len(s) : \A i \in 1 .. k : whole(i)}
           n == Max(T)
<1>1. Len(s) \in Nat
  BY LenProperties
<1>2. T \subseteq 0 .. Len(s) /\ 0 \in T
  BY <1>1
<1> HIDE DEF T
<1>3. n \in 0 .. Len(s)
  BY <1>1, <1>2, MaxFacts
<1>4. read_all(s, base) = SubSeq(s, 1, n)
  BY DEF read_all, T
<1> HIDE DEF n
<1>5. /\ SubSeq(s, 1, n) \in Seq(Records) /\ Len(SubSeq(s, 1, n)) = n
      /\ RecordsBounded(s, base) => RecordsBounded(SubSeq(s, 1, n), base)
  BY <1>3, PrefixRecords
<1>6. n \in Nat /\ n <= Len(s)
  BY <1>1, <1>3
<1> QED BY <1>4, <1>5, <1>6

\* A set of places in a list.
LEMMA PlacesFacts ==
    ASSUME NEW s \in Seq(Records), NEW T, T \subseteq DOMAIN s
    PROVE  /\ T \in SUBSET Nat /\ IsFiniteSet(T) /\ T \subseteq 1 .. Len(s)
           /\ \A i \in T : s[i] \in Records
<1>1. Len(s) \in Nat /\ DOMAIN s = 1 .. Len(s) /\ \A k \in 1 .. Len(s) : s[k] \in Records
  BY LenProperties, ElementOfSeq
<1>2. IsFiniteSet(1 .. Len(s))
  BY <1>1, FS_Interval
<1>3. IsFiniteSet(T)
  BY <1>1, <1>2, FS_Subset
<1> QED BY <1>1, <1>3

\* The images _restore_from_wal takes from the log.
LEMMA WalImagesTyped ==
    ASSUME NEW x, NEW records \in Seq(Records)
    PROVE  wal_images(x, records) \in Seq(UndoImages)
<1> DEFINE mine == {i \in DOMAIN records : records[i].txn = x /\ records[i].hasUndo}
           first == {i \in mine : \A j \in mine : j < i => records[j].page # records[i].page}
           keep == Ascending(first)
           n == Len(keep)
           e(i) == [page |-> records[keep[i]].page, image |-> records[keep[i]].before]
           w == [i \in 1 .. n |-> e(i)]
<1>1. first \subseteq DOMAIN records
  OBVIOUS
<1> HIDE DEF first
<1>2. first \in SUBSET Nat /\ IsFiniteSet(first) /\ \A i \in first : records[i] \in Records
  BY <1>1, PlacesFacts
<1>3. keep \in Seq(first) /\ n \in Nat
  BY <1>2, AscendingFacts
<1> HIDE DEF keep
<1>4. DOMAIN keep = 1 .. n /\ \A i \in 1 .. n : keep[i] \in first
  BY <1>3, LenProperties, ElementOfSeq
<1>5. ASSUME NEW i \in 1 .. n PROVE e(i) \in UndoImages
  <2>1. records[keep[i]] \in Records
    BY <1>2, <1>4
  <2>2. records[keep[i]].page \in Pages /\ records[keep[i]].before \in Images
    BY <2>1, RecordFields
  <2> QED BY <2>2 DEF UndoImages
<1>6. w = [i \in DOMAIN keep |-> e(i)]
  BY <1>4
<1>7. wal_images(x, records) = w
  BY <1>6 DEF wal_images, keep, first
<1> HIDE DEF n, e
<1>8. w \in Seq(UndoImages)
  BY <1>3, <1>5
<1> QED BY <1>7, <1>8

---------------------------------------------------------------------------
(* The steps of an open database.                                          *)

Running == {"open", "rollback"}

\* A step of an open database leaves the invariant, if it leaves the store
\* sound and the rest typed.
LEMMA Assembled ==
    ASSUME phase' \in Running, OthersTyped', UNCHANGED crashes,
           StoreIsSound(disk', metaLsn', log', buffer', pool', metaLsn' + Len(log'))
    PROVE  IInv'
<1>1. IInv' <=> /\ OthersTyped' /\ QuietMemory'
                /\ StoreIsSound(disk, metaLsn, log, buffer, pool, FileTop)'
  BY Parts, PTL
<1>2. Continuous' = Continuous
  BY DEF Continuous
<1>3. FileTop' = metaLsn' + Len(log')
  BY DEF FileTop, Running, flushed_lsn
<1>4. QuietMemory'
  BY DEF QuietMemory, Running
<1>5. StoreIsSound(disk, metaLsn, log, buffer, pool, FileTop)'
  BY <1>2, <1>3 DEF StoreIsSound
<1> QED BY <1>1, <1>4, <1>5

\* What an open database has to start with.
LEMMA OpenFacts ==
    ASSUME IInv, phase \in Running
    PROVE  /\ OthersTyped
           /\ disk \in [Pages -> Images] /\ pool \in [Pages -> Frames]
           /\ Continuous => /\ RecordsBounded(log, metaLsn) /\ RecordsBounded(buffer, flushed_lsn)
                            /\ FramesBounded(pool, next_lsn) /\ PagesBounded(disk, flushed_lsn)
BY Parts DEF IInv, TypeOK, LsnsBounded, FileTop, Running

\* Nothing of the store moves.
LEMMA StoreStays ==
    ASSUME IInv, phase \in Running, UNCHANGED <<disk, metaLsn, log, buffer, pool>>
    PROVE  StoreIsSound(disk', metaLsn', log', buffer', pool', metaLsn' + Len(log'))
BY OpenFacts, LogNumbers DEF StoreIsSound, flushed_lsn, next_lsn

\* begin.
LEMMA BeginKeeps == IInv /\ begin => IInv'
<1> SUFFICES ASSUME IInv, begin PROVE IInv'
  OBVIOUS
<1>1. phase \in Running /\ phase' \in Running
  BY DEF begin, Running
<1>2. OthersTyped
  BY <1>1, OpenFacts
<1>3. OthersTyped'
  <2>1. nextXid \in Xids /\ nextXid + 1 \in 1 .. MaxXid + 1
    BY <1>2, XidFacts DEF begin, OthersTyped, Xids
  <2> QED BY <1>2, <2>1 DEF begin, OthersTyped, files
<1> QED BY <1>1, <1>3, Assembled, StoreStays DEF begin, files

\* commit.
LEMMA CommitKeeps == ASSUME IInv, NEW x \in Xids, commit(x) PROVE IInv'
<1>1. phase \in Running /\ phase' \in Running
  BY DEF commit, Running
<1>2. OthersTyped
  BY <1>1, OpenFacts
<1>3. OthersTyped'
  <2>1. "committed" \in Fates /\ Ends(x, "committed")
    BY DEF Fates, commit
  <2>2. /\ running' \subseteq Xids /\ undo' \in [Xids -> UndoLogs]
        /\ writes' \in Seq(History) /\ Len(writes') <= MaxWrites
    BY <1>2, <2>1, EndsTyped
  <2> QED BY <1>2, <2>2 DEF commit, OthersTyped, UndoLogs, History
<1> DEFINE b == Append(buffer, Ending("commit", x, next_lsn))
<1>4. /\ b \in Seq(Records) /\ Len(b) = Len(buffer) + 1
      /\ Continuous => RecordsBounded(b, flushed_lsn)
  BY XidFacts, EndingStaged
<1>5. log' = log \o b /\ buffer' = <<>> /\ UNCHANGED <<disk, metaLsn, pool>>
  BY DEF commit
<1> HIDE DEF b
<1>6. /\ log' \in Seq(Records) /\ Len(log') = Len(log) + Len(b)
      /\ Continuous => RecordsBounded(log', metaLsn)
  BY <1>1, <1>4, <1>5, OpenFacts, LogNumbers, ConcatRecords
<1>7. metaLsn + Len(log') = next_lsn + 1 /\ Len(buffer') = 0 /\ buffer' \in Seq(Records)
  <2>1. Len(buffer') = 0 /\ buffer' \in Seq(Records)
    BY <1>5, EmptySeq
  <2>2. /\ metaLsn \in Nat /\ Len(log) \in Nat /\ Len(buffer) \in Nat
        /\ next_lsn = metaLsn + Len(log) + Len(buffer)
    BY LogNumbers
  <2>3. Len(log') = Len(log) + (Len(buffer) + 1)
    BY <1>4, <1>6
  <2> QED BY <2>1, <2>2, <2>3
<1>8. Continuous => FramesBounded(pool, next_lsn + 1) /\ PagesBounded(disk, next_lsn + 1)
  <2>1. next_lsn <= next_lsn + 1 /\ flushed_lsn <= next_lsn + 1
    BY LogNumbers
  <2> QED BY <1>1, <2>1, OpenFacts, LogNumbers, PagesMove
<1>9. next_lsn + 1 + 0 = next_lsn + 1
  BY LogNumbers
<1>10. StoreIsSound(disk', metaLsn', log', buffer', pool', metaLsn' + Len(log'))
  BY <1>1, <1>5, <1>6, <1>7, <1>8, <1>9, OpenFacts, LogNumbers, NoRecords DEF StoreIsSound
<1> QED BY <1>1, <1>3, <1>10, Assembled DEF commit

\* After a flush the frames and the pages are bounded by the end of the log.
LEMMA StoreFlushed ==
    ASSUME IInv, phase \in Running, UNCHANGED metaLsn,
           log' = log \o buffer, buffer' = <<>>,
           disk' \in [Pages -> Images], pool' \in [Pages -> Frames],
           Continuous => FramesBounded(pool', next_lsn) /\ PagesBounded(disk', next_lsn)
    PROVE  StoreIsSound(disk', metaLsn', log', buffer', pool', metaLsn' + Len(log'))
<1>1. /\ log' \in Seq(Records) /\ metaLsn + Len(log') = next_lsn
      /\ Continuous => RecordsBounded(log', metaLsn)
  BY FlushFacts
<1>2. Len(buffer') = 0 /\ buffer' \in Seq(Records) /\ next_lsn + 0 = next_lsn
  BY EmptySeq, LogNumbers
<1> QED BY <1>1, <1>2, LogNumbers, NoRecords DEF StoreIsSound

\* rollback.
LEMMA RollbackKeeps == ASSUME IInv, NEW x \in Xids, rollback(x) PROVE IInv'
<1>1. phase \in Running /\ phase' \in Running /\ phase' = "rollback"
  BY DEF rollback, Running
<1>2. OthersTyped
  BY <1>1, OpenFacts
<1>3. rolling' \in [txn : 0 .. MaxXid, todo : Seq(UndoImages)]
  <2>1. undo[x].images \in Seq(UndoImages)
    BY <1>2 DEF OthersTyped
  <2>2. Reverse(undo[x].images) \in Seq(UndoImages)
    BY <2>1, ReverseFacts
  <2>3. read_all(log \o buffer, metaLsn) \in Seq(Records)
    BY FlushFacts, LogNumbers, ReadAllFacts
  <2>4. wal_images(x, read_all(log \o buffer, metaLsn)) \in Seq(UndoImages)
    BY <2>3, WalImagesTyped
  <2>5. wal_images(x, read_all(log \o buffer, metaLsn)) \o Reverse(undo[x].images)
           \in Seq(UndoImages)
    BY <2>2, <2>4, ConcatProperties
  <2> DEFINE a == Reverse(undo[x].images)
             b == wal_images(x, read_all(log \o buffer, metaLsn)) \o a
  <2>6. rolling' = [txn |-> x, todo |-> a] \/ rolling' = [txn |-> x, todo |-> b]
    BY DEF rollback
  <2>7. a \in Seq(UndoImages) /\ b \in Seq(UndoImages) /\ x \in 0 .. MaxXid
    BY <2>2, <2>5, XidFacts
  <2> HIDE DEF a, b
  <2> QED BY <2>6, <2>7
<1>4. OthersTyped'
  BY <1>1, <1>2, <1>3 DEF rollback, OthersTyped
<1>5. StoreIsSound(disk', metaLsn', log', buffer', pool', metaLsn' + Len(log'))
  <2>1. CASE overflowed(undo[x])
    <3>1. log' = log \o buffer /\ buffer' = <<>> /\ UNCHANGED <<disk, metaLsn, pool>>
      BY <2>1 DEF rollback
    <3>2. Continuous => FramesBounded(pool, next_lsn) /\ PagesBounded(disk, next_lsn)
      BY <1>1, OpenFacts, LogNumbers, PagesMove
    <3> QED BY <1>1, <3>1, <3>2, OpenFacts, StoreFlushed
  <2>2. CASE ~overflowed(undo[x])
    BY <1>1, <2>2, StoreStays DEF rollback
  <2> QED BY <2>1, <2>2
<1> QED BY <1>1, <1>4, <1>5, Assembled DEF rollback

\* A page of the pool gets the image of an update that was just staged.
LEMMA StoreUpdated ==
    ASSUME IInv, phase \in Running, NEW x \in 0 .. MaxXid, NEW p \in Pages,
           NEW before \in Images, NEW image \in Images, image.lsn = update_lsn(x, p),
           Continuous => before.lsn <= next_lsn,
           UNCHANGED <<disk, metaLsn, log>>,
           buffer' = append_update(x, p, before, image),
           pool' = [pool EXCEPT ![p] = Frame(image, TRUE)]
    PROVE  StoreIsSound(disk', metaLsn', log', buffer', pool', metaLsn' + Len(log'))
<1>1. /\ buffer' \in Seq(Records) /\ Len(buffer') \in Nat /\ Len(buffer') >= Len(buffer)
      /\ Continuous => /\ RecordsBounded(buffer', flushed_lsn)
                       /\ image.lsn < flushed_lsn + Len(buffer')
  BY UpdateStaged
<1> DEFINE n == flushed_lsn + Len(buffer')
<1>2. n \in Nat /\ next_lsn <= n
  BY <1>1, LogNumbers
<1>3. pool' \in [Pages -> Frames] /\ image.lsn \in Int
  <2>1. Frame(image, TRUE) \in Frames
    BY ConstantsTyped
  <2>2. image.lsn \in Int
    BY DEF Images
  <2> QED BY <2>1, <2>2, OpenFacts
<1>4. ASSUME Continuous PROVE FramesBounded(pool', n)
  <2>1. FramesBounded(pool, n)
    BY <1>2, <1>4, OpenFacts, LogNumbers, PagesMove
  <2>2. image.lsn < n
    BY <1>1, <1>4
  <2>3. Frame(image, TRUE).image = image
    BY DEF Frame
  <2> HIDE DEF n
  <2>4. image.lsn <= n
    BY <1>2, <1>3, <2>2
  <2>5. ASSUME NEW q \in Pages
        PROVE  pool'[q].image.lsn <= n /\ (pool'[q].dirty => pool'[q].image.lsn < n)
    <3>1. CASE q = p
      <4>1. pool'[q] = Frame(image, TRUE)
        BY <3>1, OpenFacts
      <4> QED BY <2>2, <2>3, <2>4, <4>1
    <3>2. CASE q # p
      <4>1. pool'[q] = pool[q]
        BY <3>2, OpenFacts
      <4> QED BY <2>1, <4>1 DEF FramesBounded
    <3> QED BY <3>1, <3>2
  <2> QED BY <2>5 DEF FramesBounded
<1> QED BY <1>1, <1>3, <1>4, OpenFacts, LogNumbers DEF StoreIsSound

\* Write.
LEMMA WriteKeeps == ASSUME IInv, NEW x \in Xids, NEW p \in Pages, Write(x, p) PROVE IInv'
<1> DEFINE row == Len(writes) + 1
           image == [lsn |-> update_lsn(x, p), rows |-> pool[p].image.rows \union {row}]
           before == IF p \in undo[x].captured THEN NoImage ELSE pool[p].image
<1>1. phase \in Running /\ phase' \in Running
  BY DEF Write, Running
<1>2. OthersTyped /\ pool[p] \in Frames
  BY <1>1, OpenFacts
<1>3. /\ row <= MaxWrites
      /\ buffer' = append_update(x, p, before, image)
      /\ pool' = [pool EXCEPT ![p] = Frame(image, TRUE)]
      /\ undo' = [undo EXCEPT ![x] = capture(undo[x], p, pool[p].image)]
      /\ writes' = Append(writes, [page |-> p, txn |-> x, fate |-> "pending"])
      /\ UNCHANGED <<disk, metaLsn, metaXid, log, nextXid, phase, rolling, found, running, crashes>>
  BY DEF Write, files
<1>4. pool[p].image \in Images /\ pool[p].image.rows \in SUBSET Rows
  BY <1>2 DEF Frames, Images
<1>5. writes \in Seq(History) /\ Len(writes) \in Nat /\ undo \in [Xids -> UndoLogs]
  BY <1>2, LenProperties DEF OthersTyped, History, UndoLogs
<1>6. row \in Rows
  BY <1>3, <1>5, BoundsAssumption DEF Rows
<1>7. image \in Images /\ before \in Images
  BY <1>4, <1>6, UpdateLsnTyped, ConstantsTyped DEF Images
<1>8. OthersTyped'
  <2>1. undo' \in [Xids -> UndoLogs]
    BY <1>3, <1>4, <1>5, CaptureTyped
  <2> DEFINE r == [page |-> p, txn |-> x, fate |-> "pending"]
  <2>2. r \in History
    BY DEF History, Fates
  <2> HIDE DEF r
  <2>3. writes' \in Seq(History) /\ Len(writes') = row
    BY <1>3, <1>5, <2>2, AppendProperties DEF r
  <2> HIDE DEF row, image, before
  <2> QED BY <1>2, <1>3, <2>1, <2>3 DEF OthersTyped, UndoLogs, History
<1>9. Continuous => before.lsn <= next_lsn
  <2>1. NoImage.lsn = -1 /\ -1 <= next_lsn
    BY LogNumbers DEF NoImage
  <2>2. Continuous => pool[p].image.lsn <= next_lsn
    BY <1>1, OpenFacts DEF FramesBounded
  <2> QED BY <2>1, <2>2
<1>10. image.lsn = update_lsn(x, p) /\ x \in 0 .. MaxXid
  BY XidFacts
<1> HIDE DEF row, image, before
<1>11. StoreIsSound(disk', metaLsn', log', buffer', pool', metaLsn' + Len(log'))
  BY <1>1, <1>3, <1>7, <1>9, <1>10, StoreUpdated
<1> QED BY <1>1, <1>3, <1>8, <1>11, Assembled

\* restore_page.
LEMMA RestoreKeeps == ASSUME IInv, restore_page PROVE IInv'
<1> DEFINE p == Head(rolling.todo).page
           image == [lsn |-> update_lsn(NO_TRANSACTION, p), rows |-> Head(rolling.todo).image.rows]
<1>1. phase \in Running /\ phase' \in Running
  BY DEF restore_page, Running
<1>2. OthersTyped
  BY <1>1, OpenFacts
<1>3. /\ rolling.todo # <<>>
      /\ buffer' = append_update(NO_TRANSACTION, p, NoImage, image)
      /\ pool' = [pool EXCEPT ![p] = Frame(image, TRUE)]
      /\ rolling' = [rolling EXCEPT !.todo = Tail(rolling.todo)]
      /\ UNCHANGED <<disk, metaLsn, metaXid, log, undo, nextXid, phase, found, running, writes, crashes>>
  BY DEF restore_page, files
<1>4. rolling \in [txn : 0 .. MaxXid, todo : Seq(UndoImages)] /\ rolling.todo \in Seq(UndoImages)
  BY <1>2 DEF OthersTyped
<1>5. Head(rolling.todo) \in UndoImages /\ Tail(rolling.todo) \in Seq(UndoImages)
  BY <1>3, <1>4, HeadTailProperties
<1>6. p \in Pages /\ Head(rolling.todo).image.rows \in SUBSET Rows
  BY <1>5 DEF UndoImages, Images
<1>7. image \in Images /\ image.lsn = update_lsn(0, p)
  BY <1>6, UpdateLsnTyped DEF Images, NO_TRANSACTION
<1>8. OthersTyped'
  <2>1. rolling' \in [txn : 0 .. MaxXid, todo : Seq(UndoImages)]
    BY <1>3, <1>4, <1>5
  <2> HIDE DEF p, image
  <2> QED BY <1>2, <1>3, <2>1 DEF OthersTyped
<1>9. NoImage.lsn <= next_lsn /\ NoImage \in Images
  BY LogNumbers, ConstantsTyped DEF NoImage
<1> HIDE DEF p, image
<1>10. StoreIsSound(disk', metaLsn', log', buffer', pool', metaLsn' + Len(log'))
  BY <1>1, <1>3, <1>6, <1>7, <1>9, XidFacts, StoreUpdated DEF NO_TRANSACTION
<1> QED BY <1>1, <1>3, <1>8, <1>10, Assembled

\* finish_rollback.
LEMMA FinishKeeps == ASSUME IInv, finish_rollback PROVE IInv'
<1> DEFINE x == rolling.txn
           b == Append(buffer, Ending("abort", x, next_lsn))
<1>1. phase \in Running /\ phase' \in Running /\ phase' = "open"
  BY DEF finish_rollback, Running
<1>2. OthersTyped
  BY <1>1, OpenFacts
<1>3. x \in 0 .. MaxXid
  BY <1>2 DEF OthersTyped
<1>4. /\ buffer' = b /\ Ends(x, "aborted") /\ rolling' = Idle
      /\ UNCHANGED <<disk, metaLsn, metaXid, log, pool, nextXid, found, crashes>>
  BY DEF finish_rollback, files
<1>5. OthersTyped'
  <2>1. "aborted" \in Fates
    BY DEF Fates
  <2>2. /\ running' \subseteq Xids /\ undo' \in [Xids -> UndoLogs]
        /\ writes' \in Seq(History) /\ Len(writes') <= MaxWrites
    BY <1>2, <1>4, <2>1, EndsTyped
  <2>3. Idle \in [txn : 0 .. MaxXid, todo : Seq(UndoImages)]
    BY XidFacts, EmptySeq DEF Idle, NO_TRANSACTION
  <2> QED BY <1>1, <1>2, <1>4, <2>2, <2>3 DEF OthersTyped, UndoLogs, History
<1> HIDE DEF x
<1>6. /\ b \in Seq(Records) /\ Len(b) = Len(buffer) + 1
      /\ Continuous => RecordsBounded(b, flushed_lsn)
  BY <1>3, EndingStaged
<1> HIDE DEF b
<1>7. flushed_lsn + Len(b) = next_lsn + 1 /\ next_lsn <= next_lsn + 1 /\ next_lsn + 1 \in Int
  BY <1>6, LogNumbers
<1>8. Continuous => FramesBounded(pool, next_lsn + 1)
  BY <1>1, <1>7, OpenFacts, LogNumbers, PagesMove
<1>9. StoreIsSound(disk', metaLsn', log', buffer', pool', metaLsn' + Len(log'))
  BY <1>1, <1>4, <1>6, <1>7, <1>8, OpenFacts, LogNumbers DEF StoreIsSound
<1> QED BY <1>1, <1>4, <1>5, <1>9, Assembled

\* The file once some frames are written to it.
LEMMA WrittenFacts ==
    ASSUME IInv, phase \in Running, NEW S
    PROVE  /\ Written(S) \in [Pages -> Images]
           /\ Continuous => PagesBounded(Written(S), next_lsn)
           /\ \A n \in Int : (\A p \in S \intersect Pages : pool[p].image.lsn <= n)
                                /\ flushed_lsn <= n /\ Continuous => PagesBounded(Written(S), n)
<1>1. \A p \in Pages : pool[p].image \in Images /\ disk[p] \in Images
  BY OpenFacts DEF Frames
<1>2. Written(S) \in [Pages -> Images]
  BY <1>1 DEF Written
<1>3. \A p \in Pages : Written(S)[p] = IF p \in S THEN pool[p].image ELSE disk[p]
  BY DEF Written
<1>4. ASSUME NEW n \in Int, \A p \in S \intersect Pages : pool[p].image.lsn <= n,
             flushed_lsn <= n, Continuous
      PROVE  PagesBounded(Written(S), n)
  <2>1. PagesBounded(disk, n)
    BY <1>4, OpenFacts, LogNumbers, PagesMove
  <2>2. \A p \in Pages : Written(S)[p].lsn <= n
    BY <1>3, <1>4, <2>1 DEF PagesBounded
  <2> QED BY <2>2 DEF PagesBounded
<1>5. Continuous => PagesBounded(Written(S), next_lsn)
  <2>1. Continuous => \A p \in Pages : pool[p].image.lsn <= next_lsn
    BY OpenFacts DEF FramesBounded
  <2> QED BY <1>4, <2>1, LogNumbers
<1> QED BY <1>2, <1>4, <1>5

\* The pool once some frames are clean.
LEMMA CleanedFacts ==
    ASSUME IInv, phase \in Running, NEW S
    PROVE  /\ Cleaned(S) \in [Pages -> Frames]
           /\ Continuous => FramesBounded(Cleaned(S), next_lsn)
<1>1. \A p \in Pages : pool[p] \in Frames
  BY OpenFacts
<1>2. \A f \in Frames : /\ [f EXCEPT !.dirty = FALSE] \in Frames
                        /\ [f EXCEPT !.dirty = FALSE].image = f.image
                        /\ [f EXCEPT !.dirty = FALSE].dirty = FALSE
  BY DEF Frames
<1>3. Cleaned(S) \in [Pages -> Frames]
  BY <1>1, <1>2 DEF Cleaned
<1>4. \A p \in Pages : /\ Cleaned(S)[p].image = pool[p].image
                       /\ Cleaned(S)[p].dirty => pool[p].dirty
  BY <1>1, <1>2 DEF Cleaned
<1>5. Continuous => FramesBounded(pool, next_lsn)
  BY OpenFacts
<1>6. Continuous => FramesBounded(Cleaned(S), next_lsn)
  BY <1>4, <1>5 DEF FramesBounded
<1> QED BY <1>3, <1>6

\* Fetch.
LEMMA FetchKeeps == ASSUME IInv, NEW p \in Pages, Fetch(p) PROVE IInv'
<1>1. phase \in Running /\ phase' \in Running
  BY DEF Fetch, Running
<1>2. OthersTyped
  BY <1>1, OpenFacts
<1>3. OthersTyped'
  BY <1>2 DEF Fetch, OthersTyped
<1> DEFINE new == Frame(disk[p], FALSE)
<1>4. new \in Frames /\ new.image = disk[p] /\ new.dirty = FALSE
  <2>1. disk[p] \in Images
    BY <1>1, OpenFacts
  <2> QED BY <2>1, ConstantsTyped DEF Frame
<1>5. Continuous => new.image.lsn <= next_lsn
  <2>1. disk[p] \in Images
    BY <1>1, OpenFacts
  <2>2. disk[p].lsn \in Int
    BY <2>1 DEF Images
  <2>3. Continuous => disk[p].lsn <= flushed_lsn
    BY <1>1, OpenFacts DEF PagesBounded
  <2>4. Continuous => disk[p].lsn <= next_lsn
    BY <2>2, <2>3, LogNumbers
  <2> HIDE DEF new
  <2> QED BY <1>4, <2>4
<1>6. NoFrame \in Frames /\ NoFrame.image.lsn = -1 /\ NoFrame.dirty = FALSE /\ -1 <= next_lsn
  BY ConstantsTyped, LogNumbers DEF NoFrame, NoImage
<1>7. Continuous => FramesBounded(pool, next_lsn)
  BY <1>1, OpenFacts
<1>8. StoreIsSound(disk', metaLsn', log', buffer', pool', metaLsn' + Len(log'))
  <2>1. CASE pool' = [pool EXCEPT ![p] = new] /\ UNCHANGED <<disk, log, buffer>>
    <3> HIDE DEF new
    <3>1. pool' \in [Pages -> Frames]
      BY <1>1, <1>4, <2>1, OpenFacts
    <3>2. \A q \in Pages : pool'[q] = IF q = p THEN new ELSE pool[q]
      BY <1>1, <2>1, OpenFacts
    <3>3. Continuous => FramesBounded(pool', next_lsn)
      BY <1>4, <1>5, <1>7, <3>2 DEF FramesBounded
    <3> QED BY <1>1, <2>1, <3>1, <3>3, OpenFacts, LogNumbers DEF StoreIsSound, Fetch
  <2>2. ASSUME NEW v \in Resident,
               pool' = [pool EXCEPT ![v] = NoFrame, ![p] = new],
               disk' = Written({v} \intersect DirtyPages),
               IF pool[v].dirty /\ must_flush(pool[v].image.lsn)
               THEN log' = log \o buffer /\ buffer' = <<>> ELSE UNCHANGED <<log, buffer>>
        PROVE  StoreIsSound(disk', metaLsn', log', buffer', pool', metaLsn' + Len(log'))
    <3> HIDE DEF new
    <3>1. v \in Pages /\ metaLsn' = metaLsn
      BY DEF Resident, Fetch
    <3>2. pool' \in [Pages -> Frames]
      BY <1>1, <1>4, <1>6, <2>2, OpenFacts
    <3>3. \A q \in Pages : pool'[q] \in {new, NoFrame, pool[q]}
      BY <1>1, <2>2, OpenFacts
    <3>4. Continuous => FramesBounded(pool', next_lsn)
      BY <1>4, <1>5, <1>6, <1>7, <3>3 DEF FramesBounded
    <3>5. disk' \in [Pages -> Images] /\ (Continuous => PagesBounded(disk', next_lsn))
      BY <1>1, <2>2, WrittenFacts
    <3>6. CASE pool[v].dirty /\ must_flush(pool[v].image.lsn)
      BY <1>1, <2>2, <3>1, <3>2, <3>4, <3>5, <3>6, StoreFlushed
    <3>7. CASE ~(pool[v].dirty /\ must_flush(pool[v].image.lsn))
      <4>1. UNCHANGED <<log, buffer>>
        BY <2>2, <3>7
      <4>2. pool[v] \in Frames
        BY <1>1, <3>1, OpenFacts
      <4>3. pool[v].image.lsn \in Int
        BY <4>2 DEF Frames, Images
      <4>4. \A q \in ({v} \intersect DirtyPages) \intersect Pages :
               pool[q].image.lsn <= flushed_lsn
        BY <3>7, <4>3, LogNumbers DEF DirtyPages, must_flush
      <4>5. Continuous => PagesBounded(disk', flushed_lsn)
        BY <1>1, <2>2, <4>4, LogNumbers, WrittenFacts
      <4> QED BY <1>1, <3>1, <3>2, <3>4, <3>5, <4>1, <4>5, OpenFacts, LogNumbers DEF StoreIsSound
    <3> QED BY <3>6, <3>7
  <2> QED BY <2>1, <2>2 DEF Fetch
<1> QED BY <1>1, <1>3, <1>8, Assembled DEF Fetch

\* sync.
LEMMA SyncKeeps == ASSUME IInv, sync PROVE IInv'
<1>1. phase \in Running /\ phase' \in Running
  BY DEF sync, Running
<1>2. OthersTyped
  BY <1>1, OpenFacts
<1>3. OthersTyped'
  BY <1>2 DEF sync, OthersTyped
<1>4. StoreIsSound(disk', metaLsn', log', buffer', pool', metaLsn' + Len(log'))
  BY <1>1, WrittenFacts, CleanedFacts, StoreFlushed DEF sync
<1> QED BY <1>1, <1>3, <1>4, Assembled DEF sync

\* The files of a checkpoint: pages, an empty log, the meta page.
LEMMA CheckpointFacts ==
    ASSUME IInv, phase \in Running, CheckpointFiles
    PROVE  /\ metaXid' \in 1 .. MaxXid + 1
           /\ disk' \in [Pages -> Images] /\ metaLsn' \in Nat /\ log' = <<>> /\ Len(log') = 0
           /\ log' \in Seq(Records) /\ next_lsn <= metaLsn'
           /\ Continuous => PagesBounded(disk', metaLsn')
<1>1. metaLsn' = next_lsn + 1 /\ log' = <<>> /\ disk' = Written(DirtyPages) /\ metaXid' = nextXid
  BY DEF CheckpointFiles
<1>2. metaLsn' \in Nat /\ next_lsn <= metaLsn'
  BY <1>1, LogNumbers
<1>3. disk' \in [Pages -> Images] /\ (Continuous => PagesBounded(disk', next_lsn))
  BY <1>1, WrittenFacts
<1>4. Continuous => PagesBounded(disk', metaLsn')
  BY <1>2, <1>3, LogNumbers, PagesMove
<1> QED BY <1>1, <1>2, <1>3, <1>4, EmptySeq, OpenFacts DEF OthersTyped

\* checkpoint.
LEMMA CheckpointKeeps == ASSUME IInv, checkpoint PROVE IInv'
<1>1. phase \in Running /\ phase' \in Running /\ CheckpointFiles
  BY DEF checkpoint, Running
<1>2. OthersTyped
  BY <1>1, OpenFacts
<1>3. OthersTyped'
  BY <1>1, <1>2, CheckpointFacts DEF checkpoint, OthersTyped
<1>4. /\ disk' \in [Pages -> Images] /\ metaLsn' \in Nat /\ log' = <<>> /\ Len(log') = 0
      /\ log' \in Seq(Records) /\ next_lsn <= metaLsn'
      /\ Continuous => PagesBounded(disk', metaLsn')
  BY <1>1, CheckpointFacts
<1>5. buffer' = <<>> /\ pool' = Cleaned(DirtyPages)
  BY DEF checkpoint
<1>6. pool' \in [Pages -> Frames] /\ (Continuous => FramesBounded(pool', metaLsn'))
  BY <1>1, <1>4, <1>5, LogNumbers, CleanedFacts, PagesMove
<1>7. /\ Len(buffer') = 0 /\ buffer' \in Seq(Records)
      /\ metaLsn' + 0 = metaLsn' /\ metaLsn' + 0 + 0 = metaLsn'
  <2>1. \A n \in Nat : n + 0 = n /\ n + 0 + 0 = n
    OBVIOUS
  <2> QED BY <1>4, <1>5, <2>1, EmptySeq
<1>8. StoreIsSound(disk', metaLsn', log', buffer', pool', metaLsn' + Len(log'))
  BY <1>4, <1>5, <1>6, <1>7, NoRecords DEF StoreIsSound
<1> QED BY <1>1, <1>3, <1>8, Assembled DEF checkpoint

---------------------------------------------------------------------------
(* Shutting down, crashes and recovery.                                    *)

\* A process that has lost its memory leaves the invariant, if it leaves its
\* files sound.
LEMMA Downed ==
    ASSUME Forgotten, phase' = "down",
           disk' \in [Pages -> Images], metaLsn' \in Nat, log' \in Seq(Records),
           metaXid' \in 1 .. MaxXid + 1,
           writes' \in Seq(History), Len(writes') <= MaxWrites,
           crashes' \in [struck : 0 .. Len(CrashPlan), repaired : BOOLEAN],
           Continuous' => /\ RecordsBounded(log', metaLsn')
                          /\ PagesBounded(disk', metaLsn' + Len(log'))
    PROVE  IInv'
<1>1. /\ buffer' = <<>> /\ pool' = [p \in Pages |-> NoFrame] /\ undo' = [x \in Xids |-> NoUndo]
      /\ nextXid' = 1 /\ running' = {} /\ rolling' = Idle /\ found' = 0
  BY DEF Forgotten
<1>2. OthersTyped'
  <2>1. undo' \in [Xids -> UndoLogs]
    BY <1>1, EmptySeq DEF NoUndo, UndoLogs
  <2>2. rolling' \in [txn : 0 .. MaxXid, todo : Seq(UndoImages)]
    BY <1>1, XidFacts, EmptySeq DEF Idle, NO_TRANSACTION
  <2>3. nextXid' \in 1 .. MaxXid + 1 /\ found' \in 0 .. MaxXid
    BY <1>1, XidFacts
  <2> QED BY <1>1, <2>1, <2>2, <2>3 DEF OthersTyped, UndoLogs, History
<1>3. pool' \in [Pages -> Frames] /\ \A p \in Pages : pool'[p] = NoFrame
  BY <1>1, ConstantsTyped
<1>4. QuietMemory'
  BY <1>1, <1>3 DEF QuietMemory
<1>5. FileTop' = metaLsn' + Len(log')
  BY DEF FileTop, flushed_lsn
<1> DEFINE n == metaLsn' + Len(log') + Len(buffer')
<1>6. n \in Nat
  BY <1>1, LenProperties, EmptySeq
<1>7. FramesBounded(pool', n)
  <2>1. NoFrame.image.lsn = -1 /\ NoFrame.dirty = FALSE
    BY DEF NoFrame, NoImage
  <2> HIDE DEF n
  <2>2. -1 <= n
    BY <1>6
  <2> QED BY <1>3, <2>1, <2>2 DEF FramesBounded
<1>8. StoreIsSound(disk, metaLsn, log, buffer, pool, FileTop)'
  BY <1>1, <1>3, <1>5, <1>7, NoRecords, EmptySeq DEF StoreIsSound
<1>9. IInv' <=> /\ OthersTyped' /\ QuietMemory'
                /\ StoreIsSound(disk, metaLsn, log, buffer, pool, FileTop)'
  BY Parts, PTL
<1> QED BY <1>2, <1>4, <1>8, <1>9

\* close.
LEMMA CloseKeeps == ASSUME IInv, close PROVE IInv'
<1>1. /\ phase \in Running /\ CheckpointFiles /\ Forgotten /\ phase' = "down"
      /\ UNCHANGED <<writes, crashes>>
  BY DEF close, Running
<1>2. OthersTyped
  BY <1>1, OpenFacts
<1>3. Continuous' = Continuous
  BY <1>1 DEF Continuous
<1>4. /\ metaXid' \in 1 .. MaxXid + 1
      /\ disk' \in [Pages -> Images] /\ metaLsn' \in Nat /\ log' = <<>> /\ Len(log') = 0
      /\ log' \in Seq(Records)
      /\ Continuous => PagesBounded(disk', metaLsn')
  BY <1>1, CheckpointFacts
<1>5. metaLsn' + Len(log') = metaLsn'
  <2>1. \A n \in Nat : n + 0 = n
    OBVIOUS
  <2> QED BY <1>4, <2>1
<1> QED BY <1>1, <1>2, <1>3, <1>4, <1>5, NoRecords, Downed DEF OthersTyped, History

\* A crash that leaves sound files.
LEMMA DiesKeeps ==
    ASSUME IInv, NEW point, NEW d \in [Pages -> Images], NEW l \in Seq(Records),
           Dies(point, d, l),
           Continuous /\ point # "truncated" =>
               RecordsBounded(l, metaLsn) /\ PagesBounded(d, metaLsn + Len(l))
    PROVE  IInv'
<1>1. /\ crashes.struck < Len(CrashPlan)
      /\ point \in CrashPlan[crashes.struck + 1][crashes.repaired]
      /\ crashes' = [struck |-> crashes.struck + 1,
                     repaired |-> crashes.repaired /\ point \in Repaired]
      /\ phase' = "down" /\ Forgotten /\ disk' = d /\ log' = l /\ UNCHANGED <<metaLsn, metaXid>>
  BY DEF Dies
<1>2. OthersTyped
  BY Parts
<1>3. crashes.struck \in 0 .. Len(CrashPlan) /\ crashes.repaired \in BOOLEAN
  BY <1>2 DEF OthersTyped
<1>4. Len(CrashPlan) \in Nat
  BY BoundsAssumption, LenProperties
<1>5. crashes.struck + 1 \in 1 .. Len(CrashPlan)
  BY <1>1, <1>3, <1>4
<1>6. crashes' \in [struck : 0 .. Len(CrashPlan), repaired : BOOLEAN]
  BY <1>1, <1>3, <1>4, <1>5
<1>7. Continuous' => Continuous /\ point # "truncated"
  <2>1. crashes'.repaired => crashes.repaired /\ point # "truncated"
    BY <1>1 DEF Repaired
  <2>2. NeverTruncated => point # "truncated"
    BY <1>1, <1>3, <1>5 DEF NeverTruncated
  <2> QED BY <2>1, <2>2 DEF Continuous, NeverTruncated
<1>8. writes' \in Seq(History) /\ Len(writes') <= MaxWrites
  <2>1. writes \in Seq(History) /\ Len(writes) <= MaxWrites
    BY <1>2 DEF OthersTyped, History
  <2>2. /\ DOMAIN writes' = DOMAIN writes /\ writes' = [n \in DOMAIN writes' |-> writes'[n]]
        /\ \A n \in DOMAIN writes :
              \/ writes'[n] = writes[n]
              \/ \E fate \in Fates : writes'[n] = [writes[n] EXCEPT !.fate = fate]
    <3>1. PICK f : /\ writes' = [n \in DOMAIN writes |->
                                   IF writes[n].fate = "pending"
                                   THEN [writes[n] EXCEPT !.fate = f[n]] ELSE writes[n]]
                   /\ \A n \in DOMAIN writes : f[n] \in Fates
      <4> DEFINE C == {read_all(l, metaLsn)[i].txn :
                         i \in {j \in DOMAIN read_all(l, metaLsn) :
                                   read_all(l, metaLsn)[j].type = "commit"}}
                 f == [n \in DOMAIN writes |->
                         IF writes[n].txn \in C THEN "committed" ELSE "aborted"]
      <4>1. writes' = [n \in DOMAIN writes |->
                         IF writes[n].fate = "pending"
                         THEN [writes[n] EXCEPT !.fate = IF writes[n].txn \in C
                                                         THEN "committed" ELSE "aborted"]
                         ELSE writes[n]]
        BY DEF Dies
      <4> HIDE DEF C
      <4>2. \A n \in DOMAIN writes : f[n] = IF writes[n].txn \in C THEN "committed" ELSE "aborted"
        OBVIOUS
      <4> HIDE DEF f
      <4>3. writes' = [n \in DOMAIN writes |->
                         IF writes[n].fate = "pending"
                         THEN [writes[n] EXCEPT !.fate = f[n]] ELSE writes[n]]
        BY <4>1, <4>2
      <4>4. \A n \in DOMAIN writes : f[n] \in Fates
        BY <4>2 DEF Fates
      <4> QED BY <4>3, <4>4
    <3> QED BY <3>1
  <2> DEFINE v == writes'
  <2>3. /\ DOMAIN v = DOMAIN writes /\ v = [n \in DOMAIN v |-> v[n]]
        /\ \A n \in DOMAIN writes :
              v[n] = writes[n] \/ \E fate \in Fates : v[n] = [writes[n] EXCEPT !.fate = fate]
    BY <2>2
  <2> HIDE DEF v
  <2>4. v \in Seq(History) /\ Len(v) <= MaxWrites
    BY <2>1, <2>3, FatesTyped
  <2> QED BY <2>4 DEF v
<1>9. metaLsn' \in Nat /\ metaXid' \in 1 .. MaxXid + 1
  BY <1>1, <1>2, LogNumbers DEF OthersTyped
<1>10. Continuous' => RecordsBounded(log', metaLsn') /\ PagesBounded(disk', metaLsn' + Len(log'))
  BY <1>1, <1>7
<1> QED BY <1>1, <1>6, <1>8, <1>9, <1>10, Downed

\* redo and undo write images of records into the file.
LEMMA RecoveredFacts ==
    ASSUME NEW d \in [Pages -> Images], NEW records \in Seq(Records), NEW base \in Nat,
           NEW n \in Int, base + Len(records) <= n
    PROVE  /\ redo(d, records) \in [Pages -> Images]
           /\ undo_pass(d, records) \in [Pages -> Images]
           /\ RecordsBounded(records, base) /\ PagesBounded(d, n) =>
                 PagesBounded(redo(d, records), n) /\ PagesBounded(undo_pass(d, records), n)
<1>1. /\ Len(records) \in Nat /\ DOMAIN records = 1 .. Len(records)
      /\ \A i \in 1 .. Len(records) : records[i] \in Records
  BY LenProperties, ElementOfSeq
<1>2. ASSUME RecordsBounded(records, base), NEW i \in 1 .. Len(records)
      PROVE  records[i].after.lsn <= n /\ records[i].before.lsn <= n
  <2>1. records[i].lsn \in Nat /\ records[i].after.lsn \in Int /\ records[i].before.lsn \in Int
    BY <1>1, RecordFields
  <2>2. /\ records[i].lsn <= base + i - 1 /\ records[i].before.lsn <= records[i].lsn
        /\ records[i].after.lsn <= records[i].lsn
    BY <1>2 DEF RecordsBounded
  <2> QED BY <1>1, <2>1, <2>2
<1>3. ASSUME NEW p \in Pages
      PROVE  \/ redo(d, records)[p] = d[p]
             \/ \E i \in 1 .. Len(records) : redo(d, records)[p] = records[i].after
  <2> DEFINE newer == {i \in Updates(records, p) : records[i].lsn > d[p].lsn}
  <2>1. newer \subseteq 0 .. Len(records) /\ newer \subseteq 1 .. Len(records)
    BY <1>1 DEF Updates
  <2>2. redo(d, records)[p] = IF newer = {} THEN d[p] ELSE records[Max(newer)].after
    BY DEF redo
  <2> HIDE DEF newer
  <2>3. newer # {} => Max(newer) \in newer
    BY <1>1, <2>1, MaxFacts
  <2> QED BY <2>1, <2>2, <2>3
<1>4. ASSUME NEW p \in Pages
      PROVE  \/ undo_pass(d, records)[p] = d[p]
             \/ \E i \in 1 .. Len(records) : undo_pass(d, records)[p] = records[i].before
  <2> DEFINE mine == {i \in undoable(records) : records[i].page = p}
  <2>1. mine \subseteq Nat /\ mine \subseteq 1 .. Len(records)
    BY <1>1 DEF undoable
  <2>2. undo_pass(d, records)[p] = IF mine = {} THEN d[p] ELSE records[Min(mine)].before
    BY DEF undo_pass
  <2> HIDE DEF mine
  <2>3. mine # {} => Min(mine) \in mine
    BY <2>1, MinFacts
  <2> QED BY <2>1, <2>2, <2>3
<1>5. \A i \in 1 .. Len(records) : records[i].after \in Images /\ records[i].before \in Images
  BY <1>1, RecordFields
<1>6. redo(d, records) \in [Pages -> Images]
  <2>1. \A p \in Pages : redo(d, records)[p] \in Images
    BY <1>3, <1>5
  <2>2. redo(d, records) = [p \in Pages |-> redo(d, records)[p]]
    BY DEF redo
  <2> QED BY <2>1, <2>2
<1>7. undo_pass(d, records) \in [Pages -> Images]
  <2>1. \A p \in Pages : undo_pass(d, records)[p] \in Images
    BY <1>4, <1>5
  <2>2. undo_pass(d, records) = [p \in Pages |-> undo_pass(d, records)[p]]
    BY DEF undo_pass
  <2> QED BY <2>1, <2>2
<1>8. RecordsBounded(records, base) /\ PagesBounded(d, n) =>
         PagesBounded(redo(d, records), n) /\ PagesBounded(undo_pass(d, records), n)
  <2>1. RecordsBounded(records, base) =>
           \A i \in 1 .. Len(records) : records[i].after.lsn <= n /\ records[i].before.lsn <= n
    BY <1>2
  <2> QED BY <1>3, <1>4, <2>1 DEF PagesBounded
<1> QED BY <1>6, <1>7, <1>8

\* The losers of a log are transaction ids.
LEMMA LosersFacts ==
    ASSUME NEW records \in Seq(Records)
    PROVE  /\ losers(records) \in SUBSET Nat /\ losers(records) \subseteq 0 .. MaxXid
           /\ IsFiniteSet(losers(records))
           /\ highest_xid(records) \in 0 .. MaxXid
<1>1. DOMAIN records = 1 .. Len(records) /\ \A i \in 1 .. Len(records) : records[i] \in Records
  BY LenProperties, ElementOfSeq
<1>2. \A i \in DOMAIN records : records[i].txn \in 0 .. MaxXid
  BY <1>1, RecordFields
<1>3. losers(records) \subseteq 0 .. MaxXid
  BY <1>2 DEF losers
<1>4. IsFiniteSet(0 .. MaxXid)
  BY XidFacts, FS_Interval
<1>5. IsFiniteSet(losers(records))
  BY <1>3, <1>4, FS_Subset
<1> DEFINE T == {records[i].txn : i \in DOMAIN records} \union {0}
<1>6. T \subseteq 0 .. MaxXid /\ T # {}
  BY <1>2, XidFacts
<1> HIDE DEF T
<1>7. Max(T) \in 0 .. MaxXid
  BY <1>6, XidFacts, MaxFacts
<1>8. highest_xid(records) \in 0 .. MaxXid
  BY <1>7 DEF highest_xid, T
<1> QED BY <1>3, <1>5, <1>8, XidFacts

\* The compensation records carry images older than themselves.
LEMMA CompensationFacts ==
    ASSUME NEW records \in Seq(Records), NEW base \in Nat, NEW lsn \in Nat,
           base + Len(records) <= lsn
    PROVE  /\ compensation(records, lsn) \in Seq(Records)
           /\ RecordsBounded(records, base) => RecordsBounded(compensation(records, lsn), lsn)
<1> DEFINE order == Descending(undoable(records))
           ended == Ascending(losers(records))
           a == Len(order)
           n == Len(order) + Len(ended)
           back(i) == Record("update", records[order[i]].txn, records[order[i]].page, NoImage,
                             records[order[i]].before, lsn + i - 1)
           end(i) == Ending("abort", ended[i - a], lsn + i - 1)
           c == [i \in 1 .. n |-> IF i <= a THEN back(i) ELSE end(i)]
<1>1. compensation(records, lsn) = c
  BY DEF compensation
<1>2. undoable(records) \subseteq DOMAIN records
  BY DEF undoable
<1>3. /\ undoable(records) \in SUBSET Nat /\ IsFiniteSet(undoable(records))
      /\ undoable(records) \subseteq 1 .. Len(records)
      /\ \A i \in undoable(records) : records[i] \in Records
  BY <1>2, PlacesFacts
<1>4. order \in Seq(undoable(records)) /\ a \in Nat
  BY <1>3, DescendingFacts
<1>5. ended \in Seq(losers(records)) /\ Len(ended) \in Nat
  BY LosersFacts, AscendingFacts
<1> HIDE DEF order, ended
<1>6. \A i \in 1 .. a : order[i] \in undoable(records)
  BY <1>4, ElementOfSeq
<1>7. \A i \in 1 .. Len(ended) : ended[i] \in 0 .. MaxXid
  BY <1>5, ElementOfSeq, LosersFacts
<1>8. n \in Nat /\ \A i \in 1 .. n : (i <= a => i \in 1 .. a) /\ (~(i <= a) => i - a \in 1 .. Len(ended))
  BY <1>4, <1>5
<1>9. \A i \in 1 .. n : lsn + i - 1 \in Nat
  BY <1>8
<1> HIDE DEF a, n
<1>10. Len(records) \in Nat
  BY LenProperties
<1>11. ASSUME NEW i \in 1 .. n, i <= a
       PROVE  /\ back(i) \in Records /\ back(i).lsn = lsn + i - 1
              /\ back(i).before.lsn <= back(i).lsn
              /\ RecordsBounded(records, base) => back(i).after.lsn <= back(i).lsn
  <2> DEFINE j == order[i]
             r == records[j]
  <2>1. j \in undoable(records)
    BY <1>6, <1>8, <1>11
  <2>2. j \in 1 .. Len(records) /\ r \in Records
    BY <1>3, <2>1
  <2>3. /\ r.txn \in 0 .. MaxXid /\ r.page \in Pages /\ r.before \in Images /\ r.lsn \in Nat
        /\ r.before.lsn \in Int
    BY <2>2, RecordFields
  <2>4. back(i) = Record("update", r.txn, r.page, NoImage, r.before, lsn + i - 1)
    OBVIOUS
  <2> HIDE DEF back, j, r
  <2>5. /\ back(i) \in Records /\ back(i).lsn = lsn + i - 1
        /\ back(i).before = NoImage /\ back(i).after = r.before
    <3> DEFINE k == lsn + i - 1
               x == r.txn
               g == r.page
               b == r.before
               f == Record("update", x, g, NoImage, b, k)
    <3>1. /\ k \in Nat /\ NoImage \in Images /\ x \in 0 .. MaxXid /\ g \in Pages /\ b \in Images
          /\ "update" \in {"update", "commit", "abort", "torn"}
      BY <1>9, <2>3, ConstantsTyped
    <3> HIDE DEF k, x, g, b
    <3>2. f \in Records /\ f.lsn = k /\ f.before = NoImage /\ f.after = b
      BY <3>1, RecordTyped
    <3>3. back(i) = f
      BY <2>4 DEF k, x, g, b
    <3> HIDE DEF f
    <3> QED BY <3>2, <3>3 DEF k, b
  <2>6. NoImage.lsn = -1
    BY DEF NoImage
  <2>7. back(i).before.lsn <= back(i).lsn
    BY <1>9, <2>5, <2>6
  <2>8. ASSUME RecordsBounded(records, base) PROVE back(i).after.lsn <= back(i).lsn
    <3>1. r.lsn <= base + j - 1 /\ r.before.lsn <= r.lsn
      BY <2>2, <2>8 DEF RecordsBounded, r
    <3>2. r.before.lsn <= lsn + i - 1
      BY <1>8, <1>10, <2>2, <2>3, <3>1
    <3> QED BY <2>5, <3>2
  <2> QED BY <2>5, <2>7, <2>8
<1>12. ASSUME NEW i \in 1 .. n, ~(i <= a)
       PROVE  /\ end(i) \in Records /\ end(i).lsn = lsn + i - 1
              /\ end(i).before.lsn <= end(i).lsn /\ end(i).after.lsn <= end(i).lsn
  <2>1. ended[i - a] \in 0 .. MaxXid
    BY <1>7, <1>8, <1>12
  <2>2. /\ end(i) \in Records /\ end(i).lsn = lsn + i - 1
        /\ end(i).before.lsn = -1 /\ end(i).after.lsn = -1
    BY <1>9, <2>1, EndingTyped
  <2> HIDE DEF end
  <2> QED BY <1>9, <2>2
<1> HIDE DEF back, end
<1> DEFINE e(i) == IF i <= a THEN back(i) ELSE end(i)
<1>13. ASSUME NEW i \in 1 .. n
       PROVE  /\ e(i) \in Records /\ e(i).lsn = lsn + i - 1
              /\ RecordsBounded(records, base) =>
                    e(i).before.lsn <= e(i).lsn /\ e(i).after.lsn <= e(i).lsn
  BY <1>11, <1>12
<1>14. c = [i \in 1 .. n |-> e(i)]
  OBVIOUS
<1> HIDE DEF e, c
<1>15. c \in Seq(Records) /\ Len(c) = n /\ \A i \in 1 .. n : c[i] = e(i)
  BY <1>8, <1>13, <1>14
<1>16. RecordsBounded(records, base) => RecordsBounded(c, lsn)
  <2> SUFFICES ASSUME RecordsBounded(records, base), NEW i \in 1 .. n
               PROVE  /\ c[i].lsn <= lsn + i - 1
                      /\ c[i].before.lsn <= c[i].lsn /\ c[i].after.lsn <= c[i].lsn
    BY <1>15 DEF RecordsBounded
  <2> QED BY <1>9, <1>13, <1>15
<1> QED BY <1>1, <1>15, <1>16

\* What a database that is not open has to start with.
LEMMA DownFacts ==
    ASSUME IInv, phase \in {"down", "redone", "restamped"}
    PROVE  /\ OthersTyped /\ disk \in [Pages -> Images] /\ pool \in [Pages -> Frames]
           /\ buffer = <<>> /\ Len(buffer) = 0
           /\ \A p \in Pages : pool[p] = NoFrame
           /\ \A n \in Nat : FramesBounded(pool, n)
           /\ Continuous => /\ RecordsBounded(log, metaLsn)
                            /\ PagesBounded(disk, flushed_lsn)
                            /\ phase = "restamped" => PagesBounded(disk, metaLsn)
<1>1. OthersTyped /\ disk \in [Pages -> Images] /\ pool \in [Pages -> Frames]
  BY Parts DEF StoreIsSound
<1>2. buffer = <<>> /\ Len(buffer) = 0 /\ \A p \in Pages : pool[p] = NoFrame
  BY EmptySeq DEF IInv, QuietMemory
<1>3. \A n \in Nat : FramesBounded(pool, n)
  <2>1. NoFrame.image.lsn = -1 /\ NoFrame.dirty = FALSE
    BY DEF NoFrame, NoImage
  <2>2. \A n \in Nat : -1 <= n
    OBVIOUS
  <2> QED BY <1>2, <2>1, <2>2 DEF FramesBounded
<1>4. Continuous => RecordsBounded(log, metaLsn) /\ PagesBounded(disk, FileTop)
  BY DEF IInv, LsnsBounded
<1>5. FileTop \in Int /\ FileTop <= flushed_lsn /\ (phase = "restamped" => FileTop = metaLsn)
  BY LogNumbers DEF FileTop
<1>6. Continuous => PagesBounded(disk, flushed_lsn)
  BY <1>1, <1>4, <1>5, LogNumbers, PagesMove
<1> QED BY <1>1, <1>2, <1>3, <1>4, <1>5, <1>6

\* A step of opening, which stages nothing and fills no frame.
LEMMA Opening ==
    ASSUME IInv, phase \in {"down", "redone", "restamped"}, OthersTyped',
           UNCHANGED <<buffer, pool, crashes>>,
           disk' \in [Pages -> Images], metaLsn' \in Nat, log' \in Seq(Records),
           Continuous => RecordsBounded(log', metaLsn') /\ PagesBounded(disk', FileTop')
    PROVE  IInv'
<1>1. IInv' <=> /\ OthersTyped' /\ QuietMemory'
                /\ StoreIsSound(disk, metaLsn, log, buffer, pool, FileTop)'
  BY Parts, PTL
<1>2. Continuous' = Continuous
  BY DEF Continuous
<1>3. QuietMemory'
  BY DownFacts DEF QuietMemory
<1>4. buffer' = <<>> /\ pool' \in [Pages -> Frames] /\ buffer' \in Seq(Records)
  BY DownFacts, LogNumbers
<1> DEFINE n == metaLsn' + Len(log') + Len(buffer')
<1>5. n \in Nat
  <2>1. Len(log') \in Nat /\ Len(buffer') \in Nat
    BY <1>4, LenProperties
  <2> QED BY <2>1
<1> HIDE DEF n
<1>6. FramesBounded(pool', n)
  BY <1>5, DownFacts
<1>7. StoreIsSound(disk, metaLsn, log, buffer, pool, FileTop)'
  BY <1>2, <1>4, <1>6, NoRecords DEF StoreIsSound, n
<1> QED BY <1>1, <1>3, <1>7

\* open_clean.
LEMMA OpenCleanKeeps == ASSUME IInv, open_clean PROVE IInv'
<1>1. /\ phase = "down" /\ phase' = "open" /\ nextXid' = metaXid
      /\ UNCHANGED <<disk, metaLsn, metaXid, log, buffer, pool, undo, rolling, found, running,
                     writes, crashes>>
  BY DEF open_clean, files
<1>2. OthersTyped
  BY Parts
<1>3. OthersTyped'
  BY <1>1, <1>2 DEF OthersTyped
<1>4. FileTop' = flushed_lsn
  BY <1>1 DEF FileTop, flushed_lsn
<1> QED BY <1>1, <1>3, <1>4, DownFacts, LogNumbers, Opening

\* open_recover.
LEMMA OpenRecoverKeeps == ASSUME IInv, open_recover PROVE IInv'
<1> DEFINE records == read_all(log, metaLsn)
<1>1. /\ phase = "down" /\ disk' = undo_pass(redo(disk, records), records)
      /\ log' = IF losers(records) = {} THEN log ELSE log \o compensation(records, flushed_lsn)
      /\ found' = highest_xid(records) /\ phase' = "redone"
      /\ UNCHANGED <<metaLsn, metaXid, buffer, pool, undo, nextXid, rolling, running, writes, crashes>>
  BY DEF open_recover, Recovered
<1>2. /\ records \in Seq(Records) /\ Len(records) \in Nat /\ Len(records) <= Len(log)
      /\ RecordsBounded(log, metaLsn) => RecordsBounded(records, metaLsn)
  BY LogNumbers, ReadAllFacts
<1> HIDE DEF records
<1>3. OthersTyped
  BY Parts
<1>4. OthersTyped'
  BY <1>1, <1>2, <1>3, LosersFacts DEF OthersTyped
<1>5. metaLsn + Len(records) <= flushed_lsn
  BY <1>2, LogNumbers
<1>6. /\ redo(disk, records) \in [Pages -> Images]
      /\ Continuous => PagesBounded(redo(disk, records), flushed_lsn)
  BY <1>1, <1>2, <1>5, DownFacts, LogNumbers, RecoveredFacts
<1>7. disk' \in [Pages -> Images] /\ (Continuous => PagesBounded(disk', flushed_lsn))
  <2> DEFINE d == redo(disk, records)
  <2>1. d \in [Pages -> Images] /\ (Continuous => PagesBounded(d, flushed_lsn)) /\ disk' = undo_pass(d, records)
    BY <1>1, <1>6
  <2> HIDE DEF d
  <2> QED BY <1>1, <1>2, <1>5, <2>1, DownFacts, LogNumbers, RecoveredFacts
<1> DEFINE c == compensation(records, flushed_lsn)
<1>8. c \in Seq(Records) /\ (Continuous => RecordsBounded(c, flushed_lsn))
  BY <1>1, <1>2, <1>5, DownFacts, LogNumbers, CompensationFacts
<1> HIDE DEF c
<1>9. /\ log \o c \in Seq(Records) /\ Len(log \o c) = Len(log) + Len(c)
      /\ Continuous => RecordsBounded(log \o c, metaLsn)
  BY <1>1, <1>8, DownFacts, LogNumbers, ConcatRecords
<1>10. log' = log \/ log' = log \o c
  BY <1>1 DEF c
<1>11. /\ log' \in Seq(Records) /\ Len(log') \in Nat /\ Len(log) <= Len(log')
       /\ Continuous => RecordsBounded(log', metaLsn)
  <2>1. Len(c) \in Nat
    BY <1>8, LenProperties
  <2>2. Len(log) <= Len(log) + Len(c) /\ Len(log) + Len(c) \in Nat /\ Len(log) <= Len(log)
    BY <2>1, LogNumbers
  <2> QED BY <1>1, <1>9, <1>10, <2>2, DownFacts, LogNumbers
<1>12. FileTop' = metaLsn + Len(log') /\ FileTop' \in Int /\ flushed_lsn <= FileTop'
  <2>1. FileTop' = metaLsn + Len(log')
    BY <1>1 DEF FileTop, flushed_lsn
  <2> QED BY <1>11, <2>1, LogNumbers
<1>13. Continuous => PagesBounded(disk', FileTop')
  BY <1>7, <1>12, LogNumbers, PagesMove
<1> QED BY <1>1, <1>4, <1>7, <1>11, <1>13, LogNumbers, Opening

\* open_restamp.
LEMMA OpenRestampKeeps == ASSUME IInv, open_restamp PROVE IInv'
<1>1. /\ phase = "redone" /\ metaLsn' = flushed_lsn /\ phase' = "restamped"
      /\ UNCHANGED <<disk, metaXid, log, buffer, pool, undo, nextXid, running, rolling, found,
                     writes, crashes>>
  BY DEF open_restamp, memory
<1>2. OthersTyped
  BY Parts
<1>3. OthersTyped'
  BY <1>1, <1>2 DEF OthersTyped
<1>4. FileTop' = flushed_lsn
  BY <1>1 DEF FileTop
<1>5. Continuous => RecordsBounded(log, flushed_lsn)
  BY <1>1, DownFacts, LogNumbers, BoundsMove
<1> QED BY <1>1, <1>3, <1>4, <1>5, DownFacts, LogNumbers, Opening

\* open_reset.
LEMMA OpenResetKeeps == ASSUME IInv, open_reset PROVE IInv'
<1>1. /\ phase = "restamped" /\ log' = <<>> /\ nextXid' = Max({metaXid, found + 1})
      /\ found' = 0 /\ phase' = "open"
      /\ UNCHANGED <<disk, metaLsn, metaXid, buffer, pool, undo, rolling, running, writes, crashes>>
  BY DEF open_reset
<1>2. OthersTyped
  BY Parts
<1>3. OthersTyped'
  <2> DEFINE T == {metaXid, found + 1}
  <2>1. metaXid \in 1 .. MaxXid + 1 /\ found + 1 \in 1 .. MaxXid + 1
    BY <1>2, XidFacts DEF OthersTyped
  <2>2. MaxXid + 1 \in Nat /\ T \subseteq 0 .. MaxXid + 1 /\ T \subseteq 1 .. MaxXid + 1 /\ T # {}
    BY <2>1, XidFacts
  <2> HIDE DEF T
  <2>3. Max(T) \in T
    BY <2>2, MaxFacts
  <2>4. nextXid' \in 1 .. MaxXid + 1
    BY <1>1, <2>2, <2>3 DEF T
  <2>5. found' \in 0 .. MaxXid
    BY <1>1, XidFacts
  <2> QED BY <1>1, <1>2, <2>4, <2>5 DEF OthersTyped
<1>4. FileTop' = metaLsn /\ log' \in Seq(Records)
  <2>1. FileTop' = metaLsn + Len(log') /\ Len(log') = 0 /\ log' \in Seq(Records)
    BY <1>1, EmptySeq DEF FileTop, flushed_lsn
  <2>2. \A n \in Nat : n + 0 = n
    OBVIOUS
  <2> QED BY <2>1, <2>2, LogNumbers
<1> QED BY <1>1, <1>3, <1>4, DownFacts, LogNumbers, NoRecords, Opening

\* A list of records that arrives behind the log.
LEMMA Arrived ==
    ASSUME IInv, NEW t \in Seq(Records), Continuous => RecordsBounded(t, flushed_lsn)
    PROVE  /\ log \o t \in Seq(Records)
           /\ Continuous => RecordsBounded(log \o t, metaLsn)
           /\ metaLsn + Len(log \o t) \in Int /\ flushed_lsn <= metaLsn + Len(log \o t)
<1>1. Continuous => RecordsBounded(log, metaLsn) /\ RecordsBounded(t, metaLsn + Len(log))
  BY DEF IInv, LsnsBounded, flushed_lsn
<1>2. /\ log \o t \in Seq(Records) /\ Len(log \o t) = Len(log) + Len(t)
      /\ RecordsBounded(log, metaLsn) /\ RecordsBounded(t, metaLsn + Len(log))
            => RecordsBounded(log \o t, metaLsn)
  BY LogNumbers, ConcatRecords
<1> DEFINE n == Len(log \o t)
<1>3. n = Len(log) + Len(t) /\ Len(t) \in Nat
  BY <1>2, LenProperties
<1> HIDE DEF n
<1>4. metaLsn + n \in Int /\ flushed_lsn <= metaLsn + n
  BY <1>3, LogNumbers
<1> QED BY <1>1, <1>2, <1>4 DEF n

\* What a flush writes.
LEMMA PendingFacts ==
    ASSUME IInv, NEW pending \in Pending
    PROVE  /\ pending \in Seq(Records) /\ Len(pending) \in Nat
           /\ Continuous => RecordsBounded(pending, flushed_lsn)
<1>1. CASE pending = buffer
  BY <1>1, LogNumbers DEF IInv, LsnsBounded
<1>2. ASSUME NEW x \in running, pending = Append(buffer, Ending("commit", x, next_lsn))
      PROVE  /\ pending \in Seq(Records) /\ Len(pending) \in Nat
             /\ Continuous => RecordsBounded(pending, flushed_lsn)
  <2>1. x \in 0 .. MaxXid
    BY XidFacts DEF IInv, TypeOK
  <2>2. /\ pending \in Seq(Records) /\ Len(pending) = Len(buffer) + 1
        /\ Continuous => RecordsBounded(pending, flushed_lsn)
    BY <1>2, <2>1, EndingStaged
  <2> QED BY <2>2, LenProperties
<1> QED BY <1>1, <1>2 DEF Pending

\* A crash that leaves the pages as they are and a longer log.
LEMMA DiesBehind ==
    ASSUME IInv, phase \in Running, NEW point, NEW t \in Seq(Records),
           Continuous => RecordsBounded(t, flushed_lsn), Dies(point, disk, log \o t)
    PROVE  IInv'
<1>1. /\ log \o t \in Seq(Records) /\ (Continuous => RecordsBounded(log \o t, metaLsn))
      /\ metaLsn + Len(log \o t) \in Int /\ flushed_lsn <= metaLsn + Len(log \o t)
  BY Arrived
<1> DEFINE l == log \o t
           n == metaLsn + Len(l)
<1>2. /\ l \in Seq(Records) /\ (Continuous => RecordsBounded(l, metaLsn))
      /\ n \in Int /\ flushed_lsn <= n /\ n = metaLsn + Len(l) /\ Dies(point, disk, l)
  BY <1>1
<1> HIDE DEF l, n
<1>3. Continuous => PagesBounded(disk, n)
  BY <1>2, OpenFacts, LogNumbers, PagesMove
<1>4. disk \in [Pages -> Images]
  BY OpenFacts
<1>5. Continuous /\ point # "truncated" =>
         RecordsBounded(l, metaLsn) /\ PagesBounded(disk, metaLsn + Len(l))
  BY <1>2, <1>3
<1> QED BY <1>2, <1>4, <1>5, DiesKeeps

\* CrashBetween.
LEMMA CrashBetweenKeeps == ASSUME IInv, CrashBetween PROVE IInv'
<1>1. phase \in Running \/ phase = "redone"
  BY DEF CrashBetween, Running
<1>2. /\ disk \in [Pages -> Images]
      /\ Continuous => RecordsBounded(log, metaLsn) /\ PagesBounded(disk, flushed_lsn)
  BY <1>1, OpenFacts, DownFacts
<1> QED BY <1>2, LogNumbers, DiesKeeps DEF CrashBetween

\* CrashInFlush.
LEMMA CrashInFlushKeeps == ASSUME IInv, CrashInFlush PROVE IInv'
<1>1. phase \in Running
  BY DEF CrashInFlush, Running
<1>2. PICK pending \in Pending : \E n \in 0 .. Len(pending) :
         Dies("flush", disk, log \o SubSeq(pending, 1, n))
  BY DEF CrashInFlush
<1>3. PICK n \in 0 .. Len(pending) : Dies("flush", disk, log \o SubSeq(pending, 1, n))
  BY <1>2
<1> DEFINE t == SubSeq(pending, 1, n)
<1>4. t \in Seq(Records) /\ (Continuous => RecordsBounded(t, flushed_lsn))
  BY PendingFacts, LogNumbers, PrefixRecords
<1>5. Dies("flush", disk, log \o t)
  BY <1>3
<1> HIDE DEF t
<1> QED BY <1>1, <1>4, <1>5, DiesBehind

\* CrashTearsRecord.
LEMMA CrashTearsKeeps == ASSUME IInv, CrashTearsRecord PROVE IInv'
<1>1. phase \in Running
  BY DEF CrashTearsRecord, Running
<1> DEFINE Point(l) == IF read_all(l, metaLsn) = <<>> THEN "torn head" ELSE "torn tail"
<1>2. PICK pending \in Pending : \E n \in 0 .. Len(pending) - 1 :
         Dies(Point(log \o Append(SubSeq(pending, 1, n), Torn)), disk,
              log \o Append(SubSeq(pending, 1, n), Torn))
  BY DEF CrashTearsRecord
<1>3. PICK n \in 0 .. Len(pending) - 1 :
         Dies(Point(log \o Append(SubSeq(pending, 1, n), Torn)), disk,
              log \o Append(SubSeq(pending, 1, n), Torn))
  BY <1>2
<1> HIDE DEF Point
<1>4. /\ pending \in Seq(Records) /\ Len(pending) \in Nat
      /\ Continuous => RecordsBounded(pending, flushed_lsn)
  BY PendingFacts
<1>5. n \in 0 .. Len(pending) /\ n \in Nat
  BY <1>4
<1> DEFINE s == SubSeq(pending, 1, n)
           t == Append(s, Torn)
<1>6. /\ s \in Seq(Records) /\ Len(s) = n
      /\ Continuous => RecordsBounded(s, flushed_lsn)
  BY <1>4, <1>5, LogNumbers, PrefixRecords
<1>7. Torn \in Records /\ Torn.lsn = 0 /\ Torn.before.lsn = -1 /\ Torn.after.lsn = -1
  BY XidFacts, EndingTyped DEF Torn, NO_TRANSACTION
<1>8. Dies(Point(log \o t), disk, log \o t)
  BY <1>3
<1> HIDE DEF s
<1>9. Torn.lsn <= flushed_lsn + Len(s) /\ Torn.before.lsn <= Torn.lsn /\ Torn.after.lsn <= Torn.lsn
  BY <1>5, <1>6, <1>7, LogNumbers
<1>10. t \in Seq(Records) /\ (Continuous => RecordsBounded(t, flushed_lsn))
  BY <1>6, <1>7, <1>9, LogNumbers, AppendRecord
<1> HIDE DEF t
<1> QED BY <1>1, <1>8, <1>10, DiesBehind

\* CrashInSync.
LEMMA CrashInSyncKeeps == ASSUME IInv, CrashInSync PROVE IInv'
<1>1. phase \in Running
  BY DEF CrashInSync, Running
<1>2. PICK S \in SUBSET DirtyPages : Dies("sync", Written(S), log \o buffer)
  BY DEF CrashInSync
<1> DEFINE l == log \o buffer
           d == Written(S)
<1>3. /\ l \in Seq(Records) /\ metaLsn + Len(l) = next_lsn
      /\ Continuous => RecordsBounded(l, metaLsn)
  BY FlushFacts
<1>4. d \in [Pages -> Images] /\ (Continuous => PagesBounded(d, next_lsn))
  BY <1>1, WrittenFacts
<1>5. Dies("sync", d, l)
  BY <1>2
<1> HIDE DEF d, l
<1> QED BY <1>3, <1>4, <1>5, DiesKeeps

\* CrashInCheckpointFlush.
LEMMA CrashInCheckpointKeeps == ASSUME IInv, CrashInCheckpointFlush PROVE IInv'
<1>1. phase \in Running
  BY DEF CrashInCheckpointFlush, Running
<1>2. PICK S \in SUBSET DirtyPages :
         Dies("checkpoint flush", Written(S),
              IF \E p \in S : must_flush(pool[p].image.lsn) THEN log \o buffer ELSE log)
  BY DEF CrashInCheckpointFlush
<1> DEFINE flush == \E p \in S : must_flush(pool[p].image.lsn)
           l == IF flush THEN log \o buffer ELSE log
           d == Written(S)
<1>3. d \in [Pages -> Images] /\ (Continuous => PagesBounded(d, next_lsn))
  BY <1>1, WrittenFacts
<1>4. ~flush /\ Continuous => PagesBounded(d, flushed_lsn)
  <2>1. \A p \in S \intersect Pages : pool[p] \in Frames
    BY <1>1, OpenFacts
  <2>2. \A p \in S \intersect Pages : pool[p].image.lsn \in Int
    BY <2>1 DEF Frames, Images
  <2>3. ~flush => \A p \in S \intersect Pages : pool[p].image.lsn <= flushed_lsn
    BY <2>2, LogNumbers DEF must_flush
  <2> HIDE DEF flush
  <2> QED BY <1>1, <2>3, LogNumbers, WrittenFacts
<1>5. /\ l \in Seq(Records) /\ metaLsn + Len(l) = IF flush THEN next_lsn ELSE flushed_lsn
      /\ Continuous => RecordsBounded(l, metaLsn)
  <2>1. /\ log \o buffer \in Seq(Records) /\ metaLsn + Len(log \o buffer) = next_lsn
        /\ Continuous => RecordsBounded(log \o buffer, metaLsn)
    BY FlushFacts
  <2> HIDE DEF flush
  <2> QED BY <1>1, <2>1, OpenFacts, LogNumbers
<1>6. Dies("checkpoint flush", d, l)
  BY <1>2
<1> HIDE DEF d, l, flush
<1>7. Continuous => PagesBounded(d, metaLsn + Len(l))
  BY <1>3, <1>4, <1>5
<1> QED BY <1>3, <1>5, <1>6, <1>7, DiesKeeps

\* CrashAfterTruncate: the one crash that may leave pages past the log.
LEMMA CrashAfterTruncateKeeps == ASSUME IInv, CrashAfterTruncate PROVE IInv'
<1>1. phase \in Running /\ Dies("truncated", Written(DirtyPages), <<>>)
  BY DEF CrashAfterTruncate, Running
<1>2. Written(DirtyPages) \in [Pages -> Images] /\ <<>> \in Seq(Records)
  BY <1>1, WrittenFacts, EmptySeq
<1> QED BY <1>1, <1>2, DiesKeeps

\* CrashInRecovery.
LEMMA CrashInRecoveryKeeps == ASSUME IInv, CrashInRecovery PROVE IInv'
<1> DEFINE records == read_all(log, metaLsn)
           redone == redo(disk, records)
           undone == undo_pass(redone, records)
           mixed(S, T) == [p \in Pages |-> IF p \in S THEN undone[p]
                                           ELSE IF p \in T THEN redone[p] ELSE disk[p]]
<1>1. phase = "down" /\ \E S, T \in SUBSET Pages : Dies("recovery", mixed(S, T), log)
  BY DEF CrashInRecovery
<1>2. PICK S \in SUBSET Pages, T \in SUBSET Pages : Dies("recovery", mixed(S, T), log)
  BY <1>1
<1>3. /\ records \in Seq(Records) /\ Len(records) \in Nat /\ Len(records) <= Len(log)
      /\ RecordsBounded(log, metaLsn) => RecordsBounded(records, metaLsn)
  BY LogNumbers, ReadAllFacts
<1>4. metaLsn + Len(records) <= flushed_lsn
  BY <1>3, LogNumbers
<1> HIDE DEF records
<1>5. redone \in [Pages -> Images] /\ (Continuous => PagesBounded(redone, flushed_lsn))
  BY <1>1, <1>3, <1>4, DownFacts, LogNumbers, RecoveredFacts
<1> HIDE DEF redone
<1>6. undone \in [Pages -> Images] /\ (Continuous => PagesBounded(undone, flushed_lsn))
  BY <1>1, <1>3, <1>4, <1>5, DownFacts, LogNumbers, RecoveredFacts
<1> HIDE DEF undone
<1> DEFINE d == mixed(S, T)
<1>7. d \in [Pages -> Images] /\ \A p \in Pages : d[p] \in {undone[p], redone[p], disk[p]}
  BY <1>1, <1>5, <1>6, DownFacts
<1>8. Dies("recovery", d, log)
  BY <1>2
<1> HIDE DEF d
<1>9. Continuous => PagesBounded(d, flushed_lsn)
  BY <1>1, <1>5, <1>6, <1>7, DownFacts DEF PagesBounded
<1> QED BY <1>1, <1>7, <1>8, <1>9, DownFacts, LogNumbers, DiesKeeps

\* CrashBeforeReset.
LEMMA CrashBeforeResetKeeps == ASSUME IInv, CrashBeforeReset PROVE IInv'
BY DownFacts, LogNumbers, DiesKeeps DEF CrashBeforeReset

---------------------------------------------------------------------------
(* The theorems.                                                           *)

\* A new database.
LEMMA InitSound == Init => IInv
<1> SUFFICES ASSUME Init PROVE IInv
  OBVIOUS
<1>1. OthersTyped
  <2>1. undo \in [Xids -> UndoLogs]
    BY EmptySeq DEF Init, NoUndo, UndoLogs
  <2>2. rolling \in [txn : 0 .. MaxXid, todo : Seq(UndoImages)]
    BY XidFacts, EmptySeq DEF Init, Idle, NO_TRANSACTION
  <2>3. /\ metaXid \in 1 .. MaxXid + 1 /\ nextXid \in 1 .. MaxXid + 1 /\ found \in 0 .. MaxXid
        /\ phase = "open" /\ running \subseteq Xids
    BY XidFacts DEF Init
  <2>4. writes \in Seq(History) /\ Len(writes) <= MaxWrites
    BY EmptySeq, BoundsAssumption DEF Init
  <2>5. crashes \in [struck : 0 .. Len(CrashPlan), repaired : BOOLEAN]
    <3>1. Len(CrashPlan) \in Nat
      BY BoundsAssumption, LenProperties
    <3> QED BY <3>1 DEF Init
  <2> QED BY <2>1, <2>2, <2>3, <2>4, <2>5 DEF OthersTyped, UndoLogs, History
<1>2. QuietMemory
  BY DEF Init, QuietMemory
<1>3. /\ disk \in [Pages -> Images] /\ pool \in [Pages -> Frames]
      /\ \A p \in Pages : disk[p] = BlankImage /\ pool[p] = NoFrame
  BY ConstantsTyped DEF Init
<1>4. /\ log = <<>> /\ buffer = <<>> /\ metaLsn = 1 /\ Len(log) = 0 /\ Len(buffer) = 0
      /\ log \in Seq(Records) /\ buffer \in Seq(Records)
  BY EmptySeq DEF Init
<1>5. FileTop = 1 /\ metaLsn + Len(log) + Len(buffer) = 1 /\ metaLsn + Len(log) = 1
  BY <1>4 DEF FileTop, flushed_lsn
<1>6. BlankImage.lsn = 0 /\ NoFrame.image.lsn = -1 /\ NoFrame.dirty = FALSE
  BY DEF BlankImage, NoFrame, NoImage
<1>7. FramesBounded(pool, 1) /\ PagesBounded(disk, 1)
  BY <1>3, <1>6 DEF FramesBounded, PagesBounded
<1>8. StoreIsSound(disk, metaLsn, log, buffer, pool, FileTop)
  BY <1>3, <1>4, <1>5, <1>7, NoRecords DEF StoreIsSound
<1> QED BY <1>1, <1>2, <1>8, Parts

\* Nothing happens.
LEMMA StutterKeeps == IInv /\ UNCHANGED vars => IInv'
BY DEF IInv, TypeOK, QuietMemory, Continuous, LsnsBounded, RecordsBounded, FramesBounded,
       PagesBounded, FileTop, flushed_lsn, next_lsn, vars

\* Every step leaves the invariant.
LEMMA StepKeeps == IInv /\ [Next]_vars => IInv'
<1> SUFFICES ASSUME IInv, [Next]_vars PROVE IInv'
  OBVIOUS
<1>1. CASE begin
  BY <1>1, BeginKeeps
<1>2. CASE Transact
  BY <1>2, CommitKeeps, RollbackKeeps, WriteKeeps DEF Transact
<1>3. CASE restore_page \/ finish_rollback
  BY <1>3, RestoreKeeps, FinishKeeps
<1>4. CASE \E p \in Pages : Fetch(p)
  BY <1>4, FetchKeeps
<1>5. CASE Maintain
  BY <1>5, SyncKeeps, CheckpointKeeps, CloseKeeps DEF Maintain
<1>6. CASE Restart
  BY <1>6, OpenCleanKeeps, OpenRecoverKeeps, OpenRestampKeeps, OpenResetKeeps DEF Restart
<1>7. CASE Die
  BY <1>7, CrashBetweenKeeps, CrashInFlushKeeps, CrashTearsKeeps, CrashInSyncKeeps,
     CrashInCheckpointKeeps, CrashAfterTruncateKeeps, CrashInRecoveryKeeps,
     CrashBeforeResetKeeps DEF Die
<1>8. CASE Stop \/ UNCHANGED vars
  BY <1>8, StutterKeeps DEF Stop
<1> QED BY <1>1, <1>2, <1>3, <1>4, <1>5, <1>6, <1>7, <1>8 DEF Next

\* The write-ahead rule as flush_through keeps it: in an open database no page
\* of the data file carries an LSN past the first record that is still staged.
\* It holds for any sizes, any pages evicted and any crashes, as long as none
\* has struck between the truncation of the log and the meta page.
THEOREM LogIsAhead == Spec => []((crashes.repaired \/ NeverTruncated) => WriteAheadButOne)
<1>1. IInv => ((crashes.repaired \/ NeverTruncated) => WriteAheadButOne)
  BY DEF IInv, Continuous, LsnsBounded, PagesBounded, FileTop, WriteAheadButOne
<1> QED BY <1>1, InitSound, StepKeeps, PTL DEF Spec

\* Records, images, frames and undo logs keep their types through every write,
\* eviction, crash and recovery.
THEOREM StorageIsTyped == Spec => []TypeOK
<1>1. IInv => TypeOK
  BY DEF IInv
<1> QED BY <1>1, InitSound, StepKeeps, PTL DEF Spec
=============================================================================

--------------------------- MODULE WorkspaceProofs ---------------------------
(***************************************************************************)
(* The table of open databases, for any number of requests, databases and  *)
(* sessions. Everything rests on who may close a handle: the one request   *)
(* that took it out of the table.                                          *)
(***************************************************************************)
EXTENDS Workspace, SequenceFacts

Answers == {None, "ok", "not_found", "exists", "closed", "timeout", "failed"}

\* TableHoldsLiveHandles, position by position.
TableIsSound ==
    /\ Len(open) <= MaxOpen
    /\ \A i \in 1 .. Len(open) :
          /\ handles[open[i]].live
          /\ handles[open[i]].inode = disk[handles[open[i]].db] \/ open[i] \in strays
    /\ \A i, j \in 1 .. Len(open) : handles[open[i]].db = handles[open[j]].db => i = j

\* A live handle is in the table, or somebody is about to close it.
LiveIsKept ==
    \A h \in 1 .. Len(handles) : handles[h].live =>
        \/ \E i \in 1 .. Len(open) : open[i] = h
        \/ \E r \in Reqs : pc[r] \in {"closing", "evicting"} /\ using[r] = h

\* Whoever closes a handle has taken it out of the table.
ClosersOwn ==
    \A r \in Reqs : pc[r] \in {"closing", "evicting"} /\ using[r] # 0 =>
        \A i \in 1 .. Len(open) : open[i] # using[r]

\* An eviction holds the table's lock.
EvictorHoldsTable == \A r \in Reqs : pc[r] = "evicting" => table = r

\* A request that uses or closes a handle has one.
UsersHaveHandles ==
    \A r \in Reqs : pc[r] \in {"resolved", "inside", "waiting", "closing"} => using[r] # 0

\* A request that is being served asked for something, and only a delete unlinks.
AskedFor ==
    \A r \in Reqs : /\ pc[r] # "idle" => call[r] \in Calls
                    /\ pc[r] = "unlink" => call[r].kind = "delete"

\* What a delete finds in the table when it unlinks came after its close.
DeleteMeetsStrays ==
    \A r \in Reqs : pc[r] \in {"closing", "unlink"} /\ call[r].kind = "delete" =>
        \A i \in 1 .. Len(open) : handles[open[i]].db = call[r].db => open[i] \in strays

\* A server that has stopped serves nobody.
DownIsQuiet == down => open = <<>> /\ \A r \in Reqs : pc[r] \in {"idle", "done"}

IInv ==
    /\ TypeOK
    /\ TableIsSound
    /\ TwoHandlesOnlyWhileClosing
    /\ LiveIsKept
    /\ ClosersOwn
    /\ EvictorHoldsTable
    /\ UsersHaveHandles
    /\ AskedFor
    /\ DeleteMeetsStrays
    /\ DownIsQuiet

---------------------------------------------------------------------------
(* Types.                                                                  *)

\* The conjuncts of the type invariant, and what they say of one request.
LEMMA Typed ==
    ASSUME IInv
    PROVE  /\ disk \in [Dbs -> Nat] /\ handles \in Seq(Handles) /\ Len(handles) \in Nat
           /\ \A h \in 1 .. Len(handles) : handles[h] \in Handles
           /\ open \in Seq(1 .. Len(handles)) /\ Len(open) \in Nat
           /\ \A i \in 1 .. Len(open) : open[i] \in 1 .. Len(handles)
           /\ table \in Reqs \union {Nobody} /\ call \in [Reqs -> Calls \union {NoCall}]
           /\ pc \in [Reqs -> PCs] /\ using \in [Reqs -> 0 .. Len(handles)]
           /\ answer \in [Reqs -> Answers] /\ strays \subseteq 1 .. Len(handles)
           /\ down \in BOOLEAN
<1>1. TypeOK
  BY DEF IInv
<1>2. handles \in Seq(Handles) /\ open \in Seq(1 .. Len(handles))
  BY <1>1 DEF TypeOK, HandleIds
<1>3. /\ Len(handles) \in Nat /\ \A h \in 1 .. Len(handles) : handles[h] \in Handles
      /\ Len(open) \in Nat /\ \A i \in 1 .. Len(open) : open[i] \in 1 .. Len(handles)
  BY <1>2, LenProperties, ElementOfSeq
<1> QED BY <1>1, <1>2, <1>3 DEF TypeOK, HandleIds, Answers

\* What a call holds.
LEMMA CallFacts ==
    ASSUME NEW c \in Calls
    PROVE  /\ c.db \in Dbs
           /\ c.kind \in Statements => c.session \in Sessions
           /\ c.kind = "delete" => c = [kind |-> "delete", db |-> c.db]
<1>1. c \in AllCalls
  BY CallsAssumption
<1>2. CASE c \in [kind : Statements, db : Dbs, session : Sessions]
  BY <1>2 DEF Statements
<1>3. CASE c \in [kind : {"create", "delete", "crash"}, db : Dbs]
  BY <1>3 DEF Statements
<1> QED BY <1>1, <1>2, <1>3 DEF AllCalls

\* The handle the table has for d is one of its entries.
LEMMA ListedFacts ==
    ASSUME IInv, NEW d
    PROVE  /\ \A h \in Listed(d) : \E i \in 1 .. Len(open) : open[i] = h /\ handles[h].db = d
           /\ \A i \in 1 .. Len(open) : handles[open[i]].db = d => open[i] \in Listed(d)
<1>1. DOMAIN open = 1 .. Len(open)
  BY Typed, LenProperties
<1> QED BY <1>1 DEF Listed, Range

\* Handles that change in nothing the table depends on.
SameFiles ==
    /\ handles' \in Seq(Handles) /\ Len(handles') = Len(handles)
    /\ \A h \in 1 .. Len(handles) :
          /\ handles'[h].db = handles[h].db /\ handles'[h].inode = handles[h].inode
          /\ handles'[h].live = handles[h].live

\* One handle that changes.
LEMMA OneHandle ==
    ASSUME IInv, NEW h \in 1 .. Len(handles), NEW x \in Handles, handles' = [handles EXCEPT ![h] = x]
    PROVE  /\ handles' \in Seq(Handles) /\ Len(handles') = Len(handles)
           /\ \A g \in 1 .. Len(handles) : handles'[g] = IF g = h THEN x ELSE handles[g]
<1>1. handles \in Seq(Handles) /\ DOMAIN handles = 1 .. Len(handles) /\ Len(handles) \in Nat
  BY Typed, LenProperties
<1>2. handles' \in Seq(Handles) /\ Len(handles') = Len(handles)
  BY <1>1, ExceptSeq
<1>3. \A g \in 1 .. Len(handles) : handles'[g] = IF g = h THEN x ELSE handles[g]
  BY <1>1
<1> QED BY <1>2, <1>3

---------------------------------------------------------------------------
(* Steps that leave the table as it is.                                    *)

\* Request r goes to `at`, with the handle u in hand: it is not a step of a
\* request that closes a handle, and it does not begin to close one.
Quiet(r, at, u) ==
    /\ pc[r] \in PCs \ {"idle", "done", "closing"} /\ (pc[r] = "evicting" => using[r] = 0)
    /\ at \in PCs \ {"idle", "closing", "evicting", "unlink"}
    /\ u \in 0 .. Len(handles) /\ (at \in {"resolved", "inside", "waiting"} => u # 0)
    /\ pc' = [pc EXCEPT ![r] = at]
    /\ using' = [using EXCEPT ![r] = u]
    /\ answer' \in [Reqs -> Answers]
    /\ table' = table \/ (table \in {Nobody, r} /\ table' = Nobody)
    /\ SameFiles
    /\ UNCHANGED <<open, call, strays, down>>

\* A quiet step, with the same files on disk, preserves the invariant.
LEMMA QuietInv ==
    ASSUME IInv, NEW r \in Reqs, NEW at, NEW u, Quiet(r, at, u),
           disk' \in [Dbs -> Nat],
           \A i \in 1 .. Len(open) :
              \/ disk'[handles[open[i]].db] = disk[handles[open[i]].db]
              \/ open[i] \in strays
    PROVE  IInv'
<1>0. /\ TableIsSound /\ TwoHandlesOnlyWhileClosing /\ LiveIsKept /\ ClosersOwn
      /\ EvictorHoldsTable /\ UsersHaveHandles /\ AskedFor /\ DeleteMeetsStrays /\ DownIsQuiet
  BY DEF IInv
<1>1. /\ open \in Seq(1 .. Len(handles)) /\ Len(open) \in Nat /\ Len(handles) \in Nat
      /\ \A i \in 1 .. Len(open) : open[i] \in 1 .. Len(handles)
      /\ table \in Reqs \union {Nobody} /\ call \in [Reqs -> Calls \union {NoCall}]
      /\ pc \in [Reqs -> PCs] /\ using \in [Reqs -> 0 .. Len(handles)]
      /\ strays \subseteq 1 .. Len(handles) /\ down \in BOOLEAN
  BY Typed
<1>2. /\ \A q \in Reqs : pc'[q] = IF q = r THEN at ELSE pc[q]
      /\ \A q \in Reqs : using'[q] = IF q = r THEN u ELSE using[q]
      /\ pc' \in [Reqs -> PCs] /\ using' \in [Reqs -> 0 .. Len(handles)]
  BY <1>1 DEF Quiet
<1>3. /\ open' = open /\ call' = call /\ strays' = strays /\ down' = down
      /\ handles' \in Seq(Handles) /\ Len(handles') = Len(handles)
      /\ \A h \in 1 .. Len(handles) :
            /\ handles'[h].db = handles[h].db /\ handles'[h].inode = handles[h].inode
            /\ handles'[h].live = handles[h].live
  BY DEF Quiet, SameFiles
<1>4. /\ pc[r] \notin {"idle", "done", "closing"} /\ (pc[r] = "evicting" => using[r] = 0)
      /\ at \notin {"idle", "closing", "evicting", "unlink"}
      /\ at \in {"resolved", "inside", "waiting"} => u # 0
      /\ table' = table \/ (table \in {Nobody, r} /\ table' = Nobody)
  BY DEF Quiet
<1>5. TypeOK'
  <2>1. answer' \in [Reqs -> Answers] /\ table' \in Reqs \union {Nobody}
    BY <1>1 DEF Quiet
  <2> QED BY <1>1, <1>2, <1>3, <2>1 DEF TypeOK, HandleIds, Answers
<1>6. TableIsSound'
  <2>1. \A i \in 1 .. Len(open) :
           /\ handles'[open[i]].db = handles[open[i]].db
           /\ handles'[open[i]].inode = handles[open[i]].inode
           /\ handles'[open[i]].live = handles[open[i]].live
    BY <1>1, <1>3
  <2>2. \A i \in 1 .. Len(open) :
           /\ handles'[open[i]].live
           /\ handles'[open[i]].inode = disk'[handles'[open[i]].db] \/ open[i] \in strays
    BY <1>0, <2>1 DEF TableIsSound
  <2>3. \A i, j \in 1 .. Len(open) : handles'[open[i]].db = handles'[open[j]].db => i = j
    BY <1>0, <2>1 DEF TableIsSound
  <2> QED BY <1>0, <1>3, <2>2, <2>3 DEF TableIsSound
<1>7. TwoHandlesOnlyWhileClosing'
  <2> SUFFICES ASSUME NEW g \in 1 .. Len(handles), NEW h \in 1 .. Len(handles), g < h,
                      handles[g].live, handles[h].live, handles[g].db = handles[h].db,
                      handles[g].inode = handles[h].inode
               PROVE  \E q \in Reqs : pc'[q] = "closing" /\ using'[q] = g
    BY <1>3 DEF TwoHandlesOnlyWhileClosing, HandleIds
  <2>1. PICK q \in Reqs : pc[q] = "closing" /\ using[q] = g
    BY <1>0 DEF TwoHandlesOnlyWhileClosing, HandleIds
  <2> QED BY <1>2, <1>4, <2>1
<1>8. LiveIsKept'
  <2> SUFFICES ASSUME NEW h \in 1 .. Len(handles), handles[h].live,
                      \A i \in 1 .. Len(open) : open[i] # h
               PROVE  \E q \in Reqs : pc'[q] \in {"closing", "evicting"} /\ using'[q] = h
    BY <1>3 DEF LiveIsKept
  <2>1. PICK q \in Reqs : pc[q] \in {"closing", "evicting"} /\ using[q] = h
    BY <1>0 DEF LiveIsKept
  <2>2. h # 0
    BY <1>1
  <2> QED BY <1>2, <1>4, <2>1, <2>2
<1>9. ClosersOwn'
  <2> SUFFICES ASSUME NEW q \in Reqs, pc'[q] \in {"closing", "evicting"}, using'[q] # 0,
                      NEW i \in 1 .. Len(open)
               PROVE  open[i] # using'[q]
    BY <1>3 DEF ClosersOwn
  <2>1. q # r /\ pc[q] \in {"closing", "evicting"} /\ using'[q] = using[q]
    BY <1>2, <1>4
  <2> QED BY <1>0, <2>1 DEF ClosersOwn
<1>10. EvictorHoldsTable'
  <2>1. Nobody \notin Reqs
    BY NReqsAssumption DEF Nobody, Reqs
  <2> QED BY <1>0, <1>2, <1>4, <2>1 DEF EvictorHoldsTable
<1>11. UsersHaveHandles'
  BY <1>0, <1>2, <1>4 DEF UsersHaveHandles
<1>12. AskedFor'
  BY <1>0, <1>2, <1>3, <1>4 DEF AskedFor
<1>13. DeleteMeetsStrays'
  <2> SUFFICES ASSUME NEW q \in Reqs, pc'[q] \in {"closing", "unlink"}, call[q].kind = "delete",
                      NEW i \in 1 .. Len(open), handles'[open[i]].db = call[q].db
               PROVE  open[i] \in strays
    BY <1>3 DEF DeleteMeetsStrays
  <2>1. pc[q] \in {"closing", "unlink"}
    BY <1>2, <1>4
  <2>2. handles[open[i]].db = call[q].db
    BY <1>1, <1>3
  <2> QED BY <1>0, <2>1, <2>2 DEF DeleteMeetsStrays
<1>14. DownIsQuiet'
  BY <1>0, <1>2, <1>3, <1>4 DEF DownIsQuiet
<1> QED BY <1>5, <1>6, <1>7, <1>8, <1>9, <1>10, <1>11, <1>12, <1>13, <1>14 DEF IInv

\* The same when no file changes.
LEMMA QuietKeepsFiles ==
    ASSUME IInv, NEW r \in Reqs, NEW at, NEW u, Quiet(r, at, u), disk' = disk
    PROVE  IInv'
BY QuietInv, Typed
\* A request answers quietly, and one goes on with the handle it has.
LEMMA AnswerTypes ==
    ASSUME IInv, NEW r \in Reqs, NEW what \in Answers, answer' = [answer EXCEPT ![r] = what]
    PROVE  answer' \in [Reqs -> Answers]
BY Typed

\* Handles that stay as they are.
LEMMA HandlesStay == ASSUME IInv, handles' = handles PROVE SameFiles
BY Typed DEF SameFiles

\* A handle of which the lock, the transactions or the row change.
LEMMA InsideChanges ==
    ASSUME IInv, NEW h \in 1 .. Len(handles), NEW x \in Handles, handles' = [handles EXCEPT ![h] = x],
           x.db = handles[h].db, x.inode = handles[h].inode, x.live = handles[h].live
    PROVE  SameFiles
<1>1. /\ handles' \in Seq(Handles) /\ Len(handles') = Len(handles)
      /\ \A g \in 1 .. Len(handles) : handles'[g] = IF g = h THEN x ELSE handles[g]
  BY OneHandle
<1> QED BY <1>1 DEF SameFiles

\* Parts of a handle that requests change.
LEMMA HandleParts ==
    ASSUME NEW x \in Handles, NEW owner \in Reqs \union {Nobody}, NEW txns \in SUBSET Sessions,
           NEW row \in Sessions \union {None}
    PROVE  LET y == [x EXCEPT !.owner = owner]
               z == [x EXCEPT !.owner = owner, !.txns = txns]
               w == [x EXCEPT !.owner = owner, !.txns = txns, !.row = row]
           IN  /\ y \in Handles /\ y.db = x.db /\ y.inode = x.inode /\ y.live = x.live
               /\ z \in Handles /\ z.db = x.db /\ z.inode = x.inode /\ z.live = x.live
               /\ w \in Handles /\ w.db = x.db /\ w.inode = x.inode /\ w.live = x.live
BY DEF Handles

\* The first half of get.
LEMMA lookupInv ==
    ASSUME IInv, NEW r \in Reqs, lookup(r)
    PROVE  IInv'
<1>0. /\ pc[r] = "lookup" /\ UNCHANGED <<disk, handles, open, table, call, answer, strays, down>>
  BY DEF lookup
<1>1. SameFiles /\ answer' \in [Reqs -> Answers] /\ using \in [Reqs -> 0 .. Len(handles)]
  BY <1>0, HandlesStay, Typed
<1>2. CASE goto(r, "exists") /\ using' = using
  <2>1. using' = [using EXCEPT ![r] = using[r]] /\ using[r] \in 0 .. Len(handles)
    BY <1>1, <1>2
  <2>2. Quiet(r, "exists", using[r])
    BY <1>0, <1>1, <1>2, <2>1 DEF Quiet, goto, PCs
  <2> QED BY <1>0, <2>2, QuietKeepsFiles
<1>3. ASSUME NEW h \in Listed(call[r].db), Hold(r, h), goto(r, "resolved")
      PROVE  IInv'
  <2>1. h \in 1 .. Len(handles)
    BY ListedFacts, Typed
  <2>3. h \in 0 .. Len(handles) /\ h # 0
    BY <2>1, Typed
  <2>2. Quiet(r, "resolved", h)
    BY <1>0, <1>1, <1>3, <2>3 DEF Quiet, goto, Hold, PCs
  <2> QED BY <1>0, <2>2, QuietKeepsFiles
<1> QED BY <1>2, <1>3 DEF lookup

\* Request r is answered in a quiet step.
LEMMA QuietAnswer ==
    ASSUME IInv, NEW r \in Reqs, NEW what \in Answers, Answer(r, what),
           pc[r] \notin {"idle", "done", "closing"}, pc[r] = "evicting" => using[r] = 0,
           table' = table \/ (table \in {Nobody, r} /\ table' = Nobody),
           SameFiles, UNCHANGED <<open, call, strays, down>>
    PROVE  Quiet(r, "done", 0)
<1>1. answer' \in [Reqs -> Answers] /\ pc[r] \in PCs /\ 0 \in 0 .. Len(handles)
  BY AnswerTypes, Typed DEF Answer
<1> QED BY <1>1 DEF Quiet, Answer, goto, Hold, PCs

\* Request r goes on with what it has in hand.
LEMMA QuietGoes ==
    ASSUME IInv, NEW r \in Reqs, NEW at \in PCs \ {"idle", "closing", "evicting", "unlink"},
           goto(r, at), using' = using, answer' = answer,
           pc[r] \notin {"idle", "done", "closing", "evicting"}, table' = table,
           at \in {"resolved", "inside", "waiting"} => using[r] # 0,
           SameFiles, UNCHANGED <<open, call, strays, down>>
    PROVE  Quiet(r, at, using[r])
<1>1. answer' \in [Reqs -> Answers] /\ pc[r] \in PCs /\ using[r] \in 0 .. Len(handles)
  BY Typed
<1>2. using' = [using EXCEPT ![r] = using[r]]
  BY Typed
<1> QED BY <1>1, <1>2 DEF Quiet, goto

\* A look at the path.
LEMMA existsInv ==
    ASSUME IInv, NEW r \in Reqs, exists(r)
    PROVE  IInv'
<1>0. pc[r] = "exists" /\ UNCHANGED <<disk, handles, open, table, call, strays, down>>
  BY DEF exists
<1>1. SameFiles
  BY <1>0, HandlesStay
<1>2. \/ Answer(r, "exists") \/ Answer(r, "not_found")
      \/ goto(r, "pop") /\ UNCHANGED <<using, answer>>
      \/ goto(r, "opening") /\ UNCHANGED <<using, answer>>
  BY DEF exists, delete_starts
<1>3. CASE Answer(r, "exists") \/ Answer(r, "not_found")
  <2>1. Quiet(r, "done", 0)
    BY <1>0, <1>1, <1>3, QuietAnswer DEF Answers
  <2> QED BY <1>0, <2>1, QuietKeepsFiles
<1>4. CASE goto(r, "pop") /\ UNCHANGED <<using, answer>>
  <2>1. Quiet(r, "pop", using[r])
    BY <1>0, <1>1, <1>4, QuietGoes DEF PCs
  <2> QED BY <1>0, <2>1, QuietKeepsFiles
<1>5. CASE goto(r, "opening") /\ UNCHANGED <<using, answer>>
  <2>1. Quiet(r, "opening", using[r])
    BY <1>0, <1>1, <1>5, QuietGoes DEF PCs
  <2> QED BY <1>0, <2>1, QuietKeepsFiles
<1> QED BY <1>2, <1>3, <1>4, <1>5

\* A request that is inside a handle has one.
LEMMA HasHandle ==
    ASSUME IInv, NEW r \in Reqs, pc[r] \in {"resolved", "inside", "waiting", "closing"}
    PROVE  using[r] \in 1 .. Len(handles) /\ handles[using[r]] \in Handles /\ call[r] \in Calls
<1>1. using[r] \in 0 .. Len(handles) /\ using[r] # 0 /\ Len(handles) \in Nat
  BY Typed DEF IInv, UsersHaveHandles
<1>2. using[r] \in 1 .. Len(handles)
  BY <1>1
<1> QED BY <1>2, Typed DEF IInv, AskedFor

\* Taking a handle's lock.
LEMMA useInv ==
    ASSUME IInv, NEW r \in Reqs, use(r)
    PROVE  IInv'
<1> DEFINE h == using[r]
           x == [handles[h] EXCEPT !.owner = r]
<1>0. /\ pc[r] = "resolved" /\ handles' = [handles EXCEPT ![h] = x] /\ goto(r, "inside")
      /\ UNCHANGED <<disk, open, table, call, using, answer, strays, down>>
  BY DEF use
<1>1. h \in 1 .. Len(handles) /\ handles[h] \in Handles
  BY <1>0, HasHandle
<1>2. x \in Handles /\ x.db = handles[h].db /\ x.inode = handles[h].inode /\ x.live = handles[h].live
  BY <1>1, HandleParts
<1> HIDE DEF x
<1>3. SameFiles
  BY <1>0, <1>1, <1>2, InsideChanges
<1>4. h # 0
  BY <1>1, Typed
<1>5. Quiet(r, "inside", h)
  BY <1>0, <1>3, <1>4, QuietGoes DEF PCs
<1> QED BY <1>0, <1>5, QuietKeepsFiles

\* A request leaves the handle x as it found its files, and goes on.
LEMMA LeavesInv ==
    ASSUME IInv, NEW r \in Reqs, pc[r] \in {"inside", "waiting"}, NEW x \in Handles,
           handles' = [handles EXCEPT ![using[r]] = x],
           x.db = handles[using[r]].db, x.inode = handles[using[r]].inode,
           x.live = handles[using[r]].live,
           NEW what \in Answers, Answer(r, what),
           UNCHANGED <<disk, open, table, call, strays, down>>
    PROVE  IInv'
<1>1. using[r] \in 1 .. Len(handles)
  BY HasHandle
<1>2. SameFiles
  BY <1>1, InsideChanges
<1>3. Quiet(r, "done", 0)
  BY <1>2, QuietAnswer
<1> QED BY <1>3, QuietKeepsFiles
\* A handle without its owner, with other transactions and another row.
Left(x, txns, row) == [[x EXCEPT !.txns = txns, !.row = row] EXCEPT !.owner = Nobody]

\* It keeps its files.
LEMMA LeftParts ==
    ASSUME NEW x \in Handles, NEW txns \in SUBSET Sessions, NEW row \in Sessions \union {None}
    PROVE  LET y == Left(x, txns, row)
           IN  y \in Handles /\ y.db = x.db /\ y.inode = x.inode /\ y.live = x.live
BY DEF Handles, Left

\* A request leaves the handle, whatever it did to transactions and row.
LEMMA LeftInv ==
    ASSUME IInv, NEW r \in Reqs, pc[r] \in {"inside", "waiting"},
           NEW txns \in SUBSET Sessions, NEW row \in Sessions \union {None},
           handles' = [handles EXCEPT ![using[r]] = Left(handles[using[r]], txns, row)],
           NEW what \in Answers, Answer(r, what),
           UNCHANGED <<disk, open, table, call, strays, down>>
    PROVE  IInv'
<1> DEFINE x == Left(handles[using[r]], txns, row)
<1>1. handles[using[r]] \in Handles
  BY HasHandle
<1>2. /\ x \in Handles /\ x.db = handles[using[r]].db /\ x.inode = handles[using[r]].inode
      /\ x.live = handles[using[r]].live
  BY <1>1, LeftParts
<1> HIDE DEF x
<1>3. handles' = [handles EXCEPT ![using[r]] = x]
  BY DEF x
<1> QED BY <1>2, <1>3, LeavesInv

\* A handle given back with nothing else changed.
LEMMA GivenBack ==
    ASSUME IInv, NEW r \in Reqs, pc[r] \in {"inside", "waiting"},
           handles' = [handles EXCEPT ![using[r]].owner = Nobody]
    PROVE  SameFiles
<1> DEFINE x == [handles[using[r]] EXCEPT !.owner = Nobody]
<1>1. handles[using[r]] \in Handles /\ using[r] \in 1 .. Len(handles)
  BY HasHandle
<1>2. /\ x \in Handles /\ x.db = handles[using[r]].db /\ x.inode = handles[using[r]].inode
      /\ x.live = handles[using[r]].live
  BY <1>1, HandleParts
<1>3. handles' = [handles EXCEPT ![using[r]] = x]
  OBVIOUS
<1> HIDE DEF x
<1> QED BY <1>1, <1>2, <1>3, InsideChanges

\* A call on a handle that was closed meanwhile.
LEMMA UseClosedInv ==
    ASSUME IInv, NEW r \in Reqs, UseClosed(r)
    PROVE  IInv'
<1>1. SameFiles
  BY GivenBack DEF UseClosed
<1>2. Quiet(r, "done", 0)
  BY <1>1, QuietAnswer DEF UseClosed, Answers
<1> QED BY <1>2, QuietKeepsFiles DEF UseClosed

\* A new database is described.
LEMMA detailInv ==
    ASSUME IInv, NEW r \in Reqs, detail(r)
    PROVE  IInv'
<1>1. SameFiles
  BY GivenBack DEF detail
<1>2. Quiet(r, "done", 0)
  BY <1>1, QuietAnswer DEF detail, Answers
<1> QED BY <1>2, QuietKeepsFiles DEF detail

\* The rows are counted, before a crash and after it.
LEMMA count_rowsInv ==
    ASSUME IInv, NEW r \in Reqs, count_rows(r)
    PROVE  IInv'
<1>0. pc[r] = "inside" /\ UNCHANGED <<disk, open, table, call, strays, down>>
  BY DEF count_rows
<1>1. SameFiles
  BY GivenBack DEF count_rows
<1>2. CASE Answer(r, "ok")
  <2>1. Quiet(r, "done", 0)
    BY <1>0, <1>1, <1>2, QuietAnswer DEF Answers
  <2> QED BY <1>0, <2>1, QuietKeepsFiles
<1>3. CASE goto(r, "pop") /\ Hold(r, 0) /\ UNCHANGED answer
  <2>1. answer' \in [Reqs -> Answers] /\ 0 \in 0 .. Len(handles)
    BY <1>3, Typed
  <2>2. Quiet(r, "pop", 0)
    BY <1>0, <1>1, <1>3, <2>1 DEF Quiet, PCs, goto, Hold
  <2> QED BY <1>0, <2>2, QuietKeepsFiles
<1> QED BY <1>2, <1>3 DEF count_rows

\* A statement that is not held up.
LEMMA run_queryInv ==
    ASSUME IInv, NEW r \in Reqs, run_query(r)
    PROVE  IInv'
<1> DEFINE h == using[r]
           s == call[r].session
           x == handles[h]
<1>0. pc[r] = "inside" /\ UNCHANGED <<disk, open, table, call, strays, down>>
  BY DEF run_query
<1>1. /\ h \in 1 .. Len(handles) /\ x \in Handles /\ s \in Sessions
      /\ x.txns \in SUBSET Sessions /\ x.row \in Sessions \union {None}
  <2>1. h \in 1 .. Len(handles) /\ x \in Handles /\ call[r] \in Calls
    BY <1>0, HasHandle
  <2>2. s \in Sessions
    BY <2>1, CallFacts DEF run_query
  <2>3. x.txns \in SUBSET Sessions /\ x.row \in Sessions \union {None}
    BY <2>1 DEF Handles
  <2> QED BY <2>1, <2>2, <2>3
<1>2. CASE /\ handles' = [[handles EXCEPT ![h].txns = @ \ {s}, ![h].row = IF @ = s THEN None ELSE @]
                              EXCEPT ![h].owner = Nobody]
           /\ Answer(r, "ok")
  <2> DEFINE T == x.txns \ {s}
             R == IF x.row = s THEN None ELSE x.row
  <2>1. T \in SUBSET Sessions /\ R \in Sessions \union {None}
    BY <1>1
  <2>2. handles' = [handles EXCEPT ![h] = Left(x, T, R)]
    BY <1>1, <1>2, Typed DEF Left
  <2> HIDE DEF T, R
  <2> QED BY <1>0, <1>2, <2>1, <2>2, LeftInv DEF Answers
<1>3. CASE handles' = [handles EXCEPT ![h].owner = Nobody] /\ Answer(r, "failed")
  <2>1. SameFiles
    BY <1>0, <1>3, GivenBack
  <2>2. Quiet(r, "done", 0)
    BY <1>0, <1>3, <2>1, QuietAnswer DEF Answers
  <2> QED BY <1>0, <2>2, QuietKeepsFiles
<1>4. CASE /\ handles' = [[handles EXCEPT ![h].txns = @ \union {s}, ![h].row = s]
                              EXCEPT ![h].owner = Nobody]
           /\ Answer(r, "ok")
  <2> DEFINE T == x.txns \union {s}
  <2>1. T \in SUBSET Sessions
    BY <1>1
  <2>2. handles' = [handles EXCEPT ![h] = Left(x, T, s)]
    BY <1>1, <1>4, Typed DEF Left
  <2> HIDE DEF T
  <2> QED BY <1>0, <1>1, <1>4, <2>1, <2>2, LeftInv DEF Answers
<1>5. CASE /\ handles' = [[handles EXCEPT ![h].row = IF s \in x.txns THEN s ELSE None]
                              EXCEPT ![h].owner = Nobody]
           /\ Answer(r, "ok")
  <2> DEFINE R == IF s \in x.txns THEN s ELSE None
             y == [[x EXCEPT !.row = R] EXCEPT !.owner = Nobody]
  <2>1. R \in Sessions \union {None}
    BY <1>1
  <2>2. handles' = [handles EXCEPT ![h] = y]
    BY <1>1, <1>5, Typed
  <2>3. y \in Handles /\ y.db = x.db /\ y.inode = x.inode /\ y.live = x.live
    <3> HIDE DEF R
    <3> QED BY <1>1, <2>1 DEF Handles
  <2> HIDE DEF y
  <2> QED BY <1>0, <1>5, <2>2, <2>3, LeavesInv DEF Answers
<1> QED BY <1>2, <1>3, <1>4, <1>5 DEF run_query

\* A statement waits for a row, inside the handle.
LEMMA blockInv ==
    ASSUME IInv, NEW r \in Reqs, block(r)
    PROVE  IInv'
<1> DEFINE h == using[r]
           s == call[r].session
           x == handles[h]
           T == IF call[r].kind = "hold" THEN x.txns \union {s} ELSE x.txns
           y == [x EXCEPT !.owner = r, !.txns = T]
<1>0. /\ pc[r] = "inside" /\ goto(r, "waiting")
      /\ UNCHANGED <<disk, open, table, call, using, answer, strays, down>>
  BY DEF block, Block
<1>1. h \in 1 .. Len(handles) /\ x \in Handles /\ call[r] \in Calls
  BY <1>0, HasHandle
<1>2. T \in SUBSET Sessions
  <2>1. x.txns \in SUBSET Sessions
    BY <1>1 DEF Handles
  <2>2. call[r].kind = "hold" => s \in Sessions
    BY <1>1, CallFacts DEF Statements
  <2> QED BY <2>1, <2>2
<1>3. handles' = [handles EXCEPT ![h] = y]
  BY <1>1, Typed DEF block, Block
<1>4. y \in Handles /\ y.db = x.db /\ y.inode = x.inode /\ y.live = x.live
  <2> HIDE DEF T
  <2> QED BY <1>1, <1>2 DEF Handles
<1> HIDE DEF y
<1>5. SameFiles
  BY <1>1, <1>3, <1>4, InsideChanges
<1>6. h # 0
  BY <1>1, Typed
<1>7. Quiet(r, "waiting", h)
  BY <1>0, <1>5, <1>6, QuietGoes DEF PCs
<1> QED BY <1>0, <1>7, QuietKeepsFiles

\* The wait ends.
LEMMA EndWaitInv ==
    ASSUME IInv, NEW r \in Reqs, EndWait(r)
    PROVE  IInv'
<1> DEFINE h == using[r]
           s == call[r].session
           x == handles[h]
           R == IF x.row = None /\ s \in x.txns THEN s ELSE x.row
           y == [x EXCEPT !.owner = Nobody, !.row = R]
<1>0. /\ pc[r] = "waiting" /\ UNCHANGED <<disk, open, table, call, strays, down>>
      /\ Answer(r, "ok") \/ Answer(r, "timeout")
  BY DEF EndWait
<1>1. h \in 1 .. Len(handles) /\ x \in Handles
  BY <1>0, HasHandle
<1>2. R \in Sessions \union {None}
  BY <1>1 DEF Handles
<1>3. handles' = [handles EXCEPT ![h] = y]
  BY <1>1, Typed DEF EndWait
<1>4. y \in Handles /\ y.db = x.db /\ y.inode = x.inode /\ y.live = x.live
  <2> HIDE DEF R
  <2> QED BY <1>1, <1>2 DEF Handles
<1> HIDE DEF y
<1> QED BY <1>0, <1>3, <1>4, LeavesInv DEF Answers
---------------------------------------------------------------------------
(* Steps that change the table or close a handle.                          *)

\* Request r takes the i-th entry out of the table, to close it.
TakesOut(r, i, at) ==
    /\ i \in 1 .. Len(open)
    /\ at \in {"closing", "evicting"}
    /\ at = "closing" => handles[open[i]].db = call[r].db
    /\ open' = RemoveAt(open, i)
    /\ pc' = [pc EXCEPT ![r] = at]
    /\ using' = [using EXCEPT ![r] = open[i]]
    /\ pc[r] \notin {"idle", "done", "closing"} /\ (pc[r] = "evicting" => using[r] = 0)
    /\ table \in {Nobody, r} /\ table' = (IF at = "evicting" THEN r ELSE Nobody)
    /\ UNCHANGED <<disk, handles, call, answer, strays, down>>

\* It leaves the table with fewer entries, and owns what it took.
LEMMA TakesOutInv ==
    ASSUME IInv, NEW r \in Reqs, NEW i, NEW at, TakesOut(r, i, at)
    PROVE  IInv'
<1>0. /\ TableIsSound /\ TwoHandlesOnlyWhileClosing /\ LiveIsKept /\ ClosersOwn
      /\ EvictorHoldsTable /\ UsersHaveHandles /\ AskedFor /\ DeleteMeetsStrays /\ DownIsQuiet
  BY DEF IInv
<1>1. /\ open \in Seq(1 .. Len(handles)) /\ Len(open) \in Nat /\ Len(handles) \in Nat
      /\ \A k \in 1 .. Len(open) : open[k] \in 1 .. Len(handles)
      /\ table \in Reqs \union {Nobody}
      /\ pc \in [Reqs -> PCs] /\ using \in [Reqs -> 0 .. Len(handles)]
      /\ TypeOK
  BY Typed DEF IInv
<1>2. /\ i \in 1 .. Len(open) /\ at \in {"closing", "evicting"} /\ at \in PCs
      /\ pc[r] \notin {"idle", "done", "closing"} /\ (pc[r] = "evicting" => using[r] = 0)
      /\ handles' = handles /\ disk' = disk /\ call' = call /\ strays' = strays /\ down' = down
      /\ answer' = answer
      /\ table \in {Nobody, r} /\ table' = (IF at = "evicting" THEN r ELSE Nobody)
      /\ at = "closing" => handles[open[i]].db = call[r].db
  BY DEF TakesOut, PCs
<1> DEFINE o == RemoveAt(open, i)
           from(k) == IF k < i THEN k ELSE k + 1
<1>3. /\ o \in Seq(1 .. Len(handles)) /\ Len(o) = Len(open) - 1
      /\ \A k \in 1 .. Len(open) - 1 : o[k] = IF k < i THEN open[k] ELSE open[k + 1]
  BY <1>1, <1>2, RemoveAtFacts
<1>4. open' = o
  BY DEF TakesOut
<1> HIDE DEF o
<1>5. ASSUME NEW k \in 1 .. Len(o)
      PROVE  from(k) \in 1 .. Len(open) /\ from(k) # i /\ k \in 1 .. Len(open) - 1
  <2>1. Len(open) \in Nat /\ i \in 1 .. Len(open) /\ k \in 1 .. Len(open) - 1
    BY <1>1, <1>2, <1>3
  <2> QED BY <2>1
<1>6. \A k \in 1 .. Len(o) : o[k] = open[from(k)]
  BY <1>3, <1>5
<1>7. ASSUME NEW k \in 1 .. Len(o), NEW l \in 1 .. Len(o), from(k) = from(l)
      PROVE  k = l
  <2>1. k \in Int /\ l \in Int /\ i \in Int
    BY <1>1, <1>2, <1>3
  <2> QED BY <1>7, <2>1
<1>8. \A k \in 1 .. Len(open) : k # i => \E l \in 1 .. Len(o) : o[l] = open[k]
  <2> SUFFICES ASSUME NEW k \in 1 .. Len(open), k # i PROVE \E l \in 1 .. Len(o) : o[l] = open[k]
    OBVIOUS
  <2>1. PICK l \in 1 .. Len(o) : from(l) = k
    <3>1. CASE k < i
      <4>1. k \in 1 .. Len(o) /\ from(k) = k
        BY <1>1, <1>2, <1>3, <3>1
      <4> QED BY <4>1
    <3>2. CASE k > i
      <4>1. k - 1 \in 1 .. Len(o) /\ from(k - 1) = k
        BY <1>1, <1>2, <1>3, <3>2
      <4> QED BY <4>1
    <3> QED BY <1>1, <1>2, <3>1, <3>2
  <2> QED BY <1>6, <2>1
<1> HIDE DEF from
<1>9. open[i] \in 1 .. Len(handles) /\ open[i] \in 0 .. Len(handles) /\ open[i] # 0
  BY <1>1, <1>2
<1>10. /\ \A q \in Reqs : pc'[q] = IF q = r THEN at ELSE pc[q]
       /\ \A q \in Reqs : using'[q] = IF q = r THEN open[i] ELSE using[q]
       /\ pc' \in [Reqs -> PCs] /\ using' \in [Reqs -> 0 .. Len(handles)]
  BY <1>1, <1>2, <1>9 DEF TakesOut
<1>11. TypeOK'
  <2>1. table' \in Reqs \union {Nobody}
    BY <1>2
  <2> QED BY <1>1, <1>2, <1>3, <1>4, <1>10, <2>1 DEF TypeOK, HandleIds
<1>12. TableIsSound'
  <2>1. \A k \in 1 .. Len(o) : /\ handles[o[k]].live
                               /\ handles[o[k]].inode = disk[handles[o[k]].db] \/ o[k] \in strays
    BY <1>0, <1>5, <1>6 DEF TableIsSound
  <2>2. ASSUME NEW k \in 1 .. Len(o), NEW l \in 1 .. Len(o), handles[o[k]].db = handles[o[l]].db
        PROVE  k = l
    <3>1. from(k) \in 1 .. Len(open) /\ from(l) \in 1 .. Len(open)
      BY <1>5
    <3> HIDE DEF from
    <3>2. handles[open[from(k)]].db = handles[open[from(l)]].db
      BY <1>6, <2>2
    <3>3. from(k) = from(l)
      BY <1>0, <3>1, <3>2 DEF TableIsSound
    <3> QED BY <1>7, <3>3
  <2>3. Len(o) <= MaxOpen
    <3>1. Len(open) <= MaxOpen
      BY <1>0 DEF TableIsSound
    <3> QED BY <1>1, <1>3, <3>1, MaxOpenAssumption
  <2> QED BY <1>2, <1>4, <2>1, <2>2, <2>3 DEF TableIsSound
<1>13. TwoHandlesOnlyWhileClosing'
  <2> SUFFICES ASSUME NEW g \in 1 .. Len(handles), NEW h \in 1 .. Len(handles), g < h,
                      handles[g].live, handles[h].live, handles[g].db = handles[h].db,
                      handles[g].inode = handles[h].inode
               PROVE  \E q \in Reqs : pc'[q] = "closing" /\ using'[q] = g
    BY <1>2 DEF TwoHandlesOnlyWhileClosing, HandleIds
  <2>1. PICK q \in Reqs : pc[q] = "closing" /\ using[q] = g
    BY <1>0 DEF TwoHandlesOnlyWhileClosing, HandleIds
  <2> QED BY <1>2, <1>10, <2>1
<1>14. LiveIsKept'
  <2> SUFFICES ASSUME NEW h \in 1 .. Len(handles), handles[h].live,
                      \A k \in 1 .. Len(o) : o[k] # h
               PROVE  \E q \in Reqs : pc'[q] \in {"closing", "evicting"} /\ using'[q] = h
    BY <1>2, <1>4 DEF LiveIsKept
  <2>1. CASE h = open[i]
    BY <1>2, <1>10, <2>1
  <2>2. CASE h # open[i]
    <3>1. \A k \in 1 .. Len(open) : open[k] # h
      BY <1>8, <2>2
    <3>2. PICK q \in Reqs : pc[q] \in {"closing", "evicting"} /\ using[q] = h
      BY <1>0, <3>1 DEF LiveIsKept
    <3>3. h # 0
      BY <1>1
    <3>4. q # r
      BY <1>2, <3>2, <3>3
    <3> QED BY <1>10, <3>2, <3>4
  <2> QED BY <2>1, <2>2
<1>15. ClosersOwn'
  <2> SUFFICES ASSUME NEW q \in Reqs, pc'[q] \in {"closing", "evicting"}, using'[q] # 0,
                      NEW k \in 1 .. Len(o)
               PROVE  o[k] # using'[q]
    BY <1>4 DEF ClosersOwn
  <2>1. CASE q = r
    <3>1. handles[open[from(k)]].db # handles[open[i]].db
      BY <1>0, <1>2, <1>5 DEF TableIsSound
    <3> QED BY <1>6, <1>10, <2>1, <3>1
  <2>2. CASE q # r
    BY <1>0, <1>5, <1>6, <1>10, <2>2 DEF ClosersOwn
  <2> QED BY <2>1, <2>2
<1>16. EvictorHoldsTable'
  <2>1. Nobody \notin Reqs
    BY NReqsAssumption DEF Nobody, Reqs
  <2> QED BY <1>0, <1>2, <1>10, <2>1 DEF EvictorHoldsTable
<1>17. UsersHaveHandles'
  BY <1>0, <1>9, <1>10 DEF UsersHaveHandles
<1>18. AskedFor'
  BY <1>0, <1>2, <1>10 DEF AskedFor
<1>19. DeleteMeetsStrays'
  <2> SUFFICES ASSUME NEW q \in Reqs, pc'[q] \in {"closing", "unlink"}, call[q].kind = "delete",
                      NEW k \in 1 .. Len(o), handles[o[k]].db = call[q].db
               PROVE  o[k] \in strays
    BY <1>2, <1>4 DEF DeleteMeetsStrays
  <2>1. CASE q = r
    <3>1. at = "closing"
      BY <1>2, <1>10, <2>1
    <3>2. handles[open[from(k)]].db = handles[open[i]].db
      BY <1>2, <1>6, <2>1, <3>1
    <3> QED BY <1>0, <1>2, <1>5, <3>2 DEF TableIsSound
  <2>2. CASE q # r
    BY <1>0, <1>5, <1>6, <1>10, <2>2 DEF DeleteMeetsStrays
  <2> QED BY <2>1, <2>2
<1>20. DownIsQuiet'
  BY <1>0, <1>2 DEF DownIsQuiet
<1> QED BY <1>11, <1>12, <1>13, <1>14, <1>15, <1>16, <1>17, <1>18, <1>19, <1>20 DEF IInv

\* The handle of request r is closed, and r goes to `at`.
CloseOwn(r, at) ==
    /\ using[r] # 0
    /\ \/ pc[r] = "closing" /\ at \in {"lookup", "unlink"}
       \/ pc[r] = "evicting" /\ at = "evicting"
    /\ at = "unlink" => call[r].kind = "delete"
    /\ handles' = Closed(using[r])
    /\ pc' = [pc EXCEPT ![r] = at]
    /\ using' = [using EXCEPT ![r] = 0]
    /\ answer' \in [Reqs -> Answers]
    /\ UNCHANGED <<disk, open, table, call, strays, down>>

\* It was not in the table, so the table still holds live handles.
LEMMA CloseOwnInv ==
    ASSUME IInv, NEW r \in Reqs, NEW at, CloseOwn(r, at)
    PROVE  IInv'
<1>0. /\ TableIsSound /\ TwoHandlesOnlyWhileClosing /\ LiveIsKept /\ ClosersOwn
      /\ EvictorHoldsTable /\ UsersHaveHandles /\ AskedFor /\ DeleteMeetsStrays /\ DownIsQuiet
  BY DEF IInv
<1>1. /\ open \in Seq(1 .. Len(handles)) /\ Len(open) \in Nat /\ Len(handles) \in Nat
      /\ \A k \in 1 .. Len(open) : open[k] \in 1 .. Len(handles)
      /\ \A h \in 1 .. Len(handles) : handles[h] \in Handles
      /\ pc \in [Reqs -> PCs] /\ using \in [Reqs -> 0 .. Len(handles)]
      /\ TypeOK
  BY Typed DEF IInv
<1> DEFINE h == using[r]
           x == [handles[h] EXCEPT !.live = FALSE, !.txns = {}, !.row = None]
<1>2. h \in 1 .. Len(handles) /\ h # 0
  BY <1>1 DEF CloseOwn
<1>3. x \in Handles /\ x.db = handles[h].db /\ x.inode = handles[h].inode /\ x.live = FALSE
  <2> DEFINE was == handles[h]
             y == [was EXCEPT !.live = FALSE, !.txns = {}, !.row = None]
  <2>1. was \in Handles
    BY <1>1, <1>2
  <2> HIDE DEF h, was
  <2>2. y \in Handles /\ y.db = was.db /\ y.inode = was.inode /\ y.live = FALSE
    BY <2>1 DEF Handles
  <2> QED BY <2>2 DEF was
<1>4. handles' = [handles EXCEPT ![h] = x]
  BY <1>2, Typed DEF CloseOwn, Closed
<1> HIDE DEF x
<1>5. /\ handles' \in Seq(Handles) /\ Len(handles') = Len(handles)
      /\ \A g \in 1 .. Len(handles) : handles'[g] = IF g = h THEN x ELSE handles[g]
  BY <1>2, <1>3, <1>4, OneHandle
<1>6. \A g \in 1 .. Len(handles) :
         /\ handles'[g].db = handles[g].db /\ handles'[g].inode = handles[g].inode
         /\ handles'[g].live => handles[g].live /\ g # h
         /\ g # h => handles'[g] = handles[g]
  BY <1>2, <1>3, <1>5
<1>7. /\ pc[r] \in {"closing", "evicting"} /\ at \in {"lookup", "unlink", "evicting"} /\ at \in PCs
      /\ at = "evicting" => pc[r] = "evicting"
      /\ at = "unlink" => call[r].kind = "delete" /\ pc[r] = "closing"
      /\ disk' = disk /\ open' = open /\ table' = table /\ call' = call /\ strays' = strays
      /\ down' = down /\ answer' \in [Reqs -> Answers]
  BY DEF CloseOwn, PCs
<1>8. /\ \A q \in Reqs : pc'[q] = IF q = r THEN at ELSE pc[q]
      /\ \A q \in Reqs : using'[q] = IF q = r THEN 0 ELSE using[q]
      /\ pc' \in [Reqs -> PCs] /\ using' \in [Reqs -> 0 .. Len(handles)]
  <2>1. 0 \in 0 .. Len(handles)
    BY <1>1
  <2> QED BY <1>1, <1>7, <2>1 DEF CloseOwn
<1>9. \A k \in 1 .. Len(open) : open[k] # h /\ handles'[open[k]] = handles[open[k]]
  <2>1. \A k \in 1 .. Len(open) : open[k] # h
    BY <1>0, <1>2, <1>7 DEF ClosersOwn
  <2> HIDE DEF h
  <2> QED BY <1>1, <1>6, <2>1
<1> HIDE DEF h
<1>10. TypeOK'
  BY <1>1, <1>5, <1>7, <1>8 DEF TypeOK, HandleIds, Answers
<1>11. TableIsSound'
  BY <1>0, <1>7, <1>9 DEF TableIsSound
<1>12. TwoHandlesOnlyWhileClosing'
  <2> SUFFICES ASSUME NEW g \in 1 .. Len(handles), NEW f \in 1 .. Len(handles), g < f,
                      handles'[g].live, handles'[f].live, handles'[g].db = handles'[f].db,
                      handles'[g].inode = handles'[f].inode
               PROVE  \E q \in Reqs : pc'[q] = "closing" /\ using'[q] = g
    BY <1>5 DEF TwoHandlesOnlyWhileClosing, HandleIds
  <2>1. /\ g # h /\ handles[g].live /\ handles[f].live /\ handles[g].db = handles[f].db
        /\ handles[g].inode = handles[f].inode
    BY <1>6
  <2>2. PICK q \in Reqs : pc[q] = "closing" /\ using[q] = g
    BY <1>0, <2>1 DEF TwoHandlesOnlyWhileClosing, HandleIds
  <2>3. q # r
    BY <2>1, <2>2 DEF h
  <2> QED BY <1>8, <2>2, <2>3
<1>13. LiveIsKept'
  <2> SUFFICES ASSUME NEW g \in 1 .. Len(handles), handles'[g].live,
                      \A k \in 1 .. Len(open) : open[k] # g
               PROVE  \E q \in Reqs : pc'[q] \in {"closing", "evicting"} /\ using'[q] = g
    BY <1>5, <1>7 DEF LiveIsKept
  <2>1. handles[g].live /\ g # h
    BY <1>6
  <2>2. PICK q \in Reqs : pc[q] \in {"closing", "evicting"} /\ using[q] = g
    BY <1>0, <2>1 DEF LiveIsKept
  <2>3. q # r
    BY <2>1, <2>2 DEF h
  <2> QED BY <1>8, <2>2, <2>3
<1>14. ClosersOwn'
  BY <1>0, <1>7, <1>8 DEF ClosersOwn
<1>15. EvictorHoldsTable'
  BY <1>0, <1>7, <1>8 DEF EvictorHoldsTable
<1>16. UsersHaveHandles'
  BY <1>0, <1>7, <1>8 DEF UsersHaveHandles
<1>17. AskedFor'
  BY <1>0, <1>7, <1>8 DEF AskedFor
<1>18. DeleteMeetsStrays'
  <2> SUFFICES ASSUME NEW q \in Reqs, pc'[q] \in {"closing", "unlink"}, call[q].kind = "delete",
                      NEW k \in 1 .. Len(open), handles'[open[k]].db = call[q].db
               PROVE  open[k] \in strays
    BY <1>7 DEF DeleteMeetsStrays
  <2>1. pc[q] \in {"closing", "unlink"} /\ handles[open[k]].db = call[q].db
    BY <1>7, <1>8, <1>9
  <2> QED BY <1>0, <2>1 DEF DeleteMeetsStrays
<1>19. DownIsQuiet'
  BY <1>0, <1>7, <1>8 DEF DownIsQuiet
<1> QED BY <1>10, <1>11, <1>12, <1>13, <1>14, <1>15, <1>16, <1>17, <1>18, <1>19 DEF IInv
\* An eviction closes its victim.
LEMMA evict_closeInv ==
    ASSUME IInv, NEW r \in Reqs, evict_close(r)
    PROVE  IInv'
<1>1. pc' = [pc EXCEPT ![r] = "evicting"] /\ answer' \in [Reqs -> Answers]
  BY Typed DEF evict_close
<1>2. CloseOwn(r, "evicting")
  BY <1>1 DEF CloseOwn, evict_close, Hold
<1> QED BY <1>2, CloseOwnInv

\* close, delete and crash let go of the handle they took.
LEMMA closeInv ==
    ASSUME IInv, NEW r \in Reqs, close(r)
    PROVE  IInv'
<1>0. /\ pc[r] = "closing" /\ handles' = Closed(using[r]) /\ Hold(r, 0)
      /\ UNCHANGED <<disk, open, table, call, strays, down>>
  BY DEF close, close_handle
<1>1. using[r] # 0
  BY <1>0 DEF IInv, UsersHaveHandles
<1>2. CASE call[r].kind = "delete" /\ goto(r, "unlink") /\ UNCHANGED answer
  <2>1. answer' \in [Reqs -> Answers]
    BY <1>2, Typed
  <2>2. CloseOwn(r, "unlink")
    BY <1>0, <1>1, <1>2, <2>1 DEF CloseOwn, Hold, goto
  <2> QED BY <2>2, CloseOwnInv
<1>3. CASE goto(r, "lookup") /\ answer' = [answer EXCEPT ![r] = "ok"]
  <2>1. answer' \in [Reqs -> Answers]
    BY <1>3, AnswerTypes DEF Answers
  <2>2. CloseOwn(r, "lookup")
    BY <1>0, <1>1, <1>3, <2>1 DEF CloseOwn, Hold, goto
  <2> QED BY <2>2, CloseOwnInv
<1> QED BY <1>2, <1>3 DEF close

\* The file goes; what the table has for it is a stray.
LEMMA unlinkInv ==
    ASSUME IInv, NEW r \in Reqs, unlink(r)
    PROVE  IInv'
<1> DEFINE d == call[r].db
<1>0. /\ pc[r] = "unlink" /\ disk' = [disk EXCEPT ![d] = 0]
      /\ UNCHANGED <<handles, open, table, call, strays, down>>
      /\ Answer(r, "failed") \/ Answer(r, "ok")
  BY DEF unlink
<1>1. SameFiles
  BY <1>0, HandlesStay
<1>2. Quiet(r, "done", 0)
  BY <1>0, <1>1, QuietAnswer DEF Answers
<1>3. disk \in [Dbs -> Nat] /\ DeleteMeetsStrays /\ AskedFor
  BY Typed DEF IInv
<1>4. disk' \in [Dbs -> Nat] /\ \A e \in Dbs : e # d => disk'[e] = disk[e]
  BY <1>0, <1>3
<1>5. call[r].kind = "delete"
  BY <1>0, <1>3 DEF AskedFor
<1>6. ASSUME NEW i \in 1 .. Len(open)
      PROVE  disk'[handles[open[i]].db] = disk[handles[open[i]].db] \/ open[i] \in strays
  <2>1. handles[open[i]] \in Handles
    BY Typed
  <2>2. handles[open[i]].db \in Dbs
    BY <2>1 DEF Handles
  <2> QED BY <1>0, <1>3, <1>4, <1>5, <2>2 DEF DeleteMeetsStrays
<1> QED BY <1>2, <1>4, <1>6, QuietInv

\* A delete finds nothing in the table: it may unlink.
LEMMA NothingToClose ==
    ASSUME IInv, NEW r \in Reqs, pc[r] = "pop", call[r].kind = "delete", Listed(call[r].db) = {},
           goto(r, "unlink"),
           UNCHANGED <<disk, handles, open, table, call, using, answer, strays, down>>
    PROVE  IInv'
<1>0. /\ TableIsSound /\ TwoHandlesOnlyWhileClosing /\ LiveIsKept /\ ClosersOwn
      /\ EvictorHoldsTable /\ UsersHaveHandles /\ AskedFor /\ DeleteMeetsStrays /\ DownIsQuiet
      /\ TypeOK
  BY DEF IInv
<1>1. pc \in [Reqs -> PCs] /\ "unlink" \in PCs
  BY Typed DEF PCs
<1>2. /\ \A q \in Reqs : pc'[q] = IF q = r THEN "unlink" ELSE pc[q]
      /\ pc' \in [Reqs -> PCs]
  BY <1>1 DEF goto
<1>3. \A i \in 1 .. Len(open) : handles[open[i]].db # call[r].db
  BY ListedFacts
<1>4. TypeOK'
  BY <1>0, <1>2 DEF TypeOK, HandleIds
<1>5. TableIsSound'
  BY <1>0 DEF TableIsSound
<1>6. TwoHandlesOnlyWhileClosing'
  <2> SUFFICES ASSUME NEW g \in HandleIds, NEW h \in HandleIds, g < h,
                      handles[g].live, handles[h].live, handles[g].db = handles[h].db,
                      handles[g].inode = handles[h].inode
               PROVE  \E q \in Reqs : pc'[q] = "closing" /\ using[q] = g
    BY DEF TwoHandlesOnlyWhileClosing, HandleIds
  <2>1. PICK q \in Reqs : pc[q] = "closing" /\ using[q] = g
    BY <1>0 DEF TwoHandlesOnlyWhileClosing
  <2> QED BY <1>2, <2>1
<1>7. LiveIsKept'
  <2> SUFFICES ASSUME NEW h \in 1 .. Len(handles), handles[h].live,
                      \A i \in 1 .. Len(open) : open[i] # h
               PROVE  \E q \in Reqs : pc'[q] \in {"closing", "evicting"} /\ using[q] = h
    BY DEF LiveIsKept
  <2>1. PICK q \in Reqs : pc[q] \in {"closing", "evicting"} /\ using[q] = h
    BY <1>0 DEF LiveIsKept
  <2> QED BY <1>2, <2>1
<1>8. ClosersOwn' /\ EvictorHoldsTable' /\ UsersHaveHandles' /\ AskedFor' /\ DownIsQuiet'
  BY <1>0, <1>2 DEF ClosersOwn, EvictorHoldsTable, UsersHaveHandles, AskedFor, DownIsQuiet
<1>9. DeleteMeetsStrays'
  BY <1>0, <1>2, <1>3 DEF DeleteMeetsStrays
<1> QED BY <1>4, <1>5, <1>6, <1>7, <1>8, <1>9 DEF IInv

\* close and crash look in the table.
LEMMA popInv ==
    ASSUME IInv, NEW r \in Reqs, pop(r)
    PROVE  IInv'
<1> DEFINE d == call[r].db
<1>0. /\ pc[r] = "pop" /\ table = Nobody
      /\ UNCHANGED <<disk, handles, table, call, strays, down>>
  BY DEF pop
<1>1. SameFiles
  BY <1>0, HandlesStay
<1>2. ASSUME NEW h \in Listed(d), open' = RemoveFirst(open, h), Hold(r, h), goto(r, "closing"),
             UNCHANGED answer
      PROVE  IInv'
  <2>1. open \in Seq(1 .. Len(handles)) /\ \E k \in 1 .. Len(open) : open[k] = h /\ handles[h].db = d
    BY ListedFacts, Typed
  <2>2. PICK i \in 1 .. Len(open) : open[i] = h /\ open' = RemoveAt(open, i)
    BY <1>2, <2>1, RemoveFirstFacts
  <2>3. TakesOut(r, i, "closing")
    BY <1>0, <1>2, <2>1, <2>2 DEF TakesOut, Hold, goto
  <2> QED BY <2>3, TakesOutInv
<1>3. CASE /\ Listed(d) = {} /\ call[r].kind = "delete"
           /\ goto(r, "unlink") /\ UNCHANGED <<open, using, answer>>
  BY <1>0, <1>3, NothingToClose
<1>4. CASE Answer(r, "not_found") /\ UNCHANGED open
  <2>1. Quiet(r, "done", 0)
    BY <1>0, <1>1, <1>4, QuietAnswer DEF Answers
  <2> QED BY <1>0, <2>1, QuietKeepsFiles
<1>5. CASE goto(r, "lookup") /\ answer' = [answer EXCEPT ![r] = "ok"] /\ UNCHANGED <<open, using>>
  <2>1. answer' \in [Reqs -> Answers] /\ using[r] \in 0 .. Len(handles)
    BY <1>5, AnswerTypes, Typed DEF Answers
  <2>2. using' = [using EXCEPT ![r] = using[r]]
    BY <1>5, Typed
  <2>3. Quiet(r, "lookup", using[r])
    BY <1>0, <1>1, <1>5, <2>1, <2>2 DEF Quiet, PCs, goto
  <2> QED BY <1>0, <2>3, QuietKeepsFiles
<1> QED BY <1>2, <1>3, <1>4, <1>5 DEF pop
\* A database is opened: nobody has it in the table, and whoever still has a
\* live handle on it is about to close that one.
LEMMA OpenFileInv ==
    ASSUME IInv, NEW r \in Reqs,
           \/ pc[r] = "opening" /\ table = Nobody
           \/ pc[r] = "evicting" /\ table = r /\ using[r] = 0,
           Listed(call[r].db) = {}, ~AtCapacity, OpenFile(r), goto(r, "resolved"),
           table' = Nobody, UNCHANGED <<answer, call, down>>
    PROVE  IInv'
<1>0. /\ TableIsSound /\ TwoHandlesOnlyWhileClosing /\ LiveIsKept /\ ClosersOwn
      /\ EvictorHoldsTable /\ UsersHaveHandles /\ AskedFor /\ DeleteMeetsStrays /\ DownIsQuiet
      /\ TypeOK
  BY DEF IInv
<1>1. /\ open \in Seq(1 .. Len(handles)) /\ Len(open) \in Nat /\ Len(handles) \in Nat
      /\ \A k \in 1 .. Len(open) : open[k] \in 1 .. Len(handles)
      /\ handles \in Seq(Handles) /\ \A h \in 1 .. Len(handles) : handles[h] \in Handles
      /\ pc \in [Reqs -> PCs] /\ using \in [Reqs -> 0 .. Len(handles)]
      /\ disk \in [Dbs -> Nat] /\ strays \subseteq 1 .. Len(handles)
      /\ call \in [Reqs -> Calls \union {NoCall}]
  BY Typed
<1> DEFINE d == call[r].db
           n == Len(handles) + 1
           inode == IF disk[d] # 0 THEN disk[d] ELSE FreshInode
           x == [db |-> d, inode |-> inode, live |-> TRUE, owner |-> Nobody, txns |-> {},
                 row |-> None]
           deleting == {q \in Reqs : /\ call[q] = [kind |-> "delete", db |-> d]
                                     /\ pc[q] \in {"closing", "unlink"}}
<1>2. /\ handles' = Append(handles, x) /\ open' = Append(open, n)
      /\ disk' = [disk EXCEPT ![d] = inode]
      /\ strays' = strays \union {n : q \in deleting}
      /\ using' = [using EXCEPT ![r] = n] /\ pc' = [pc EXCEPT ![r] = "resolved"]
      /\ call' = call /\ down' = down /\ answer' = answer
  BY DEF OpenFile, Hold, goto
<1>3. call[r] \in Calls /\ d \in Dbs
  BY <1>0, CallFacts DEF AskedFor
<1>4. inode \in Nat \ {0}
  BY <1>1, <1>3 DEF FreshInode
<1>5. x \in Handles /\ x.db = d /\ x.inode = inode /\ x.live
  <2> HIDE DEF inode, d
  <2> QED BY <1>3, <1>4 DEF Handles
<1>6. /\ n \in Nat \ {0} /\ n \in 1 .. n /\ n \in 0 .. n /\ n \notin 1 .. Len(handles)
      /\ \A h \in 1 .. n : h # n => h \in 1 .. Len(handles)
      /\ \A h \in 1 .. Len(handles) : h \in 1 .. n /\ h # n
      /\ \A h \in 0 .. Len(handles) : h \in 0 .. n
  BY <1>1
<1> HIDE DEF x, inode
<1>7. /\ handles' \in Seq(Handles) /\ Len(handles') = n
      /\ \A h \in 1 .. n : handles'[h] = IF h <= Len(handles) THEN handles[h] ELSE x
  BY <1>1, <1>2, <1>5, AppendFacts
<1>8. handles'[n] = x /\ \A h \in 1 .. Len(handles) : handles'[h] = handles[h]
  <2>1. ~(n <= Len(handles)) /\ \A h \in 1 .. Len(handles) : h <= Len(handles)
    BY <1>1
  <2> QED BY <1>6, <1>7, <2>1
<1>9. open \in Seq(1 .. n)
  <2>1. 1 .. Len(handles) \subseteq 1 .. n
    BY <1>6
  <2> QED BY <1>1, <2>1, SeqMonotonic
<1> DEFINE m == Len(open) + 1
<1>10. /\ open' \in Seq(1 .. n) /\ Len(open') = m
       /\ \A k \in 1 .. m : open'[k] = IF k <= Len(open) THEN open[k] ELSE n
  BY <1>2, <1>6, <1>9, AppendFacts
<1>11. /\ \A k \in 1 .. m : k # m => k \in 1 .. Len(open)
       /\ \A k \in 1 .. Len(open) : k \in 1 .. m /\ k # m /\ k <= Len(open)
       /\ m \in 1 .. m /\ ~(m <= Len(open))
  BY <1>1
<1>12. open'[m] = n /\ \A k \in 1 .. Len(open) : open'[k] = open[k]
  BY <1>10, <1>11
<1> HIDE DEF n, m
<1>13. \A k \in 1 .. Len(open) : /\ handles'[open'[k]] = handles[open[k]]
                                 /\ handles[open[k]].db # d /\ open[k] # n
  <2>1. \A k \in 1 .. Len(open) : handles[open[k]].db # d
    BY ListedFacts
  <2> QED BY <1>1, <1>6, <1>8, <1>12, <2>1
<1>14. /\ \A q \in Reqs : pc'[q] = IF q = r THEN "resolved" ELSE pc[q]
       /\ \A q \in Reqs : using'[q] = IF q = r THEN n ELSE using[q]
       /\ pc' \in [Reqs -> PCs]
  BY <1>1, <1>2 DEF PCs
<1>15. using' \in [Reqs -> 0 .. n]
  BY <1>1, <1>2, <1>6
<1>16. /\ disk' \in [Dbs -> Nat] /\ disk'[d] = inode
       /\ \A e \in Dbs : e # d => disk'[e] = disk[e]
  BY <1>1, <1>2, <1>3, <1>4
<1>17. /\ strays \subseteq strays' /\ strays' \subseteq 1 .. n
       /\ deleting # {} => n \in strays'
  BY <1>1, <1>2, <1>6
<1> HIDE DEF deleting
<1>18. /\ pc[r] \in {"opening", "evicting"} /\ (pc[r] = "evicting" => using[r] = 0)
       /\ ~down
  BY <1>0 DEF DownIsQuiet
<1>19. \A q \in Reqs : q # r => pc[q] # "evicting"
  <2>1. Nobody \notin Reqs
    BY NReqsAssumption DEF Nobody, Reqs
  <2> QED BY <1>0, <2>1 DEF EvictorHoldsTable
<1>20. TypeOK'
  BY <1>0, <1>2, <1>7, <1>10, <1>14, <1>15, <1>16, <1>17 DEF TypeOK, HandleIds
<1>21. TableIsSound'
  <2>1. Len(open') <= MaxOpen
    BY <1>1, <1>10, MaxOpenAssumption DEF AtCapacity, m
  <2>2. ASSUME NEW k \in 1 .. m
        PROVE  /\ handles'[open'[k]].live
               /\ handles'[open'[k]].inode = disk'[handles'[open'[k]].db] \/ open'[k] \in strays'
    <3>1. CASE k = m
      BY <1>5, <1>8, <1>12, <1>16, <3>1
    <3>2. CASE k # m
      <4>1. k \in 1 .. Len(open)
        BY <1>11, <3>2
      <4>2. handles[open[k]].db \in Dbs
        BY <1>1, <4>1 DEF Handles
      <4>3. /\ handles[open[k]].live
            /\ handles[open[k]].inode = disk[handles[open[k]].db] \/ open[k] \in strays
        BY <1>0, <4>1 DEF TableIsSound
      <4>4. disk'[handles[open[k]].db] = disk[handles[open[k]].db]
        BY <1>13, <1>16, <4>1, <4>2
      <4>5. handles'[open'[k]] = handles[open[k]] /\ open'[k] = open[k]
        BY <1>12, <1>13, <4>1
      <4> QED BY <1>17, <4>3, <4>4, <4>5
    <3> QED BY <3>1, <3>2
  <2>3. ASSUME NEW k \in 1 .. m, NEW l \in 1 .. m, handles'[open'[k]].db = handles'[open'[l]].db
        PROVE  k = l
    <3>1. handles'[open'[m]].db = d
      BY <1>5, <1>8, <1>12
    <3>2. CASE k # m /\ l # m
      <4>1. k \in 1 .. Len(open) /\ l \in 1 .. Len(open)
        BY <1>11, <3>2
      <4> QED BY <1>0, <1>13, <2>3, <4>1 DEF TableIsSound
    <3>3. CASE k = m \/ l = m
      BY <1>11, <1>13, <2>3, <3>1, <3>3
    <3> QED BY <3>2, <3>3
  <2> QED BY <1>10, <2>1, <2>2, <2>3 DEF TableIsSound
<1>22. TwoHandlesOnlyWhileClosing'
  <2> SUFFICES ASSUME NEW g \in 1 .. n, NEW h \in 1 .. n, g < h,
                      handles'[g].live, handles'[h].live, handles'[g].db = handles'[h].db,
                      handles'[g].inode = handles'[h].inode
               PROVE  \E q \in Reqs : pc'[q] = "closing" /\ using'[q] = g
    BY <1>7 DEF TwoHandlesOnlyWhileClosing, HandleIds
  <2>1. g \in 1 .. Len(handles)
    BY <1>1 DEF n
  <2>2. PICK q \in Reqs : pc[q] = "closing" /\ using[q] = g
    <3>1. CASE h # n
      <4>1. h \in 1 .. Len(handles)
        BY <1>6, <3>1
      <4> QED BY <1>0, <1>8, <2>1, <4>1 DEF TwoHandlesOnlyWhileClosing, HandleIds
    <3>2. CASE h = n
      <4>1. handles[g].live /\ handles[g].db = d
        BY <1>5, <1>8, <2>1, <3>2
      <4>2. \A k \in 1 .. Len(open) : open[k] # g
        BY <1>13, <4>1
      <4>3. PICK q \in Reqs : pc[q] \in {"closing", "evicting"} /\ using[q] = g
        BY <1>0, <2>1, <4>1, <4>2 DEF LiveIsKept
      <4>4. g # 0
        BY <2>1, <1>1
      <4> QED BY <1>18, <1>19, <4>3, <4>4
    <3> QED BY <3>1, <3>2
  <2> QED BY <1>14, <1>18, <2>2
<1>23. LiveIsKept'
  <2> SUFFICES ASSUME NEW h \in 1 .. n, handles'[h].live, \A k \in 1 .. m : open'[k] # h
               PROVE  \E q \in Reqs : pc'[q] \in {"closing", "evicting"} /\ using'[q] = h
    BY <1>7, <1>10 DEF LiveIsKept
  <2>1. h # n /\ h \in 1 .. Len(handles) /\ handles[h].live
    BY <1>6, <1>8, <1>11, <1>12
  <2>2. \A k \in 1 .. Len(open) : open[k] # h
    BY <1>11, <1>12
  <2>3. PICK q \in Reqs : pc[q] \in {"closing", "evicting"} /\ using[q] = h
    BY <1>0, <2>1, <2>2 DEF LiveIsKept
  <2>4. h # 0
    BY <2>1, <1>1
  <2> QED BY <1>14, <1>18, <2>3, <2>4
<1>24. ClosersOwn'
  <2> SUFFICES ASSUME NEW q \in Reqs, pc'[q] \in {"closing", "evicting"}, using'[q] # 0,
                      NEW k \in 1 .. m
               PROVE  open'[k] # using'[q]
    BY <1>10 DEF ClosersOwn
  <2>1. q # r /\ pc[q] \in {"closing", "evicting"} /\ using'[q] = using[q]
    BY <1>14
  <2>2. using[q] # n
    BY <1>1 DEF n
  <2>3. CASE k = m
    BY <1>12, <2>1, <2>2, <2>3
  <2>4. CASE k # m
    BY <1>0, <1>11, <1>12, <2>1, <2>4 DEF ClosersOwn
  <2> QED BY <2>3, <2>4
<1>25. EvictorHoldsTable'
  BY <1>14, <1>19 DEF EvictorHoldsTable
<1>26. UsersHaveHandles'
  BY <1>0, <1>6, <1>14 DEF UsersHaveHandles
<1>27. AskedFor'
  BY <1>0, <1>2, <1>14, <1>18 DEF AskedFor
<1>28. DeleteMeetsStrays'
  <2> SUFFICES ASSUME NEW q \in Reqs, pc'[q] \in {"closing", "unlink"}, call[q].kind = "delete",
                      NEW k \in 1 .. m, handles'[open'[k]].db = call[q].db
               PROVE  open'[k] \in strays'
    <3>1. call' = call /\ Len(open') = m
      BY <1>2, <1>10
    <3> QED BY <3>1 DEF DeleteMeetsStrays
  <2>1. pc[q] \in {"closing", "unlink"}
    BY <1>14
  <2>2. CASE k = m
    <3>1. call[q].db = d
      BY <1>5, <1>8, <1>12, <2>2
    <3>2. call[q] \in Calls
      BY <1>0, <2>1 DEF AskedFor
    <3>3. call[q] = [kind |-> "delete", db |-> d]
      BY <3>1, <3>2, CallFacts
    <3>4. q \in deleting
      BY <2>1, <3>3 DEF deleting
    <3> QED BY <1>12, <1>17, <2>2, <3>4
  <2>3. CASE k # m
    <3>1. k \in 1 .. Len(open)
      BY <1>11, <2>3
    <3>2. handles'[open'[k]].db = handles[open[k]].db /\ open'[k] = open[k]
      BY <1>12, <1>13, <3>1
    <3>3. handles[open[k]].db = call[q].db => open[k] \in strays
      BY <1>0, <2>1, <3>1 DEF DeleteMeetsStrays
    <3> QED BY <1>17, <3>2, <3>3
  <2> QED BY <2>2, <2>3
<1>29. DownIsQuiet'
  BY <1>2, <1>18 DEF DownIsQuiet
<1> QED BY <1>20, <1>21, <1>22, <1>23, <1>24, <1>25, <1>26, <1>27, <1>28, <1>29 DEF IInv

\* A request opens a database, or makes room for it.
LEMMA open_managedInv ==
    ASSUME IInv, NEW r \in Reqs, open_managed(r)
    PROVE  IInv'
<1>0. /\ \/ pc[r] = "opening" /\ table = Nobody
         \/ pc[r] = "evicting" /\ table = r /\ using[r] = 0
      /\ UNCHANGED <<call, down>>
  BY DEF open_managed
<1>1. ASSUME NEW h \in Listed(call[r].db), Hold(r, h), goto(r, "resolved"), table' = Nobody,
             UNCHANGED <<disk, handles, open, answer, strays>>
      PROVE  IInv'
  <2>1. h \in 1 .. Len(handles)
    BY ListedFacts, Typed
  <2>2. h \in 0 .. Len(handles) /\ h # 0 /\ answer' \in [Reqs -> Answers]
    BY <1>1, <2>1, Typed
  <2>3. SameFiles
    BY <1>1, HandlesStay
  <2>4. Quiet(r, "resolved", h)
    BY <1>0, <1>1, <2>2, <2>3 DEF Quiet, goto, Hold, PCs
  <2> QED BY <1>1, <2>4, QuietKeepsFiles
<1>2. CASE /\ AtCapacity /\ open' = Tail(open) /\ Hold(r, Head(open)) /\ goto(r, "evicting")
           /\ table' = r /\ UNCHANGED <<disk, handles, answer, strays>>
  <2>1. open \in Seq(1 .. Len(handles)) /\ open # <<>>
    BY <1>2, Typed, MaxOpenAssumption, EmptySeq DEF AtCapacity
  <2>2. Tail(open) = RemoveAt(open, 1) /\ Head(open) = open[1] /\ 1 \in 1 .. Len(open)
    BY <2>1, TailIsRemove
  <2>3. TakesOut(r, 1, "evicting")
    BY <1>0, <1>2, <2>2 DEF TakesOut, Hold, goto
  <2> QED BY <2>3, TakesOutInv
<1>3. CASE Answer(r, "failed") /\ table' = Nobody /\ UNCHANGED <<disk, handles, open, strays>>
  <2>1. SameFiles
    BY <1>3, HandlesStay
  <2>2. Quiet(r, "done", 0)
    BY <1>0, <1>3, <2>1, QuietAnswer DEF Answers
  <2> QED BY <1>3, <2>2, QuietKeepsFiles
<1>4. CASE /\ Listed(call[r].db) = {} /\ ~AtCapacity /\ OpenFile(r) /\ goto(r, "resolved")
           /\ table' = Nobody /\ UNCHANGED answer
  BY <1>0, <1>4, OpenFileInv
<1> QED BY <1>1, <1>2, <1>3, <1>4 DEF open_managed, find_again

\* A request arrives.
LEMMA ArriveInv ==
    ASSUME IInv, NEW r \in Reqs, Arrive(r)
    PROVE  IInv'
<1>0. /\ TableIsSound /\ TwoHandlesOnlyWhileClosing /\ LiveIsKept /\ ClosersOwn
      /\ EvictorHoldsTable /\ UsersHaveHandles /\ AskedFor /\ DeleteMeetsStrays /\ DownIsQuiet
      /\ TypeOK
  BY DEF IInv
<1>1. pc \in [Reqs -> PCs] /\ call \in [Reqs -> Calls \union {NoCall}]
  BY Typed
<1>2. /\ pc[r] = "idle" /\ ~down
      /\ UNCHANGED <<disk, handles, open, table, using, answer, strays, down>>
  BY DEF Arrive
<1>3. PICK c \in Calls, at \in {"exists", "lookup"} : call' = [call EXCEPT ![r] = c] /\ goto(r, at)
  BY DEF Arrive
<1>4. /\ pc' \in [Reqs -> PCs] /\ call' \in [Reqs -> Calls \union {NoCall}]
      /\ \A q \in Reqs : pc'[q] = IF q = r THEN at ELSE pc[q]
      /\ \A q \in Reqs : call'[q] = IF q = r THEN c ELSE call[q]
  BY <1>1, <1>3 DEF goto, PCs
<1>5. TypeOK'
  BY <1>0, <1>2, <1>4 DEF TypeOK, HandleIds
<1>6. TableIsSound'
  BY <1>0, <1>2 DEF TableIsSound
<1>7. TwoHandlesOnlyWhileClosing'
  <2> SUFFICES ASSUME NEW g \in HandleIds, NEW h \in HandleIds, g < h,
                      handles[g].live, handles[h].live, handles[g].db = handles[h].db,
                      handles[g].inode = handles[h].inode
               PROVE  \E q \in Reqs : pc'[q] = "closing" /\ using[q] = g
    BY <1>2 DEF TwoHandlesOnlyWhileClosing, HandleIds
  <2>1. PICK q \in Reqs : pc[q] = "closing" /\ using[q] = g
    BY <1>0 DEF TwoHandlesOnlyWhileClosing
  <2> QED BY <1>2, <1>4, <2>1
<1>8. LiveIsKept'
  <2> SUFFICES ASSUME NEW h \in 1 .. Len(handles), handles[h].live,
                      \A i \in 1 .. Len(open) : open[i] # h
               PROVE  \E q \in Reqs : pc'[q] \in {"closing", "evicting"} /\ using[q] = h
    BY <1>2 DEF LiveIsKept
  <2>1. PICK q \in Reqs : pc[q] \in {"closing", "evicting"} /\ using[q] = h
    BY <1>0 DEF LiveIsKept
  <2> QED BY <1>2, <1>4, <2>1
<1>9. ClosersOwn' /\ EvictorHoldsTable' /\ UsersHaveHandles' /\ AskedFor' /\ DownIsQuiet'
  BY <1>0, <1>2, <1>4 DEF ClosersOwn, EvictorHoldsTable, UsersHaveHandles, AskedFor, DownIsQuiet
<1>10. DeleteMeetsStrays'
  BY <1>0, <1>2, <1>4 DEF DeleteMeetsStrays
<1> QED BY <1>5, <1>6, <1>7, <1>8, <1>9, <1>10 DEF IInv

\* The server stops.
LEMMA close_allInv ==
    ASSUME IInv, close_all
    PROVE  IInv'
<1>0. LiveIsKept /\ AskedFor /\ TypeOK
  BY DEF IInv
<1>1. /\ handles \in Seq(Handles) /\ Len(handles) \in Nat
      /\ \A h \in 1 .. Len(handles) : handles[h] \in Handles
      /\ open \in Seq(1 .. Len(handles)) /\ DOMAIN open = 1 .. Len(open)
      /\ using \in [Reqs -> 0 .. Len(handles)]
  BY Typed, LenProperties
<1>2. /\ \A r \in Reqs : pc[r] \in {"idle", "done"}
      /\ down' = TRUE /\ open' = <<>>
      /\ UNCHANGED <<disk, table, call, pc, using, answer, strays>>
  BY DEF close_all
<1> DEFINE dead(h) == [handles[h] EXCEPT !.live = FALSE, !.txns = {}, !.row = None]
<1>3. handles' = [h \in 1 .. Len(handles) |-> IF h \in Range(open) THEN dead(h) ELSE handles[h]]
  <2>1. ASSUME NEW h \in 1 .. Len(handles) PROVE Closed(h)[h] = dead(h)
    <3>1. handles = [g \in 1 .. Len(handles) |-> handles[g]]
      BY <1>1, LenProperties
    <3>2. Closed(h) = [handles EXCEPT ![h] = dead(h)]
      BY DEF Closed
    <3> HIDE DEF dead
    <3> QED BY <3>1, <3>2
  <2> QED BY <2>1 DEF close_all, HandleIds
<1>4. \A h \in 1 .. Len(handles) : dead(h) \in Handles /\ dead(h).live = FALSE
  <2> SUFFICES ASSUME NEW x \in Handles
               PROVE  LET y == [x EXCEPT !.live = FALSE, !.txns = {}, !.row = None]
                      IN  y \in Handles /\ y.live = FALSE
    BY <1>1
  <2> QED BY DEF Handles
<1> HIDE DEF dead
<1>5. \A h \in 1 .. Len(handles) : handles'[h] \in Handles
  BY <1>1, <1>3, <1>4
<1>6. handles' \in Seq(Handles) /\ Len(handles') = Len(handles)
  <2>1. handles' = [h \in 1 .. Len(handles) |-> handles'[h]]
    BY <1>3
  <2>2. Len(handles) \in Nat /\ handles' \in [1 .. Len(handles) -> Handles]
    BY <1>1, <1>5, <2>1
  <2> QED BY <2>2, ListOfFunction
<1>7. \A h \in 1 .. Len(handles) : ~handles'[h].live
  <2> SUFFICES ASSUME NEW h \in 1 .. Len(handles) PROVE ~handles'[h].live
    OBVIOUS
  <2>1. CASE \E i \in 1 .. Len(open) : open[i] = h
    <3>1. h \in Range(open)
      BY <1>1, <2>1 DEF Range
    <3> QED BY <1>3, <1>4, <3>1
  <2>2. CASE \A i \in 1 .. Len(open) : open[i] # h
    <3>1. ~handles[h].live
      BY <1>0, <1>2, <2>2 DEF LiveIsKept
    <3>2. h \notin Range(open)
      BY <1>1, <2>2 DEF Range
    <3> QED BY <1>3, <3>1, <3>2
  <2> QED BY <2>1, <2>2
<1>8. <<>> \in Seq(1 .. Len(handles)) /\ Len(<<>>) = 0
  BY EmptySeq
<1>9. TypeOK'
  BY <1>0, <1>2, <1>6, <1>8 DEF TypeOK, HandleIds
<1>10. TableIsSound' /\ DeleteMeetsStrays'
  BY <1>2, <1>8, MaxOpenAssumption DEF TableIsSound, DeleteMeetsStrays
<1>11. TwoHandlesOnlyWhileClosing' /\ LiveIsKept'
  BY <1>6, <1>7 DEF TwoHandlesOnlyWhileClosing, LiveIsKept, HandleIds
<1>12. ClosersOwn' /\ EvictorHoldsTable' /\ UsersHaveHandles' /\ AskedFor' /\ DownIsQuiet'
  BY <1>0, <1>2 DEF ClosersOwn, EvictorHoldsTable, UsersHaveHandles, AskedFor, DownIsQuiet
<1> QED BY <1>9, <1>10, <1>11, <1>12 DEF IInv

---------------------------------------------------------------------------
(* What is proved.                                                         *)

\* At first nothing is open.
LEMMA InitInv == Init => IInv
<1> SUFFICES ASSUME Init PROVE IInv
  OBVIOUS
<1>0. /\ disk \in [Dbs -> {0, 1}] /\ handles = <<>> /\ open = <<>> /\ table = Nobody
      /\ call = [r \in Reqs |-> NoCall] /\ pc = [r \in Reqs |-> "idle"]
      /\ using = [r \in Reqs |-> 0] /\ answer = [r \in Reqs |-> None]
      /\ strays = {} /\ down = FALSE
  BY DEF Init
<1>1. <<>> \in Seq(Handles) /\ <<>> \in Seq(1 .. 0) /\ Len(<<>>) = 0
  BY EmptySeq
<1>2. disk \in [Dbs -> Nat]
  BY <1>0
<1>3. TypeOK
  <2>1. Len(handles) = 0 /\ HandleIds = 1 .. 0
    BY <1>0, <1>1 DEF HandleIds
  <2>2. pc \in [Reqs -> PCs] /\ using \in [Reqs -> 0 .. 0] /\ call \in [Reqs -> Calls \union {NoCall}]
    BY <1>0 DEF PCs
  <2>3. answer \in [Reqs -> {None, "ok", "not_found", "exists", "closed", "timeout", "failed"}]
    BY <1>0
  <2> QED BY <1>0, <1>1, <1>2, <2>1, <2>2, <2>3 DEF TypeOK
<1>4. TableIsSound /\ DeleteMeetsStrays
  BY <1>0, <1>1, MaxOpenAssumption DEF TableIsSound, DeleteMeetsStrays
<1>5. TwoHandlesOnlyWhileClosing /\ LiveIsKept
  BY <1>0, <1>1 DEF TwoHandlesOnlyWhileClosing, LiveIsKept, HandleIds
<1>6. ClosersOwn /\ EvictorHoldsTable /\ UsersHaveHandles /\ AskedFor /\ DownIsQuiet
  BY <1>0 DEF ClosersOwn, EvictorHoldsTable, UsersHaveHandles, AskedFor, DownIsQuiet
<1> QED BY <1>3, <1>4, <1>5, <1>6 DEF IInv

\* Every step preserves the invariant.
LEMMA NextInv == IInv /\ [Next]_vars => IInv'
<1> SUFFICES ASSUME IInv, [Next]_vars PROVE IInv'
  OBVIOUS
<1>1. CASE \E r \in Reqs : Arrive(r)
  BY <1>1, ArriveInv
<1>2. ASSUME NEW r \in Reqs, Serve(r) PROVE IInv'
  <2>1. CASE lookup(r) \/ exists(r) \/ open_managed(r) \/ evict_close(r)
    BY <2>1, lookupInv, existsInv, open_managedInv, evict_closeInv
  <2>2. CASE use(r) \/ UseClosed(r) \/ run_query(r) \/ block(r) \/ EndWait(r) \/ detail(r)
    BY <2>2, useInv, UseClosedInv, run_queryInv, blockInv, EndWaitInv, detailInv
  <2>3. CASE count_rows(r) \/ pop(r) \/ close(r) \/ unlink(r)
    BY <2>3, count_rowsInv, popInv, closeInv, unlinkInv
  <2> QED BY <1>2, <2>1, <2>2, <2>3 DEF Serve
<1>3. CASE close_all
  BY <1>3, close_allInv
<1>4. CASE UNCHANGED vars
  BY <1>4 DEF vars, IInv, TypeOK, HandleIds, TableIsSound, TwoHandlesOnlyWhileClosing, LiveIsKept,
              ClosersOwn, EvictorHoldsTable, UsersHaveHandles, AskedFor, DeleteMeetsStrays,
              DownIsQuiet
<1> QED BY <1>1, <1>2, <1>3, <1>4 DEF Next

\* Two live handles on one file exist only while somebody is about to close the
\* older one: the one way close, delete and crash leave, and no other.
THEOREM TwoHandlesRarely == Spec => []TwoHandlesOnlyWhileClosing
<1>1. IInv => TwoHandlesOnlyWhileClosing
  BY DEF IInv
<1> QED BY <1>1, InitInv, NextInv, PTL DEF Spec

\* What get finds in the table is open, the only entry of its database, within
\* the limit, and on the file at its path unless a delete was half way through.
THEOREM TableIsLive == Spec => []TableHoldsLiveHandles
<1>1. IInv => TableHoldsLiveHandles
  <2> SUFFICES ASSUME IInv PROVE TableHoldsLiveHandles
    OBVIOUS
  <2>1. TypeOK /\ TableIsSound
    BY DEF IInv
  <2>2. DOMAIN open = 1 .. Len(open)
    BY Typed, LenProperties
  <2>3. \A h \in Range(open) : \E i \in 1 .. Len(open) : open[i] = h
    BY <2>2 DEF Range
  <2>4. \A h \in Range(open) : handles[h].inode = disk[handles[h].db] \/ h \in strays
    BY <2>1, <2>3 DEF TableIsSound
  <2> QED BY <2>1, <2>2, <2>4 DEF TableHoldsLiveHandles, TableIsSound
<1> QED BY <1>1, InitInv, NextInv, PTL DEF Spec

\* A server that has stopped has closed every handle it ever opened.
THEOREM AllIsClosed == Spec => []NothingLeftOpen
<1>1. IInv => NothingLeftOpen
  <2> SUFFICES ASSUME IInv, down, NEW h \in 1 .. Len(handles) PROVE ~handles[h].live
    BY DEF NothingLeftOpen, HandleIds
  <2>1. open = <<>> /\ \A r \in Reqs : pc[r] \in {"idle", "done"}
    BY DEF IInv, DownIsQuiet
  <2>2. Len(open) = 0
    BY <2>1, EmptySeq
  <2> QED BY <2>1, <2>2 DEF IInv, LiveIsKept
<1> QED BY <1>1, InitInv, NextInv, PTL DEF Spec
=============================================================================

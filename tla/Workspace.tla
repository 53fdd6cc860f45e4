------------------------------ MODULE Workspace ------------------------------
(***************************************************************************)
(* The server's table of open databases: Workspace and ManagedDatabase of  *)
(* server/workspace.py with the request handlers that use them.            *)
(*                                                                         *)
(* A request is a worker thread of the HTTP server.  It meets the others   *)
(* on two kinds of lock: the table's (Workspace._lock) and each handle's   *)
(* (ManagedDatabase._lock).  A step is what a thread does between two      *)
(* points where another one can get in: taking a lock, releasing one, or a *)
(* look at the file system outside of any.                                 *)
(*                                                                         *)
(* Of the data there is one row in each database, so that statements of    *)
(* two sessions can conflict; of a file, its identity (the inode), so that *)
(* a file deleted and created again is another file.                       *)
(***************************************************************************)
EXTENDS Integers, Sequences, FiniteSets, SequencesExt

CONSTANTS
    NReqs,      \* bound: requests, numbered in the order they arrive
    Calls,      \* what they may ask for, a subset of AllCalls
    Dbs,        \* database ids
    Standing,   \* those whose file is there from the start
    Sessions,   \* sessions named in the query string
    MaxOpen     \* max_open_databases

ASSUME MaxOpenAssumption == MaxOpen \in Nat \ {0}
ASSUME NReqsAssumption == NReqs \in Nat

Reqs == 1 .. NReqs      \* each is served by a thread of its own

None == "none"     \* no session, no kind of call
Nobody == 0        \* no request

\* "hold" is a script that begins a transaction and writes the row, "write"
\* writes it in a transaction of its own, "commit" ends the session's.
Statements == {"hold", "write", "commit"}
AllCalls == [kind : Statements, db : Dbs, session : Sessions]
                \union [kind : {"create", "delete", "crash"}, db : Dbs]

ASSUME CallsAssumption == Calls \subseteq AllCalls

NoCall == [kind |-> None]

VARIABLES
    disk,       \* disk[d]: inode at the path of d, 0 when there is none
    handles,    \* every ManagedDatabase ever made, in order
    open,       \* Workspace._open: the handles in it, in insertion order
    table,      \* the request that holds Workspace._lock, or Nobody
    call,       \* what each request asks for
    pc,         \* where its thread is
    using,      \* the handle it has in hand, 0 when it has none
    answer,     \* what became of it
    strays,     \* history: handles opened while a delete was about to unlink
    down        \* the server has shut down

vars == <<disk, handles, open, table, call, pc, using, answer, strays, down>>

HandleIds == 1 .. Len(handles)
Handles == [db : Dbs, inode : Nat \ {0}, live : BOOLEAN,
            owner : Reqs \union {Nobody},      \* of its RLock
            txns : SUBSET Sessions,            \* open transactions
            row : Sessions \union {None}]      \* who locks the row

PCs == {"idle", "lookup", "exists", "opening", "evicting", "resolved", "inside",
        "waiting", "pop", "closing", "unlink", "done"}

TypeOK ==
    /\ disk \in [Dbs -> Nat]
    /\ handles \in Seq(Handles)
    /\ open \in Seq(HandleIds)
    /\ table \in Reqs \union {Nobody}
    /\ call \in [Reqs -> Calls \union {NoCall}]
    /\ pc \in [Reqs -> PCs]
    /\ using \in [Reqs -> 0 .. Len(handles)]
    /\ answer \in [Reqs -> {None, "ok", "not_found", "exists", "closed", "timeout", "failed"}]
    /\ strays \subseteq HandleIds
    /\ down \in BOOLEAN

Init ==
    /\ disk \in [Dbs -> {0, 1}]
    /\ \A d \in Standing : disk[d] = 1
    /\ handles = <<>>
    /\ open = <<>>
    /\ table = Nobody
    /\ call = [r \in Reqs |-> NoCall]
    /\ pc = [r \in Reqs |-> "idle"]
    /\ using = [r \in Reqs |-> 0]
    /\ answer = [r \in Reqs |-> None]
    /\ strays = {}
    /\ down = FALSE

---------------------------------------------------------------------------
(* Helpers.                                                                *)

\* The handle the table has for d: a set of at most one.
Listed(d) == {h \in Range(open) : handles[h].db = d}

goto(r, at) == pc' = [pc EXCEPT ![r] = at]
Hold(r, h) == using' = [using EXCEPT ![r] = h]

Answer(r, what) ==
    /\ goto(r, "done")
    /\ Hold(r, 0)
    /\ answer' = [answer EXCEPT ![r] = what]

\* The next inode number: files are told apart even when they share a path.
FreshInode == Len(handles) + 2

\* Database.close: sessions are rolled back, the file is let go; idempotent.
Closed(h) == [handles EXCEPT ![h].live = FALSE, ![h].txns = {}, ![h].row = None]

---------------------------------------------------------------------------
(* get, create and _open_managed.                                          *)

\* A request arrives.  delete and create look at the path before anything else.
Arrive(r) ==
    /\ pc[r] = "idle"
    /\ \A q \in 1 .. r - 1 : pc[q] # "idle"
    /\ ~down
    /\ \E c \in Calls :
          /\ call' = [call EXCEPT ![r] = c]
          /\ goto(r, IF c.kind \in {"create", "delete"} THEN "exists" ELSE "lookup")
    /\ UNCHANGED <<disk, handles, open, table, using, answer, strays, down>>

\* get, first half: under the table's lock.
lookup(r) ==
    LET d == call[r].db
    IN  /\ pc[r] = "lookup"
        /\ table = Nobody
        /\ \/ /\ Listed(d) = {}
              /\ goto(r, "exists")
              /\ UNCHANGED using
           \/ \E h \in Listed(d) : Hold(r, h) /\ goto(r, "resolved")
        /\ UNCHANGED <<disk, handles, open, table, call, answer, strays, down>>

\* Mutant: the file is unlinked under the open handle.
delete_starts_with_unlink == "unlink"

\* delete closes the database before it unlinks the file.
delete_starts == "pop"

\* path.exists(), outside of every lock: create refuses a file that is there,
\* everything else one that is not.  A second get of crash comes here as well.
exists(r) ==
    LET kind == call[r].kind
        there == disk[call[r].db] # 0
    IN  /\ pc[r] = "exists"
        /\ \/ there /\ kind = "create" /\ Answer(r, "exists")
           \/ ~there /\ kind # "create" /\ Answer(r, "not_found")
           \/ /\ there /\ kind = "delete"
              /\ goto(r, delete_starts)
              /\ UNCHANGED <<using, answer>>
           \/ /\ there = (kind # "create")
              /\ kind # "delete"
              /\ goto(r, "opening")
              /\ UNCHANGED <<using, answer>>
        /\ UNCHANGED <<disk, handles, open, table, call, strays, down>>

\* _open_managed looks again under the lock: somebody may have been faster.
find_again(r) == Listed(call[r].db)

AtCapacity == Len(open) >= MaxOpen

\* Database.open: get opens what is there (create=False), create makes a file.
OpenFile(r) ==
    LET d == call[r].db
        inode == IF disk[d] # 0 THEN disk[d] ELSE FreshInode
        h == Len(handles) + 1
    IN  /\ handles' = Append(handles, [db |-> d, inode |-> inode, live |-> TRUE,
                                       owner |-> Nobody, txns |-> {}, row |-> None])
        /\ open' = Append(open, h)
        /\ disk' = [disk EXCEPT ![d] = inode]
        /\ strays' = strays \union
              {h : q \in {q \in Reqs : /\ call[q] = [kind |-> "delete", db |-> d]
                                       /\ pc[q] \in {"closing", "unlink"}}}
        /\ Hold(r, h)

\* _open_managed, under the table's lock up to its end or to an eviction.
open_managed(r) ==
    /\ \/ pc[r] = "opening" /\ table = Nobody
       \/ pc[r] = "evicting" /\ table = r /\ using[r] = 0
    /\ \/ \E h \in find_again(r) :
             /\ Hold(r, h)
             /\ goto(r, "resolved")
             /\ table' = Nobody
             /\ UNCHANGED <<disk, handles, open, answer, strays>>
       \/ \* _evict_if_needed: the oldest leaves the table, and is closed next
          /\ find_again(r) = {}
          /\ AtCapacity
          /\ open' = Tail(open)
          /\ Hold(r, Head(open))
          /\ goto(r, "evicting")
          /\ table' = r
          /\ UNCHANGED <<disk, handles, answer, strays>>
       \/ \* the file was deleted after exists(): FileNotFoundError
          /\ find_again(r) = {}
          /\ ~AtCapacity
          /\ disk[call[r].db] = 0 /\ call[r].kind # "create"
          /\ Answer(r, "failed")
          /\ table' = Nobody
          /\ UNCHANGED <<disk, handles, open, strays>>
       \/ /\ find_again(r) = {}
          /\ ~AtCapacity
          /\ disk[call[r].db] # 0 \/ call[r].kind = "create"
          /\ OpenFile(r)
          /\ goto(r, "resolved")
          /\ table' = Nobody
          /\ UNCHANGED answer
    /\ UNCHANGED <<call, down>>

\* Mutant: the evicted handle is dropped without being closed.
evict_forget(r) ==
    /\ pc[r] = "evicting"
    /\ using[r] # 0
    /\ Hold(r, 0)
    /\ UNCHANGED <<disk, handles, open, table, call, pc, answer, strays, down>>

\* The eviction closes its victim with the table's lock held, and waits for
\* the victim's own lock to do so.
evict_close(r) ==
    LET h == using[r]
    IN  /\ pc[r] = "evicting"
        /\ h # 0
        /\ handles[h].owner = Nobody
        /\ handles' = Closed(h)
        /\ Hold(r, 0)
        /\ UNCHANGED <<disk, open, table, call, pc, answer, strays, down>>

---------------------------------------------------------------------------
(* ManagedDatabase.use and what the handlers do inside.                    *)

use(r) ==
    /\ pc[r] = "resolved"
    /\ handles[using[r]].owner = Nobody
    /\ handles' = [handles EXCEPT ![using[r]].owner = r]
    /\ goto(r, "inside")
    /\ UNCHANGED <<disk, open, table, call, using, answer, strays, down>>

\* Mutant: the error leaves the handle's lock taken.
UseClosedLocked(r) ==
    /\ pc[r] = "inside"
    /\ ~handles[using[r]].live
    /\ Answer(r, "closed")
    /\ UNCHANGED <<disk, handles, open, table, call, strays, down>>

\* The handle was closed between get and use: every call raises.
UseClosed(r) ==
    LET h == using[r]
    IN  /\ pc[r] = "inside"
        /\ ~handles[h].live
        /\ handles' = [handles EXCEPT ![h].owner = Nobody]
        /\ Answer(r, "closed")
        /\ UNCHANGED <<disk, open, table, call, strays, down>>

\* run_query: a statement that is not held up.  "hold" on a session that has a
\* transaction and "commit" on one that has none raise TransactionError.
run_query(r) ==
    LET h == using[r]
        s == call[r].session
        k == call[r].kind
        free == handles[h].row \in {None, s}
        mine == s \in handles[h].txns
        Leave(hs, what) ==
            /\ handles' = [hs EXCEPT ![h].owner = Nobody]
            /\ Answer(r, what)
    IN  /\ pc[r] = "inside"
        /\ k \in Statements
        /\ handles[h].live
        /\ \/ k = "commit" /\ mine
              /\ Leave([handles EXCEPT ![h].txns = @ \ {s},
                                       ![h].row = IF @ = s THEN None ELSE @], "ok")
           \/ k = (IF mine THEN "hold" ELSE "commit")
              /\ Leave(handles, "failed")
           \/ /\ k = "hold" /\ ~mine /\ free
              /\ Leave([handles EXCEPT ![h].txns = @ \union {s}, ![h].row = s], "ok")
           \/ /\ k = "write" /\ free
              /\ Leave([handles EXCEPT ![h].row = IF mine THEN s ELSE None], "ok")
        /\ UNCHANGED <<disk, open, table, call, strays, down>>

\* LockManager.acquire has to wait for the row; owner is what becomes of the
\* handle's lock meanwhile.
Block(r, owner) ==
    LET h == using[r]
        s == call[r].session
        mine == s \in handles[h].txns
    IN  /\ pc[r] = "inside"
        /\ handles[h].live
        /\ \/ call[r].kind = "write"
           \/ call[r].kind = "hold" /\ ~mine
        /\ handles[h].row \notin {None, s}
        /\ goto(r, "waiting")
        /\ handles' = [handles EXCEPT ![h].owner = owner,
                ![h].txns = IF call[r].kind = "hold" THEN @ \union {s} ELSE @]
        /\ UNCHANGED <<disk, open, table, call, using, answer, strays, down>>

\* The wait happens inside use(): the handle's lock stays taken.
block(r) == Block(r, r)

\* The wait ends: granted when the row has come free, else at the deadline.
EndWait(r) ==
    LET h == using[r]
        s == call[r].session
        granted == handles[h].row = None
    IN  /\ pc[r] = "waiting"
        /\ handles' = [handles EXCEPT ![h].owner = Nobody,
                                      ![h].row = IF granted /\ s \in handles[h].txns
                                                 THEN s ELSE @]
        /\ Answer(r, IF granted THEN "ok" ELSE "timeout")
        /\ UNCHANGED <<disk, open, table, call, strays, down>>

\* create_database reads the detail of the new database and answers.
detail(r) ==
    LET h == using[r]
    IN  /\ pc[r] = "inside"
        /\ call[r].kind = "create"
        /\ handles[h].live
        /\ handles' = [handles EXCEPT ![h].owner = Nobody]
        /\ Answer(r, "ok")
        /\ UNCHANGED <<disk, open, table, call, strays, down>>

---------------------------------------------------------------------------
(* crash and delete.                                                       *)

\* simulate_crash counts the rows, before the crash and after the reopening.
count_rows(r) ==
    LET h == using[r]
    IN  /\ pc[r] = "inside"
        /\ call[r].kind = "crash"
        /\ handles[h].live
        /\ handles' = [handles EXCEPT ![h].owner = Nobody]
        /\ \/ /\ answer[r] = None       \* before
              /\ goto(r, "pop")
              /\ Hold(r, 0)
              /\ UNCHANGED answer
           \/ /\ answer[r] # None       \* after
              /\ Answer(r, "ok")
        /\ UNCHANGED <<disk, open, table, call, strays, down>>

\* close and crash take the handle out of the table under its lock ...
pop(r) ==
    LET d == call[r].db
        found == Listed(d)
    IN  /\ pc[r] = "pop"
        /\ table = Nobody
        /\ \/ /\ \E h \in found : open' = RemoveFirst(open, h) /\ Hold(r, h)
              /\ goto(r, "closing")
              /\ UNCHANGED answer
           \/ /\ found = {} /\ call[r].kind = "delete"
              /\ goto(r, "unlink")
              /\ UNCHANGED <<open, using, answer>>
           \/ /\ found = {} /\ call[r].kind = "crash"
              /\ UNCHANGED open
              /\ IF disk[d] = 0
                 THEN Answer(r, "not_found")
                 ELSE /\ goto(r, "lookup")
                      /\ answer' = [answer EXCEPT ![r] = "ok"]
                      /\ UNCHANGED using
        /\ UNCHANGED <<disk, handles, table, call, strays, down>>

\* Mutant: the handle is dropped without being closed.
close_forgets(h) == handles

\* close and abandon: what is left of the handle.
close_handle(h) == Closed(h)

\* ... and close or abandon it when nobody uses it, with no other lock held.
close(r) ==
    LET h == using[r]
    IN  /\ pc[r] = "closing"
        /\ handles[h].owner = Nobody
        /\ handles' = close_handle(h)
        /\ Hold(r, 0)
        /\ IF call[r].kind = "delete"
           THEN goto(r, "unlink") /\ UNCHANGED answer
           ELSE goto(r, "lookup") /\ answer' = [answer EXCEPT ![r] = "ok"]
        /\ UNCHANGED <<disk, open, table, call, strays, down>>

\* delete: path.unlink(), which raises when the file is already gone.
unlink(r) ==
    LET d == call[r].db
    IN  /\ pc[r] = "unlink"
        /\ disk' = [disk EXCEPT ![d] = 0]
        /\ Answer(r, IF disk[d] = 0 THEN "failed" ELSE "ok")
        /\ UNCHANGED <<handles, open, table, call, strays, down>>

\* The server stops once every request is answered: close_all.
close_all ==
    /\ ~down
    /\ \A r \in Reqs : pc[r] \in {"idle", "done"}
    /\ down' = TRUE
    /\ open' = <<>>
    /\ handles' = [h \in HandleIds |->
                      IF h \in Range(open) THEN Closed(h)[h] ELSE handles[h]]
    /\ UNCHANGED <<disk, table, call, pc, using, answer, strays>>

---------------------------------------------------------------------------
Serve(r) ==
    \/ lookup(r) \/ exists(r) \/ open_managed(r) \/ evict_close(r)
    \/ use(r) \/ UseClosed(r) \/ run_query(r) \/ block(r) \/ EndWait(r) \/ detail(r)
    \/ count_rows(r) \/ pop(r) \/ close(r) \/ unlink(r)

Next == (\E r \in Reqs : Arrive(r) \/ Serve(r)) \/ close_all

Spec == Init /\ [][Next]_vars

\* A thread runs on when it can, and gets a lock that stays free.
FairSpec == Spec /\ \A r \in Reqs : WF_vars(Serve(r))

---------------------------------------------------------------------------
(* Properties.                                                             *)

\* Two live handles on one file, which do not know of each other's pages, come
\* about in one way only: close, delete and crash take a handle out of the
\* table before they wait for the request that is using it, and another request
\* opens the file meanwhile.
TwoHandlesOnlyWhileClosing ==
    \A g, h \in HandleIds :
        g < h /\ handles[g].live /\ handles[h].live
              /\ handles[g].db = handles[h].db /\ handles[g].inode = handles[h].inode
          => \E r \in Reqs : pc[r] = "closing" /\ using[r] = g

\* Every handle get can return from the table is open, and there are at most
\* max_open_databases of them, each of a database of its own and on the file its
\* path names, unless it was opened between the two halves of a delete.
TableHoldsLiveHandles ==
    /\ TypeOK
    /\ \A i \in DOMAIN open : handles[open[i]].live
    /\ \A i, j \in DOMAIN open : handles[open[i]].db = handles[open[j]].db => i = j
    /\ Len(open) <= MaxOpen
    /\ \A h \in Range(open) : handles[h].inode = disk[handles[h].db] \/ h \in strays

\* When the server has stopped no handle is open: each one that left the table
\* was closed by the request that took it out.
NothingLeftOpen == down => \A h \in HandleIds : ~handles[h].live

\* Every request is answered, although an eviction waits for a handle with the
\* table's lock held and a statement waits for a row with the handle's.
EveryRequestAnswered == \A r \in Reqs : (pc[r] # "idle") ~> (pc[r] = "done")

\* Not true, see the README: a table entry is always the file its path names.
TableMatchesDisk == \A h \in Range(open) : handles[h].inode = disk[handles[h].db]

\* Not true: only the session itself ends its transaction (an eviction closes
\* the database, which rolls the transactions of every session back).
SessionsEndTheirOwn ==
    [][\A h \in HandleIds :
          \/ handles[h].txns \subseteq handles'[h].txns
          \/ \E r \in Reqs : using[r] = h /\ pc[r] \in {"inside", "closing"}
          \/ down']_vars

\* Not true: one file is created by at most one request.
CreateIsExclusive ==
    \A q, r \in Reqs :
        pc[q] = "done" /\ pc[r] = "done" /\ call[q].kind = "create" /\ call[q] = call[r]
            /\ answer[q] = "ok" /\ answer[r] = "ok" /\ q # r
          => \E x \in Reqs : call[x].kind = "delete"
=============================================================================

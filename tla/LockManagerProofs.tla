------------------------- MODULE LockManagerProofs -------------------------
(***************************************************************************)
(* The safety of the lock table for any number of transactions, resources  *)
(* and requests. Mutual exclusion rests on the two indexes describing the  *)
(* same locks; the claims about victims rest on what being in a cycle of   *)
(* the wait-for graph means: every member waits for somebody. With         *)
(* exclusive locks alone every cycle is found: each sleeper waits for one  *)
(* holder, so the search cannot take a wrong turn.                         *)
(***************************************************************************)
EXTENDS LockManager, SequenceFacts, FiniteSetTheorems

\* A blocked thread is in the waiters of the one resource it asked for, it
\* does not hold what it asks for, and nobody else is in any waiters.
WaitersListed ==
    \A t \in Txns, r \in Resources :
        t \in waiters[r] => Blocked(t) /\ request[t].resource = r

BlockedLacksLock ==
    \A t \in Txns : Blocked(t) => ~already_holds(t, request[t].resource, request[t].mode)

\* Some transaction is older than every marked one, and than every one in
\* which DeadlockError was raised.
HasElder(t) == \E u \in Txns : u < t
VictimsHaveElders ==
    /\ \A t \in victims : HasElder(t)
    /\ \A t \in Txns : raised[t] = "deadlock" => HasElder(t)

IInv ==
    /\ TypeOK
    /\ IndexesAgree
    /\ MutualExclusion
    /\ WaitersListed
    /\ BlockedLacksLock
    /\ VictimsAreBlocked
    /\ VictimsHaveElders

---------------------------------------------------------------------------
(* The wait-for graph.                                                     *)

\* An edge leads to another transaction, and only out of a listed waiter.
LEMMA GraphEdges ==
    ASSUME NEW w, NEW rq, NEW t \in Txns, NEW u \in build_graph(w, rq)[t]
    PROVE  u \in Txns /\ u # t /\ t \in w[rq[t].resource]
BY DEF build_graph, conflicts_with

\* Every member of a cycle waits for somebody, and in a graph without loops a
\* cycle has a second member.
LEMMA CycleMembers ==
    ASSUME NEW graph \in [Txns -> SUBSET Txns],
           \A t \in Txns : t \notin graph[t],
           NEW start \in Txns,
           NEW c \in find_cycle(graph, start),
           NEW t \in c
    PROVE  /\ t \in Txns
           /\ graph[t] # {}
           /\ \E u \in c : u \in Txns /\ u # t
<1>1. PICK n \in 1 .. Cardinality(Txns) :
          \E p \in PathsFrom(graph, start, n) : c \in CyclesOf(graph, p, n)
  BY DEF find_cycle
<1>2. PICK p \in PathsFrom(graph, start, n) : c \in CyclesOf(graph, p, n)
  BY <1>1
<1>3. PICK i \in 1 .. n : p[i] \in graph[p[n]] /\ c = {p[j] : j \in i .. n}
  BY <1>2 DEF CyclesOf
<1>4. PICK j \in i .. n : t = p[j]
  BY <1>3
<1>0. n \in Int /\ n >= 1 /\ i \in Int /\ j \in Int /\ j \in 1 .. n /\ n \in 1 .. n
  BY <1>1, <1>3, <1>4
<1>5. /\ p \in [1 .. n -> Txns]
      /\ \A a, b \in 1 .. n : p[a] = p[b] => a = b
      /\ \A a \in 1 .. n - 1 : p[a + 1] \in graph[p[a]]
  BY <1>2 DEF PathsFrom
<1>6. CASE j < n
  <2>1. j \in 1 .. n - 1 /\ j + 1 \in i .. n /\ j + 1 \in 1 .. n
    BY <1>0, <1>3, <1>4, <1>6
  <2>2. p[j + 1] \in graph[t] /\ p[j + 1] \in c
    BY <1>3, <1>4, <1>5, <2>1
  <2> QED BY <1>4, <1>5, <1>0, <2>1, <2>2
<1>7. CASE j = n
  <2>1. p[i] \in graph[t] /\ p[i] \in c
    BY <1>3, <1>4, <1>7, <1>0
  <2> QED BY <1>4, <1>5, <1>0, <2>1
<1> QED BY <1>0, <1>4, <1>6, <1>7

\* What detect may do when it runs with waiters w and requests rq: it finds t
\* itself only if somebody is older, and marks only listed waiters with elders.
LEMMA DetectFacts ==
    ASSUME NEW w, NEW rq, NEW t \in Txns, NEW v \in Txns,
           NEW c \in find_cycle(build_graph(w, rq), t),
           choose_victim(c, v)
    PROVE  HasElder(v) /\ v \in w[rq[v].resource]
<1> DEFINE g == build_graph(w, rq)
<1>1. g \in [Txns -> SUBSET Txns] /\ \A x \in Txns : x \notin g[x]
  BY DEF build_graph, conflicts_with
<1>2. v \in c /\ \A u \in c : u <= v
  BY DEF choose_victim
<1>3. g[v] # {} /\ \E u \in c : u \in Txns /\ u # v
  <2> HIDE DEF g
  <2> QED BY <1>1, <1>2, CycleMembers DEF g
<1>4. HasElder(v)
  <2>1. PICK u \in c : u \in Txns /\ u # v
    BY <1>3
  <2>2. u \in Nat /\ v \in Nat
    BY <2>1, TxnsAssumption
  <2> QED BY <1>2, <2>1, <2>2 DEF HasElder
<1>5. v \in w[rq[v].resource]
  BY <1>3, GraphEdges
<1> QED BY <1>4, <1>5

---------------------------------------------------------------------------
(* The inductive invariant.                                                *)

\* The placeholder of a thread that is not blocked is a request.
LEMMA AnyRequestType == AnyRequest \in Requests
<1>1. PICK r \in Resources, m \in Modes : TRUE
  BY ModesAssumption, ResourcesAssumption
<1>2. [resource |-> r, mode |-> m] \in Requests
  BY DEF Requests
<1> QED BY <1>2 DEF AnyRequest

\* An empty lock table satisfies the invariant.
LEMMA InitIInv == Init => IInv
<1> SUFFICES ASSUME Init PROVE IInv
  OBVIOUS
<1>1. TypeOK
  BY AnyRequestType, BoundsAssumption DEF Init, TypeOK, Held, PCs
<1>2. IndexesAgree /\ MutualExclusion /\ WaitersListed /\ BlockedLacksLock
  BY DEF Init, IndexesAgree, MutualExclusion, WaitersListed, BlockedLacksLock, Blocked
<1>3. VictimsAreBlocked /\ VictimsHaveElders
  BY DEF Init, VictimsAreBlocked, VictimsHaveElders
<1> QED BY <1>1, <1>2, <1>3 DEF IInv

\* Taking a lock nobody stands in the way of.
LEMMA GrantIInv ==
    ASSUME IInv, NEW t \in Txns, NEW r \in Resources, NEW m \in Modes,
           pc[t] \in {"running", "awake"},
           t \notin victims,
           Blocked(t) => request[t].resource = r,
           ~already_holds(t, r, m),
           conflicts_with(r, t, m) = {},
           grant(t, r, m),
           victims' = victims,
           calls' \in 0 .. MaxRequests
    PROVE  IInv'
<1> USE DEF IInv
<1>0. /\ holders' \in [Resources -> [Txns -> Held]]
      /\ heldBy' \in [Txns -> [Resources -> Held]]
      /\ \A u \in Txns, q \in Resources :
            \/ holders'[q][u] = holders[q][u] /\ heldBy'[u][q] = heldBy[u][q]
            \/ u = t /\ q = r /\ holders'[q][u] = m /\ heldBy'[u][q] = m
  <2>0. /\ holders \in [Resources -> [Txns -> Held]]
        /\ heldBy \in [Txns -> [Resources -> Held]]
        /\ m \in Held
    BY DEF TypeOK, Held
  <2>1. CASE holders' = holders /\ heldBy' = heldBy
    BY <2>0, <2>1
  <2>2. CASE /\ holders' = [holders EXCEPT ![r][t] = m]
             /\ heldBy' = [heldBy EXCEPT ![t][r] = m]
    <3>1. /\ holders' \in [Resources -> [Txns -> Held]]
          /\ \A u \in Txns, q \in Resources :
                holders'[q][u] = IF u = t /\ q = r THEN m ELSE holders[q][u]
      BY <2>0, <2>2
    <3>2. /\ heldBy' \in [Txns -> [Resources -> Held]]
          /\ \A u \in Txns, q \in Resources :
                heldBy'[u][q] = IF u = t /\ q = r THEN m ELSE heldBy[u][q]
      BY <2>0, <2>2
    <3> QED BY <3>1, <3>2
  <2> QED BY <2>1, <2>2 DEF grant
<1>1. TypeOK'
  BY <1>0, AnyRequestType DEF TypeOK, grant, Leave, PCs
<1>2. IndexesAgree'
  BY <1>0 DEF TypeOK, IndexesAgree, grant, PCs
<1>3. MutualExclusion'
  BY DEF TypeOK, MutualExclusion, IndexesAgree, grant, conflicts_with, compatible,
         Held, already_holds
<1>4. WaitersListed'
  BY DEF TypeOK, WaitersListed, grant, Leave, Blocked
<1>5. BlockedLacksLock'
  BY DEF TypeOK, BlockedLacksLock, grant, Leave, Blocked, already_holds, Requests
<1>6. VictimsAreBlocked'
  BY DEF TypeOK, VictimsAreBlocked, grant
<1>7. VictimsHaveElders'
  BY DEF TypeOK, VictimsHaveElders, grant, HasElder
<1> QED BY <1>1, <1>2, <1>3, <1>4, <1>5, <1>6, <1>7

\* Everything else leaves the locks alone: what is left to show is about
\* waiters, marks and exceptions.
LEMMA WaitIInv ==
    ASSUME IInv, TypeOK', UNCHANGED <<holders, heldBy>>,
           \A t \in Txns : pc[t] = "ended" <=> pc'[t] = "ended",
           WaitersListed', BlockedLacksLock', VictimsAreBlocked', VictimsHaveElders'
    PROVE  IInv'
BY DEF IInv, IndexesAgree, MutualExclusion, compatible, TypeOK

\* acquire raises what in t; other threads are at most notified, and a newly
\* marked one is.
LEMMA RaiseIInv ==
    ASSUME IInv, NEW t \in Txns, NEW what \in {"deadlock", "timeout"}, NEW r \in Resources,
           Blocked(t) => request[t].resource = r,
           what = "deadlock" => HasElder(t),
           pc[t] # "ended",
           pc' \in [Txns -> PCs],
           pc'[t] = "running",
           \A u \in Txns \ {t} : pc'[u] = pc[u] \/ (pc[u] = "asleep" /\ pc'[u] = "awake"),
           Raise(t, r, what),
           victims' \subseteq Txns \ {t},
           \A v \in victims' \ victims : pc'[v] = "awake" /\ HasElder(v),
           calls' \in 0 .. MaxRequests
    PROVE  IInv'
<1> USE DEF IInv
<1>1. TypeOK'
  BY AnyRequestType DEF TypeOK, Raise, Leave
<1>2. WaitersListed'
  BY DEF TypeOK, WaitersListed, Raise, Leave, Blocked
<1>3. BlockedLacksLock'
  BY DEF TypeOK, BlockedLacksLock, Raise, Leave, Blocked, already_holds
<1>4. VictimsAreBlocked'
  BY DEF TypeOK, VictimsAreBlocked, Blocked
<1>5. VictimsHaveElders'
  BY DEF TypeOK, VictimsHaveElders, Raise, HasElder
<1>6. \A u \in Txns : pc[u] = "ended" <=> pc'[u] = "ended"
  BY DEF TypeOK
<1> QED BY <1>1, <1>2, <1>3, <1>4, <1>5, <1>6, WaitIInv DEF Raise

\* t goes to sleep, perhaps after marking somebody else.
LEMMA SleepIInv ==
    ASSUME IInv, NEW t \in Txns, NEW r \in Resources, NEW m \in Modes,
           pc[t] \in {"running", "awake"},
           t \notin victims',
           ~already_holds(t, r, m),
           waiters' = [waiters EXCEPT ![r] = @ \union {t}],
           request' = [request EXCEPT ![t] = [resource |-> r, mode |-> m]],
           Blocked(t) => request[t].resource = r,
           UNCHANGED <<holders, heldBy, expired, raised>>,
           pc' \in [Txns -> PCs],
           pc'[t] = "asleep",
           \A u \in Txns \ {t} : pc'[u] = pc[u] \/ (pc[u] = "asleep" /\ pc'[u] = "awake"),
           victims' \subseteq Txns,
           \A v \in victims' \ victims : pc'[v] = "awake" /\ HasElder(v),
           calls' \in 0 .. MaxRequests
    PROVE  IInv'
<1> USE DEF IInv
<1>1. TypeOK'
  BY DEF TypeOK, Requests
<1>2. WaitersListed'
  BY DEF TypeOK, WaitersListed, Blocked
<1>3. BlockedLacksLock'
  BY DEF TypeOK, BlockedLacksLock, Blocked, already_holds
<1>4. VictimsAreBlocked'
  BY DEF TypeOK, VictimsAreBlocked
<1>5. VictimsHaveElders'
  BY DEF TypeOK, VictimsHaveElders, HasElder
<1>6. \A u \in Txns : pc[u] = "ended" <=> pc'[u] = "ended"
  BY DEF TypeOK
<1> QED BY <1>1, <1>2, <1>3, <1>4, <1>5, <1>6, WaitIInv

\* notify_all moves sleepers to awake and nobody else.
LEMMA NotifiedFacts ==
    ASSUME TypeOK
    PROVE  /\ Notified(pc) \in [Txns -> PCs]
           /\ \A u \in Txns : \/ Notified(pc)[u] = pc[u] /\ pc[u] # "asleep"
                              \/ pc[u] = "asleep" /\ Notified(pc)[u] = "awake"
BY DEF TypeOK, Notified, PCs

\* acquire up to its first wait: a grant, a sleep, or DeadlockError at once.
LEMMA AcquireIInv ==
    ASSUME IInv, NEW t \in Txns, NEW r \in Resources, NEW m \in Modes, Acquire(t, r, m)
    PROVE  IInv'
<1>1. /\ TypeOK
      /\ pc[t] = "running" /\ ~Blocked(t) /\ t \notin victims
      /\ calls' \in 0 .. MaxRequests
  BY BoundsAssumption DEF IInv, TypeOK, VictimsAreBlocked, Acquire, AcquireAtOnce,
     AcquireBlocked, StartCall, Blocked
<1>2. CASE AcquireAtOnce(t, r, m) /\ already_holds(t, r, m)
  BY <1>1, <1>2 DEF AcquireAtOnce, IInv, TypeOK, IndexesAgree, MutualExclusion, compatible,
     WaitersListed, BlockedLacksLock, VictimsAreBlocked, VictimsHaveElders, Blocked,
     already_holds, HasElder
<1>3. CASE AcquireAtOnce(t, r, m) /\ ~already_holds(t, r, m)
  BY <1>1, <1>3, GrantIInv DEF AcquireAtOnce
<1>4. CASE AcquireBlocked(t, r, m)
  <2> DEFINE w == [waiters EXCEPT ![r] = @ \union {t}]
             rq == [request EXCEPT ![t] = [resource |-> r, mode |-> m]]
             cycles == find_cycle(build_graph(w, rq), t)
  <2>0. ~already_holds(t, r, m)
    BY <1>4 DEF AcquireBlocked
  <2>1. CASE /\ pc' = [pc EXCEPT ![t] = "asleep"]
             /\ Wait(w, rq)
             /\ UNCHANGED victims
    <3>1. /\ pc' \in [Txns -> PCs]
          /\ pc'[t] = "asleep"
          /\ \A u \in Txns \ {t} : pc'[u] = pc[u]
      BY <1>1, <2>1 DEF TypeOK, PCs
    <3>2. victims' = victims /\ victims' \subseteq Txns
      BY <1>1, <2>1 DEF TypeOK
    <3> QED BY <1>1, <2>0, <2>1, <3>1, <3>2, SleepIInv DEF Wait
  <2>2. CASE /\ DetectSelf(t, cycles)
             /\ pc' = Notified(pc)
             /\ Raise(t, r, "deadlock")
             /\ UNCHANGED victims
    <3>1. HasElder(t)
      BY <2>2, DetectFacts DEF DetectSelf
    <3>2. /\ pc' \in [Txns -> PCs]
          /\ pc'[t] = "running"
          /\ \A u \in Txns \ {t} : pc'[u] = pc[u] \/ (pc[u] = "asleep" /\ pc'[u] = "awake")
      BY <1>1, <2>2, NotifiedFacts
    <3>3. victims' = victims /\ victims' \subseteq Txns \ {t}
      BY <1>1, <2>2 DEF TypeOK
    <3> QED BY <1>1, <2>2, <3>1, <3>2, <3>3, RaiseIInv
  <2>3. ASSUME NEW v \in Txns,
               DetectOther(t, cycles, v),
               victims' = victims \union {v},
               pc' = [Notified(pc) EXCEPT ![t] = "asleep"],
               Wait(w, rq)
        PROVE  IInv'
    <3>1. v # t /\ HasElder(v) /\ v \in w[rq[v].resource]
      BY <2>3, DetectFacts DEF DetectOther
    <3>2. v \in waiters[request[v].resource] /\ request[v].resource \in Resources
      BY <1>1, <3>1 DEF TypeOK, Requests
    <3>3. Blocked(v)
      BY <3>2 DEF IInv, WaitersListed
    <3>4. /\ pc' \in [Txns -> PCs]
          /\ pc'[t] = "asleep"
          /\ pc'[v] = "awake"
          /\ \A u \in Txns \ {t} : pc'[u] = pc[u] \/ (pc[u] = "asleep" /\ pc'[u] = "awake")
      BY <1>1, <2>3, <3>1, <3>3, NotifiedFacts DEF Blocked, PCs
    <3>5. victims' \subseteq Txns /\ t \notin victims' /\ victims' \ victims \subseteq {v}
      BY <1>1, <2>3, <3>1 DEF TypeOK
    <3>6. \A u \in victims' \ victims : pc'[u] = "awake" /\ HasElder(u)
      BY <3>1, <3>4, <3>5
    <3>7. /\ waiters' = w /\ request' = rq
          /\ UNCHANGED <<holders, heldBy, expired, raised>>
      BY <2>3 DEF Wait
    <3>8. pc[t] \in {"running", "awake"} /\ (Blocked(t) => request[t].resource = r)
      BY <1>1
    <3> QED BY <1>1, <2>0, <3>4, <3>5, <3>6, <3>7, <3>8, SleepIInv
  <2> QED BY <1>4, <2>1, <2>2, <2>3 DEF AcquireBlocked
<1> QED BY <1>2, <1>3, <1>4 DEF Acquire

\* acquire after a wait: the mark is consumed, or the loop goes round.
LEMMA WakeIInv ==
    ASSUME IInv, NEW t \in Txns, Wake(t)
    PROVE  IInv'
<1> DEFINE cycles == find_cycle(build_graph(waiters, request), t)
<1>0. PICK r \in Resources, m \in Modes : request[t] = [resource |-> r, mode |-> m]
  BY DEF IInv, TypeOK, Requests
<1>1. /\ TypeOK
      /\ pc[t] = "awake" /\ Blocked(t) /\ request[t].resource = r /\ request[t].mode = m
      /\ ~already_holds(t, r, m)
      /\ calls' \in 0 .. MaxRequests
      /\ victims \subseteq Txns
  BY <1>0 DEF IInv, TypeOK, BlockedLacksLock, Wake, WakeAsVictim, WakeQuiet, WakeDetects, Blocked
<1>2. CASE WakeAsVictim(t)
  <2>1. HasElder(t)
    BY <1>2 DEF WakeAsVictim, IInv, VictimsHaveElders
  <2>2. /\ pc' \in [Txns -> PCs]
        /\ pc'[t] = "running"
        /\ \A u \in Txns \ {t} : pc'[u] = pc[u]
    BY <1>1, <1>2 DEF WakeAsVictim, TypeOK, PCs
  <2>3. victims' = victims \ {t} /\ Raise(t, r, "deadlock")
    BY <1>1, <1>2 DEF WakeAsVictim
  <2> QED BY <1>1, <2>1, <2>2, <2>3, RaiseIInv
<1>3. ASSUME t \notin victims, UNCHANGED victims,
             \/ conflicts_with(r, t, m) = {} /\ grant(t, r, m)
             \/ pc' = [pc EXCEPT ![t] = "running"] /\ Raise(t, r, "timeout")
             \/ pc' = [pc EXCEPT ![t] = "asleep"] /\ Wait(waiters, request)
      PROVE  IInv'
  <2>1. CASE conflicts_with(r, t, m) = {} /\ grant(t, r, m)
    BY <1>1, <1>3, <2>1, GrantIInv
  <2>2. CASE pc' = [pc EXCEPT ![t] = "running"] /\ Raise(t, r, "timeout")
    <3>1. /\ pc' \in [Txns -> PCs]
          /\ pc'[t] = "running"
          /\ \A u \in Txns \ {t} : pc'[u] = pc[u]
      BY <1>1, <2>2 DEF TypeOK, PCs
    <3> QED BY <1>1, <1>3, <2>2, <3>1, RaiseIInv
  <2>3. CASE pc' = [pc EXCEPT ![t] = "asleep"] /\ Wait(waiters, request)
    <3>1. /\ pc' \in [Txns -> PCs]
          /\ pc'[t] = "asleep"
          /\ \A u \in Txns \ {t} : pc'[u] = pc[u]
      BY <1>1, <2>3 DEF TypeOK, PCs
    <3>2. UNCHANGED <<holders, heldBy, waiters, request, expired, raised>>
      BY <2>3 DEF Wait
    <3> QED
      BY <1>1, <1>3, <3>1, <3>2 DEF IInv, TypeOK, IndexesAgree, MutualExclusion, compatible,
         WaitersListed, BlockedLacksLock, VictimsAreBlocked, VictimsHaveElders, Blocked,
         already_holds, HasElder
  <2> QED BY <1>3, <2>1, <2>2, <2>3
<1>4. CASE WakeQuiet(t)
  BY <1>1, <1>3, <1>4 DEF WakeQuiet
<1>5. CASE WakeDetects(t)
  <2>0. t \notin victims
    BY <1>5 DEF WakeDetects
  <2>1. CASE /\ DetectSelf(t, cycles)
             /\ pc' = [Notified(pc) EXCEPT ![t] = "running"]
             /\ Raise(t, request[t].resource, "deadlock")
             /\ UNCHANGED victims
    <3>1. HasElder(t)
      BY <2>1, DetectFacts DEF DetectSelf
    <3>2. /\ pc' \in [Txns -> PCs]
          /\ pc'[t] = "running"
          /\ \A u \in Txns \ {t} : pc'[u] = pc[u] \/ (pc[u] = "asleep" /\ pc'[u] = "awake")
      BY <1>1, <2>1, NotifiedFacts DEF PCs
    <3>3. victims' = victims /\ victims' \subseteq Txns \ {t} /\ Raise(t, r, "deadlock")
      BY <1>1, <2>0, <2>1
    <3> QED BY <1>1, <3>1, <3>2, <3>3, RaiseIInv
  <2>2. ASSUME NEW v \in Txns,
               DetectOther(t, cycles, v),
               victims' = victims \union {v},
               \/ /\ pc' = [Notified(pc) EXCEPT ![t] = "running"]
                  /\ Raise(t, request[t].resource, "timeout")
               \/ /\ pc' = [Notified(pc) EXCEPT ![t] = "asleep"]
                  /\ Wait(waiters, request)
        PROVE  IInv'
    <3>1. v # t /\ HasElder(v) /\ v \in waiters[request[v].resource]
      BY <2>2, DetectFacts DEF DetectOther
    <3>2. Blocked(v)
      BY <1>1, <3>1 DEF IInv, TypeOK, WaitersListed, Requests
    <3>3. /\ pc' \in [Txns -> PCs]
          /\ pc'[v] = "awake"
          /\ \A u \in Txns \ {t} : pc'[u] = pc[u] \/ (pc[u] = "asleep" /\ pc'[u] = "awake")
      BY <1>1, <2>2, <3>1, <3>2, NotifiedFacts DEF Blocked, PCs
    <3>4. victims' \subseteq Txns \ {t} /\ victims' \ victims \subseteq {v}
      BY <1>1, <2>0, <2>2, <3>1
    <3>5. CASE /\ pc' = [Notified(pc) EXCEPT ![t] = "running"]
               /\ Raise(t, request[t].resource, "timeout")
      <4>1. pc'[t] = "running" /\ Raise(t, r, "timeout")
        BY <1>1, <3>5, NotifiedFacts
      <4> QED BY <1>1, <3>1, <3>3, <3>4, <4>1, RaiseIInv
    <3>6. CASE /\ pc' = [Notified(pc) EXCEPT ![t] = "asleep"]
               /\ Wait(waiters, request)
      <4>1. pc'[t] = "asleep"
        BY <1>1, <3>6, NotifiedFacts
      <4>2. UNCHANGED <<holders, heldBy, waiters, request, expired, raised>>
        BY <3>6 DEF Wait
      <4>3. TypeOK' /\ \A u \in Txns : pc[u] = "ended" <=> pc'[u] = "ended"
        BY <1>1, <3>3, <3>4, <4>1, <4>2 DEF TypeOK
      <4>4. WaitersListed' /\ BlockedLacksLock'
        BY <1>1, <3>3, <4>1, <4>2 DEF IInv, TypeOK, WaitersListed, BlockedLacksLock, Blocked,
           already_holds
      <4>5. VictimsAreBlocked'
        BY <1>1, <3>3, <3>4 DEF IInv, TypeOK, VictimsAreBlocked
      <4>6. VictimsHaveElders'
        BY <1>1, <3>1, <3>4, <4>2 DEF IInv, VictimsHaveElders, HasElder
      <4> QED BY <4>2, <4>3, <4>4, <4>5, <4>6, WaitIInv
    <3> QED BY <2>2, <3>5, <3>6
  <2> QED BY <1>5, <2>1, <2>2 DEF WakeDetects
<1> QED BY <1>2, <1>4, <1>5 DEF Wake

\* release_all at commit or rollback.
LEMMA ReleaseIInv ==
    ASSUME IInv, NEW t \in Txns, release_all(t)
    PROVE  IInv'
<1>1. /\ TypeOK
      /\ pc[t] = "running"
      /\ pc' \in [Txns -> PCs]
      /\ pc'[t] = "ended"
      /\ \A u \in Txns \ {t} : \/ pc'[u] = pc[u] /\ pc[u] # "asleep"
                               \/ pc[u] = "asleep" /\ pc'[u] = "awake"
  BY NotifiedFacts DEF IInv, release_all, TypeOK, PCs
<1>2. /\ holders' \in [Resources -> [Txns -> Held]]
      /\ heldBy' \in [Txns -> [Resources -> Held]]
      /\ \A u \in Txns, r \in Resources :
            /\ holders'[r][u] = IF u = t THEN "none" ELSE holders[r][u]
            /\ heldBy'[u][r] = IF u = t THEN "none" ELSE heldBy[u][r]
  BY <1>1 DEF release_all, TypeOK, Held
<1>3. TypeOK'
  BY <1>1, <1>2 DEF release_all, TypeOK
<1>4. IndexesAgree'
  <2> SUFFICES ASSUME NEW u \in Txns, NEW r \in Resources
               PROVE  /\ heldBy'[u][r] = holders'[r][u]
                      /\ pc'[u] = "ended" => holders'[r][u] = "none"
    BY DEF IndexesAgree
  <2>1. CASE u = t
    BY <1>2, <2>1
  <2>2. CASE u # t
    <3>1. /\ heldBy[u][r] = holders[r][u]
          /\ pc[u] = "ended" => holders[r][u] = "none"
      BY DEF IInv, IndexesAgree
    <3>2. heldBy'[u][r] = heldBy[u][r] /\ holders'[r][u] = holders[r][u]
      BY <1>2, <2>2
    <3>3. pc'[u] = "ended" => pc[u] = "ended"
      BY <1>1, <2>2
    <3> QED BY <3>1, <3>2, <3>3
  <2> QED BY <2>1, <2>2
<1>7. MutualExclusion'
  <2> SUFFICES ASSUME NEW r \in Resources, NEW x \in Txns, NEW y \in Txns,
                      x # y, holders'[r][x] # "none", holders'[r][y] # "none"
               PROVE  compatible(holders'[r][x], holders'[r][y])
    BY DEF MutualExclusion, compatible
  <2>1. x # t /\ y # t
    BY <1>2
  <2>2. holders'[r][x] = holders[r][x] /\ holders'[r][y] = holders[r][y]
    BY <1>2, <2>1
  <2> QED BY <2>2 DEF IInv, MutualExclusion, compatible
<1>5. WaitersListed' /\ BlockedLacksLock'
  BY <1>1, <1>2 DEF IInv, release_all, TypeOK, WaitersListed, BlockedLacksLock, Blocked,
     already_holds, Requests
<1>6. VictimsAreBlocked' /\ VictimsHaveElders'
  BY <1>1 DEF IInv, release_all, TypeOK, VictimsAreBlocked, VictimsHaveElders, HasElder
<1> QED BY <1>3, <1>4, <1>5, <1>6, <1>7 DEF IInv

\* A deadline passing only wakes its thread.
LEMMA ExpireIInv ==
    ASSUME IInv, NEW t \in Txns, Expire(t)
    PROVE  IInv'
BY DEF Expire, IInv, TypeOK, PCs, IndexesAgree, MutualExclusion, compatible, WaitersListed,
   BlockedLacksLock, VictimsAreBlocked, VictimsHaveElders, Blocked, already_holds, HasElder

\* Every step of the lock manager preserves the invariant.
LEMMA NextIInv == IInv /\ [Next]_vars => IInv'
<1> SUFFICES ASSUME IInv, [Next]_vars PROVE IInv'
  OBVIOUS
<1>1. ASSUME NEW t \in Txns, NEW r \in Resources, NEW m \in Modes, Acquire(t, r, m)
      PROVE  IInv'
  BY <1>1, AcquireIInv
<1>2. ASSUME NEW t \in Txns, Wake(t) PROVE IInv'
  BY <1>2, WakeIInv
<1>3. ASSUME NEW t \in Txns, Expire(t) PROVE IInv'
  BY <1>3, ExpireIInv
<1>4. ASSUME NEW t \in Txns, release_all(t) PROVE IInv'
  BY <1>4, ReleaseIInv
<1>5. CASE UNCHANGED vars
  BY <1>5 DEF vars, IInv, TypeOK, IndexesAgree, MutualExclusion, compatible, WaitersListed,
     BlockedLacksLock, VictimsAreBlocked, VictimsHaveElders, Blocked, already_holds, HasElder
<1> QED BY <1>1, <1>2, <1>3, <1>4, <1>5 DEF Next, Finished

\* The invariant holds in every reachable state.
LEMMA Invariance == Spec => []IInv
<1> QED BY InitIInv, NextIInv, PTL DEF Spec

---------------------------------------------------------------------------
\* The lock table, its reverse index and the threads' states keep their types.
THEOREM TypeCorrect == Spec => []TypeOK
<1>1. IInv => TypeOK
  BY DEF IInv
<1> QED BY <1>1, Invariance, PTL

\* No interleaving of acquire, wake-ups, upgrades and release_all gives two
\* transactions incompatible locks on one row.
THEOREM LocksExclude == Spec => []MutualExclusion
<1>1. IInv => MutualExclusion
  BY DEF IInv
<1> QED BY <1>1, Invariance, PTL

\* entry.holders and _held_by describe the same locks, and an ended
\* transaction holds none.
THEOREM IndexesStayEqual == Spec => []IndexesAgree
<1>1. IInv => IndexesAgree
  BY DEF IInv
<1> QED BY <1>1, Invariance, PTL

\* A victim mark is always on a thread that is about to consume it.
THEOREM MarksAreConsumed == Spec => []VictimsAreBlocked
<1>1. IInv => VictimsAreBlocked
  BY DEF IInv
<1> QED BY <1>1, Invariance, PTL

\* DeadlockError is never raised in the oldest transaction.
THEOREM OldestSurvives == Spec => []OldestNeverVictim
<1>1. IInv => OldestNeverVictim
  <2> SUFFICES ASSUME IInv, NEW t \in Txns, \A u \in Txns : t <= u, raised[t] = "deadlock"
               PROVE  FALSE
    BY DEF OldestNeverVictim
  <2>1. PICK u \in Txns : u < t
    BY DEF IInv, VictimsHaveElders, HasElder
  <2> QED BY <2>1, TxnsAssumption
<1> QED BY <1>1, Invariance, PTL

\* A lock is neither dropped nor weakened before its transaction ends.
THEOREM TwoPhase == Spec => StrictTwoPhase
<1> DEFINE Keeps == \A t \in Txns, r \in Resources :
                       heldBy[t][r] # "none" /\ pc'[t] # "ended"
                           => heldBy'[t][r] \in {heldBy[t][r], "exclusive"}
<1>1. ASSUME IInv, [Next]_vars PROVE [Keeps]_vars
  <2> SUFFICES ASSUME Next, NEW t \in Txns, NEW r \in Resources,
                      heldBy[t][r] # "none", pc'[t] # "ended"
               PROVE  heldBy'[t][r] \in {heldBy[t][r], "exclusive"}
    BY <1>1
  <2>1. TypeOK
    BY <1>1 DEF IInv
  <2>2. ASSUME NEW u \in Txns, NEW q \in Resources, NEW m \in Modes,
               grant(u, q, m), ~already_holds(u, q, m)
        PROVE  heldBy'[t][r] \in {heldBy[t][r], "exclusive"}
    <3>1. heldBy' = heldBy \/ heldBy' = [heldBy EXCEPT ![u][q] = m]
      BY <2>2 DEF grant
    <3>2. heldBy[t][r] \in {"shared", "exclusive"} /\ m \in {"shared", "exclusive"}
      <4>1. heldBy[t][r] \in Modes \union {"none"}
        BY <2>1 DEF TypeOK, Held
      <4> QED BY <4>1, ModesAssumption
    <3>3. heldBy \in [Txns -> [Resources -> Held]]
      BY <2>1 DEF TypeOK
    <3>4. CASE heldBy' = heldBy
      BY <3>4
    <3>5. CASE heldBy' = [heldBy EXCEPT ![u][q] = m] /\ u = t /\ q = r
      <4>1. heldBy'[t][r] = m
        BY <3>3, <3>5
      <4> QED BY <2>2, <3>2, <3>5, <4>1 DEF already_holds
    <3>6. CASE heldBy' = [heldBy EXCEPT ![u][q] = m] /\ ~(u = t /\ q = r)
      <4>1. heldBy'[t][r] = heldBy[t][r]
        BY <3>3, <3>6
      <4> QED BY <4>1
    <3> QED BY <3>1, <3>4, <3>5, <3>6
  <2>3. ASSUME NEW u \in Txns, NEW q \in Resources, NEW m \in Modes, Acquire(u, q, m)
        PROVE  heldBy'[t][r] \in {heldBy[t][r], "exclusive"}
    BY <2>2, <2>3 DEF Acquire, AcquireAtOnce, AcquireBlocked, Raise, Wait
  <2>4. ASSUME NEW u \in Txns, Wake(u)
        PROVE  heldBy'[t][r] \in {heldBy[t][r], "exclusive"}
    <3>1. PICK q \in Resources, m \in Modes : request[u] = [resource |-> q, mode |-> m]
      BY <2>1 DEF TypeOK, Requests
    <3>2. Blocked(u)
      BY <2>4 DEF Wake, WakeAsVictim, WakeQuiet, WakeDetects, Blocked
    <3>3. ~already_holds(u, q, m)
      BY <1>1, <3>1, <3>2 DEF IInv, BlockedLacksLock
    <3>4. grant(u, q, m) \/ heldBy' = heldBy
      BY <2>4, <3>1 DEF Wake, WakeAsVictim, WakeQuiet, WakeDetects, Raise, Wait
    <3> QED BY <2>2, <3>3, <3>4
  <2>5. ASSUME NEW u \in Txns, release_all(u)
        PROVE  heldBy'[t][r] \in {heldBy[t][r], "exclusive"}
    <3>1. u # t
      BY <2>1, <2>5, NotifiedFacts DEF release_all
    <3> QED BY <2>1, <2>5, <3>1 DEF release_all, TypeOK
  <2>6. ASSUME NEW u \in Txns, Expire(u)
        PROVE  heldBy'[t][r] \in {heldBy[t][r], "exclusive"}
    BY <2>6 DEF Expire
  <2> QED BY <2>3, <2>4, <2>5, <2>6 DEF Next, Finished, vars
<1> QED BY <1>1, Invariance, PTL DEF Spec, StrictTwoPhase

---------------------------------------------------------------------------
(* Deadlock. With exclusive locks, which are all the engine takes, a row   *)
(* has one holder, so a waiter has one edge and every walk from a member   *)
(* of a closed set of waiters stays in it and runs into a cycle.           *)

\* No path is longer than the number of transactions.
LEMMA PathIsShort ==
    ASSUME NEW graph, NEW start, NEW n \in Nat, NEW p \in PathsFrom(graph, start, n)
    PROVE  n <= Cardinality(Txns) /\ Cardinality(Txns) \in Nat
<1>1. p \in Injection(1 .. n, Txns)
  BY DEF PathsFrom, Injection, IsInjective
<1>2. Cardinality(1 .. n) <= Cardinality(Txns)
  BY <1>1, FS_Injection, TxnsAssumption
<1>3. Cardinality(1 .. n) = n
  BY FS_Interval
<1>4. Cardinality(Txns) \in Nat
  BY FS_CardinalityType, TxnsAssumption
<1> QED BY <1>2, <1>3, <1>4

\* A path that starts in a set its edges do not leave stays there.
LEMMA PathStays ==
    ASSUME NEW graph, NEW S, NEW start \in S,
           \A u \in S : graph[u] \subseteq S,
           NEW n \in Nat, NEW p \in PathsFrom(graph, start, n)
    PROVE  \A i \in 1 .. n : p[i] \in S
<1> DEFINE B == {i \in 1 .. n : p[i] \notin S}
<1> SUFFICES ASSUME B # {} PROVE FALSE
  OBVIOUS
<1>1. B \subseteq Nat
  OBVIOUS
<1>2. PICK i \in B : \A j \in B : i <= j
  <2> HIDE DEF B
  <2> QED BY <1>1, LeastNat
<1>3. i # 1
  BY DEF PathsFrom
<1>4. i - 1 \in 1 .. n /\ i - 1 \in 1 .. n - 1 /\ (i - 1) + 1 = i /\ ~(i <= i - 1)
  BY <1>3
<1>5. p[i - 1] \in S
  BY <1>2, <1>4
<1>6. p[i] \in graph[p[i - 1]]
  BY <1>4 DEF PathsFrom
<1> QED BY <1>2, <1>5, <1>6

\* The search returns every cycle a path closes.
LEMMA FoundCycle ==
    ASSUME NEW graph, NEW start, NEW n \in 1 .. Cardinality(Txns),
           NEW p \in PathsFrom(graph, start, n), NEW c \in CyclesOf(graph, p, n)
    PROVE  c \in find_cycle(graph, start)
<1> DEFINE Closed(k) == UNION {CyclesOf(graph, x, k) : x \in PathsFrom(graph, start, k)}
<1>1. c \in Closed(n)
  OBVIOUS
<1>2. find_cycle(graph, start) = UNION {Closed(k) : k \in 1 .. Cardinality(Txns)}
  BY DEF find_cycle
<1> HIDE DEF Closed
<1> QED BY <1>1, <1>2

\* In such a set where everybody waits for somebody the search finds a cycle,
\* and only cycles of that set.
LEMMA ClosedSetHasCycle ==
    ASSUME NEW graph, NEW S, S \subseteq Txns, NEW start \in S,
           \A u \in S : graph[u] # {} /\ graph[u] \subseteq S
    PROVE  /\ find_cycle(graph, start) # {}
           /\ \A c \in find_cycle(graph, start) : c \subseteq S
<1>1. \A n \in Nat : \A p \in PathsFrom(graph, start, n) : \A i \in 1 .. n : p[i] \in S
  BY PathStays
<1>2. ASSUME NEW c \in find_cycle(graph, start) PROVE c \subseteq S
  <2>1. PICK n \in 1 .. Cardinality(Txns) :
            \E p \in PathsFrom(graph, start, n) : c \in CyclesOf(graph, p, n)
    BY DEF find_cycle
  <2>2. PICK p \in PathsFrom(graph, start, n) : c \in CyclesOf(graph, p, n)
    BY <2>1
  <2>3. PICK i \in 1 .. n : c = {p[j] : j \in i .. n}
    BY <2>2 DEF CyclesOf
  <2>4. n \in Nat /\ \A j \in i .. n : j \in 1 .. n
    BY <2>1, <2>3
  <2> QED BY <1>1, <2>2, <2>3, <2>4
<1>3. ASSUME find_cycle(graph, start) = {} PROVE FALSE
  <2> DEFINE L == {n \in Nat : n >= 1 /\ PathsFrom(graph, start, n) # {}}
  <2>1. 1 \in L
    <3> DEFINE one == [i \in 1 .. 1 |-> start]
    <3>1. one \in PathsFrom(graph, start, 1)
      BY DEF PathsFrom
    <3> QED BY <3>1
  <2>2. \A n \in L : n <= Cardinality(Txns) /\ Cardinality(Txns) \in Nat
    BY PathIsShort
  <2>3. PICK n \in L : \A k \in L : k <= n
    <3> HIDE DEF L
    <3>1. L \subseteq Nat
      BY DEF L
    <3> QED BY <2>1, <2>2, <3>1, GreatestNat
  <2>4. PICK p \in PathsFrom(graph, start, n) : TRUE
    BY <2>3
  <2>5. /\ n \in Nat /\ n >= 1 /\ n \in 1 .. n /\ n \in 1 .. Cardinality(Txns)
        /\ p \in [1 .. n -> Txns] /\ p[1] = start
        /\ \A i, j \in 1 .. n : p[i] = p[j] => i = j
        /\ \A i \in 1 .. n - 1 : p[i + 1] \in graph[p[i]]
        /\ p[n] \in S
    BY <1>1, <2>2, <2>3, <2>4 DEF PathsFrom
  <2>6. PICK u \in Txns : u \in graph[p[n]]
    BY <2>5
  <2>7. CASE \E k \in 1 .. n : p[k] = u
    <3>1. PICK k \in 1 .. n : p[k] = u
      BY <2>7
    <3> DEFINE c == {p[j] : j \in k .. n}
    <3>2. c \in CyclesOf(graph, p, n)
      BY <2>6, <3>1 DEF CyclesOf
    <3> HIDE DEF c
    <3>3. c \in find_cycle(graph, start)
      BY <2>4, <2>5, <3>2, FoundCycle
    <3> QED BY <1>3, <3>3
  <2>8. CASE \A k \in 1 .. n : p[k] # u
    <3> DEFINE q == [i \in 1 .. n + 1 |-> IF i <= n THEN p[i] ELSE u]
    <3>1. /\ \A i \in 1 .. n : q[i] = p[i] /\ i \in 1 .. n + 1
          /\ q[n + 1] = u
          /\ q \in [1 .. n + 1 -> Txns]
          /\ \A i \in 1 .. n + 1 : i \in 1 .. n \/ i = n + 1
      BY <2>5
    <3> HIDE DEF q
    <3>2. q[1] = start
      BY <2>5, <3>1
    <3>3. \A i, j \in 1 .. n + 1 : q[i] = q[j] => i = j
      BY <2>5, <2>8, <3>1
    <3>4. ASSUME NEW i \in 1 .. (n + 1) - 1 PROVE q[i + 1] \in graph[q[i]]
      <4>1. CASE i < n
        <5>1. i \in 1 .. n - 1 /\ i \in 1 .. n /\ i + 1 \in 1 .. n
          BY <2>5, <4>1
        <5> QED BY <2>5, <3>1, <5>1
      <4>2. CASE i = n
        BY <2>5, <2>6, <3>1, <4>2
      <4> QED BY <2>5, <4>1, <4>2
    <3>5. q \in PathsFrom(graph, start, n + 1)
      BY <3>1, <3>2, <3>3, <3>4 DEF PathsFrom
    <3>6. n + 1 \in L
      BY <2>5, <3>5
    <3> QED BY <2>3, <2>5, <3>6
  <2> QED BY <2>7, <2>8
<1> QED BY <1>2, <1>3

\* Whoever is still asleep waits for what it waited for, and sleepers have
\* neither gained nor lost a lock: no new cycle among them.
LEMMA StillNoCycle ==
    ASSUME NoSleepingCycle, TypeOK,
           \A u \in Txns : pc'[u] = "asleep" =>
               /\ pc[u] = "asleep"
               /\ request'[u] = request[u]
               /\ \A r \in Resources : u \in waiters'[r] => u \in waiters[r]
               /\ \A r \in Resources : holders'[r][u] = holders[r][u]
    PROVE  NoSleepingCycle'
<1> DEFINE g == build_graph(waiters, request)
<1> SUFFICES ASSUME NEW S \in SUBSET {t \in Txns : pc'[t] = "asleep"}, S # {}
             PROVE  \E t \in S : build_graph(waiters, request)'[t] \intersect S = {}
  BY Zenon DEF NoSleepingCycle
<1>1. S \in SUBSET {t \in Txns : pc[t] = "asleep"}
  OBVIOUS
<1>2. PICK t \in S : g[t] \intersect S = {}
  BY <1>1, Zenon DEF NoSleepingCycle
<1>3. t \in Txns /\ pc'[t] = "asleep" /\ request[t].resource \in Resources
  BY DEF TypeOK, Requests
<1>4. ASSUME NEW x \in S, x \in build_graph(waiters, request)'[t] PROVE x \in g[t]
  <2>1. x \in Txns /\ pc'[x] = "asleep"
    OBVIOUS
  <2>2. t \in waiters'[request'[t].resource] /\ x # t
        /\ holders'[request'[t].resource][x] # "none"
        /\ ~compatible(holders'[request'[t].resource][x], request'[t].mode)
    BY <1>3, <1>4 DEF build_graph, conflicts_with, compatible
  <2>3. t \in waiters[request[t].resource] /\ request'[t] = request[t]
        /\ holders'[request[t].resource][x] = holders[request[t].resource][x]
    BY <1>3, <2>1, <2>2
  <2> QED BY <1>3, <2>1, <2>2, <2>3 DEF build_graph, conflicts_with
<1> QED BY <1>2, <1>4

\* With exclusive locks a waiter waits for one transaction.
LEMMA OneBlocker ==
    ASSUME Modes = {"exclusive"}, TypeOK, MutualExclusion,
           NEW r \in Resources, NEW t \in Txns, NEW m,
           NEW x \in conflicts_with(r, t, m), NEW y \in conflicts_with(r, t, m)
    PROVE  x = y
<1>1. /\ x \in Txns /\ y \in Txns /\ holders[r][x] # "none" /\ holders[r][y] # "none"
      /\ holders[r][x] \in {"exclusive", "none"}
  BY DEF conflicts_with, TypeOK, Held
<1> QED BY <1>1 DEF MutualExclusion, compatible

\* t goes to sleep after a quiet detect, with waiters w and requests rq.
LEMMA QuietSleep ==
    ASSUME Modes = {"exclusive"}, IInv, NoSleepingCycle, NEW t \in Txns, t \notin victims,
           NEW w, NEW rq, waiters' = w, request' = rq, holders' = holders,
           DetectQuiet(find_cycle(build_graph(w, rq), t)),
           \A u \in Txns : rq[u].resource \in Resources,
           \A u \in Txns \ {t} : /\ pc'[u] = pc[u] /\ rq[u] = request[u]
                                /\ \A r \in Resources : u \in w[r] <=> u \in waiters[r]
    PROVE  NoSleepingCycle'
<1> DEFINE g == build_graph(w, rq)
<1>0. TypeOK /\ MutualExclusion /\ VictimsAreBlocked
  BY DEF IInv
<1>1. g = build_graph(waiters, request)'
  BY DEF build_graph, conflicts_with, compatible
<1>2. \A u \in Txns \ {t} : g[u] = build_graph(waiters, request)[u]
  <2>1. \A u \in Txns \ {t} : u \in w[rq[u].resource] <=> u \in waiters[request[u].resource]
    OBVIOUS
  <2> QED BY <2>1 DEF build_graph
<1> SUFFICES ASSUME NEW S \in SUBSET {u \in Txns : pc'[u] = "asleep"}, S # {},
                    \A u \in S : g[u] \intersect S # {}
             PROVE  FALSE
  BY <1>1, Zenon DEF NoSleepingCycle
<1>3. CASE t \notin S
  <2>1. S \in SUBSET {u \in Txns : pc[u] = "asleep"}
    BY <1>3
  <2>2. PICK u \in S : build_graph(waiters, request)[u] \intersect S = {}
    BY <2>1, Zenon DEF NoSleepingCycle
  <2> QED BY <1>2, <1>3, <2>1, <2>2
<1>4. CASE t \in S
  <2>1. ASSUME NEW u \in S PROVE g[u] # {} /\ g[u] \subseteq S
    <3>1. PICK x \in g[u] : x \in S
      OBVIOUS
    <3>2. g[u] = conflicts_with(rq[u].resource, u, rq[u].mode) /\ rq[u].resource \in Resources
      BY <3>1 DEF build_graph
    <3>3. \A y \in g[u] : y = x
      <4> HIDE DEF g
      <4> QED BY <1>0, <3>1, <3>2, OneBlocker
    <3> QED BY <3>1, <3>3
  <2> HIDE DEF g
  <2>2. /\ find_cycle(g, t) # {}
        /\ \A c \in find_cycle(g, t) : c \subseteq S
    BY <1>4, <2>1, ClosedSetHasCycle
  <2>3. PICK c \in find_cycle(g, t), v \in victims : choose_victim(c, v)
    BY <2>2 DEF DetectQuiet, g
  <2>4. v \in S /\ pc[v] = "awake" /\ v # t
    BY <1>0, <2>2, <2>3 DEF choose_victim, VictimsAreBlocked
  <2> QED BY <2>4
<1> QED BY <1>3, <1>4

\* t is the only sleeper.
LEMMA LoneSleeper ==
    ASSUME NEW t \in Txns, \A u \in Txns \ {t} : pc'[u] # "asleep"
    PROVE  NoSleepingCycle'
<1> SUFFICES ASSUME NEW S \in SUBSET {u \in Txns : pc'[u] = "asleep"}, S # {}
             PROVE  \E u \in S : build_graph(waiters, request)'[u] \intersect S = {}
  BY Zenon DEF NoSleepingCycle
<1>1. S = {t}
  OBVIOUS
<1>2. t \notin build_graph(waiters, request)'[t]
  BY DEF build_graph, conflicts_with
<1> QED BY <1>1, <1>2

\* No step leaves a cycle of sleepers: a request that closes one finds it before
\* it sleeps, and every other step only takes edges away.
LEMMA NextNoCycle ==
    ASSUME Modes = {"exclusive"}, IInv, NoSleepingCycle, [Next]_vars
    PROVE  NoSleepingCycle'
<1>0. TypeOK /\ VictimsAreBlocked
  BY DEF IInv
<1>1. ASSUME NEW t \in Txns, NEW r \in Resources, NEW m, grant(t, r, m)
      PROVE  NoSleepingCycle'
  <2>1. ASSUME NEW u \in Txns, pc'[u] = "asleep"
        PROVE  /\ pc[u] = "asleep" /\ request'[u] = request[u]
               /\ \A q \in Resources : u \in waiters'[q] => u \in waiters[q]
               /\ \A q \in Resources : holders'[q][u] = holders[q][u]
    <3>1. u # t /\ pc[u] = "asleep" /\ request'[u] = request[u]
      BY <1>0, <1>1, <2>1 DEF grant, Leave, TypeOK
    <3>2. \A q \in Resources : u \in waiters'[q] => u \in waiters[q]
      BY <1>0, <1>1 DEF grant, TypeOK
    <3>3. \A q \in Resources : holders'[q][u] = holders[q][u]
      BY <1>0, <1>1, <3>1 DEF grant, TypeOK
    <3> QED BY <3>1, <3>2, <3>3
  <2> QED BY <1>0, <2>1, StillNoCycle
<1>2. ASSUME NEW t \in Txns, NEW r \in Resources, NEW what, Raise(t, r, what),
             \A u \in Txns : pc'[u] = "asleep" => pc[u] = "asleep" /\ u # t
      PROVE  NoSleepingCycle'
  <2>1. ASSUME NEW u \in Txns, pc'[u] = "asleep"
        PROVE  /\ pc[u] = "asleep" /\ request'[u] = request[u]
               /\ \A q \in Resources : u \in waiters'[q] => u \in waiters[q]
               /\ \A q \in Resources : holders'[q][u] = holders[q][u]
    BY <1>0, <1>2, <2>1 DEF Raise, Leave, TypeOK
  <2> QED BY <1>0, <2>1, StillNoCycle
<1>3. ASSUME NEW t \in Txns, NEW r \in Resources, NEW m \in Modes, Acquire(t, r, m)
      PROVE  NoSleepingCycle'
  <2>1. t \notin victims /\ pc[t] = "running"
    BY <1>0, <1>3 DEF VictimsAreBlocked, Acquire, AcquireAtOnce, AcquireBlocked, StartCall
  <2>2. CASE AcquireAtOnce(t, r, m) /\ already_holds(t, r, m)
    BY <1>0, <2>2, StillNoCycle DEF AcquireAtOnce
  <2>3. CASE AcquireAtOnce(t, r, m) /\ ~already_holds(t, r, m)
    BY <1>1, <2>3 DEF AcquireAtOnce
  <2>4. CASE AcquireBlocked(t, r, m)
    <3> DEFINE w == [waiters EXCEPT ![r] = @ \union {t}]
               rq == [request EXCEPT ![t] = [resource |-> r, mode |-> m]]
               cycles == find_cycle(build_graph(w, rq), t)
    <3>1. CASE DetectQuiet(cycles) /\ pc' = [pc EXCEPT ![t] = "asleep"] /\ Wait(w, rq)
      <4>1. waiters' = w /\ request' = rq /\ holders' = holders
        BY <3>1 DEF Wait
      <4>2. \A u \in Txns : rq[u].resource \in Resources
        BY <1>0 DEF TypeOK, Requests
      <4>3. \A u \in Txns \ {t} : /\ pc'[u] = pc[u] /\ rq[u] = request[u]
                                 /\ \A q \in Resources : u \in w[q] <=> u \in waiters[q]
        BY <1>0, <3>1 DEF TypeOK
      <4> HIDE DEF w, rq
      <4> QED BY <2>1, <3>1, <4>1, <4>2, <4>3, QuietSleep
    <3>2. CASE pc' = Notified(pc) /\ Raise(t, r, "deadlock")
      <4>1. \A u \in Txns : pc'[u] # "asleep"
        BY <1>0, <3>2, NotifiedFacts
      <4> QED BY <1>2, <3>2, <4>1
    <3>3. CASE pc' = [Notified(pc) EXCEPT ![t] = "asleep"]
      <4>1. \A u \in Txns \ {t} : pc'[u] # "asleep"
        BY <1>0, <3>3, NotifiedFacts
      <4> QED BY <4>1, LoneSleeper
    <3> QED BY <2>4, <3>1, <3>2, <3>3 DEF AcquireBlocked
  <2> QED BY <1>3, <2>2, <2>3, <2>4 DEF Acquire
<1>4. ASSUME NEW t \in Txns, Wake(t) PROVE NoSleepingCycle'
  <2>1. PICK r \in Resources, m \in Modes : request[t] = [resource |-> r, mode |-> m]
    BY <1>0 DEF TypeOK, Requests
  <2>2. ASSUME NEW what, pc' = [pc EXCEPT ![t] = "running"], Raise(t, r, what)
        PROVE  NoSleepingCycle'
    <3>1. \A u \in Txns : pc'[u] = "asleep" => pc[u] = "asleep" /\ u # t
      BY <1>0, <2>2 DEF TypeOK
    <3> QED BY <1>2, <2>2, <3>1
  <2>3. ASSUME DetectQuiet(find_cycle(build_graph(waiters, request), t)), t \notin victims,
               pc' = [pc EXCEPT ![t] = "asleep"], Wait(waiters, request)
        PROVE  NoSleepingCycle'
    <3>1. waiters' = waiters /\ request' = request /\ holders' = holders
      BY <2>3 DEF Wait
    <3>2. \A u \in Txns : request[u].resource \in Resources
      BY <1>0 DEF TypeOK, Requests
    <3>3. \A u \in Txns \ {t} : pc'[u] = pc[u]
      BY <1>0, <2>3 DEF TypeOK
    <3> QED BY <2>3, <3>1, <3>2, <3>3, QuietSleep
  <2>4. ASSUME pc' = [Notified(pc) EXCEPT ![t] = "asleep"] PROVE NoSleepingCycle'
    <3>1. \A u \in Txns \ {t} : pc'[u] # "asleep"
      BY <1>0, <2>4, NotifiedFacts
    <3> QED BY <3>1, LoneSleeper
  <2>5. ASSUME NEW what, pc' = [Notified(pc) EXCEPT ![t] = "running"], Raise(t, r, what)
        PROVE  NoSleepingCycle'
    <3>1. \A u \in Txns : pc'[u] # "asleep"
      BY <1>0, <2>5, NotifiedFacts
    <3> QED BY <1>2, <2>5, <3>1
  <2>6. CASE WakeAsVictim(t)
    BY <2>1, <2>2, <2>6 DEF WakeAsVictim
  <2>7. CASE WakeQuiet(t)
    BY <1>1, <2>1, <2>2, <2>3, <2>7 DEF WakeQuiet
  <2>8. CASE WakeDetects(t)
    BY <2>1, <2>4, <2>5, <2>8 DEF WakeDetects
  <2> QED BY <1>4, <2>6, <2>7, <2>8 DEF Wake
<1>5. ASSUME NEW t \in Txns, release_all(t) PROVE NoSleepingCycle'
  <2>1. \A u \in Txns : pc'[u] # "asleep"
    BY <1>0, <1>5, NotifiedFacts DEF release_all, PCs
  <2> QED BY <2>1, LoneSleeper
<1>6. ASSUME NEW t \in Txns, Expire(t) PROVE NoSleepingCycle'
  <2>1. \A u \in Txns : pc'[u] = "asleep" => pc[u] = "asleep"
    BY <1>0, <1>6 DEF Expire, TypeOK
  <2> QED BY <1>0, <1>6, <2>1, StillNoCycle DEF Expire
<1>7. CASE UNCHANGED vars
  BY <1>0, <1>7, StillNoCycle DEF vars
<1> QED BY <1>3, <1>4, <1>5, <1>6, <1>7 DEF Next, Finished

\* With the exclusive row locks the engine takes, the sleepers never wait only
\* on one another: _detect marks or raises before the last of a cycle sleeps,
\* for any number of transactions and rows.
THEOREM DeadlocksAreFound == Modes = {"exclusive"} => (Spec => []NoSleepingCycle)
<1> SUFFICES ASSUME Modes = {"exclusive"} PROVE Spec => []NoSleepingCycle
  OBVIOUS
<1>1. Init => NoSleepingCycle
  <2> SUFFICES ASSUME Init PROVE NoSleepingCycle
    OBVIOUS
  <2>1. \A t \in Txns : pc[t] # "asleep"
    BY DEF Init
  <2> QED BY <2>1 DEF NoSleepingCycle
<1>2. IInv /\ NoSleepingCycle /\ [Next]_vars => NoSleepingCycle'
  BY NextNoCycle
<1> QED BY <1>1, <1>2, Invariance, PTL DEF Spec
=============================================================================

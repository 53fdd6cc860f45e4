---------------------------- MODULE LockManager ----------------------------
(***************************************************************************)
(* The lock table of engine/concurrency/locks.py: granting, waiting on a   *)
(* condition variable, deadlock detection over the wait-for graph, victims,*)
(* timeouts and release_all.                                               *)
(*                                                                         *)
(* Every public method runs under one mutex, so each of them is one action,*)
(* cut only where the code lets go of the mutex: inside Condition.wait.    *)
(* The DFS of _find_cycle returns the first cycle it meets in the order of *)
(* transaction ids; here it may return any cycle reachable from the start, *)
(* which includes that one.                                                *)
(***************************************************************************)
EXTENDS Integers, FiniteSets

CONSTANTS
    Txns,           \* transaction ids; larger means younger
    Resources,      \* record ids that can be locked
    Modes,          \* the modes requested, a subset of {"shared", "exclusive"}
    MaxLocks,       \* MAX_LOCKS_PER_TRANSACTION
    MaxRequests     \* bound: calls of acquire in a behaviour

ASSUME TxnsAssumption == Txns \subseteq Nat /\ IsFiniteSet(Txns)
ASSUME ModesAssumption == Modes \subseteq {"shared", "exclusive"} /\ Modes # {}
ASSUME ResourcesAssumption == Resources # {}
ASSUME BoundsAssumption == MaxLocks \in Nat /\ MaxRequests \in Nat

VARIABLES
    holders,    \* holders[r][t]: mode in entry.holders, or "none"
    waiters,    \* waiters[r]: transactions in entry.waiters
    heldBy,     \* heldBy[t][r]: the reverse index _held_by
    victims,    \* _victims
    pc,         \* where each transaction's thread is
    request,    \* the request a blocked thread is waiting on
    expired,    \* transactions whose deadline has passed during a wait
    raised,     \* the last exception acquire raised in each transaction
    calls       \* calls of acquire so far, for the bound

vars == <<holders, waiters, heldBy, victims, pc, request, expired, raised, calls>>

Requests == [resource : Resources, mode : Modes]
AnyRequest == CHOOSE q \in Requests : TRUE     \* of a thread that is not blocked
Held == Modes \union {"none"}

\* "asleep" is inside Condition.wait, "awake" notified and about to re-check.
PCs == {"running", "asleep", "awake", "ended"}
Blocked(t) == pc[t] \in {"asleep", "awake"}

TypeOK ==
    /\ holders \in [Resources -> [Txns -> Held]]
    /\ waiters \in [Resources -> SUBSET Txns]
    /\ heldBy \in [Txns -> [Resources -> Held]]
    /\ victims \subseteq Txns
    /\ pc \in [Txns -> PCs]
    /\ request \in [Txns -> Requests]
    /\ expired \subseteq Txns
    /\ raised \in [Txns -> {"nothing", "deadlock", "timeout"}]
    /\ calls \in 0 .. MaxRequests

Init ==
    /\ holders = [r \in Resources |-> [t \in Txns |-> "none"]]
    /\ waiters = [r \in Resources |-> {}]
    /\ heldBy = [t \in Txns |-> [r \in Resources |-> "none"]]
    /\ victims = {}
    /\ pc = [t \in Txns |-> "running"]
    /\ request = [t \in Txns |-> AnyRequest]
    /\ expired = {}
    /\ raised = [t \in Txns |-> "nothing"]
    /\ calls = 0

---------------------------------------------------------------------------
(* The lock table entry and the wait-for graph.                            *)

compatible(held, wanted) == held = "shared" /\ wanted = "shared"

\* Mutant: an exclusive request is not stopped by shared holders.
conflicts_with_exclusive_only(r, t, m) ==
    {h \in Txns \ {t} : holders[r][h] = "exclusive"}

conflicts_with(r, t, m) ==
    {h \in Txns \ {t} : holders[r][h] # "none" /\ ~compatible(holders[r][h], m)}

\* Mutant: an exclusive lock does not cover a shared request.
already_holds_same_mode(t, r, m) == heldBy[t][r] = m

already_holds(t, r, m) == heldBy[t][r] \in {"exclusive", m}

\* Who t waits for when the waiters are w and the requests rq.
build_graph(w, rq) ==
    [t \in Txns |->
        IF t \in w[rq[t].resource]
        THEN conflicts_with(rq[t].resource, t, rq[t].mode)
        ELSE {}]

\* The paths of n transactions, none repeated, that follow the graph.
PathsFrom(graph, start, n) ==
    {p \in [1 .. n -> Txns] :
        /\ p[1] = start
        /\ \A i, j \in 1 .. n : p[i] = p[j] => i = j
        /\ \A i \in 1 .. n - 1 : p[i + 1] \in graph[p[i]]}

\* The cycles a path closes by an edge from its last node back to its i-th.
CyclesOf(graph, p, n) ==
    {{p[j] : j \in i .. n} : i \in {k \in 1 .. n : p[k] \in graph[p[n]]}}

\* Mutant: only looks one edge ahead, so a cycle of three is missed.
find_cycle_of_two(graph, start) ==
    {{start, u} : u \in {x \in graph[start] : start \in graph[x]}}

find_cycle(graph, start) ==
    UNION {UNION {CyclesOf(graph, p, n) : p \in PathsFrom(graph, start, n)} :
              n \in 1 .. Cardinality(Txns)}

\* Mutant: the oldest is rolled back.
choose_oldest(cycle, v) == v \in cycle /\ \A u \in cycle : v <= u

\* v is the youngest of the cycle.
choose_victim(cycle, v) == v \in cycle /\ \A u \in cycle : u <= v

---------------------------------------------------------------------------
(* Pieces of the actions.                                                  *)

\* Mutant: notify() in place of notify_all() that reaches nobody here.
NotifiedNobody(p) == p

\* Condition.notify_all: every sleeper will re-check.
Notified(p) == [u \in Txns |-> IF p[u] = "asleep" THEN "awake" ELSE p[u]]

\* Mutant: the finished request is overwritten by one with no mode.
LeaveNoMode(t) ==
    /\ request' = [request EXCEPT ![t] = [resource |-> AnyRequest.resource, mode |-> "none"]]
    /\ expired' = expired \ {t}

\* acquire returns or raises: its local request and deadline are gone.
Leave(t) ==
    /\ request' = [request EXCEPT ![t] = AnyRequest]
    /\ expired' = expired \ {t}

\* grant: refused with LockTimeout at MAX_LOCKS_PER_TRANSACTION.
grant(t, r, m) ==
    /\ Leave(t)
    /\ pc' = [pc EXCEPT ![t] = "running"]
    /\ waiters' = [waiters EXCEPT ![r] = @ \ {t}]
    /\ IF Cardinality({q \in Resources : heldBy[t][q] # "none"}) >= MaxLocks
       THEN /\ raised' = [raised EXCEPT ![t] = "timeout"]
            /\ UNCHANGED <<holders, heldBy>>
       ELSE /\ holders' = [holders EXCEPT ![r][t] = m]
            /\ heldBy' = [heldBy EXCEPT ![t][r] = m]
            /\ UNCHANGED raised

\* An exception leaves acquire: the finally clause drops the request.
Raise(t, r, what) ==
    /\ Leave(t)
    /\ raised' = [raised EXCEPT ![t] = what]
    /\ waiters' = [waiters EXCEPT ![r] = @ \ {t}]
    /\ UNCHANGED <<holders, heldBy>>

\* acquire reaches Condition.wait with waiters w and requests rq.
Wait(w, rq) ==
    /\ waiters' = w
    /\ request' = rq
    /\ UNCHANGED <<holders, heldBy, expired, raised>>

\* detect found nothing new: no cycle, or one whose victim is marked already.
DetectQuiet(cycles) ==
    \/ cycles = {}
    \/ \E c \in cycles, v \in victims : choose_victim(c, v)

\* detect chose t itself, which raises at once and clears its own mark.
DetectSelf(t, cycles) == t \notin victims /\ \E c \in cycles : choose_victim(c, t)

\* detect chose another transaction: v is marked and everybody is notified.
DetectOther(t, cycles, v) ==
    /\ v # t
    /\ v \notin victims
    /\ \E c \in cycles : choose_victim(c, v)

---------------------------------------------------------------------------
(* acquire, up to the first Condition.wait.                                *)

StartCall(t) ==
    /\ pc[t] = "running"
    /\ calls < MaxRequests
    /\ calls' = calls + 1

\* A free lock, or one this transaction already covers. The victim check made
\* first cannot fire: VictimsAreBlocked, and a caller is not blocked.
AcquireAtOnce(t, r, m) ==
    /\ StartCall(t)
    /\ already_holds(t, r, m) \/ conflicts_with(r, t, m) = {}
    /\ IF already_holds(t, r, m)
       THEN UNCHANGED <<holders, waiters, heldBy, pc, request, expired, raised>>
       ELSE grant(t, r, m)
    /\ UNCHANGED victims

\* Blocked: the request joins the waiters, then the graph is searched.
AcquireBlocked(t, r, m) ==
    LET w == [waiters EXCEPT ![r] = @ \union {t}]
        rq == [request EXCEPT ![t] = [resource |-> r, mode |-> m]]
        cycles == find_cycle(build_graph(w, rq), t)
    IN  /\ StartCall(t)
        /\ ~already_holds(t, r, m)
        /\ conflicts_with(r, t, m) # {}
        /\ \/ /\ DetectQuiet(cycles)
              /\ pc' = [pc EXCEPT ![t] = "asleep"]
              /\ Wait(w, rq)
              /\ UNCHANGED victims
           \/ /\ DetectSelf(t, cycles)
              /\ pc' = Notified(pc)
              /\ Raise(t, r, "deadlock")
              /\ UNCHANGED victims
           \/ \E v \in Txns :
                /\ DetectOther(t, cycles, v)
                /\ victims' = victims \union {v}
                /\ pc' = [Notified(pc) EXCEPT ![t] = "asleep"]
                /\ Wait(w, rq)

---------------------------------------------------------------------------
(* acquire, from the return of Condition.wait to the next one.             *)

\* Mutant: the mark is not discarded when it is acted on.
WakeAsVictimKeepsMark(t) ==
    /\ pc[t] = "awake"
    /\ t \in victims
    /\ pc' = [pc EXCEPT ![t] = "running"]
    /\ Raise(t, request[t].resource, "deadlock")
    /\ UNCHANGED <<victims, calls>>

\* _check_victim: the mark is consumed and the wait ends in DeadlockError.
WakeAsVictim(t) ==
    /\ pc[t] = "awake"
    /\ t \in victims
    /\ victims' = victims \ {t}
    /\ pc' = [pc EXCEPT ![t] = "running"]
    /\ Raise(t, request[t].resource, "deadlock")
    /\ UNCHANGED calls

\* The loop condition after a quiet _detect: grant, give up, or sleep again.
WakeQuiet(t) ==
    LET r == request[t].resource
        m == request[t].mode
    IN  /\ pc[t] = "awake"
        /\ t \notin victims
        /\ DetectQuiet(find_cycle(build_graph(waiters, request), t))
        /\ \/ /\ conflicts_with(r, t, m) = {}
              /\ grant(t, r, m)
           \/ /\ conflicts_with(r, t, m) # {}
              /\ t \in expired
              /\ pc' = [pc EXCEPT ![t] = "running"]
              /\ Raise(t, r, "timeout")
           \/ /\ conflicts_with(r, t, m) # {}
              /\ t \notin expired
              /\ pc' = [pc EXCEPT ![t] = "asleep"]
              /\ Wait(waiters, request)
        /\ UNCHANGED <<victims, calls>>

\* The graph changed while t slept and a cycle is found now.
WakeDetects(t) ==
    LET cycles == find_cycle(build_graph(waiters, request), t)
    IN  /\ pc[t] = "awake"
        /\ t \notin victims
        /\ \/ /\ DetectSelf(t, cycles)
              /\ pc' = [Notified(pc) EXCEPT ![t] = "running"]
              /\ Raise(t, request[t].resource, "deadlock")
              /\ UNCHANGED victims
           \/ \E v \in Txns :
                /\ DetectOther(t, cycles, v)
                /\ victims' = victims \union {v}
                /\ IF t \in expired
                   THEN /\ pc' = [Notified(pc) EXCEPT ![t] = "running"]
                        /\ Raise(t, request[t].resource, "timeout")
                   ELSE /\ pc' = [Notified(pc) EXCEPT ![t] = "asleep"]
                        /\ Wait(waiters, request)
        /\ UNCHANGED calls

\* The deadline passes; Condition.wait(timeout) returns.
Expire(t) ==
    /\ Blocked(t)
    /\ t \notin expired
    /\ expired' = expired \union {t}
    /\ pc' = [pc EXCEPT ![t] = "awake"]
    /\ UNCHANGED <<holders, waiters, heldBy, victims, request, raised, calls>>

---------------------------------------------------------------------------
\* Mutant: only the reverse index is cleared.
release_all_index_only(t) ==
    /\ pc[t] = "running"
    /\ victims' = victims \ {t}
    /\ heldBy' = [heldBy EXCEPT ![t] = [r \in Resources |-> "none"]]
    /\ pc' = [Notified(pc) EXCEPT ![t] = "ended"]
    /\ UNCHANGED <<holders, waiters, request, expired, raised, calls>>

\* release_all at commit or rollback. An entry nobody holds or waits for is
\* deleted from the table, which an entry with no holder and no waiter models.
release_all(t) ==
    /\ pc[t] = "running"
    /\ victims' = victims \ {t}
    /\ holders' = [r \in Resources |-> [holders[r] EXCEPT ![t] = "none"]]
    /\ heldBy' = [heldBy EXCEPT ![t] = [r \in Resources |-> "none"]]
    /\ pc' = [Notified(pc) EXCEPT ![t] = "ended"]
    /\ UNCHANGED <<waiters, request, expired, raised, calls>>

Acquire(t, r, m) == AcquireAtOnce(t, r, m) \/ AcquireBlocked(t, r, m)
Wake(t) == WakeAsVictim(t) \/ WakeQuiet(t) \/ WakeDetects(t)

AllEnded == \A t \in Txns : pc[t] = "ended"
Finished == AllEnded /\ UNCHANGED vars

Next ==
    \/ \E t \in Txns, r \in Resources, m \in Modes : Acquire(t, r, m)
    \/ \E t \in Txns : Wake(t) \/ Expire(t) \/ release_all(t)
    \/ Finished

Spec == Init /\ [][Next]_vars

\* A notified thread gets the mutex, and a client whose call has returned
\* ends its transaction. Nothing is assumed about deadlines.
Fairness == \A t \in Txns : WF_vars(Wake(t)) /\ WF_vars(release_all(t))

FairSpec == Spec /\ Fairness
---------------------------------------------------------------------------
(* What the lock table promises.                                           *)

\* No two transactions hold incompatible locks on one resource: the predicate
\* acquire tests is the one that keeps writers of a row apart, also when a
\* lock is upgraded while others wait for it.
MutualExclusion ==
    \A r \in Resources, t, u \in Txns :
        t # u /\ holders[r][t] # "none" /\ holders[r][u] # "none"
            => compatible(holders[r][t], holders[r][u])

\* entry.holders and the reverse index _held_by always describe the same locks,
\* and nothing is held by a transaction that has ended: a stale row in either
\* would block, or stop blocking, somebody for good.
IndexesAgree ==
    \A t \in Txns, r \in Resources :
        /\ heldBy[t][r] = holders[r][t]
        /\ pc[t] = "ended" => holders[r][t] = "none"

\* A victim mark never outlives the wait it was made for: only a blocked
\* transaction is marked, and it has been notified. A mark that leaked would
\* make a later, innocent acquire raise DeadlockError.
VictimsAreBlocked == \A t \in victims : pc[t] = "awake"

\* The victim is the youngest of its cycle, so the oldest transaction is never
\* the one DeadlockError is raised in, whoever ran the search.
OldestNeverVictim ==
    \A t \in Txns : (\A u \in Txns : t <= u) => raised[t] # "deadlock"

\* No set of sleepers waits only on itself (stated on the wait-for graph, not
\* with find_cycle): a deadlock is found no later than the moment its last
\* member goes to sleep.
NoSleepingCycle ==
    LET graph == build_graph(waiters, request)
    IN  \A S \in SUBSET {t \in Txns : pc[t] = "asleep"} :
            S # {} => \E t \in S : graph[t] \intersect S = {}

\* Strict two-phase locking: until its transaction ends, a lock is neither
\* released nor weakened (asking for shared on a row held exclusively, or
\* failing a later request, changes nothing).
StrictTwoPhase ==
    [][\A t \in Txns, r \in Resources :
          heldBy[t][r] # "none" /\ pc'[t] # "ended"
              => heldBy'[t][r] \in {heldBy[t][r], "exclusive"}]_vars

\* Every transaction gets to its end although no deadline ever has to pass:
\* each wait is ended by a grant or by the deadlock detector.
EveryTransactionEnds == \A t \in Txns : <>(pc[t] = "ended")
=============================================================================

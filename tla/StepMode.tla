----------------------------- MODULE StepMode -----------------------------
(***************************************************************************)
(* Stepped executions: the controller a paused query blocks on             *)
(* (engine/executor/controller.py), the registry that owns the threads     *)
(* (engine/server/executions.py), and what they stand on: the lock of one  *)
(* open database (ManagedDatabase.use) and the fanout that turns events    *)
(* into checkpoints (engine/diagnostics/sink.py).                          *)
(*                                                                         *)
(* Three kinds of thread interleave: the engine thread of an execution,    *)
(* the worker of a plain query on the same database, and the workers that  *)
(* serve calls on the store. A step is what runs under one mutex, or       *)
(* between two of them.                                                    *)
(***************************************************************************)
EXTENDS Integers, Sequences, FiniteSets, FiniteSetsExt, SequencesExt

CONSTANTS
    Executions,     \* stepped queries that can be started
    Queries,        \* plain queries run on the same database
    Clients,        \* workers serving calls on the store
    Operators,      \* operators of a plan
    Kinds,          \* kinds of checkpoint the queries meet
    Modes,          \* how far clients ask a query to run
    Targets,        \* operators that clients ask a query to run to
    MaxExecutions,  \* config.max_executions
    MaxSteps,       \* bound: checkpoints and events of one query
    Brief           \* bound: threads whose query has just one of them

ASSUME StepModeAssumption ==
    /\ MaxExecutions \in Nat \ {0}
    /\ MaxSteps \in Nat \ {0}
    /\ Modes # {} /\ Targets # {} /\ Targets \subseteq Operators
    /\ Executions \intersect Queries = {}       \* each has a thread of its own

VARIABLES
    ctrl,       \* ctrl[e]: the StepController of execution e
    thread,     \* thread[t]: where a thread is
    lock,       \* the thread inside ManagedDatabase.use(), or NoOne
    sinks,      \* the controllers on the database's FanoutSink, in order
    registry,   \* ExecutionStore._executions, oldest first
    idle,       \* registered executions untouched for longer than the idle timeout
    call,       \* call[c]: what a worker of the store is doing
    up          \* has the application not been torn down?

vars == <<ctrl, thread, lock, sinks, registry, idle, call, up>>

\* FINISHED, CANCELLED and FAILED: nothing here tells them apart.
ENDED == "ended"

NoOne == "no one"
NoOperator == "no operator"
Threads == Executions \union Queries
EventKinds == {"page_read", "index_operation"}      \* PageReadEvent, _INDEX_EVENTS
CallKinds == {"operator_open", "operator_next", "row_emitted", "index_operation"}
StepKinds == EventKinds \union CallKinds
Operations == {"none", "resume", "cancel"}

\* Which kinds of checkpoint each mode stops at.
STOPS_AT ==
    [step |-> StepKinds,
     continue |-> {},
     until_row |-> {"row_emitted"},
     until_page_read |-> {"page_read"},
     until_operator |-> {"operator_next"},
     until_index_operation |-> {"index_operation"}]

ASSUME ModesAssumption == Modes \subseteq DOMAIN STOPS_AT
ASSUME KindsAssumption == Kinds \subseteq StepKinds /\ "operator_open" \in Kinds

NewController ==
    [state |-> "pending", armed |-> FALSE, mode |-> "step", until |-> NoOperator,
     cancel |-> FALSE, reason |-> <<>>]

NewThread ==
    [pc |-> "none", work |-> 0, on |-> NoOne, via |-> "call", todo |-> <<>>]

NoCall == [phase |-> "free", op |-> "none", of |-> NoOne, stale |-> {}]

TypeOK ==
    /\ ctrl \in [Executions ->
          [state : {"pending", "running", "paused", ENDED}, armed : BOOLEAN,
           mode : DOMAIN STOPS_AT, until : Operators \union {NoOperator},
           cancel : BOOLEAN,
           reason : {<<>>} \union (StepKinds \X (Operators \union {NoOperator}))]]
    /\ thread \in [Threads ->
          [pc : {"none", "lock", "start", "plan", "open", "run", "deliver", "paused",
                 "release", "unsubscribe", "finish", "done"},
           work : 0 .. MaxSteps, on : Executions \union {NoOne},
           via : {"call"} \union EventKinds, todo : Seq(Executions)]]
    /\ lock \in Threads \union {NoOne}
    /\ sinks \in Seq(Executions)
    /\ registry \in Seq(Executions)
    /\ idle \subseteq Executions
    /\ call \in [Clients ->
          [phase : {"free", "reap", "act", "wait"}, op : Operations,
           of : Executions \union {NoOne}, stale : SUBSET Executions]]
    /\ up \in BOOLEAN

Init ==
    /\ ctrl = [e \in Executions |-> NewController]
    /\ thread = [t \in Threads |-> NewThread]
    /\ lock = NoOne
    /\ sinks = <<>>
    /\ registry = <<>>
    /\ idle = {}
    /\ call = [c \in Clients |-> NoCall]
    /\ up = TRUE

---------------------------------------------------------------------------
(* StepController.                                                         *)

is_terminal(e) == ctrl[e].state = ENDED

\* Mutant: a query that runs to one operator stops at whichever is asked next.
should_pause_anywhere(e, kind, op) == kind \in STOPS_AT[ctrl[e].mode]

should_pause(e, kind, op) ==
    /\ kind \in STOPS_AT[ctrl[e].mode]
    /\ ctrl[e].mode = "until_operator" => op = ctrl[e].until

Paused(e, kind, op) ==
    [ctrl EXCEPT ![e].state = "paused", ![e].reason = <<kind, op>>]

resume(e, mode, op) ==
    IF is_terminal(e) THEN ctrl
    ELSE [ctrl EXCEPT ![e].mode = mode, ![e].until = op,
                      ![e].reason = <<>>, ![e].state = "running"]

\* The controllers after each member of E has been cancelled.
cancel(E) ==
    [e \in Executions |->
        IF e \in E /\ ~is_terminal(e) THEN [ctrl[e] EXCEPT !.cancel = TRUE] ELSE ctrl[e]]

\* Mutant: the loop around wait() forgets the cancellation.
released_by_resume(e) == ctrl[e].state # "paused"

\* wait() returns: the driver resumed the query, or asked it to stop.
released(e) == ctrl[e].state # "paused" \/ ctrl[e].cancel

---------------------------------------------------------------------------
(* The engine thread: ExecutionStore._run and execute_statement.           *)

At(t, pc) == thread[t].pc = pc
StepLimit(t) == IF t \in Brief THEN 1 ELSE MaxSteps
Live(t) == thread[t].pc \notin {"none", "done"}
GoesTo(t, pc) == thread' = [thread EXCEPT ![t].pc = pc]
Unwound == [NewThread EXCEPT !.pc = "release"]
Unwinds(t) == thread' = [thread EXCEPT ![t] = Unwound]
store == <<registry, idle, call, up>>

\* `with managed.use()`.
Use(t) ==
    /\ At(t, "lock") /\ lock = NoOne
    /\ lock' = t
    /\ GoesTo(t, "start")
    /\ UNCHANGED <<ctrl, sinks, store>>

mark_running(e) ==
    /\ At(e, "start")
    /\ ctrl' = IF ctrl[e].state = "pending" THEN [ctrl EXCEPT ![e].state = "running"] ELSE ctrl
    /\ GoesTo(e, "plan")
    /\ UNCHANGED <<lock, sinks, store>>

\* A statement with no operator tree, and one that fails to bind, never arm.
RunsUnarmed(e) ==
    /\ At(e, "plan")
    /\ Unwinds(e)
    /\ UNCHANGED <<ctrl, lock, sinks, store>>

arm(e) ==
    /\ At(e, "plan")
    /\ ctrl' = [ctrl EXCEPT ![e].armed = TRUE]
    /\ GoesTo(e, "open")
    /\ UNCHANGED <<lock, sinks, store>>

\* checkpoint() called by an operator. Opening the tree ends in one.
checkpoint(e, kind, op) ==
    /\ At(e, "run") \/ (At(e, "open") /\ kind = "operator_open")
    /\ thread[e].work < StepLimit(e)
    /\ IF ctrl[e].cancel
       THEN Unwinds(e) /\ ctrl' = ctrl
       ELSE IF should_pause(e, kind, op)
       THEN /\ ctrl' = Paused(e, kind, op)
            /\ thread' = [thread EXCEPT ![e].pc = "paused", ![e].on = e, ![e].via = "call",
                                        ![e].work = @ + 1]
       ELSE /\ thread' = [thread EXCEPT ![e].pc = "run", ![e].work = @ + 1]
            /\ ctrl' = ctrl
    /\ UNCHANGED <<lock, sinks, store>>

\* The storage engine or a B+ tree emits an event: the fanout copies its
\* list of sinks and goes through the copy.
Emit(t, kind) ==
    /\ At(t, "run") /\ thread[t].work < StepLimit(t) /\ sinks # <<>>
    /\ thread' = [thread EXCEPT ![t].pc = "deliver", ![t].via = kind, ![t].todo = sinks,
                                ![t].work = @ + 1]
    /\ UNCHANGED <<ctrl, lock, sinks, store>>

\* A thread that is through with one sink of the copy.
Delivered(left) ==
    IF left.todo # <<>> THEN [left EXCEPT !.pc = "deliver"]
    ELSE [left EXCEPT !.pc = "run", !.via = "call"]

\* StepController.record on the next sink of the copy, by whatever thread
\* emitted the event. FanoutSink swallows a QueryCancelledError raised here.
record(t) ==
    /\ At(t, "deliver")
    /\ LET e == Head(thread[t].todo)
           left == [thread[t] EXCEPT !.todo = Tail(@)]
           pauses == /\ ctrl[e].armed /\ ~ctrl[e].cancel
                     /\ should_pause(e, thread[t].via, NoOperator)
       IN  /\ ctrl' = IF pauses THEN Paused(e, thread[t].via, NoOperator) ELSE ctrl
           /\ thread' = [thread EXCEPT ![t] =
                 IF pauses THEN [left EXCEPT !.pc = "paused", !.on = e] ELSE Delivered(left)]
    /\ UNCHANGED <<lock, sinks, store>>

\* The thread leaves checkpoint(), by returning or by raising.
Wake(t) ==
    /\ At(t, "paused")
    /\ LET e == thread[t].on
           awake == [thread[t] EXCEPT !.on = NoOne]
       IN  /\ released(e)
           /\ thread' = [thread EXCEPT ![t] =
                 IF thread[t].via # "call" THEN Delivered(awake)
                 ELSE IF ctrl[e].cancel THEN Unwound ELSE [awake EXCEPT !.pc = "run"]]
    /\ UNCHANGED <<ctrl, lock, sinks, store>>

\* The statement returns or raises. UPDATE and DELETE have no checkpoints left
\* once their rows are found, and nothing but events until here.
Ends(t) ==
    /\ At(t, "run")
    /\ Unwinds(t)
    /\ UNCHANGED <<ctrl, lock, sinks, store>>

\* The end of the `with` block.
Release(t) ==
    /\ At(t, "release")
    /\ lock' = NoOne
    /\ thread' = [thread EXCEPT ![t] =
          [@ EXCEPT !.pc = IF t \in Queries THEN "done" ELSE "unsubscribe"]]
    /\ UNCHANGED <<ctrl, sinks, store>>

unsubscribe(e) ==
    /\ At(e, "unsubscribe")
    /\ sinks' = RemoveFirst(sinks, e)
    /\ GoesTo(e, "finish")
    /\ UNCHANGED <<ctrl, lock, store>>

mark_finished(e) ==
    /\ At(e, "finish")
    /\ ctrl' = [ctrl EXCEPT ![e].state = ENDED, ![e].reason = <<>>]
    /\ thread' = [thread EXCEPT ![e] = [NewThread EXCEPT !.pc = "done"]]
    /\ UNCHANGED <<lock, sinks, store>>

EngineStep(t) ==
    \/ Use(t) \/ record(t) \/ Wake(t) \/ Ends(t) \/ Release(t)
    \/ \E kind \in Kinds \intersect EventKinds : Emit(t, kind)
    \/ /\ t \in Executions
       /\ \/ mark_running(t) \/ RunsUnarmed(t) \/ arm(t) \/ unsubscribe(t)
          \/ mark_finished(t)
          \/ \E kind \in Kinds \intersect CallKinds, op \in Operators : checkpoint(t, kind, op)

---------------------------------------------------------------------------
(* Calls on ExecutionStore, each of which reaps first.                     *)

engine == <<thread, lock, sinks>>

\* Mutant: a paused execution counts as one its client still wants.
stale_unpaused ==
    {e \in ToSet(registry) : ~is_terminal(e) /\ ctrl[e].state # "paused" /\ e \in idle}

stale == {e \in ToSet(registry) : ~is_terminal(e) /\ e \in idle}

Begin(c) ==
    /\ up /\ call[c].phase = "free"
    /\ call' = [call EXCEPT ![c].phase = "reap", ![c].stale = stale]
    /\ UNCHANGED <<ctrl, engine, registry, idle, up>>

\* reap cancels what it found after it let go of the store's lock.
reap(c) ==
    /\ call[c].phase = "reap"
    /\ \E e \in call[c].stale :
          /\ ctrl' = cancel({e})
          /\ call' = [call EXCEPT ![c].stale = @ \ {e}]
    /\ UNCHANGED <<engine, registry, idle, up>>

Reaped(c) == call[c].phase = "reap" /\ call[c].stale = {}

Listed(c) ==
    /\ Reaped(c)
    /\ call' = [call EXCEPT ![c] = NoCall]
    /\ UNCHANGED <<ctrl, engine, registry, idle, up>>

\* The execution start makes room with: the oldest one that is over, or else
\* the oldest. One is enough, the registry is never above its limit.
EvictedAt ==
    LET over == {i \in DOMAIN registry : is_terminal(registry[i])}
    IN  IF over = {} THEN 1 ELSE Min(over)

Full == Len(registry) >= MaxExecutions
Evicted == IF Full THEN {registry[EvictedAt]} ELSE {}
Kept == IF Full THEN RemoveAt(registry, EvictedAt) ELSE registry

\* Mutant: an execution is evicted and not cancelled.
start_evicts_quietly(c, e) ==
    /\ Reaped(c) /\ At(e, "none")
    /\ registry' = Append(Kept, e)
    /\ sinks' = Append(sinks, e)
    /\ GoesTo(e, "lock")
    /\ idle' = idle \ Evicted
    /\ call' = [call EXCEPT ![c] = NoCall]
    /\ UNCHANGED <<ctrl, lock, up>>

\* What start waits for at its end changes nothing.
start(c, e) ==
    /\ Reaped(c) /\ At(e, "none")
    /\ ctrl' = cancel(Evicted)
    /\ registry' = Append(Kept, e)
    /\ sinks' = Append(sinks, e)
    /\ GoesTo(e, "lock")
    /\ idle' = idle \ Evicted
    /\ call' = [call EXCEPT ![c] = NoCall]
    /\ UNCHANGED <<lock, up>>

\* get touches the execution; an unknown id only ends the call, like Listed.
\* Looking is all there is to do for GET, and for resuming what is over.
get(c, op, e) ==
    /\ Reaped(c) /\ e \in ToSet(registry)
    /\ idle' = idle \ {e}
    /\ call' = [call EXCEPT ![c] =
          IF op = "get" \/ (op = "resume" /\ is_terminal(e)) THEN NoCall
          ELSE [NoCall EXCEPT !.phase = "act", !.op = op, !.of = e]]
    /\ UNCHANGED <<ctrl, engine, registry, up>>

Act(c) ==
    /\ call[c].phase = "act"
    /\ LET e == call[c].of
       IN  \/ call[c].op = "cancel" /\ ctrl' = cancel({e})
           \/ /\ call[c].op = "resume"
              /\ \E mode \in Modes, op \in Targets :
                    ctrl' = resume(e, mode, IF mode = "until_operator" THEN op ELSE NoOperator)
    /\ call' = [call EXCEPT ![c].phase = "wait"]
    /\ UNCHANGED <<engine, registry, idle, up>>

\* wait_for_pause_or_end, and the join of cancel: they end by themselves or
\* by their timeout.
Return(c) ==
    /\ call[c].phase = "wait"
    /\ idle' = idle \ {call[c].of}
    /\ call' = [call EXCEPT ![c] = NoCall]
    /\ UNCHANGED <<ctrl, engine, registry, up>>

StoreStep(c) ==
    \/ reap(c) \/ Listed(c) \/ Act(c) \/ Return(c)
    \/ \E e \in Executions :
          start(c, e) \/ \E op \in {"get", "resume", "cancel"} : get(c, op, e)

---------------------------------------------------------------------------
(* The surroundings.                                                       *)

\* A worker that runs /query on the database gets its lock.
run_query(q) ==
    /\ up /\ At(q, "none") /\ lock = NoOne
    /\ lock' = q
    /\ GoesTo(q, "run")
    /\ UNCHANGED <<ctrl, sinks, store>>

\* idle_seconds passes the timeout.
GoIdle(e) ==
    /\ e \in ToSet(registry) \ idle /\ ~is_terminal(e)
    /\ idle' = idle \union {e}
    /\ UNCHANGED <<ctrl, engine, registry, call, up>>

\* The lifespan of the application ends when no request is being served.
shutdown ==
    /\ up /\ up' = FALSE
    /\ \A c \in Clients : call[c].phase = "free"
    /\ \A q \in Queries : ~Live(q)
    /\ ctrl' = cancel(ToSet(registry))
    /\ registry' = <<>> /\ idle' = {}
    /\ UNCHANGED <<engine, call>>

Next ==
    \/ \E t \in Threads : EngineStep(t)
    \/ \E c \in Clients : Begin(c) \/ StoreStep(c)
    \/ \E q \in Queries : run_query(q)
    \/ \E e \in Executions : GoIdle(e)
    \/ shutdown

Spec == Init /\ [][Next]_vars

\* Threads run, and somebody goes on using the store.
Fairness ==
    /\ \A t \in Threads : WF_vars(EngineStep(t))
    /\ \A c \in Clients : WF_vars(StoreStep(c))
    /\ WF_vars(\E c \in Clients : Begin(c))

FairSpec == Spec /\ Fairness

---------------------------------------------------------------------------
(* What step mode promises.                                                *)

InOwnController(t) == thread[t].on \in {t, NoOne}

\* A query that is paused stopped where the last resume, or step mode itself,
\* said it should, and says why: a pause never carries the mode or the reason
\* of an earlier one, whoever resumed it and however late the thread woke.
PauseIsAsked ==
    \A e \in Executions :
        LET k == ctrl[e] IN
        IF k.state = "paused"
        THEN /\ k.reason # <<>> /\ k.reason[1] \in STOPS_AT[k.mode]
             /\ k.mode = "until_operator" => k.reason[2] = k.until
        ELSE k.reason = <<>>

\* The engine thread of an execution nobody can name any more (it was evicted,
\* or the store was shut down) is not left waiting in its own checkpoint: it
\* has been told to stop; and at most max_executions can be named.
EvictedIsCancelled ==
    /\ TypeOK /\ Len(registry) <= MaxExecutions
    /\ \A e \in Executions :
        At(e, "paused") /\ thread[e].on = e /\ e \notin ToSet(registry) => ctrl[e].cancel

\* No orphaned threads: no thread at all waits, with the database lock, in the
\* controller of an execution that is out of the registry and not cancelled,
\* where no call of the API can wake it.
NoOrphanedThreads ==
    \A t \in Threads :
        At(t, "paused") /\ thread[t].on \notin ToSet(registry) => released(thread[t].on)

\* Cancelling the execution that holds the database lock gets the lock back,
\* wherever its thread is, unless that thread is stopped in the controller of
\* another execution. (A lock passes from one thread to another by being free.)
CancelFreesLock ==
    (lock \in Executions /\ ctrl[lock].cancel) ~> (lock = NoOne \/ ~InOwnController(lock))

\* When every client has gone away, the store alone ends every execution: each
\* is cancelled, gets the lock in its turn, unwinds and lets go of it.
AbandonedDrains ==
    <>[](/\ \A e \in ToSet(registry) : Live(e) => e \in idle
         /\ \A t \in Threads : InOwnController(t))
        => <>[](\A e \in Executions : ~Live(e))
=============================================================================

--------------------------- MODULE StepModeProofs ---------------------------
(***************************************************************************)
(* Stepped executions for any number of executions, queries, clients and   *)
(* operators. A pause says why because only checkpoint and record make     *)
(* one, under the controller's mutex; an evicted execution is told to stop *)
(* because it is over only when its thread is.                             *)
(***************************************************************************)
EXTENDS StepMode, SequenceFacts

PCs == {"none", "lock", "start", "plan", "open", "run", "deliver", "paused",
        "release", "unsubscribe", "finish", "done"}
ThreadStates == [pc : PCs, work : 0 .. MaxSteps, on : Executions \union {NoOne},
                 via : {"call"} \union EventKinds, todo : Seq(Executions)]
Reasons == {<<>>} \union (StepKinds \X (Operators \union {NoOperator}))
Controllers == [state : {"pending", "running", "paused", ENDED}, armed : BOOLEAN,
                mode : DOMAIN STOPS_AT, until : Operators \union {NoOperator},
                cancel : BOOLEAN, reason : Reasons]
ClientStates == [phase : {"free", "reap", "act", "wait"}, op : Operations,
                 of : Executions \union {NoOne}, stale : SUBSET Executions]

\* A controller reports its end only when its thread is through.
EndedIsDone == \A e \in Executions : ctrl[e].state = ENDED => thread[e].pc = "done"

\* An execution whose thread is alive is in the registry, or told to stop.
LiveIsKnown ==
    \A e \in Executions :
        thread[e].pc \notin {"none", "done"} /\ (\A k \in 1 .. Len(registry) : registry[k] # e)
            => ctrl[e].cancel

\* A thread that delivers an event has a sink to deliver it to.
DeliversToSomebody == \A t \in Threads : thread[t].pc = "deliver" => thread[t].todo # <<>>

\* A client that has something to do does it to an execution.
ActsOnSomebody == \A c \in Clients : call[c].phase = "act" => call[c].of \in Executions

IInv ==
    /\ TypeOK
    /\ Len(registry) <= MaxExecutions
    /\ PauseIsAsked
    /\ EndedIsDone
    /\ LiveIsKnown
    /\ DeliversToSomebody
    /\ ActsOnSomebody

---------------------------------------------------------------------------
(* Types.                                                                  *)

\* The type invariant, with its sets named.
LEMMA Types ==
    TypeOK <=> /\ ctrl \in [Executions -> Controllers]
               /\ thread \in [Threads -> ThreadStates]
               /\ lock \in Threads \union {NoOne}
               /\ sinks \in Seq(Executions)
               /\ registry \in Seq(Executions)
               /\ idle \subseteq Executions
               /\ call \in [Clients -> ClientStates]
               /\ up \in BOOLEAN
BY DEF TypeOK, Controllers, ThreadStates, ClientStates, PCs, Reasons

\* The same after a step.
LEMMA TypesAfter ==
    TypeOK' <=> /\ ctrl' \in [Executions -> Controllers]
                /\ thread' \in [Threads -> ThreadStates]
                /\ lock' \in Threads \union {NoOne}
                /\ sinks' \in Seq(Executions)
                /\ registry' \in Seq(Executions)
                /\ idle' \subseteq Executions
                /\ call' \in [Clients -> ClientStates]
                /\ up' \in BOOLEAN
BY DEF TypeOK, Controllers, ThreadStates, ClientStates, PCs, Reasons

\* What is checked of one controller.
Asked(k) ==
    IF k.state = "paused"
    THEN /\ k.reason # <<>> /\ k.reason[1] \in STOPS_AT[k.mode]
         /\ k.mode = "until_operator" => k.reason[2] = k.until
    ELSE k.reason = <<>>

\* PauseIsAsked is that of every controller.
LEMMA AskedOfAll == PauseIsAsked <=> \A e \in Executions : Asked(ctrl[e])
BY DEF PauseIsAsked, Asked

\* The same after a step.
LEMMA AskedOfAllAfter == PauseIsAsked' <=> \A e \in Executions : Asked(ctrl'[e])
BY DEF PauseIsAsked, Asked

\* What a call may do to a controller: if it is paused it says why, it stays
\* cancelled, and it does not end.
Moves(k, j) ==
    /\ j \in Controllers /\ Asked(j)
    /\ k.cancel => j.cancel
    /\ j.state = ENDED => k.state = ENDED

\* Cancelling a controller leaves the rest of it.
LEMMA CancelMoves ==
    ASSUME IInv, NEW E, ctrl' = cancel(E)
    PROVE  /\ \A e \in Executions : Moves(ctrl[e], ctrl'[e]) /\ ctrl'[e].state = ctrl[e].state
           /\ ctrl' \in [Executions -> Controllers]
           /\ \A e \in Executions : e \in E /\ ctrl[e].state # ENDED => ctrl'[e].cancel
<1>1. ctrl \in [Executions -> Controllers] /\ \A e \in Executions : Asked(ctrl[e])
  BY Types, AskedOfAll DEF IInv
<1>2. ASSUME NEW k \in Controllers, Asked(k)
      PROVE  /\ [k EXCEPT !.cancel = TRUE] \in Controllers /\ Asked([k EXCEPT !.cancel = TRUE])
             /\ [k EXCEPT !.cancel = TRUE].cancel /\ [k EXCEPT !.cancel = TRUE].state = k.state
  BY <1>2 DEF Controllers, Asked
<1>3. \A e \in Executions : ctrl'[e] = IF e \in E /\ ctrl[e].state # ENDED
                                       THEN [ctrl[e] EXCEPT !.cancel = TRUE] ELSE ctrl[e]
  BY DEF cancel, is_terminal
<1>4. ASSUME NEW e \in Executions
      PROVE  /\ Moves(ctrl[e], ctrl'[e]) /\ ctrl'[e].state = ctrl[e].state
             /\ e \in E /\ ctrl[e].state # ENDED => ctrl'[e].cancel
  BY <1>1, <1>2, <1>3 DEF Moves
<1>5. ctrl' = [e \in Executions |-> ctrl'[e]]
  BY DEF cancel
<1> QED BY <1>4, <1>5 DEF Moves

\* Every mode is one of six, and stops at kinds of checkpoint that exist.
LEMMA ModeFacts ==
    /\ \A m \in DOMAIN STOPS_AT : STOPS_AT[m] \subseteq StepKinds
    /\ "step" \in DOMAIN STOPS_AT
    /\ \A m \in Modes : m \in DOMAIN STOPS_AT
<1>1. DOMAIN STOPS_AT = {"step", "continue", "until_row", "until_page_read", "until_operator",
                         "until_index_operation"}
  BY DEF STOPS_AT
<1>2. /\ STOPS_AT["step"] = StepKinds /\ STOPS_AT["continue"] = {}
      /\ STOPS_AT["until_row"] = {"row_emitted"}
      /\ STOPS_AT["until_page_read"] = {"page_read"}
      /\ STOPS_AT["until_operator"] = {"operator_next"}
      /\ STOPS_AT["until_index_operation"] = {"index_operation"}
  BY DEF STOPS_AT
<1>3. {"row_emitted", "page_read", "operator_next", "index_operation"} \subseteq StepKinds
  BY DEF StepKinds, EventKinds, CallKinds
<1> QED BY <1>1, <1>2, <1>3, ModesAssumption

---------------------------------------------------------------------------
(* The engine thread.                                                      *)

\* What a step may do to the controllers: a pause says why, a cancellation is
\* not taken back, and only a thread that is through reports its end.
ControllersMove ==
    /\ ctrl' \in [Executions -> Controllers]
    /\ \A e \in Executions :
          /\ Asked(ctrl'[e])
          /\ ctrl[e].cancel => ctrl'[e].cancel
          /\ ctrl'[e].state = ENDED => ctrl[e].state = ENDED \/ thread'[e].pc = "done"

\* Controllers that stay as they are.
LEMMA ControllersStay ==
    ASSUME IInv, ctrl' = ctrl
    PROVE  ControllersMove
BY Types, AskedOfAll DEF IInv, ControllersMove

\* One controller that changes.
LEMMA OneController ==
    ASSUME IInv, NEW e \in Executions, NEW k \in Controllers, Asked(k),
           ctrl[e].cancel => k.cancel,
           k.state = ENDED => ctrl[e].state = ENDED \/ thread'[e].pc = "done",
           ctrl' = [ctrl EXCEPT ![e] = k]
    PROVE  ControllersMove
<1>1. ctrl \in [Executions -> Controllers] /\ \A x \in Executions : Asked(ctrl[x])
  BY Types, AskedOfAll DEF IInv
<1>2. \A x \in Executions : ctrl'[x] = IF x = e THEN k ELSE ctrl[x]
  BY <1>1
<1> QED BY <1>1, <1>2 DEF ControllersMove

\* A thread t that is alive moves to the state `new`.
ThreadMoves(t, new) ==
    /\ new \in ThreadStates
    /\ thread' = [thread EXCEPT ![t] = new]
    /\ thread[t].pc \notin {"none", "done"}
    /\ new.pc # "none"
    /\ new.pc = "deliver" => new.todo # <<>>

\* A step of an engine thread preserves the invariant: it neither wakes the
\* dead nor touches the registry.
LEMMA EngineInv ==
    ASSUME IInv, NEW t \in Threads, NEW new, ThreadMoves(t, new), ControllersMove,
           lock' \in Threads \union {NoOne}, sinks' \in Seq(Executions),
           UNCHANGED <<registry, idle, call, up>>
    PROVE  IInv'
<1>0. /\ TypeOK /\ EndedIsDone /\ LiveIsKnown /\ DeliversToSomebody /\ ActsOnSomebody
      /\ Len(registry) <= MaxExecutions
  BY DEF IInv
<1>1. thread \in [Threads -> ThreadStates] /\ Executions \subseteq Threads
  BY <1>0, Types DEF Threads
<1>2. \A u \in Threads : thread'[u] = IF u = t THEN new ELSE thread[u]
  BY <1>1 DEF ThreadMoves
<1>3. thread' \in [Threads -> ThreadStates]
  BY <1>1 DEF ThreadMoves
<1>4. TypeOK'
  BY <1>0, <1>3, Types, TypesAfter DEF ControllersMove
<1>5. PauseIsAsked'
  BY AskedOfAllAfter DEF ControllersMove
<1>6. EndedIsDone'
  BY <1>0, <1>1, <1>2 DEF EndedIsDone, ControllersMove, ThreadMoves
<1>7. LiveIsKnown'
  BY <1>0, <1>1, <1>2 DEF LiveIsKnown, ControllersMove, ThreadMoves
<1>8. DeliversToSomebody'
  BY <1>0, <1>2 DEF DeliversToSomebody, ThreadMoves
<1>9. ActsOnSomebody'
  BY <1>0 DEF ActsOnSomebody
<1> QED BY <1>0, <1>4, <1>5, <1>6, <1>7, <1>8, <1>9 DEF IInv

\* A thread that starts and one that has unwound.
LEMMA NewThreadType ==
    /\ NewThread \in ThreadStates /\ Unwound \in ThreadStates /\ Unwound.pc = "release"
    /\ [NewThread EXCEPT !.pc = "done"] \in ThreadStates
    /\ [NewThread EXCEPT !.pc = "done"].pc = "done"
<1>1. NewThread \in ThreadStates
  <2>1. 0 \in 0 .. MaxSteps /\ <<>> \in Seq(Executions)
    BY StepModeAssumption
  <2> QED BY <2>1 DEF NewThread, ThreadStates, PCs
<1>2. ASSUME NEW w \in ThreadStates, NEW pc \in PCs
      PROVE  [w EXCEPT !.pc = pc] \in ThreadStates /\ [w EXCEPT !.pc = pc].pc = pc
  BY DEF ThreadStates
<1>3. "release" \in PCs /\ "done" \in PCs
  BY DEF PCs
<1> QED BY <1>1, <1>2, <1>3 DEF Unwound

\* The thread and the controllers have their types, and a pause is asked for.
LEMMA Known ==
    ASSUME IInv
    PROVE  /\ ctrl \in [Executions -> Controllers] /\ thread \in [Threads -> ThreadStates]
           /\ lock \in Threads \union {NoOne} /\ sinks \in Seq(Executions)
           /\ registry \in Seq(Executions) /\ call \in [Clients -> ClientStates]
           /\ \A t \in Threads : thread[t] \in ThreadStates /\ thread[t].todo \in Seq(Executions)
           /\ \A e \in Executions : ctrl[e] \in Controllers /\ Asked(ctrl[e]) /\ e \in Threads
<1>1. TypeOK /\ PauseIsAsked
  BY DEF IInv
<1>2. /\ ctrl \in [Executions -> Controllers] /\ thread \in [Threads -> ThreadStates]
      /\ lock \in Threads \union {NoOne} /\ sinks \in Seq(Executions)
      /\ registry \in Seq(Executions) /\ call \in [Clients -> ClientStates]
  BY <1>1, Types
<1>3. \A w \in ThreadStates : w.todo \in Seq(Executions)
  BY DEF ThreadStates
<1> QED BY <1>1, <1>2, <1>3, AskedOfAll DEF Threads

\* A thread goes on to another place.
LEMMA GoesOn ==
    ASSUME IInv, NEW t \in Threads, NEW pc \in PCs \ {"none", "deliver"},
           thread[t].pc \notin {"none", "done"}, GoesTo(t, pc)
    PROVE  ThreadMoves(t, [thread[t] EXCEPT !.pc = pc])
<1> DEFINE new == [thread[t] EXCEPT !.pc = pc]
<1>1. thread[t] \in ThreadStates
  BY Known
<1>2. new \in ThreadStates /\ new.pc = pc
  BY <1>1 DEF ThreadStates
<1>3. thread' = [thread EXCEPT ![t] = new]
  BY DEF GoesTo
<1> HIDE DEF new
<1>4. ThreadMoves(t, new)
  BY <1>2, <1>3 DEF ThreadMoves
<1> QED BY <1>4 DEF new

\* A thread unwinds.
LEMMA UnwindsMoves ==
    ASSUME IInv, NEW t \in Threads, thread[t].pc \notin {"none", "done"}, Unwinds(t)
    PROVE  ThreadMoves(t, Unwound)
BY NewThreadType DEF ThreadMoves, Unwinds

\* Taking the lock of the database.
LEMMA UseInv ==
    ASSUME IInv, NEW t \in Threads, Use(t)
    PROVE  IInv'
<1>1. ThreadMoves(t, [thread[t] EXCEPT !.pc = "start"])
  BY GoesOn DEF Use, At, PCs
<1>2. ControllersMove
  BY ControllersStay DEF Use
<1> QED BY <1>1, <1>2, EngineInv, Known DEF Use, store

\* The execution reports that it runs.
LEMMA mark_runningInv ==
    ASSUME IInv, NEW e \in Executions, mark_running(e)
    PROVE  IInv'
<1>0. e \in Threads
  BY DEF Threads
<1>1. ThreadMoves(e, [thread[e] EXCEPT !.pc = "plan"])
  BY <1>0, GoesOn DEF mark_running, At, PCs
<1>2. ControllersMove
  <2>1. CASE ctrl[e].state = "pending"
    <3> DEFINE k == [ctrl[e] EXCEPT !.state = "running"]
    <3>1. k \in Controllers /\ Asked(k) /\ k.cancel = ctrl[e].cancel /\ k.state = "running"
      BY <2>1, Known DEF Controllers, Asked
    <3>2. ctrl' = [ctrl EXCEPT ![e] = k]
      BY <2>1 DEF mark_running
    <3> HIDE DEF k
    <3> QED BY <3>1, <3>2, OneController DEF ENDED
  <2>2. CASE ctrl[e].state # "pending"
    BY <2>2, ControllersStay DEF mark_running
  <2> QED BY <2>1, <2>2
<1> QED BY <1>0, <1>1, <1>2, EngineInv, Known DEF mark_running, store

\* A statement that never arms its controller.
LEMMA RunsUnarmedInv ==
    ASSUME IInv, NEW e \in Executions, RunsUnarmed(e)
    PROVE  IInv'
<1>0. e \in Threads
  BY DEF Threads
<1>1. ThreadMoves(e, Unwound)
  BY <1>0, UnwindsMoves DEF RunsUnarmed, At
<1>2. ControllersMove
  BY ControllersStay DEF RunsUnarmed
<1> QED BY <1>0, <1>1, <1>2, EngineInv, Known DEF RunsUnarmed, store

\* The plan is known.
LEMMA armInv ==
    ASSUME IInv, NEW e \in Executions, arm(e)
    PROVE  IInv'
<1>0. e \in Threads
  BY DEF Threads
<1>1. ThreadMoves(e, [thread[e] EXCEPT !.pc = "open"])
  BY <1>0, GoesOn DEF arm, At, PCs
<1>2. ControllersMove
  <2> DEFINE k == [ctrl[e] EXCEPT !.armed = TRUE]
  <2>1. /\ k \in Controllers /\ Asked(k) /\ k.cancel = ctrl[e].cancel
        /\ k.state = ctrl[e].state
    BY Known DEF Controllers, Asked
  <2>2. ctrl' = [ctrl EXCEPT ![e] = k]
    BY DEF arm
  <2> HIDE DEF k
  <2> QED BY <2>1, <2>2, OneController
<1> QED BY <1>0, <1>1, <1>2, EngineInv, Known DEF arm, store

\* A controller pauses: it says why.
LEMMA PausedMoves ==
    ASSUME IInv, NEW e \in Executions, NEW kind, NEW op \in Operators \union {NoOperator},
           should_pause(e, kind, op), ctrl' = Paused(e, kind, op)
    PROVE  ControllersMove
<1> DEFINE k == [ctrl[e] EXCEPT !.state = "paused", !.reason = <<kind, op>>]
<1>0. ctrl[e] \in Controllers
  BY Known
<1>3. kind \in STOPS_AT[ctrl[e].mode] /\ (ctrl[e].mode = "until_operator" => op = ctrl[e].until)
  BY DEF should_pause
<1>1. k \in Controllers /\ Asked(k) /\ k.cancel = ctrl[e].cancel /\ k.state = "paused"
  <2> DEFINE was == ctrl[e]
             now == [was EXCEPT !.state = "paused", !.reason = <<kind, op>>]
  <2>1. /\ was \in Controllers /\ kind \in STOPS_AT[was.mode]
        /\ was.mode = "until_operator" => op = was.until
    BY <1>0, <1>3
  <2>2. now = [was EXCEPT !.state = "paused", !.reason = <<kind, op>>]
    OBVIOUS
  <2> HIDE DEF was, now
  <2>3. kind \in StepKinds
    BY <2>1, ModeFacts DEF Controllers
  <2>4. <<kind, op>> \in Reasons /\ <<kind, op>> # <<>>
    BY <2>3 DEF Reasons
  <2>5. /\ now \in Controllers /\ now.cancel = was.cancel /\ now.state = "paused"
        /\ now.mode = was.mode /\ now.until = was.until /\ now.reason = <<kind, op>>
    BY <2>1, <2>2, <2>4 DEF Controllers
  <2>6. Asked(now)
    BY <2>1, <2>4, <2>5 DEF Asked
  <2> QED BY <2>5, <2>6 DEF was, now
<1>2. ctrl' = [ctrl EXCEPT ![e] = k]
  BY DEF Paused
<1> HIDE DEF k
<1> QED BY <1>1, <1>2, OneController DEF ENDED

\* A thread does one piece of its work.
LEMMA WorkFacts ==
    ASSUME NEW w \in ThreadStates, NEW t, w.work < StepLimit(t)
    PROVE  w.work + 1 \in 0 .. MaxSteps
<1>1. StepLimit(t) \in Nat /\ StepLimit(t) <= MaxSteps /\ MaxSteps \in Nat
  BY StepModeAssumption DEF StepLimit
<1> QED BY <1>1 DEF ThreadStates

\* An operator calls checkpoint.
LEMMA checkpointInv ==
    ASSUME IInv, NEW e \in Executions, NEW kind, NEW op \in Operators, checkpoint(e, kind, op)
    PROVE  IInv'
<1>0. e \in Threads /\ thread[e] \in ThreadStates /\ thread[e].pc \notin {"none", "done"}
  BY Known DEF Threads, checkpoint, At
<1>1. thread[e].work + 1 \in 0 .. MaxSteps
  BY <1>0, WorkFacts DEF checkpoint
<1>2. PICK new : ThreadMoves(e, new) /\ ControllersMove
  <2>1. CASE ctrl[e].cancel
    BY <1>0, <2>1, UnwindsMoves, ControllersStay DEF checkpoint
  <2>2. CASE ~ctrl[e].cancel /\ should_pause(e, kind, op)
    <3> DEFINE w == [thread[e] EXCEPT !.pc = "paused", !.on = e, !.via = "call", !.work = @ + 1]
    <3>1. thread' = [thread EXCEPT ![e] = w]
      BY <2>2 DEF checkpoint
    <3>2. w \in ThreadStates /\ w.pc = "paused"
      BY <1>0, <1>1 DEF ThreadStates, PCs
    <3> HIDE DEF w
    <3>3. ControllersMove
      BY <2>2, PausedMoves DEF checkpoint
    <3> QED BY <1>0, <3>1, <3>2, <3>3 DEF ThreadMoves
  <2>3. CASE ~ctrl[e].cancel /\ ~should_pause(e, kind, op)
    <3> DEFINE w == [thread[e] EXCEPT !.pc = "run", !.work = @ + 1]
    <3>1. thread' = [thread EXCEPT ![e] = w]
      BY <2>3 DEF checkpoint
    <3>2. w \in ThreadStates /\ w.pc = "run"
      BY <1>0, <1>1 DEF ThreadStates, PCs
    <3> HIDE DEF w
    <3>3. ControllersMove
      BY <2>3, ControllersStay DEF checkpoint
    <3> QED BY <1>0, <3>1, <3>2, <3>3 DEF ThreadMoves
  <2> QED BY <2>1, <2>2, <2>3
<1> QED BY <1>0, <1>2, EngineInv, Known DEF checkpoint, store

\* The fanout copies its list.
LEMMA EmitInv ==
    ASSUME IInv, NEW t \in Threads, NEW kind \in EventKinds, Emit(t, kind)
    PROVE  IInv'
<1> DEFINE w == [thread[t] EXCEPT !.pc = "deliver", !.via = kind, !.todo = sinks, !.work = @ + 1]
<1>0. thread[t] \in ThreadStates /\ thread[t].pc \notin {"none", "done"} /\ sinks \in Seq(Executions)
  BY Known DEF Emit, At
<1>1. thread[t].work + 1 \in 0 .. MaxSteps
  BY <1>0, WorkFacts DEF Emit
<1>2. w \in ThreadStates /\ w.pc = "deliver" /\ w.todo = sinks
  BY <1>0, <1>1 DEF ThreadStates, PCs
<1>3. thread' = [thread EXCEPT ![t] = w]
  BY DEF Emit
<1> HIDE DEF w
<1>4. ThreadMoves(t, w)
  BY <1>0, <1>2, <1>3 DEF ThreadMoves, Emit
<1>5. ControllersMove
  BY ControllersStay DEF Emit
<1> QED BY <1>4, <1>5, EngineInv, Known DEF Emit, store

\* A thread through with a sink goes on with the next one, or with its query.
LEMMA DeliveredFacts ==
    ASSUME NEW w \in ThreadStates
    PROVE  /\ Delivered(w) \in ThreadStates
           /\ Delivered(w).pc \in {"deliver", "run"}
           /\ Delivered(w).pc = "deliver" => Delivered(w).todo # <<>>
<1>1. CASE w.todo # <<>>
  <2> DEFINE d == [w EXCEPT !.pc = "deliver"]
  <2>1. d \in ThreadStates /\ d.pc = "deliver" /\ d.todo = w.todo
    BY DEF ThreadStates, PCs
  <2>2. Delivered(w) = d
    BY <1>1 DEF Delivered
  <2> HIDE DEF d
  <2> QED BY <1>1, <2>1, <2>2
<1>2. CASE w.todo = <<>>
  <2> DEFINE d == [w EXCEPT !.pc = "run", !.via = "call"]
  <2>1. d \in ThreadStates /\ d.pc = "run"
    BY DEF ThreadStates, PCs
  <2>2. Delivered(w) = d
    BY <1>2 DEF Delivered
  <2> HIDE DEF d
  <2> QED BY <2>1, <2>2
<1> QED BY <1>1, <1>2

\* A controller records an event.
LEMMA recordInv ==
    ASSUME IInv, NEW t \in Threads, record(t)
    PROVE  IInv'
<1> DEFINE e == Head(thread[t].todo)
           left == [thread[t] EXCEPT !.todo = Tail(@)]
           pauses == /\ ctrl[e].armed /\ ~ctrl[e].cancel
                     /\ should_pause(e, thread[t].via, NoOperator)
           on == [left EXCEPT !.pc = "paused", !.on = e]
<1>0. /\ thread[t] \in ThreadStates /\ thread[t].pc = "deliver"
      /\ thread[t].todo \in Seq(Executions)
  BY Known DEF record, At
<1>1. thread[t].todo # <<>>
  BY <1>0 DEF IInv, DeliversToSomebody
<1>2. e \in Executions /\ Tail(thread[t].todo) \in Seq(Executions)
  BY <1>0, <1>1, HeadTailProperties
<1>3. left \in ThreadStates
  BY <1>0, <1>2 DEF ThreadStates
<1>4. /\ ctrl' = IF pauses THEN Paused(e, thread[t].via, NoOperator) ELSE ctrl
      /\ thread' = [thread EXCEPT ![t] = IF pauses THEN on ELSE Delivered(left)]
  BY DEF record
<1>5. on \in ThreadStates /\ on.pc = "paused"
  <2> HIDE DEF left, e
  <2> QED BY <1>2, <1>3 DEF ThreadStates, PCs
<1>6. PICK new : ThreadMoves(t, new) /\ ControllersMove
  <2>1. CASE pauses
    <3>1. ctrl' = Paused(e, thread[t].via, NoOperator) /\ should_pause(e, thread[t].via, NoOperator)
      BY <1>4, <2>1
    <3>2. thread' = [thread EXCEPT ![t] = on]
      BY <1>4, <2>1
    <3> HIDE DEF on, e, pauses, left
    <3>3. ControllersMove
      BY <1>2, <3>1, PausedMoves
    <3> QED BY <1>0, <1>5, <3>2, <3>3 DEF ThreadMoves
  <2>2. CASE ~pauses
    <3>1. ctrl' = ctrl /\ thread' = [thread EXCEPT ![t] = Delivered(left)]
      BY <1>4, <2>2
    <3> HIDE DEF on, e, pauses, left
    <3>2. ControllersMove
      BY <3>1, ControllersStay
    <3>3. /\ Delivered(left) \in ThreadStates
          /\ Delivered(left).pc \in {"deliver", "run"}
          /\ Delivered(left).pc = "deliver" => Delivered(left).todo # <<>>
      BY <1>3, DeliveredFacts
    <3> QED BY <1>0, <3>1, <3>2, <3>3 DEF ThreadMoves
  <2> QED BY <2>1, <2>2
<1> QED BY <1>6, EngineInv, Known DEF record, store

\* A thread leaves a checkpoint.
LEMMA WakeInv ==
    ASSUME IInv, NEW t \in Threads, Wake(t)
    PROVE  IInv'
<1> DEFINE e == thread[t].on
           awake == [thread[t] EXCEPT !.on = NoOne]
           back == [awake EXCEPT !.pc = "run"]
           new == IF thread[t].via # "call" THEN Delivered(awake)
                  ELSE IF ctrl[e].cancel THEN Unwound ELSE back
<1>0. thread[t] \in ThreadStates /\ thread[t].pc = "paused"
  BY Known DEF Wake, At
<1>1. awake \in ThreadStates
  BY <1>0 DEF ThreadStates
<1>2. thread' = [thread EXCEPT ![t] = new]
  BY DEF Wake
<1>3. back \in ThreadStates /\ back.pc = "run"
  <2> HIDE DEF awake
  <2> QED BY <1>1 DEF ThreadStates, PCs
<1>4. new \in ThreadStates /\ new.pc # "none" /\ (new.pc = "deliver" => new.todo # <<>>)
  <2> HIDE DEF awake, back
  <2>1. /\ Delivered(awake) \in ThreadStates
        /\ Delivered(awake).pc \in {"deliver", "run"}
        /\ Delivered(awake).pc = "deliver" => Delivered(awake).todo # <<>>
    BY <1>1, DeliveredFacts
  <2> QED BY <1>3, <2>1, NewThreadType
<1> HIDE DEF new
<1>5. ThreadMoves(t, new)
  BY <1>0, <1>2, <1>4 DEF ThreadMoves
<1>6. ControllersMove
  BY ControllersStay DEF Wake
<1> QED BY <1>5, <1>6, EngineInv, Known DEF Wake, store

\* A statement is over.
LEMMA EndsInv ==
    ASSUME IInv, NEW t \in Threads, Ends(t)
    PROVE  IInv'
<1>1. ThreadMoves(t, Unwound)
  BY UnwindsMoves DEF Ends, At
<1>2. ControllersMove
  BY ControllersStay DEF Ends
<1> QED BY <1>1, <1>2, EngineInv, Known DEF Ends, store

\* Letting go of the lock.
LEMMA ReleaseInv ==
    ASSUME IInv, NEW t \in Threads, Release(t)
    PROVE  IInv'
<1> DEFINE pc == IF t \in Queries THEN "done" ELSE "unsubscribe"
<1>1. GoesTo(t, pc)
  BY DEF Release, GoesTo
<1>2. pc \in PCs \ {"none", "deliver"}
  BY DEF PCs
<1> HIDE DEF pc
<1>3. ThreadMoves(t, [thread[t] EXCEPT !.pc = pc])
  BY <1>1, <1>2, GoesOn DEF Release, At
<1>4. ControllersMove
  BY ControllersStay DEF Release
<1> QED BY <1>3, <1>4, EngineInv, Known DEF Release, store

\* The controller leaves the fanout.
LEMMA unsubscribeInv ==
    ASSUME IInv, NEW e \in Executions, unsubscribe(e)
    PROVE  IInv'
<1>0. e \in Threads
  BY DEF Threads
<1>1. ThreadMoves(e, [thread[e] EXCEPT !.pc = "finish"])
  BY <1>0, GoesOn DEF unsubscribe, At, PCs
<1>2. ControllersMove
  BY ControllersStay DEF unsubscribe
<1>3. sinks' \in Seq(Executions)
  <2>1. sinks \in Seq(Executions) /\ sinks' = RemoveFirst(sinks, e)
    BY Known DEF unsubscribe
  <2> QED BY <2>1, RemoveFirstFacts, RemoveAtFacts
<1> QED BY <1>0, <1>1, <1>2, <1>3, EngineInv, Known DEF unsubscribe, store

\* The execution reports its end; its thread is through.
LEMMA mark_finishedInv ==
    ASSUME IInv, NEW e \in Executions, mark_finished(e)
    PROVE  IInv'
<1> DEFINE new == [NewThread EXCEPT !.pc = "done"]
<1>0. e \in Threads /\ thread \in [Threads -> ThreadStates]
  BY Known DEF Threads
<1>1. new \in ThreadStates /\ new.pc = "done"
  BY NewThreadType
<1>2. thread' = [thread EXCEPT ![e] = new]
  BY DEF mark_finished
<1> HIDE DEF new
<1>3. ThreadMoves(e, new) /\ thread'[e].pc = "done"
  BY <1>0, <1>1, <1>2 DEF ThreadMoves, mark_finished, At
<1>4. ControllersMove
  <2> DEFINE k == [ctrl[e] EXCEPT !.state = ENDED, !.reason = <<>>]
  <2>1. k \in Controllers /\ Asked(k) /\ k.cancel = ctrl[e].cancel
    <3> DEFINE was == ctrl[e]
               now == [was EXCEPT !.state = ENDED, !.reason = <<>>]
    <3>1. was \in Controllers
      BY Known
    <3> HIDE DEF was
    <3>2. /\ now \in Controllers /\ now.cancel = was.cancel
          /\ now.state # "paused" /\ now.reason = <<>>
      BY <3>1 DEF Controllers, Reasons, ENDED
    <3> HIDE DEF now
    <3>3. Asked(now)
      BY <3>2 DEF Asked
    <3> QED BY <3>2, <3>3 DEF was, now
  <2>2. ctrl' = [ctrl EXCEPT ![e] = k]
    BY DEF mark_finished
  <2> HIDE DEF k
  <2> QED BY <1>3, <2>1, <2>2, OneController
<1> QED BY <1>0, <1>3, <1>4, EngineInv, Known DEF mark_finished, store

\* A step of an engine thread.
LEMMA EngineStepInv ==
    ASSUME IInv, NEW t \in Threads, EngineStep(t)
    PROVE  IInv'
<1>1. CASE Use(t) \/ record(t) \/ Wake(t) \/ Ends(t) \/ Release(t)
  BY <1>1, UseInv, recordInv, WakeInv, EndsInv, ReleaseInv
<1>2. CASE \E kind \in Kinds \intersect EventKinds : Emit(t, kind)
  BY <1>2, EmitInv
<1>3. CASE t \in Executions /\ (mark_running(t) \/ RunsUnarmed(t) \/ arm(t))
  BY <1>3, mark_runningInv, RunsUnarmedInv, armInv
<1>4. CASE t \in Executions /\ (unsubscribe(t) \/ mark_finished(t))
  BY <1>4, unsubscribeInv, mark_finishedInv
<1>5. CASE t \in Executions /\ \E kind \in Kinds \intersect CallKinds, op \in Operators :
                                  checkpoint(t, kind, op)
  BY <1>5, checkpointInv
<1> QED BY <1>1, <1>2, <1>3, <1>4, <1>5 DEF EngineStep

---------------------------------------------------------------------------
(* Calls on the store, and the surroundings.                               *)

\* A controller may be asked to stop or to go on, the registry may forget
\* executions that are over or told to stop, and no thread moves.
LEMMA StoreInv ==
    ASSUME IInv, ControllersMove, UNCHANGED <<thread, lock, sinks>>,
           registry' \in Seq(Executions), Len(registry') <= MaxExecutions,
           \A e \in Executions :
              \/ \E k \in 1 .. Len(registry') : registry'[k] = e
              \/ \A k \in 1 .. Len(registry) : registry[k] # e
              \/ ctrl'[e].cancel
              \/ thread[e].pc \in {"none", "done"},
           idle' \subseteq Executions, call' \in [Clients -> ClientStates], up' \in BOOLEAN,
           \A c \in Clients : call'[c].phase = "act" => call'[c].of \in Executions
    PROVE  IInv'
<1>0. TypeOK /\ EndedIsDone /\ LiveIsKnown /\ DeliversToSomebody
  BY DEF IInv
<1>1. TypeOK'
  BY <1>0, Types, TypesAfter DEF ControllersMove
<1>2. PauseIsAsked'
  BY AskedOfAllAfter DEF ControllersMove
<1>3. EndedIsDone'
  BY <1>0 DEF EndedIsDone, ControllersMove
<1>4. LiveIsKnown'
  BY <1>0 DEF LiveIsKnown, ControllersMove
<1>5. DeliversToSomebody' /\ ActsOnSomebody'
  BY <1>0 DEF DeliversToSomebody, ActsOnSomebody
<1> QED BY <1>1, <1>2, <1>3, <1>4, <1>5 DEF IInv

\* A call on the store that leaves the registry, and moves one client.
LEMMA ClientInv ==
    ASSUME IInv, ControllersMove, UNCHANGED <<thread, lock, sinks, registry, up>>,
           idle' \subseteq Executions, NEW c \in Clients, NEW new \in ClientStates,
           call' = [call EXCEPT ![c] = new],
           new.phase = "act" => new.of \in Executions
    PROVE  IInv'
<1>1. /\ registry \in Seq(Executions) /\ Len(registry) <= MaxExecutions /\ up \in BOOLEAN
      /\ call \in [Clients -> ClientStates]
      /\ ActsOnSomebody
  BY Types DEF IInv
<1>2. /\ call' \in [Clients -> ClientStates]
      /\ \A d \in Clients : call'[d] = IF d = c THEN new ELSE call[d]
  BY <1>1
<1>3. \A d \in Clients : call'[d].phase = "act" => call'[d].of \in Executions
  BY <1>1, <1>2 DEF ActsOnSomebody
<1>4. \A e \in Executions : \/ \E k \in 1 .. Len(registry') : registry'[k] = e
                            \/ \A k \in 1 .. Len(registry) : registry[k] # e
  OBVIOUS
<1> QED BY <1>1, <1>2, <1>3, <1>4, StoreInv

\* A cancellation moves controllers as a step may.
LEMMA CancelIsAMove ==
    ASSUME IInv, NEW E, ctrl' = cancel(E)
    PROVE  ControllersMove
BY CancelMoves DEF ControllersMove, Moves

\* A client that is idle, and a part of a client's state.
LEMMA ClientFacts ==
    /\ NoCall \in ClientStates /\ NoCall.phase = "free"
    /\ \A e \in Executions, op \in {"resume", "cancel"} :
          /\ [NoCall EXCEPT !.phase = "act", !.op = op, !.of = e] \in ClientStates
          /\ [NoCall EXCEPT !.phase = "act", !.op = op, !.of = e].of = e
    /\ \A w \in ClientStates, S \in SUBSET Executions :
          /\ [w EXCEPT !.stale = S] \in ClientStates
          /\ [w EXCEPT !.stale = S].phase = w.phase
          /\ [w EXCEPT !.phase = "reap", !.stale = S] \in ClientStates
          /\ [w EXCEPT !.phase = "reap", !.stale = S].phase = "reap"
    /\ \A w \in ClientStates :
          /\ w.stale \subseteq Executions /\ w.of \in Executions \union {NoOne}
          /\ [w EXCEPT !.phase = "wait"] \in ClientStates
          /\ [w EXCEPT !.phase = "wait"].phase = "wait"
<1>1. NoCall \in ClientStates /\ NoCall.phase = "free"
  BY DEF NoCall, ClientStates, Operations
<1>2. ASSUME NEW w \in ClientStates
      PROVE  /\ w.stale \subseteq Executions /\ w.of \in Executions \union {NoOne}
             /\ [w EXCEPT !.phase = "wait"] \in ClientStates
             /\ [w EXCEPT !.phase = "wait"].phase = "wait"
  BY DEF ClientStates
<1>3. ASSUME NEW w \in ClientStates, NEW S \in SUBSET Executions
      PROVE  /\ [w EXCEPT !.stale = S] \in ClientStates
             /\ [w EXCEPT !.stale = S].phase = w.phase
             /\ [w EXCEPT !.phase = "reap", !.stale = S] \in ClientStates
             /\ [w EXCEPT !.phase = "reap", !.stale = S].phase = "reap"
  BY DEF ClientStates
<1>4. ASSUME NEW w \in ClientStates, NEW e \in Executions, NEW op \in Operations
      PROVE  /\ [w EXCEPT !.phase = "act", !.op = op, !.of = e] \in ClientStates
             /\ [w EXCEPT !.phase = "act", !.op = op, !.of = e].of = e
  BY DEF ClientStates
<1>5. {"resume", "cancel"} \subseteq Operations
  BY DEF Operations
<1>6. \A e \in Executions, op \in {"resume", "cancel"} :
         /\ [NoCall EXCEPT !.phase = "act", !.op = op, !.of = e] \in ClientStates
         /\ [NoCall EXCEPT !.phase = "act", !.op = op, !.of = e].of = e
  BY <1>1, <1>4, <1>5
<1>7. \A w \in ClientStates, S \in SUBSET Executions :
         /\ [w EXCEPT !.stale = S] \in ClientStates
         /\ [w EXCEPT !.stale = S].phase = w.phase
         /\ [w EXCEPT !.phase = "reap", !.stale = S] \in ClientStates
         /\ [w EXCEPT !.phase = "reap", !.stale = S].phase = "reap"
  BY <1>3
<1>8. \A w \in ClientStates :
         /\ w.stale \subseteq Executions /\ w.of \in Executions \union {NoOne}
         /\ [w EXCEPT !.phase = "wait"] \in ClientStates
         /\ [w EXCEPT !.phase = "wait"].phase = "wait"
  BY <1>2
<1> QED BY <1>1, <1>6, <1>7, <1>8

\* A call begins: it notes what is stale.
LEMMA BeginInv ==
    ASSUME IInv, NEW c \in Clients, Begin(c)
    PROVE  IInv'
<1> DEFINE S == stale
           new == [call[c] EXCEPT !.phase = "reap", !.stale = S]
<1>0. call[c] \in ClientStates /\ registry \in Seq(Executions) /\ idle \subseteq Executions
  BY Types DEF IInv
<1>1. S \in SUBSET Executions
  BY <1>0 DEF stale
<1>2. new \in ClientStates /\ new.phase = "reap"
  <2> DEFINE w == call[c]
  <2>1. w \in ClientStates
    BY <1>0
  <2> HIDE DEF S, w
  <2>2. /\ [w EXCEPT !.phase = "reap", !.stale = S] \in ClientStates
        /\ [w EXCEPT !.phase = "reap", !.stale = S].phase = "reap"
    BY <1>1, <2>1 DEF ClientStates
  <2> QED BY <2>2 DEF w
<1>3. call' = [call EXCEPT ![c] = new]
  BY DEF Begin
<1> HIDE DEF new
<1>4. ControllersMove
  BY ControllersStay DEF Begin
<1> QED BY <1>0, <1>2, <1>3, <1>4, ClientInv DEF Begin, engine

\* One stale execution is told to stop.
LEMMA reapInv ==
    ASSUME IInv, NEW c \in Clients, reap(c)
    PROVE  IInv'
<1>1. PICK e \in call[c].stale : ctrl' = cancel({e}) /\ call' = [call EXCEPT ![c].stale = @ \ {e}]
  BY DEF reap
<1> DEFINE S == call[c].stale \ {e}
           new == [call[c] EXCEPT !.stale = S]
<1>0. call[c] \in ClientStates /\ idle \subseteq Executions
  BY Types DEF IInv
<1>2. S \in SUBSET Executions
  BY <1>0, ClientFacts
<1>3. new \in ClientStates /\ new.phase = "reap"
  <2> HIDE DEF S
  <2> QED BY <1>0, <1>2, ClientFacts DEF reap
<1>4. call' = [call EXCEPT ![c] = new]
  BY <1>1
<1> HIDE DEF new
<1>5. ControllersMove
  BY <1>1, CancelIsAMove
<1> QED BY <1>0, <1>3, <1>4, <1>5, ClientInv DEF reap, engine

\* A call that only reaps.
LEMMA ListedInv ==
    ASSUME IInv, NEW c \in Clients, Listed(c)
    PROVE  IInv'
<1>1. ControllersMove
  BY ControllersStay DEF Listed
<1> QED BY <1>1, ClientFacts, ClientInv, Types DEF Listed, engine, IInv

\* A call looks at an execution.
LEMMA getInv ==
    ASSUME IInv, NEW c \in Clients, NEW op \in {"get", "resume", "cancel"},
           NEW e \in Executions, get(c, op, e)
    PROVE  IInv'
<1> DEFINE acts == [NoCall EXCEPT !.phase = "act", !.op = op, !.of = e]
           new == IF op = "get" \/ (op = "resume" /\ is_terminal(e)) THEN NoCall ELSE acts
<1>1. new \in ClientStates /\ (new.phase = "act" => new.of \in Executions)
  <2>1. op # "get" => acts \in ClientStates /\ acts.of = e
    BY ClientFacts
  <2> HIDE DEF acts
  <2> QED BY <2>1, ClientFacts
<1>2. call' = [call EXCEPT ![c] = new] /\ idle' \subseteq idle
  BY DEF get
<1> HIDE DEF new
<1>3. ControllersMove
  BY ControllersStay DEF get
<1>4. idle \subseteq Executions
  BY Types DEF IInv
<1> QED BY <1>1, <1>2, <1>3, <1>4, ClientInv DEF get, engine

\* A client goes away with its answer.
LEMMA ReturnInv ==
    ASSUME IInv, NEW c \in Clients, Return(c)
    PROVE  IInv'
<1>1. ControllersMove
  BY ControllersStay DEF Return
<1>2. idle' \subseteq Executions
  BY Types DEF IInv, Return
<1> QED BY <1>1, <1>2, ClientFacts, ClientInv DEF Return, engine

\* A resumed controller has no reason to be paused.
LEMMA ResumeMoves ==
    ASSUME IInv, NEW e \in Executions, NEW mode \in Modes,
           NEW op \in Operators \union {NoOperator}, ctrl' = resume(e, mode, op)
    PROVE  ControllersMove
<1>1. CASE is_terminal(e)
  BY <1>1, ControllersStay DEF resume
<1>2. CASE ~is_terminal(e)
  <2> DEFINE k == [ctrl[e] EXCEPT !.mode = mode, !.until = op, !.reason = <<>>,
                                  !.state = "running"]
  <2>1. ctrl[e] \in Controllers /\ mode \in DOMAIN STOPS_AT
    BY Known, ModeFacts
  <2>2. /\ k \in Controllers /\ k.cancel = ctrl[e].cancel /\ k.state = "running"
        /\ k.reason = <<>>
    BY <2>1 DEF Controllers, Reasons
  <2>3. ctrl' = [ctrl EXCEPT ![e] = k]
    BY <1>2 DEF resume
  <2> HIDE DEF k
  <2>4. Asked(k)
    BY <2>2 DEF Asked
  <2> QED BY <2>2, <2>3, <2>4, OneController DEF ENDED
<1> QED BY <1>1, <1>2

\* A client resumes an execution, or cancels it.
LEMMA ActInv ==
    ASSUME IInv, NEW c \in Clients, Act(c)
    PROVE  IInv'
<1> DEFINE e == call[c].of
           new == [call[c] EXCEPT !.phase = "wait"]
<1>0. call[c] \in ClientStates /\ idle \subseteq Executions
  BY Types DEF IInv
<1>1. e \in Executions
  BY DEF IInv, ActsOnSomebody, Act
<1>2. new \in ClientStates /\ new.phase = "wait"
  BY <1>0, ClientFacts
<1>3. call' = [call EXCEPT ![c] = new]
  BY DEF Act
<1>4. \/ ctrl' = cancel({e})
      \/ \E mode \in Modes, op \in Operators \union {NoOperator} : ctrl' = resume(e, mode, op)
  <2>1. \/ ctrl' = cancel({e})
        \/ \E mode \in Modes, op \in Operators :
              ctrl' = resume(e, mode, IF mode = "until_operator" THEN op ELSE NoOperator)
    BY StepModeAssumption DEF Act
  <2>2. \A mode \in Modes, op \in Operators :
           (IF mode = "until_operator" THEN op ELSE NoOperator) \in Operators \union {NoOperator}
    OBVIOUS
  <2> QED BY <2>1, <2>2
<1> HIDE DEF new, e
<1>5. ControllersMove
  BY <1>1, <1>4, CancelIsAMove, ResumeMoves
<1> QED BY <1>0, <1>2, <1>3, <1>5, ClientInv DEF Act, engine

\* The position that is evicted holds an execution.
LEMMA EvictedIsThere ==
    ASSUME IInv, Full
    PROVE  EvictedAt \in 1 .. Len(registry)
<1>0. registry \in Seq(Executions) /\ Len(registry) \in Nat /\ DOMAIN registry = 1 .. Len(registry)
  BY Known, LenProperties
<1> DEFINE over == {i \in DOMAIN registry : is_terminal(registry[i])}
<1>1. EvictedAt = IF over = {} THEN 1 ELSE Min(over)
  BY DEF EvictedAt
<1>2. over \subseteq 1 .. Len(registry)
  BY <1>0
<1>3. 1 \in 1 .. Len(registry)
  BY <1>0, StepModeAssumption DEF Full
<1> HIDE DEF over
<1>4. CASE over # {}
  <2>1. over \subseteq Nat
    BY <1>0, <1>2
  <2>2. \E x \in over : \A y \in over : x <= y
    BY <1>4, <2>1, LeastNat
  <2>3. Min(over) \in over
    BY <2>2 DEF Min
  <2> QED BY <1>1, <1>2, <1>4, <2>3
<1> QED BY <1>1, <1>3, <1>4

\* What is left after an eviction is shorter than the limit, and holds every
\* execution but the one that is evicted.
LEMMA KeptFacts ==
    ASSUME IInv
    PROVE  /\ Kept \in Seq(Executions) /\ Len(Kept) + 1 <= MaxExecutions
           /\ \A k \in 1 .. Len(registry) :
                 registry[k] \in Evicted \/ \E j \in 1 .. Len(Kept) : Kept[j] = registry[k]
<1>0. /\ registry \in Seq(Executions) /\ Len(registry) \in Nat /\ Len(registry) <= MaxExecutions
      /\ MaxExecutions \in Nat \ {0}
  BY Known, LenProperties, StepModeAssumption DEF IInv
<1>1. CASE ~Full
  <2>1. Kept = registry /\ Len(registry) + 1 <= MaxExecutions
    BY <1>0, <1>1 DEF Kept, Full
  <2> QED BY <1>0, <2>1
<1>2. CASE Full
  <2> DEFINE i == EvictedAt
             s == RemoveAt(registry, i)
  <2>1. i \in 1 .. Len(registry)
    BY <1>2, EvictedIsThere
  <2>2. Kept = s /\ Evicted = {registry[i]}
    BY <1>2 DEF Kept, Evicted
  <2> HIDE DEF i
  <2>3. /\ s \in Seq(Executions) /\ Len(s) = Len(registry) - 1
        /\ \A k \in 1 .. Len(registry) - 1 : s[k] = IF k < i THEN registry[k] ELSE registry[k + 1]
    BY <1>0, <2>1, RemoveAtFacts
  <2> HIDE DEF s
  <2>4. ASSUME NEW k \in 1 .. Len(registry), k # i
        PROVE  \E j \in 1 .. Len(s) : s[j] = registry[k]
    <3>1. CASE k < i
      <4>1. k \in 1 .. Len(registry) - 1
        BY <1>0, <2>1, <3>1
      <4> QED BY <2>3, <3>1, <4>1
    <3>2. CASE k > i
      <4>1. k - 1 \in 1 .. Len(registry) - 1 /\ ~(k - 1 < i) /\ k - 1 + 1 = k
        BY <1>0, <2>1, <3>2
      <4>2. s[k - 1] = registry[k]
        BY <2>3, <4>1
      <4> QED BY <2>3, <4>1, <4>2
    <3> QED BY <1>0, <2>1, <2>4, <3>1, <3>2
  <2>5. Len(s) + 1 <= MaxExecutions
    BY <1>0, <2>3
  <2> QED BY <2>2, <2>3, <2>4, <2>5
<1> QED BY <1>1, <1>2

\* A query is started: it is registered, and what made room for it is over or
\* is told to stop.
LEMMA startInv ==
    ASSUME IInv, NEW c \in Clients, NEW e \in Executions, start(c, e)
    PROVE  IInv'
<1>0. /\ TypeOK /\ EndedIsDone /\ LiveIsKnown /\ DeliversToSomebody /\ ActsOnSomebody
  BY DEF IInv
<1>1. /\ thread \in [Threads -> ThreadStates] /\ e \in Threads /\ Executions \subseteq Threads
      /\ thread[e].pc = "none" /\ thread' = [thread EXCEPT ![e] = [thread[e] EXCEPT !.pc = "lock"]]
  BY Known DEF start, At, GoesTo, Threads
<1> DEFINE w == [thread[e] EXCEPT !.pc = "lock"]
<1>2. w \in ThreadStates /\ w.pc = "lock"
  BY <1>1 DEF ThreadStates, PCs
<1>3. thread' = [thread EXCEPT ![e] = w]
  BY <1>1
<1> HIDE DEF w
<1>4. /\ thread' \in [Threads -> ThreadStates]
      /\ \A u \in Threads : thread'[u] = IF u = e THEN w ELSE thread[u]
  BY <1>1, <1>2, <1>3
<1>5. /\ ControllersMove /\ \A x \in Executions : ctrl'[x].state = ctrl[x].state
      /\ \A x \in Executions : x \in Evicted /\ ctrl[x].state # ENDED => ctrl'[x].cancel
  BY CancelIsAMove, CancelMoves DEF start
<1> DEFINE s == Kept
           r == Append(s, e)
<1>6. /\ s \in Seq(Executions) /\ Len(s) + 1 <= MaxExecutions
      /\ \A k \in 1 .. Len(registry) :
            registry[k] \in Evicted \/ \E j \in 1 .. Len(s) : s[j] = registry[k]
  BY KeptFacts
<1>7. registry' = r
  BY DEF start
<1> HIDE DEF s
<1>8. /\ r \in Seq(Executions) /\ Len(r) = Len(s) + 1
      /\ \A k \in 1 .. Len(s) + 1 : r[k] = IF k <= Len(s) THEN s[k] ELSE e
  BY <1>6, AppendFacts
<1>9. Append(sinks, e) \in Seq(Executions)
  BY Known, AppendFacts
<1> HIDE DEF r
<1>10. Len(s) \in Nat
  BY <1>6, LenProperties
<1>11. (\E k \in 1 .. Len(r) : r[k] = e) /\ \A j \in 1 .. Len(s) : \E k \in 1 .. Len(r) : r[k] = s[j]
  <2>1. Len(s) + 1 \in 1 .. Len(r) /\ ~(Len(s) + 1 <= Len(s)) /\ Len(s) + 1 \in 1 .. Len(s) + 1
    BY <1>8, <1>10
  <2>2. \A j \in 1 .. Len(s) : j \in 1 .. Len(r) /\ j <= Len(s) /\ j \in 1 .. Len(s) + 1
    BY <1>8, <1>10
  <2> QED BY <1>8, <2>1, <2>2
<1>12. /\ call' \in [Clients -> ClientStates]
       /\ \A d \in Clients : call'[d] = IF d = c THEN NoCall ELSE call[d]
  BY Known, ClientFacts DEF start
<1>13. TypeOK'
  <2>1. /\ lock' \in Threads \union {NoOne} /\ idle' \subseteq Executions /\ up' \in BOOLEAN
        /\ sinks' \in Seq(Executions)
    BY <1>0, <1>9, Types DEF start
  <2> QED BY <1>4, <1>5, <1>7, <1>8, <1>12, <2>1, TypesAfter DEF ControllersMove
<1>14. Len(registry') <= MaxExecutions
  BY <1>6, <1>7, <1>8
<1>15. PauseIsAsked'
  BY <1>5, AskedOfAllAfter DEF ControllersMove
<1>16. EndedIsDone'
  <2>1. ctrl[e].state # ENDED
    BY <1>0, <1>1 DEF EndedIsDone
  <2> QED BY <1>0, <1>1, <1>4, <1>5, <2>1 DEF EndedIsDone
<1>17. LiveIsKnown'
  <2> SUFFICES ASSUME NEW x \in Executions, thread'[x].pc \notin {"none", "done"},
                      \A k \in 1 .. Len(r) : r[k] # x
               PROVE  ctrl'[x].cancel
    BY <1>7 DEF LiveIsKnown
  <2>1. x # e /\ thread[x].pc \notin {"none", "done"}
    BY <1>1, <1>4, <1>11
  <2>2. CASE \A k \in 1 .. Len(registry) : registry[k] # x
    BY <1>0, <1>5, <2>1, <2>2 DEF LiveIsKnown, ControllersMove
  <2>3. CASE \E k \in 1 .. Len(registry) : registry[k] = x
    <3>1. x \in Evicted
      BY <1>6, <1>11, <2>3
    <3>2. ctrl[x].state # ENDED
      BY <1>0, <2>1 DEF EndedIsDone
    <3> QED BY <1>5, <3>1, <3>2
  <2> QED BY <2>2, <2>3
<1>18. DeliversToSomebody'
  BY <1>0, <1>2, <1>4 DEF DeliversToSomebody
<1>19. ActsOnSomebody'
  BY <1>0, <1>12, ClientFacts DEF ActsOnSomebody
<1> QED BY <1>13, <1>14, <1>15, <1>16, <1>17, <1>18, <1>19 DEF IInv

\* A call on the store.
LEMMA StoreStepInv ==
    ASSUME IInv, NEW c \in Clients, Begin(c) \/ StoreStep(c)
    PROVE  IInv'
<1>1. CASE Begin(c) \/ reap(c) \/ Listed(c) \/ Act(c) \/ Return(c)
  BY <1>1, BeginInv, reapInv, ListedInv, ActInv, ReturnInv
<1>2. CASE \E e \in Executions : start(c, e)
  BY <1>2, startInv
<1>3. CASE \E e \in Executions : \E op \in {"get", "resume", "cancel"} : get(c, op, e)
  BY <1>3, getInv
<1> QED BY <1>1, <1>2, <1>3 DEF StoreStep

\* A plain query gets the lock of the database.
LEMMA run_queryInv ==
    ASSUME IInv, NEW q \in Queries, run_query(q)
    PROVE  IInv'
<1>0. /\ TypeOK /\ EndedIsDone /\ LiveIsKnown /\ DeliversToSomebody /\ ActsOnSomebody
      /\ Len(registry) <= MaxExecutions /\ PauseIsAsked
  BY DEF IInv
<1> DEFINE w == [thread[q] EXCEPT !.pc = "run"]
<1>1. /\ thread \in [Threads -> ThreadStates] /\ q \in Threads /\ Executions \subseteq Threads
      /\ q \notin Executions
  BY Known, StepModeAssumption DEF Threads
<1>2. w \in ThreadStates /\ w.pc = "run"
  BY <1>1 DEF ThreadStates, PCs
<1>3. thread' = [thread EXCEPT ![q] = w]
  BY DEF run_query, GoesTo
<1> HIDE DEF w
<1>4. /\ thread' \in [Threads -> ThreadStates]
      /\ \A u \in Threads : thread'[u] = IF u = q THEN w ELSE thread[u]
  BY <1>1, <1>2, <1>3
<1>5. UNCHANGED <<ctrl, sinks, registry, idle, call, up>> /\ lock' = q
  BY DEF run_query, store
<1>6. TypeOK'
  BY <1>0, <1>1, <1>4, <1>5, Types, TypesAfter
<1>7. PauseIsAsked'
  BY <1>0, <1>5, AskedOfAll, AskedOfAllAfter
<1>8. EndedIsDone' /\ LiveIsKnown'
  BY <1>0, <1>1, <1>4, <1>5 DEF EndedIsDone, LiveIsKnown
<1>9. DeliversToSomebody' /\ ActsOnSomebody'
  BY <1>0, <1>2, <1>4, <1>5 DEF DeliversToSomebody, ActsOnSomebody
<1> QED BY <1>0, <1>5, <1>6, <1>7, <1>8, <1>9 DEF IInv

\* Time passes.
LEMMA GoIdleInv ==
    ASSUME IInv, NEW e \in Executions, GoIdle(e)
    PROVE  IInv'
<1>0. TypeOK /\ ActsOnSomebody /\ Len(registry) <= MaxExecutions
  BY DEF IInv
<1>1. ControllersMove
  BY ControllersStay DEF GoIdle
<1>2. /\ registry' = registry /\ call' = call /\ up' = up /\ UNCHANGED <<thread, lock, sinks>>
      /\ idle' = idle \union {e}
  BY DEF GoIdle, engine
<1>3. \A x \in Executions : \/ \E k \in 1 .. Len(registry') : registry'[k] = x
                            \/ \A k \in 1 .. Len(registry) : registry[k] # x
  BY <1>2
<1>4. \A c \in Clients : call'[c].phase = "act" => call'[c].of \in Executions
  BY <1>0, <1>2 DEF ActsOnSomebody
<1> QED BY <1>0, <1>1, <1>2, <1>3, <1>4, StoreInv, Types

\* The application is torn down: every execution is over or is told to stop.
LEMMA shutdownInv ==
    ASSUME IInv, shutdown
    PROVE  IInv'
<1>0. TypeOK /\ ActsOnSomebody /\ EndedIsDone
  BY DEF IInv
<1>1. /\ registry' = <<>> /\ idle' = {} /\ up' = FALSE /\ call' = call
      /\ UNCHANGED <<thread, lock, sinks>> /\ ctrl' = cancel(ToSet(registry))
  BY DEF shutdown, engine
<1>2. ControllersMove
  BY <1>1, CancelIsAMove
<1>3. registry' \in Seq(Executions) /\ Len(registry') <= MaxExecutions
  BY <1>1, StepModeAssumption, EmptySeq
<1>4. \A e \in Executions : \/ \A k \in 1 .. Len(registry) : registry[k] # e
                            \/ ctrl'[e].cancel
                            \/ thread[e].pc \in {"none", "done"}
  <2> SUFFICES ASSUME NEW k \in 1 .. Len(registry), NEW e \in Executions, registry[k] = e
               PROVE  ctrl'[e].cancel \/ thread[e].pc = "done"
    OBVIOUS
  <2>1. registry \in Seq(Executions) /\ DOMAIN registry = 1 .. Len(registry)
    BY Known, LenProperties
  <2>2. e \in ToSet(registry)
    BY <2>1 DEF ToSet
  <2>3. ctrl[e].state = ENDED => thread[e].pc = "done"
    BY <1>0 DEF EndedIsDone
  <2> QED BY <1>1, <2>2, <2>3, CancelMoves
<1>5. \A c \in Clients : call'[c].phase = "act" => call'[c].of \in Executions
  BY <1>0, <1>1 DEF ActsOnSomebody
<1>6. idle' \subseteq Executions /\ call' \in [Clients -> ClientStates] /\ up' \in BOOLEAN
  BY <1>1, Known
<1> QED BY <1>1, <1>2, <1>3, <1>4, <1>5, <1>6, StoreInv

---------------------------------------------------------------------------
(* What is proved.                                                         *)

\* Nothing runs at first.
LEMMA InitInv == Init => IInv
<1> SUFFICES ASSUME Init PROVE IInv
  OBVIOUS
<1>0. /\ ctrl = [e \in Executions |-> NewController] /\ thread = [t \in Threads |-> NewThread]
      /\ lock = NoOne /\ sinks = <<>> /\ registry = <<>> /\ idle = {}
      /\ call = [c \in Clients |-> NoCall] /\ up = TRUE
  BY DEF Init
<1>1. NewController \in Controllers /\ Asked(NewController) /\ NewController.state = "pending"
  BY ModeFacts DEF NewController, Controllers, Reasons, Asked
<1>2. NewThread \in ThreadStates /\ NewThread.pc = "none"
  BY NewThreadType DEF NewThread
<1>3. <<>> \in Seq(Executions) /\ Len(<<>>) = 0
  BY EmptySeq
<1>4. TypeOK
  BY <1>0, <1>1, <1>2, <1>3, ClientFacts, Types
<1>5. PauseIsAsked
  BY <1>0, <1>1, AskedOfAll
<1>6. Len(registry) <= MaxExecutions
  BY <1>0, <1>3, StepModeAssumption
<1>7. EndedIsDone
  BY <1>0, <1>1 DEF EndedIsDone, ENDED
<1>8. LiveIsKnown
  BY <1>0, <1>2 DEF LiveIsKnown, Threads
<1>9. DeliversToSomebody
  BY <1>0, <1>2 DEF DeliversToSomebody
<1>10. ActsOnSomebody
  BY <1>0, ClientFacts DEF ActsOnSomebody
<1> QED BY <1>4, <1>5, <1>6, <1>7, <1>8, <1>9, <1>10 DEF IInv

\* Every step preserves the invariant.
LEMMA NextInv == IInv /\ [Next]_vars => IInv'
<1> SUFFICES ASSUME IInv, [Next]_vars PROVE IInv'
  OBVIOUS
<1>1. CASE \E t \in Threads : EngineStep(t)
  BY <1>1, EngineStepInv
<1>2. CASE \E c \in Clients : Begin(c) \/ StoreStep(c)
  BY <1>2, StoreStepInv
<1>3. CASE \E q \in Queries : run_query(q)
  BY <1>3, run_queryInv
<1>4. CASE \E e \in Executions : GoIdle(e)
  BY <1>4, GoIdleInv
<1>5. CASE shutdown
  BY <1>5, shutdownInv
<1>6. CASE UNCHANGED vars
  BY <1>6 DEF vars, IInv, TypeOK, PauseIsAsked, EndedIsDone, LiveIsKnown, DeliversToSomebody,
              ActsOnSomebody, Threads
<1> QED BY <1>1, <1>2, <1>3, <1>4, <1>5, <1>6 DEF Next

\* A query that is paused stopped where the last resume said it should, and
\* says why, in every state of every interleaving of threads and clients.
THEOREM PausesAreAsked == Spec => []PauseIsAsked
<1>1. IInv => PauseIsAsked
  BY DEF IInv
<1> QED BY <1>1, InitInv, NextInv, PTL DEF Spec

\* The thread of an execution that was evicted, or that a shutdown left behind,
\* does not wait in its own checkpoint without having been told to stop; and
\* the registry stays within its limit.
THEOREM EvictedAreCancelled == Spec => []EvictedIsCancelled
<1>1. IInv => EvictedIsCancelled
  <2> SUFFICES ASSUME IInv PROVE EvictedIsCancelled
    OBVIOUS
  <2>1. TypeOK /\ Len(registry) <= MaxExecutions /\ LiveIsKnown
    BY DEF IInv
  <2>2. registry \in Seq(Executions) /\ DOMAIN registry = 1 .. Len(registry)
    BY Known, LenProperties
  <2>3. \A k \in 1 .. Len(registry) : registry[k] \in ToSet(registry)
    BY <2>2 DEF ToSet
  <2>4. \A e \in Executions :
           At(e, "paused") /\ thread[e].on = e /\ e \notin ToSet(registry) => ctrl[e].cancel
    BY <2>1, <2>3 DEF LiveIsKnown, At
  <2> QED BY <2>1, <2>4 DEF EvictedIsCancelled
<1> QED BY <1>1, InitInv, NextInv, PTL DEF Spec
=============================================================================

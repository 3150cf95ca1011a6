--------------------------- MODULE SchedulerProofs ---------------------------
(***************************************************************************)
(* Proofs about the scheduler.  Of every instance, whoever calls, whatever *)
(* fails and whether gather is eager or not: its types, what stop() leaves *)
(* and what a task was emitted with; and, as long as no restart fails,     *)
(* that no runner is lost.  That a cleanup leaves nothing behind and that  *)
(* results are current needs callers of one batch to take turns; that a    *)
(* result is handed out once, that each id is used once, or turns and a    *)
(* gather that waits for the callbacks.                                    *)
(* That no runner is double-booked needs turns, actors that live, restarts *)
(* that succeed, no stop() and such a gather: TLC shows a double booking   *)
(* as soon as one of these is dropped.                                     *)
(***************************************************************************)
EXTENDS Scheduler, TLAPS

-----------------------------------------------------------------------------
(* Types.                                                                  *)

USE SchedulerAssumption, NoneAssumption

ResultTable == [Batches -> [1 .. MaxTasks -> 0 .. MaxCalls]]

LEMMA NoResultsType == NoResults \in [1 .. MaxTasks -> 0 .. MaxCalls]
BY DEF NoResults

LEMMA ResultsWithType ==
    ASSUME completed_tasks \in ResultTable, NEW ts \in SUBSET Task
    PROVE  ResultsWith(ts) \in ResultTable
<1> SUFFICES ASSUME NEW b \in Batches, NEW i \in 1 .. MaxTasks,
                    NEW t, t = CHOOSE u \in ts : u[1] = b /\ u[3] = i
             PROVE  (IF \E u \in ts : u[1] = b /\ u[3] = i
                     THEN t[2] ELSE completed_tasks[b][i]) \in 0 .. MaxCalls
    BY DEF ResultsWith, ResultTable
<1>1. CASE \E u \in ts : u[1] = b /\ u[3] = i
    <2>1. t \in ts
        BY <1>1
    <2>2. t[2] \in 1 .. MaxCalls
        BY <2>1 DEF Task
    <2> QED BY <1>1, <2>2
<1>2. CASE ~\E u \in ts : u[1] = b /\ u[3] = i
    BY <1>2 DEF ResultTable
<1> QED BY <1>1, <1>2

LEMMA EmitType ==
    ASSUME TypeOK, NEW ts \in SUBSET Task, NEW acc, Emit(ts, acc)
    PROVE  emitted' \subseteq Task /\ payloads' \in [Task -> SUBSET Sub]
BY DEF Emit, TypeOK, SubsOf, Sub

LEMMA ReturnType ==
    ASSUME TypeOK, NEW c \in Clients, NEW call \in Call, call.b \in Batches,
           NEW results \in ResultTable, Return(c, call, results)
    PROVE  /\ client' \in [Clients -> Call]
           /\ completed_tasks' \in ResultTable
           /\ delivered' \subseteq Task
           /\ counted_steps' \subseteq Batches
           /\ batch_is_eval_map' \in [Batches -> {"train", "eval", "none"}]
<1>1. Free \in Call
    BY DEF Free, Call
<1>2. CASE call.drain
    <2>1. /\ client' = [client EXCEPT ![c] = Free]
          /\ Drain(call.b, results)
        BY <1>2 DEF Return
    <2>2. client' \in [Clients -> Call]
        BY <1>1, <2>1 DEF TypeOK
    <2>3. completed_tasks' \in ResultTable
        BY <2>1, NoResultsType DEF Drain, ResultTable
    <2>4. delivered' \subseteq Task
        BY <2>1 DEF Drain, TypeOK
    <2>5. counted_steps' \subseteq Batches
        BY <2>1 DEF Drain, TypeOK
    <2>6. batch_is_eval_map' \in [Batches -> {"train", "eval", "none"}]
        BY <2>1 DEF Drain, TypeOK
    <2> QED BY <2>2, <2>3, <2>4, <2>5, <2>6
<1>3. CASE ~call.drain
    BY <1>1, <1>3 DEF Return, TypeOK, drainVars
<1> QED BY <1>2, <1>3 DEF Call

LEMMA AfterGatherType ==
    ASSUME TypeOK, NEW c \in Clients, NEW call \in Call, call.b \in Batches,
           NEW results \in ResultTable, AfterGather(c, call, results)
    PROVE  /\ client' \in [Clients -> Call]
           /\ completed_tasks' \in ResultTable
           /\ delivered' \subseteq Task
           /\ counted_steps' \subseteq Batches
           /\ batch_is_eval_map' \in [Batches -> {"train", "eval", "none"}]
           /\ cleanup_restarts' \subseteq Clients \X Runners
<1> DEFINE rs == IF call.restart THEN Restartable(call) ELSE {}
<1>1. CASE rs = {}
    BY <1>1, ReturnType DEF AfterGather, TypeOK
<1>2. CASE rs # {}
    <2>1. [call EXCEPT !.pc = "restart"] \in Call
        BY DEF Call
    <2>2. rs \subseteq Runners
        BY DEF Restartable
    <2>3. /\ client' = [client EXCEPT ![c] = [call EXCEPT !.pc = "restart"]]
          /\ cleanup_restarts' = cleanup_restarts \cup ({c} \X rs)
          /\ completed_tasks' = results
          /\ UNCHANGED drainVars
        BY <1>2 DEF AfterGather
    <2>4. client' \in [Clients -> Call]
        BY <2>1, <2>3 DEF TypeOK
    <2>5. cleanup_restarts' \subseteq Clients \X Runners
        BY <2>2, <2>3 DEF TypeOK
    <2> QED BY <2>3, <2>4, <2>5 DEF TypeOK, drainVars
<1> QED BY <1>1, <1>2

LEMMA CleanupBatchType ==
    ASSUME TypeOK, NEW c \in Clients, NEW call \in Call, call.b \in Batches,
           CleanupBatch(c, call)
    PROVE  TypeOK'
<1> DEFINE queued == {s \in pending_tasks : BatchOf(s) = call.b}
           inflight == {s \in running_tasks : BatchOf(s) = call.b}
           partials == {t \in {TaskOf(s) : s \in queued \cup inflight} \ emitted :
                           call.partial /\ SubsOf(t) \cap succeeded # {}}
           results == ResultsWith(partials)
<1>1. partials \subseteq Task
    <2>1. \A s \in Sub : TaskOf(s) \in Task
        BY DEF Sub, TaskOf
    <2> QED BY <2>1 DEF TypeOK
<1>2. results \in ResultTable
    BY <1>1, ResultsWithType DEF TypeOK, ResultTable
<1>3. emitted' \subseteq Task /\ payloads' \in [Task -> SUBSET Sub]
    BY <1>1, EmitType DEF CleanupBatch
<1>4. /\ pending_tasks' \subseteq Sub /\ running_tasks' \subseteq Sub
      /\ restart_on_cancel' \subseteq Sub
    BY DEF CleanupBatch, TypeOK
<1>5. future' \in [Sub -> FutureState]
    BY DEF CleanupBatch, TypeOK, FutureState, Live
<1>6. task_num_map' \in [Batches -> Nat]
    BY DEF CleanupBatch, TypeOK
<1>7. /\ client' \in [Clients -> Call]
      /\ completed_tasks' \in ResultTable
      /\ delivered' \subseteq Task
      /\ counted_steps' \subseteq Batches
      /\ batch_is_eval_map' \in [Batches -> {"train", "eval", "none"}]
      /\ cleanup_restarts' \subseteq Clients \X Runners
    <2>1. CASE GatherDone(inflight)
        <3> DEFINE done == [call EXCEPT !.futures = inflight]
        <3>1. done \in Call /\ done.b = call.b
            BY DEF Call, TypeOK
        <3>2. AfterGather(c, done, results)
            BY <2>1 DEF CleanupBatch
        <3> HIDE DEF done, results
        <3> QED BY <1>2, <3>1, <3>2, AfterGatherType
    <2>2. CASE ~GatherDone(inflight)
        <3>1. [call EXCEPT !.pc = "gather", !.futures = inflight] \in Call
            BY DEF Call, TypeOK
        <3>2. /\ client' = [client EXCEPT ![c] = [call EXCEPT !.pc = "gather", !.futures = inflight]]
              /\ completed_tasks' = results
              /\ UNCHANGED <<drainVars, cleanup_restarts>>
            BY <2>2 DEF CleanupBatch
        <3>3. client' \in [Clients -> Call]
            BY <3>1, <3>2 DEF TypeOK
        <3> QED BY <1>2, <3>2, <3>3 DEF TypeOK, drainVars
    <2> QED BY <2>1, <2>2
<1>8. UNCHANGED <<runnerVars, progressVars, stopVars, runner_of, background_tasks, callVars>>
    BY DEF CleanupBatch
<1> QED
    BY <1>3, <1>4, <1>5, <1>6, <1>7, <1>8
       DEF TypeOK, ResultTable, runnerVars, progressVars, stopVars, callVars

\* What the types rest on: a future in flight, or one whose runner is being
\* restarted, has a runner; a sub task waits before it runs and is scheduled
\* once; a client inside a call is inside a call on some batch.
Placement ==
    /\ \A s \in InFlight \cup background_tasks : runner_of[s] \in Runners
    /\ \A s \in background_tasks : future[s] = "closed"
    /\ \A s \in pending_tasks : future[s] = "queued"
    /\ \A s \in Sub : s[1][2] > calls[s[1][1]] => future[s] = "none"
    /\ \A c \in Clients : InCall(c) => client[c].b \in Batches

\* Type correctness is inductive together with Placement; the steps of each
\* kind are taken one by one.
LEMMA TypeStepSchedule ==
    ASSUME TypeOK, Placement, NEW b \in Batches, NEW n \in 1 .. MaxTasks, Schedule(b, n)
    PROVE  TypeOK' /\ Placement'
<1> USE DEF runnerVars, resultVars, drainVars, futureVars, progressVars,
            clientVars, stopVars, callVars
<1> DEFINE subs == {s \in Sub : BatchOf(s) = b /\ s[1][2] = calls[b] + 1 /\ s[1][3] <= n}
<1>1. /\ pending_tasks' = pending_tasks \cup subs
      /\ future' = [s \in Sub |-> IF s \in subs THEN "queued" ELSE future[s]]
      /\ calls' = [calls EXCEPT ![b] = @ + 1]
      /\ calls[b] < MaxCalls
    BY DEF Schedule
<1>2. calls[b] \in Nat /\ \A d \in Batches : calls[d] \in Nat
    BY DEF TypeOK
<1>3. future' \in [Sub -> FutureState]
    BY <1>1 DEF TypeOK, FutureState
<1>4. calls' \in [Batches -> 0 .. MaxCalls] /\ use_start' \in [Batches -> 0 .. MaxCalls]
    <2>1. calls' \in [Batches -> 0 .. MaxCalls] /\ calls[b] + 1 \in 0 .. MaxCalls
        BY <1>1, <1>2 DEF TypeOK
    <2>2. use_start' = [use_start EXCEPT ![b] = IF HasStep(b) THEN @ ELSE calls[b] + 1]
        BY DEF Schedule
    <2> QED BY <2>1, <2>2 DEF TypeOK
<1>5. task_num_map' \in [Batches -> Nat]
    BY DEF Schedule, TypeOK
<1>6. batch_is_eval_map' \in [Batches -> {"train", "eval", "none"}]
    BY DEF Schedule, TypeOK
<1>7. TypeOK'
    BY <1>1, <1>3, <1>4, <1>5, <1>6 DEF Schedule, TypeOK
<1>8. \A s \in Sub : s \in subs => future[s] = "none"
    BY <1>2 DEF Placement, BatchOf
<1>9. \A s \in background_tasks : s \in Sub /\ future'[s] = future[s]
    BY <1>1, <1>8 DEF Placement, TypeOK
<1>10. InFlight' \subseteq InFlight
    BY <1>1 DEF InFlight, Live, Settled
<1>11. \A s \in Sub : s[1][2] > calls'[s[1][1]] => future'[s] = "none"
    <2> SUFFICES ASSUME NEW s \in Sub, s[1][2] > calls'[s[1][1]] PROVE future'[s] = "none"
        OBVIOUS
    <2>1. s[1][1] \in Batches /\ s[1][2] \in Nat
        BY DEF Sub, Task
    <2>2. CASE s[1][1] = b
        <3>1. s[1][2] > calls[b] + 1
            BY <1>1, <1>2, <2>2 DEF TypeOK
        <3>2. future[s] = "none"
            BY <1>2, <2>1, <2>2, <3>1 DEF Placement
        <3> QED BY <1>1, <1>2, <2>1, <3>1, <3>2
    <2>3. CASE s[1][1] # b
        BY <1>1, <2>1, <2>3 DEF Placement, BatchOf, TypeOK
    <2> QED BY <2>2, <2>3
<1>12. \A s \in pending_tasks' : future'[s] = "queued"
    BY <1>1 DEF Placement, TypeOK
<1>13. UNCHANGED <<runner_of, background_tasks, client>>
    BY DEF Schedule
<1> QED BY <1>7, <1>9, <1>10, <1>11, <1>12, <1>13 DEF InCall, Placement

LEMMA TypeStepLoop ==
    ASSUME TypeOK, Placement, SchedulePendingTasks
    PROVE  TypeOK' /\ Placement'
<1> USE DEF runnerVars, resultVars, drainVars, futureVars, progressVars,
            clientVars, stopVars, callVars
<1>1. PICK batch \in SUBSET pending_tasks \ {{}} :
          \E on \in [batch -> idle_runners] : StartOn(batch, on)
    BY DEF SchedulePendingTasks
<1> PICK on \in [batch -> idle_runners] : StartOn(batch, on)
    BY <1>1
<1> USE DEF StartOn
<1>2. batch \subseteq Sub
    BY DEF TypeOK
<1>3. busy_runners' \in [Runners -> Sub \cup {NoSub}]
    BY <1>2 DEF TypeOK
<1>4. future' \in [Sub -> FutureState]
    BY DEF TypeOK, FutureState, Live
<1>5. runner_of' \in [Sub -> Runners \cup {NoRunner}]
    BY DEF TypeOK
<1>6. /\ idle_runners' \subseteq Runners /\ pending_tasks' \subseteq Sub
      /\ running_tasks' \subseteq Sub /\ restart_on_cancel' \subseteq Sub
    BY <1>2 DEF TypeOK
<1>7. UNCHANGED <<resultVars, drainVars, progressVars, clientVars, stopVars,
                  task_num_map, background_tasks, callVars>>
    OBVIOUS
<1>8. TypeOK'
    BY <1>3, <1>4, <1>5, <1>6, <1>7 DEF TypeOK
<1>9. \A s \in batch : future[s] = "queued" /\ runner_of'[s] \in Runners
    BY <1>2 DEF Placement, TypeOK
<1>10. \A s \in Sub \ batch : future'[s] = future[s] /\ runner_of'[s] = runner_of[s]
    OBVIOUS
<1>11. \A s \in InFlight' \cup background_tasks' : runner_of'[s] \in Runners
    BY <1>7, <1>9, <1>10 DEF Placement, InFlight, TypeOK
<1>12. \A s \in background_tasks' : future'[s] = "closed"
    BY <1>7, <1>9, <1>10 DEF Placement, TypeOK
<1>13. \A s \in pending_tasks' : future'[s] = "queued"
    BY <1>10 DEF Placement, TypeOK
<1>14. \A s \in Sub : s[1][2] > calls'[s[1][1]] => future'[s] = "none"
    BY <1>7, <1>9, <1>10 DEF Placement
<1> QED BY <1>7, <1>8, <1>11, <1>12, <1>13, <1>14 DEF InCall, Placement

\* Placement when the done callback of s runs.
LEMMA PlacementClose ==
    ASSUME TypeOK, Placement, NEW s \in Sub, future[s] \in Settled,
           UNCHANGED <<pending_tasks, calls, client>>,
           future' = [future EXCEPT ![s] = "closed"],
           \/ background_tasks' = background_tasks
              /\ runner_of' = [runner_of EXCEPT ![s] = NoRunner]
           \/ background_tasks' = background_tasks \cup {s} /\ runner_of' = runner_of
    PROVE  Placement'
<1>1. future \in [Sub -> FutureState] /\ runner_of \in [Sub -> Runners \cup {NoRunner}]
      /\ background_tasks \subseteq Sub /\ pending_tasks \subseteq Sub
    BY DEF TypeOK
<1>2. s \notin background_tasks /\ s \notin pending_tasks /\ s \in InFlight
    BY DEF Placement, Settled, InFlight
<1>3. InFlight' = InFlight \ {s}
    BY <1>1 DEF InFlight, Live, Settled
<1>4. \A u \in InFlight' \cup background_tasks' : runner_of'[u] \in Runners
    <2>1. CASE background_tasks' = background_tasks /\ runner_of' = [runner_of EXCEPT ![s] = NoRunner]
        BY <1>1, <1>2, <1>3, <2>1 DEF Placement, InFlight
    <2>2. CASE background_tasks' = background_tasks \cup {s} /\ runner_of' = runner_of
        BY <1>2, <1>3, <2>2 DEF Placement
    <2> QED BY <2>1, <2>2
<1>5. \A u \in background_tasks' : future'[u] = "closed"
    BY <1>1 DEF Placement
<1>6. \A u \in pending_tasks' : future'[u] = "queued"
    BY <1>1, <1>2 DEF Placement
<1>7. \A u \in Sub : u[1][2] > calls'[u[1][1]] => future'[u] = "none"
    BY <1>1 DEF Placement, Settled
<1> QED BY <1>4, <1>5, <1>6, <1>7 DEF InCall, Placement

LEMMA TypeStepFuture ==
    ASSUME TypeOK, Placement, NEW s \in Sub,
           \/ RunWithRetry(s) \/ TaskCancelled(s) \/ TaskRaised(s)
           \/ TaskReturned(s) \/ RestartDone(s) \/ RestartFailed(s)
    PROVE  TypeOK' /\ Placement'
<1> USE DEF runnerVars, resultVars, drainVars, futureVars, progressVars,
            clientVars, stopVars, callVars, Placement, InFlight, FutureState, Live, Settled
<1>1. CASE RunWithRetry(s)
    <2>1. PICK o \in Settled : future' = [future EXCEPT ![s] = o]
        BY <1>1 DEF RunWithRetry
    <2>2. future[s] \in Live
        BY <1>1 DEF RunWithRetry
    <2>3. UNCHANGED <<runnerVars, resultVars, drainVars, progressVars, clientVars,
                      stopVars, runner_of, restart_on_cancel, pending_tasks,
                      running_tasks, task_num_map, background_tasks, callVars>>
        BY <1>1 DEF RunWithRetry
    <2>4. future' \in [Sub -> FutureState]
        BY <2>1 DEF TypeOK
    <2>5. TypeOK'
        BY <2>3, <2>4 DEF TypeOK
    <2>6. InFlight' = InFlight /\ s \notin background_tasks /\ s \notin pending_tasks
        BY <2>1, <2>2 DEF TypeOK
    <2>7. \A u \in Sub \ {s} : future'[u] = future[u]
        BY <2>1 DEF TypeOK
    <2>8. future[s] # "none"
        BY <2>2
    <2>9. background_tasks \subseteq Sub /\ pending_tasks \subseteq Sub
        BY DEF TypeOK
    <2> HIDE DEF InFlight
    <2>10. Placement'
        BY <2>3, <2>6, <2>7, <2>8, <2>9 DEF InCall
    <2> QED BY <2>5, <2>10
<1>2. CASE TaskCancelled(s)
    <2>1. runner_of[s] \in Runners
        BY <1>2 DEF TaskCancelled
    <2>2. idle_runners' \subseteq Runners /\ busy_runners' \in [Runners -> Sub \cup {NoSub}]
        BY <1>2, <2>1 DEF TaskCancelled, GiveBack, TypeOK
    <2>3. Close(s) /\ UNCHANGED <<resultVars, progressVars, background_tasks>>
        BY <1>2 DEF TaskCancelled
    <2>4. TypeOK'
        BY <2>2, <2>3 DEF Close, TypeOK
    <2> QED BY <1>2, <2>3, <2>4, PlacementClose DEF TaskCancelled, Close
<1>3. CASE TaskRaised(s)
    <2>1. TypeOK'
        BY <1>3 DEF TaskRaised, TypeOK
    <2> QED BY <1>3, <2>1, PlacementClose DEF TaskRaised
<1>4. CASE TaskReturned(s)
    <2> DEFINE done == Complete(s, finished')
    <2>1. done \subseteq Task
        BY DEF Complete, TaskOf, Sub
    <2>2. Emit(done, succeeded') /\ completed_tasks' = ResultsWith(done)
        BY <1>4 DEF TaskReturned
    <2>3. completed_tasks' \in ResultTable
        BY <2>1, <2>2, ResultsWithType DEF TypeOK, ResultTable
    <2>4. emitted' \subseteq Task /\ payloads' \in [Task -> SUBSET Sub]
        BY <2>1, <2>2, EmitType
    <2>5. TypeOK'
        BY <1>4, <2>3, <2>4 DEF TaskReturned, Close, GiveBack, TypeOK, ResultTable
    <2> QED BY <1>4, <2>5, PlacementClose DEF TaskReturned, Close
<1>5. CASE RestartDone(s)
    <2>1. TypeOK'
        BY <1>5 DEF RestartDone, GiveBack, TypeOK
    <2>2. s \notin InFlight
        BY <1>5 DEF RestartDone
    <2> QED BY <1>5, <2>1, <2>2 DEF InCall, RestartDone, TypeOK
<1>6. CASE RestartFailed(s)
    <2>1. TypeOK'
        BY <1>6 DEF RestartFailed, TypeOK
    <2> QED BY <1>6, <2>1 DEF InCall, RestartFailed, TypeOK
<1> QED BY <1>1, <1>2, <1>3, <1>4, <1>5, <1>6

\* Placement when no future moves, except that queued ones may be dropped
\* and running ones cancelled, and clients are inside calls on batches.
LEMMA PlacementStable ==
    ASSUME TypeOK, Placement, pending_tasks' \subseteq pending_tasks,
           UNCHANGED <<runner_of, background_tasks, calls>>,
           \A s \in Sub : \/ future'[s] = future[s]
                          \/ future[s] = "queued" /\ s \notin pending_tasks' /\ future'[s] = "dropped"
                          \/ future[s] = "running" /\ future'[s] = "cancelling",
           \A c \in Clients : InCall(c)' => client'[c].b \in Batches
    PROVE  Placement'
<1>1. InFlight' = InFlight
    BY DEF InFlight, Live, Settled
<1>2. \A s \in background_tasks' : future'[s] = "closed"
    BY DEF Placement, TypeOK
<1>3. \A s \in pending_tasks' : future'[s] = "queued"
    BY DEF Placement, TypeOK
<1>4. \A s \in Sub : s[1][2] > calls'[s[1][1]] => future'[s] = "none"
    BY DEF Placement
<1> QED BY <1>1, <1>2, <1>3, <1>4 DEF Placement

LEMMA ReturnPlacement ==
    ASSUME TypeOK, Placement, NEW c \in Clients, NEW call, NEW results, Return(c, call, results)
    PROVE  \A d \in Clients : InCall(d)' => client'[d].b \in Batches
BY DEF Return, Free, Placement, TypeOK, InCall

LEMMA AfterGatherPlacement ==
    ASSUME TypeOK, Placement, NEW c \in Clients, NEW call \in Call, call.b \in Batches,
           NEW results, AfterGather(c, call, results)
    PROVE  \A d \in Clients : InCall(d)' => client'[d].b \in Batches
<1>1. CASE Return(c, call, results)
    BY <1>1, ReturnPlacement
<1>2. CASE client' = [client EXCEPT ![c] = [call EXCEPT !.pc = "restart"]]
    BY <1>2 DEF Placement, TypeOK, Call, InCall
<1> QED BY <1>1, <1>2 DEF AfterGather

LEMMA CleanupBatchPlacement ==
    ASSUME TypeOK, Placement, NEW c \in Clients, NEW call \in Call, call.b \in Batches,
           CleanupBatch(c, call)
    PROVE  Placement'
<1> DEFINE queued == {s \in pending_tasks : BatchOf(s) = call.b}
           inflight == {s \in running_tasks : BatchOf(s) = call.b}
<1>1. \A d \in Clients : InCall(d)' => client'[d].b \in Batches
    <2>1. CASE client' = [client EXCEPT ![c] = [call EXCEPT !.pc = "gather", !.futures = inflight]]
        BY <2>1 DEF Placement, TypeOK, Call, InCall
    <2>2. CASE \E results : AfterGather(c, [call EXCEPT !.futures = inflight], results)
        <3>1. [call EXCEPT !.futures = inflight] \in Call
            BY DEF Call, TypeOK
        <3>2. [call EXCEPT !.futures = inflight].b \in Batches
            BY DEF Call
        <3> QED BY <2>2, <3>1, <3>2, AfterGatherPlacement
    <2> QED BY <2>1, <2>2 DEF CleanupBatch
<1>2. /\ pending_tasks' = pending_tasks \ queued
      /\ future' = [s \in Sub |->
              IF s \in queued THEN "dropped"
              ELSE IF s \in inflight /\ future[s] = "running" THEN "cancelling"
              ELSE future[s]]
      /\ UNCHANGED <<runner_of, background_tasks, calls>>
    BY DEF CleanupBatch, callVars
<1>3. \A s \in queued : future[s] = "queued"
    BY DEF Placement
<1> HIDE DEF queued, inflight
<1>4. \A s \in Sub : \/ future'[s] = future[s]
                     \/ future[s] = "queued" /\ s \notin pending_tasks' /\ future'[s] = "dropped"
                     \/ future[s] = "running" /\ future'[s] = "cancelling"
    BY <1>2, <1>3
<1> QED BY <1>1, <1>2, <1>4, PlacementStable

LEMMA TypeStepClient ==
    ASSUME TypeOK, Placement, NEW c \in Clients,
           \/ \E b \in Batches, m \in 0 .. MaxTasks, clear, partial \in BOOLEAN :
                  GetPayloadResults(c, b, m, clear, partial)
           \/ AllCompleted(c) \/ GiveUpWaiting(c) \/ MinCompleted(c) \/ TimedOut(c)
           \/ \E b \in Batches, partial, restart \in BOOLEAN : AbortBatch(c, b, partial, restart)
           \/ Gathered(c) \/ Restarted(c)
           \/ \E r \in Runners : CleanupRestartDone(c, r) \/ CleanupRestartFailed(c, r)
    PROVE  TypeOK' /\ Placement'
<1> USE DEF runnerVars, resultVars, drainVars, futureVars, progressVars,
            clientVars, stopVars, callVars
<1>1. client[c] \in Call /\ (InCall(c) => client[c].b \in Batches)
    BY DEF TypeOK, Placement
<1>2. ASSUME NEW b \in Batches, NEW m \in 0 .. MaxTasks, NEW clear \in BOOLEAN,
             NEW partial \in BOOLEAN, GetPayloadResults(c, b, m, clear, partial)
      PROVE  TypeOK' /\ Placement'
    <2> DEFINE min == IF m = 0 \/ m > task_num_map[b] THEN task_num_map[b] ELSE m
               call == [Free EXCEPT !.pc = "wait", !.b = b, !.scheduled = task_num_map[b],
                                    !.min = min, !.clear = clear, !.partial = partial,
                                    !.drain = TRUE]
    <2>1. min \in Nat /\ task_num_map[b] \in Nat
        BY DEF TypeOK
    <2>2. call \in Call /\ call.b = b
        BY <2>1 DEF Free, Call
    <2>3. client' = [client EXCEPT ![c] = call]
        BY <1>2 DEF GetPayloadResults
    <2>4. UNCHANGED <<runnerVars, resultVars, drainVars, futureVars, progressVars,
                      stopVars, cleanup_restarts, pending_tasks, running_tasks,
                      task_num_map, background_tasks, callVars>>
        BY <1>2 DEF GetPayloadResults
    <2> HIDE DEF call
    <2>5. TypeOK'
        BY <2>2, <2>3, <2>4 DEF TypeOK
    <2>6. \A d \in Clients : InCall(d)' => client'[d].b \in Batches
        BY <2>2, <2>3 DEF TypeOK, Placement, InCall
    <2> QED BY <2>4, <2>5, <2>6, PlacementStable
<1>3. CASE AllCompleted(c) \/ GiveUpWaiting(c) \/ Restarted(c)
    <2>1. /\ Return(c, client[c], completed_tasks)
          /\ InCall(c)
          /\ UNCHANGED <<runnerVars, futureVars, progressVars, stopVars, emitted,
                         payloads, cleanup_restarts, pending_tasks, running_tasks,
                         task_num_map, background_tasks, callVars>>
        BY <1>3 DEF AllCompleted, GiveUpWaiting, Restarted, InCall
    <2>2. completed_tasks \in ResultTable
        BY DEF TypeOK, ResultTable
    <2>3. /\ client' \in [Clients -> Call]
          /\ completed_tasks' \in ResultTable
          /\ delivered' \subseteq Task
          /\ counted_steps' \subseteq Batches
          /\ batch_is_eval_map' \in [Batches -> {"train", "eval", "none"}]
        BY <1>1, <2>1, <2>2, ReturnType
    <2>4. TypeOK'
        BY <2>1, <2>3 DEF TypeOK, ResultTable
    <2>5. \A d \in Clients : InCall(d)' => client'[d].b \in Batches
        BY <2>1, ReturnPlacement
    <2> QED BY <2>1, <2>4, <2>5, PlacementStable
<1>4. CASE Gathered(c)
    <2> DEFINE call == [client[c] EXCEPT !.futures = {}]
    <2>0. call \in Call /\ (InCall(c) => call.b \in Batches)
        BY <1>1 DEF Call
    <2>1. /\ AfterGather(c, call, completed_tasks)
          /\ InCall(c)
          /\ UNCHANGED <<runnerVars, futureVars, progressVars, stopVars, emitted,
                         payloads, pending_tasks, running_tasks, task_num_map,
                         background_tasks, callVars>>
        BY <1>4 DEF Gathered, InCall
    <2> HIDE DEF call
    <2>2. completed_tasks \in ResultTable
        BY DEF TypeOK, ResultTable
    <2>3. /\ client' \in [Clients -> Call]
          /\ completed_tasks' \in ResultTable
          /\ delivered' \subseteq Task
          /\ counted_steps' \subseteq Batches
          /\ batch_is_eval_map' \in [Batches -> {"train", "eval", "none"}]
          /\ cleanup_restarts' \subseteq Clients \X Runners
        BY <2>0, <2>1, <2>2, AfterGatherType
    <2>4. TypeOK'
        BY <2>1, <2>3 DEF TypeOK, ResultTable
    <2>5. \A d \in Clients : InCall(d)' => client'[d].b \in Batches
        BY <2>0, <2>1, AfterGatherPlacement
    <2> QED BY <2>1, <2>4, <2>5, PlacementStable
<1>5. CASE MinCompleted(c)
    BY <1>1, <1>5, CleanupBatchType, CleanupBatchPlacement DEF MinCompleted, InCall
<1>6. CASE TimedOut(c)
    <2>1. [client[c] EXCEPT !.restart = TRUE] \in Call
        BY <1>1 DEF Call
    <2>2. [client[c] EXCEPT !.restart = TRUE].b \in Batches
        BY <1>1, <1>6 DEF TimedOut, Call, InCall
    <2> QED BY <1>6, <2>1, <2>2, CleanupBatchType, CleanupBatchPlacement DEF TimedOut
<1>7. ASSUME NEW b \in Batches, NEW partial \in BOOLEAN, NEW restart \in BOOLEAN,
             AbortBatch(c, b, partial, restart)
      PROVE  TypeOK' /\ Placement'
    <2> DEFINE call == [Free EXCEPT !.b = b, !.partial = partial, !.restart = restart]
    <2>1. call \in Call /\ call.b \in Batches
        BY DEF Free, Call
    <2>2. CleanupBatch(c, call)
        BY <1>7 DEF AbortBatch
    <2> HIDE DEF call
    <2> QED BY <2>1, <2>2, CleanupBatchType, CleanupBatchPlacement
<1>8. ASSUME NEW r \in Runners, CleanupRestartDone(c, r) PROVE TypeOK' /\ Placement'
    <2>1. TypeOK'
        BY <1>8 DEF CleanupRestartDone, GiveBack, TypeOK
    <2> QED BY <1>8, <2>1, PlacementStable DEF InCall, CleanupRestartDone, Placement
<1>9. ASSUME NEW r \in Runners, CleanupRestartFailed(c, r) PROVE TypeOK' /\ Placement'
    <2>1. [client[c] EXCEPT !.pc = "raised"] \in Call
        BY <1>1 DEF Call
    <2>2. client' = [client EXCEPT ![c] = [client[c] EXCEPT !.pc = "raised"]]
        BY <1>9 DEF CleanupRestartFailed, TypeOK
    <2>3. UNCHANGED <<runnerVars, resultVars, drainVars, futureVars, progressVars, stopVars,
                      pending_tasks, running_tasks, task_num_map, background_tasks, callVars>>
        BY <1>9 DEF CleanupRestartFailed
    <2>4. cleanup_restarts' \subseteq cleanup_restarts
        BY <1>9 DEF CleanupRestartFailed
    <2>5. TypeOK'
        BY <2>1, <2>2, <2>3, <2>4 DEF TypeOK
    <2>6. \A d \in Clients : InCall(d)' => client'[d].b \in Batches
        BY <2>1, <2>2 DEF Placement, InCall, TypeOK
    <2> QED BY <2>3, <2>5, <2>6, PlacementStable
<1> QED BY <1>2, <1>3, <1>4, <1>5, <1>6, <1>7, <1>8, <1>9

LEMMA TypeStepOther ==
    ASSUME TypeOK, Placement,
           \/ \E b \in Batches : DiscardCompletedResults(b)
           \/ Stop \/ StopGathered \/ Stopped \/ Start \/ UNCHANGED vars
    PROVE  TypeOK' /\ Placement'
<1> USE DEF runnerVars, resultVars, drainVars, futureVars, progressVars,
            clientVars, stopVars, callVars, othersOfStop
<1>1. TypeOK'
    <2>1. ASSUME NEW b \in Batches, DiscardCompletedResults(b) PROVE TypeOK'
        BY <2>1, NoResultsType DEF DiscardCompletedResults, TypeOK, ResultTable
    <2>2. CASE Stop
        <3>1. stops' \in 0 .. MaxStops
            BY <2>2 DEF Stop, TypeOK
        <3>2. /\ phase' \in {"up", "stopping", "draining", "down"}
              /\ stop_wait' \subseteq {"future", "restart"} \X Sub
            BY <2>2 DEF Stop, Futures, Restarts, TypeOK
        <3>3. UNCHANGED <<othersOfStop, runnerVars, eager_gather>>
            BY <2>2 DEF Stop
        <3> QED BY <3>1, <3>2, <3>3 DEF TypeOK
    <2>3. CASE StopGathered
        BY <2>3 DEF StopGathered, Restarts, TypeOK
    <2>4. CASE Stopped
        BY <2>4 DEF Stopped, TypeOK
    <2>5. CASE Start
        BY <2>5 DEF Start, TypeOK
    <2>6. CASE UNCHANGED vars
        BY <2>6 DEF vars, TypeOK
    <2> QED BY <2>1, <2>2, <2>3, <2>4, <2>5, <2>6
<1>2. UNCHANGED <<future, runner_of, client, pending_tasks, background_tasks, callVars>>
    BY DEF DiscardCompletedResults, Stop, StopGathered, Stopped, Start, vars
<1>3. Placement'
    BY <1>2 DEF Placement, InFlight, InCall
<1> QED BY <1>1, <1>3

LEMMA TypeInit == Init => TypeOK /\ Placement
<1> SUFFICES ASSUME Init PROVE TypeOK /\ Placement
    OBVIOUS
<1>1. TypeOK
    BY NoResultsType DEF Init, TypeOK, FutureState, Call, Free
<1>2. Placement
    BY DEF Init, Placement, InFlight, InCall, Live, Settled, Free
<1> QED BY <1>1, <1>2

\* Every step keeps the types: TypeOK is inductive together with Placement.
LEMMA TypeStep == TypeOK /\ Placement /\ [Next]_vars => TypeOK' /\ Placement'
<1> SUFFICES ASSUME TypeOK, Placement, [Next]_vars PROVE TypeOK' /\ Placement'
    OBVIOUS
<1> QED BY TypeStepSchedule, TypeStepLoop, TypeStepFuture, TypeStepClient, TypeStepOther DEF Next

\* No table of the scheduler ever holds a key or a value outside its type,
\* whatever the interleaving, the failures and the callers: in particular
\* idle_runners only ever receives runner ids (scheduler.py, the callbacks).
THEOREM TypeCorrect == Spec => []TypeOK
<1>1. Spec => [](TypeOK /\ Placement)
    BY TypeInit, TypeStep, PTL DEF Spec
<1> QED BY <1>1, PTL

-----------------------------------------------------------------------------
(* Futures in custody, whoever calls and whatever fails.                   *)

\* A cleanup still waits for the callback of s.
Awaited(s) == \E c \in Clients : client[c].pc = "gather" /\ s \in client[c].futures

\* A future in flight is registered with its batch or awaited by a cleanup; or a
\* cleanup whose gather was eager has left its callback behind.
Registration ==
    /\ running_tasks \subseteq InFlight
    /\ \A s \in InFlight :
           s \in running_tasks \/ Awaited(s) \/ (eager_gather /\ future[s] \in Settled)

\* What is in flight when stop() has begun is awaited by it, or by a cleanup.
Stopping ==
    /\ phase \in {"stopping", "draining"} =>
           \A s \in InFlight : <<"future", s>> \in stop_wait \/ Awaited(s)
    /\ phase = "down" \/ (phase = "draining" /\ ~eager_gather) =>
           \A s \in InFlight : Awaited(s)

\* Runners are being restarted only for a client that waits for it, or that
\* has already raised because another of its restarts failed.
Restarting ==
    \A c \in Clients, r \in Runners :
        <<c, r>> \in cleanup_restarts => client[c].pc \in {"restart", "raised"}

Custody == Registration /\ Restarting /\ Stopping

\* No settled future is closed.
SettledStay == \A s \in Sub : future[s] \in Settled => future'[s] \in Settled

\* Steps that leave the futures in flight and who is responsible for them alone.
LEMMA CustodyKept ==
    ASSUME Custody, InFlight' = InFlight, SettledStay, running_tasks' = running_tasks,
           \A s \in InFlight : Awaited(s) => Awaited(s)',
           UNCHANGED <<phase, stop_wait, eager_gather>>, Restarting'
    PROVE  Custody'
<1>1. Registration'
    BY DEF Custody, Registration, SettledStay, InFlight
<1>2. Stopping'
    BY DEF Custody, Stopping
<1> QED BY <1>1, <1>2 DEF Custody

\* One client's record changes; unless it was gathering s, nobody stops awaiting s.
LEMMA AwaitedKept ==
    ASSUME TypeOK, NEW c \in Clients, NEW rec, client' = [client EXCEPT ![c] = rec],
           NEW s, Awaited(s), client[c].pc = "gather" => s \notin client[c].futures
    PROVE  Awaited(s)'
<1>1. PICK d \in Clients : client[d].pc = "gather" /\ s \in client[d].futures
    BY DEF Awaited
<1>2. d # c /\ client'[d] = client[d]
    BY <1>1 DEF TypeOK
<1> QED BY <1>1, <1>2 DEF Awaited

\* What schedule() does to the futures: new ones are queued, the others stay.
LEMMA ScheduleFutures ==
    ASSUME TypeOK, Placement, NEW b \in Batches, NEW n \in 1 .. MaxTasks, Schedule(b, n)
    PROVE  /\ InFlight' = InFlight /\ SettledStay
           /\ \A s \in pending_tasks' : s \in pending_tasks \/ (BatchOf(s) = b /\ s[1][2] = calls[b] + 1)
           /\ \A s \in pending_tasks' : s \in Sub
           /\ calls' = [calls EXCEPT ![b] = @ + 1]
           /\ UNCHANGED <<client, cleanup_restarts, running_tasks, completed_tasks, emitted,
                          delivered, phase, stop_wait, eager_gather>>
<1> DEFINE subs == {s \in Sub : BatchOf(s) = b /\ s[1][2] = calls[b] + 1 /\ s[1][3] <= n}
<1>1. /\ pending_tasks' = pending_tasks \cup subs
      /\ future' = [s \in Sub |-> IF s \in subs THEN "queued" ELSE future[s]]
      /\ calls' = [calls EXCEPT ![b] = @ + 1]
      /\ UNCHANGED <<client, cleanup_restarts, running_tasks, completed_tasks, emitted,
                     delivered, phase, stop_wait, eager_gather>>
    BY DEF Schedule, clientVars, stopVars, callVars, resultVars
<1>2. \A s \in subs : future[s] = "none"
    <2>1. calls[b] \in Nat
        BY DEF TypeOK
    <2> QED BY <2>1 DEF Placement, BatchOf
<1>3. \A s \in Sub : (future'[s] \in Live \cup Settled) = (future[s] \in Live \cup Settled)
    BY <1>1, <1>2 DEF Live, Settled
<1>4. InFlight' = InFlight /\ SettledStay
    BY <1>1, <1>2, <1>3 DEF InFlight, SettledStay, Settled
<1>5. \A s \in pending_tasks' : s \in pending_tasks \/ (BatchOf(s) = b /\ s[1][2] = calls[b] + 1)
    BY <1>1
<1>6. \A s \in pending_tasks' : s \in Sub
    BY <1>1 DEF TypeOK
<1> QED BY <1>1, <1>4, <1>5, <1>6

\* What an iteration of the loop does to them: some pending ones start.
LEMMA LoopFutures ==
    ASSUME TypeOK, Placement, SchedulePendingTasks
    PROVE  \E batch \in SUBSET pending_tasks :
               /\ InFlight' = InFlight \cup batch /\ SettledStay
               /\ running_tasks' = running_tasks \cup batch
               /\ pending_tasks' = pending_tasks \ batch
               /\ UNCHANGED <<client, cleanup_restarts, completed_tasks, emitted,
                              delivered, phase, stop_wait, eager_gather, calls, use_start>>
<1>1. PICK batch \in SUBSET pending_tasks : \E on \in [batch -> idle_runners] : StartOn(batch, on)
    BY DEF SchedulePendingTasks
<1>2. /\ future' = [s \in Sub |-> IF s \in batch THEN "running" ELSE future[s]]
      /\ running_tasks' = running_tasks \cup batch
      /\ pending_tasks' = pending_tasks \ batch
      /\ UNCHANGED <<client, cleanup_restarts, completed_tasks, emitted,
                     delivered, phase, stop_wait, eager_gather, calls, use_start>>
    BY <1>1 DEF StartOn, clientVars, stopVars, callVars, resultVars, drainVars
<1>3. batch \subseteq Sub
    BY DEF TypeOK
<1>4. InFlight' = InFlight \cup batch
    BY <1>2, <1>3 DEF InFlight, Live
<1>5. SettledStay
    BY <1>2 DEF SettledStay, Placement, Settled
<1> QED BY <1>2, <1>4, <1>5

\* What the callback of s does to them.
LEMMA CloseFutures ==
    ASSUME TypeOK, NEW s \in Sub, TaskCancelled(s) \/ TaskRaised(s) \/ TaskReturned(s)
    PROVE  /\ InFlight' = InFlight \ {s} /\ s \in InFlight
           /\ \A u \in Sub \ {s} : future'[u] = future[u]
           /\ running_tasks' = running_tasks \ {s}
           /\ UNCHANGED <<client, cleanup_restarts, pending_tasks, delivered, phase, stop_wait, eager_gather, calls, use_start>>
<1>1. /\ future' = [future EXCEPT ![s] = "closed"] /\ future[s] \in Settled
      /\ running_tasks' = running_tasks \ {s}
      /\ UNCHANGED <<client, cleanup_restarts, pending_tasks, delivered, phase, stop_wait, eager_gather, calls, use_start>>
    BY DEF TaskCancelled, TaskRaised, TaskReturned, Close, Settled, clientVars, stopVars, callVars, drainVars
<1> QED BY <1>1 DEF InFlight, TypeOK, Live, Settled

\* Steps that touch no future and no client.
Quiet == UNCHANGED <<future, client, pending_tasks, running_tasks, emitted, calls, use_start>>

LEMMA QuietSteps ==
    ASSUME \/ \E s \in Sub : RestartDone(s) \/ RestartFailed(s)
           \/ \E c \in Clients, r \in Runners : CleanupRestartDone(c, r)
           \/ \E b \in Batches : DiscardCompletedResults(b)
           \/ Stop \/ StopGathered \/ Stopped \/ Start \/ UNCHANGED vars
    PROVE  Quiet
BY DEF Quiet, RestartDone, RestartFailed, CleanupRestartDone, DiscardCompletedResults,
       Stop, StopGathered, Stopped, Start, vars, futureVars, clientVars, callVars, resultVars, othersOfStop

\* What the future of a sub task may do by itself does not change what is in flight.
LEMMA SettleFutures ==
    ASSUME TypeOK, NEW s \in Sub, RunWithRetry(s)
    PROVE  /\ InFlight' = InFlight /\ SettledStay
           /\ UNCHANGED <<client, cleanup_restarts, pending_tasks, running_tasks, completed_tasks,
                          emitted, delivered, phase, stop_wait, eager_gather, calls, use_start>>
<1>1. /\ future[s] \in Live
      /\ \E o \in Settled : future' = [future EXCEPT ![s] = o]
      /\ UNCHANGED <<client, cleanup_restarts, pending_tasks, running_tasks, completed_tasks,
                     emitted, delivered, phase, stop_wait, eager_gather, calls, use_start>>
    BY DEF RunWithRetry, Live, Settled, clientVars, stopVars, callVars, resultVars, drainVars
<1> QED BY <1>1 DEF InFlight, SettledStay, TypeOK, Live, Settled

\* Where a client goes when the cleanup has nothing more to wait for.
LEMMA AfterGatherClient ==
    ASSUME NEW c \in Clients, NEW call \in Call, NEW results, AfterGather(c, call, results)
    PROVE  \E rec :
               /\ client' = [client EXCEPT ![c] = rec]
               /\ \/ rec.pc = "free" /\ cleanup_restarts' = cleanup_restarts
                  \/ /\ rec.pc = "restart" /\ rec.b = call.b
                     /\ cleanup_restarts' \subseteq cleanup_restarts \cup ({c} \X Runners)
<1> DEFINE rs == IF call.restart THEN Restartable(call) ELSE {}
           again == [call EXCEPT !.pc = "restart"]
<1>1. CASE rs = {}
    <2>1. client' = [client EXCEPT ![c] = Free] /\ cleanup_restarts' = cleanup_restarts
        BY <1>1 DEF AfterGather, Return
    <2>2. Free.pc = "free"
        BY DEF Free
    <2> QED BY <2>1, <2>2
<1>2. CASE rs # {}
    <2>1. client' = [client EXCEPT ![c] = again] /\ cleanup_restarts' = cleanup_restarts \cup ({c} \X rs)
        BY <1>2 DEF AfterGather
    <2>2. again.pc = "restart" /\ again.b = call.b
        BY DEF Call
    <2>3. rs \subseteq Runners
        BY DEF Restartable
    <2> HIDE DEF again, rs
    <2> QED BY <2>1, <2>2, <2>3
<1> QED BY <1>1, <1>2

\* What a cleanup does: the batch has nothing queued or registered any more,
\* and what was registered is now awaited by the client.
LEMMA CleanupFutures ==
    ASSUME TypeOK, Placement, NEW c \in Clients, NEW call \in Call, CleanupBatch(c, call)
    PROVE  /\ InFlight' = InFlight /\ SettledStay
           /\ pending_tasks' = {s \in pending_tasks : BatchOf(s) # call.b}
           /\ running_tasks' = {s \in running_tasks : BatchOf(s) # call.b}
           /\ UNCHANGED <<phase, stop_wait, eager_gather, calls, use_start>>
           /\ \E rec :
               /\ client' = [client EXCEPT ![c] = rec]
               /\ \/ /\ rec.pc = "gather" /\ rec.b = call.b
                     /\ rec.futures = {s \in running_tasks : BatchOf(s) = call.b}
                     /\ cleanup_restarts' = cleanup_restarts
                  \/ /\ GatherDone({s \in running_tasks : BatchOf(s) = call.b})
                     /\ \/ rec.pc = "free" /\ cleanup_restarts' = cleanup_restarts
                        \/ /\ rec.pc = "restart" /\ rec.b = call.b
                           /\ cleanup_restarts' \subseteq cleanup_restarts \cup ({c} \X Runners)
<1> DEFINE queued == {s \in pending_tasks : BatchOf(s) = call.b}
           inflight == {s \in running_tasks : BatchOf(s) = call.b}
           gathering == [call EXCEPT !.pc = "gather", !.futures = inflight]
<1>1. /\ pending_tasks' = pending_tasks \ queued
      /\ running_tasks' = running_tasks \ inflight
      /\ UNCHANGED <<phase, stop_wait, eager_gather, calls, use_start>>
      /\ future' = [s \in Sub |->
              IF s \in queued THEN "dropped"
              ELSE IF s \in inflight /\ future[s] = "running" THEN "cancelling"
              ELSE future[s]]
    BY DEF CleanupBatch, stopVars, callVars
<1>2. \A s \in queued : future[s] = "queued"
    BY DEF Placement
<1>3. InFlight' = InFlight /\ SettledStay
    <2> HIDE DEF queued, inflight
    <2> QED BY <1>1, <1>2 DEF InFlight, SettledStay, Live, Settled
<1>4. CASE ~GatherDone(inflight)
    <2>1. client' = [client EXCEPT ![c] = gathering] /\ cleanup_restarts' = cleanup_restarts
        BY <1>4 DEF CleanupBatch
    <2>2. gathering.pc = "gather" /\ gathering.b = call.b /\ gathering.futures = inflight
        BY DEF Call
    <2> HIDE DEF gathering
    <2> QED BY <1>1, <1>3, <2>1, <2>2
<1>5. CASE GatherDone(inflight)
    <2> DEFINE done == [call EXCEPT !.futures = inflight]
    <2>0. done \in Call /\ done.b = call.b
        BY DEF Call, TypeOK
    <2>1. PICK results : AfterGather(c, done, results)
        BY <1>5 DEF CleanupBatch
    <2> HIDE DEF done
    <2>2. PICK rec :
              /\ client' = [client EXCEPT ![c] = rec]
              /\ \/ rec.pc = "free" /\ cleanup_restarts' = cleanup_restarts
                 \/ /\ rec.pc = "restart" /\ rec.b = call.b
                    /\ cleanup_restarts' \subseteq cleanup_restarts \cup ({c} \X Runners)
        BY <2>0, <2>1, AfterGatherClient
    <2> QED BY <1>1, <1>3, <1>5, <2>2
<1> QED BY <1>4, <1>5

\* A cleanup is started from outside a call or while polling, on a batch that
\* is the client's own or that is available.
LEMMA CleanupSteps ==
    ASSUME TypeOK, Placement, NEW c \in Clients,
           \/ MinCompleted(c) \/ TimedOut(c)
           \/ \E b \in Batches, partial, restart \in BOOLEAN : AbortBatch(c, b, partial, restart)
    PROVE  /\ client[c].pc \in {"free", "wait"}
           /\ \E call \in Call :
                  /\ CleanupBatch(c, call) /\ call.b \in Batches
                  /\ \/ InCall(c) /\ call.b = client[c].b
                     \/ Available(call.b)
<1>1. client[c] \in Call /\ (InCall(c) => client[c].b \in Batches)
    BY DEF TypeOK, Placement
<1>2. CASE MinCompleted(c)
    BY <1>1, <1>2 DEF MinCompleted, InCall
<1>3. CASE TimedOut(c)
    <2> DEFINE call == [client[c] EXCEPT !.restart = TRUE]
    <2>1. call \in Call /\ call.b = client[c].b
        BY <1>1 DEF Call
    <2>2. client[c].pc = "wait" /\ CleanupBatch(c, call)
        BY <1>3 DEF TimedOut
    <2> HIDE DEF call
    <2> QED BY <1>1, <2>1, <2>2 DEF InCall
<1>4. ASSUME NEW b \in Batches, NEW partial \in BOOLEAN, NEW restart \in BOOLEAN,
             AbortBatch(c, b, partial, restart)
      PROVE  /\ client[c].pc = "free"
             /\ \E call \in Call : CleanupBatch(c, call) /\ call.b \in Batches /\ Available(call.b)
    <2> DEFINE call == [Free EXCEPT !.b = b, !.partial = partial, !.restart = restart]
    <2>1. call \in Call /\ call.b = b
        BY DEF Free, Call
    <2>2. client[c].pc = "free" /\ CleanupBatch(c, call) /\ Available(b)
        BY <1>4 DEF AbortBatch
    <2> HIDE DEF call
    <2> QED BY <2>1, <2>2
<1> QED BY <1>2, <1>3, <1>4

\* A poll or a cleanup that ends: the client is free again.
LEMMA ReturnSteps ==
    ASSUME NEW c \in Clients, AllCompleted(c) \/ GiveUpWaiting(c) \/ Restarted(c)
    PROVE  /\ InFlight' = InFlight /\ SettledStay
           /\ client' = [client EXCEPT ![c] = Free] /\ Free.pc = "free"
           /\ client[c].pc = "wait" \/ (client[c].pc = "restart" /\ \A r \in Runners : <<c, r>> \notin cleanup_restarts)
           /\ UNCHANGED <<cleanup_restarts, pending_tasks, running_tasks, emitted, phase, stop_wait, eager_gather, calls, use_start>>
<1>1. Free.pc = "free"
    BY DEF Free
<1> QED BY <1>1 DEF AllCompleted, GiveUpWaiting, Restarted, Return, futureVars, stopVars, callVars, InFlight,
       SettledStay

LEMMA GatheredStep ==
    ASSUME TypeOK, NEW c \in Clients, Gathered(c)
    PROVE  /\ InFlight' = InFlight /\ SettledStay
           /\ client[c].pc = "gather" /\ \A s \in client[c].futures : s \notin InFlight
           /\ UNCHANGED <<pending_tasks, running_tasks, emitted, phase, stop_wait, eager_gather, calls, use_start>>
           /\ \E rec :
                  /\ client' = [client EXCEPT ![c] = rec]
                  /\ \/ rec.pc = "free" /\ cleanup_restarts' = cleanup_restarts
                     \/ /\ rec.pc = "restart" /\ rec.b = client[c].b
                        /\ cleanup_restarts' \subseteq cleanup_restarts \cup ({c} \X Runners)
<1> DEFINE call == [client[c] EXCEPT !.futures = {}]
<1>1. call \in Call /\ call.b = client[c].b /\ AfterGather(c, call, completed_tasks)
    <2>1. client[c] \in Call
        BY DEF TypeOK
    <2> QED BY <2>1 DEF Call, Gathered
<1>2. \A s \in client[c].futures : s \notin InFlight
    BY DEF Gathered, AllClosed, InFlight, Live, Settled
<1>3. InFlight' = InFlight /\ SettledStay /\ client[c].pc = "gather"
      /\ UNCHANGED <<pending_tasks, running_tasks, emitted, phase, stop_wait, eager_gather, calls, use_start>>
    BY DEF Gathered, InFlight, SettledStay, futureVars, stopVars, callVars
<1> HIDE DEF call
<1> QED BY <1>1, <1>2, <1>3, AfterGatherClient

LEMMA GetSteps ==
    ASSUME NEW c \in Clients,
           NEW b \in Batches, NEW m \in 0 .. MaxTasks, NEW clear \in BOOLEAN, NEW partial \in BOOLEAN,
           GetPayloadResults(c, b, m, clear, partial)
    PROVE  /\ InFlight' = InFlight /\ SettledStay
           /\ client[c].pc = "free" /\ Available(b)
           /\ \E rec : client' = [client EXCEPT ![c] = rec] /\ rec.pc = "wait" /\ rec.b = b
           /\ UNCHANGED <<cleanup_restarts, pending_tasks, running_tasks, completed_tasks, emitted,
                          delivered, phase, stop_wait, eager_gather, calls, use_start>>
<1> DEFINE min == IF m = 0 \/ m > task_num_map[b] THEN task_num_map[b] ELSE m
           call == [Free EXCEPT !.pc = "wait", !.b = b, !.scheduled = task_num_map[b],
                                !.min = min, !.clear = clear, !.partial = partial,
                                !.drain = TRUE]
<1>1. call.pc = "wait" /\ call.b = b
    BY DEF Free
<1>2. client' = [client EXCEPT ![c] = call]
    BY DEF GetPayloadResults
<1>3. /\ InFlight' = InFlight /\ SettledStay
      /\ client[c].pc = "free" /\ Available(b)
      /\ UNCHANGED <<cleanup_restarts, pending_tasks, running_tasks, completed_tasks, emitted,
                     delivered, phase, stop_wait, eager_gather, calls, use_start>>
    BY DEF GetPayloadResults, InFlight, SettledStay, futureVars, stopVars, callVars, resultVars, drainVars
<1> HIDE DEF call
<1> QED BY <1>1, <1>2, <1>3

LEMMA CustodyInit == Init => Custody
BY DEF Init, Custody, Registration, Restarting, Stopping, InFlight, Live, Settled

LEMMA CustodyClients ==
    ASSUME TypeOK, Placement, Custody, NEW c \in Clients,
           \/ \E b \in Batches, m \in 0 .. MaxTasks, clear, partial \in BOOLEAN :
                  GetPayloadResults(c, b, m, clear, partial)
           \/ AllCompleted(c) \/ GiveUpWaiting(c) \/ MinCompleted(c) \/ TimedOut(c)
           \/ \E b \in Batches, partial, restart \in BOOLEAN : AbortBatch(c, b, partial, restart)
           \/ Gathered(c) \/ Restarted(c)
           \/ \E r \in Runners : CleanupRestartDone(c, r) \/ CleanupRestartFailed(c, r)
    PROVE  Custody'
<1>0. Restarting
    BY DEF Custody
<1>1. ASSUME NEW b \in Batches, NEW m \in 0 .. MaxTasks, NEW clear \in BOOLEAN,
             NEW partial \in BOOLEAN, GetPayloadResults(c, b, m, clear, partial)
      PROVE  Custody'
    <2>1. PICK rec : client' = [client EXCEPT ![c] = rec] /\ rec.pc = "wait"
        BY <1>1, GetSteps
    <2>2. /\ InFlight' = InFlight /\ SettledStay /\ client[c].pc = "free"
          /\ UNCHANGED <<cleanup_restarts, running_tasks, phase, stop_wait, eager_gather>>
        BY <1>1, GetSteps
    <2>3. \A s \in InFlight : Awaited(s) => Awaited(s)'
        BY <2>1, <2>2, AwaitedKept
    <2>4. Restarting'
        BY <1>0, <2>1, <2>2 DEF Restarting, TypeOK
    <2> QED BY <2>2, <2>3, <2>4, CustodyKept
<1>2. CASE AllCompleted(c) \/ GiveUpWaiting(c) \/ Restarted(c)
    <2>1. /\ InFlight' = InFlight /\ SettledStay
          /\ client' = [client EXCEPT ![c] = Free] /\ Free.pc = "free"
          /\ client[c].pc = "wait" \/ (client[c].pc = "restart" /\ \A r \in Runners : <<c, r>> \notin cleanup_restarts)
          /\ UNCHANGED <<cleanup_restarts, running_tasks, phase, stop_wait, eager_gather>>
        BY <1>2, ReturnSteps
    <2>2. \A s \in InFlight : Awaited(s) => Awaited(s)'
        BY <2>1, AwaitedKept
    <2>3. Restarting'
        BY <1>0, <2>1 DEF Restarting, TypeOK
    <2> QED BY <2>1, <2>2, <2>3, CustodyKept
<1>3. CASE Gathered(c)
    <2>1. /\ InFlight' = InFlight /\ SettledStay
          /\ client[c].pc = "gather" /\ \A s \in client[c].futures : s \notin InFlight
          /\ UNCHANGED <<running_tasks, phase, stop_wait, eager_gather>>
        BY <1>3, GatheredStep
    <2>2. PICK rec :
              /\ client' = [client EXCEPT ![c] = rec]
              /\ \/ rec.pc = "free" /\ cleanup_restarts' = cleanup_restarts
                 \/ rec.pc = "restart" /\ cleanup_restarts' \subseteq cleanup_restarts \cup ({c} \X Runners)
        BY <1>3, GatheredStep
    <2>3. \A s \in InFlight : Awaited(s) => Awaited(s)'
        BY <2>1, <2>2, AwaitedKept
    <2>4. Restarting'
        BY <1>0, <2>1, <2>2 DEF Restarting, TypeOK
    <2> QED BY <2>1, <2>3, <2>4, CustodyKept
<1>4. CASE \/ MinCompleted(c) \/ TimedOut(c)
           \/ \E b \in Batches, partial, restart \in BOOLEAN : AbortBatch(c, b, partial, restart)
    <2>1. client[c].pc \in {"free", "wait"}
        BY <1>4, CleanupSteps
    <2>2. PICK call \in Call : CleanupBatch(c, call)
        BY <1>4, CleanupSteps
    <2>3. /\ InFlight' = InFlight /\ SettledStay
          /\ running_tasks' = {s \in running_tasks : BatchOf(s) # call.b}
          /\ UNCHANGED <<phase, stop_wait, eager_gather>>
        BY <2>2, CleanupFutures
    <2> DEFINE inflight == {s \in running_tasks : BatchOf(s) = call.b}
    <2>4. PICK rec :
              /\ client' = [client EXCEPT ![c] = rec]
              /\ \/ /\ rec.pc = "gather" /\ rec.b = call.b
                    /\ rec.futures = inflight
                    /\ cleanup_restarts' = cleanup_restarts
                 \/ /\ GatherDone(inflight)
                    /\ \/ rec.pc = "free" /\ cleanup_restarts' = cleanup_restarts
                       \/ /\ rec.pc = "restart" /\ rec.b = call.b
                          /\ cleanup_restarts' \subseteq cleanup_restarts \cup ({c} \X Runners)
        BY <2>2, CleanupFutures
    <2>5. \A s \in InFlight : Awaited(s) => Awaited(s)'
        BY <2>1, <2>4, AwaitedKept
    <2>6. \A s \in running_tasks \ running_tasks' :
              Awaited(s)' \/ (eager_gather /\ future[s] \in Settled)
        <3> SUFFICES ASSUME NEW s \in running_tasks \ running_tasks',
                            ~(eager_gather /\ future[s] \in Settled)
                     PROVE  Awaited(s)'
            OBVIOUS
        <3>1. BatchOf(s) = call.b
            BY <2>3
        <3>2. ~GatherDone(inflight)
            BY <3>1 DEF GatherDone
        <3>3. client'[c] = rec /\ rec.pc = "gather" /\ s \in rec.futures
            BY <2>4, <3>1, <3>2 DEF TypeOK
        <3> QED BY <3>3 DEF Awaited
    <2>7. Restarting'
        BY <1>0, <2>1, <2>4 DEF Restarting, TypeOK
    <2>8. Registration'
        BY <2>3, <2>5, <2>6 DEF Custody, Registration, SettledStay, InFlight
    <2>9. Stopping'
        BY <2>3, <2>5 DEF Custody, Stopping
    <2> QED BY <2>7, <2>8, <2>9 DEF Custody
<1>5. ASSUME NEW r \in Runners, CleanupRestartDone(c, r) PROVE Custody'
    <2>1. /\ InFlight' = InFlight /\ SettledStay /\ cleanup_restarts' \subseteq cleanup_restarts
          /\ UNCHANGED <<client, running_tasks, phase, stop_wait, eager_gather>>
        BY <1>5 DEF CleanupRestartDone, SettledStay, InFlight, futureVars, stopVars
    <2>2. Restarting' /\ \A s \in InFlight : Awaited(s) => Awaited(s)'
        BY <1>0, <2>1 DEF Restarting, Awaited
    <2> QED BY <2>1, <2>2, CustodyKept
<1>6. ASSUME NEW r \in Runners, CleanupRestartFailed(c, r) PROVE Custody'
    <2> DEFINE rec == [client[c] EXCEPT !.pc = "raised"]
    <2>1. /\ InFlight' = InFlight /\ SettledStay /\ cleanup_restarts' \subseteq cleanup_restarts
          /\ UNCHANGED <<running_tasks, phase, stop_wait, eager_gather>>
          /\ client' = [client EXCEPT ![c] = rec]
          /\ <<c, r>> \in cleanup_restarts
        BY <1>6 DEF CleanupRestartFailed, SettledStay, InFlight, futureVars, stopVars
    <2>2. rec.pc = "raised" /\ client[c].pc # "gather"
        <3>1. client[c] \in Call
            BY DEF TypeOK
        <3>2. rec.pc = "raised"
            BY <3>1 DEF Call
        <3>3. client[c].pc \in {"restart", "raised"}
            BY <1>0, <2>1 DEF Restarting
        <3> QED BY <3>2, <3>3
    <2> HIDE DEF rec
    <2>3. \A s \in InFlight : Awaited(s) => Awaited(s)'
        BY <2>1, <2>2, AwaitedKept
    <2>4. Restarting'
        BY <1>0, <2>1, <2>2 DEF Restarting, TypeOK
    <2> QED BY <2>1, <2>3, <2>4, CustodyKept
<1> QED BY <1>1, <1>2, <1>3, <1>4, <1>5, <1>6

LEMMA CustodyStep ==
    ASSUME TypeOK, Placement, Custody, [Next]_vars
    PROVE  Custody'
<1>0. Registration /\ Restarting /\ Stopping
    BY DEF Custody
<1>1. ASSUME NEW b \in Batches, NEW n \in 1 .. MaxTasks, Schedule(b, n) PROVE Custody'
    <2>1. InFlight' = InFlight /\ SettledStay /\ UNCHANGED <<client, cleanup_restarts, running_tasks, phase, stop_wait, eager_gather>>
        BY <1>1, ScheduleFutures
    <2> QED BY <1>0, <2>1, CustodyKept DEF Restarting, Awaited
<1>2. CASE SchedulePendingTasks
    <2>1. PICK batch \in SUBSET pending_tasks :
              /\ InFlight' = InFlight \cup batch /\ SettledStay
              /\ running_tasks' = running_tasks \cup batch
              /\ UNCHANGED <<client, cleanup_restarts, phase, eager_gather>>
        BY <1>2, LoopFutures
    <2>2. phase' = "up"
        BY <1>2, <2>1 DEF SchedulePendingTasks, Running
    <2>3. Registration'
        BY <1>0, <2>1 DEF Registration, Awaited, SettledStay, InFlight
    <2> QED BY <1>0, <2>1, <2>2, <2>3 DEF Custody, Restarting, Stopping
<1>3. ASSUME NEW s \in Sub, RunWithRetry(s) PROVE Custody'
    <2>1. InFlight' = InFlight /\ SettledStay /\ UNCHANGED <<client, cleanup_restarts, running_tasks, phase, stop_wait, eager_gather>>
        BY <1>3, SettleFutures
    <2> QED BY <1>0, <2>1, CustodyKept DEF Restarting, Awaited
<1>4. ASSUME NEW s \in Sub, TaskCancelled(s) \/ TaskRaised(s) \/ TaskReturned(s) PROVE Custody'
    <2>1. /\ InFlight' = InFlight \ {s} /\ running_tasks' = running_tasks \ {s}
          /\ \A u \in Sub \ {s} : future'[u] = future[u]
          /\ UNCHANGED <<client, cleanup_restarts, phase, stop_wait, eager_gather>>
        BY <1>4, CloseFutures
    <2>2. Registration'
        BY <1>0, <2>1 DEF Registration, Awaited, InFlight
    <2>3. Stopping'
        BY <1>0, <2>1 DEF Stopping, Awaited
    <2> QED BY <1>0, <2>1, <2>2, <2>3 DEF Custody, Restarting
<1>5. ASSUME NEW s \in Sub, RestartDone(s) \/ RestartFailed(s) PROVE Custody'
    <2>1. InFlight' = InFlight /\ SettledStay /\ UNCHANGED <<client, cleanup_restarts, running_tasks, phase, stop_wait, eager_gather>>
        BY <1>5 DEF RestartDone, RestartFailed, SettledStay, InFlight, clientVars, stopVars, callVars
    <2> QED BY <1>0, <2>1, CustodyKept DEF Restarting, Awaited
<1>6. CASE (\E b \in Batches : DiscardCompletedResults(b)) \/ UNCHANGED vars
    <2>1. InFlight' = InFlight /\ SettledStay /\ UNCHANGED <<client, cleanup_restarts, running_tasks, phase, stop_wait, eager_gather>>
        BY <1>6 DEF DiscardCompletedResults, vars, SettledStay, InFlight, futureVars, clientVars, stopVars, callVars
    <2> QED BY <1>0, <2>1, CustodyKept DEF Restarting, Awaited
<1>7. CASE Stop \/ StopGathered \/ Stopped \/ Start
    <2>1. UNCHANGED <<future, client, cleanup_restarts, running_tasks, eager_gather>>
        BY <1>7 DEF Stop, StopGathered, Stopped, Start, othersOfStop, futureVars, clientVars
    <2>2. Registration' /\ Restarting' /\ InFlight' = InFlight /\ \A s \in Sub : Awaited(s)' = Awaited(s)
        BY <1>0, <2>1 DEF Registration, Restarting, Awaited, InFlight
    <2>3. Stopping'
        <3>1. CASE Stop
            <4>1. \A s \in InFlight : <<"future", s>> \in stop_wait' \/ Awaited(s)
                BY <1>0, <3>1 DEF Stop, Registration, Futures, GatherDone, InFlight
            <4>2. phase' \in {"stopping", "draining"}
                BY <3>1 DEF Stop
            <4>3. phase' = "draining" /\ ~eager_gather => running_tasks = {}
                BY <3>1 DEF Stop, GatherDone
            <4> QED BY <1>0, <2>1, <2>2, <4>1, <4>2, <4>3 DEF Registration, Stopping, InFlight
        <3>2. CASE StopGathered \/ Stopped
            <4>1. \A s \in InFlight : <<"future", s>> \notin stop_wait
                BY <3>2 DEF StopGathered, Stopped, AllClosed, InFlight, Live, Settled
            <4>2. \A s \in InFlight : Awaited(s)
                BY <1>0, <3>2, <4>1 DEF StopGathered, Stopped, Stopping
            <4> QED BY <2>2, <4>2 DEF Stopping, InFlight
        <3>3. CASE Start
            BY <3>3 DEF Start, Stopping
        <3> QED BY <1>7, <3>1, <3>2, <3>3
    <2> QED BY <2>2, <2>3 DEF Custody
<1> QED BY <1>1, <1>2, <1>3, <1>4, <1>5, <1>6, <1>7, CustodyClients DEF Next

\* Once stop() has gathered the running futures, nothing is in flight but what
\* a concurrent cleanup is waiting for: of every scheduler, also when runner
\* actors die, restarts fail and callers of one batch overlap.
THEOREM StopLeavesNothing == Spec => []StopQuiesces
<1>1. Init => TypeOK /\ Placement /\ Custody
    BY TypeInit, CustodyInit
<1>2. TypeOK /\ Placement /\ Custody /\ [Next]_vars => TypeOK' /\ Placement' /\ Custody'
    BY TypeStep, CustodyStep
<1>3. Custody => StopQuiesces
    BY DEF Custody, Stopping, StopQuiesces, Awaited
<1> QED BY <1>1, <1>2, <1>3, PTL DEF Spec

\* No step changes the Python version.
LEMMA EagerGatherFixed == ASSUME [Next]_vars PROVE eager_gather' = eager_gather
<1> USE DEF stopVars
<1>1. ASSUME NEW s \in Sub,
             \/ RunWithRetry(s) \/ TaskCancelled(s) \/ TaskRaised(s)
             \/ TaskReturned(s) \/ RestartDone(s) \/ RestartFailed(s)
      PROVE  eager_gather' = eager_gather
    BY <1>1 DEF RunWithRetry, TaskCancelled, TaskRaised, TaskReturned, RestartDone,
       RestartFailed, Close
<1>2. ASSUME NEW c, NEW call, CleanupBatch(c, call) PROVE eager_gather' = eager_gather
    BY <1>2 DEF CleanupBatch
<1>3. ASSUME NEW c, MinCompleted(c) \/ TimedOut(c) PROVE eager_gather' = eager_gather
    BY <1>2, <1>3 DEF MinCompleted, TimedOut
<1>4. ASSUME NEW c, NEW b, NEW partial, NEW restart, AbortBatch(c, b, partial, restart)
      PROVE  eager_gather' = eager_gather
    BY <1>2, <1>4 DEF AbortBatch
<1>5. ASSUME NEW c, AllCompleted(c) \/ GiveUpWaiting(c) \/ Gathered(c) \/ Restarted(c)
      PROVE  eager_gather' = eager_gather
    BY <1>5 DEF AllCompleted, GiveUpWaiting, Gathered, Restarted
<1>6. ASSUME NEW c, NEW r, CleanupRestartDone(c, r) \/ CleanupRestartFailed(c, r)
      PROVE  eager_gather' = eager_gather
    BY <1>6 DEF CleanupRestartDone, CleanupRestartFailed
<1>7. ASSUME NEW c, NEW b, NEW m, NEW clear, NEW partial,
             GetPayloadResults(c, b, m, clear, partial)
      PROVE  eager_gather' = eager_gather
    BY <1>7 DEF GetPayloadResults
<1>8. ASSUME NEW b, NEW n, Schedule(b, n) \/ DiscardCompletedResults(b)
      PROVE  eager_gather' = eager_gather
    BY <1>8 DEF Schedule, DiscardCompletedResults
<1>9. CASE SchedulePendingTasks
    BY <1>9 DEF SchedulePendingTasks, StartOn
<1>10. CASE Stop \/ StopGathered \/ Stopped \/ Start \/ UNCHANGED vars
    BY <1>10 DEF Stop, StopGathered, Stopped, Start, vars
<1> QED BY <1>1, <1>3, <1>4, <1>5, <1>6, <1>7, <1>8, <1>9, <1>10 DEF Next

-----------------------------------------------------------------------------
(* Turns: what the finalize lock gives, also when actors and restarts fail. *)

\* Callers of one batch take turns, and while one of them is past the point
\* where it cleared the batch nothing new of the batch is queued or running.
Turns ==
    /\ \A c, d \in Clients :
           InCall(c) /\ InCall(d) /\ client[c].b = client[d].b => c = d
    /\ \A c \in Clients : client[c].pc \in {"gather", "restart"} =>
           \A s \in pending_tasks \cup running_tasks : BatchOf(s) # client[c].b
    /\ \A c \in Clients : client[c].pc = "gather" =>
           \A s \in client[c].futures : BatchOf(s) = client[c].b

LEMMA TurnsInit == Init => Turns
BY DEF Init, Turns, InCall, Free

\* Turns as fewer sub tasks wait or run and no client moves.
LEMMA TurnsKept ==
    ASSUME Turns, UNCHANGED client,
           pending_tasks' \cup running_tasks' \subseteq pending_tasks \cup running_tasks
    PROVE  Turns'
BY DEF Turns, InCall

\* Turns as one client moves within its call, leaves it, or enters one that is
\* available, or clears its batch.
LEMMA TurnsClient ==
    ASSUME Exclusive, TypeOK, Turns, NEW c \in Clients, NEW rec, client' = [client EXCEPT ![c] = rec],
           pending_tasks' \cup running_tasks' \subseteq pending_tasks \cup running_tasks,
           \/ rec.pc \notin {"wait", "gather", "restart"}
           \/ /\ \/ InCall(c) /\ rec.b = client[c].b
                 \/ Available(rec.b)
              /\ rec.pc \in {"gather", "restart"} =>
                     \A s \in pending_tasks' \cup running_tasks' : BatchOf(s) # rec.b
              /\ rec.pc = "gather" => \A s \in rec.futures : BatchOf(s) = rec.b
    PROVE  Turns'
<1>1. \A d \in Clients : client'[d] = IF d = c THEN rec ELSE client[d]
    BY DEF TypeOK
<1>2. \A d, e \in Clients :
          InCall(d)' /\ InCall(e)' /\ client'[d].b = client'[e].b => d = e
    <2> SUFFICES ASSUME NEW d \in Clients, NEW e \in Clients, InCall(d)', InCall(e)',
                        client'[d].b = client'[e].b, d # e
                 PROVE  FALSE
        OBVIOUS
    <2>1. CASE d = c
        <3>1. InCall(e) /\ client[e].b = rec.b
            BY <1>1, <2>1 DEF InCall
        <3>2. rec.pc \in {"wait", "gather", "restart"}
            BY <1>1, <2>1 DEF InCall
        <3> QED BY <2>1, <3>1, <3>2 DEF Turns, Available
    <2>2. CASE e = c
        <3>1. InCall(d) /\ client[d].b = rec.b
            BY <1>1, <2>2 DEF InCall
        <3>2. rec.pc \in {"wait", "gather", "restart"}
            BY <1>1, <2>2 DEF InCall
        <3> QED BY <2>2, <3>1, <3>2 DEF Turns, Available
    <2>3. CASE d # c /\ e # c
        BY <1>1, <2>3 DEF Turns, InCall
    <2> QED BY <2>1, <2>2, <2>3
<1>3. \A d \in Clients : client'[d].pc \in {"gather", "restart"} =>
          \A s \in pending_tasks' \cup running_tasks' : BatchOf(s) # client'[d].b
    <2> SUFFICES ASSUME NEW d \in Clients, client'[d].pc \in {"gather", "restart"},
                        NEW s \in pending_tasks' \cup running_tasks'
                 PROVE  BatchOf(s) # client'[d].b
        OBVIOUS
    <2>1. CASE d = c
        BY <1>1, <2>1
    <2>2. CASE d # c
        BY <1>1, <2>2 DEF Turns
    <2> QED BY <2>1, <2>2
<1>4. \A d \in Clients : client'[d].pc = "gather" =>
          \A s \in client'[d].futures : BatchOf(s) = client'[d].b
    BY <1>1 DEF Turns
<1> QED BY <1>2, <1>3, <1>4 DEF Turns

LEMMA TurnsStep ==
    ASSUME Exclusive, TypeOK, Placement, Custody, Turns, [Next]_vars
    PROVE  Turns'
<1>1. ASSUME NEW b \in Batches, NEW n \in 1 .. MaxTasks, Schedule(b, n) PROVE Turns'
    <2>1. /\ \A s \in pending_tasks' : s \in pending_tasks \/ BatchOf(s) = b
          /\ UNCHANGED <<client, running_tasks>>
        BY <1>1, ScheduleFutures
    <2>2. \A c \in Clients : InCall(c) => client[c].b # b
        BY <1>1 DEF Schedule, Available
    <2> QED BY <2>1, <2>2 DEF Turns, InCall
<1>2. CASE SchedulePendingTasks
    <2>1. PICK batch \in SUBSET pending_tasks :
              /\ running_tasks' = running_tasks \cup batch
              /\ pending_tasks' = pending_tasks \ batch
              /\ UNCHANGED client
        BY <1>2, LoopFutures
    <2> QED BY <2>1, TurnsKept
<1>3. ASSUME NEW s \in Sub,
             \/ RunWithRetry(s) \/ TaskCancelled(s) \/ TaskRaised(s) \/ TaskReturned(s)
      PROVE  Turns'
    <2>1. UNCHANGED <<client, pending_tasks>> /\ running_tasks' \subseteq running_tasks
        BY <1>3, SettleFutures, CloseFutures
    <2> QED BY <2>1, TurnsKept
<1>4. CASE \/ \E s \in Sub : RestartDone(s) \/ RestartFailed(s)
           \/ \E c \in Clients, r \in Runners : CleanupRestartDone(c, r)
           \/ \E b \in Batches : DiscardCompletedResults(b)
           \/ Stop \/ StopGathered \/ Stopped \/ Start \/ UNCHANGED vars
    BY <1>4, QuietSteps, TurnsKept DEF Quiet
<1>5. ASSUME NEW c \in Clients, NEW b \in Batches, NEW m \in 0 .. MaxTasks, NEW clear \in BOOLEAN,
             NEW partial \in BOOLEAN, GetPayloadResults(c, b, m, clear, partial)
      PROVE  Turns'
    <2>1. PICK rec : client' = [client EXCEPT ![c] = rec] /\ rec.pc = "wait" /\ rec.b = b
        BY <1>5, GetSteps
    <2>2. Available(b) /\ UNCHANGED <<pending_tasks, running_tasks>>
        BY <1>5, GetSteps
    <2> QED BY <2>1, <2>2, TurnsClient
<1>6. ASSUME NEW c \in Clients, AllCompleted(c) \/ GiveUpWaiting(c) \/ Restarted(c) PROVE Turns'
    <2>1. /\ client' = [client EXCEPT ![c] = Free] /\ Free.pc = "free"
          /\ UNCHANGED <<pending_tasks, running_tasks>>
        BY <1>6, ReturnSteps
    <2> QED BY <2>1, TurnsClient
<1>7. ASSUME NEW c \in Clients, Gathered(c) PROVE Turns'
    <2>1. client[c].pc = "gather" /\ UNCHANGED <<pending_tasks, running_tasks>>
        BY <1>7, GatheredStep
    <2>2. PICK rec :
              /\ client' = [client EXCEPT ![c] = rec]
              /\ rec.pc = "free" \/ (rec.pc = "restart" /\ rec.b = client[c].b)
        BY <1>7, GatheredStep
    <2>3. InCall(c) /\ \A s \in pending_tasks \cup running_tasks : BatchOf(s) # client[c].b
        BY <2>1 DEF Turns, InCall
    <2> QED BY <2>1, <2>2, <2>3, TurnsClient
<1>8. ASSUME NEW c \in Clients,
             \/ MinCompleted(c) \/ TimedOut(c)
             \/ \E b \in Batches, partial, restart \in BOOLEAN : AbortBatch(c, b, partial, restart)
      PROVE  Turns'
    <2>1. PICK call \in Call :
              /\ CleanupBatch(c, call)
              /\ \/ InCall(c) /\ call.b = client[c].b
                 \/ Available(call.b)
        BY <1>8, CleanupSteps
    <2>2. /\ pending_tasks' = {s \in pending_tasks : BatchOf(s) # call.b}
          /\ running_tasks' = {s \in running_tasks : BatchOf(s) # call.b}
        BY <2>1, CleanupFutures
    <2> DEFINE inflight == {s \in running_tasks : BatchOf(s) = call.b}
    <2>3. PICK rec :
              /\ client' = [client EXCEPT ![c] = rec]
              /\ \/ /\ rec.pc = "gather" /\ rec.b = call.b
                    /\ rec.futures = inflight
                    /\ cleanup_restarts' = cleanup_restarts
                 \/ /\ GatherDone(inflight)
                    /\ \/ rec.pc = "free" /\ cleanup_restarts' = cleanup_restarts
                       \/ /\ rec.pc = "restart" /\ rec.b = call.b
                          /\ cleanup_restarts' \subseteq cleanup_restarts \cup ({c} \X Runners)
        BY <2>1, CleanupFutures
    <2>4. /\ pending_tasks' \cup running_tasks' \subseteq pending_tasks \cup running_tasks
          /\ \A s \in pending_tasks' \cup running_tasks' : BatchOf(s) # call.b
        BY <2>2
    <2>5. rec.pc = "gather" => \A s \in rec.futures : BatchOf(s) = rec.b
        BY <2>3
    <2>6. \/ rec.pc = "free"
          \/ rec.pc \in {"gather", "restart"} /\ rec.b = call.b
        BY <2>3
    <2> QED BY <2>1, <2>3, <2>4, <2>5, <2>6, TurnsClient
<1>9. ASSUME NEW c \in Clients, NEW r \in Runners, CleanupRestartFailed(c, r) PROVE Turns'
    <2> DEFINE rec == [client[c] EXCEPT !.pc = "raised"]
    <2>1. client' = [client EXCEPT ![c] = rec] /\ UNCHANGED <<pending_tasks, running_tasks>>
        BY <1>9 DEF CleanupRestartFailed
    <2>2. client[c] \in Call
        BY DEF TypeOK
    <2>3. rec.pc = "raised"
        BY <2>2 DEF Call
    <2> HIDE DEF rec
    <2> QED BY <2>1, <2>3, TurnsClient
<1> QED BY <1>1, <1>2, <1>3, <1>4, <1>5, <1>6, <1>7, <1>8, <1>9 DEF Next

\* The only steps that end a cleanup.
LEMMA CleanupEnds ==
    ASSUME TypeOK, [Next]_vars, NEW c \in Clients,
           client[c].pc \in {"gather", "restart"}, client'[c].pc = "free"
    PROVE  Gathered(c) \/ Restarted(c)
<1> USE DEF clientVars
<1>1. client'[c] # client[c]
    OBVIOUS
<1>2. ASSUME NEW d \in Clients, NEW rec, client' = [client EXCEPT ![d] = rec]
      PROVE  d = c
    BY <1>1, <1>2 DEF TypeOK
<1>3. ASSUME NEW d \in Clients, NEW call, CleanupBatch(d, call) PROVE d = c
    BY <1>2, <1>3 DEF CleanupBatch, AfterGather, Return
<1>4. ASSUME NEW d \in Clients, MinCompleted(d) \/ TimedOut(d) PROVE FALSE
    BY <1>3, <1>4 DEF MinCompleted, TimedOut
<1>5. ASSUME NEW d \in Clients, NEW b, NEW partial, NEW restart, AbortBatch(d, b, partial, restart)
      PROVE  FALSE
    BY <1>3, <1>5 DEF AbortBatch
<1>6. ASSUME NEW d \in Clients, AllCompleted(d) \/ GiveUpWaiting(d) PROVE FALSE
    BY <1>2, <1>6 DEF AllCompleted, GiveUpWaiting, Return
<1>7. ASSUME NEW d \in Clients, NEW b, NEW m, NEW clear, NEW partial,
             GetPayloadResults(d, b, m, clear, partial)
      PROVE  FALSE
    BY <1>2, <1>7 DEF GetPayloadResults
<1>8. ASSUME NEW d \in Clients, NEW r, CleanupRestartFailed(d, r) PROVE FALSE
    BY <1>8 DEF CleanupRestartFailed, TypeOK, Call
<1>9. ASSUME NEW d \in Clients, Gathered(d) \/ Restarted(d) PROVE d = c
    BY <1>2, <1>9 DEF Gathered, Restarted, AfterGather, Return
<1>10. ASSUME NEW s \in Sub,
              \/ RunWithRetry(s) \/ TaskCancelled(s) \/ TaskRaised(s)
              \/ TaskReturned(s) \/ RestartDone(s) \/ RestartFailed(s)
       PROVE  FALSE
    BY <1>1, <1>10 DEF RunWithRetry, TaskCancelled, TaskRaised, TaskReturned, RestartDone,
       RestartFailed, Close
<1>11. ASSUME NEW b, NEW n, Schedule(b, n) \/ DiscardCompletedResults(b) PROVE FALSE
    BY <1>1, <1>11 DEF Schedule, DiscardCompletedResults
<1>12. ASSUME NEW d \in Clients, NEW r, CleanupRestartDone(d, r) PROVE FALSE
    BY <1>1, <1>12 DEF CleanupRestartDone
<1>13. CASE SchedulePendingTasks
    BY <1>1, <1>13 DEF SchedulePendingTasks, StartOn
<1>14. CASE Stop \/ StopGathered \/ Stopped \/ Start \/ UNCHANGED vars
    BY <1>1, <1>14 DEF Stop, StopGathered, Stopped, Start, othersOfStop, vars
<1> QED
    BY <1>4, <1>5, <1>6, <1>7, <1>8, <1>9, <1>10, <1>11, <1>12, <1>13, <1>14 DEF Next

\* The cleanup that MinCompleted, TimedOut and AbortBatch make is one of batch b.
LEMMA CleanupOf ==
    ASSUME TypeOK, NEW c \in Clients, NEW b \in Batches,
           \/ client[c].b = b /\ (MinCompleted(c) \/ TimedOut(c))
           \/ \E partial, restart \in BOOLEAN : AbortBatch(c, b, partial, restart)
    PROVE  /\ \E call \in Call : CleanupBatch(c, call) /\ call.b = b
           /\ (InCall(c) /\ client[c].b = b) \/ Available(b)
<1>1. client[c] \in Call
    BY DEF TypeOK
<1>2. CASE client[c].b = b /\ MinCompleted(c)
    BY <1>1, <1>2 DEF MinCompleted, InCall
<1>3. CASE client[c].b = b /\ TimedOut(c)
    <2> DEFINE call == [client[c] EXCEPT !.restart = TRUE]
    <2>1. call \in Call /\ call.b = b
        BY <1>1, <1>3 DEF Call
    <2>2. client[c].pc = "wait" /\ CleanupBatch(c, call)
        BY <1>3 DEF TimedOut
    <2> HIDE DEF call
    <2> QED BY <1>3, <2>1, <2>2 DEF InCall
<1>4. ASSUME NEW partial \in BOOLEAN, NEW restart \in BOOLEAN, AbortBatch(c, b, partial, restart)
      PROVE  (\E call \in Call : CleanupBatch(c, call) /\ call.b = b) /\ Available(b)
    <2> DEFINE call == [Free EXCEPT !.b = b, !.partial = partial, !.restart = restart]
    <2>1. call \in Call /\ call.b = b
        BY DEF Free, Call
    <2>2. CleanupBatch(c, call) /\ Available(b)
        BY <1>4 DEF AbortBatch
    <2> HIDE DEF call
    <2> QED BY <2>1, <2>2
<1> QED BY <1>2, <1>3, <1>4

\* When the cleanup of b returns, nothing of b is queued or registered, and no
\* other client is inside a call on b: it would not have had its turn.
LEMMA CleanupClears ==
    ASSUME Exclusive, TypeOK, Placement, Turns, [Next]_vars,
           NEW c \in Clients, NEW b \in Batches, CleanupReturns(c, b)
    PROVE  /\ \A s \in pending_tasks' \cup running_tasks' : BatchOf(s) # b
           /\ \A d \in Clients : InCall(d)' => client'[d].b # b
<1>1. CASE client[c].pc \in {"gather", "restart"} /\ client[c].b = b
    <2>1. Gathered(c) \/ Restarted(c)
        BY <1>1, CleanupEnds DEF CleanupReturns
    <2>2. UNCHANGED <<pending_tasks, running_tasks>>
        BY <2>1, GatheredStep, ReturnSteps
    <2>3. \E rec : client' = [client EXCEPT ![c] = rec]
        BY <2>1, GatheredStep, ReturnSteps
    <2>4. \A d \in Clients \ {c} : client'[d] = client[d]
        BY <2>3 DEF TypeOK
    <2>5. ~InCall(c)'
        BY DEF CleanupReturns, InCall
    <2> QED BY <1>1, <2>2, <2>4, <2>5 DEF Turns, InCall
<1>2. CASE \/ client[c].b = b /\ (MinCompleted(c) \/ TimedOut(c))
           \/ \E partial, restart \in BOOLEAN : AbortBatch(c, b, partial, restart)
    <2>1. PICK call \in Call : CleanupBatch(c, call) /\ call.b = b
        BY <1>2, CleanupOf
    <2>2. (InCall(c) /\ client[c].b = b) \/ Available(b)
        BY <1>2, CleanupOf
    <2>3. /\ pending_tasks' = {s \in pending_tasks : BatchOf(s) # b}
          /\ running_tasks' = {s \in running_tasks : BatchOf(s) # b}
          /\ \E rec : client' = [client EXCEPT ![c] = rec]
        BY <2>1, CleanupFutures
    <2>4. \A d \in Clients \ {c} : client'[d] = client[d]
        BY <2>3 DEF TypeOK
    <2>5. ~InCall(c)'
        BY DEF CleanupReturns, InCall
    <2> QED BY <2>2, <2>3, <2>4, <2>5 DEF Turns, Available, InCall
<1> QED BY <1>1, <1>2 DEF CleanupReturns

LEMMA CleanupQuiet ==
    ASSUME Exclusive, TypeOK, Placement, Turns, [Next]_vars, Registration', Turns', TypeOK',
           NEW c \in Clients, NEW b \in Batches, CleanupReturns(c, b),
           NEW s \in Sub, BatchOf(s) = b
    PROVE  /\ s \notin pending_tasks' /\ future'[s] \notin Live
           /\ ~eager_gather => future'[s] \notin Settled
<1>1. s \notin pending_tasks' /\ s \notin running_tasks'
    BY CleanupClears
<1>2. ~Awaited(s)'
    <2>1. \A d \in Clients : InCall(d)' => client'[d].b # b
        BY CleanupClears
    <2> QED BY <2>1 DEF Turns, Awaited, InCall
<1>3. eager_gather' = eager_gather
    BY EagerGatherFixed
<1> QED BY <1>1, <1>2, <1>3 DEF Registration, InFlight, Live, Settled

\* When callers of one batch take turns, a cleanup that returns leaves nothing of
\* its batch queued or running, whatever fails meanwhile: the caller may discard
\* the batch and reuse its id.  Unless gather is eager, no callback is left either.
THEOREM CleanupLeavesNothing == ASSUME Exclusive PROVE Spec => QuietAfterCleanup
<1> DEFINE Inv == TypeOK /\ Placement /\ Custody /\ Turns
<1>1. Init => Inv
    BY TypeInit, CustodyInit, TurnsInit
<1>2. Inv /\ [Next]_vars => Inv'
    BY TypeStep, CustodyStep, TurnsStep
<1>3. Inv /\ [Next]_vars =>
          [\A c \in Clients, b \in Batches : CleanupReturns(c, b) =>
              \A s \in Sub : BatchOf(s) = b =>
                  /\ s \notin pending_tasks' /\ future'[s] \notin Live
                  /\ ~eager_gather => future'[s] \notin Settled]_vars
    BY <1>2, CleanupQuiet DEF Custody
<1> HIDE DEF Inv
<1> QED BY <1>1, <1>2, <1>3, PTL DEF Spec, QuietAfterCleanup

-----------------------------------------------------------------------------
(* Results: what a step may do to the cache, to the emitted tasks and to    *)
(* what was handed out, in one form for all actions.                       *)

LEMMA ResultsWithNone == ASSUME TypeOK PROVE ResultsWith({}) = completed_tasks
<1>1. completed_tasks \in ResultTable
    BY DEF TypeOK, ResultTable
<1>2. ResultsWith({}) = [b \in Batches |-> [i \in 1 .. MaxTasks |-> completed_tasks[b][i]]]
    BY DEF ResultsWith
<1> QED BY <1>1, <1>2, ZenonT(40) DEF ResultTable

\* A result in the new table was there before, or is that of a task in ts.
LEMMA ResultsWithValue ==
    ASSUME NEW ts \in SUBSET Task, NEW b \in Batches, NEW i \in 1 .. MaxTasks
    PROVE  \/ /\ ResultsWith(ts)[b][i] = completed_tasks[b][i]
              /\ ~\E t \in ts : t[1] = b /\ t[3] = i
           \/ <<b, ResultsWith(ts)[b][i], i>> \in ts
<1> DEFINE t == CHOOSE u \in ts : u[1] = b /\ u[3] = i
<1>1. CASE \E u \in ts : u[1] = b /\ u[3] = i
    <2>1. t \in ts /\ t[1] = b /\ t[3] = i
        BY <1>1
    <2>2. t = <<t[1], t[2], t[3]>>
        BY <2>1 DEF Task
    <2>3. ResultsWith(ts)[b][i] = t[2]
        BY <1>1 DEF ResultsWith
    <2> QED BY <2>1, <2>2, <2>3
<1>2. CASE ~\E u \in ts : u[1] = b /\ u[3] = i
    BY <1>2 DEF ResultsWith
<1> QED BY <1>1, <1>2

\* The tasks ts are emitted, and their results stay in the cache, or the
\* results of a batch are handed out, or those of a batch are discarded.
Outcome(ts) ==
    /\ emitted' = emitted \cup ts
    /\ \A t \in Task \ ts : payloads'[t] = payloads[t]
    /\ \/ completed_tasks' = ResultsWith(ts) /\ delivered' = delivered
       \/ \E b \in Batches :
              /\ completed_tasks' = [ResultsWith(ts) EXCEPT ![b] = NoResults]
              /\ delivered' = delivered \cup {t \in Task : t[1] = b /\ ResultsWith(ts)[b][t[3]] = t[2]}
       \/ \E b \in Batches :
              /\ completed_tasks' = [ResultsWith(ts) EXCEPT ![b] = NoResults]
              /\ delivered' = delivered /\ batch_is_eval_map'[b] = "none"

\* Where the emitted tasks come from: work that is queued or in flight.
Source(ts) ==
    /\ ts \subseteq Task \ emitted
    /\ \A t \in ts : \E s \in pending_tasks \cup InFlight : TaskOf(s) = t

LEMMA ReturnOutcome ==
    ASSUME NEW c, NEW call, call.b \in Batches, NEW ts,
           Return(c, call, ResultsWith(ts)) \/ AfterGather(c, call, ResultsWith(ts)),
           emitted' = emitted \cup ts, \A t \in Task \ ts : payloads'[t] = payloads[t]
    PROVE  Outcome(ts)
<1>1. CASE Return(c, call, ResultsWith(ts))
    BY <1>1 DEF Return, Drain, Outcome, drainVars
<1>2. CASE completed_tasks' = ResultsWith(ts) /\ UNCHANGED drainVars
    BY <1>2 DEF Outcome, drainVars
<1> QED BY <1>1, <1>2 DEF AfterGather

LEMMA CleanupOutcome ==
    ASSUME TypeOK, Registration, NEW c \in Clients, NEW call \in Call, call.b \in Batches,
           CleanupBatch(c, call)
    PROVE  \E ts : Source(ts) /\ Outcome(ts)
<1> DEFINE queued == {s \in pending_tasks : BatchOf(s) = call.b}
           inflight == {s \in running_tasks : BatchOf(s) = call.b}
           partials == {t \in {TaskOf(s) : s \in queued \cup inflight} \ emitted :
                           call.partial /\ SubsOf(t) \cap succeeded # {}}
<1>1. Source(partials)
    <2>1. \A s \in Sub : TaskOf(s) \in Task
        BY DEF Sub, TaskOf
    <2>2. queued \cup inflight \subseteq Sub /\ inflight \subseteq InFlight /\ queued \subseteq pending_tasks
        BY DEF TypeOK, Registration
    <2> HIDE DEF queued, inflight
    <2> QED BY <2>1, <2>2 DEF Source
<1>2. Emit(partials, succeeded)
    BY DEF CleanupBatch
<1> DEFINE done == [call EXCEPT !.futures = inflight]
<1>3. \/ AfterGather(c, done, ResultsWith(partials))
      \/ completed_tasks' = ResultsWith(partials) /\ UNCHANGED <<drainVars, cleanup_restarts>>
    BY DEF CleanupBatch
<1>6. done.b = call.b
    BY DEF Call
<1> HIDE DEF partials, done
<1>4. emitted' = emitted \cup partials /\ \A t \in Task \ partials : payloads'[t] = payloads[t]
    BY <1>2 DEF Emit
<1>5. Outcome(partials)
    <2>1. CASE AfterGather(c, done, ResultsWith(partials))
        BY <1>4, <1>6, <2>1, ReturnOutcome
    <2>2. CASE completed_tasks' = ResultsWith(partials) /\ UNCHANGED <<drainVars, cleanup_restarts>>
        BY <1>4, <2>2 DEF Outcome, drainVars
    <2> QED BY <1>3, <2>1, <2>2
<1> QED BY <1>1, <1>5

LEMMA OutcomeStep ==
    ASSUME TypeOK, Placement, Custody, [Next]_vars
    PROVE  \E ts : Source(ts) /\ Outcome(ts)
<1>1. Source({}) /\ ResultsWith({}) = completed_tasks
    BY ResultsWithNone DEF Source
<1>2. ASSUME UNCHANGED <<resultVars, delivered>> PROVE \E ts : Source(ts) /\ Outcome(ts)
    <2>1. Outcome({})
        BY <1>1, <1>2 DEF Outcome, resultVars
    <2> QED BY <1>1, <2>1
<1>3. ASSUME NEW c \in Clients, AllCompleted(c) \/ GiveUpWaiting(c) \/ Restarted(c) \/ Gathered(c)
      PROVE  \E ts : Source(ts) /\ Outcome(ts)
    <2>1. client[c].b \in Batches
        BY <1>3 DEF Placement, AllCompleted, GiveUpWaiting, Restarted, Gathered, InCall
    <2>2. UNCHANGED <<emitted, payloads>>
        BY <1>3 DEF AllCompleted, GiveUpWaiting, Restarted, Gathered
    <2> DEFINE call == [client[c] EXCEPT !.futures = {}]
    <2>3. \/ Return(c, client[c], ResultsWith({}))
          \/ AfterGather(c, call, ResultsWith({}))
        BY <1>1, <1>3 DEF AllCompleted, GiveUpWaiting, Restarted, Gathered
    <2>4. client[c] \in Call /\ call.b = client[c].b
        BY DEF TypeOK, Call
    <2> HIDE DEF call
    <2>5. Outcome({})
        BY <2>1, <2>2, <2>3, <2>4, ReturnOutcome
    <2> QED BY <1>1, <2>5
<1>4. ASSUME NEW c \in Clients,
             \/ MinCompleted(c) \/ TimedOut(c)
             \/ \E b \in Batches, partial, restart \in BOOLEAN : AbortBatch(c, b, partial, restart)
      PROVE  \E ts : Source(ts) /\ Outcome(ts)
    BY <1>4, CleanupSteps, CleanupOutcome DEF Custody
<1>5. ASSUME NEW s \in Sub, TaskReturned(s) PROVE \E ts : Source(ts) /\ Outcome(ts)
    <2> DEFINE done == Complete(s, finished')
    <2>1. Emit(done, succeeded') /\ completed_tasks' = ResultsWith(done) /\ delivered' = delivered
        BY <1>5 DEF TaskReturned, Close, drainVars
    <2>2. s \in InFlight /\ TaskOf(s) \in Task /\ done \subseteq {TaskOf(s)} \ emitted
        BY <1>5, CloseFutures DEF TaskOf, Sub, Complete
    <2> HIDE DEF done
    <2>3. Source(done)
        BY <2>2 DEF Source
    <2>4. Outcome(done)
        BY <2>1 DEF Emit, Outcome
    <2> QED BY <2>3, <2>4
<1>6. ASSUME NEW s \in Sub,
             RunWithRetry(s) \/ TaskCancelled(s) \/ TaskRaised(s) \/ RestartDone(s) \/ RestartFailed(s)
      PROVE  UNCHANGED <<resultVars, delivered>>
    BY <1>6 DEF RunWithRetry, TaskCancelled, TaskRaised, RestartDone, RestartFailed, Close, drainVars
<1>7. ASSUME NEW b \in Batches, NEW n \in 1 .. MaxTasks, Schedule(b, n)
      PROVE  UNCHANGED <<resultVars, delivered>>
    BY <1>7 DEF Schedule
<1>8. ASSUME NEW b \in Batches, DiscardCompletedResults(b) PROVE \E ts : Source(ts) /\ Outcome(ts)
    <2>1. batch_is_eval_map'[b] = "none"
        BY <1>8 DEF DiscardCompletedResults, TypeOK
    <2>2. Outcome({})
        BY <1>1, <1>8, <2>1 DEF DiscardCompletedResults, Outcome
    <2> QED BY <1>1, <2>2
<1>9. ASSUME NEW c \in Clients, NEW b \in Batches, NEW m, NEW clear, NEW partial,
             GetPayloadResults(c, b, m, clear, partial)
      PROVE  UNCHANGED <<resultVars, delivered>>
    BY <1>9 DEF GetPayloadResults, drainVars
<1>10. ASSUME NEW c \in Clients, NEW r \in Runners, CleanupRestartDone(c, r) \/ CleanupRestartFailed(c, r)
       PROVE  UNCHANGED <<resultVars, delivered>>
    BY <1>10 DEF CleanupRestartDone, CleanupRestartFailed, drainVars
<1>11. ASSUME SchedulePendingTasks PROVE UNCHANGED <<resultVars, delivered>>
    BY <1>11 DEF SchedulePendingTasks, StartOn, drainVars
<1>12. ASSUME Stop \/ StopGathered \/ Stopped \/ Start \/ UNCHANGED vars
       PROVE  UNCHANGED <<resultVars, delivered>>
    BY <1>12 DEF Stop, StopGathered, Stopped, Start, vars, othersOfStop, drainVars
<1>13. CASE UNCHANGED vars
    BY <1>2, <1>12, <1>13
<1>14. CASE Next
    BY <1>2, <1>3, <1>4, <1>5, <1>6, <1>7, <1>8, <1>9, <1>10, <1>11, <1>12, <1>14 DEF Next
<1> QED BY <1>13, <1>14

LEMMA EmittedKept ==
    ASSUME TypeOK, NEW ts, Source(ts), Outcome(ts), NEW t \in emitted
    PROVE  t \in emitted' /\ payloads'[t] = payloads[t]
BY DEF Source, Outcome, TypeOK

\* The result of a task is never extended nor repeated once it was emitted: of
\* every scheduler, whoever calls and whatever fails (TaskWrapper.emitted).
THEOREM EmittedResultsStand == Spec => EmittedOnce
<1>1. Init => TypeOK /\ Placement /\ Custody
    BY TypeInit, CustodyInit
<1>2. TypeOK /\ Placement /\ Custody /\ [Next]_vars => TypeOK' /\ Placement' /\ Custody'
    BY TypeStep, CustodyStep
<1>3. TypeOK /\ Placement /\ Custody /\ [Next]_vars =>
          [\A t \in emitted : t \in emitted' /\ payloads'[t] = payloads[t]]_vars
    BY OutcomeStep, EmittedKept
<1> QED BY <1>1, <1>2, <1>3, PTL DEF Spec, EmittedOnce

\* The work of a batch belongs to the present use of its id, and so do its results.
Current ==
    /\ \A b \in Batches : use_start[b] <= calls[b]
    /\ \A s \in pending_tasks \cup InFlight : use_start[BatchOf(s)] <= s[1][2]
    /\ \A b \in Batches, i \in 1 .. MaxTasks :
           completed_tasks[b][i] \in {0} \cup (use_start[b] .. calls[b])

\* A cached result was emitted and not handed out yet; what was handed out had
\* been emitted.
Handed ==
    /\ delivered \subseteq emitted
    /\ \A b \in Batches, i \in 1 .. MaxTasks :
           completed_tasks[b][i] # 0 => <<b, completed_tasks[b][i], i>> \in emitted \ delivered

ResultInv ==
    /\ TypeOK /\ Placement /\ Custody /\ Turns
    /\ ~eager_gather => Current

LEMMA ResultInvInit == Init => ResultInv
<1> SUFFICES ASSUME Init PROVE ResultInv
    OBVIOUS
<1>1. Current
    BY DEF Init, Current, InFlight, Live, Settled, NoResults
<1> QED BY <1>1, TypeInit, CustodyInit, TurnsInit DEF ResultInv

LEMMA HandedInit == Init => Handed
BY DEF Init, Handed, NoResults

\* Only schedule() brings new work.
LEMMA WorkShrinks ==
    ASSUME TypeOK, Placement, [Next]_vars
    PROVE  \/ \E b \in Batches, n \in 1 .. MaxTasks : Schedule(b, n)
           \/ /\ pending_tasks' \cup InFlight' \subseteq pending_tasks \cup InFlight
              /\ UNCHANGED <<calls, use_start>>
<1> DEFINE Goal == /\ pending_tasks' \cup InFlight' \subseteq pending_tasks \cup InFlight
                   /\ UNCHANGED <<calls, use_start>>
<1>1. CASE SchedulePendingTasks
    <2>1. PICK batch \in SUBSET pending_tasks :
              /\ InFlight' = InFlight \cup batch
              /\ pending_tasks' = pending_tasks \ batch
              /\ UNCHANGED <<calls, use_start>>
        BY <1>1, LoopFutures
    <2> QED BY <2>1
<1>2. ASSUME NEW s \in Sub,
             \/ RunWithRetry(s) \/ TaskCancelled(s) \/ TaskRaised(s) \/ TaskReturned(s)
      PROVE  Goal
    BY <1>2, SettleFutures, CloseFutures
<1>3. ASSUME \/ \E s \in Sub : RestartDone(s) \/ RestartFailed(s)
             \/ \E c \in Clients, r \in Runners : CleanupRestartDone(c, r)
             \/ \E b \in Batches : DiscardCompletedResults(b)
             \/ Stop \/ StopGathered \/ Stopped \/ Start \/ UNCHANGED vars
      PROVE  Goal
    BY <1>3, QuietSteps DEF Quiet, InFlight
<1>4. ASSUME NEW c \in Clients, NEW b \in Batches, NEW m \in 0 .. MaxTasks, NEW clear \in BOOLEAN,
             NEW partial \in BOOLEAN, GetPayloadResults(c, b, m, clear, partial)
      PROVE  Goal
    BY <1>4, GetSteps
<1>5. ASSUME NEW c \in Clients, AllCompleted(c) \/ GiveUpWaiting(c) \/ Restarted(c) \/ Gathered(c)
      PROVE  Goal
    BY <1>5, ReturnSteps, GatheredStep
<1>6. ASSUME NEW c \in Clients,
             \/ MinCompleted(c) \/ TimedOut(c)
             \/ \E b \in Batches, partial, restart \in BOOLEAN : AbortBatch(c, b, partial, restart)
      PROVE  Goal
    <2>1. PICK call \in Call : CleanupBatch(c, call)
        BY <1>6, CleanupSteps
    <2> QED BY <2>1, CleanupFutures
<1>7. ASSUME NEW c \in Clients, NEW r \in Runners, CleanupRestartFailed(c, r) PROVE Goal
    BY <1>7 DEF CleanupRestartFailed, InFlight, futureVars, callVars
<1> HIDE DEF Goal
<1>8. CASE UNCHANGED vars
    BY <1>3, <1>8 DEF Goal
<1>9. CASE Next
    BY <1>1, <1>2, <1>3, <1>4, <1>5, <1>6, <1>7, <1>9 DEF Next, Goal
<1> QED BY <1>8, <1>9

\* Where has_step says that a batch id is free, nothing of it is in flight.
LEMMA ScheduleFindsNothing ==
    ASSUME Exclusive, ResultInv, ~eager_gather, NEW b \in Batches, Available(b), ~HasStep(b)
    PROVE  /\ \A s \in pending_tasks \cup InFlight : BatchOf(s) # b
           /\ \A i \in 1 .. MaxTasks : completed_tasks[b][i] = 0
<1> USE DEF ResultInv
<1>1. /\ \A c \in Clients : InCall(c) => client[c].b # b
      /\ completed_tasks[b] = NoResults
      /\ \A s \in pending_tasks \cup running_tasks : BatchOf(s) # b
    BY DEF Available, HasStep
<1>2. ASSUME NEW s \in InFlight, BatchOf(s) = b PROVE FALSE
    <2>1. PICK c \in Clients : client[c].pc = "gather" /\ s \in client[c].futures
        BY <1>1, <1>2 DEF Custody, Registration, Awaited
    <2>2. InCall(c) /\ client[c].b = b
        BY <1>2, <2>1 DEF Turns, InCall
    <2> QED BY <1>1, <2>2
<1> QED BY <1>1, <1>2 DEF NoResults

\* A task that is emitted is one of the present use.
LEMMA SourceCurrent ==
    ASSUME TypeOK, Placement, Current, NEW ts, Source(ts), NEW t \in ts
    PROVE  t \in Task /\ t[2] \in use_start[t[1]] .. calls[t[1]]
<1>1. t \in Task /\ t[1] \in Batches /\ t[2] \in 1 .. MaxCalls
    BY DEF Source, Task
<1>2. PICK s \in pending_tasks \cup InFlight : TaskOf(s) = t
    BY DEF Source
<1>3. use_start[t[1]] <= t[2]
    BY <1>2 DEF Current, TaskOf, BatchOf
<1>4. s \in Sub /\ future[s] # "none"
    BY <1>2 DEF TypeOK, Placement, InFlight, Live, Settled
<1>5. ~(t[2] > calls[t[1]])
    BY <1>2, <1>4 DEF Placement, TaskOf
<1>6. \A b \in Batches : use_start[b] \in Nat /\ calls[b] \in Nat
    BY DEF TypeOK
<1>7. \A b \in Batches, k \in 1 .. MaxCalls :
          use_start[b] <= k /\ ~(k > calls[b]) => k \in use_start[b] .. calls[b]
    BY <1>6
<1> QED BY <1>1, <1>3, <1>5, <1>7

\* Results of the present use only.
LEMMA ResultsWithCurrent ==
    ASSUME TypeOK, Placement, Current, NEW ts, Source(ts), NEW b \in Batches, NEW i \in 1 .. MaxTasks
    PROVE  ResultsWith(ts)[b][i] \in {0} \cup (use_start[b] .. calls[b])
<1> DEFINE k == ResultsWith(ts)[b][i]
<1>1. ts \in SUBSET Task
    BY DEF Source
<1>2. k = completed_tasks[b][i] \/ <<b, k, i>> \in ts
    BY <1>1, ResultsWithValue
<1> HIDE DEF k
<1>3. <<b, k, i>> \in ts => k \in use_start[b] .. calls[b]
    <2> SUFFICES ASSUME <<b, k, i>> \in ts PROVE k \in use_start[b] .. calls[b]
        OBVIOUS
    <2> DEFINE t == <<b, k, i>>
    <2>1. t[2] \in use_start[t[1]] .. calls[t[1]]
        BY SourceCurrent
    <2> QED BY <2>1
<1>4. k \in {0} \cup (use_start[b] .. calls[b])
    BY <1>2, <1>3 DEF Current
<1> QED BY <1>4 DEF k

\* The tables after the step, slot by slot.
LEMMA OutcomeSlot ==
    ASSUME TypeOK, NEW ts, Source(ts), Outcome(ts), NEW b \in Batches, NEW i \in 1 .. MaxTasks
    PROVE  \/ completed_tasks'[b][i] = ResultsWith(ts)[b][i]
           \/ completed_tasks'[b][i] = 0
<1>1. ts \in SUBSET Task
    BY DEF Source
<1>2. ResultsWith(ts) \in ResultTable
    BY <1>1, ResultsWithType DEF TypeOK, ResultTable
<1>3. NoResults[i] = 0
    BY DEF NoResults
<1>4. CASE completed_tasks' = ResultsWith(ts)
    BY <1>4
<1>5. ASSUME NEW d \in Batches, completed_tasks' = [ResultsWith(ts) EXCEPT ![d] = NoResults]
      PROVE  \/ completed_tasks'[b][i] = ResultsWith(ts)[b][i]
             \/ completed_tasks'[b][i] = 0
    BY <1>2, <1>3, <1>5 DEF ResultTable
<1> QED BY <1>4, <1>5 DEF Outcome

LEMMA CurrentStep ==
    ASSUME Exclusive, ResultInv, ~eager_gather, [Next]_vars
    PROVE  Current'
<1> USE DEF ResultInv
<1>1. \A s \in pending_tasks \cup InFlight : s \in Sub /\ BatchOf(s) \in Batches /\ s[1][2] \in Nat
    BY DEF TypeOK, InFlight, Sub, Task, BatchOf
<1>2. \A b \in Batches : calls[b] \in Nat /\ use_start[b] \in Nat
    BY DEF TypeOK
<1>3. ASSUME NEW b \in Batches, NEW n \in 1 .. MaxTasks, Schedule(b, n) PROVE Current'
    <2>1. /\ InFlight' = InFlight
          /\ \A s \in pending_tasks' : s \in pending_tasks \/ (BatchOf(s) = b /\ s[1][2] = calls[b] + 1)
          /\ calls' = [calls EXCEPT ![b] = @ + 1]
          /\ completed_tasks' = completed_tasks
        BY <1>3, ScheduleFutures
    <2>2. /\ \A d \in Batches : calls'[d] = IF d = b THEN calls[b] + 1 ELSE calls[d]
          /\ \A d \in Batches \ {b} : use_start'[d] = use_start[d]
          /\ use_start'[b] = IF HasStep(b) THEN use_start[b] ELSE calls[b] + 1
        BY <1>3, <2>1 DEF Schedule, TypeOK
    <2>3. CASE HasStep(b)
        <3>1. \A d \in Batches : use_start'[d] = use_start[d]
            BY <2>2, <2>3
        <3>2. \A d \in Batches : use_start'[d] <= calls'[d]
            BY <1>2, <2>2, <3>1 DEF Current
        <3>3. ASSUME NEW s \in pending_tasks' \cup InFlight'
              PROVE  use_start'[BatchOf(s)] <= s[1][2]
            <4>1. CASE s \in pending_tasks \cup InFlight
                BY <1>1, <3>1, <4>1 DEF Current
            <4>2. CASE BatchOf(s) = b /\ s[1][2] = calls[b] + 1
                BY <1>2, <3>1, <4>2 DEF Current
            <4> QED BY <2>1, <4>1, <4>2
        <3>4. \A d \in Batches, i \in 1 .. MaxTasks :
                  completed_tasks'[d][i] \in {0} \cup (use_start'[d] .. calls'[d])
            BY <1>2, <2>1, <2>2, <3>1 DEF Current
        <3> QED BY <3>2, <3>3, <3>4 DEF Current
    <2>4. CASE ~HasStep(b)
        <3>1. /\ \A s \in pending_tasks \cup InFlight : BatchOf(s) # b
              /\ \A i \in 1 .. MaxTasks : completed_tasks[b][i] = 0
            BY <1>3, <2>4, ScheduleFindsNothing DEF Schedule
        <3>2. \A d \in Batches : use_start'[d] <= calls'[d]
            BY <1>2, <2>2, <2>4 DEF Current
        <3>3. ASSUME NEW s \in pending_tasks' \cup InFlight'
              PROVE  use_start'[BatchOf(s)] <= s[1][2]
            <4>1. CASE s \in pending_tasks \cup InFlight
                BY <1>1, <2>2, <3>1, <4>1 DEF Current
            <4>2. CASE BatchOf(s) = b /\ s[1][2] = calls[b] + 1
                <5>1. use_start'[b] = calls[b] + 1 /\ calls[b] + 1 \in Nat
                    BY <1>2, <2>2, <2>4
                <5>2. use_start'[BatchOf(s)] = s[1][2] /\ s[1][2] \in Nat
                    BY <4>2, <5>1
                <5> QED BY <5>2
            <4> QED BY <2>1, <4>1, <4>2
        <3>4. \A d \in Batches, i \in 1 .. MaxTasks :
                  completed_tasks'[d][i] \in {0} \cup (use_start'[d] .. calls'[d])
            BY <1>2, <2>1, <2>2, <3>1 DEF Current
        <3> QED BY <3>2, <3>3, <3>4 DEF Current
    <2> QED BY <2>3, <2>4
<1>4. ASSUME pending_tasks' \cup InFlight' \subseteq pending_tasks \cup InFlight,
             UNCHANGED <<calls, use_start>>
      PROVE  Current'
    <2>1. \A s \in pending_tasks' \cup InFlight' : use_start'[BatchOf(s)] <= s[1][2]
        BY <1>4 DEF Current
    <2>2. PICK ts : Source(ts) /\ Outcome(ts)
        BY OutcomeStep
    <2>3. ASSUME NEW b \in Batches, NEW i \in 1 .. MaxTasks
          PROVE  completed_tasks'[b][i] \in {0} \cup (use_start'[b] .. calls'[b])
        <3>1. ResultsWith(ts)[b][i] \in {0} \cup (use_start[b] .. calls[b])
            BY <2>2, ResultsWithCurrent
        <3> QED BY <1>4, <2>2, <3>1, OutcomeSlot
    <2> QED BY <1>4, <2>1, <2>3 DEF Current
<1> QED BY <1>3, <1>4, WorkShrinks

\* A result in the table that a step hands out or keeps.
LEMMA ResultsWithHanded ==
    ASSUME TypeOK, Handed, NEW ts, Source(ts), NEW b \in Batches, NEW i \in 1 .. MaxTasks,
           ResultsWith(ts)[b][i] # 0
    PROVE  <<b, ResultsWith(ts)[b][i], i>> \in (emitted \cup ts) \ delivered
<1>1. ts \in SUBSET Task /\ ts \cap emitted = {}
    BY DEF Source
<1>2. CASE ResultsWith(ts)[b][i] = completed_tasks[b][i]
    BY <1>2 DEF Handed
<1>3. CASE <<b, ResultsWith(ts)[b][i], i>> \in ts
    BY <1>1, <1>3 DEF Handed
<1> QED BY <1>1, <1>2, <1>3, ResultsWithValue

LEMMA HandedStep ==
    ASSUME TypeOK, Handed, NEW ts, Source(ts), Outcome(ts)
    PROVE  Handed'
<1>1. ts \in SUBSET Task
    BY DEF Source
<1>2. ResultsWith(ts) \in ResultTable
    BY <1>1, ResultsWithType DEF TypeOK, ResultTable
<1>3. \A i \in 1 .. MaxTasks : NoResults[i] = 0
    BY DEF NoResults
<1>4. emitted' = emitted \cup ts
    BY DEF Outcome
<1>5. ASSUME completed_tasks' = ResultsWith(ts), delivered' = delivered
      PROVE  Handed'
    BY <1>4, <1>5, ResultsWithHanded DEF Handed
<1>6. ASSUME NEW d \in Batches, completed_tasks' = [ResultsWith(ts) EXCEPT ![d] = NoResults],
             delivered' \subseteq delivered \cup {t \in Task : t[1] = d /\ ResultsWith(ts)[d][t[3]] = t[2]}
      PROVE  Handed'
    <2>1. delivered' \subseteq emitted'
        <3> SUFFICES ASSUME NEW t \in Task, t[1] = d, ResultsWith(ts)[d][t[3]] = t[2]
                     PROVE  t \in emitted'
            BY <1>4, <1>6 DEF Handed
        <3>1. t[3] \in 1 .. MaxTasks /\ t[2] # 0 /\ t = <<t[1], t[2], t[3]>>
            BY DEF Task
        <3> QED BY <1>4, <3>1, ResultsWithHanded
    <2>2. ASSUME NEW b \in Batches, NEW i \in 1 .. MaxTasks, completed_tasks'[b][i] # 0
          PROVE  <<b, completed_tasks'[b][i], i>> \in emitted' \ delivered'
        <3>1. b # d /\ completed_tasks'[b][i] = ResultsWith(ts)[b][i]
            BY <1>2, <1>3, <1>6, <2>2 DEF ResultTable
        <3>2. <<b, ResultsWith(ts)[b][i], i>> \in (emitted \cup ts) \ delivered
            BY <2>2, <3>1, ResultsWithHanded
        <3> QED BY <1>4, <1>6, <3>1, <3>2
    <2> QED BY <2>1, <2>2 DEF Handed
<1> QED BY <1>5, <1>6 DEF Outcome

LEMMA ResultInvStep ==
    ASSUME Exclusive, ResultInv, [Next]_vars
    PROVE  ResultInv'
<1> USE DEF ResultInv
<1>1. TypeOK' /\ Placement'
    BY TypeStep
<1>2. Custody'
    BY CustodyStep
<1>3. Turns'
    BY TurnsStep
<1>4. (~eager_gather => Current)'
    BY CurrentStep, EagerGatherFixed
<1> QED BY <1>1, <1>2, <1>3, <1>4

\* What happens to a cached result in one step, if only results of several calls
\* of one use compete for a place.
LEMMA SlotLeaves ==
    ASSUME TypeOK, Handed, NEW ts, Source(ts), Outcome(ts),
           NEW b \in Batches, NEW i \in 1 .. MaxTasks,
           completed_tasks[b][i] # 0, completed_tasks'[b][i] # completed_tasks[b][i],
           \A j \in 1 .. MaxCalls :
               <<b, j, i>> \in ts /\ j # completed_tasks[b][i] => use_start[b] < calls[b]
    PROVE  \/ <<b, completed_tasks[b][i], i>> \in delivered' \ delivered
           \/ /\ batch_is_eval_map'[b] = "none" /\ completed_tasks'[b][i] = 0
              /\ <<b, completed_tasks[b][i], i>> \notin delivered
           \/ Replaced(b, i, completed_tasks[b][i])
<1> DEFINE k == completed_tasks[b][i]
           j == ResultsWith(ts)[b][i]
           drained(d) == delivered \cup {t \in Task : t[1] = d /\ ResultsWith(ts)[d][t[3]] = t[2]}
<1>1. k \in 1 .. MaxCalls
    BY DEF TypeOK
<1>2. <<b, k, i>> \in Task /\ <<b, k, i>> \in emitted \ delivered
    BY <1>1 DEF Task, Handed
<1>3. ts \in SUBSET Task /\ ts \cap emitted = {}
    BY DEF Source
<1>4. ResultsWith(ts) \in ResultTable
    BY <1>3, ResultsWithType DEF TypeOK, ResultTable
<1>5. j = k \/ <<b, j, i>> \in ts
    BY <1>3, ResultsWithValue
<1>6. j \in 1 .. MaxCalls /\ <<b, j, i>> \in Task
    BY <1>1, <1>3, <1>5 DEF Task
<1>7. j # k => <<b, j, i>> \notin delivered /\ use_start[b] < calls[b]
    BY <1>3, <1>5, <1>6 DEF Handed
<1>8. <<b, j, i>> \in drained(b)
    BY <1>6
<1>9. \A d \in Batches : completed_tasks' = [ResultsWith(ts) EXCEPT ![d] = NoResults] =>
          completed_tasks'[b][i] = IF d = b THEN 0 ELSE j
    BY <1>4 DEF ResultTable, NoResults
<1>10. CASE completed_tasks'[b][i] = j
    BY <1>6, <1>7, <1>10 DEF Replaced
<1> HIDE DEF k, j, drained
<1>11. ASSUME completed_tasks'[b][i] = 0, delivered' = drained(b)
       PROVE  <<b, k, i>> \in delivered' \ delivered \/ Replaced(b, i, k)
    BY <1>2, <1>6, <1>7, <1>8, <1>11 DEF Replaced
<1>12. CASE completed_tasks' = ResultsWith(ts)
    BY <1>10, <1>12 DEF j
<1>13. ASSUME NEW d \in Batches, completed_tasks' = [ResultsWith(ts) EXCEPT ![d] = NoResults],
              delivered' = drained(d) \/ batch_is_eval_map'[d] = "none"
       PROVE  \/ <<b, k, i>> \in delivered' \ delivered
              \/ /\ batch_is_eval_map'[b] = "none" /\ completed_tasks'[b][i] = 0
                 /\ <<b, k, i>> \notin delivered
              \/ Replaced(b, i, k)
    <2>1. CASE d = b
        BY <1>2, <1>9, <1>11, <1>13, <2>1
    <2>2. CASE d # b
        BY <1>9, <1>10, <1>13, <2>2 DEF k
    <2> QED BY <2>1, <2>2
<1> QED BY <1>12, <1>13 DEF Outcome, k, drained

\* Two results compete for a place only if their calls belong to one use.
LEMMA CompetingCalls ==
    ASSUME TypeOK, Placement, Current, NEW ts, Source(ts), NEW b \in Batches, NEW i \in 1 .. MaxTasks,
           completed_tasks[b][i] # 0, NEW j \in 1 .. MaxCalls, <<b, j, i>> \in ts,
           j # completed_tasks[b][i]
    PROVE  use_start[b] < calls[b]
<1> DEFINE t == <<b, j, i>>
<1>1. t[2] \in use_start[t[1]] .. calls[t[1]]
    BY SourceCurrent
<1>2. j \in use_start[b] .. calls[b]
    BY <1>1
<1>3. completed_tasks[b][i] \in use_start[b] .. calls[b]
    BY DEF Current
<1>4. use_start[b] \in Nat /\ calls[b] \in Nat
    BY DEF TypeOK
<1> QED BY <1>2, <1>3, <1>4

\* The cache of a batch holds results of the present use of its id only, also
\* when runners die, restarts fail and cleanups raise: no future of an earlier
\* use surfaces in the next one.  The callers of a batch have to take turns.
THEOREM CachedResultsAreCurrent == ASSUME Exclusive PROVE Spec => []ResultsAreCurrent
<1>1. ResultInv /\ [Next]_vars => ResultInv'
    BY ResultInvStep
<1>2. ResultInv => ResultsAreCurrent
    <2> SUFFICES ASSUME ResultInv, ~eager_gather, NEW b \in Batches, NEW i \in 1 .. MaxTasks
                 PROVE  completed_tasks[b][i] = 0 \/ completed_tasks[b][i] >= use_start[b]
        BY DEF ResultsAreCurrent
    <2>1. completed_tasks[b][i] \in {0} \cup (use_start[b] .. calls[b])
        BY DEF ResultInv, Current
    <2>2. use_start[b] \in Nat /\ calls[b] \in Nat
        BY DEF ResultInv, TypeOK
    <2> QED BY <2>1, <2>2
<1> QED BY <1>1, <1>2, ResultInvInit, PTL DEF Spec

\* Uses of a batch id cannot meet: it is used once, or its callers take turns
\* and gather waits for the callbacks.
NoOverlap == MaxCalls = 1 \/ (Exclusive /\ TRUE \notin EagerGathers)

DeliveryInv ==
    /\ TypeOK /\ Placement /\ Custody /\ Handed
    /\ MaxCalls = 1 \/ Current

LEMMA DeliveryStep ==
    ASSUME DeliveryInv, [Next]_vars, NEW b \in Batches, NEW i \in 1 .. MaxTasks,
           completed_tasks[b][i] # 0, completed_tasks'[b][i] # completed_tasks[b][i]
    PROVE  \/ <<b, completed_tasks[b][i], i>> \in delivered' \ delivered
           \/ /\ batch_is_eval_map'[b] = "none" /\ completed_tasks'[b][i] = 0
              /\ <<b, completed_tasks[b][i], i>> \notin delivered
           \/ Replaced(b, i, completed_tasks[b][i])
<1> USE DEF DeliveryInv
<1>1. PICK ts : Source(ts) /\ Outcome(ts)
    BY OutcomeStep
<1>2. completed_tasks[b][i] \in 1 .. MaxCalls
    BY DEF TypeOK
<1>3. \A j \in 1 .. MaxCalls :
          <<b, j, i>> \in ts /\ j # completed_tasks[b][i] => use_start[b] < calls[b]
    <2>1. CASE MaxCalls = 1
        BY <1>2, <2>1
    <2>2. CASE Current
        BY <1>1, <2>2, CompetingCalls
    <2> QED BY <2>1, <2>2
<1> QED BY <1>1, <1>3, SlotLeaves

\* A result leaves the cache to one caller or by discard_completed_results, and
\* was handed to nobody before; only one of another call of the same use of the
\* batch id ever takes its place.
THEOREM ResultsDeliveredOnce == ASSUME NoOverlap PROVE Spec => DeliveredOnce
<1> DEFINE Base == TypeOK /\ Placement /\ Custody /\ Handed
           Uses == MaxCalls = 1 \/ (ResultInv /\ ~eager_gather)
<1>1. Init => Base /\ Uses
    BY TypeInit, CustodyInit, HandedInit, ResultInvInit DEF Init, NoOverlap
<1>2. Base /\ Uses /\ [Next]_vars => Base' /\ Uses'
    <2> SUFFICES ASSUME Base, Uses, [Next]_vars PROVE Base' /\ Uses'
        OBVIOUS
    <2>1. TypeOK' /\ Placement' /\ Custody' /\ Handed'
        BY TypeStep, CustodyStep, OutcomeStep, HandedStep
    <2>2. Uses'
        BY ResultInvStep, EagerGatherFixed DEF NoOverlap
    <2> QED BY <2>1, <2>2
<1>3. Base /\ Uses => DeliveryInv
    BY DEF DeliveryInv, ResultInv
<1>4. Base /\ Uses /\ [Next]_vars =>
          [\A b \in Batches, i \in 1 .. MaxTasks :
              LET k == completed_tasks[b][i] IN
              (k # 0 /\ completed_tasks'[b][i] # k) =>
                  \/ <<b, k, i>> \in delivered' \ delivered
                  \/ batch_is_eval_map'[b] = "none" /\ completed_tasks'[b][i] = 0
                     /\ <<b, k, i>> \notin delivered
                  \/ Replaced(b, i, k)]_vars
    BY <1>3, DeliveryStep
<1> HIDE DEF Base, Uses
<1> QED BY <1>1, <1>2, <1>4, PTL DEF Spec, DeliveredOnce

-----------------------------------------------------------------------------
(* Double booking.  Each of the four assumptions is needed: two cleanups of *)
(* one batch, a cleanup and the repair of a dead actor, two cleanups after  *)
(* one of them raised, and a cleanup and start() give a runner back twice.  *)

Benign == Exclusive /\ ~ActorFaults /\ ~RestartFaults /\ MaxStops = 0

\* Registration, where gather waits for the callbacks.
Owned ==
    /\ running_tasks \subseteq InFlight
    /\ \A s \in InFlight : s \in running_tasks \/ Awaited(s)

\* Only cancelled futures leave a runner behind, and only for a cleanup that
\* will restart it.
Cancellation ==
    \A s \in Sub : future[s] \in {"cancelling", "cancelled"} =>
        \E c \in Clients :
            /\ client[c].pc = "gather" /\ s \in client[c].futures
            /\ s \in restart_on_cancel => client[c].restart

\* No failure is under repair.
NoRepairs == background_tasks = {} /\ \A s \in Sub : future[s] # "error"

\* A cleanup will restart the runner r, which a cancelled future left behind.
Reclaimed(r) ==
    \E c \in Clients :
        /\ client[c].b = BatchOf(busy_runners[r])
        /\ \/ client[c].pc = "gather" /\ client[c].restart
           \/ <<c, r>> \in cleanup_restarts

\* busy_runners and idle_runners against the futures.
Bookings ==
    /\ \A r \in Runners : r \in idle_runners <=> busy_runners[r] = NoSub
    /\ \A s \in InFlight : busy_runners[runner_of[s]] = s
    /\ \A r \in Runners : busy_runners[r] # NoSub =>
           \/ busy_runners[r] \in InFlight /\ runner_of[busy_runners[r]] = r
           \/ future[busy_runners[r]] = "closed" /\ Reclaimed(r)

\* A restart replaces a runner whose future has gone.
Replacements ==
    \A c \in Clients, r \in Runners : <<c, r>> \in cleanup_restarts =>
        /\ client[c].pc = "restart"
        /\ busy_runners[r] # NoSub
        /\ client[c].b = BatchOf(busy_runners[r])
        /\ future[busy_runners[r]] = "closed"

\* Why a strengthening is needed: that two futures never share a runner rests
\* on who may still give a runner back - its own callback, or the one cleanup
\* that restarts it - and hence on turns, cancellations and restarts together.
RunnerInv ==
    /\ TypeOK /\ Placement
    /\ Owned /\ Cancellation /\ Turns /\ NoRepairs
    /\ Bookings /\ Replacements

LEMMA RunnerInvInit == Init => RunnerInv
<1> SUFFICES ASSUME Init PROVE RunnerInv
    OBVIOUS
<1>1. InFlight = {} /\ \A c \in Clients : ~InCall(c) /\ client[c].pc = "free"
    BY DEF Init, InFlight, Live, Settled, InCall, Free
<1> QED
    BY <1>1, TypeInit DEF Init, RunnerInv, Owned, Cancellation, Turns,
       NoRepairs, Bookings, Replacements

LEMMA RunnerInvSchedule ==
    ASSUME Benign, RunnerInv, NEW b \in Batches, NEW n \in 1 .. MaxTasks, Schedule(b, n),
           TypeOK', Placement'
    PROVE  RunnerInv'
<1> USE DEF RunnerInv
<1> DEFINE subs == {s \in Sub : BatchOf(s) = b /\ s[1][2] = calls[b] + 1 /\ s[1][3] <= n}
<1>1. /\ pending_tasks' = pending_tasks \cup subs
      /\ future' = [s \in Sub |-> IF s \in subs THEN "queued" ELSE future[s]]
      /\ UNCHANGED <<idle_runners, busy_runners, client, cleanup_restarts, runner_of,
                     restart_on_cancel, running_tasks, background_tasks, phase, stop_wait>>
    BY DEF Schedule, runnerVars, clientVars, stopVars, callVars
<1>2. \A c \in Clients : InCall(c) => client[c].b # b
    BY DEF Schedule, Available, Benign
<1>3. \A s \in subs : future[s] = "none"
    <2>1. calls[b] \in Nat
        BY DEF TypeOK
    <2> QED BY <2>1 DEF Placement, BatchOf
<1>4. \A s \in subs : BatchOf(s) = b
    OBVIOUS
<1> HIDE DEF subs
<1>5. /\ \A s \in Sub : future[s] # "none" => future'[s] = future[s]
      /\ \A s \in Sub : future'[s] # "queued" => future'[s] = future[s]
    BY <1>1, <1>3
<1>6. InFlight' = InFlight
    BY <1>5 DEF InFlight, Live, Settled
<1>7. Owned'
    BY <1>1, <1>6 DEF Owned, Awaited
<1>8. Cancellation'
    BY <1>1, <1>5 DEF Cancellation
<1>9. Turns'
    BY <1>1, <1>2, <1>4 DEF Turns, InCall
<1>10. NoRepairs'
    BY <1>1, <1>5 DEF NoRepairs
<1>11. \A r \in Runners : busy_runners[r] # NoSub =>
           (future[busy_runners[r]] = "closed" => future'[busy_runners[r]] = "closed")
    BY <1>5 DEF TypeOK
<1>12. \A r \in Runners : Reclaimed(r)' <=> Reclaimed(r)
    BY <1>1 DEF Reclaimed
<1>13. Bookings'
    BY <1>1, <1>6, <1>11, <1>12 DEF Bookings
<1>14. Replacements'
    BY <1>1, <1>11 DEF Replacements
<1> QED BY <1>7, <1>8, <1>9, <1>10, <1>13, <1>14

LEMMA RunnerInvLoop ==
    ASSUME RunnerInv, SchedulePendingTasks, TypeOK', Placement'
    PROVE  RunnerInv'
<1> USE DEF RunnerInv
<1>1. PICK batch \in SUBSET pending_tasks \ {{}} : \E on \in [batch -> idle_runners] :
          (\A s, t \in batch : on[s] = on[t] => s = t) /\ StartOn(batch, on)
    BY DEF SchedulePendingTasks
<1>2. PICK on \in [batch -> idle_runners] :
          (\A s, t \in batch : on[s] = on[t] => s = t) /\ StartOn(batch, on)
    BY <1>1
<1>3. /\ batch \subseteq Sub
      /\ \A s \in batch : future[s] = "queued" /\ on[s] \in idle_runners /\ on[s] \in Runners
    BY DEF Placement, TypeOK
<1> DEFINE taken == {on[s] : s \in batch}
<1>4. /\ idle_runners' = idle_runners \ taken
      /\ busy_runners' = [r \in Runners |->
             IF r \in taken THEN CHOOSE s \in batch : on[s] = r ELSE busy_runners[r]]
      /\ pending_tasks' = pending_tasks \ batch
      /\ running_tasks' = running_tasks \cup batch
      /\ future' = [s \in Sub |-> IF s \in batch THEN "running" ELSE future[s]]
      /\ runner_of' = [s \in Sub |-> IF s \in batch THEN on[s] ELSE runner_of[s]]
      /\ restart_on_cancel' = restart_on_cancel \cup batch
      /\ UNCHANGED <<client, cleanup_restarts, background_tasks, phase, stop_wait>>
    BY <1>2 DEF StartOn, clientVars, stopVars, callVars
<1>5. \A s \in batch : busy_runners'[on[s]] = s
    BY <1>2, <1>3, <1>4
<1>6. \A r \in Runners : r \in taken => \E s \in batch : r = on[s]
    OBVIOUS
<1>7. \A r \in Runners \ taken : busy_runners'[r] = busy_runners[r]
    BY <1>4
<1>8. taken \subseteq idle_runners
    BY <1>3
<1> HIDE DEF taken
<1>9. InFlight' = InFlight \cup batch
    BY <1>3, <1>4 DEF InFlight, Live, Settled
<1>10. \A s \in InFlight : s \notin batch /\ future'[s] = future[s] /\ runner_of'[s] = runner_of[s]
    BY <1>3, <1>4 DEF InFlight, Live, Settled
<1>11. Owned'
    BY <1>4, <1>9 DEF Owned, Awaited
<1>12. Cancellation'
    BY <1>3, <1>4 DEF Cancellation
<1>13. Turns'
    BY <1>4 DEF Turns, InCall
<1>14. NoRepairs'
    BY <1>3, <1>4 DEF NoRepairs
<1>15. Bookings'
    <2>1. ASSUME NEW r \in Runners PROVE r \in idle_runners' <=> busy_runners'[r] = NoSub
        <3>1. CASE r \in taken
            BY <1>3, <1>4, <1>5, <1>6, <3>1, NoneAssumption
        <3>2. CASE r \notin taken
            BY <1>4, <1>7, <3>2 DEF Bookings
        <3> QED BY <3>1, <3>2
    <2>2. ASSUME NEW s \in InFlight' PROVE busy_runners'[runner_of'[s]] = s
        <3>1. CASE s \in batch
            BY <1>3, <1>4, <1>5, <3>1
        <3>2. CASE s \notin batch
            <4>1. s \in InFlight /\ runner_of'[s] = runner_of[s] /\ runner_of[s] \in Runners
                BY <1>9, <1>10, <3>2 DEF Placement
            <4>2. runner_of[s] \notin idle_runners
                BY <4>1, NoneAssumption DEF Bookings, InFlight
            <4> QED BY <1>7, <1>8, <4>1, <4>2 DEF Bookings
        <3> QED BY <3>1, <3>2
    <2>3. ASSUME NEW r \in Runners, busy_runners'[r] # NoSub
          PROVE  \/ busy_runners'[r] \in InFlight' /\ runner_of'[busy_runners'[r]] = r
                 \/ future'[busy_runners'[r]] = "closed" /\ Reclaimed(r)'
        <3>1. CASE r \in taken
            BY <1>3, <1>4, <1>5, <1>6, <1>9, <3>1
        <3>2. CASE r \notin taken
            <4>1. busy_runners'[r] = busy_runners[r] /\ busy_runners[r] \in Sub
                BY <1>7, <2>3, <3>2 DEF TypeOK
            <4>2. CASE busy_runners[r] \in InFlight /\ runner_of[busy_runners[r]] = r
                BY <1>9, <1>10, <4>1, <4>2
            <4>3. CASE future[busy_runners[r]] = "closed" /\ Reclaimed(r)
                BY <1>3, <1>4, <4>1, <4>3 DEF Reclaimed
            <4> QED BY <2>3, <4>1, <4>2, <4>3 DEF Bookings
        <3> QED BY <3>1, <3>2
    <2> QED BY <2>1, <2>2, <2>3 DEF Bookings
<1>16. Replacements'
    <2> SUFFICES ASSUME NEW c \in Clients, NEW r \in Runners, <<c, r>> \in cleanup_restarts
                 PROVE  /\ client[c].pc = "restart"
                        /\ busy_runners'[r] # NoSub
                        /\ client[c].b = BatchOf(busy_runners'[r])
                        /\ future'[busy_runners'[r]] = "closed"
        BY <1>4 DEF Replacements
    <2>1. busy_runners[r] # NoSub /\ r \notin taken
        BY <1>8 DEF Replacements, Bookings
    <2>2. busy_runners'[r] = busy_runners[r] /\ busy_runners[r] \in Sub
        BY <1>7, <2>1 DEF TypeOK
    <2> QED BY <1>3, <1>4, <2>1, <2>2 DEF Replacements
<1> QED BY <1>11, <1>12, <1>13, <1>14, <1>15, <1>16

LEMMA RunnerInvSettle ==
    ASSUME Benign, RunnerInv, NEW s \in Sub, RunWithRetry(s), TypeOK', Placement'
    PROVE  RunnerInv'
<1> USE DEF RunnerInv
<1>1. PICK o \in {"ok", "failed", "cancelled"} :
          /\ future' = [future EXCEPT ![s] = o]
          /\ o = "cancelled" => future[s] = "cancelling"
    BY DEF RunWithRetry, Benign
<1>2. future[s] \in Live
    BY DEF RunWithRetry, Live
<1>3. UNCHANGED <<idle_runners, busy_runners, client, cleanup_restarts, runner_of, pending_tasks,
                  restart_on_cancel, running_tasks, background_tasks, phase, stop_wait>>
    BY DEF RunWithRetry, runnerVars, clientVars, stopVars, callVars
<1>4. /\ future'[s] = o
      /\ \A u \in Sub \ {s} : future'[u] = future[u]
    BY <1>1 DEF TypeOK
<1>5. InFlight' = InFlight
    BY <1>2, <1>4 DEF InFlight, Live, Settled
<1>6. Owned'
    BY <1>3, <1>5 DEF Owned, Awaited
<1>7. Cancellation'
    BY <1>1, <1>3, <1>4 DEF Cancellation
<1>8. Turns'
    BY <1>3 DEF Turns, InCall
<1>9. NoRepairs'
    BY <1>3, <1>4 DEF NoRepairs
<1>10. \A r \in Runners : future[busy_runners[r]] = "closed" /\ busy_runners[r] \in Sub
                          => future'[busy_runners[r]] = "closed"
    BY <1>2, <1>4 DEF Live
<1>11. Bookings'
    <2>1. \A r \in Runners : Reclaimed(r)' <=> Reclaimed(r)
        BY <1>3 DEF Reclaimed
    <2>2. \A r \in Runners : busy_runners[r] # NoSub => busy_runners[r] \in Sub
        BY DEF TypeOK
    <2> QED BY <1>3, <1>5, <1>10, <2>1, <2>2 DEF Bookings
<1>12. Replacements'
    BY <1>3, <1>10 DEF Replacements, TypeOK
<1> QED BY <1>6, <1>7, <1>8, <1>9, <1>11, <1>12

\* What closing s leaves alone, whoever gets the runner.
LEMMA RunnerInvClose ==
    ASSUME RunnerInv, NEW s \in InFlight, Close(s), UNCHANGED background_tasks
    PROVE  /\ InFlight' = InFlight \ {s}
           /\ \A u \in Sub \ {s} : future'[u] = future[u] /\ runner_of'[u] = runner_of[u]
           /\ future'[s] = "closed"
           /\ UNCHANGED <<client, cleanup_restarts, pending_tasks, background_tasks>>
           /\ Owned' /\ Cancellation' /\ Turns' /\ NoRepairs'
<1> USE DEF RunnerInv
<1>1. /\ future' = [future EXCEPT ![s] = "closed"]
      /\ runner_of' = [runner_of EXCEPT ![s] = NoRunner]
      /\ restart_on_cancel' = restart_on_cancel \ {s}
      /\ running_tasks' = running_tasks \ {s}
      /\ UNCHANGED <<client, cleanup_restarts, phase, stop_wait, pending_tasks, background_tasks>>
    BY DEF Close, clientVars, stopVars, callVars
<1>2. s \in Sub
    BY DEF InFlight
<1>3. /\ future'[s] = "closed"
      /\ \A u \in Sub \ {s} : future'[u] = future[u] /\ runner_of'[u] = runner_of[u]
    BY <1>1, <1>2 DEF TypeOK
<1>4. InFlight' = InFlight \ {s}
    BY <1>2, <1>3 DEF InFlight, Live, Settled
<1>5. Owned'
    BY <1>1, <1>4 DEF Owned, Awaited
<1>6. Cancellation'
    BY <1>1, <1>3 DEF Cancellation
<1>7. Turns'
    BY <1>1 DEF Turns, InCall
<1>8. NoRepairs'
    BY <1>1, <1>3 DEF NoRepairs
<1> QED BY <1>1, <1>3, <1>4, <1>5, <1>6, <1>7, <1>8

\* The callback of s gives its runner back.
LEMMA RunnerInvGiveBack ==
    ASSUME RunnerInv, NEW s \in InFlight, Close(s), UNCHANGED background_tasks,
           GiveBack(runner_of[s]), TypeOK', Placement'
    PROVE  RunnerInv'
<1> USE DEF RunnerInv
<1>1. /\ InFlight' = InFlight \ {s}
      /\ \A u \in Sub \ {s} : future'[u] = future[u] /\ runner_of'[u] = runner_of[u]
      /\ future'[s] = "closed"
      /\ UNCHANGED <<client, cleanup_restarts>>
      /\ Owned' /\ Cancellation' /\ Turns' /\ NoRepairs'
    BY RunnerInvClose
<1> DEFINE r == runner_of[s]
<1>2. s \in Sub /\ r \in Runners /\ busy_runners[r] = s
    BY DEF InFlight, Placement, Bookings
<1>3. /\ busy_runners' = [busy_runners EXCEPT ![r] = NoSub]
      /\ idle_runners' = idle_runners \cup {r}
    BY DEF GiveBack
<1>4. busy_runners'[r] = NoSub /\ \A q \in Runners \ {r} : busy_runners'[q] = busy_runners[q]
    BY <1>2, <1>3 DEF TypeOK
<1>5. \A q \in Runners \ {r} : busy_runners[q] # s
    <2> SUFFICES ASSUME NEW q \in Runners, busy_runners[q] = s PROVE q = r
        OBVIOUS
    <2>1. s # NoSub /\ future[s] # "closed"
        BY <1>2, NoneAssumption DEF InFlight, Live, Settled
    <2> QED BY <2>1 DEF Bookings
<1> HIDE DEF r
<1>6. \A u \in InFlight' : runner_of[u] \in Runners \ {r}
    BY <1>1, <1>2 DEF Placement, Bookings
<1>7. Bookings'
    <2>1. \A q \in Runners : q \in idle_runners' <=> busy_runners'[q] = NoSub
        BY <1>2, <1>3, <1>4 DEF Bookings
    <2>2. \A u \in InFlight' : busy_runners'[runner_of'[u]] = u
        BY <1>1, <1>4, <1>6 DEF Bookings, InFlight
    <2>3. ASSUME NEW q \in Runners, busy_runners'[q] # NoSub
          PROVE  \/ busy_runners'[q] \in InFlight' /\ runner_of'[busy_runners'[q]] = q
                 \/ future'[busy_runners'[q]] = "closed" /\ Reclaimed(q)'
        <3>1. q # r /\ busy_runners'[q] = busy_runners[q] /\ busy_runners[q] \in Sub \ {s}
            BY <1>4, <1>5, <2>3 DEF TypeOK
        <3>2. CASE busy_runners[q] \in InFlight /\ runner_of[busy_runners[q]] = q
            BY <1>1, <3>1, <3>2
        <3>3. CASE future[busy_runners[q]] = "closed" /\ Reclaimed(q)
            BY <1>1, <3>1, <3>3 DEF Reclaimed
        <3> QED BY <2>3, <3>1, <3>2, <3>3 DEF Bookings
    <2> QED BY <2>1, <2>2, <2>3 DEF Bookings
<1>8. Replacements'
    <2> SUFFICES ASSUME NEW c \in Clients, NEW q \in Runners, <<c, q>> \in cleanup_restarts
                 PROVE  /\ client[c].pc = "restart"
                        /\ busy_runners'[q] # NoSub
                        /\ client[c].b = BatchOf(busy_runners'[q])
                        /\ future'[busy_runners'[q]] = "closed"
        BY <1>1 DEF Replacements
    <2>1. future[busy_runners[q]] = "closed" /\ busy_runners[q] # NoSub
        BY DEF Replacements
    <2>2. q # r
        BY <1>2, <2>1 DEF InFlight, Live, Settled
    <2>3. busy_runners'[q] = busy_runners[q] /\ busy_runners[q] \in Sub \ {s}
        BY <1>4, <1>5, <2>1, <2>2 DEF TypeOK
    <2> QED BY <1>1, <2>1, <2>3 DEF Replacements
<1> QED BY <1>1, <1>7, <1>8

LEMMA RunnerInvCancelled ==
    ASSUME RunnerInv, NEW s \in Sub, TaskCancelled(s), TypeOK', Placement'
    PROVE  RunnerInv'
<1> USE DEF RunnerInv
<1>1. s \in InFlight /\ Close(s) /\ UNCHANGED background_tasks
    BY DEF TaskCancelled, InFlight, Settled
<1>2. CASE s \notin restart_on_cancel
    BY <1>1, <1>2, RunnerInvGiveBack DEF TaskCancelled
<1>3. CASE s \in restart_on_cancel
    <2>1. /\ InFlight' = InFlight \ {s}
          /\ \A u \in Sub \ {s} : future'[u] = future[u] /\ runner_of'[u] = runner_of[u]
          /\ future'[s] = "closed"
          /\ UNCHANGED <<client, cleanup_restarts>>
          /\ Owned' /\ Cancellation' /\ Turns' /\ NoRepairs'
        BY <1>1, RunnerInvClose
    <2>2. UNCHANGED <<idle_runners, busy_runners>>
        BY <1>3 DEF TaskCancelled, runnerVars
    <2>3. \E c \in Clients : client[c].pc = "gather" /\ client[c].restart /\ client[c].b = BatchOf(s)
        BY <1>3 DEF TaskCancelled, Cancellation, Turns
    <2>4. Bookings'
        <3>1. \A u \in InFlight' : busy_runners'[runner_of'[u]] = u
            BY <2>1, <2>2 DEF Bookings, InFlight
        <3>2. ASSUME NEW q \in Runners, busy_runners[q] # NoSub
              PROVE  \/ busy_runners[q] \in InFlight' /\ runner_of'[busy_runners[q]] = q
                     \/ future'[busy_runners[q]] = "closed" /\ Reclaimed(q)'
            <4>1. CASE busy_runners[q] = s
                BY <2>1, <2>2, <2>3, <4>1 DEF Reclaimed
            <4>2. CASE busy_runners[q] # s
                <5>1. busy_runners[q] \in Sub \ {s}
                    BY <3>2, <4>2 DEF TypeOK
                <5>2. Reclaimed(q) => Reclaimed(q)'
                    BY <2>1, <2>2 DEF Reclaimed
                <5> QED BY <2>1, <3>2, <5>1, <5>2 DEF Bookings
            <4> QED BY <4>1, <4>2
        <3>3. \A q \in Runners : q \in idle_runners' <=> busy_runners'[q] = NoSub
            BY <2>2 DEF Bookings
        <3>4. \A q \in Runners : busy_runners'[q] # NoSub =>
                  \/ busy_runners'[q] \in InFlight' /\ runner_of'[busy_runners'[q]] = q
                  \/ future'[busy_runners'[q]] = "closed" /\ Reclaimed(q)'
            BY <2>2, <3>2
        <3> QED BY <3>1, <3>3, <3>4 DEF Bookings
    <2>5. Replacements'
        BY <2>1, <2>2 DEF Replacements, TypeOK
    <2> QED BY <2>1, <2>4, <2>5
<1> QED BY <1>2, <1>3

LEMMA RunnerInvReturned ==
    ASSUME RunnerInv, NEW s \in Sub, TaskReturned(s), TypeOK', Placement'
    PROVE  RunnerInv'
<1>1. s \in InFlight /\ Close(s) /\ UNCHANGED background_tasks /\ GiveBack(runner_of[s])
    BY DEF TaskReturned, InFlight, Settled
<1> QED BY <1>1, RunnerInvGiveBack

\* The client steps that neither book nor release a runner: a call begins, a
\* wait gives up, a cleanup with nothing to restart returns.
LEMMA RunnerInvClient ==
    ASSUME RunnerInv, NEW c \in Clients,
           UNCHANGED <<idle_runners, busy_runners, runner_of, restart_on_cancel,
                       running_tasks, background_tasks, phase, stop_wait>>,
           UNCHANGED cleanup_restarts,
           pending_tasks' \subseteq pending_tasks,
           \A s \in Sub : \/ future'[s] = future[s]
                          \/ future[s] = "queued" /\ future'[s] = "dropped",
           \A d \in Clients \ {c} : client'[d] = client[d],
           \A r \in Runners : <<c, r>> \notin cleanup_restarts,
           client[c].pc = "gather" =>
               /\ \A s \in client[c].futures : future[s] = "closed"
               /\ client[c].restart => \A r \in Runners :
                      busy_runners[r] # NoSub => BatchOf(busy_runners[r]) # client[c].b,
           client'[c].pc \in {"free", "wait"},
           client'[c].pc = "wait" =>
               \A d \in Clients : InCall(d) => client[d].b # client'[c].b,
           TypeOK', Placement'
    PROVE  RunnerInv'
<1> USE DEF RunnerInv
<1>1. InFlight' = InFlight
    BY DEF InFlight, Live, Settled
<1>2. \A s \in Sub : future[s] # "closed" /\ Awaited(s) => Awaited(s)'
    BY DEF Awaited
<1>3. \A s \in InFlight : s \in Sub /\ future[s] # "closed"
    BY DEF InFlight, Live, Settled
<1>4. Owned'
    BY <1>1, <1>2, <1>3 DEF Owned
<1>5. Cancellation'
    BY DEF Cancellation
<1>6. Turns'
    BY DEF Turns, InCall
<1>7. NoRepairs'
    BY DEF NoRepairs
<1>8. \A r \in Runners : busy_runners[r] # NoSub /\ Reclaimed(r) => Reclaimed(r)'
    BY DEF Reclaimed
<1>9. \A r \in Runners : busy_runners[r] # NoSub => busy_runners[r] \in Sub
    BY DEF TypeOK
<1>10. Bookings'
    BY <1>1, <1>8, <1>9 DEF Bookings
<1>11. Replacements'
    BY <1>9 DEF Replacements
<1> QED BY <1>4, <1>5, <1>6, <1>7, <1>10, <1>11

LEMMA RunnerInvGet ==
    ASSUME Benign, RunnerInv, NEW c \in Clients, NEW b \in Batches, NEW m \in 0 .. MaxTasks,
           NEW clear \in BOOLEAN, NEW partial \in BOOLEAN,
           GetPayloadResults(c, b, m, clear, partial), TypeOK', Placement'
    PROVE  RunnerInv'
<1>1. /\ client'[c].pc = "wait" /\ client'[c].b = b
      /\ \A d \in Clients \ {c} : client'[d] = client[d]
    BY DEF GetPayloadResults, RunnerInv, TypeOK, Free
<1>2. \A d \in Clients : InCall(d) => client[d].b # b
    BY DEF GetPayloadResults, Available, Benign
<1>3. client[c].pc = "free"
    BY DEF GetPayloadResults
<1>4. \A r \in Runners : <<c, r>> \notin cleanup_restarts
    BY <1>3 DEF RunnerInv, Replacements
<1> QED
    BY <1>1, <1>2, <1>3, <1>4, RunnerInvClient
       DEF GetPayloadResults, runnerVars, futureVars, stopVars

LEMMA RunnerInvReturn ==
    ASSUME RunnerInv, NEW c \in Clients,
           AllCompleted(c) \/ GiveUpWaiting(c) \/ Restarted(c), TypeOK', Placement'
    PROVE  RunnerInv'
<1>1. /\ client' = [client EXCEPT ![c] = Free]
      /\ UNCHANGED <<idle_runners, busy_runners, future, runner_of, restart_on_cancel,
                     pending_tasks, running_tasks, background_tasks, phase, stop_wait,
                     cleanup_restarts>>
    BY DEF AllCompleted, GiveUpWaiting, Restarted, Return, runnerVars, futureVars, stopVars
<1>2. client'[c].pc = "free" /\ \A d \in Clients \ {c} : client'[d] = client[d]
    BY <1>1 DEF RunnerInv, TypeOK, Free
<1>3. client[c].pc \in {"wait", "restart"}
    BY DEF AllCompleted, GiveUpWaiting, Restarted
<1>4. \A r \in Runners : <<c, r>> \notin cleanup_restarts
    BY DEF AllCompleted, GiveUpWaiting, Restarted, RunnerInv, Replacements
<1> QED BY <1>1, <1>2, <1>3, <1>4, RunnerInvClient

\* Nothing of the batch is queued or in flight any more: the cleanup restarts
\* the runners left behind.
LEMMA RunnerInvRestart ==
    ASSUME RunnerInv, NEW c \in Clients, NEW call \in Call,
           call.restart, client[c].pc # "restart",
           client[c].pc = "gather" => client[c].b = call.b,
           \A s \in InFlight : BatchOf(s) = call.b =>
               client[c].pc = "gather" /\ s \in client[c].futures,
           client[c].pc = "gather" => \A s \in client[c].futures : future[s] = "closed",
           \A s \in pending_tasks' \cup running_tasks : BatchOf(s) # call.b,
           \A d \in Clients \ {c} : InCall(d) => client[d].b # call.b,
           client' = [client EXCEPT ![c] = [call EXCEPT !.pc = "restart"]],
           cleanup_restarts' = cleanup_restarts \cup ({c} \X Restartable(call)),
           UNCHANGED <<idle_runners, busy_runners, runner_of, background_tasks, phase, stop_wait>>,
           UNCHANGED <<restart_on_cancel, running_tasks>>,
           pending_tasks' \subseteq pending_tasks,
           \A s \in Sub : \/ future'[s] = future[s]
                          \/ future[s] = "queued" /\ future'[s] = "dropped",
           TypeOK', Placement'
    PROVE  RunnerInv'
<1> USE DEF RunnerInv
<1>1. InFlight' = InFlight
    BY DEF InFlight, Live, Settled
<1>2. \A s \in InFlight : s \in Sub /\ future[s] # "closed" /\ BatchOf(s) # call.b
    BY DEF InFlight, Live, Settled
<1>3. /\ client'[c].pc = "restart" /\ client'[c].b = call.b
      /\ \A d \in Clients \ {c} : client'[d] = client[d]
    BY DEF TypeOK, Call
<1>4. \A s \in Sub : future[s] # "closed" /\ Awaited(s) => Awaited(s)'
    BY <1>3 DEF Awaited
<1>5. \A r \in Runners : <<c, r>> \notin cleanup_restarts
    BY DEF Replacements
<1>6. Owned'
    BY <1>1, <1>2, <1>4 DEF Owned
<1>7. Cancellation'
    BY <1>3 DEF Cancellation
<1>8. Turns'
    BY <1>3 DEF Turns, InCall
<1>9. NoRepairs'
    BY DEF NoRepairs
<1>10. \A r \in Runners : busy_runners[r] # NoSub /\ Reclaimed(r) => Reclaimed(r)'
    <2> SUFFICES ASSUME NEW r \in Runners, busy_runners[r] # NoSub, Reclaimed(r)
                 PROVE  Reclaimed(r)'
        OBVIOUS
    <2>1. PICK d \in Clients :
              /\ client[d].b = BatchOf(busy_runners[r])
              /\ \/ client[d].pc = "gather" /\ client[d].restart
                 \/ <<d, r>> \in cleanup_restarts
        BY DEF Reclaimed
    <2>2. busy_runners' = busy_runners
        OBVIOUS
    <2>3. CASE d = c
        <3>1. client[c].b = call.b
            BY <1>5, <2>1, <2>3
        <3>2. <<c, r>> \in cleanup_restarts'
            BY <2>1, <2>3, <3>1 DEF Restartable
        <3>3. client'[c].b = BatchOf(busy_runners'[r])
            BY <1>3, <2>1, <2>2, <2>3, <3>1
        <3> QED BY <3>2, <3>3 DEF Reclaimed
    <2>4. CASE d # c
        <3>1. client'[d] = client[d] /\ (<<d, r>> \in cleanup_restarts => <<d, r>> \in cleanup_restarts')
            BY <1>3, <2>4
        <3>2. /\ client'[d].b = BatchOf(busy_runners'[r])
              /\ \/ client'[d].pc = "gather" /\ client'[d].restart
                 \/ <<d, r>> \in cleanup_restarts'
            BY <2>1, <2>2, <3>1
        <3> QED BY <3>2 DEF Reclaimed
    <2> QED BY <2>3, <2>4
<1>11. \A r \in Runners : busy_runners[r] # NoSub => busy_runners[r] \in Sub
    BY DEF TypeOK
<1>12. Bookings'
    BY <1>1, <1>10, <1>11 DEF Bookings
<1>13. Replacements'
    <2> SUFFICES ASSUME NEW d \in Clients, NEW r \in Runners, <<d, r>> \in cleanup_restarts'
                 PROVE  /\ client'[d].pc = "restart"
                        /\ busy_runners[r] # NoSub
                        /\ client'[d].b = BatchOf(busy_runners[r])
                        /\ future'[busy_runners[r]] = "closed"
        BY DEF Replacements
    <2>1. CASE <<d, r>> \in cleanup_restarts
        BY <1>3, <1>5, <1>11, <2>1 DEF Replacements
    <2>2. CASE d = c /\ r \in Restartable(call)
        <3>1. busy_runners[r] # NoSub /\ BatchOf(busy_runners[r]) = call.b
            BY <2>2 DEF Restartable
        <3>2. future[busy_runners[r]] = "closed"
            BY <1>2, <3>1 DEF Bookings
        <3> QED BY <1>3, <1>11, <2>2, <3>1, <3>2
    <2> QED BY <2>1, <2>2
<1> QED BY <1>6, <1>7, <1>8, <1>9, <1>12, <1>13

LEMMA RunnerInvGathered ==
    ASSUME RunnerInv, NEW c \in Clients, Gathered(c), TypeOK', Placement'
    PROVE  RunnerInv'
<1> DEFINE call == [client[c] EXCEPT !.futures = {}]
           rs == IF call.restart THEN Restartable(call) ELSE {}
<1>0. client[c] \in Call
    BY DEF RunnerInv, TypeOK
<1>1. /\ client[c].pc = "gather" /\ InCall(c)
      /\ \A s \in client[c].futures : future[s] = "closed"
      /\ AfterGather(c, call, completed_tasks)
      /\ UNCHANGED <<idle_runners, busy_runners, future, runner_of, restart_on_cancel,
                     pending_tasks, running_tasks, background_tasks, phase, stop_wait>>
    BY DEF Gathered, AllClosed, runnerVars, futureVars, stopVars, InCall
<1>2. call \in Call /\ call.b = client[c].b /\ call.restart = client[c].restart
    BY <1>0 DEF Call
<1>3. \A r \in Runners : <<c, r>> \notin cleanup_restarts
    BY <1>1 DEF RunnerInv, Replacements
<1> HIDE DEF call
<1>4. CASE rs = {}
    <2>1. client' = [client EXCEPT ![c] = Free] /\ UNCHANGED cleanup_restarts
        BY <1>1, <1>4 DEF AfterGather, Return
    <2>2. client'[c].pc = "free" /\ \A d \in Clients \ {c} : client'[d] = client[d]
        BY <2>1 DEF RunnerInv, TypeOK, Free
    <2>3. client[c].restart => \A r \in Runners :
              busy_runners[r] # NoSub => BatchOf(busy_runners[r]) # client[c].b
        BY <1>2, <1>4 DEF Restartable
    <2> QED BY <1>1, <1>3, <2>1, <2>2, <2>3, RunnerInvClient
<1>5. CASE rs # {}
    <2>1. /\ call.restart
          /\ client' = [client EXCEPT ![c] = [call EXCEPT !.pc = "restart"]]
          /\ cleanup_restarts' = cleanup_restarts \cup ({c} \X Restartable(call))
        BY <1>1, <1>5 DEF AfterGather
    <2>2. \A d \in Clients \ {c} : InCall(d) => client[d].b # call.b
        BY <1>1, <1>2 DEF RunnerInv, Turns
    <2>3. \A s \in pending_tasks \cup running_tasks : BatchOf(s) # call.b
        BY <1>1, <1>2 DEF RunnerInv, Turns
    <2>4. \A s \in InFlight : BatchOf(s) = call.b => s \in client[c].futures
        BY <2>2, <2>3 DEF RunnerInv, Owned, Awaited, Turns, InCall
    <2> QED BY <1>1, <1>2, <2>1, <2>2, <2>3, <2>4, RunnerInvRestart
<1> QED BY <1>4, <1>5

\* A cleanup cancels the running futures of its batch and waits for them.
LEMMA RunnerInvCancel ==
    ASSUME RunnerInv, NEW c \in Clients, NEW call \in Call,
           client[c].pc \in {"free", "wait"},
           \A d \in Clients \ {c} : InCall(d) => client[d].b # call.b,
           NEW inflight, inflight = {s \in running_tasks : BatchOf(s) = call.b},
           client' = [client EXCEPT ![c] = [call EXCEPT !.pc = "gather", !.futures = inflight]],
           restart_on_cancel' = IF call.restart THEN restart_on_cancel \cup inflight
                                                ELSE restart_on_cancel \ inflight,
           running_tasks' = running_tasks \ inflight,
           pending_tasks' \subseteq pending_tasks,
           \A s \in pending_tasks' : BatchOf(s) # call.b,
           \A s \in Sub : \/ future'[s] = future[s]
                          \/ future[s] = "queued" /\ future'[s] = "dropped"
                          \/ future[s] = "running" /\ s \in inflight /\ future'[s] = "cancelling",
           UNCHANGED <<idle_runners, busy_runners, runner_of, background_tasks, phase,
                       stop_wait, cleanup_restarts>>,
           TypeOK', Placement'
    PROVE  RunnerInv'
<1> USE DEF RunnerInv
<1>1. InFlight' = InFlight
    BY DEF InFlight, Live, Settled
<1>2. /\ client'[c].pc = "gather" /\ client'[c].b = call.b
      /\ client'[c].futures = inflight /\ client'[c].restart = call.restart
      /\ \A d \in Clients \ {c} : client'[d] = client[d]
    <2> DEFINE gather == [call EXCEPT !.pc = "gather", !.futures = inflight]
    <2>1. client'[c] = gather
        BY DEF TypeOK
    <2>2. \A d \in Clients \ {c} : client'[d] = client[d]
        BY DEF TypeOK
    <2>3. inflight \in SUBSET Sub
        BY DEF TypeOK
    <2>4. gather.pc = "gather" /\ gather.futures = inflight
        BY <2>3 DEF Call
    <2>5. gather.b = call.b /\ gather.restart = call.restart
        BY <2>3 DEF Call
    <2> HIDE DEF gather
    <2> QED BY <2>1, <2>2, <2>4, <2>5
<1>3. \A s \in Sub : s \in inflight \/ Awaited(s) => Awaited(s)'
    BY <1>2 DEF Awaited
<1>4. \A r \in Runners : <<c, r>> \notin cleanup_restarts
    BY DEF Replacements
<1>5. InFlight \subseteq Sub
    BY DEF InFlight
<1>6. Owned'
    BY <1>1, <1>3, <1>5 DEF Owned
<1>7. Cancellation'
    <2> SUFFICES ASSUME NEW s \in Sub, future'[s] \in {"cancelling", "cancelled"}
                 PROVE  \E d \in Clients :
                            /\ client'[d].pc = "gather" /\ s \in client'[d].futures
                            /\ s \in restart_on_cancel' => client'[d].restart
        BY DEF Cancellation
    <2>1. CASE s \in inflight
        BY <1>2, <2>1
    <2>2. CASE s \notin inflight
        <3>1. s \in restart_on_cancel' <=> s \in restart_on_cancel
            BY <2>2
        <3>2. PICK d \in Clients :
                  /\ client[d].pc = "gather" /\ s \in client[d].futures
                  /\ s \in restart_on_cancel => client[d].restart
            BY <2>2 DEF Cancellation
        <3> QED BY <1>2, <3>1, <3>2
    <2> QED BY <2>1, <2>2
<1>8. Turns'
    BY <1>2 DEF Turns, InCall
<1>9. NoRepairs'
    BY DEF NoRepairs
<1>10. \A r \in Runners : busy_runners[r] # NoSub /\ Reclaimed(r) => Reclaimed(r)'
    <2> SUFFICES ASSUME NEW r \in Runners, Reclaimed(r) PROVE Reclaimed(r)'
        OBVIOUS
    <2>1. PICK d \in Clients :
              /\ client[d].b = BatchOf(busy_runners[r])
              /\ \/ client[d].pc = "gather" /\ client[d].restart
                 \/ <<d, r>> \in cleanup_restarts
        BY DEF Reclaimed
    <2>2. d # c
        BY <1>4, <2>1
    <2>3. client'[d] = client[d]
        BY <1>2, <2>2
    <2>4. busy_runners' = busy_runners /\ cleanup_restarts' = cleanup_restarts
        OBVIOUS
    <2> QED BY <2>1, <2>3, <2>4 DEF Reclaimed
<1>11. \A r \in Runners : busy_runners[r] # NoSub => busy_runners[r] \in Sub
    BY DEF TypeOK
<1>12. Bookings'
    BY <1>1, <1>10, <1>11 DEF Bookings
<1>13. Replacements'
    BY <1>2, <1>4, <1>11 DEF Replacements
<1> QED BY <1>6, <1>7, <1>8, <1>9, <1>12, <1>13

LEMMA RunnerInvCleanup ==
    ASSUME RunnerInv, ~eager_gather, NEW c \in Clients, NEW call \in Call,
           client[c].pc \in {"free", "wait"},
           \A d \in Clients \ {c} : InCall(d) => client[d].b # call.b,
           CleanupBatch(c, call), TypeOK', Placement'
    PROVE  RunnerInv'
<1> DEFINE queued == {s \in pending_tasks : BatchOf(s) = call.b}
           inflight == {s \in running_tasks : BatchOf(s) = call.b}
           partials == {t \in {TaskOf(s) : s \in queued \cup inflight} \ emitted :
                           call.partial /\ SubsOf(t) \cap succeeded # {}}
           results == ResultsWith(partials)
           done == [call EXCEPT !.futures = inflight]
           rs == IF done.restart THEN Restartable(done) ELSE {}
<1>1. /\ restart_on_cancel' = IF call.restart THEN restart_on_cancel \cup inflight
                                              ELSE restart_on_cancel \ inflight
      /\ pending_tasks' = pending_tasks \ queued
      /\ running_tasks' = running_tasks \ inflight
      /\ future' = [s \in Sub |->
             IF s \in queued THEN "dropped"
             ELSE IF s \in inflight /\ future[s] = "running" THEN "cancelling"
             ELSE future[s]]
      /\ UNCHANGED <<idle_runners, busy_runners, runner_of, background_tasks, phase, stop_wait>>
    BY DEF CleanupBatch, runnerVars, stopVars
<1>2. \A s \in queued : future[s] = "queued"
    BY DEF RunnerInv, Placement
<1>3. \A s \in pending_tasks' : BatchOf(s) # call.b
    BY <1>1
<1>4. \A r \in Runners : <<c, r>> \notin cleanup_restarts
    BY DEF RunnerInv, Replacements
<1>5. CASE inflight # {}
    <2>1. /\ client' = [client EXCEPT ![c] = [call EXCEPT !.pc = "gather", !.futures = inflight]]
          /\ UNCHANGED cleanup_restarts
        BY <1>5 DEF CleanupBatch, GatherDone
    <2>2. inflight = {s \in running_tasks : BatchOf(s) = call.b}
        OBVIOUS
    <2> HIDE DEF queued, inflight
    <2>3. \A s \in Sub : \/ future'[s] = future[s]
                         \/ future[s] = "queued" /\ future'[s] = "dropped"
                         \/ future[s] = "running" /\ s \in inflight /\ future'[s] = "cancelling"
        BY <1>1, <1>2
    <2>4. pending_tasks' \subseteq pending_tasks
        BY <1>1
    <2> QED BY <1>1, <1>3, <2>1, <2>2, <2>3, <2>4, RunnerInvCancel
<1>6. CASE inflight = {}
    <2>0. done \in Call /\ done.b = call.b
        BY DEF Call, RunnerInv, TypeOK
    <2>1. AfterGather(c, done, results)
        BY <1>6 DEF CleanupBatch, GatherDone
    <2>2. /\ UNCHANGED <<restart_on_cancel, running_tasks>>
          /\ pending_tasks' \subseteq pending_tasks
        BY <1>1, <1>6 DEF RunnerInv, TypeOK
    <2>3. \A s \in running_tasks : BatchOf(s) # call.b
        BY <1>6
    <2>4. \A s \in Sub : \/ future'[s] = future[s]
                         \/ future[s] = "queued" /\ future'[s] = "dropped"
        BY <1>1, <1>2, <1>6
    <2>5. CASE rs = {}
        <3> HIDE DEF done, results
        <3>1. client' = [client EXCEPT ![c] = Free] /\ UNCHANGED cleanup_restarts
            BY <2>1, <2>5 DEF AfterGather, Return
        <3>2. client'[c].pc = "free" /\ \A d \in Clients \ {c} : client'[d] = client[d]
            BY <3>1 DEF RunnerInv, TypeOK, Free
        <3> QED BY <1>1, <1>4, <2>2, <2>4, <3>1, <3>2, RunnerInvClient
    <2>6. CASE rs # {}
        <3> HIDE DEF done, results
        <3>1. /\ done.restart
              /\ client' = [client EXCEPT ![c] = [done EXCEPT !.pc = "restart"]]
              /\ cleanup_restarts' = cleanup_restarts \cup ({c} \X Restartable(done))
            BY <2>1, <2>6 DEF AfterGather
        <3>2. \A s \in InFlight : BatchOf(s) # call.b
            BY <2>3 DEF RunnerInv, Owned, Awaited, Turns, InCall
        <3>3. UNCHANGED <<idle_runners, busy_runners, runner_of, background_tasks, phase, stop_wait>>
            BY <1>1
        <3>4. \A s \in pending_tasks' \cup running_tasks : BatchOf(s) # call.b
            BY <1>3, <2>3
        <3>5. client[c].pc # "restart" /\ client[c].pc # "gather"
            OBVIOUS
        <3>6. /\ \A s \in InFlight : BatchOf(s) # done.b
              /\ \A s \in pending_tasks' \cup running_tasks : BatchOf(s) # done.b
              /\ \A d \in Clients \ {c} : InCall(d) => client[d].b # done.b
            BY <2>0, <3>2, <3>4
        <3> HIDE DEF queued, inflight, partials, rs
        <3> QED BY <2>0, <2>2, <2>4, <3>1, <3>3, <3>5, <3>6, RunnerInvRestart
    <2> QED BY <2>5, <2>6
<1> QED BY <1>5, <1>6

LEMMA RunnerInvGiveUp ==
    ASSUME RunnerInv, ~eager_gather, NEW c \in Clients, MinCompleted(c) \/ TimedOut(c), TypeOK', Placement'
    PROVE  RunnerInv'
<1>1. client[c].pc = "wait" /\ client[c] \in Call
    BY DEF MinCompleted, TimedOut, RunnerInv, TypeOK
<1>2. \A d \in Clients \ {c} : InCall(d) => client[d].b # client[c].b
    BY <1>1 DEF RunnerInv, Turns, InCall
<1>3. CASE MinCompleted(c)
    BY <1>1, <1>2, <1>3, RunnerInvCleanup DEF MinCompleted
<1>4. CASE TimedOut(c)
    <2> DEFINE call == [client[c] EXCEPT !.restart = TRUE]
    <2>1. call \in Call /\ call.b = client[c].b
        BY <1>1 DEF Call
    <2>2. CleanupBatch(c, call)
        BY <1>4 DEF TimedOut
    <2> HIDE DEF call
    <2> QED BY <1>1, <1>2, <2>1, <2>2, RunnerInvCleanup
<1> QED BY <1>3, <1>4

LEMMA RunnerInvAbort ==
    ASSUME Benign, RunnerInv, ~eager_gather, NEW c \in Clients, NEW b \in Batches,
           NEW partial \in BOOLEAN, NEW restart \in BOOLEAN,
           AbortBatch(c, b, partial, restart), TypeOK', Placement'
    PROVE  RunnerInv'
<1> DEFINE call == [Free EXCEPT !.b = b, !.partial = partial, !.restart = restart]
<1>1. call \in Call /\ call.b = b
    BY DEF Free, Call
<1>2. CleanupBatch(c, call) /\ client[c].pc = "free"
    BY DEF AbortBatch
<1>3. \A d \in Clients \ {c} : InCall(d) => client[d].b # b
    BY DEF AbortBatch, Available, Benign
<1> HIDE DEF call
<1> QED BY <1>1, <1>2, <1>3, RunnerInvCleanup

\* A cleanup brings a runner back: nobody else was going to.
LEMMA RunnerInvRestartDone ==
    ASSUME RunnerInv, NEW c \in Clients, NEW r \in Runners, CleanupRestartDone(c, r),
           TypeOK', Placement'
    PROVE  RunnerInv'
<1> USE DEF RunnerInv
<1>1. /\ <<c, r>> \in cleanup_restarts
      /\ cleanup_restarts' = cleanup_restarts \ {<<c, r>>}
      /\ busy_runners' = [busy_runners EXCEPT ![r] = NoSub]
      /\ idle_runners' = idle_runners \cup {r}
      /\ UNCHANGED <<future, runner_of, restart_on_cancel, client, pending_tasks,
                     running_tasks, background_tasks, phase, stop_wait>>
    BY DEF CleanupRestartDone, GiveBack, futureVars, stopVars
<1>2. busy_runners'[r] = NoSub /\ \A q \in Runners \ {r} : busy_runners'[q] = busy_runners[q]
    BY <1>1 DEF TypeOK
<1>3. /\ client[c].pc = "restart" /\ busy_runners[r] # NoSub
      /\ client[c].b = BatchOf(busy_runners[r]) /\ future[busy_runners[r]] = "closed"
    BY <1>1 DEF Replacements
<1>4. InFlight' = InFlight
    BY <1>1 DEF InFlight
<1>5. Owned' /\ Cancellation' /\ Turns' /\ NoRepairs'
    BY <1>1, <1>4 DEF Owned, Cancellation, Turns, NoRepairs, Awaited, InCall
<1>6. \A s \in InFlight : runner_of[s] \in Runners \ {r}
    BY <1>3 DEF Bookings, Placement, InFlight, Live, Settled
<1>7. \A q \in Runners \ {r} : Reclaimed(q) => Reclaimed(q)'
    BY <1>1, <1>2 DEF Reclaimed
<1>8. Bookings'
    <2>1. \A q \in Runners : q \in idle_runners' <=> busy_runners'[q] = NoSub
        BY <1>1, <1>2 DEF Bookings
    <2>2. \A s \in InFlight' : busy_runners'[runner_of'[s]] = s
        BY <1>1, <1>2, <1>4, <1>6 DEF Bookings
    <2>3. ASSUME NEW q \in Runners, busy_runners'[q] # NoSub
          PROVE  \/ busy_runners'[q] \in InFlight' /\ runner_of'[busy_runners'[q]] = q
                 \/ future'[busy_runners'[q]] = "closed" /\ Reclaimed(q)'
        BY <1>1, <1>2, <1>4, <1>7, <2>3 DEF Bookings
    <2> QED BY <2>1, <2>2, <2>3 DEF Bookings
<1>9. \A d \in Clients : <<d, r>> \in cleanup_restarts => d = c
    BY <1>3 DEF Replacements, Turns, InCall
<1>10. Replacements'
    <2> SUFFICES ASSUME NEW d \in Clients, NEW q \in Runners, <<d, q>> \in cleanup_restarts'
                 PROVE  /\ client[d].pc = "restart"
                        /\ busy_runners'[q] # NoSub
                        /\ client[d].b = BatchOf(busy_runners'[q])
                        /\ future[busy_runners'[q]] = "closed"
        BY <1>1 DEF Replacements
    <2>1. <<d, q>> \in cleanup_restarts /\ q # r
        BY <1>1, <1>9
    <2> QED BY <1>2, <2>1 DEF Replacements
<1> QED BY <1>5, <1>8, <1>10

LEMMA RunnerInvStop ==
    ASSUME RunnerInv,
           \/ \E b \in Batches : DiscardCompletedResults(b)
           \/ Stop \/ StopGathered \/ Stopped \/ UNCHANGED vars,
           TypeOK', Placement'
    PROVE  RunnerInv'
<1> USE DEF RunnerInv
<1>1. UNCHANGED <<idle_runners, busy_runners, future, runner_of, restart_on_cancel, client,
                  cleanup_restarts, pending_tasks, running_tasks, background_tasks>>
    BY DEF DiscardCompletedResults, Stop, StopGathered, Stopped, vars, othersOfStop,
           runnerVars, futureVars, clientVars
<1>2. InFlight' = InFlight /\ \A s \in InFlight : future[s] # "closed" /\ Awaited(s)' = Awaited(s)
    BY <1>1 DEF InFlight, Live, Settled, Awaited
<1>3. /\ Owned' /\ Cancellation' /\ Turns' /\ NoRepairs'
      /\ \A r \in Runners : Reclaimed(r)' = Reclaimed(r)
      /\ Replacements'
    BY <1>1, <1>2 DEF Owned, Cancellation, Turns, NoRepairs, Reclaimed, Replacements,
                      InCall, Awaited
<1>4. Bookings'
    BY <1>1, <1>2, <1>3 DEF Bookings
<1> QED BY <1>3, <1>4

LEMMA RunnerInvStep ==
    ASSUME Benign, RunnerInv, ~eager_gather, phase = "up", [Next]_vars
    PROVE  RunnerInv'
<1>1. TypeOK' /\ Placement'
    BY TypeStep DEF RunnerInv
<1>2. ASSUME NEW s \in Sub, RunWithRetry(s) \/ TaskCancelled(s) \/ TaskReturned(s)
      PROVE  RunnerInv'
    BY <1>1, <1>2, RunnerInvSettle, RunnerInvCancelled, RunnerInvReturned
<1>3. ASSUME NEW s \in Sub, TaskRaised(s) \/ RestartDone(s) \/ RestartFailed(s)
      PROVE  RunnerInv'
    BY <1>3 DEF RunnerInv, NoRepairs, Benign, TaskRaised, RestartDone, RestartFailed
<1>4. ASSUME NEW c \in Clients,
             \/ AllCompleted(c) \/ GiveUpWaiting(c) \/ Restarted(c)
             \/ MinCompleted(c) \/ TimedOut(c) \/ Gathered(c)
      PROVE  RunnerInv'
    BY <1>1, <1>4, RunnerInvReturn, RunnerInvGiveUp, RunnerInvGathered
<1>5. ASSUME NEW c \in Clients, NEW r \in Runners,
             CleanupRestartDone(c, r) \/ CleanupRestartFailed(c, r)
      PROVE  RunnerInv'
    BY <1>1, <1>5, RunnerInvRestartDone DEF CleanupRestartFailed, Benign
<1>6. ~Start
    BY DEF Start
<1> QED
    BY <1>1, <1>2, <1>3, <1>4, <1>5, <1>6, RunnerInvSchedule, RunnerInvLoop, RunnerInvGet,
       RunnerInvAbort, RunnerInvStop DEF Next

\* What RunnerInv says of the runners.
LEMMA RunnerInvBooking == ASSUME RunnerInv PROVE NoDoubleBooking
BY NoneAssumption DEF RunnerInv, NoDoubleBooking, Bookings, Placement, InFlight

\* Without a stop() the scheduler stays up.
LEMMA StaysUp ==
    ASSUME MaxStops = 0, TypeOK, phase = "up", [Next]_vars
    PROVE  phase' = "up"
<1> USE DEF stopVars
<1>1. ASSUME NEW s \in Sub,
             \/ RunWithRetry(s) \/ TaskCancelled(s) \/ TaskRaised(s)
             \/ TaskReturned(s) \/ RestartDone(s) \/ RestartFailed(s)
      PROVE  phase' = phase
    BY <1>1 DEF RunWithRetry, TaskCancelled, TaskRaised, TaskReturned, RestartDone,
       RestartFailed, Close
<1>2. ASSUME NEW c, NEW call, CleanupBatch(c, call) PROVE phase' = phase
    BY <1>2 DEF CleanupBatch
<1>3. ASSUME NEW c, MinCompleted(c) \/ TimedOut(c) PROVE phase' = phase
    BY <1>2, <1>3 DEF MinCompleted, TimedOut
<1>4. ASSUME NEW c, NEW b, NEW partial, NEW restart, AbortBatch(c, b, partial, restart)
      PROVE  phase' = phase
    BY <1>2, <1>4 DEF AbortBatch
<1>5. ASSUME NEW c, AllCompleted(c) \/ GiveUpWaiting(c) \/ Gathered(c) \/ Restarted(c)
      PROVE  phase' = phase
    BY <1>5 DEF AllCompleted, GiveUpWaiting, Gathered, Restarted
<1>6. ASSUME NEW c, NEW r, CleanupRestartDone(c, r) \/ CleanupRestartFailed(c, r)
      PROVE  phase' = phase
    BY <1>6 DEF CleanupRestartDone, CleanupRestartFailed
<1>7. ASSUME NEW c, NEW b, NEW m, NEW clear, NEW partial,
             GetPayloadResults(c, b, m, clear, partial)
      PROVE  phase' = phase
    BY <1>7 DEF GetPayloadResults
<1>8. ASSUME NEW b, NEW n, Schedule(b, n) \/ DiscardCompletedResults(b)
      PROVE  phase' = phase
    BY <1>8 DEF Schedule, DiscardCompletedResults
<1>9. CASE SchedulePendingTasks
    BY <1>9 DEF SchedulePendingTasks, StartOn
<1>10. ~Stop /\ ~StopGathered /\ ~Stopped /\ ~Start
    BY DEF Stop, StopGathered, Stopped, Start, TypeOK
<1>11. CASE UNCHANGED vars
    BY <1>11 DEF vars
<1> QED BY <1>1, <1>3, <1>4, <1>5, <1>6, <1>7, <1>8, <1>9, <1>10, <1>11 DEF Next

\* With callers of one batch taking turns, actors that live and come up, and a
\* gather that waits for the callbacks, no interleaving of timeouts, cancellations
\* and cleanups lets two futures share a runner or offers a working one as idle.
THEOREM RunnersNotDoubleBooked == ASSUME Benign PROVE Spec => []NoDoubleBooking
<1> DEFINE Inv == eager_gather \/ (RunnerInv /\ phase = "up")
<1>1. Init => Inv
    BY RunnerInvInit DEF Init
<1>2. Inv /\ [Next]_vars => Inv'
    <2>1. ASSUME eager_gather, [Next]_vars PROVE Inv'
        BY <2>1, EagerGatherFixed
    <2>2. ASSUME ~eager_gather, RunnerInv, phase = "up", [Next]_vars PROVE Inv'
        BY <2>2, RunnerInvStep, StaysUp DEF RunnerInv, Benign
    <2> QED BY <2>1, <2>2
<1>3. Inv => NoDoubleBooking
    BY RunnerInvBooking DEF NoDoubleBooking
<1> QED BY <1>1, <1>2, <1>3, PTL DEF Spec

-----------------------------------------------------------------------------
(* No runner is lost, whoever calls, however gather behaves, whatever dies. *)

\* Client c is inside a cleanup of batch b that will restart its runners.
Reviving(c, b) ==
    client[c].pc = "gather" /\ client[c].restart /\ client[c].b = b

\* The sub task that busy_runners has for r, and who will give r back.
Held(r) ==
    /\ busy_runners[r] \in Sub
    /\ \/ busy_runners[r] \in InFlight \cup background_tasks
          /\ runner_of[busy_runners[r]] = r
       \/ \E c \in Clients : <<c, r>> \in cleanup_restarts
       \/ \E c \in Clients : Reviving(c, BatchOf(busy_runners[r]))

AllHeld == \A r \in Runners \ idle_runners : Held(r)

\* A callback that finds its future cancelled leaves the runner to a cleanup
\* only while one is there that awaits the future and then restarts runners.
Cancelling(s) == future[s] \in {"cancelling", "cancelled"}

LeftToCleanup ==
    /\ \A s \in running_tasks : ~Cancelling(s)
    /\ \A s \in restart_on_cancel :
           Cancelling(s) => \E c \in Clients : Reviving(c, BatchOf(s)) /\ s \in client[c].futures

HeldInv == AllHeld /\ LeftToCleanup

LEMMA HeldInit == Init => HeldInv
BY DEF Init, HeldInv, AllHeld, LeftToCleanup

\* Steps that touch no booking.
LEMMA HeldKept ==
    ASSUME AllHeld, InFlight' = InFlight,
           UNCHANGED <<runner_of, background_tasks, busy_runners>>,
           idle_runners \subseteq idle_runners',
           cleanup_restarts \subseteq cleanup_restarts',
           \A c \in Clients, b \in Batches : Reviving(c, b) => Reviving(c, b)'
    PROVE  AllHeld'
<1> SUFFICES ASSUME NEW r \in Runners \ idle_runners' PROVE Held(r)'
    BY DEF AllHeld
<1>1. Held(r) /\ busy_runners'[r] = busy_runners[r]
    BY DEF AllHeld
<1>2. BatchOf(busy_runners[r]) \in Batches
    BY <1>1 DEF Held, Sub, Task, BatchOf
<1> QED BY <1>1, <1>2 DEF Held

\* Steps that leave the clients, the runners and the futures alone.
Still == UNCHANGED <<idle_runners, busy_runners, runner_of, background_tasks, future,
                     restart_on_cancel, running_tasks>>

\* Every cleanup that will restart runners goes on and awaits what it did.
RevivalsGoOn ==
    \A c \in Clients, b \in Batches :
        Reviving(c, b) => Reviving(c, b)' /\ client[c].futures \subseteq client'[c].futures

LEMMA HeldStill ==
    ASSUME HeldInv, Still, cleanup_restarts' = cleanup_restarts,
           RevivalsGoOn,
           restart_on_cancel \subseteq Sub
    PROVE  HeldInv'
<1>1. AllHeld'
    BY HeldKept DEF HeldInv, Still, InFlight, RevivalsGoOn
<1>2. \A s \in restart_on_cancel : BatchOf(s) \in Batches /\ s \in Sub
    BY DEF Sub, Task, BatchOf
<1>3. LeftToCleanup'
    BY <1>2 DEF HeldInv, LeftToCleanup, Still, Cancelling, RevivalsGoOn
<1> QED BY <1>1, <1>3 DEF HeldInv

\* A client that was not in a cleanup's gather changes its record.
LEMMA RevivingKept ==
    ASSUME TypeOK, NEW c \in Clients, client[c].pc # "gather", NEW rec,
           client' = [client EXCEPT ![c] = rec]
    PROVE  RevivalsGoOn
<1>1. \A d \in Clients \ {c} : client'[d] = client[d]
    BY DEF TypeOK
<1> QED BY <1>1 DEF Reviving, RevivalsGoOn

LEMMA HeldSchedule ==
    ASSUME TypeOK, Placement, HeldInv, NEW b \in Batches, NEW n \in 1 .. MaxTasks, Schedule(b, n)
    PROVE  HeldInv'
<1>1. InFlight' = InFlight
    BY ScheduleFutures
<1>2. /\ UNCHANGED <<idle_runners, busy_runners, runner_of, background_tasks, client,
                     cleanup_restarts, restart_on_cancel, running_tasks>>
      /\ \A s \in Sub : future'[s] = future[s] \/ future'[s] = "queued"
    BY DEF Schedule, runnerVars, clientVars
<1>3. AllHeld'
    BY <1>1, <1>2, HeldKept DEF HeldInv, Reviving
<1>4. LeftToCleanup'
    BY <1>2 DEF HeldInv, LeftToCleanup, Cancelling, Reviving, TypeOK
<1> QED BY <1>3, <1>4 DEF HeldInv

LEMMA HeldLoop ==
    ASSUME TypeOK, Placement, HeldInv, SchedulePendingTasks
    PROVE  HeldInv'
<1>1. PICK batch \in SUBSET pending_tasks : \E on \in [batch -> idle_runners] :
          StartOn(batch, on)
    BY DEF SchedulePendingTasks
<1>2. PICK on \in [batch -> idle_runners] : StartOn(batch, on)
    BY <1>1
<1> DEFINE taken == {on[s] : s \in batch}
<1>3. /\ idle_runners' = idle_runners \ taken
      /\ busy_runners' = [r \in Runners |->
             IF r \in taken THEN CHOOSE s \in batch : on[s] = r ELSE busy_runners[r]]
      /\ running_tasks' = running_tasks \cup batch
      /\ future' = [s \in Sub |-> IF s \in batch THEN "running" ELSE future[s]]
      /\ runner_of' = [s \in Sub |-> IF s \in batch THEN on[s] ELSE runner_of[s]]
      /\ restart_on_cancel' = restart_on_cancel \cup batch
      /\ UNCHANGED <<client, cleanup_restarts, background_tasks>>
    BY <1>2 DEF StartOn, clientVars
<1>4. batch \subseteq Sub /\ \A s \in batch : future[s] = "queued"
    BY DEF TypeOK, Placement
<1>5. ASSUME NEW r \in Runners \ idle_runners' PROVE Held(r)'
    <2>1. CASE r \in taken
        <3> DEFINE u == CHOOSE s \in batch : on[s] = r
        <3>1. u \in batch /\ on[u] = r
            BY <2>1
        <3>2. busy_runners'[r] = u
            BY <1>3, <2>1
        <3> HIDE DEF u
        <3>3. u \in Sub /\ future'[u] = "running" /\ runner_of'[u] = r
            BY <1>3, <1>4, <3>1
        <3>4. u \in InFlight'
            BY <3>3 DEF InFlight, Live
        <3> QED BY <3>2, <3>3, <3>4 DEF Held
    <2>2. CASE r \notin taken
        <3>1. Held(r) /\ busy_runners'[r] = busy_runners[r]
            BY <1>3, <2>2 DEF HeldInv, AllHeld
        <3>2. \A u \in InFlight \cup background_tasks :
                  u \in Sub /\ u \notin batch /\ u \in (InFlight \cup background_tasks)'
                  /\ runner_of'[u] = runner_of[u]
            BY <1>3, <1>4 DEF InFlight, Live, Settled, Placement, TypeOK
        <3> QED BY <1>3, <3>1, <3>2 DEF Held, Reviving
    <2> QED BY <2>1, <2>2
<1>6. \A s \in Sub : Cancelling(s)' => Cancelling(s) /\ s \notin batch
    BY <1>3 DEF Cancelling
<1>7. LeftToCleanup'
    BY <1>3, <1>4, <1>6 DEF HeldInv, LeftToCleanup, Reviving, TypeOK
<1> QED BY <1>5, <1>7 DEF HeldInv, AllHeld

LEMMA HeldSettle ==
    ASSUME TypeOK, HeldInv, NEW s \in Sub, RunWithRetry(s)
    PROVE  HeldInv'
<1>1. InFlight' = InFlight
    BY SettleFutures
<1>2. /\ UNCHANGED <<idle_runners, busy_runners, runner_of, background_tasks, client,
                     cleanup_restarts, restart_on_cancel, running_tasks>>
      /\ \A u \in Sub : Cancelling(u)' => Cancelling(u)
    BY DEF RunWithRetry, runnerVars, clientVars, Cancelling, TypeOK
<1>3. AllHeld'
    BY <1>1, <1>2, HeldKept DEF HeldInv, Reviving
<1>4. LeftToCleanup'
    BY <1>2 DEF HeldInv, LeftToCleanup, Reviving, TypeOK
<1> QED BY <1>3, <1>4 DEF HeldInv

\* A callback closes s: its runner is given back, is being restarted in the
\* background, or is left to the cleanup that cancelled s.
LEMMA HeldClose ==
    ASSUME TypeOK, Placement, HeldInv, NEW s \in Sub,
           TaskCancelled(s) \/ TaskRaised(s) \/ TaskReturned(s)
    PROVE  HeldInv'
<1> DEFINE r == runner_of[s]
<1>1. /\ InFlight' = InFlight \ {s} /\ s \in InFlight
      /\ \A u \in Sub \ {s} : future'[u] = future[u]
      /\ running_tasks' = running_tasks \ {s}
      /\ UNCHANGED <<client, cleanup_restarts>>
    BY CloseFutures
<1>2. r \in Runners
    BY <1>1 DEF Placement
<1>3. restart_on_cancel' = restart_on_cancel \ {s}
    BY DEF TaskCancelled, TaskRaised, TaskReturned, Close
<1>4. LeftToCleanup'
    BY <1>1, <1>3 DEF HeldInv, LeftToCleanup, Cancelling, Reviving, TypeOK
<1>5. \A u \in (InFlight \cup background_tasks) \ {s} :
          /\ u \in (InFlight \cup background_tasks)'
          /\ runner_of'[u] = runner_of[u]
    BY <1>1 DEF TaskCancelled, TaskRaised, TaskReturned, Close, TypeOK, InFlight
<1>6. \/ GiveBack(r)
      \/ UNCHANGED runnerVars /\ s \in background_tasks' /\ runner_of' = runner_of
      \/ UNCHANGED runnerVars /\ s \in restart_on_cancel /\ Cancelling(s)
    BY DEF TaskCancelled, TaskRaised, TaskReturned, Cancelling
<1>7. ASSUME NEW q \in Runners \ idle_runners' PROVE Held(q)'
    <2>1. /\ q \notin idle_runners /\ busy_runners'[q] = busy_runners[q]
          /\ GiveBack(r) => q # r
        BY <1>6, <1>7 DEF GiveBack, runnerVars, TypeOK
    <2>2. Held(q)
        BY <2>1 DEF HeldInv, AllHeld
    <2>3. CASE busy_runners[q] # s \/ runner_of[s] # q
        BY <1>1, <1>5, <2>1, <2>2, <2>3 DEF Held, Reviving
    <2>4. CASE busy_runners[q] = s /\ runner_of[s] = q
        <3>1. CASE s \in background_tasks' /\ runner_of' = runner_of
            BY <2>1, <2>4, <3>1 DEF Held
        <3>2. CASE s \in restart_on_cancel /\ Cancelling(s)
            <4>1. \E c \in Clients : Reviving(c, BatchOf(s))
                BY <3>2 DEF HeldInv, LeftToCleanup
            <4> QED BY <1>1, <2>1, <2>4, <4>1 DEF Held, Reviving
        <3> QED BY <1>6, <2>1, <2>4, <3>1, <3>2
    <2> QED BY <2>3, <2>4
<1> QED BY <1>4, <1>7 DEF HeldInv, AllHeld

\* A restart in the background is over.
LEMMA HeldRestartDone ==
    ASSUME TypeOK, Placement, HeldInv, NEW s \in Sub, RestartDone(s)
    PROVE  HeldInv'
<1> DEFINE r == runner_of[s]
<1>1. /\ GiveBack(r) /\ s \in background_tasks
      /\ background_tasks' = background_tasks \ {s}
      /\ runner_of' = [runner_of EXCEPT ![s] = NoRunner]
      /\ UNCHANGED <<client, cleanup_restarts, future, restart_on_cancel, running_tasks>>
    BY DEF RestartDone, clientVars
<1>2. future[s] = "closed" /\ InFlight' = InFlight
    BY <1>1 DEF Placement, InFlight
<1>3. ASSUME NEW q \in Runners \ idle_runners' PROVE Held(q)'
    <2>1. q \notin idle_runners /\ q # r /\ busy_runners'[q] = busy_runners[q]
        BY <1>1, <1>3 DEF GiveBack, TypeOK
    <2>2. Held(q)
        BY <2>1 DEF HeldInv, AllHeld
    <2>3. \A u \in (InFlight \cup background_tasks) \ {s} :
              /\ u \in (InFlight \cup background_tasks)'
              /\ runner_of'[u] = runner_of[u]
        BY <1>1, <1>2 DEF TypeOK, InFlight
    <2> QED BY <1>1, <2>1, <2>2, <2>3 DEF Held, Reviving
<1>4. LeftToCleanup'
    BY <1>1 DEF HeldInv, LeftToCleanup, Cancelling, Reviving
<1> QED BY <1>3, <1>4 DEF HeldInv, AllHeld

\* A restart of a cleanup is over.
LEMMA HeldCleanupRestart ==
    ASSUME TypeOK, HeldInv, NEW c \in Clients, NEW r \in Runners, CleanupRestartDone(c, r)
    PROVE  HeldInv'
<1>1. /\ GiveBack(r) /\ cleanup_restarts' = cleanup_restarts \ {<<c, r>>}
      /\ UNCHANGED <<client, future, runner_of, background_tasks, restart_on_cancel, running_tasks>>
    BY DEF CleanupRestartDone, futureVars
<1>2. ASSUME NEW q \in Runners \ idle_runners' PROVE Held(q)'
    <2>1. q \notin idle_runners /\ q # r /\ busy_runners'[q] = busy_runners[q]
        BY <1>1, <1>2 DEF GiveBack, TypeOK
    <2>2. Held(q)
        BY <2>1 DEF HeldInv, AllHeld
    <2>3. \A d \in Clients : <<d, q>> \in cleanup_restarts => <<d, q>> \in cleanup_restarts'
        BY <1>1, <2>1
    <2> QED BY <1>1, <2>1, <2>2, <2>3 DEF Held, Reviving, InFlight
<1>3. LeftToCleanup'
    BY <1>1 DEF HeldInv, LeftToCleanup, Cancelling, Reviving
<1> QED BY <1>2, <1>3 DEF HeldInv, AllHeld

\* A client begins or ends a call: it was not gathering.
LEMMA HeldClient ==
    ASSUME TypeOK, HeldInv, NEW c \in Clients,
           \/ AllCompleted(c) \/ GiveUpWaiting(c) \/ Restarted(c)
           \/ \E b \in Batches, m \in 0 .. MaxTasks, clear, partial \in BOOLEAN :
                  GetPayloadResults(c, b, m, clear, partial)
    PROVE  HeldInv'
<1>1. Still /\ cleanup_restarts' = cleanup_restarts
    BY DEF AllCompleted, GiveUpWaiting, Restarted, GetPayloadResults, Still, runnerVars, futureVars
<1>2. client[c].pc # "gather" /\ \E rec : client' = [client EXCEPT ![c] = rec]
    BY DEF AllCompleted, GiveUpWaiting, Restarted, Return, GetPayloadResults
<1> QED BY <1>1, <1>2, RevivingKept, HeldStill DEF TypeOK

\* The futures of a cleanup are closed: what is still busy with its batch is
\* being restarted from now on.
LEMMA HeldGathered ==
    ASSUME TypeOK, HeldInv, NEW c \in Clients, Gathered(c)
    PROVE  HeldInv'
<1> DEFINE call == [client[c] EXCEPT !.futures = {}]
           rs == IF call.restart THEN Restartable(call) ELSE {}
<1>1. Still /\ AfterGather(c, call, completed_tasks)
      /\ \A s \in client[c].futures : future[s] = "closed"
    BY DEF Gathered, AllClosed, Still, runnerVars, futureVars
<1>2. client[c] \in Call /\ call.b = client[c].b /\ call.restart = client[c].restart
    BY DEF TypeOK, Call
<1>3. /\ \E rec : client' = [client EXCEPT ![c] = rec]
      /\ cleanup_restarts' = cleanup_restarts \cup ({c} \X rs)
    BY <1>1 DEF AfterGather, Return
<1>4. \A d \in Clients \ {c} : client'[d] = client[d]
    BY <1>3 DEF TypeOK
<1>5. ASSUME NEW r \in Runners \ idle_runners' PROVE Held(r)'
    <2>1. Held(r) /\ busy_runners'[r] = busy_runners[r]
        BY <1>1, <1>5 DEF HeldInv, AllHeld, Still
    <2>2. CASE Reviving(c, BatchOf(busy_runners[r]))
        <3>1. busy_runners[r] # NoSub
            BY <2>1 DEF Held
        <3>2. r \in rs
            BY <1>2, <2>2, <3>1 DEF Reviving, Restartable
        <3> HIDE DEF rs
        <3> QED BY <1>3, <2>1, <3>2 DEF Held
    <2>3. CASE ~Reviving(c, BatchOf(busy_runners[r]))
        <3> HIDE DEF rs
        <3> QED BY <1>1, <1>3, <1>4, <2>1, <2>3 DEF Held, Reviving, Still, InFlight
    <2> QED BY <2>2, <2>3
<1>6. \A s \in client[c].futures : ~Cancelling(s)
    BY <1>1 DEF Cancelling
<1>7. LeftToCleanup'
    BY <1>1, <1>4, <1>6 DEF HeldInv, LeftToCleanup, Still, Cancelling, Reviving
<1> QED BY <1>5, <1>7 DEF HeldInv, AllHeld

\* A cleanup begins: what it cancels it awaits, and restarts if it says so.
LEMMA HeldCleanup ==
    ASSUME TypeOK, Placement, HeldInv, NEW c \in Clients, client[c].pc \in {"free", "wait"},
           NEW call \in Call, CleanupBatch(c, call)
    PROVE  HeldInv'
<1> DEFINE queued == {s \in pending_tasks : BatchOf(s) = call.b}
           inflight == {s \in running_tasks : BatchOf(s) = call.b}
           gathering == [call EXCEPT !.pc = "gather", !.futures = inflight]
           done == [call EXCEPT !.futures = inflight]
<1>1. /\ restart_on_cancel' = IF call.restart THEN restart_on_cancel \cup inflight
                                              ELSE restart_on_cancel \ inflight
      /\ running_tasks' = running_tasks \ inflight
      /\ future' = [s \in Sub |->
             IF s \in queued THEN "dropped"
             ELSE IF s \in inflight /\ future[s] = "running" THEN "cancelling"
             ELSE future[s]]
      /\ UNCHANGED <<idle_runners, busy_runners, runner_of, background_tasks>>
    BY DEF CleanupBatch, runnerVars
<1>2. InFlight' = InFlight
    BY CleanupFutures
<1>3. /\ \E rec : client' = [client EXCEPT ![c] = rec]
      /\ cleanup_restarts \subseteq cleanup_restarts'
    <2>1. CASE GatherDone(inflight)
        <3>1. PICK results : AfterGather(c, done, results)
            BY <2>1 DEF CleanupBatch
        <3> HIDE DEF done
        <3> QED BY <3>1 DEF AfterGather, Return
    <2>2. CASE ~GatherDone(inflight)
        BY <2>2 DEF CleanupBatch
    <2> QED BY <2>1, <2>2
<1>4. RevivalsGoOn
    BY <1>3, RevivingKept
<1>5. AllHeld'
    BY <1>1, <1>2, <1>3, <1>4, HeldKept DEF HeldInv, RevivalsGoOn
<1>6. ASSUME NEW s \in inflight, future[s] = "running", call.restart
      PROVE  Reviving(c, BatchOf(s))' /\ s \in client'[c].futures
    <2>1. ~GatherDone(inflight)
        BY <1>6 DEF GatherDone, Settled
    <2>2. client' = [client EXCEPT ![c] = gathering]
        BY <2>1 DEF CleanupBatch
    <2>3. gathering.pc = "gather" /\ gathering.restart /\ gathering.b = call.b
          /\ gathering.futures = inflight
        BY <1>6 DEF Call
    <2> HIDE DEF gathering
    <2>4. client'[c] = gathering /\ BatchOf(s) = call.b
        BY <1>6, <2>2 DEF TypeOK
    <2> QED BY <1>6, <2>3, <2>4 DEF Reviving
<1>7. \A s \in Sub : Cancelling(s)' =>
          \/ Cancelling(s)
          \/ s \in inflight /\ future[s] = "running"
    BY <1>1 DEF Cancelling
<1>8. inflight \subseteq running_tasks /\ running_tasks \subseteq Sub /\ restart_on_cancel \subseteq Sub
    BY DEF TypeOK
<1>9. \A s \in restart_on_cancel' : s \in restart_on_cancel \/ (s \in inflight /\ call.restart)
    BY <1>1
<1>10. \A s \in restart_on_cancel' : s \in inflight => call.restart
    BY <1>1
<1> HIDE DEF inflight
<1>11. \A s \in running_tasks' : ~Cancelling(s)'
    BY <1>1, <1>7, <1>8 DEF HeldInv, LeftToCleanup
<1>12. ASSUME NEW s \in restart_on_cancel', Cancelling(s)'
       PROVE  \E d \in Clients : Reviving(d, BatchOf(s))' /\ s \in client'[d].futures
    <2>1. CASE s \in inflight
        <3>1. ~Cancelling(s)
            BY <1>8, <2>1 DEF HeldInv, LeftToCleanup
        <3> QED BY <1>6, <1>7, <1>8, <1>10, <1>12, <2>1, <3>1
    <2>2. CASE s \notin inflight
        <3>1. s \in restart_on_cancel /\ Cancelling(s) /\ s \in Sub
            BY <1>7, <1>8, <1>9, <1>12, <2>2
        <3>2. PICK d \in Clients : Reviving(d, BatchOf(s)) /\ s \in client[d].futures
            BY <3>1 DEF HeldInv, LeftToCleanup
        <3>3. BatchOf(s) \in Batches
            BY <3>1 DEF Sub, Task, BatchOf
        <3> QED BY <1>4, <3>2, <3>3 DEF RevivalsGoOn
    <2> QED BY <2>1, <2>2
<1>13. LeftToCleanup'
    BY <1>11, <1>12 DEF LeftToCleanup
<1> QED BY <1>5, <1>13 DEF HeldInv

LEMMA HeldStep ==
    ASSUME ~RestartFaults, TypeOK, Placement, HeldInv, [Next]_vars
    PROVE  HeldInv'
<1>1. ASSUME NEW c \in Clients, MinCompleted(c) \/ TimedOut(c)
             \/ \E b \in Batches, partial, restart \in BOOLEAN : AbortBatch(c, b, partial, restart)
      PROVE  HeldInv'
    <2>1. client[c].pc \in {"free", "wait"} /\ \E call \in Call : CleanupBatch(c, call)
        BY <1>1, CleanupSteps
    <2> QED BY <2>1, HeldCleanup
<1>2. CASE \/ \E b \in Batches : DiscardCompletedResults(b)
           \/ Stop \/ StopGathered \/ Stopped \/ UNCHANGED vars
    <2>1. Still /\ UNCHANGED <<client, cleanup_restarts>>
        BY <1>2 DEF DiscardCompletedResults, Stop, StopGathered, Stopped, vars, othersOfStop,
           Still, runnerVars, futureVars, clientVars
    <2> QED BY <2>1, HeldStill DEF RevivalsGoOn, Reviving, TypeOK
<1>3. CASE Start
    <2>1. /\ UNCHANGED <<client, future, restart_on_cancel, running_tasks>>
          /\ Runners \ idle_runners' = {}
        BY <1>3 DEF Start, othersOfStop, futureVars, clientVars
    <2> QED BY <2>1 DEF HeldInv, AllHeld, LeftToCleanup, Cancelling, Reviving
<1>4. \A s \in Sub : ~RestartFailed(s)
    BY DEF RestartFailed
<1>5. \A c \in Clients, r \in Runners : ~CleanupRestartFailed(c, r)
    BY DEF CleanupRestartFailed
<1> QED
    BY <1>1, <1>2, <1>3, <1>4, <1>5, HeldSchedule, HeldLoop, HeldSettle, HeldClose,
       HeldRestartDone, HeldCleanupRestart, HeldClient, HeldGathered DEF Next

\* Every runner that is not idle has a future, or a restart, that will give it
\* back: with any callers, stops and gathers, and though actors die; only a
\* restart that fails takes a runner out (scheduler.py, _restart_runner).
THEOREM RunnersNotLost == ASSUME ~RestartFaults PROVE Spec => []NoRunnerLost
<1>1. Init => TypeOK /\ Placement /\ HeldInv
    BY TypeInit, HeldInit
<1>2. TypeOK /\ Placement /\ HeldInv /\ [Next]_vars => TypeOK' /\ Placement' /\ HeldInv'
    BY TypeStep, HeldStep
<1>3. HeldInv => NoRunnerLost
    <2> SUFFICES ASSUME HeldInv, NEW r \in Runners \ idle_runners
                 PROVE  \/ \E s \in InFlight \cup background_tasks : runner_of[s] = r
                        \/ \E c \in Clients : <<c, r>> \in cleanup_restarts
                        \/ \E c \in Clients :
                               client[c].pc = "gather" /\ client[c].restart
                               /\ r \in Restartable(client[c])
        BY DEF NoRunnerLost
    <2>1. Held(r)
        BY DEF HeldInv, AllHeld
    <2>2. busy_runners[r] # NoSub
        BY <2>1, NoneAssumption DEF Held
    <2> QED BY <2>1, <2>2 DEF Held, Reviving, Restartable
<1> QED BY <1>1, <1>2, <1>3, PTL DEF Spec

=============================================================================

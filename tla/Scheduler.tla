------------------------------ MODULE Scheduler ------------------------------
(***************************************************************************)
(* The rollout scheduler (trinity/explorer/scheduler.py).  It is one       *)
(* asyncio program: a function body runs atomically up to its next await,  *)
(* so every action below is the code between two awaits.                   *)
(*                                                                         *)
(* A task of a batch is split into sub tasks; a sub task taken from        *)
(* pending_tasks becomes an asyncio future on one runner.  A future that   *)
(* has settled is not yet seen by the scheduler: its done callback runs in *)
(* a later iteration of the event loop, and other code may run in between. *)
(* Whether asyncio.gather waits for it depends on Python: see eager_gather.*)
(***************************************************************************)
EXTENDS Integers, FiniteSets

CONSTANTS
    Runners,      \* runner ids
    Batches,      \* batch ids, each named by its rank under sort_batch_id
    EvalBatches,  \* the batches whose tasks are evaluation tasks
    Clients,      \* coroutines that call get_payload_results / abort_batch
    MaxCalls,     \* schedule() calls under one batch id
    MaxTasks,     \* tasks given to one schedule() call
    SubNum,       \* sub tasks of one task: ceil(repeat_times / max_repeat_times)
    MaxStops,     \* stop() calls
    Exclusive,    \* TRUE: callers of one batch take turns (the finalize lock)
    ActorFaults,  \* TRUE: runner actors may die, so a future may raise
    RestartFaults, \* TRUE: the replacement of a runner may fail to prepare
    EagerGathers, \* the values of eager_gather to consider
    NoSub,        \* "no running state"
    NoRunner      \* runner of a sub task that has no future

ASSUME SchedulerAssumption ==
    /\ Batches \subseteq Nat
    /\ EvalBatches \subseteq Batches
    /\ MaxCalls \in Nat \ {0}
    /\ MaxTasks \in Nat \ {0}
    /\ SubNum \in Nat \ {0}
    /\ MaxStops \in Nat
    /\ Exclusive \in BOOLEAN
    /\ ActorFaults \in BOOLEAN
    /\ RestartFaults \in BOOLEAN
    /\ EagerGathers \subseteq BOOLEAN

-----------------------------------------------------------------------------
(* Tasks, sub tasks and futures.  schedule() numbers the tasks of every    *)
(* call from 0, so two calls under one batch id reuse the task ids.        *)

Task == Batches \X (1 .. MaxCalls) \X (1 .. MaxTasks)
Sub == Task \X (1 .. SubNum)

ASSUME NoneAssumption == NoSub \notin Sub /\ NoRunner \notin Runners

TaskOf(s) == s[1]
BatchOf(s) == s[1][1]
SubsOf(t) == {t} \X (1 .. SubNum)

\* "none": never scheduled; "queued": in pending_tasks; "dropped": deleted
\* from it; "running"; "cancelling": cancel() called, CancelledError not yet
\* raised in the coroutine; settled; "closed": its done callback has run.
Live == {"running", "cancelling"}
Settled == {"ok", "failed", "error", "cancelled"}
FutureState == {"none", "queued", "dropped", "closed"} \cup Live \cup Settled

VARIABLES
    idle_runners,      \* set of runner ids
    busy_runners,      \* runner id -> the sub task of its RunningTaskState
    pending_tasks,     \* sub tasks waiting for a runner
    running_tasks,     \* sub tasks whose future is registered with its batch
    task_num_map,      \* batch id -> tasks scheduled (0: no entry)
    batch_is_eval_map, \* batch id -> "train", "eval" or "none" (no entry)
    completed_tasks,   \* batch id -> task id -> call of the result (0: none)
    future,            \* sub task -> state of its asyncio future
    runner_of,         \* sub task -> runner (RunningTaskState.runner_id)
    restart_on_cancel, \* sub tasks whose RunningTaskState says so
    finished,          \* sub tasks accumulated into their task
    succeeded,         \* those of them that brought completed runs
    emitted,           \* tasks with TaskWrapper.emitted
    payloads,          \* task -> sub tasks in its emitted result
    background_tasks,  \* sub tasks whose failure is restarting their runner
    client,            \* client -> where it stands inside its call
    cleanup_restarts,  \* <<client, runner>>: restarts a cleanup waits for
    counted_steps,     \* batches that advanced total_completed_steps
    delivered,         \* tasks whose result a drain has returned
    calls,             \* batch id -> schedule() calls so far
    use_start,         \* batch id -> the first of them since has_step was false
    eager_gather,      \* TRUE: Python 3.12, where a gather of futures that have
                       \* all settled returns at once; FALSE: an earlier one,
                       \* where it returns after their done callbacks
    phase,             \* "up", "stopping" (futures), "draining", "down"
    stop_wait,         \* what stop() is waiting for
    stops              \* stop() calls so far

runnerVars == <<idle_runners, busy_runners>>
resultVars == <<completed_tasks, emitted, payloads>>
drainVars == <<delivered, counted_steps, batch_is_eval_map>>
futureVars == <<future, runner_of, restart_on_cancel>>
progressVars == <<finished, succeeded>>
clientVars == <<client, cleanup_restarts>>
callVars == <<calls, use_start>>
stopVars == <<phase, stop_wait, stops, eager_gather>>
vars == <<runnerVars, resultVars, drainVars, futureVars, progressVars,
          clientVars, stopVars, pending_tasks, running_tasks, task_num_map,
          background_tasks, callVars>>

NoResults == [i \in 1 .. MaxTasks |-> 0]

\* A client outside any call.
Free == [pc |-> "free", b |-> 0, scheduled |-> 0, min |-> 0, clear |-> FALSE,
         partial |-> FALSE, restart |-> FALSE, drain |-> FALSE, futures |-> {}]

Call == [pc : {"free", "wait", "gather", "restart", "raised"},
         b : Batches \cup {0}, scheduled : Nat, min : Nat, clear : BOOLEAN,
         partial : BOOLEAN, restart : BOOLEAN, drain : BOOLEAN,
         futures : SUBSET Sub]

InCall(c) == client[c].pc \in {"wait", "gather", "restart"}

Init ==
    /\ idle_runners = Runners
    /\ busy_runners = [r \in Runners |-> NoSub]
    /\ pending_tasks = {}
    /\ running_tasks = {}
    /\ task_num_map = [b \in Batches |-> 0]
    /\ batch_is_eval_map = [b \in Batches |-> "none"]
    /\ completed_tasks = [b \in Batches |-> NoResults]
    /\ future = [s \in Sub |-> "none"]
    /\ runner_of = [s \in Sub |-> NoRunner]
    /\ restart_on_cancel = {}
    /\ finished = {}
    /\ succeeded = {}
    /\ emitted = {}
    /\ payloads = [t \in Task |-> {}]
    /\ background_tasks = {}
    /\ client = [c \in Clients |-> Free]
    /\ cleanup_restarts = {}
    /\ counted_steps = {}
    /\ delivered = {}
    /\ calls = [b \in Batches |-> 0]
    /\ use_start = [b \in Batches |-> 0]
    /\ eager_gather \in EagerGathers
    /\ phase = "up"
    /\ stop_wait = {}
    /\ stops = 0

-----------------------------------------------------------------------------
(* schedule() and the scheduler loop.                                      *)

\* The caller of one batch has its turn: nobody else is inside a call on it.
Available(b) == Exclusive => \A c \in Clients : InCall(c) => client[c].b # b

\* has_step(batch_id)
HasStep(b) ==
    \/ completed_tasks[b] # NoResults
    \/ \E s \in pending_tasks \cup running_tasks : BatchOf(s) = b

\* schedule(tasks, batch_id) for n tasks: number them, split them, queue them.
Schedule(b, n) ==
    /\ calls[b] < MaxCalls
    /\ Available(b)
    /\ LET subs == {s \in Sub : BatchOf(s) = b /\ s[1][2] = calls[b] + 1 /\ s[1][3] <= n}
       IN  /\ pending_tasks' = pending_tasks \cup subs
           /\ future' = [s \in Sub |-> IF s \in subs THEN "queued" ELSE future[s]]
    /\ calls' = [calls EXCEPT ![b] = @ + 1]
    /\ use_start' = [use_start EXCEPT ![b] = IF HasStep(b) THEN @ ELSE calls[b] + 1]
    /\ task_num_map' = [task_num_map EXCEPT ![b] = @ + n]
    /\ batch_is_eval_map' =
           [batch_is_eval_map EXCEPT ![b] = IF b \in EvalBatches THEN "eval" ELSE "train"]
    /\ UNCHANGED <<runnerVars, resultVars, progressVars, clientVars, stopVars,
                   delivered, counted_steps, runner_of, restart_on_cancel,
                   running_tasks, background_tasks>>

\* The order in which pending sub tasks are taken: batches by sort_batch_id,
\* inside a batch first queued first.
Before(s, t) ==
    \/ s[1][1] < t[1][1]
    \/ s[1][1] = t[1][1] /\ s[1][2] < t[1][2]
    \/ s[1][1] = t[1][1] /\ s[1][2] = t[1][2] /\ s[1][3] < t[1][3]
    \/ s[1] = t[1] /\ s[2] < t[2]

\* The sub tasks of `batch` start on the runners that `on` gives them.
StartOn(batch, on) ==
    LET taken == {on[s] : s \in batch} IN
    /\ pending_tasks' = pending_tasks \ batch
    /\ idle_runners' = idle_runners \ taken
    /\ busy_runners' = [r \in Runners |->
           IF r \in taken THEN CHOOSE s \in batch : on[s] = r ELSE busy_runners[r]]
    /\ running_tasks' = running_tasks \cup batch
    /\ future' = [s \in Sub |-> IF s \in batch THEN "running" ELSE future[s]]
    /\ runner_of' = [s \in Sub |-> IF s \in batch THEN on[s] ELSE runner_of[s]]
    /\ restart_on_cancel' = restart_on_cancel \cup batch
    /\ UNCHANGED <<resultVars, drainVars, progressVars, clientVars, stopVars,
                   task_num_map, background_tasks, callVars>>

\* self.running; and the loop as it would be if only its cancellation ended it.
LoopUntilCancelled == phase # "down"

Running == phase = "up"

\* One iteration of the loop: pair the first pending sub tasks with idle
\* runners, in any pairing (set.pop), until one of the two runs out.
SchedulePendingTasks ==
    /\ Running
    /\ \E batch \in SUBSET pending_tasks \ {{}} : \E on \in [batch -> idle_runners] :
        /\ \A s \in batch, t \in pending_tasks \ batch : Before(s, t)
        /\ \A s, t \in batch : on[s] = on[t] => s = t
        /\ batch = pending_tasks \/ {on[s] : s \in batch} = idle_runners
        /\ StartOn(batch, on)

-----------------------------------------------------------------------------
(* The coroutine of a future, RunnerWrapper.run_with_retry: it raises only *)
(* when the actor is gone; timeouts and workflow errors are retried and    *)
(* then returned as a status without completed runs.                       *)

\* The coroutine settles.  A cancelled one may still return: wait_for hands
\* over a result that arrived together with the cancellation.
RunWithRetry(s) ==
    /\ \/ future[s] = "running" /\ \E o \in {"ok", "failed"} : future' = [future EXCEPT ![s] = o]
       \/ future[s] = "running" /\ ActorFaults /\ future' = [future EXCEPT ![s] = "error"]
       \/ future[s] = "cancelling"
          /\ \E o \in {"cancelled", "ok", "failed"} : future' = [future EXCEPT ![s] = o]
    /\ UNCHANGED <<runnerVars, resultVars, drainVars, progressVars, clientVars,
                   stopVars, runner_of, restart_on_cancel, pending_tasks,
                   running_tasks, task_num_map, background_tasks, callVars>>

-----------------------------------------------------------------------------
(* task_done_callback, one action per branch.                              *)

\* What every branch does to the future.
Close(s) ==
    /\ future' = [future EXCEPT ![s] = "closed"]
    /\ runner_of' = [runner_of EXCEPT ![s] = NoRunner]
    /\ restart_on_cancel' = restart_on_cancel \ {s}
    /\ running_tasks' = running_tasks \ {s}
    /\ UNCHANGED <<drainVars, clientVars, stopVars, pending_tasks, task_num_map, callVars>>

\* busy_runners.pop(runner_id, None); idle_runners.add(runner_id)
GiveBack(r) ==
    /\ busy_runners' = [busy_runners EXCEPT ![r] = NoSub]
    /\ idle_runners' = idle_runners \cup {r}

\* _emit_task_result for the tasks ts, whose accumulated sub tasks are acc.
ResultsWith(ts) ==
    [b \in Batches |-> [i \in 1 .. MaxTasks |->
        IF \E t \in ts : t[1] = b /\ t[3] = i
        THEN (CHOOSE t \in ts : t[1] = b /\ t[3] = i)[2]
        ELSE completed_tasks[b][i]]]

Emit(ts, acc) ==
    /\ emitted' = emitted \cup ts
    /\ payloads' = [t \in Task |-> IF t \in ts THEN SubsOf(t) \cap acc ELSE payloads[t]]

\* A variant that tests the flag the wrong way round.
TaskCancelledInverted(s) ==
    /\ future[s] = "cancelled"
    /\ Close(s)
    /\ IF s \in restart_on_cancel
       THEN GiveBack(runner_of[s])
       ELSE UNCHANGED runnerVars
    /\ UNCHANGED <<resultVars, progressVars, background_tasks>>

TaskCancelled(s) ==
    /\ future[s] = "cancelled"
    /\ Close(s)
    /\ IF s \in restart_on_cancel
       THEN UNCHANGED runnerVars
       ELSE GiveBack(runner_of[s])
    /\ UNCHANGED <<resultVars, progressVars, background_tasks>>

\* A variant that forgets to restart the runner.
TaskRaisedNoRestart(s) ==
    /\ future[s] = "error"
    /\ Close(s)
    /\ UNCHANGED <<runnerVars, resultVars, progressVars, background_tasks>>

TaskRaised(s) ==
    /\ future[s] = "error"
    /\ future' = [future EXCEPT ![s] = "closed"]
    /\ restart_on_cancel' = restart_on_cancel \ {s}
    /\ running_tasks' = running_tasks \ {s}
    /\ background_tasks' = background_tasks \cup {s}
    /\ UNCHANGED <<runnerVars, resultVars, drainVars, progressVars, clientVars,
                   stopVars, runner_of, pending_tasks, task_num_map, callVars>>

\* The task of s, if all its sub tasks are among `done` and it was not emitted
\* before; the variant does not look at `emitted`.
CompleteAgain(s, done) == {t \in {TaskOf(s)} : SubsOf(t) \subseteq done}

Complete(s, done) == {t \in {TaskOf(s)} \ emitted : SubsOf(t) \subseteq done}

TaskReturned(s) ==
    /\ future[s] \in {"ok", "failed"}
    /\ Close(s)
    /\ finished' = finished \cup {s}
    /\ succeeded' = IF future[s] = "ok" THEN succeeded \cup {s} ELSE succeeded
    /\ GiveBack(runner_of[s])
    /\ Emit(Complete(s, finished'), succeeded')
    /\ completed_tasks' = ResultsWith(Complete(s, finished'))
    /\ UNCHANGED background_tasks

\* _restart_runner as scheduled by TaskRaised, after its await.
RestartDone(s) ==
    /\ s \in background_tasks
    /\ background_tasks' = background_tasks \ {s}
    /\ GiveBack(runner_of[s])
    /\ runner_of' = [runner_of EXCEPT ![s] = NoRunner]
    /\ UNCHANGED <<resultVars, drainVars, progressVars, clientVars, stopVars,
                   future, restart_on_cancel, pending_tasks, running_tasks,
                   task_num_map, callVars>>

\* The new actor's prepare() raises: nobody retrieves the exception.
RestartFailed(s) ==
    /\ RestartFaults
    /\ s \in background_tasks
    /\ background_tasks' = background_tasks \ {s}
    /\ runner_of' = [runner_of EXCEPT ![s] = NoRunner]
    /\ UNCHANGED <<runnerVars, resultVars, drainVars, progressVars, clientVars,
                   stopVars, future, restart_on_cancel, pending_tasks,
                   running_tasks, task_num_map, callVars>>

-----------------------------------------------------------------------------
(* get_payload_results and abort_batch, as a client goes through them.     *)

\* len(completed_tasks.get(batch_id, {})), for a table of results.
Count(results, b) == Cardinality({i \in 1 .. MaxTasks : results[b][i] # 0})

\* A variant that reads the results of the batch without popping them.
DrainKeeping(b, results) ==
    /\ completed_tasks' = results
    /\ delivered' = delivered \cup
           {t \in Task : t[1] = b /\ results[b][t[3]] = t[2]}
    /\ UNCHANGED <<batch_is_eval_map, counted_steps>>

\* drain_batch_payload_results on the table `results`, with
\* _finalize_dynamic_timeout_step; reads the tables the step leaves behind.
Drain(b, results) ==
    /\ completed_tasks' = [results EXCEPT ![b] = NoResults]
    /\ delivered' = delivered \cup
           {t \in Task : t[1] = b /\ results[b][t[3]] = t[2]}
    /\ IF \E s \in pending_tasks' \cup running_tasks' : BatchOf(s) = b
       THEN UNCHANGED <<batch_is_eval_map, counted_steps>>
       ELSE /\ batch_is_eval_map' = [batch_is_eval_map EXCEPT ![b] = "none"]
            /\ counted_steps' =
                   IF batch_is_eval_map[b] # "eval" /\ Count(results, b) >= task_num_map'[b]
                   THEN counted_steps \cup {b} ELSE counted_steps

\* Return from the call: get_payload_results drains, abort_batch does not.
Return(c, call, results) ==
    /\ client' = [client EXCEPT ![c] = Free]
    /\ IF call.drain
       THEN Drain(call.b, results)
       ELSE completed_tasks' = results /\ UNCHANGED drainVars

\* _get_batch_payload_results up to the first await.
GetPayloadResults(c, b, min_num, clear, partial) ==
    /\ client[c].pc = "free"
    /\ Available(b)
    /\ LET scheduled == task_num_map[b] IN
       client' = [client EXCEPT ![c] =
           [Free EXCEPT !.pc = "wait", !.b = b, !.scheduled = scheduled,
                        !.min = IF min_num = 0 \/ min_num > scheduled THEN scheduled ELSE min_num,
                        !.clear = clear, !.partial = partial, !.drain = TRUE]]
    /\ UNCHANGED <<runnerVars, resultVars, drainVars, futureVars, progressVars,
                   stopVars, cleanup_restarts, pending_tasks, running_tasks,
                   task_num_map, background_tasks, callVars>>

\* asyncio.gather of `futures` does not yield.
GatherDone(futures) == futures = {} \/ (eager_gather /\ \A s \in futures : future[s] \in Settled)

\* What the cleanup does after gather: restart the runners that are still busy
\* with the batch, or return.  The done callbacks of call.futures are queued by
\* then, and run before anything that yields comes back.
RestartableAny(call) == {r \in Runners : busy_runners[r] # NoSub}

Restartable(call) ==
    {r \in Runners : busy_runners[r] # NoSub /\ BatchOf(busy_runners[r]) = call.b}

AfterGather(c, call, results) ==
    LET rs == IF call.restart THEN Restartable(call) ELSE {} IN
    IF rs = {}
    THEN Return(c, call, results) /\ UNCHANGED cleanup_restarts
    ELSE /\ client' = [client EXCEPT ![c] = [call EXCEPT !.pc = "restart"]]
         /\ cleanup_restarts' = cleanup_restarts \cup ({c} \X rs)
         /\ completed_tasks' = results
         /\ UNCHANGED drainVars

\* _cleanup_batch up to its first await, for the call record `call`.
CleanupBatch(c, call) ==
    LET queued == {s \in pending_tasks : BatchOf(s) = call.b}
        inflight == {s \in running_tasks : BatchOf(s) = call.b}
        partials == {t \in {TaskOf(s) : s \in queued \cup inflight} \ emitted :
                        call.partial /\ SubsOf(t) \cap succeeded # {}}
        results == ResultsWith(partials)
    IN  /\ Emit(partials, succeeded)
        /\ restart_on_cancel' = IF call.restart THEN restart_on_cancel \cup inflight
                                                ELSE restart_on_cancel \ inflight
        /\ pending_tasks' = pending_tasks \ queued
        /\ running_tasks' = running_tasks \ inflight
        /\ future' = [s \in Sub |->
               IF s \in queued THEN "dropped"
               ELSE IF s \in inflight /\ future[s] = "running" THEN "cancelling"
               ELSE future[s]]
        /\ task_num_map' = [task_num_map EXCEPT ![call.b] = 0]
        /\ IF GatherDone(inflight)
           THEN AfterGather(c, [call EXCEPT !.futures = inflight], results)
           ELSE /\ client' = [client EXCEPT ![c] =
                       [call EXCEPT !.pc = "gather", !.futures = inflight]]
                /\ completed_tasks' = results
                /\ UNCHANGED <<drainVars, cleanup_restarts>>
        /\ UNCHANGED <<runnerVars, progressVars, stopVars, runner_of,
                       background_tasks, callVars>>

\* A poll of _wait_for_batch_results finds every scheduled task completed.
AllCompleted(c) ==
    /\ client[c].pc = "wait"
    /\ Count(completed_tasks, client[c].b) >= client[c].scheduled
    /\ UNCHANGED <<runnerVars, futureVars, progressVars, stopVars, emitted,
                   payloads, cleanup_restarts, pending_tasks, running_tasks,
                   task_num_map, background_tasks, callVars>>
    /\ Return(c, client[c], completed_tasks)

\* The time is up; the variant still insists on min_num results.
MayGiveUpAfterMin(c) ==
    ~client[c].clear /\ Count(completed_tasks, client[c].b) >= client[c].min

MayGiveUp(c) == ~client[c].clear

\* A poll finds min_num completed for wait_after_min seconds, or the time is
\* up; without clear_timeout_tasks the rest goes on running.
GiveUpWaiting(c) ==
    /\ client[c].pc = "wait"
    /\ MayGiveUp(c)
    /\ UNCHANGED <<runnerVars, futureVars, progressVars, stopVars, emitted,
                   payloads, cleanup_restarts, pending_tasks, running_tasks,
                   task_num_map, background_tasks, callVars>>
    /\ Return(c, client[c], completed_tasks)

\* The same with clear_timeout_tasks: over-rollout keeps the runners, ...
MinCompleted(c) ==
    /\ client[c].pc = "wait"
    /\ client[c].clear
    /\ Count(completed_tasks, client[c].b) \in client[c].min .. client[c].scheduled - 1
    /\ CleanupBatch(c, client[c])

\* ... a timeout restarts them.
TimedOut(c) ==
    /\ client[c].pc = "wait"
    /\ client[c].clear
    /\ CleanupBatch(c, [client[c] EXCEPT !.restart = TRUE])

AbortBatch(c, b, partial, restart) ==
    /\ client[c].pc = "free"
    /\ Available(b)
    /\ CleanupBatch(c, [Free EXCEPT !.b = b, !.partial = partial, !.restart = restart])

\* Their done callbacks have run; the variant does not wait for them.
NotAwaited(futures) == TRUE

AllClosed(futures) == \A s \in futures : future[s] = "closed"

\* gather(*cancelled_futures), which had to yield, is complete.  Its callback on
\* a future comes after task_done_callback.
Gathered(c) ==
    /\ client[c].pc = "gather"
    /\ AllClosed(client[c].futures)
    /\ UNCHANGED <<runnerVars, futureVars, progressVars, stopVars, emitted,
                   payloads, pending_tasks, running_tasks, task_num_map,
                   background_tasks, callVars>>
    /\ AfterGather(c, [client[c] EXCEPT !.futures = {}], completed_tasks)

\* One _restart_runner of the cleanup finishes, or fails and the call raises.
CleanupRestartDone(c, r) ==
    /\ <<c, r>> \in cleanup_restarts
    /\ AllClosed(client[c].futures)
    /\ cleanup_restarts' = cleanup_restarts \ {<<c, r>>}
    /\ GiveBack(r)
    /\ UNCHANGED <<resultVars, drainVars, futureVars, progressVars, stopVars, client,
                   pending_tasks, running_tasks, task_num_map, background_tasks, callVars>>

CleanupRestartFailed(c, r) ==
    /\ RestartFaults
    /\ <<c, r>> \in cleanup_restarts
    /\ AllClosed(client[c].futures)
    /\ cleanup_restarts' = cleanup_restarts \ {<<c, r>>}
    /\ client' = [client EXCEPT ![c] = [@ EXCEPT !.pc = "raised"]]
    /\ UNCHANGED <<runnerVars, resultVars, drainVars, futureVars, progressVars, stopVars,
                   pending_tasks, running_tasks, task_num_map, background_tasks, callVars>>

\* The gather of the restarts is complete.
Restarted(c) ==
    /\ client[c].pc = "restart"
    /\ \A r \in Runners : <<c, r>> \notin cleanup_restarts
    /\ AllClosed(client[c].futures)
    /\ UNCHANGED <<runnerVars, futureVars, progressVars, stopVars, emitted,
                   payloads, cleanup_restarts, pending_tasks, running_tasks,
                   task_num_map, background_tasks, callVars>>
    /\ Return(c, client[c], completed_tasks)

\* discard_completed_results(batch_id)
DiscardCompletedResults(b) ==
    /\ Available(b)
    /\ completed_tasks' = [completed_tasks EXCEPT ![b] = NoResults]
    /\ task_num_map' = [task_num_map EXCEPT ![b] = 0]
    /\ batch_is_eval_map' = [batch_is_eval_map EXCEPT ![b] = "none"]
    /\ UNCHANGED <<runnerVars, futureVars, progressVars, clientVars, stopVars,
                   emitted, payloads, delivered, counted_steps, pending_tasks,
                   running_tasks, background_tasks, callVars>>

-----------------------------------------------------------------------------
(* stop() and a later start().                                             *)

othersOfStop == <<resultVars, drainVars, futureVars, progressVars, clientVars,
                  pending_tasks, running_tasks, task_num_map, background_tasks, callVars>>

\* What stop() waits for, before its next step.
Futures(subs) == {"future"} \X subs

Restarts(subs) == {"restart"} \X subs

\* Up to the first await: the running futures, and next the runner restarts of
\* that moment.  Callbacks that are queued run before stop() goes on.
Stop ==
    /\ phase = "up"
    /\ stops < MaxStops
    /\ stops' = stops + 1
    /\ LET queued == {s \in Sub : future[s] \in Settled} IN
       IF GatherDone(running_tasks)
       THEN /\ phase' = "draining"
            /\ stop_wait' = Futures(queued) \cup Restarts(background_tasks)
       ELSE /\ phase' = "stopping"
            /\ stop_wait' = Futures(queued \cup running_tasks)
    /\ UNCHANGED <<othersOfStop, runnerVars, eager_gather>>

StopGathered ==
    /\ phase = "stopping"
    /\ AllClosed({s \in Sub : <<"future", s>> \in stop_wait})
    /\ phase' = "draining"
    /\ stop_wait' = Restarts(background_tasks)
    /\ UNCHANGED <<othersOfStop, runnerVars, stops, eager_gather>>

Stopped ==
    /\ phase = "draining"
    /\ AllClosed({s \in Sub : <<"future", s>> \in stop_wait})
    /\ Restarts(background_tasks) \cap stop_wait = {}
    /\ phase' = "down"
    /\ stop_wait' = {}
    /\ UNCHANGED <<othersOfStop, runnerVars, stops, eager_gather>>

\* start() again: every runner is created anew and becomes idle.
Start ==
    /\ phase = "down"
    /\ phase' = "up"
    /\ idle_runners' = Runners
    /\ UNCHANGED <<othersOfStop, busy_runners, stop_wait, stops, eager_gather>>

-----------------------------------------------------------------------------
Next ==
    \/ \E b \in Batches, n \in 1 .. MaxTasks : Schedule(b, n)
    \/ SchedulePendingTasks
    \/ \E s \in Sub : RunWithRetry(s)
    \/ \E s \in Sub : TaskCancelled(s)
    \/ \E s \in Sub : TaskRaised(s)
    \/ \E s \in Sub : TaskReturned(s)
    \/ \E s \in Sub : RestartDone(s)
    \/ \E s \in Sub : RestartFailed(s)
    \/ \E c \in Clients, b \in Batches, m \in 0 .. MaxTasks, clear, partial \in BOOLEAN :
           GetPayloadResults(c, b, m, clear, partial)
    \/ \E c \in Clients : AllCompleted(c)
    \/ \E c \in Clients : GiveUpWaiting(c)
    \/ \E c \in Clients : MinCompleted(c)
    \/ \E c \in Clients : TimedOut(c)
    \/ \E c \in Clients, b \in Batches, partial, restart \in BOOLEAN :
           AbortBatch(c, b, partial, restart)
    \/ \E c \in Clients : Gathered(c)
    \/ \E c \in Clients, r \in Runners : CleanupRestartDone(c, r)
    \/ \E c \in Clients, r \in Runners : CleanupRestartFailed(c, r)
    \/ \E c \in Clients : Restarted(c)
    \/ \E b \in Batches : DiscardCompletedResults(b)
    \/ Stop
    \/ StopGathered
    \/ Stopped
    \/ Start

Spec == Init /\ [][Next]_vars

\* The workflow of a future ends (its attempts are bounded by timeouts), the
\* event loop runs every ready callback and loop iteration, and replacement
\* actors come up.  Nothing obliges a client to make a new call, nor a wait
\* to be given up while results may still arrive - except by its timeout.  A
\* sub task, a client or stop() is at one of its steps at a time, so one
\* conjunct makes each go on.
Fairness ==
    /\ WF_vars(SchedulePendingTasks)
    /\ \A s \in Sub :
        WF_vars(RunWithRetry(s) \/ TaskCancelled(s) \/ TaskRaised(s) \/ TaskReturned(s)
                \/ RestartDone(s))
    /\ \A c \in Clients :
        /\ WF_vars(AllCompleted(c) \/ GiveUpWaiting(c) \/ TimedOut(c)
                   \/ Gathered(c) \/ Restarted(c))
        /\ \A r \in Runners : WF_vars(CleanupRestartDone(c, r))
    /\ WF_vars(StopGathered \/ Stopped)

FairSpec == Spec /\ Fairness

-----------------------------------------------------------------------------
(* Properties.                                                             *)

\* The tables keep their types; in particular no key is ever looked up that
\* the code did not insert.
TypeOK ==
    /\ idle_runners \subseteq Runners
    /\ busy_runners \in [Runners -> Sub \cup {NoSub}]
    /\ pending_tasks \subseteq Sub
    /\ running_tasks \subseteq Sub
    /\ task_num_map \in [Batches -> Nat]
    /\ batch_is_eval_map \in [Batches -> {"train", "eval", "none"}]
    /\ completed_tasks \in [Batches -> [1 .. MaxTasks -> 0 .. MaxCalls]]
    /\ future \in [Sub -> FutureState]
    /\ runner_of \in [Sub -> Runners \cup {NoRunner}]
    /\ restart_on_cancel \subseteq Sub
    /\ finished \subseteq Sub
    /\ succeeded \subseteq Sub
    /\ emitted \subseteq Task
    /\ payloads \in [Task -> SUBSET Sub]
    /\ background_tasks \subseteq Sub
    /\ client \in [Clients -> Call]
    /\ cleanup_restarts \subseteq Clients \X Runners
    /\ counted_steps \subseteq Batches
    /\ delivered \subseteq Task
    /\ calls \in [Batches -> 0 .. MaxCalls]
    /\ use_start \in [Batches -> 0 .. MaxCalls]
    /\ phase \in {"up", "stopping", "draining", "down"}
    /\ stop_wait \subseteq {"future", "restart"} \X Sub
    /\ eager_gather \in BOOLEAN
    /\ stops \in 0 .. MaxStops

\* The sub tasks whose coroutine, or whose unprocessed outcome, a runner holds.
InFlight == {s \in Sub : future[s] \in Live \cup Settled}

\* A runner executes at most one sub task, and none while it is offered as
\* idle: what idle_runners and busy_runners are kept for.  With an eager gather
\* that is not so: a cleanup restarts a runner whose callback has yet to run.
NoDoubleBooking ==
    ~eager_gather =>
        /\ \A s \in InFlight : runner_of[s] \notin idle_runners
        /\ \A s, t \in InFlight : runner_of[s] = runner_of[t] => s = t

\* A runner that is not idle has a future to give it back, or a restart that
\* will: no interleaving of failures, cancellations and cleanups loses it.
NoRunnerLost ==
    \A r \in Runners \ idle_runners :
        \/ \E s \in InFlight \cup background_tasks : runner_of[s] = r
        \/ \E c \in Clients : <<c, r>> \in cleanup_restarts
        \/ \E c \in Clients :
               client[c].pc = "gather" /\ client[c].restart /\ r \in Restartable(client[c])

\* The cache of a batch holds results of its present use only: no future that a
\* cleanup cancelled in an earlier use of the batch id surfaces in the next one.
\* (With an eager gather its callback may still be queued when the next begins.)
ResultsAreCurrent ==
    ~eager_gather =>
        \A b \in Batches, i \in 1 .. MaxTasks :
            completed_tasks[b][i] = 0 \/ completed_tasks[b][i] >= use_start[b]

\* The cleanup of batch b by client c ends: at once, or after waiting.
CleanupReturns(c, b) ==
    /\ client'[c].pc = "free"
    /\ \/ client[c].pc \in {"gather", "restart"} /\ client[c].b = b
       \/ client[c].b = b /\ (MinCompleted(c) \/ TimedOut(c))
       \/ \E partial, restart \in BOOLEAN : AbortBatch(c, b, partial, restart)

\* Then nothing of the batch is queued or still runs, so its caller may discard
\* the results and reuse the batch id; and unless gather is eager, no callback
\* of it is outstanding either.
QuietAfterCleanup ==
    [][\A c \in Clients, b \in Batches : CleanupReturns(c, b) =>
         \A s \in Sub : BatchOf(s) = b =>
             /\ s \notin pending_tasks' /\ future'[s] \notin Live
             /\ ~eager_gather => future'[s] \notin Settled]_vars

\* Several schedule() calls of one use of batch b number their tasks alike, and
\* the result of call j takes the place of that of call k.
Replaced(b, i, k) ==
    /\ use_start[b] < calls[b]
    /\ \E j \in 1 .. MaxCalls \ {k} :
           completed_tasks'[b][i] = j \/ <<b, j, i>> \in delivered' \ delivered

\* A result is handed to one caller once, and a result leaves the cache only
\* to a caller, by discard_completed_results, or to make room for another one.
DeliveredOnce ==
    [][\A b \in Batches, i \in 1 .. MaxTasks :
         LET k == completed_tasks[b][i] IN
         (k # 0 /\ completed_tasks'[b][i] # k) =>
             \/ <<b, k, i>> \in delivered' \ delivered
             \/ batch_is_eval_map'[b] = "none" /\ completed_tasks'[b][i] = 0
                /\ <<b, k, i>> \notin delivered
             \/ Replaced(b, i, k)]_vars

\* Once stop() has returned, nothing is in flight except what a concurrent
\* cleanup is itself waiting for; unless gather is eager, that is so as soon as
\* stop() has gathered the running futures.
StopQuiesces ==
    phase = "down" \/ (phase = "draining" /\ ~eager_gather) =>
        \A s \in InFlight : \E c \in Clients :
            client[c].pc = "gather" /\ s \in client[c].futures

\* The result of a task is what it was emitted with: a sub task that returns
\* after a cleanup emitted the partial result neither extends nor repeats it.
EmittedOnce == [][\A t \in emitted : t \in emitted' /\ payloads'[t] = payloads[t]]_vars

\* Every call returns.
CallsReturn == \A c \in Clients : InCall(c) ~> ~InCall(c)

\* Every scheduled sub task gets a runner or is dropped by a cleanup.
EverySubTaskRuns == \A s \in Sub : future[s] = "queued" ~> future[s] # "queued"

=============================================================================

-------------------------- MODULE RolloutCoordinator --------------------------
(***************************************************************************)
(* The rollout coordinator (trinity/explorer/rollout_coordinator.py): the  *)
(* life of a submitted batch, from submit_batch to its finalization or     *)
(* abort.  It is an asyncio actor, so calls interleave at their awaits; an *)
(* action is the code of one call between two awaits.                      *)
(*                                                                         *)
(* The scheduler is kept to what the coordinator sees of it: the state of  *)
(* every task and the cache of results, drained and discarded by batch id. *)
(* Module Scheduler describes its inside.                                  *)
(***************************************************************************)
EXTENDS Integers, FiniteSets

CONSTANTS
    BatchIds,       \* batch ids
    EvalIds,        \* those of evaluation batches
    Clients,        \* callers of finalize_train_batch, finalize_eval_batch, abort_batch
    MaxSubmits,     \* submit_batch calls: BatchState objects ever made
    MaxTasks,       \* tasks of one batch
    MaxRetries,     \* failed calls after which a batch is left alone
    ReuseIds,       \* TRUE: an id may be submitted again
    Aborts,         \* TRUE: callers may abort batches
    Shutdowns,      \* TRUE: shutdown() may be called
    PipelineFaults, \* TRUE: process_experiences may raise
    TaskFaults,     \* TRUE: tasks may end without a result
    RestartFaults,  \* TRUE: the restart of a runner may fail
    NoClient

ASSUME CoordinatorAssumption ==
    /\ EvalIds \subseteq BatchIds
    /\ MaxSubmits \in Nat /\ MaxTasks \in Nat /\ MaxRetries \in Nat
    /\ {ReuseIds, Aborts, Shutdowns, PipelineFaults, TaskFaults, RestartFaults} \subseteq BOOLEAN
    /\ NoClient \notin Clients

Batch == 1 .. MaxSubmits    \* BatchState objects, in the order of their submission
Task == Batch \X (1 .. MaxTasks)

VARIABLES
    batches,         \* BatchState objects
    pending_batches, \* batch id -> its registered BatchState, 0: none
    finalize_lock,   \* BatchState -> the client that holds its lock
    task,            \* state of every task in the scheduler
    task_num_map,    \* batch id -> tasks scheduled
    client,          \* where every caller stands
    processed,       \* tasks whose payload went through the pipeline
    scheduler,       \* "up", "stopping" or "none"
    pipeline,        \* FALSE once it is closed
    failures         \* BatchState -> failed calls

schedulerVars == <<task, task_num_map>>
shutdownVars == <<scheduler, pipeline>>
vars == <<batches, pending_batches, finalize_lock, schedulerVars, client,
          processed, shutdownVars, failures>>

Active == {"pending", "running", "finalizing"}
Terminal == {"finalized", "aborted"}
BatchState == [id : BatchIds \cup {"none"}, expected : 0 .. MaxTasks, min_wait_num : 0 .. MaxTasks,
               statuses : Nat, state : {"new"} \cup Active \cup Terminal, has_result : BOOLEAN]

NewBatch == [id |-> "none", expected |-> 0, min_wait_num |-> 0, statuses |-> 0,
             state |-> "new", has_result |-> FALSE]
Idle == [pc |-> "idle", b |-> 0, scheduled |-> 0, payloads |-> {}, waits |-> {}]

Init ==
    /\ batches = [b \in Batch |-> NewBatch]
    /\ pending_batches = [id \in BatchIds |-> 0]
    /\ finalize_lock = [b \in Batch |-> NoClient]
    /\ task = [k \in Task |-> "none"]
    /\ task_num_map = [id \in BatchIds |-> 0]
    /\ client = [c \in Clients |-> Idle]
    /\ processed = {}
    /\ scheduler = "up"
    /\ pipeline = TRUE
    /\ failures = [b \in Batch |-> 0]

IsEval(b) == batches[b].id \in EvalIds
IdOf(k) == batches[k[1]].id
Cached(id) == {k \in Task : IdOf(k) = id /\ task[k] = "cached"}
Move(keys, state) == [k \in Task |-> IF k \in keys THEN state ELSE task[k]]

\* pending_batches without id.
Evict(id) == [pending_batches EXCEPT ![id] = 0]

-----------------------------------------------------------------------------
(* The scheduler and its runners, on their own.                            *)

\* A task ends with a result, which takes the place of an older one with the
\* same batch id and task id.
TaskCompleted(k) ==
    /\ \/ task[k] = "running" /\ scheduler # "none"
       \/ task[k] = "cancelling"
    /\ LET older == {j \in Cached(IdOf(k)) : j[2] = k[2]} IN
       task' = [Move(older, "dropped") EXCEPT ![k] = "cached"]
    /\ UNCHANGED <<batches, pending_batches, finalize_lock, task_num_map, client,
                   processed, shutdownVars, failures>>

\* A task ends without one: its future was cancelled, or its runner died.
TaskEnded(k) ==
    /\ \/ task[k] = "running" /\ TaskFaults
       \/ task[k] = "cancelling"
    /\ task' = [task EXCEPT ![k] = "dropped"]
    /\ UNCHANGED <<batches, pending_batches, finalize_lock, task_num_map, client,
                   processed, shutdownVars, failures>>

\* scheduler.abort_batch, or the cleanup after a timeout, up to its await:
\* queued tasks go, running ones are cancelled; client c, standing at `call`,
\* will wait for them.
StartCleanup(c, id, call) ==
    \E queued \in SUBSET {k \in Task : IdOf(k) = id /\ task[k] = "running"} :
        LET cancelled == {k \in Task : IdOf(k) = id /\ task[k] = "running"} \ queued IN
        /\ task' = [k \in Task |-> IF k \in queued THEN "dropped"
                                   ELSE IF k \in cancelled THEN "cancelling" ELSE task[k]]
        /\ task_num_map' = [task_num_map EXCEPT ![id] = 0]
        /\ client' = [client EXCEPT ![c] = [call EXCEPT !.waits = cancelled]]

CleanedUp(c) == \A k \in client[c].waits : task[k] # "cancelling"

-----------------------------------------------------------------------------
(* submit_batch.                                                           *)

\* The variant does not look whether the id is active.
RegistrableAlways(id) == TRUE

Registrable(id) ==
    LET existing == pending_batches[id] IN
    existing # 0 => batches[existing].state \in Terminal

\* The new object replaces what is registered under the id, before schedule()
\* finds out whether there is a scheduler.
SubmitBatch(b, id, n, min) ==
    LET scheduled == IF scheduler = "none" THEN 0 ELSE n IN
    /\ \A d \in Batch : d < b <=> batches[d].state # "new"
    /\ ~ReuseIds => \A d \in Batch : batches[d].id # id
    /\ Registrable(id)
    /\ batches' = [batches EXCEPT ![b] =
           [NewBatch EXCEPT !.id = id, !.expected = n, !.min_wait_num = min,
                            !.state = IF scheduled > 0 THEN "running" ELSE "pending"]]
    /\ pending_batches' = [pending_batches EXCEPT ![id] = b]
    /\ task' = Move({b} \X (1 .. scheduled), "running")
    /\ task_num_map' = [task_num_map EXCEPT ![id] = @ + scheduled]
    /\ UNCHANGED <<finalize_lock, client, processed, shutdownVars, failures>>

-----------------------------------------------------------------------------
(* finalize_train_batch and finalize_eval_batch.                           *)

\* The call of c ends, with the lock of its batch given up.  The variant
\* forgets the lock.
LeaveLocked(c) ==
    /\ client' = [client EXCEPT ![c] = Idle]
    /\ UNCHANGED finalize_lock

Leave(c) ==
    /\ client' = [client EXCEPT ![c] = Idle]
    /\ finalize_lock' = [finalize_lock EXCEPT ![client[c].b] = NoClient]

\* The batch was finalized while the call waited for the lock: its result is
\* returned.  The variant does not look again.
HasResultNever(b) == FALSE

HasResult(b) == batches[b].has_result

\* With the lock of b: an existing result is returned, and a train batch finds
\* out here that there is no scheduler; otherwise c waits for its results.
Enter(c, b) ==
    IF HasResult(b) \/ (scheduler = "none" /\ ~IsEval(b))
    THEN client' = [client EXCEPT ![c] = Idle] /\ UNCHANGED finalize_lock
    ELSE /\ client' = [client EXCEPT ![c] =
                [Idle EXCEPT !.pc = IF IsEval(b) THEN "statuses" ELSE "results",
                             !.b = b, !.scheduled = task_num_map[batches[b].id]]]
         /\ finalize_lock' = [finalize_lock EXCEPT ![b] = c]

\* A free lock is taken without a pause; otherwise c queues for it.  Without a
\* scheduler finalize_eval_batch raises before the lock, and nothing changes.
FinalizeBatch(c, id) ==
    LET b == pending_batches[id] IN
    /\ client[c].pc = "idle"
    /\ b # 0
    /\ failures[b] < MaxRetries
    /\ IsEval(b) => scheduler # "none"
    /\ IF finalize_lock[b] = NoClient /\ \A d \in Clients : client[d].pc = "lock" => client[d].b # b
       THEN Enter(c, b)
       ELSE /\ client' = [client EXCEPT ![c] = [Idle EXCEPT !.pc = "lock", !.b = b]]
            /\ UNCHANGED finalize_lock
    /\ UNCHANGED <<batches, pending_batches, schedulerVars, processed, shutdownVars, failures>>

Acquire(c) ==
    /\ client[c].pc = "lock"
    /\ finalize_lock[client[c].b] = NoClient
    /\ Enter(c, client[c].b)
    /\ UNCHANGED <<batches, pending_batches, schedulerVars, processed, shutdownVars, failures>>

\* get_payload_results returns: enough tasks completed, or its time is up.
\* The variant accepts whatever a batch without min_wait_num has by then.
TooFewStrictlyNone(b, n) == batches[b].expected > 0 /\ n = 0

TooFew(b, n) ==
    /\ batches[b].expected > 0
    /\ \/ n = 0
       \/ batches[b].min_wait_num = 0 /\ n < batches[b].expected

PayloadResults(c) ==
    LET b == client[c].b
        drained == Cached(batches[b].id)
        n == Cardinality(drained)
    IN  /\ client[c].pc = "results"
        /\ task' = Move(drained, "taken")
        /\ IF TooFew(b, n)
           THEN /\ Leave(c)
                /\ failures' = [failures EXCEPT ![b] = @ + 1]
                /\ UNCHANGED batches
           ELSE /\ batches' = [batches EXCEPT ![b] =
                       [@ EXCEPT !.statuses = n, !.state = "finalizing"]]
                /\ client' = [client EXCEPT ![c] = [@ EXCEPT !.pc = "pipeline", !.payloads = drained]]
                /\ UNCHANGED <<finalize_lock, failures>>
        /\ UNCHANGED <<pending_batches, task_num_map, processed, shutdownVars>>

\* _finish_batch, with the tables of the scheduler as the step leaves them
\* apart from what discard_completed_results takes.  Without a scheduler its
\* assertion fails, and the batch stays as it is but for its statuses.
FinishBatch(c, b, statuses, kept) ==
    LET id == batches[b].id IN
    /\ Leave(c)
    /\ IF scheduler = "none"
       THEN /\ task' = kept
            /\ failures' = [failures EXCEPT ![b] = @ + 1]
            /\ batches' = [batches EXCEPT ![b].statuses = statuses]
            /\ UNCHANGED <<pending_batches, task_num_map>>
       ELSE /\ task' = [k \in Task |->
                   IF IdOf(k) = id /\ kept[k] = "cached" THEN "dropped" ELSE kept[k]]
            /\ task_num_map' = [task_num_map EXCEPT ![id] = 0]
            /\ batches' = [batches EXCEPT ![b] =
                   [@ EXCEPT !.statuses = statuses, !.state = "finalized", !.has_result = TRUE]]
            /\ pending_batches' = Evict(id)
            /\ UNCHANGED failures

\* The pipeline has taken the payloads; an incomplete batch is cleaned up.
\* The variant leaves the rest of the batch running.
IncompleteNever(b) == FALSE

Incomplete(b) == batches[b].statuses < batches[b].expected

PipelineDone(c) ==
    LET b == client[c].b IN
    /\ client[c].pc = "pipeline"
    /\ pipeline
    /\ processed' = processed \cup client[c].payloads
    /\ IF Incomplete(b)
       THEN /\ scheduler # "none"
            /\ StartCleanup(c, batches[b].id, [client[c] EXCEPT !.pc = "cleanup"])
            /\ UNCHANGED <<batches, pending_batches, finalize_lock, failures>>
       ELSE FinishBatch(c, b, batches[b].statuses, task)
    /\ UNCHANGED shutdownVars

CleanupDone(c) ==
    /\ client[c].pc = "cleanup"
    /\ CleanedUp(c)
    /\ FinishBatch(c, client[c].b, batches[client[c].b].statuses, task)
    /\ UNCHANGED <<processed, shutdownVars>>

\* process_experiences raises - the pipeline fails or is closed - or, after it,
\* the cleanup finds no scheduler: back to the active state.
RestoreActive(c) ==
    LET b == client[c].b IN
    /\ client[c].pc = "pipeline"
    /\ \/ /\ ~pipeline \/ (PipelineFaults /\ client[c].payloads # {})
          /\ UNCHANGED processed
       \/ /\ pipeline /\ scheduler = "none" /\ Incomplete(b)
          /\ processed' = processed \cup client[c].payloads
    /\ batches' = [batches EXCEPT ![b].state = IF batches[b].expected = 0 THEN "pending" ELSE "running"]
    /\ Leave(c)
    /\ failures' = [failures EXCEPT ![b] = @ + 1]
    /\ UNCHANGED <<pending_batches, schedulerVars, shutdownVars>>

\* get_statuses of an eval batch: every task completed ...
DrainEval(c) ==
    LET b == client[c].b
        drained == Cached(batches[b].id)
    IN  FinishBatch(c, b, Cardinality(drained), Move(drained, "taken"))

EvalCompleted(c) ==
    /\ client[c].pc = "statuses"
    /\ Cardinality(Cached(batches[client[c].b].id)) >= client[c].scheduled
    /\ DrainEval(c)
    /\ UNCHANGED <<processed, shutdownVars>>

\* ... or the time is up, and the rest is cleaned up first.
EvalTimedOut(c) ==
    /\ client[c].pc = "statuses"
    /\ StartCleanup(c, batches[client[c].b].id, [client[c] EXCEPT !.pc = "evalcleanup"])
    /\ UNCHANGED <<batches, pending_batches, finalize_lock, processed, shutdownVars, failures>>

EvalCleanedUp(c) ==
    /\ client[c].pc = "evalcleanup"
    /\ CleanedUp(c)
    /\ DrainEval(c)
    /\ UNCHANGED <<processed, shutdownVars>>

-----------------------------------------------------------------------------
(* abort_batch, which does not take the lock.                              *)

AbortBatch(c, id) ==
    LET b == pending_batches[id] IN
    /\ Aborts
    /\ client[c].pc = "idle"
    /\ b # 0
    /\ failures[b] < MaxRetries
    /\ scheduler # "none"
    /\ batches[b].state \notin Terminal
    /\ StartCleanup(c, id, [Idle EXCEPT !.pc = "abort", !.b = b])
    /\ UNCHANGED <<batches, pending_batches, finalize_lock, processed, shutdownVars, failures>>

AbortDone(c) ==
    LET b == client[c].b
        id == batches[b].id
    IN  /\ client[c].pc = "abort"
        /\ CleanedUp(c)
        /\ task' = Move(Cached(id), "dropped")
        /\ task_num_map' = [task_num_map EXCEPT ![id] = 0]
        /\ batches' = [batches EXCEPT ![b] = [@ EXCEPT !.state = "aborted", !.has_result = TRUE]]
        /\ pending_batches' = Evict(id)
        /\ client' = [client EXCEPT ![c] = Idle]
        /\ UNCHANGED <<finalize_lock, processed, shutdownVars, failures>>

\* A restart of a runner fails at the end of a cleanup, and the call raises.
CleanupRaised(c) ==
    LET b == client[c].b IN
    /\ RestartFaults
    /\ client[c].pc \in {"cleanup", "evalcleanup", "abort"}
    /\ CleanedUp(c)
    /\ client' = [client EXCEPT ![c] = Idle]
    /\ batches' = [batches EXCEPT ![b].state = IF client[c].pc = "cleanup" THEN "running" ELSE @]
    /\ finalize_lock' = [finalize_lock EXCEPT ![b] = IF client[c].pc = "abort" THEN @ ELSE NoClient]
    /\ failures' = [failures EXCEPT ![b] = @ + 1]
    /\ UNCHANGED <<pending_batches, schedulerVars, processed, shutdownVars>>

-----------------------------------------------------------------------------
(* shutdown: the scheduler stops, then the pipeline closes.                *)

Shutdown ==
    /\ Shutdowns /\ scheduler = "up"
    /\ scheduler' = "stopping"
    /\ UNCHANGED <<batches, pending_batches, finalize_lock, schedulerVars, client,
                   processed, pipeline, failures>>

SchedulerStopped ==
    /\ scheduler = "stopping"
    /\ scheduler' = "none"
    /\ UNCHANGED <<batches, pending_batches, finalize_lock, schedulerVars, client,
                   processed, pipeline, failures>>

PipelineClosed ==
    /\ scheduler = "none" /\ pipeline
    /\ pipeline' = FALSE
    /\ UNCHANGED <<batches, pending_batches, finalize_lock, schedulerVars, client,
                   processed, scheduler, failures>>

-----------------------------------------------------------------------------
ClientStep(c) ==
    \/ Acquire(c) \/ PayloadResults(c) \/ PipelineDone(c) \/ CleanupDone(c) \/ RestoreActive(c)
    \/ EvalCompleted(c) \/ EvalTimedOut(c) \/ EvalCleanedUp(c) \/ AbortDone(c) \/ CleanupRaised(c)

Next ==
    \/ \E b \in Batch, id \in BatchIds, n, min \in 0 .. MaxTasks : SubmitBatch(b, id, n, min)
    \/ \E k \in Task : TaskCompleted(k)
    \/ \E k \in Task : TaskEnded(k)
    \/ \E c \in Clients, id \in BatchIds : FinalizeBatch(c, id)
    \/ \E c \in Clients, id \in BatchIds : AbortBatch(c, id)
    \/ \E c \in Clients : ClientStep(c)
    \/ Shutdown \/ SchedulerStopped \/ PipelineClosed

Spec == Init /\ [][Next]_vars

\* Every wait of a call ends: waits for results by their timeout, cancelled
\* tasks settle, the pipeline answers or raises.
FairSpec ==
    /\ Spec
    /\ \A c \in Clients : WF_vars(ClientStep(c))
    /\ \A k \in Task : WF_vars(task[k] = "cancelling" /\ (TaskCompleted(k) \/ TaskEnded(k)))

-----------------------------------------------------------------------------
(* Properties.                                                             *)

TaskState == {"none", "running", "cancelling", "cached", "taken", "dropped"}
ClientState ==
    [pc : {"idle", "lock", "results", "pipeline", "cleanup", "statuses", "evalcleanup", "abort"},
     b : Batch \cup {0}, scheduled : Nat, payloads : SUBSET Task, waits : SUBSET Task]

TypeOK ==
    /\ batches \in [Batch -> BatchState]
    /\ pending_batches \in [BatchIds -> Batch \cup {0}]
    /\ finalize_lock \in [Batch -> Clients \cup {NoClient}]
    /\ task \in [Task -> TaskState]
    /\ task_num_map \in [BatchIds -> Nat]
    /\ client \in [Clients -> ClientState]
    /\ processed \in SUBSET Task
    /\ scheduler \in {"up", "stopping", "none"}
    /\ pipeline \in BOOLEAN
    /\ failures \in [Batch -> Nat]

Tasks(b) == {b} \X (1 .. MaxTasks)

\* A train batch that is finalized counts exactly the results that went
\* through the pipeline; it has all of its tasks unless min_wait_num allows less.
FinalizedIsComplete ==
    \A b \in Batch : batches[b].state = "finalized" /\ ~IsEval(b) =>
        /\ batches[b].statuses = Cardinality(processed \cap Tasks(b))
        /\ \A k \in Tasks(b) : task[k] = "taken" => k \in processed
        /\ batches[b].min_wait_num = 0 => batches[b].statuses = batches[b].expected

\* Work in the scheduler always has an owner: its batch is registered, or a
\* call on the batch is still going on.
NoOrphans ==
    \A k \in Task : task[k] \in {"running", "cancelling", "cached"} =>
        \/ pending_batches[IdOf(k)] = k[1]
        \/ \E c \in Clients : client[c].b = k[1]

\* A batch gets one terminal result, however many callers finalize it.
TerminalIsFinal ==
    [][\A b \in Batch : batches[b].state \in Terminal => batches'[b] = batches[b]]_vars

\* Every call returns.
CallsReturn == \A c \in Clients : client[c].pc # "idle" ~> client[c].pc = "idle"
=============================================================================

# Verification of Trinity-RFT

Trinity-RFT trains language models with reinforcement learning. An *explorer*
samples rollouts, a *trainer* learns from them, a *buffer* carries experiences
from one to the other and a *synchronizer* carries weights back. All of it runs
as Ray actors whose bodies are asyncio coroutines. This directory holds TLA+
models of the parts where those coroutines and actors get into each other's
way, the TLC runs that check them, and TLAPS proofs about them.

Paths below are relative to `src/`, those without a directory to
`src/trinity/`.

## 1. The system

| Component | State | Operations | Talks to |
|---|---|---|---|
| Scheduler (`explorer/scheduler.py`) | idle and busy runners, pending and running tasks, cached results per batch, counts for dynamic timeouts | `schedule`, `get_payload_results`, `drain_batch_payload_results`, `abort_batch`, `discard_completed_results`, `stop`, `start`; its loop and its done callbacks | runners by Ray calls, the coordinator that owns it |
| Runner (`RunnerWrapper` there, `workflow_runner.py`) | attempts of a sub task; runs, experiences and a history of responses in the actor | `run_with_retry`, `run_task`, `restart_runner` | rollout models |
| Rollout coordinator (`rollout_coordinator.py`) | registered batches, one lock per batch | `submit_batch`, `finalize_train_batch`, `finalize_eval_batch`, `abort_batch`, `shutdown` | scheduler, experience pipeline; called by the explorer |
| Explorer (`explorer.py`) | step numbers, in-flight window, model version | `explore`, `explore_step`, `finish_current_steps`, `sync_weight`, watcher of `fully_async`, `save_checkpoint` | coordinator, synchronizer, task sets, state manager |
| Trainer (`trainer/trainer.py`) | step number, last synchronized step | `train`, `train_step`, `sync_weight`, `need_sync`, `need_save`, `save_checkpoint` | buffer, synchronizer, checkpoints |
| Synchronizer (`manager/synchronizer.py`) | status of trainer and explorers, model version, one condition variable | `ready_to_nccl_sync`, `wait_new_model_state_dict`, `set_model_state_dict`, status setters, checkpoint scan | both sides, tracker files |
| Checkpoints (`trainer/verl/trainer.py`, `checkpoint.py`, `workers.py`) | directories of saved steps, tracker files, counters of `CheckpointMonitor`, background threads | `save_state_dict`, `save_checkpoint`, `monitor_step`, retention | synchronizer and explorer, through the file system |
| Experience queue (`buffer/storage/queue.py`) | queued experiences, pool of left-overs, reference count | `put_batch`, `get_batch`, `acquire`, `release`, delayed re-insertion | explorer writes, trainer reads |
| SQL and file storage | offset into a table | `write`, `read` | as above, through a database |
| Task sets and selectors (`buffer/task_scheduler.py`, `buffer/selector/`) | position and order per task set | `read_async`, `update`, `state_dict` | explorer |
| State manager (`manager/state_manager.py`) | progress files | `save_*`, `load_*` | both sides, at checkpoints and restarts |
| Serving proxy (`explorer/proxy/`) | models in rotation and their versions, recorded answers, ready experiences | HTTP handlers, recorder, weight synchronization loop | explorer of mode `serve`, applications |
| Experience pipeline (`buffer/pipelines/`) | operators, the writer | `prepare`, `process`, `close` | coordinator, queue |
| Launcher (`cli/launcher.py`) | the actors | start, first synchronization, waiting for the first to end | everything |

What makes them hard:

* **Interleaving at awaits.** No lock protects the scheduler; correctness rests
  on what may run between two awaits. A future that is done is not yet
  *seen*: its callback runs later, and cleanups, aborts and drains come between.
* **Cancellation.** A cancelled future may still return a result, or its runner
  may be given back twice: by its callback and by a restart. A remote call that
  timed out goes on in its actor.
* **A gather that may or may not yield.** From Python 3.12 on, which
  `pyproject.toml` admits, `asyncio.gather` over futures that are all done
  completes without a turn of the loop, so their callbacks are still queued.
* **Identity by id.** Batches are drained, discarded and evicted by batch id and
  tasks are numbered from 0 in every `schedule` call.
* **Timeouts that race answers.** `sync_timeout` against the arrival of the
  other side, the timeout of a batch against its last result.
* **Partial failure.** Results are taken out of the cache before the step that
  uses them has succeeded; assertions fail after counters were changed.
* **Two writers of one truth.** A saver thread, the training loop and a monitor
  agree by counting; the scan and the retention remove what others read.
* **Crashes.** What is in files and what was in memory differ by what was in
  flight; files are overwritten in place.
* **Ending.** Each side may stop while the other waits for it.

What makes each part correct, and the property that says so (section 3):

* scheduler - a runner executes one sub task and always comes back
  (`NoDoubleBooking`, `NoRunnerLost`); a result is emitted once, belongs to the
  present use of its batch id and reaches one caller (`EmittedOnce`,
  `ResultsAreCurrent`, `DeliveredOnce`); cleanups and `stop` leave nothing behind
  (`QuietAfterCleanup`, `StopQuiesces`); calls return and sub tasks run
  (`CallsReturn`, `EverySubTaskRuns`);
* runner - the payload of a sub task comes from one attempt at it, and fits its
  status (`OwnExperiences`, `StatusFitsPayload`);
* coordinator - a finalized batch counts exactly what the pipeline received
  (`FinalizedIsComplete`), is finalized once (`TerminalIsFinal`), owns all work
  under its id (`NoOrphans`); calls return (`CallsReturn`);
* NCCL synchronization - transfers are paired (`Handshake`), versions are those of
  the loaded weights (`VersionIsLoaded`), statuses return to `RUNNING`
  (`BothReturnToRunning`), a stop is noticed and final (`StopIsNoticed`,
  `StoppedIsFinal`);
* weights from memory or checkpoints - the counts of explorers are true
  (`CountsAreTrue`), experiences are not labelled with weights newer than those
  that made them (`TagNotAhead`), the configured schedule is kept (`OnSchedule`),
  nobody waits for ever (`PullReturns`, `EveryStepTrained`);
* checkpoints - what is announced can be loaded (`LoadableUnlessOvertaken`), a
  restart finds its checkpoint (`CheckpointSurvives`), announcements go forward
  (`PublishedOnlyForward`) and are made (`SavedIsAnnounced`);
* queue - it behaves as a buffer from which each experience is taken as often as
  configured (`BufferSpec`), in order (`FifoOrder`), without loss
  (`NoFreshExperienceLost`), and tells the end (`EndIsTold`);
* task sets and progress - a step reads the same batch in every life of the
  explorer (`ResumesExactly`), what is saved has been explored (`LossIsBounded`),
  in the end everything is (`AllExplored`);
* proxy - an answer carries the version that made it (`LabelIsTrue`), an answer
  with feedback is taken once and accounted for (`TakenOnce`, `TakenIsKept`), a new
  version reaches every model (`UpdatesReachAll`).

## 2. Modules

| Module | Models | State and actions |
|---|---|---|
| `Scheduler` | `Scheduler` and the outcome of `RunnerWrapper.run_with_retry` | one variable per table of the class, with its name; `future` gives each asyncio future its state, `client` each caller's position. `eager_gather` says which gather the run has, and `use_start` (no variable of the code) at which call of `schedule` the present use of a batch id began. One action per stretch of code between two awaits: `Schedule`, `SchedulePendingTasks` (one pass of the loop), `RunWithRetry` (the coroutine settles), `TaskCancelled`, `TaskRaised`, `TaskReturned` (the branches of `task_done_callback`), `RestartDone`/`RestartFailed` (background restart), `GetPayloadResults`, `AllCompleted`, `GiveUpWaiting`, `MinCompleted`, `TimedOut`, `AbortBatch` (which go on at once if their gather does not yield, `GatherDone`), `Gathered`, `CleanupRestartDone`/`Failed`, `Restarted` (a call and its cleanup), `DiscardCompletedResults`, `Stop`, `StopGathered`, `Stopped`, `Start` |
| `RunnerRetry` | `run_with_retry` from the inside, and `run_task` with its runs in the actor | `attempt`, `call`, `exp_payload` as in the wrapper; `calls` are the remote calls, `history` the shared model wrapper's. `RunWithRetry`, `AttemptTimesOut`, `AttemptRaises`, `Cancelled`, `RunTaskReturns` on one side; `StartRun`, `Respond`, `FinishRun`, `FailRun`, `AbandonedReturns` on the other |
| `RolloutCoordinator` | `RolloutCoordinator`; the scheduler reduced to the state of each task and the cache | `batches` are the `BatchState` objects, in order of submission, `pending_batches` maps ids to them; `SubmitBatch`, `FinalizeBatch`, `Acquire`, `PayloadResults`, `PipelineDone`, `RestoreActive`, `CleanupDone`, `EvalCompleted`, `EvalTimedOut`, `EvalCleanedUp`, `AbortBatch`, `AbortDone`, `CleanupRaised`, `Shutdown`, `SchedulerStopped`, `PipelineClosed` |
| `NcclSync` | `ready_to_nccl_sync` and the status setters, with the two loops that call them | `trainer_status`, `explorer_status_counts`, `model_version` as in the class; `waiters` are those asleep on `_ready_condition`; `nccl_trainer`, `caller`, `main` are program counters. What `WeightPull` has under the same name carries a prefix. `TrainerCalls` ... `TrainerTimesOut` and `ExplorerCalls` ... `ExplorerTimesOut` are the pieces of the method, `Transfer` and the two `...TransferFails` the collective, the rest the loops |
| `WeightPull` | `wait_new_model_state_dict`, `set_model_state_dict` and the scan; the loops of explorers and trainer with methods MEMORY and CHECKPOINT; the launcher's order | `sync` is the synchronizer's state; `explorer`, `trainer` the loops; `pull` the two callers of `_pull_latest_weights` per explorer (its loop and its watcher). `Prepare`, `SyncWeight`, the steps of a loop, `Answer`, `TimeOut`, `Load`, `Scan`, the trainer's steps, saves and end |
| `Checkpoint` | the savers of the verl trainer, `CheckpointMonitor`, retention, the scan, a loading explorer, a crash of the job | `tracker` are the two tracker files, `dir` the step directories, `monitor` the actor; one action per write that others can see: `SaveStateDict`, `RegisterStateDict`, `MonitorStateDict`, `SaveCheckpoint` ... `MonitorCheckpoint`, `WaitForSave`, `ThreadStarts`, `ThreadRenames`, `ThreadFinishes`, `ThreadFails`, `ScanFinds`, `ScanRemoves`, `LoadStarts`, `LoadEnds`, `Crash` |
| `ExpBuffer` | what a buffer promises: the abstract specification | experiences written, and how often each was taken |
| `ExpQueue` | `AsyncQueue`, `AsyncPriorityQueue`, `QueueStorage`, its reader and writers | `queue`, `cooling` (delayed re-insertions), `use_count`, `closed`, `ref_count`, `exp_pool`; `Acquire`, `PutBatch`, `PutRoom`, `Release`, `CooldownOver`, `GetBatch`, `Get`, `SkipStale`, `GetStopped`, `GiveUp`, `Poll`. Its `Buffer` is `INSTANCE ExpBuffer WITH` a refinement mapping |
| `TaskSets` | `TasksetScheduler`, the readers and selectors, the explorer's steps and its progress file, crash and restart | `epoch`, `current_index`, `orders`; the loop's step, window and last monitored step; `file`. `ExploreStep`, `FinishBatch`, `Drain`, `EndOfTasks`, `SaveCheckpoint`, `WatcherSaves`, `Crash`, `Restart` |
| `Proxy` | `ProxyService`, the handlers of `app.py`, the recorder | `running_model_ids`, `model_version_map`, `ready_experiences` as in the service; `consumed` is the column of the recorder's table, `scenario` what a run may meet (row locks, parts that fail, bounds). `AllocateModel` ... `RecordExperience` are a request; `Feedback`, `UpdateReward`, `RecordFeedback`, `TransactionFails`, `RetryFeedback`, `CloseFails` a feedback: SELECT, commit and the extension of the list are steps of their own, and a transaction may fail before its commit or after it; `SubmitExperiences`/`Submitted` are a commit; `CheckModel`, `CheckFails`, `Drained`, `Loaded`, `SyncFails` the weight synchronization |
| `SchedulerProofs`, `ProxyProofs`, `RunnerRetryProofs`, `RolloutCoordinatorProofs`, `ExpQueueProofs`, `CheckpointProofs`, `TaskSetsProofs` | - | theorems about the module they are named for |
| `SynchronizerProofs` | - | theorems about `NcclSync` and `WeightPull`, both of which it extends |
| `MCScheduler`, `MCRunnerRetry`, `MCRolloutCoordinator`, `MCNcclSync`, `MCWeightPull`, `MCCheckpoint`, `MCExpQueue`, `MCTaskSets`, `MCProxy` | - | sets of model values, configurations and symmetry for TLC |

Data are reduced to what the properties distinguish. A task is its batch, its
`schedule` call and its number; a payload is the set of sub tasks or runs in it;
a model is its version; the timers are nondeterministic: a wait with a timeout
may be given up at any poll. The definitions marked as variants or mutants in
the modules (`DrainKeeping`, `PublishAny`, ...) are plausible mistakes that may
take the place of the definition after them to see that a property notices;
no specification uses them.

Where components interact, one module keeps the detail of one side and what it
can see of the other. The coordinator's scheduler is a task that runs, is
cancelled, and ends with or without a cached result, which is what `Scheduler`
allows it to see. `Scheduler` takes `run_with_retry` as one step of a future,
which `RunnerRetry` opens. `WeightPull` takes a save of the trainer as one
step, which `Checkpoint` opens. `NcclSync` and `WeightPull` hold both loops, of
the explorer and of the trainer, next to the synchronizer. `ExpQueue` is shown to
be an `ExpBuffer`, which is all that the loops rely on.

## 3. Runs

Every run is on a small instance; the second column says what it includes.

| Run | Bounds | Shows |
|---|---|---|
| `scheduler_core` | 2 runners, 2 batches (train, eval) of one task of 2 sub tasks, 1 caller, no failures, a gather that waits for callbacks | `NoDoubleBooking`: a runner never has two futures and is never idle while it works; `EmittedOnce` |
| `scheduler_callers` | 1 runner whose actor may die, 1 task of 2 sub tasks, 2 callers that do not take turns, an eager gather (which waits too while a future has not settled), fairness | `NoRunnerLost`, and `DeliveredOnce` for overlapping waits, cleanups and aborts of one batch; the liveness properties `CallsReturn` and `EverySubTaskRuns` |
| `scheduler_faults` | 2 runners, 1 batch id scheduled twice, also while the first use goes on, tasks of one sub task, one stop and start, actors die, replacements fail; both kinds of gather | `ResultsAreCurrent`, `StopQuiesces`, `QuietAfterCleanup` |
| `runner_retry` | sequential and asynchronous, with and without history and partial results; 2 sub tasks with 1 run and 1 retry, 1 with 2 runs and a retry, 2 with 2 runs | `OwnExperiences`, `StatusFitsPayload` |
| `coordinator_batches` | ids train and eval, 2 submissions with reuse, 2 tasks each, 2 callers, tasks that end without result | `FinalizedIsComplete`, `NoOrphans`, `TerminalIsFinal` |
| `coordinator_live` | 1 batch, 2 callers that finalize and abort, pipeline and restart failures, shutdown, fairness | `CallsReturn` |
| `nccl_handshake` | all four styles, each with and without timeouts, 3 train steps, 3 synchronizations, fairness | `Handshake`, `VersionIsLoaded`, `BothReturnToRunning`, `StoppedIsFinal`, `StopIsNoticed` |
| `weights_pull` | 22 configurations: all styles, both methods, offset 0 and 1; two explorers started on their own; an explorer that asks less often than the trainer publishes, and one a whole interval ahead of it. 4 steps, window of 2, 1 timeout, fairness | `CountsAreTrue`, `TagNotAhead`, `OnSchedule`, `PullReturns`, `EveryStepTrained` |
| `checkpoint_saves` | 4 steps, a state dict each step, a checkpoint every second one, 1 or 2 checkpoints kept, one thread or unrestricted, failing saves, 1 crash, fairness | `LoadableUnlessOvertaken`, `CheckpointSurvives`, `PublishedOnlyForward`, `SavedIsAnnounced` |
| `queue_batches` | 3 kinds of queue with room for 1 item, 2 writers, 3 items of 2 experiences, 2 reads of 3, versions 0 and 1, 2 uses, fairness | `FifoOrder`, `NoFreshExperienceLost`, the refinement `BufferSpec`, `EndIsTold` |
| `tasks_resume` | task sets of 2 and 1 samples (shuffled or fixed) and one of 3, batches of 2, 3 epochs, every order of an epoch, 2 crashes, fairness | `ResumesExactly`, `LossIsBounded`, `AllExplored` |
| `proxy_serve` | 2 models of which 1 must stay, 2 requests, one of them streamed, 1 commit, fairness; four scenarios: 2 feedbacks and 1 new version while requests and models (or the loop over them) fail; 1 feedback and 1 version while the database fails; 2 feedbacks while requests and the database fail, with and without row locks | `LabelIsTrue`, `TakenIsKept`, `TakenOnce`, `UpdatesReachAll` |

Why the bounds are enough. Two runners and two batches let a runner of one batch
be affected by the cleanup of the other; two sub tasks give a task that is
partly done, queued and running at once. Two uses of an id are what staleness
takes. Two callers give every overlap of two calls; with one runner there is
always one sub task queued behind it. In the coordinator the second of two
batches is either another type or a second use of the id. In `NcclSync` three
steps let a status left over from one synchronization meet the next and the
one after. In `RunnerRetry` an abandoned call can meet the next attempt and the
next sub task. Four steps in `WeightPull` are two intervals: what one
synchronization leaves behind meets the next, and with a window of two the
oldest step waits while another is in flight. In `Checkpoint` four steps give two
checkpoints with a state dict in between, so that each saver can overtake the
other, the second checkpoint pushes the first one out, and a crash can come at
any point of either. In `ExpQueue` a batch of 3 out of items of 2 always leaves
something in the pool, and a queue with room for 1 is full while the second
writer comes. In `TaskSets` three tasks per epoch and batches of 2 let a batch
straddle epochs and end on one, and two crashes a restart be followed by another.
In `Proxy` one model serves while the other loads, and two feedbacks compete for
one answer; its scenarios let the models fail, or the database, and not both in
one run: all that the records see of a model is whether it answered and with
which version. The bounds on failed calls
(`MaxRetries`), stops, steps, reads, crashes, timeouts and synchronizations are
guards of the actions that count them.

Deadlock is not checked where the cfg says so: those systems come to rest when
nothing is left to do. That calls do not get stuck on the way is what the
liveness properties are for. `runner_retry`, `tasks_resume` and `proxy_serve`
have an explicit final stutter instead, and check deadlock.

### Fairness

* Scheduler: the event loop runs ready callbacks and the scheduler loop; a
  workflow ends (`run_with_retry` bounds its attempts by timeouts, and
  cancellation is forwarded); a replacement actor comes up; a wait ends by its
  timeout. No fairness for callers, and none for a poll that finds only
  `min_num` results, since more may come.
* Coordinator: every wait inside a call ends, cancelled tasks settle.
* NCCL: the synchronizer runs calls that can go on. Nothing is assumed of
  training, exploring or `sync_timeout`, so that a side is noticed to have
  stopped by being told.
* Weights: the two loops go on where they can (rollouts and train steps have
  timeouts or end), the synchronizer answers who was woken, the scan runs.
  `sync_timeout` need never run out.
* Checkpoints: the training loop gets through its saves, threads write, the scan
  polls. Nothing has to train, fail or crash.
* Queue: the event loop of the actor runs coroutines that can go on, cooldowns
  end, the trainer reads. Nobody has to write, and no read has to time out.
* Task sets: the explorer's loop goes on, rollouts end, whoever runs the job
  starts it again after a crash.
* Proxy: the loop that synchronizes weights goes on, and a request ends within
  its timeout. Applications need not do anything.
* Runner: none is needed by what is checked.

## 4. Disagreements seen while modelling

Where the code does something else than it, its comments or its documentation
say, the models follow the code, and the properties name the condition under
which they hold.

Scheduler and runner:

* After a future raised, its runner is restarted in the background while it is
  still in `busy_runners`; a cleanup of the batch restarts it again
  (`scheduler.py:303`). The restart that ends last pops the entry of the *next*
  sub task and offers a working runner as idle. With `ActorFaults = TRUE` and two
  batches, `NoDoubleBooking` is violated; so `scheduler_core` has no dying actors,
  and the property says nothing about them.
* With the eager gather of Python 3.12 the same happens without any failure. If all
  futures of a batch have settled, `_cleanup_batch` goes on in the same turn of the
  loop (`scheduler.py:610`) and restarts their runners, which are still in
  `busy_runners`. The callbacks give them back, the loop books them, and the end
  of the restart pops the new entry (`scheduler.py:295-303`). `NoDoubleBooking` is
  therefore claimed for `~eager_gather` only; so is `ResultsAreCurrent`, since the
  callback of a cancelled future can write into the next use of its batch id, and
  the half of `QuietAfterCleanup` that speaks of callbacks.
* A `stop()` that overlaps with a cleanup leaves the restarts of that cleanup to the
  next `start()`, which makes every runner idle: with `MaxStops = 1` they end in the
  middle of the next booking, and `NoDoubleBooking` is violated.
* `schedule()` may be called under an id that still has work (`scheduler.py:548`
  asks nothing). Its tasks are numbered from 0 again and their results replace
  those of the call before (`Replaced`), which `DeliveredOnce` allows.
* "Fully observed" steps (`trinity_configs.md:476`, `config.py:162`) include steps
  whose tasks were cleared by a timeout, because `task_num_map` is popped before
  it is compared (`scheduler.py:478`).
* `restart_runner` may raise in the background; nobody retrieves the exception
  and the runner stays busy for good (`scheduler.py:293`).
* A run that completed in the same turn of the loop as a cleanup is left out of
  the partial result, whose message calls it cancelled (`scheduler.py:458`).
* A remote call that timed out is abandoned, not cancelled (`scheduler.py:167`). In
  sequential mode with `enable_history` its responses get into the experiences of
  the attempt that follows (`OwnExperiences` excepts this, `SharesHistory`).
* Where partial results are not wanted, a status of failure can come with the
  experiences of an earlier attempt (`scheduler.py:150`).

Coordinator:

* The `TimeoutError` of a finalization comes after the completed results were
  popped (`rollout_coordinator.py:271`). The batch is restored "after a failed
  finalize attempt" (line 300) for a retry that cannot succeed.
* `abort_batch` does not take the lock, so a waiting finalization finalizes an
  aborted batch: with `Aborts = TRUE`, `TerminalIsFinal` is violated. The explorer
  never calls `abort_batch`, and `coordinator_batches` leaves it out.
* With a reused id and an abort, `NoOrphans` and `FinalizedIsComplete` are violated:
  results stay in the cache of an id whose batch is gone. With `RestartFaults` or
  `PipelineFaults`, `FinalizedIsComplete` is: results have been taken from the
  scheduler, or have gone through the pipeline, before a retry counts again.

Synchronization:

* "Two-way handshake" (`synchronizer.md:201`): the trainer may time out after the
  explorer has met it (`synchronizer.py:456`); the explorer enters the collective
  alone, and stays in `REQUIRE_SYNC`.
* In `fully_async` the watcher and the first `sync_weight` of the launcher are two
  callers for one explorer; the second breaks the counts that the assertions at
  `synchronizer.py:192`, `396` and `440` check, after they were changed. A watcher
  call after `STOPPED` makes the count of `REQUIRE_SYNC` negative, and a waiting
  trainer does not notice that the explorer is gone until its timeout.
* `wait_new_model_state_dict` leaves the explorer in `REQUIRE_SYNC` when it times
  out (`synchronizer.py:339`): "the Explorer retries in the next cycle" of the
  documentation fails its assertion instead.
* With `trainer_sync_interval` larger than `sync_interval` of the explorer both
  sides wait for each other until `sync_timeout`.
* With MEMORY the models may get newer weights than the version that was
  answered (`TagNotAhead` is one-sided for that reason). It takes an offset of an
  interval or more, which lets the trainer publish again between the answer and
  the load; `OnSchedule` demands equal numbers below that.
* An explorer started on its own does not wait for a trainer that is not
  prepared. In `fully_async` the first `sync_weight` may wait although the watcher
  has the weights already (`explorer.py:488`).
* An exception ends the explorer's loop without `STOPPED` (`explorer.py:310`).

Checkpoints:

* With `max_checkpoints_to_keep = 1` the old checkpoint is removed before the new
  one is announced; a crash in between starts from nothing. Three properties
  except this value.
* "Checkpoint managers deduplicate saves ... re-saving an already-written component is
  a safe no-op" (`trainer.py:168`): the verl path has no such check
  (`verl/workers.py:448`, `verl/monkey_patch.py:305`). The last save of the trainer,
  and the first one of a job that resumed and ends, write a published checkpoint
  again, in place. A crash meanwhile leaves the only checkpoint that the tracker names
  half written, and an explorer may read it while it is written. `CheckpointSurvives`
  and `LoadableUnlessOvertaken` except this moment (`"rewriting"`), and with it
  a checkpoint that was torn in it.
* `update_latest_state_dict_step` fails an assertion for a step that has been
  overtaken (`verl/trainer.py:123`), in a thread nobody looks at.
* A background save that fails never tells the monitor; with `single_thread` all
  saves after it wait for ever (`Blocked`).
* After a crash the scan and the state-dict tracker are ahead of the trainer.
* A half-written tracker file is retried without the sleep
  (`synchronizer.py:104`).
* The tinker trainer's `save_checkpoint` does not write
  `latest_state_dict_iteration.txt`, although `trainer.py:145` says so.

Queue:

* "No more items will be added" (`queue.py:312`): the delayed put of an item being
  reused comes after `close`.
* `get_batch` returns the empty pool when it times out, and the experiences it had
  collected are gone (`queue.py:399`).
* An explorer may acquire the buffer after the last of the others released and so
  closed it.

Task sets and progress:

* A batch larger than an epoch fails an assertion of the reader
  (`file_reader.py:82`); a torn progress file means a restart from step 0; the
  watcher saves positions ahead of batches in flight (`explorer.py:385`), so that a
  restart skips up to a window of them.

Proxy:

* A request that is on its way to a model does not count as load
  (`service.py:92`), so its answer may be labelled with the version before.
* A model that is not free in time or fails to load never returns
  (`service.py:103`); one that does not answer the version check ends the loop for all
  of them, unnoticed (`service.py:65`); with `engine_num` not above `min_running_model_num` none is
  ever updated; before the loop has filled `model_version_map` a request fails
  with `KeyError` (`service.py:128`).
* SQLite, the default, ignores `FOR UPDATE`: two feedbacks may take one answer
  (`recorder.py:64`).
* A streamed answer reaches the application before it is recorded (`app.py:158`), and a
  feedback that comes too soon misses it.
* A pipeline that raises loses the experiences of that commit
  (`service.py:168`).
* If the database applies the commit of a feedback and the answer is lost, the second
  attempt finds the rows consumed and returns nothing: the experiences are taken and
  never ready (`buffer/utils.py:34-48`). So they are if the session fails to close
  (`buffer/utils.py:32`). `TakenIsKept` counts them with the call that lost them. The
  same loss in `record_history` would insert an answer twice; that is not modelled.

## 5. Proofs

All theorems are about the specification for every value of the constants that
satisfies the named assumption of its module. Each of the proof modules first
proves `TypeCorrect`, that `TypeOK` is invariant; the others rest on it. Every safety
invariant, action property and refinement that a run checks is proved here.

`SchedulerProofs`, for any number of runners, batches, callers and calls. How much
has to be assumed differs from theorem to theorem, and each assumes no more than
it needs:

* `TypeCorrect`, whatever fails and whoever calls. The argument needs only
  `Placement`: a future in flight, or being repaired, has a runner, and a queued
  sub task belongs to a call already made.
* `StopLeavesNothing` (`StopQuiesces`) and `EmittedResultsStand` (`EmittedOnce`), also
  whatever fails, whoever calls, and with either gather. The first is a part of the
  inductive invariant `Custody`: a future in flight is registered with its batch,
  awaited by the cleanup that took it out, or left behind by an eager gather with
  its callback queued (`Registration`); restarts belong to a call that waits for them;
  and what `stop` waits for covers what is in flight: if its gather does not yield,
  the callbacks that are queued run before it comes back from its next await
  (`Stopping`). The second says of every step that it writes the payload only of a
  task it emits, and emits only a task that was not emitted.
* `RunnersNotLost` (`NoRunnerLost`), as long as no restart fails (`~RestartFaults`), with
  dying actors, callers that overlap, stops and either gather. A restart that
  fails does lose its runner. `HeldInv`: for a runner that is not idle, the entry in
  `busy_runners` is in flight or being repaired on it, or a cleanup is restarting it or
  will (`Held`); and a future whose callback will leave the runner to a cleanup is
  awaited by one that restarts (`LeftToCleanup`).
* `CleanupLeavesNothing` (`QuietAfterCleanup`), if callers of one batch take turns
  (`Exclusive`, what `finalize_lock` gives), with actors that die, restarts that
  fail and either gather. `Turns` adds to `Custody` that two calls are on different
  batches, and that a batch being cleaned up has nothing queued or registered.
* `CachedResultsAreCurrent` (`ResultsAreCurrent`), if callers take turns, with failures.
  `ResultInv` adds that all work under a batch id is of its present use, which is what
  a cleanup by another caller in the middle of a call would break, and that what is
  cached was emitted and not yet handed out. That `schedule` finds no work of an
  earlier use when it begins one is not a guard of it: it follows from the definition
  of a use, which lasts as long as `has_step` is true.
* `ResultsDeliveredOnce` (`DeliveredOnce`) under `NoOverlap`: each batch id is used once,
  or callers take turns and gather waits for callbacks.
* `RunnersNotDoubleBooked` (`NoDoubleBooking`) under `Benign`: callers take turns, runner
  actors neither die nor fail to come up, and nobody calls `stop`; and the property
  is about a gather that waits for callbacks. Each of these is needed: TLC finds
  `NoDoubleBooking` violated when any one is dropped.

`NoDoubleBooking` is not inductive: whether a cancelled future may give its runner
back depends on who else will. Its inductive invariant `RunnerInv` has, besides
`Registration` and `Turns`, `Cancellation` (a future being cancelled, or cancelled, is
awaited, and its flag agrees with whether that cleanup restarts runners),
`NoRepairs` (no background restarts), `Bookings` (`busy_runners` and `runner_of` agree;
a busy runner without a future in flight is about to be restarted by a cleanup,
and idle runners have neither) and `Replacements` (a restart belongs to a call that
waits for it, one per runner). Without an eager gather `Registration` is the simpler
`Owned`: in flight is registered or awaited.

`RolloutCoordinatorProofs`:

* `TypeCorrect` in every configuration. `TypeInv` adds that a call that goes on has
  a batch that was submitted, and that what is registered under an id has it.
* while nobody calls `abort_batch` (`~Aborts`), but with every other failure and
  with a shutdown: `NothingOrphaned` (`NoOrphans`) and `OneResult`
  (`TerminalIsFinal`).

The invariant is `LocksFit` (a call past the lock holds it, on an active batch, and
active batches are the ones registered), `WorkFits` (work in the scheduler is of
active batches, what is being cancelled is waited for by a call, and an active
batch with a task running has all its tasks counted in `task_num_map`) and
`CallsFit` (what a call has found out: one that finalizes a complete batch or has
cleaned up leaves nothing running). They need each other: that a drain by id
takes the tasks of one batch only follows from active batches being
registered, and that the finalized batch leaves nothing behind from the counts.
With `abort_batch`, which takes no lock, both are false.

`OnlyProcessedCounts` (`FinalizedIsComplete`) holds for any number of batches, tasks,
callers and ids used again, with tasks that end without a result, under
`NothingFails`: no aborts, no failures of the pipeline and of restarts, and no
shutdown. `ResultsFit` adds to the invariant which results
a batch has lost so far: a call that finds too few has taken them from the
scheduler all the same, so a batch without `min_wait_num` can only be finalized
later if there were none, and one with it has lost none. After a failure in
between, the statement is false (section 4).

`RunnerRetryProofs`: `ExperiencesAreOwn` (`OwnExperiences`) and `StatusIsTrue`
(`StatusFitsPayload`) from `CallsFit` (what the runs of a remote call have recorded
is their own, and in the sequential mode they take turns at the history),
`PayloadFits` (what the wrapper keeps between two attempts comes from one call for
the present sub task) and `ResultsFit` (the same of what it has returned).

`SynchronizerProofs` about the pull of weights, for any set of explorers and any
configuration:

* `TypeCorrect`;
* `TagsNotAhead` (`TagNotAhead`) from `TagsFit`: the synchronizer's version never
  goes back, so an answer is not ahead of what is loaded after it;
* `CountsTrue` (`CountsAreTrue`) from `CountsFit`, which adds that without a watcher
  an explorer has one caller, whose waits are within a start or a
  synchronization of its loop;
* `LockStepOnSchedule` (`OnSchedule`) from `Pace`, which relates the two loops across
  the synchronizer: what is published was due and is not ahead of the trainer
  (`Published`), a pull waits while there is nothing newer than the explorer has
  and is answered by a multiple of the interval (`Pulled`), and the explorer is
  behind the trainer in versions and ahead of it in steps, by no more than the
  interval and the offset (`Paced`). Why the weights are exactly of the announced
  version: between the answer and the load the trainer would need a further
  interval of experiences, and the explorer that is waiting has explored only
  the offset more. With MEMORY this needs an offset below the interval.

The same module about the NCCL handshake, for any number of steps and
synchronizations:

* `HandshakeTypes` (`NcclTypeOK`) in all styles, with timeouts;
* `TrainerStaysStopped`: `StoppedIsFinal` in all styles, with timeouts. It rests on
  `trainer_status = "STOPPED"` implying that the trainer's loop is over, so that
  neither `sync_failed` nor the explorer, which resets only a trainer it found
  in `REQUIRE_SYNC`, can set it back;
* while `Calm` holds (one caller on the explorer's side and no timeouts):
  `ExplorerCounted` (`OneExplorer`, which no run repeats), `TransfersPaired`
  (`Handshake`), `StatusesReturn` (`BothReturnToRunning`) and `VersionsLoaded`
  (`VersionIsLoaded`). The invariant `MeetingInv` gives, for every position of the
  two sides, the status each has at the synchronizer: the side that arrives
  second resets the first, which is why a side that enters the transfer finds
  the other there or waiting with its reset pending. Its part `Versions` says
  which version the synchronizer announces meanwhile. With a timeout, or with
  the watcher as a second caller, the statements are false, see section 4.

`ProxyProofs`, for any number of models, requests and feedbacks:

* `LabelsAreTrue` (`LabelIsTrue`), whatever fails, from `VersionsFit` (what the
  service believes of a model is what it serves, or older while it loads) and
  `LabelsFit`;
* `ExperiencesAreKept` (`TakenIsKept`) and `ExperiencesAreTakenOnce` (`TakenOnce`)
  from `RowsFit` and `RowsHeld` (rows selected by an open transaction are locked by
  it and not yet consumed).

`ExpQueueProofs`, for any number of writers, items, experiences per item, reads,
versions and uses, and for a queue of any capacity:

* `TypeCorrect`;
* `FifoKept` (`FifoOrder`) and `FreshKept` (`NoFreshExperienceLost`);
* `QueueIsBuffer`: the refinement, `Spec => BufferSpec`.

The inductive invariant `IInv` adds to the types: `Refs` (`ref_count` is the number of
pipelines that hold the buffer), `Tidy` (only a read that waits has collected
anything), `Puts` (items are accepted once, and a writer that waits for room has an
item that was not), `Held` (what is queued, cooling, in the pool or handed out comes
from accepted items, and an item is in the queue at most once and not while it
cools), `Uses` (in a priority queue an item has left the queue at most `Limit` times,
and each of its experiences was handed out no more often than that) and `Order` (in
a plain queue: the queue, and the experiences handed out, collected and left in the
pool, taken as one sequence, are in the order of acceptance, all of the latter
before all of the former, and a fresh experience of an accepted item is in one of
them). `FifoOrder` alone is not inductive, because a batch is put together from the
end of one item and the start of the next over several steps; the order of all
stages together is.

The lemmas at the start of the module are about the operators: what a read draws
from the pool (`Drawn`) keeps its order and leaves nothing fresh behind; removing
from and appending to a sequence without duplicates; how often an experience
occurs in a sequence (`Times`). In the refinement an accepted put is a `Write`, a
full batch is a `Read` whose batch function names the places of the batch, the end
that is told is an `End`, and every other step stutters: an eviction and a stale
item lose experiences, which the buffer allows, and the bound on uses is `Uses`.

`CheckpointProofs`, for any number of steps, any intervals, strategies and
retention, with failing saves:

* `OnlyForward` (`PublishedOnlyForward`), `CheckpointIsComplete` (`CheckpointSurvives`) and
  `WeightsAreLoadable` (`LoadableUnlessOvertaken`), with any number of crashes. What the
  last two except, a checkpoint that is written again in place, is a part of the
  properties and needs no assumption.

The invariant `IInv` says how the savers, the monitor, the scan and the files fit
together. `CountsFit`: the counter of the step at hand is what was registered for
it less what is finished, which is why a checkpoint is published before the
trainer retains another. `PathsFit`: `saved_paths` is increasing, and all of it but
the checkpoint being retained is published or overtaken, so what retention removes
is older than a published one. `TrackerFits`: the files say what the monitor knows,
except in a restarted job that has not published anything yet. `JobFits`: a job
never works on a step before the checkpoint that the tracker names, whose directory
is a full one that the scan leaves alone. `CheckpointOnDisk` and `StateDictOnDisk`: what the savers
have left in the directory of each step. `ScanFits`: the scan removes only what is
overtaken. `HeldIsLoadable` carries the property over to the versions that the
synchronizer holds and the explorer loads, which lag behind. As in the properties,
`keep = 1` is excepted, and so is the content of a checkpoint while it is written
again (section 4).

`TaskSetsProofs`, for any task sets, batch size, number of epochs, window and number
of crashes:

* `TypeCorrect`. That no position passes the last epoch needs the positions
  themselves, so the types are inductive only as a part of `Consistent`;
* `ResumesAlways` (`ResumesExactly`). All slots of all epochs in a row are one sequence
  (`Slot`), a batch is the next `Batch` of them, and the position of a task set before
  a step is the number of its slots before the batch (`Index`), a count, so that no
  induction over the batches is needed: `NextIndex` shows by a bijection that the
  count grows by the slots of the task set in the batch, and `SlotsOfTheBatch` that
  the scheduler's slices of one or two epochs are these slots, by division with
  remainder. `InLine` says that a running explorer is at these positions with the
  orders of their epochs in hand, `FileInLine` the same of the state file, whatever
  moment it was saved at, and `ReadInLine` that every batch read for a step is the
  function `ReadAt` of the step. A plain reader at the end of its data is the one
  exception: its position is past the last batch, and nothing is read any more;
* `LossAlways` (`LossIsBounded`). `Stepwise`: the steps up to the last one monitored
  are finished, those up to the present one finished or in flight, so what a save
  after `finish_current_steps` counts is finished. `Watched`: what is in flight is in the
  window, and the steps of earlier lives that nobody explores any more (`Lost`) are
  at most a window and a waiting step for each crash; a save in the middle counts at
  most a window and a waiting step more, which the next crash then pays for. The
  bound is therefore on the crashes and not on the saves or the length of the run.

Only model-checked: liveness (`CallsReturn`, `EverySubTaskRuns`, `StopIsNoticed`,
`PullReturns`, `EveryStepTrained`, `SavedIsAnnounced`, `EndIsTold`, `AllExplored`,
`UpdatesReachAll`), which depends on fairness and `ENABLED`. `NoDoubleBooking` is
claimed by neither runs nor theorems for actors that die or for an eager gather,
since it is false there.

## 6. Plan

1. *Done*: `Scheduler`, `RolloutCoordinator`, `NcclSync`, `RunnerRetry`, `WeightPull`,
   `Checkpoint`, `ExpQueue` with its abstraction `ExpBuffer`, `TaskSets`, `Proxy`,
   their runs, and the proofs of section 5.
2. Proofs left: none of the safety properties of the runs; liveness is out of reach of
   the provers.
3. Models left: the order of `RandomSelector` and `DifficultyBasedSelector`; offsets
   of SQL storage against rows that commit out of order; evaluation steps of the
   explorer next to the training steps; the trainer's sample strategies.

## 7. Not modelled

* Training engines, inference engines, algorithms and rewards: numeric code on top
  of third-party engines, run as sequential calls by the loops that are
  modelled. The trainer's saves are in `Checkpoint`, the history of a model
  wrapper in `RunnerRetry`, the load of a model in `Proxy`.
* Workflows: user-level code over text; one is a run that ends, fails or goes on.
* SQL and file storage: what a read at an offset misses depends on the database.
* The experience operators: a sequential transformation of a list; for the
  coordinator a call that answers or raises.
* The allocator and the placement of models: decided once, at the start.
* Configuration, its validation and its UI, the command line, monitoring and
  viewers: no state another part relies on, beyond the settings that appear as
  constants.

These make up most of the lines of the repository - the engines adapted from
verl, the validators and the workflows alone are more than half of it - which is
why the modelled share is small although the concurrent parts are covered.

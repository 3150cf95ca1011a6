------------------------------ MODULE WeightPull ------------------------------
(***************************************************************************)
(* How explorers and the trainer keep in step with sync_method MEMORY or   *)
(* CHECKPOINT: the two main loops (trinity/explorer/explorer.py,           *)
(* trinity/trainer/trainer.py), the watcher of the fully asynchronous      *)
(* style, and wait_new_model_state_dict with the counts of explorer        *)
(* statuses and the condition variable of the synchronizer                 *)
(* (trinity/manager/synchronizer.py).  A train step takes one finished     *)
(* explore step of every explorer; rollouts, the buffer and the savers     *)
(* have modules of their own.                                              *)
(***************************************************************************)
EXTENDS Integers, FiniteSets, FiniteSetsExt

CONSTANTS
    Explorers,
    MaxStep,     \* explore steps of an explorer, and trainer.total_steps
    MaxInflight, \* max_inflight_batches
    MaxTimeouts, \* waits that may run into sync_timeout
    Settings     \* configurations to choose from

Styles == {"fixed", "trainer_driven", "explorer_driven", "fully_async"}

\* One launcher for both, or one each, the explorers' after the trainer is prepared or
\* at any time.
Launches == {"both", "trainer first", "apart"}

ASSUME WeightPullAssumption ==
    /\ MaxStep \in Nat \ {0} /\ MaxInflight \in Nat \ {0} /\ MaxTimeouts \in Nat
    /\ IsFiniteSet(Explorers)
    /\ Settings \subseteq
         [style : Styles, method : {"memory", "checkpoint"},
          members : (SUBSET Explorers) \ {{}}, launch : Launches,
          explorer_interval : Nat \ {0}, trainer_interval : Nat \ {0},
          offset : Nat, save_interval : Nat]
    /\ \A s \in Settings : s.launch = "both" => Cardinality(s.members) = 1

VARIABLES
    setting,  \* the configuration
    explorer, \* where the loop stands, explore_step_num, last_monitored_step, model_version,
              \* the version the rollout models really hold, and whether the watcher runs
    pull,     \* the calls of _pull_latest_weights by the loop and by the watcher
    trainer,  \* where its loop stands, train_step_num, last_sync_step
    sync,     \* model_version, trainer_status, explorer_status_counts of the synchronizer
    saved,    \* the step in latest_state_dict_iteration.txt
    timeouts

vars == <<setting, explorer, pull, trainer, sync, saved, timeouts>>

Callers == {"loop", "watch"}
Members == setting.members
Async == setting.style = "fully_async"

\* Failed pulls of watchers count RUNNING down for ever; it stops here.
MinRunning == -2

Idle == [at |-> "idle", answer |-> 0]

Init ==
    /\ setting \in Settings
    /\ explorer = [e \in Members |-> [pc |-> "new", step |-> 0, done |-> 0, version |-> -1,
                                      weights |-> 0, watching |-> FALSE]]
    /\ pull = [e \in Members |-> [c \in Callers |-> Idle]]
    /\ trainer = [pc |-> "new", step |-> 0, last_sync |-> 0]
    /\ sync = [version |-> 0, trainer_status |-> "STOPPED",
               RUNNING |-> 0, REQUIRE_SYNC |-> 0, STOPPED |-> 0]
    /\ saved = 0
    /\ timeouts = 0

-----------------------------------------------------------------------------
(* The synchronizer.                                                       *)

\* notify_all of _ready_condition.
Woken ==
    [e \in Members |-> [c \in Callers |->
        IF pull[e][c].at = "wait" THEN [pull[e][c] EXCEPT !.at = "woken"] ELSE pull[e][c]]]

NotifyAll == pull' = Woken

\* set_model_state_dict.
SetModelStateDict(version) == sync' = [sync EXCEPT !.version = version] /\ NotifyAll

\* The answer of wait_new_model_state_dict, with the explorer back in RUNNING; the
\* second form forgets that.
AnsweredStill(s, p) == <<s, [at |-> "load", answer |-> s.version]>>

Answered(s, p) ==
    <<[s EXCEPT !.RUNNING = @ + 1, !.REQUIRE_SYNC = @ - 1], [at |-> "load", answer |-> s.version]>>

\* wait_new_model_state_dict: an assertion or the caller fails; an explorer that is up
\* to date waits, once, for any notification.
WaitNew(e, c) ==
    LET required == [sync EXCEPT !.RUNNING = @ - 1, !.REQUIRE_SYNC = @ + 1]
        result ==
            IF sync.version < explorer[e].version THEN <<sync, [Idle EXCEPT !.at = "failed"]>>
            ELSE IF sync.RUNNING <= 0
            THEN <<[sync EXCEPT !.RUNNING = @ - 1], [Idle EXCEPT !.at = "failed"]>>
            ELSE IF sync.version = explorer[e].version /\ sync.trainer_status # "STOPPED"
            THEN <<required, [Idle EXCEPT !.at = "wait"]>>
            ELSE Answered(required, Idle)
    IN /\ sync' = result[1]
       /\ pull' = [pull EXCEPT ![e][c] = result[2]]

Answer(e, c) ==
    /\ pull[e][c].at = "woken"
    /\ LET result == Answered(sync, pull[e][c])
       IN sync' = result[1] /\ pull' = [pull EXCEPT ![e][c] = result[2]]
    /\ UNCHANGED <<setting, explorer, trainer, saved, timeouts>>

\* The wait runs into sync_timeout, and the explorer stays in REQUIRE_SYNC.
TimeOut(e, c) ==
    /\ pull[e][c].at = "wait"
    /\ timeouts < MaxTimeouts
    /\ timeouts' = timeouts + 1
    /\ pull' = [pull EXCEPT ![e][c].at = "failed"]
    /\ UNCHANGED <<setting, explorer, trainer, sync, saved>>

\* _find_verl_latest_state_dict.
Scan ==
    /\ setting.method = "checkpoint"
    /\ saved > sync.version
    /\ SetModelStateDict(saved)
    /\ UNCHANGED <<setting, explorer, trainer, saved, timeouts>>

-----------------------------------------------------------------------------
(* The explorer.                                                           *)

ExplorerAt(e, pc) == explorer' = [explorer EXCEPT ![e].pc = pc]

Prepare(e) ==
    /\ explorer[e].pc = "new"
    /\ explorer' = [explorer EXCEPT ![e].pc = "start", ![e].watching = Async]
    /\ sync' = [sync EXCEPT !.RUNNING = @ + 1]
    /\ UNCHANGED <<setting, pull, trainer, saved, timeouts>>

\* sync_weight, of the launcher before the loop starts or of the loop.
SyncWeight(e) ==
    /\ pull[e]["loop"].at = "idle"
    /\ \/ explorer[e].pc = "sync"
       \/ explorer[e].pc = "start" /\ (setting.launch # "apart" => trainer.pc # "new")
    /\ WaitNew(e, "loop")
    /\ UNCHANGED <<setting, explorer, trainer, saved, timeouts>>

\* _watch_trainer_sync_signal: get_latest_model_version, and if that is new a pull.
WatchSees(e) ==
    /\ explorer[e].watching /\ pull[e]["watch"].at = "idle"
    /\ sync.version > explorer[e].version
    /\ sync.RUNNING > MinRunning
    /\ pull' = [pull EXCEPT ![e]["watch"].at = "seen"]
    /\ UNCHANGED <<setting, explorer, trainer, sync, saved, timeouts>>

WatchPulls(e) ==
    /\ explorer[e].watching /\ pull[e]["watch"].at = "seen"
    /\ WaitNew(e, "watch")
    /\ UNCHANGED <<setting, explorer, trainer, saved, timeouts>>

Watch(e) == WatchSees(e) \/ WatchPulls(e)

Continue(e, c) ==
    IF c = "loop" THEN "explore" ELSE explorer[e].pc

\* _pull_latest_weights after the answer.  With MEMORY the models fetch what the
\* synchronizer holds by then, with CHECKPOINT the files of the version it answered.
\* The variant skips the first load whatever the answer.
LoadLater(e, c) ==
    /\ pull[e][c].at = "load"
    /\ LET answer == pull[e][c].answer
           known == explorer[e].version
       IN explorer' = [explorer EXCEPT
                         ![e].pc = Continue(e, c),
                         ![e].version = IF answer > known THEN answer ELSE known,
                         ![e].weights = IF answer > known /\ known # -1 THEN answer ELSE @]
    /\ pull' = [pull EXCEPT ![e][c] = Idle]
    /\ UNCHANGED <<setting, trainer, sync, saved, timeouts>>

Load(e, c) ==
    /\ pull[e][c].at = "load"
    /\ LET answer == pull[e][c].answer
           known == explorer[e].version
           held == IF known = -1 /\ answer = 0 THEN explorer[e].weights
                   ELSE IF setting.method = "memory" THEN sync.version ELSE answer
       IN explorer' = [explorer EXCEPT
                         ![e].pc = Continue(e, c),
                         ![e].version = IF answer > known THEN answer ELSE known,
                         ![e].weights = IF answer > known THEN held ELSE @]
    /\ pull' = [pull EXCEPT ![e][c] = Idle]
    /\ UNCHANGED <<setting, trainer, sync, saved, timeouts>>

\* An exception ends the loop, and with it the explorer, without a word to the
\* synchronizer; the watcher logs it and goes on.
Fail(e, c) ==
    /\ pull[e][c].at = "failed"
    /\ pull' = [pull EXCEPT ![e][c] = Idle]
    /\ explorer' = IF c = "watch" THEN explorer
                   ELSE [explorer EXCEPT ![e].pc = "dead", ![e].watching = FALSE]
    /\ UNCHANGED <<setting, trainer, sync, saved, timeouts>>

\* need_sync of the explorer.  The variant is off by one at the offset.
ExplorerNeedsSyncEarly(step) ==
    /\ ~Async
    /\ step >= setting.offset
    /\ (step - setting.offset) % setting.explorer_interval = 0

ExplorerNeedsSync(step) ==
    /\ ~Async
    /\ step > setting.offset
    /\ (step - setting.offset) % setting.explorer_interval = 0

\* explore_step; a full window waits for its oldest batch.
ExploreStep(e) ==
    /\ explorer[e].pc = "explore" /\ explorer[e].step < MaxStep
    /\ LET step == explorer[e].step + 1
       IN explorer' = [explorer EXCEPT
                         ![e].step = step,
                         ![e].done = IF Async /\ explorer[e].step - @ >= MaxInflight
                                     THEN @ + 1 ELSE @,
                         ![e].pc = IF ExplorerNeedsSync(step) THEN "finish" ELSE "explore"]
    /\ UNCHANGED <<setting, pull, trainer, sync, saved, timeouts>>

\* No more tasks.
EndOfTasks(e) ==
    /\ explorer[e].pc = "explore" /\ explorer[e].step = MaxStep
    /\ ExplorerAt(e, "over")
    /\ UNCHANGED <<setting, pull, trainer, sync, saved, timeouts>>

\* finish_current_steps, which hands the experiences to the buffer.
FinishCurrentSteps(e) ==
    /\ explorer[e].pc \in {"finish", "over"} /\ explorer[e].done < explorer[e].step
    /\ explorer' = [explorer EXCEPT ![e].done = @ + 1]
    /\ UNCHANGED <<setting, pull, trainer, sync, saved, timeouts>>

Finished(e) ==
    /\ explorer[e].pc = "finish" /\ explorer[e].done = explorer[e].step
    /\ ExplorerAt(e, "sync")
    /\ UNCHANGED <<setting, pull, trainer, sync, saved, timeouts>>

\* The explorer reports STOPPED, which wakes the others.
Stop(e) ==
    /\ explorer[e].pc = "over" /\ explorer[e].done = explorer[e].step
    /\ explorer' = [explorer EXCEPT ![e].pc = "stopped", ![e].watching = FALSE]
    /\ sync' = [sync EXCEPT !.RUNNING = @ - 1, !.STOPPED = @ + 1]
    /\ NotifyAll
    /\ UNCHANGED <<setting, trainer, saved, timeouts>>

-----------------------------------------------------------------------------
(* The trainer.                                                            *)

TrainerAt(pc) == trainer' = [trainer EXCEPT !.pc = pc]

PrepareTrainer ==
    /\ trainer.pc = "new"
    /\ sync' = [sync EXCEPT !.trainer_status = "RUNNING"]
    /\ TrainerAt("sync")
    /\ UNCHANGED <<setting, explorer, pull, saved, timeouts>>

DueStep == trainer.last_sync # trainer.step /\ trainer.step % setting.trainer_interval = 0

\* need_sync of the trainer.  The variant is one step late.
TrainerNeedsSyncLate ==
    /\ trainer.last_sync # trainer.step
    /\ trainer.step % setting.trainer_interval = 1

TrainerNeedsSync ==
    IF setting.style = "explorer_driven"
    THEN trainer.last_sync # trainer.step /\ sync.REQUIRE_SYNC > 0
    ELSE DueStep

NeedSave == setting.save_interval > 0 /\ trainer.step % setting.save_interval = 0

\* The launcher that starts both waits for the explorer's first sync_weight too.
Training ==
    /\ trainer.pc = "sample"
    /\ setting.launch = "both" => \A e \in Members : explorer[e].pc # "start"

\* While it waits for samples, the trainer looks every second whether it has to sync.
Poll ==
    /\ Training /\ trainer.step < MaxStep
    /\ TrainerNeedsSync
    /\ TrainerAt("sync")
    /\ UNCHANGED <<setting, explorer, pull, sync, saved, timeouts>>

\* notify_no_new_model_state_dict.
NotifyNoNew ==
    /\ Training /\ trainer.step < MaxStep
    /\ setting.style = "explorer_driven" /\ trainer.last_sync = trainer.step
    /\ \E e \in Members, c \in Callers : pull[e][c].at = "wait"
    /\ NotifyAll
    /\ UNCHANGED <<setting, explorer, trainer, sync, saved, timeouts>>

Sampled == MapThenSumSet(LAMBDA e : explorer[e].done, Members)

EnoughSamples == Sampled >= (trainer.step + 1) * Cardinality(Members)

TrainStep ==
    /\ Training /\ trainer.step < MaxStep
    /\ EnoughSamples
    /\ trainer' = [trainer EXCEPT !.step = @ + 1, !.pc = "trained"]
    /\ UNCHANGED <<setting, explorer, pull, sync, saved, timeouts>>

\* After the step: a checkpoint that is due makes up for sync_weight.
AfterTrainStep ==
    /\ trainer.pc = "trained"
    /\ trainer' = IF setting.method = "checkpoint" /\ NeedSave
                  THEN [trainer EXCEPT !.pc = "save",
                                       !.last_sync = IF TrainerNeedsSync THEN trainer.step ELSE @]
                  ELSE [trainer EXCEPT !.pc = IF TrainerNeedsSync THEN "sync" ELSE "sample"]
    /\ UNCHANGED <<setting, explorer, pull, sync, saved, timeouts>>

\* sync_weight: upload_state_dict or save_state_dict, and nothing for step 0.
TrainerSyncWeight ==
    /\ trainer.pc = "sync"
    /\ trainer' = [trainer EXCEPT !.pc = "sample", !.last_sync = trainer.step]
    /\ IF trainer.step > 0 /\ setting.method = "memory"
       THEN SetModelStateDict(trainer.step) ELSE UNCHANGED <<sync, pull>>
    /\ saved' = IF setting.method = "checkpoint" THEN trainer.step ELSE saved
    /\ UNCHANGED <<setting, explorer, timeouts>>

SaveCheckpoint ==
    /\ trainer.pc = "save"
    /\ saved' = trainer.step
    /\ TrainerAt("sample")
    /\ UNCHANGED <<setting, explorer, pull, sync, timeouts>>

NoMoreSamples ==
    ~EnoughSamples /\ \A e \in Members : explorer[e].pc \in {"stopped", "dead"}

\* The last step, or the reader of the buffer gives up: a last checkpoint, and STOPPED.
\* The variant wakes nobody.
StopQuietly ==
    /\ Training /\ (trainer.step = MaxStep \/ NoMoreSamples)
    /\ TrainerAt("stopped")
    /\ sync' = [sync EXCEPT !.trainer_status = "STOPPED"]
    /\ UNCHANGED <<setting, explorer, pull, saved, timeouts>>

StopTraining ==
    /\ Training /\ (trainer.step = MaxStep \/ NoMoreSamples)
    /\ TrainerAt("stopped")
    /\ saved' = IF setting.method = "checkpoint" THEN trainer.step ELSE saved
    /\ sync' = [sync EXCEPT !.trainer_status = "STOPPED"]
    /\ NotifyAll
    /\ UNCHANGED <<setting, explorer, timeouts>>

-----------------------------------------------------------------------------
TrainerStep ==
    \/ PrepareTrainer \/ Poll \/ NotifyNoNew \/ TrainStep \/ AfterTrainStep
    \/ TrainerSyncWeight \/ SaveCheckpoint \/ StopTraining

LoopStep(e) ==
    \/ Prepare(e) \/ SyncWeight(e) \/ ExploreStep(e) \/ EndOfTasks(e)
    \/ FinishCurrentSteps(e) \/ Finished(e) \/ Stop(e)

PullStep(e, c) == Answer(e, c) \/ Load(e, c) \/ Fail(e, c)

Next ==
    \/ TrainerStep \/ Scan
    \/ \E e \in Members :
        \/ LoopStep(e) \/ Watch(e)
        \/ \E c \in Callers : PullStep(e, c) \/ TimeOut(e, c)

\* The loops, the watcher and the scan go on; nothing has to time out.
Fairness ==
    /\ WF_vars(TrainerStep) /\ WF_vars(Scan)
    /\ \A e \in Explorers :
        /\ WF_vars(e \in Members /\ LoopStep(e)) /\ WF_vars(e \in Members /\ Watch(e))
        /\ \A c \in Callers : WF_vars(e \in Members /\ PullStep(e, c))

Spec == Init /\ [][Next]_vars /\ Fairness

-----------------------------------------------------------------------------
(* Properties.                                                             *)

ExplorerState ==
    [pc : {"new", "start", "explore", "finish", "sync", "over", "stopped", "dead"},
     step : 0 .. MaxStep, done : 0 .. MaxStep, version : -1 .. MaxStep, weights : 0 .. MaxStep,
     watching : BOOLEAN]

PullState == [at : {"idle", "seen", "wait", "woken", "load", "failed"}, answer : 0 .. MaxStep]

TrainerState ==
    [pc : {"new", "sync", "sample", "trained", "save", "stopped"},
     step : 0 .. MaxStep, last_sync : 0 .. MaxStep]

SyncState ==
    [version : 0 .. MaxStep, trainer_status : {"RUNNING", "STOPPED"},
     RUNNING : Int, REQUIRE_SYNC : Int, STOPPED : Int]

TypeOK ==
    /\ setting \in Settings
    /\ explorer \in [Members -> ExplorerState]
    /\ \A e \in Members : explorer[e].done <= explorer[e].step
    /\ pull \in [Members -> [Callers -> PullState]]
    /\ trainer \in TrainerState
    /\ sync \in SyncState
    /\ saved \in 0 .. MaxStep
    /\ timeouts \in 0 .. MaxTimeouts

Waiting(e) == e \in Members /\ \E c \in Callers : pull[e][c].at \in {"wait", "woken"}

\* The counts by which the trainer decides whether to sync are those of the explorers:
\* as many in REQUIRE_SYNC as wait for weights, until one has run into a timeout.
CountsAreTrue ==
    timeouts = 0 /\ ~Async =>
        /\ sync.REQUIRE_SYNC = Cardinality({e \in Members : Waiting(e)})
        /\ sync.STOPPED = Cardinality({e \in Members : explorer[e].pc = "stopped"})
        /\ sync.RUNNING = Cardinality({e \in Members : explorer[e].pc \notin {"new", "stopped"}
                                                      /\ ~Waiting(e)})

\* The version an explorer tags experiences with is never newer than the weights of its
\* models, although a pull hands over whatever the synchronizer holds by then.
TagNotAhead ==
    \A e \in Members : explorer[e].version <= explorer[e].weights \/ explorer[e].version = -1

\* An explorer and a trainer started together with the same interval n in lock step:
\* the explorer tags its experiences only with train steps that are multiples of n, at
\* most n plus the offset behind it, and its models hold just those weights.  With no
\* offset that is on policy: the explore steps k * n + 1 .. k * n + n all run with the
\* weights of train step k * n.  (Started apart, the explorer does not wait for a trainer
\* that is not prepared yet, and a checkpoint saved between two syncs is taken for the
\* next one.  An offset of n or more lets the trainer publish again between the answer
\* and the load, and with MEMORY the models then hold newer weights than the tag says.)
LockStep ==
    /\ setting.style \in {"fixed", "trainer_driven"}
    /\ setting.explorer_interval = setting.trainer_interval
    /\ setting.method = "checkpoint" => setting.save_interval % setting.trainer_interval = 0
    /\ setting.launch = "both"

OnSchedule ==
    LockStep /\ trainer.pc # "stopped" =>
        \A e \in Members : explorer[e].pc \in {"explore", "finish"} =>
            /\ explorer[e].version % setting.trainer_interval = 0
            /\ setting.method = "checkpoint" \/ setting.offset < setting.trainer_interval
                 => explorer[e].weights = explorer[e].version
            /\ explorer[e].step - explorer[e].version
                 \in 0 .. setting.trainer_interval + setting.offset

\* The trainer is to publish at least as often as an explorer is to ask, and no explorer
\* gets ahead of the others because it starts before the trainer is prepared.
Timely ==
    /\ ~Async /\ setting.trainer_interval <= setting.explorer_interval
    /\ setting.launch # "apart" \/ setting.style = "explorer_driven"

\* Then no explorer waits for weights for ever, whatever the style and whoever stops
\* first.
PullReturns == \A e \in Explorers :
    Timely /\ Waiting(e) ~> ~Waiting(e) \/ timeouts > 0

\* The explorers wait for weights and the trainer for experiences, but never for each
\* other: every train step is taken.
EveryStepTrained == Timely ~> trainer.step = MaxStep \/ timeouts > 0

===============================================================================

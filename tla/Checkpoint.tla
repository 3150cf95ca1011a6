------------------------------ MODULE Checkpoint ------------------------------
(***************************************************************************)
(* How the weights get from the trainer to disk and from there to the      *)
(* explorer, with sync_method CHECKPOINT and the verl trainer: the savers  *)
(* of trinity/trainer/verl (trainer.py, workers.py, checkpoint.py), the    *)
(* CheckpointMonitor that publishes a step in a tracker file when it is    *)
(* saved, the scan of the tracker by the synchronizer, which removes what  *)
(* it does not need any more, the loading of a step by the explorer, and a *)
(* crash of the whole job, after which only the files are left.            *)
(***************************************************************************)
EXTENDS Integers, Sequences

CONSTANTS
    MaxStep,      \* trainer.total_steps
    SaveInterval, \* save_interval
    SyncInterval, \* trainer_sync_interval
    Keeps,        \* values of max_checkpoints_to_keep; 0 keeps all
    Strategies,   \* values of save_strategy
    MaxCrashes,
    Failures      \* TRUE: a background save may fail

ASSUME CheckpointAssumption ==
    /\ MaxStep \in Nat \ {0} /\ SaveInterval \in Nat \ {0} /\ SyncInterval \in Nat \ {0}
    /\ Keeps \subseteq Nat /\ MaxCrashes \in Nat /\ Failures \in BOOLEAN
    /\ Strategies \subseteq {"single_thread", "single_process", "unrestricted"}

VARIABLES
    keep, strategy, \* the configuration of this job
    trainer,        \* where its loop stands, global_steps, and whether the loop is over
    thread,         \* the background save of a state dict
    monitor,        \* the actor CheckpointMonitor
    tracker,        \* latest_checkpointed_iteration.txt and latest_state_dict_iteration.txt
    dir,            \* step -> what global_step_<step> holds
    saved_paths,    \* _saved_checkpoint_paths
    scan,           \* the synchronizer: model_version, and a version it is to remove
    explorer,       \* the version it holds, and the one it loads; 0 is none
    crashes

config == <<keep, strategy>>
vars == <<config, trainer, thread, monitor, tracker, dir, saved_paths, scan, explorer, crashes>>

Step == 1 .. MaxStep
Empty == [state_dict |-> FALSE, checkpoint |-> "none", full |-> FALSE]

\* Something in it: os.path.exists.
Exists(s) == s \in Step /\ dir[s] # Empty

\* load_state_dict takes model.safetensors, or else the shards of a checkpoint.
Readable(s) == s \in Step /\ (dir[s].state_dict \/ dir[s].checkpoint = "complete")

NoThread == [pc |-> "none", step |-> 0]
NewMonitor ==
    [counter |-> [s \in Step |-> 0], state_dict_steps |-> {}, checkpoint_steps |-> {},
     latest_checkpoint |-> 0, latest_state_dict |-> 0, saving_count |-> 0]

Init ==
    /\ keep \in Keeps /\ strategy \in Strategies
    /\ trainer = [pc |-> "train", step |-> 0, over |-> FALSE]
    /\ thread = NoThread
    /\ monitor = NewMonitor
    /\ tracker = [checkpoint |-> 0, state_dict |-> 0]
    /\ dir = [s \in Step |-> Empty]
    /\ saved_paths = <<>>
    /\ scan = [version |-> 0, remove |-> 0]
    /\ explorer = [version |-> 0, loading |-> 0]
    /\ crashes = 0

-----------------------------------------------------------------------------
(* CheckpointMonitor.  Its methods act on the pair of its state and the    *)
(* tracker files.                                                          *)

\* update_latest_state_dict_step: an older step fails its assertion.  The variant
\* publishes it.
PublishAny(m, t, s) ==
    <<[m EXCEPT !.latest_state_dict = s], [t EXCEPT !.state_dict = s]>>

PublishStateDict(m, t, s) ==
    IF s > m.latest_state_dict
    THEN <<[m EXCEPT !.latest_state_dict = s], [t EXCEPT !.state_dict = s]>>
    ELSE <<m, t>>

\* update_latest_checkpoint_step publishes both.
PublishCheckpoint(m, t, s) ==
    IF s > m.latest_checkpoint
    THEN PublishStateDict([m EXCEPT !.latest_checkpoint = s], [t EXCEPT !.checkpoint = s], s)
    ELSE <<m, t>>

MonitorDoes(result) == monitor' = result[1] /\ tracker' = result[2]

\* register_thread_count.
Registered(m, s) == [m EXCEPT !.counter[s] = @ + 1]

\* monitor_step, after the trainer dispatched its saves.  One variant does not wait
\* for the savers, one forgets those that have finished.
MonitorStepNow(s, is_state_dict) ==
    MonitorDoes(IF is_state_dict THEN PublishStateDict(monitor, tracker, s)
                                 ELSE PublishCheckpoint(monitor, tracker, s))

MonitorStepOnly(s, is_state_dict) ==
    /\ monitor' = IF is_state_dict
                  THEN [monitor EXCEPT !.state_dict_steps = @ \cup {s}]
                  ELSE [monitor EXCEPT !.checkpoint_steps = @ \cup {s}]
    /\ UNCHANGED tracker

MonitorStep(s, is_state_dict) ==
    LET m == IF is_state_dict
             THEN [monitor EXCEPT !.state_dict_steps = @ \cup {s}]
             ELSE [monitor EXCEPT !.checkpoint_steps = @ \cup {s}]
    IN MonitorDoes(IF m.counter[s] # 0 THEN <<m, tracker>>
                   ELSE IF is_state_dict THEN PublishStateDict(m, tracker, s)
                   ELSE PublishCheckpoint(m, tracker, s))

\* notify_started makes a saver wait while another thread saves, if the strategy
\* wants that.
MayStart == strategy = "single_thread" => monitor.saving_count <= 0

NotifyStarted ==
    /\ MayStart
    /\ monitor' = IF strategy = "unrestricted" THEN monitor
                  ELSE [monitor EXCEPT !.saving_count = @ + 1]

\* notify_finished, which may come before the step is registered; a step older than
\* the one published fails its assertion.
NotifyFinished(s) ==
    LET m == [monitor EXCEPT !.saving_count = @ - 1, !.counter[s] = @ - 1]
        published == PublishStateDict(m, tracker, s)
    IN MonitorDoes(IF s \notin m.state_dict_steps \cup m.checkpoint_steps \/ m.counter[s] # 0
                   THEN <<m, tracker>>
                   ELSE IF s \in m.checkpoint_steps /\ s >= m.latest_state_dict
                   THEN PublishCheckpoint(published[1], published[2], s)
                   ELSE published)

-----------------------------------------------------------------------------
(* The training loop and its saves.                                        *)

TrainerAt(pc) == trainer' = [trainer EXCEPT !.pc = pc]

\* A train step, and what is due after it: save_checkpoint makes up for
\* save_state_dict.
TrainStep ==
    /\ trainer.pc = "train" /\ ~trainer.over /\ trainer.step < MaxStep
    /\ LET step == trainer.step + 1
       IN trainer' = [trainer EXCEPT
                        !.step = step,
                        !.pc = IF step % SaveInterval = 0 THEN "checkpoint"
                               ELSE IF step % SyncInterval = 0 THEN "state_dict"
                               ELSE "train"]
    /\ UNCHANGED <<config, thread, monitor, tracker, dir, saved_paths, scan, explorer, crashes>>

\* No more samples, or the last step: the loop ends with one more checkpoint; that of
\* step 0 is never published.
EndLoop ==
    /\ trainer.pc = "train" /\ ~trainer.over
    /\ trainer' = [trainer EXCEPT !.over = TRUE,
                                  !.pc = IF trainer.step = 0 THEN "stopped" ELSE "checkpoint"]
    /\ UNCHANGED <<config, thread, monitor, tracker, dir, saved_paths, scan, explorer, crashes>>

\* save_state_dict of the worker: the weights go to a temporary file, and a thread
\* is to rename it, once the one before is done.
SaveStateDict ==
    /\ trainer.pc = "state_dict"
    /\ thread.pc \in {"none", "done", "failed"}
    /\ thread' = [pc |-> "start", step |-> trainer.step]
    /\ TrainerAt("register")
    /\ UNCHANGED <<config, monitor, tracker, dir, saved_paths, scan, explorer, crashes>>

\* register_and_monitor after save_state_dict.
RegisterStateDict ==
    /\ trainer.pc = "register"
    /\ monitor' = Registered(monitor, trainer.step)
    /\ TrainerAt("monitor")
    /\ UNCHANGED <<config, thread, tracker, dir, saved_paths, scan, explorer, crashes>>

MonitorStateDict ==
    /\ trainer.pc = "monitor"
    /\ MonitorStep(trainer.step, TRUE)
    /\ TrainerAt("train")
    /\ UNCHANGED <<config, thread, dir, saved_paths, scan, explorer, crashes>>

\* save_checkpoint: the flag of a full checkpoint first, then the worker.
SaveCheckpoint ==
    /\ trainer.pc = "checkpoint"
    /\ dir' = [dir EXCEPT ![trainer.step].full = TRUE]
    /\ TrainerAt("start")
    /\ UNCHANGED <<config, thread, monitor, tracker, saved_paths, scan, explorer, crashes>>

\* The engine writes the checkpoint whether or not the step has been saved before:
\* what was complete is overwritten in place.
CheckpointStarts ==
    /\ trainer.pc = "start"
    /\ NotifyStarted
    /\ dir' = [dir EXCEPT ![trainer.step].checkpoint =
                  IF @ \in {"complete", "rewriting"} THEN "rewriting" ELSE "partial"]
    /\ TrainerAt("write")
    /\ UNCHANGED <<config, thread, tracker, saved_paths, scan, explorer, crashes>>

CheckpointWritten ==
    /\ trainer.pc = "write"
    /\ dir' = [dir EXCEPT ![trainer.step].checkpoint = "complete"]
    /\ NotifyFinished(trainer.step)
    /\ TrainerAt("retain")
    /\ UNCHANGED <<config, thread, saved_paths, scan, explorer, crashes>>

\* _retain_checkpoints removes the oldest checkpoints beyond the limit.
RetainCheckpoints ==
    /\ trainer.pc = "retain"
    /\ LET paths == IF saved_paths # <<>> /\ saved_paths[Len(saved_paths)] = trainer.step
                    THEN saved_paths ELSE Append(saved_paths, trainer.step)
           surplus == IF keep > 0 /\ Len(paths) > keep THEN Len(paths) - keep ELSE 0
       IN /\ saved_paths' = SubSeq(paths, surplus + 1, Len(paths))
          /\ dir' = [s \in Step |-> IF \E n \in 1 .. surplus : paths[n] = s THEN Empty ELSE dir[s]]
    /\ TrainerAt("register_checkpoint")
    /\ UNCHANGED <<config, thread, monitor, tracker, scan, explorer, crashes>>

RegisterCheckpoint ==
    /\ trainer.pc = "register_checkpoint"
    /\ monitor' = Registered(monitor, trainer.step)
    /\ TrainerAt("monitor_checkpoint")
    /\ UNCHANGED <<config, thread, tracker, dir, saved_paths, scan, explorer, crashes>>

MonitorCheckpoint ==
    /\ trainer.pc = "monitor_checkpoint"
    /\ MonitorStep(trainer.step, FALSE)
    /\ TrainerAt(IF trainer.over \/ trainer.step = MaxStep THEN "block" ELSE "train")
    /\ UNCHANGED <<config, thread, dir, saved_paths, scan, explorer, crashes>>

\* wait_for_save joins the thread; the last save also ends the trainer.
WaitForSave ==
    /\ trainer.pc = "block"
    /\ thread.pc \in {"none", "done", "failed"}
    /\ TrainerAt(IF trainer.over THEN "stopped" ELSE "train")
    /\ UNCHANGED <<config, thread, monitor, tracker, dir, saved_paths, scan, explorer, crashes>>

-----------------------------------------------------------------------------
(* The thread of CheckpointCoordinator.save_async.                         *)

ThreadStarts ==
    /\ thread.pc = "start"
    /\ NotifyStarted
    /\ thread' = [thread EXCEPT !.pc = "rename"]
    /\ UNCHANGED <<config, trainer, tracker, dir, saved_paths, scan, explorer, crashes>>

\* fsync and os.replace.
ThreadRenames ==
    /\ thread.pc = "rename"
    /\ dir' = [dir EXCEPT ![thread.step].state_dict = TRUE]
    /\ thread' = [thread EXCEPT !.pc = "finish"]
    /\ UNCHANGED <<config, trainer, monitor, tracker, saved_paths, scan, explorer, crashes>>

ThreadFinishes ==
    /\ thread.pc = "finish"
    /\ NotifyFinished(thread.step)
    /\ thread' = [thread EXCEPT !.pc = "done"]
    /\ UNCHANGED <<config, trainer, dir, saved_paths, scan, explorer, crashes>>

\* The failure is logged, and the monitor does not learn of it.
ThreadFails ==
    /\ Failures
    /\ thread.pc = "rename"
    /\ thread' = [thread EXCEPT !.pc = "failed"]
    /\ UNCHANGED <<config, trainer, monitor, tracker, dir, saved_paths, scan, explorer, crashes>>

-----------------------------------------------------------------------------
(* The synchronizer and the explorer.                                      *)

\* _find_verl_latest_state_dict.
ScanFinds ==
    /\ scan.remove = 0
    /\ tracker.state_dict > scan.version
    /\ scan' = [version |-> tracker.state_dict, remove |-> scan.version]
    /\ UNCHANGED <<config, trainer, thread, monitor, tracker, dir, saved_paths, explorer, crashes>>

\* _remove_previous_state_dict leaves full checkpoints alone.  The variant does not.
RemoveAny ==
    /\ scan.remove # 0
    /\ dir' = [dir EXCEPT ![scan.remove] = Empty]
    /\ scan' = [scan EXCEPT !.remove = 0]
    /\ UNCHANGED <<config, trainer, thread, monitor, tracker, saved_paths, explorer, crashes>>

ScanRemoves ==
    /\ scan.remove # 0
    /\ dir' = IF dir[scan.remove].full THEN dir ELSE [dir EXCEPT ![scan.remove] = Empty]
    /\ scan' = [scan EXCEPT !.remove = 0]
    /\ UNCHANGED <<config, trainer, thread, monitor, tracker, saved_paths, explorer, crashes>>

\* sync_model_weights of the version that the synchronizer answered.
LoadStarts ==
    /\ explorer.loading = 0 /\ scan.version > explorer.version
    /\ explorer' = [explorer EXCEPT !.loading = scan.version]
    /\ UNCHANGED <<config, trainer, thread, monitor, tracker, dir, saved_paths, scan, crashes>>

LoadEnds ==
    /\ explorer.loading # 0 /\ Readable(explorer.loading)
    /\ explorer' = [version |-> explorer.loading, loading |-> 0]
    /\ UNCHANGED <<config, trainer, thread, monitor, tracker, dir, saved_paths, scan, crashes>>

-----------------------------------------------------------------------------
\* The job dies at any point and is started again: _load_checkpoint takes the step
\* of the tracker file if its directory is there.
Crash ==
    /\ crashes < MaxCrashes
    /\ crashes' = crashes + 1
    /\ trainer' = [pc |-> "train", over |-> FALSE,
                   step |-> IF Exists(tracker.checkpoint) THEN tracker.checkpoint ELSE 0]
    /\ thread' = NoThread
    /\ monitor' = NewMonitor
    /\ saved_paths' = <<>>
    /\ scan' = [version |-> 0, remove |-> 0]
    /\ explorer' = [version |-> 0, loading |-> 0]
    /\ UNCHANGED <<config, tracker, dir>>

TrainerStep ==
    \/ SaveStateDict \/ RegisterStateDict \/ MonitorStateDict
    \/ SaveCheckpoint \/ CheckpointStarts \/ CheckpointWritten \/ RetainCheckpoints
    \/ RegisterCheckpoint \/ MonitorCheckpoint \/ WaitForSave

ThreadStep == ThreadStarts \/ ThreadRenames \/ ThreadFinishes

Next ==
    \/ TrainStep \/ EndLoop \/ TrainerStep
    \/ ThreadStep \/ ThreadFails
    \/ ScanFinds \/ ScanRemoves \/ LoadStarts \/ LoadEnds
    \/ Crash

\* Saves and scans go on while the job lives; nothing has to train, fail or crash.
Fairness ==
    WF_vars(TrainerStep) /\ WF_vars(ThreadStep) /\ WF_vars(ScanFinds) /\ WF_vars(ScanRemoves)

Spec == Init /\ [][Next]_vars /\ Fairness

-----------------------------------------------------------------------------
(* Properties.                                                             *)

TrainerState ==
    [pc : {"train", "state_dict", "register", "monitor", "checkpoint", "start", "write",
           "retain", "register_checkpoint", "monitor_checkpoint", "block", "stopped"},
     step : 0 .. MaxStep, over : BOOLEAN]
ThreadState ==
    [pc : {"none", "start", "rename", "finish", "done", "failed"}, step : 0 .. MaxStep]
MonitorState ==
    [counter : [Step -> Int], state_dict_steps : SUBSET Step, checkpoint_steps : SUBSET Step,
     latest_checkpoint : 0 .. MaxStep, latest_state_dict : 0 .. MaxStep, saving_count : Int]
TrackerState == [checkpoint : 0 .. MaxStep, state_dict : 0 .. MaxStep]
DirState == [state_dict : BOOLEAN, checkpoint : {"none", "partial", "complete", "rewriting"},
             full : BOOLEAN]

TypeOK ==
    /\ keep \in Keeps /\ strategy \in Strategies
    /\ trainer \in TrainerState
    /\ thread \in ThreadState
    /\ monitor \in MonitorState
    /\ tracker \in TrackerState
    /\ dir \in [Step -> DirState]
    /\ saved_paths \in Seq(Step)
    /\ scan \in [version : 0 .. MaxStep, remove : 0 .. MaxStep]
    /\ explorer \in [version : 0 .. MaxStep, loading : 0 .. MaxStep]
    /\ crashes \in 0 .. MaxCrashes

\* A published step is never taken back: savers that finish late, and a checkpoint that
\* overtakes a state dict, do not send the explorer to older weights or the restart to
\* an older checkpoint.  Only the first state dict that a restarted job publishes may
\* be older than what the job before it published.  (With one checkpoint to keep, the
\* published one is removed before the next is published, and a job that dies in
\* between starts from scratch.)
PublishedOnlyForward ==
    [][/\ keep # 1 => tracker'.checkpoint >= tracker.checkpoint
       /\ tracker'.state_dict < tracker.state_dict =>
             crashes > 0 /\ monitor.latest_state_dict = 0]_vars

\* The weights an explorer loads are complete on disk, whichever of the two savers
\* announced them, unless the trainer published newer ones after the load started, or
\* writes the complete checkpoint that the load reads once more.
LoadableUnlessOvertaken ==
    explorer.loading # 0 /\ keep # 1 =>
        \/ Readable(explorer.loading)
        \/ tracker.state_dict > explorer.loading
        \/ dir[explorer.loading].checkpoint = "rewriting"

\* The checkpoint a restart would resume from has been written to its end and is still
\* there, whatever the retention, the synchronizer's clean-up and the savers have done.
\* It may be in the middle of being written again: the last save, and the first one
\* after a resume, overwrite what is published, and a crash can leave it torn.
CheckpointSurvives ==
    tracker.checkpoint # 0 /\ keep # 1 =>
        dir[tracker.checkpoint].checkpoint \in {"complete", "rewriting"}

\* A saver that failed never told the monitor, and with single_thread the next ones
\* wait for it for ever.
Blocked ==
    /\ strategy = "single_thread" /\ monitor.saving_count > 0
    /\ thread.pc \notin {"rename", "finish"} /\ trainer.pc # "write"

\* What the trainer saves for the explorer reaches the synchronizer, unless the save or
\* one before it fails, or the job dies.
SavedIsAnnounced ==
    \A s \in Step :
        trainer.pc = "monitor" /\ trainer.step = s /\ crashes = 0 ~>
            scan.version >= s \/ thread.pc = "failed" \/ Blocked \/ crashes > 0

===============================================================================

------------------------------- MODULE TaskSets -------------------------------
(***************************************************************************)
(* Where the tasks of a run come from, and what of that survives a         *)
(* restart: trinity/buffer/task_scheduler.py over the readers and          *)
(* selectors of trinity/buffer/, the explorer that reads one batch per     *)
(* step, and the file in which trinity/manager/state_manager.py keeps its  *)
(* progress.  The pseudo-random generators are seeded with an epoch, so    *)
(* what they yield is a function of the epoch, fixed for a run.            *)
(***************************************************************************)
EXTENDS Integers, Sequences, SequencesExt, FiniteSets, FiniteSetsExt, Functions

CONSTANTS
    Setups,       \* style, task sets, and what the generators yield: see IsSetup
    Batch,        \* buffer.batch_size
    Epochs,       \* buffer.total_epochs
    SyncInterval,
    MaxInflight,  \* explorer.max_inflight_batches
    MaxCrashes    \* bound on the crashes of a run

OrdersOfSamples(n) == Bijection(1 .. n, 0 .. n - 1)

Times(order, t) == Cardinality({i \in DOMAIN order : order[i] = t})

\* style "stepwise": every save of the explorer follows finish_current_steps; "watched": its
\* watcher task saves too (fully_async).  kinds[t]: "plain" without a selector, "fixed" for a
\* selector with one order for every epoch (sequential, easy to hard), "shuffled".  plan[e]:
\* the task sets in the order of epoch e; picks[t][e]: the samples of t in its epoch e.
IsSetup(s) ==
    /\ s.style \in {"stepwise", "watched"}
    /\ s.sizes \in Seq(Nat \ {0}) /\ Batch <= Len(s.plan[0])
    /\ \A e \in 0 .. Epochs :
        /\ s.plan[e] \in Seq(DOMAIN s.sizes)
        /\ Len(s.plan[e]) = SumFunction(s.sizes)
    /\ \A t \in DOMAIN s.sizes :
        /\ s.kinds[t] = "plain" => DOMAIN s.sizes = {t}
        /\ \A e \in 0 .. Epochs :
            /\ s.picks[t][e] \in OrdersOfSamples(s.sizes[t])
            /\ s.kinds[t] # "shuffled" => s.picks[t][e] = s.picks[t][0]
            /\ Times(s.plan[e], t) = s.sizes[t]

ASSUME TaskSetsAssumption ==
    /\ Batch \in Nat \ {0} /\ Epochs \in Nat \ {0} /\ SyncInterval \in Nat \ {0}
    /\ MaxInflight \in Nat \ {0} /\ MaxCrashes \in Nat
    /\ \A s \in Setups : IsSetup(s)

VARIABLES
    setup,
    explore_step_num, \* of the explorer, which is the step of the scheduler as well
    epoch,
    orders,    \* of the scheduler: task set ids of the current epoch
    current_index, \* of each selector, or the offset of a plain reader
    cached,    \* of each shuffling selector: its order of the current epoch
    pc,        \* "explore", "drain", "sync", "ending", "stopped" or "down"
    inflight,  \* steps whose batch the coordinator runs
    window,    \* _inflight_train_steps
    last_monitored_step,
    file,      \* what the explorer's state file loads as
    crashes,
    finished,  \* steps whose rollouts finished, in any life of the explorer
    reads      \* step -> the batches that were read for it, in any life

schedulerVars == <<epoch, orders, current_index, cached>>
loopVars == <<explore_step_num, pc, inflight, window, last_monitored_step>>
vars == <<setup, schedulerVars, loopVars, file, crashes, finished, reads>>

Tasksets == DOMAIN setup.sizes
Total == Len(setup.plan[0])
Plain == setup.kinds[1] = "plain"
MaxSteps == (Epochs * Total) \div Batch

--------------------------------------------------------------------------------
(* Readers and selectors. *)

OrderAt(t, index) == setup.picks[t][index \div setup.sizes[t]]

\* get_indices: the samples of the next count positions; a shuffling selector has its order
\* of the epoch in hand and builds the next one when it reaches the end.
GetIndices(t, count) ==
    LET size == setup.sizes[t]
        start == current_index[t] % size
        next == OrderAt(t, current_index[t] + count)
    IN [i \in 1 .. count |->
          IF start + i <= size THEN cached[t][start + i] ELSE next[start + i - size]]

OrdersAfter(t, count) ==
    IF (current_index[t] % setup.sizes[t]) + count >= setup.sizes[t]
    THEN OrderAt(t, current_index[t] + count)
    ELSE cached[t]

--------------------------------------------------------------------------------
(* The scheduler. *)

\* Slots of the next batch: a batch may run over into the next epoch.
Start == (explore_step_num * Batch) % Total
Turns == Start + Batch >= Total

TasksetIds ==
    [i \in 1 .. Batch |->
        IF Start + i <= Total THEN orders[Start + i] ELSE setup.plan[epoch + 1][Start + i - Total]]

\* The tasks of a batch, grouped by task set in the order of their first slots.
TasksOf(ids, samples) ==
    LET Tasks(t) == [i \in 1 .. Times(ids, t) |-> <<t, samples[t][i]>>]
        First(t) == Min({i \in DOMAIN ids : ids[i] = t})
    IN FoldLeft(LAMBDA tasks, t : tasks \o Tasks(t), <<>>,
                SetToSortSeq(Range(ids), LAMBDA t, u : First(t) < First(u)))

BatchRead ==
    TasksOf(TasksetIds, [t \in Range(TasksetIds) |-> GetIndices(t, Times(TasksetIds, t))])

\* Mutant: one step too early.
ShouldStopEarly == IF Plain THEN current_index[1] + Batch >= Total * Epochs
                            ELSE explore_step_num + 1 >= MaxSteps

ShouldStop == IF Plain THEN current_index[1] + Batch > Total * Epochs
                       ELSE explore_step_num >= MaxSteps

\* Mutant: the selectors' positions are restored without their orders.
TasksetSchedulerStale(step, index) ==
    /\ epoch' = (step * Batch) \div Total
    /\ orders' = setup.plan[(step * Batch) \div Total]
    /\ current_index' = index
    /\ cached' = [t \in Tasksets |-> OrderAt(t, 0)]

\* The constructor, for the state that load_explorer returned.
TasksetScheduler(step, index) ==
    /\ epoch' = (step * Batch) \div Total
    /\ orders' = setup.plan[(step * Batch) \div Total]
    /\ current_index' = index
    /\ cached' = [t \in Tasksets |-> OrderAt(t, index[t])]

ReadTasks ==
    /\ epoch' = IF Turns THEN epoch + 1 ELSE epoch
    /\ orders' = setup.plan[epoch']
    /\ current_index' = [t \in Tasksets |-> current_index[t] + Times(TasksetIds, t)]
    /\ cached' = [t \in Tasksets |-> OrdersAfter(t, Times(TasksetIds, t))]

--------------------------------------------------------------------------------
(* The explorer loop. *)

Steps == 1 .. MaxSteps
Alive == pc # "down"
\* What load_explorer returns without a file and for a torn one, taken with its defaults.
Empty == [step |-> 0, index |-> [t \in Tasksets |-> 0]]

Init ==
    /\ setup \in Setups
    /\ explore_step_num = 0 /\ last_monitored_step = 0 /\ epoch = 0
    /\ orders = setup.plan[0]
    /\ current_index = Empty.index
    /\ cached = [t \in Tasksets |-> OrderAt(t, 0)]
    /\ pc = "explore" /\ inflight = {} /\ window = <<>>
    /\ file = Empty /\ crashes = 0 /\ finished = {}
    /\ reads = [k \in Steps |-> {}]

\* need_sync, after a step was submitted.
NeedSync(step) == setup.style = "stepwise" /\ step % SyncInterval = 0

Submit(step) ==
    /\ inflight' = inflight \cup {step}
    /\ pc' = IF NeedSync(step) THEN "sync" ELSE "explore"

\* Mutant: one batch more.
WindowIsOver == setup.style = "watched" /\ Len(window) > MaxInflight

WindowIsFull == setup.style = "watched" /\ Len(window) >= MaxInflight

\* explore_step: read a batch; with a full window, wait for the oldest before submitting it.
ExploreStep ==
    /\ pc = "explore" /\ ~ShouldStop
    /\ ReadTasks
    /\ explore_step_num' = explore_step_num + 1
    /\ reads' = [reads EXCEPT ![explore_step_num + 1] = @ \cup {BatchRead}]
    /\ IF WindowIsFull
       THEN pc' = "drain" /\ UNCHANGED <<inflight, window>>
       ELSE /\ Submit(explore_step_num + 1)
            /\ window' = IF setup.style = "watched" THEN Append(window, explore_step_num + 1)
                                                    ELSE window
    /\ UNCHANGED <<setup, last_monitored_step, file, crashes, finished>>

Drain ==
    /\ pc = "drain" /\ Head(window) \notin inflight
    /\ last_monitored_step' = Head(window)
    /\ window' = Append(Tail(window), explore_step_num)
    /\ Submit(explore_step_num)
    /\ UNCHANGED <<setup, schedulerVars, explore_step_num, file, crashes, finished, reads>>

\* No more tasks: a plain reader has then consumed an incomplete last batch.
EndOfTasks ==
    /\ pc = "explore" /\ ShouldStop
    /\ pc' = "ending"
    /\ current_index' = IF Plain THEN <<Total * Epochs>> ELSE current_index
    /\ UNCHANGED <<setup, epoch, orders, cached, explore_step_num, inflight, window,
                   last_monitored_step, file, crashes, finished, reads>>

\* The coordinator finalizes a batch.
FinishBatch(step) ==
    /\ step \in inflight
    /\ inflight' = inflight \ {step}
    /\ finished' = finished \cup {step}
    /\ UNCHANGED <<setup, schedulerVars, explore_step_num, pc, window, last_monitored_step,
                   file, crashes, reads>>

StateOfExplorer == [step |-> explore_step_num, index |-> current_index]

FinishCurrentSteps == \A k \in last_monitored_step + 1 .. explore_step_num : k \notin inflight

\* The save after a weight sync and the one at the end; a crash can tear the file.
SaveCheckpoint ==
    /\ pc \in {"sync", "ending"} /\ FinishCurrentSteps
    /\ last_monitored_step' = explore_step_num
    /\ file' = StateOfExplorer
    /\ pc' = IF pc = "sync" THEN "explore" ELSE "stopped"
    /\ UNCHANGED <<setup, schedulerVars, explore_step_num, inflight, window, crashes, finished, reads>>

\* _watch_trainer_sync_signal: new weights arrive at any time, whatever the loop waits for.
WatcherSaves ==
    /\ setup.style = "watched" /\ pc \in {"explore", "drain", "ending"}
    /\ file' = StateOfExplorer
    /\ UNCHANGED <<setup, schedulerVars, loopVars, crashes, finished, reads>>

\* Opening the state file empties it before the new state is written.
MayBeSaving == \/ pc \in {"sync", "ending"} /\ FinishCurrentSteps
               \/ setup.style = "watched" /\ pc \in {"explore", "drain", "ending"}

Crash ==
    /\ Alive /\ pc # "stopped" /\ crashes < MaxCrashes
    /\ crashes' = crashes + 1
    /\ pc' = "down"
    /\ inflight' = {} /\ window' = <<>>
    /\ file' \in {file} \cup (IF MayBeSaving THEN {Empty} ELSE {})
    /\ UNCHANGED <<setup, schedulerVars, explore_step_num, last_monitored_step, finished, reads>>

Restart ==
    /\ pc = "down"
    /\ pc' = "explore"
    /\ explore_step_num' = file.step
    /\ last_monitored_step' = file.step
    /\ TasksetScheduler(file.step, file.index)
    /\ UNCHANGED <<setup, inflight, window, file, crashes, finished, reads>>

Stopped == pc = "stopped" /\ UNCHANGED vars

Next ==
    \/ ExploreStep \/ Drain \/ EndOfTasks \/ SaveCheckpoint \/ WatcherSaves
    \/ \E k \in Steps : FinishBatch(k)
    \/ Crash \/ Restart \/ Stopped

\* The event loop runs what is ready; rollouts end (they have timeouts); whoever runs the
\* job starts it again after a crash.
Fairness ==
    /\ WF_vars(ExploreStep \/ Drain \/ EndOfTasks \/ SaveCheckpoint)
    /\ WF_vars(\E k \in Steps : FinishBatch(k))
    /\ WF_vars(Restart)

Spec == Init /\ [][Next]_vars /\ Fairness

--------------------------------------------------------------------------------
(* Properties. *)

\* Every variable stays in its range: the scheduler's counters agree with each other.
TypeOK ==
    /\ explore_step_num \in 0 .. MaxSteps /\ last_monitored_step \in 0 .. explore_step_num
    /\ epoch \in 0 .. Epochs
    /\ current_index \in [Tasksets -> 0 .. Total * Epochs]
    /\ pc \in {"explore", "drain", "sync", "ending", "stopped", "down"}
    /\ inflight \subseteq 1 .. explore_step_num
    /\ window \in BoundedSeq(1 .. explore_step_num, MaxInflight)
    /\ finished \subseteq Steps
    /\ file \in [step : 0 .. MaxSteps, index : [Tasksets -> 0 .. Total * Epochs]]

\* A restarted explorer reads for a step exactly the batch that an earlier life read for it:
\* the scheduler's orders are rebuilt from the step and the selectors' from their positions,
\* and the two stay in line wherever in an epoch the explorer was saved.
ResumesExactly == \A k \in Steps : Cardinality(reads[k]) <= 1

\* What the state file claims to have explored has been: a restart does not go past a batch
\* whose rollouts were still running when the explorer crashed.  With a watcher that saves at
\* any time it can, but by no more than the window of fully_async admits and the one that
\* waits to enter it.
LossIsBounded ==
    Cardinality((1 .. file.step) \ finished) <=
        IF setup.style = "watched" THEN (crashes + 1) * (MaxInflight + 1) ELSE 0

\* A torn or old state file delays the explorer but loses nothing: in the end every batch
\* of the run has been explored.
AllExplored == setup.style = "stepwise" => <>[](pc = "stopped" /\ finished = Steps)
================================================================================

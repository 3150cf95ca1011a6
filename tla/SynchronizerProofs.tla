-------------------------- MODULE SynchronizerProofs --------------------------
(***************************************************************************)
(* Proofs about the two ways in which trinity/manager/synchronizer.py gets *)
(* weights from the trainer to the explorers.                              *)
(*                                                                         *)
(* WeightPull, the pull of a saved or a state-dict version: for any number *)
(* of explorers, steps and timeouts and for every configuration.           *)
(*                                                                         *)
(* NcclSync, the meeting before a broadcast: for any number of train steps *)
(* and synchronisations.  Types, and that a trainer which stopped stays    *)
(* stopped, hold of every style with and without timeouts.  That the       *)
(* transfers are paired, and what follows from it, holds when the explorer *)
(* has one caller and sync_timeout does not run out (Calm).  Without       *)
(* either, a late answer or a call left behind by the loop breaks it.      *)
(***************************************************************************)
EXTENDS NcclSync, WeightPull, FiniteSetTheorems, TLAPS

Pulls == [Members -> [Callers -> PullState]]

-----------------------------------------------------------------------------
(* What the operators of the synchronizer do.                              *)

\* The bounds of the model.
LEMMA Bounds ==
    /\ MaxStep \in Nat /\ MaxStep > 0
    /\ MaxTimeouts \in Nat
    /\ MaxInflight \in Nat /\ MaxInflight > 0
BY WeightPullAssumption

\* The pieces of the types that the steps below need.
LEMMA Types ==
    ASSUME TypeOK
    PROVE  /\ \A e \in Members :
                  /\ explorer[e] \in ExplorerState
                  /\ explorer[e].step \in 0 .. MaxStep
                  /\ explorer[e].done \in 0 .. MaxStep /\ explorer[e].done <= explorer[e].step
                  /\ explorer[e].version \in -1 .. MaxStep
                  /\ explorer[e].weights \in 0 .. MaxStep
                  /\ \A c \in Callers :
                        /\ pull[e][c] \in PullState
                        /\ pull[e][c].answer \in 0 .. MaxStep
           /\ trainer \in TrainerState /\ trainer.step \in 0 .. MaxStep
           /\ sync \in SyncState /\ sync.version \in 0 .. MaxStep
           /\ sync.RUNNING \in Int /\ sync.REQUIRE_SYNC \in Int /\ sync.STOPPED \in Int
           /\ saved \in 0 .. MaxStep /\ timeouts \in 0 .. MaxTimeouts
BY DEF TypeOK, ExplorerState, PullState, TrainerState, SyncState

\* A step that writes one explorer: its record is a state, and so is the table.
LEMMA ExplorerWritten ==
    ASSUME TypeOK, NEW e \in Members, NEW x \in ExplorerState, x.done <= x.step,
           explorer' = [explorer EXCEPT ![e] = x], setting' = setting
    PROVE  /\ explorer' \in [Members -> ExplorerState]
           /\ \A f \in Members : explorer'[f].done <= explorer'[f].step
BY DEF TypeOK

\* A step that writes one pull.
LEMMA OnePull ==
    ASSUME TypeOK, NEW e \in Members, NEW c \in Callers, NEW x \in PullState,
           pull' = [pull EXCEPT ![e][c] = x]
    PROVE  /\ pull' \in Pulls
           /\ pull'[e][c] = x
           /\ \A f \in Members, d \in Callers : f # e \/ d # c => pull'[f][d] = pull[f][d]
BY DEF TypeOK, Pulls

\* A notification moves the waits on, and nothing else.
LEMMA Notified ==
    ASSUME TypeOK, NotifyAll
    PROVE  /\ pull' \in Pulls
           /\ \A e \in Members, c \in Callers :
                  pull'[e][c].at = IF pull[e][c].at = "wait" THEN "woken" ELSE pull[e][c].at
           /\ \A e \in Members, c \in Callers : pull'[e][c].answer = pull[e][c].answer
<1>1. pull \in [Members -> [Callers -> PullState]]
    BY DEF TypeOK
<1>2. \A p \in PullState : /\ [p EXCEPT !.at = "woken"] \in PullState
                           /\ [p EXCEPT !.at = "woken"].at = "woken"
                           /\ [p EXCEPT !.at = "woken"].answer = p.answer
    BY DEF PullState
<1>3. \A e \in Members, c \in Callers :
          pull'[e][c] = IF pull[e][c].at = "wait" THEN [pull[e][c] EXCEPT !.at = "woken"]
                                                  ELSE pull[e][c]
    BY DEF NotifyAll, Woken
<1>4. \A e \in Members, c \in Callers : pull[e][c] \in PullState
    BY <1>1
<1>5. pull' \in Pulls
    BY <1>2, <1>3, <1>4 DEF NotifyAll, Woken, Pulls
<1>6. ASSUME NEW e \in Members, NEW c \in Callers
      PROVE  /\ pull'[e][c].at = IF pull[e][c].at = "wait" THEN "woken" ELSE pull[e][c].at
             /\ pull'[e][c].answer = pull[e][c].answer
    <2>1. CASE pull[e][c].at = "wait"
        <3>1. pull'[e][c] = [pull[e][c] EXCEPT !.at = "woken"] /\ pull[e][c] \in PullState
            BY <1>3, <1>4, <2>1
        <3> QED BY <2>1, <3>1 DEF PullState
    <2>2. CASE pull[e][c].at # "wait"
        BY <1>3, <2>2
    <2> QED BY <2>1, <2>2
<1> QED BY <1>5, <1>6

\* The synchronizer with other counts.
Recounted(s, n, m) ==
    [version |-> s.version, trainer_status |-> s.trainer_status,
     RUNNING |-> n, REQUIRE_SYNC |-> m, STOPPED |-> s.STOPPED]

LEMMA Counted ==
    ASSUME NEW s \in SyncState, NEW n \in Int, NEW m \in Int
    PROVE  /\ Recounted(s, n, m) \in SyncState
           /\ Recounted(s, n, m).version = s.version
           /\ Recounted(s, n, m).STOPPED = s.STOPPED
           /\ Recounted(s, n, m).RUNNING = n
           /\ Recounted(s, n, m).REQUIRE_SYNC = m
BY DEF SyncState, Recounted

\* wait_new_model_state_dict has three outcomes: it fails, and may take the explorer
\* out of RUNNING if there was none there; it waits, counted in REQUIRE_SYNC; or
\* it answers the version of the synchronizer, the counts being what they were.
LEMMA WaitOutcomes ==
    ASSUME TypeOK, NEW e \in Members, NEW c \in Callers, WaitNew(e, c)
    PROVE  /\ sync' \in SyncState
           /\ sync'.version = sync.version /\ sync'.STOPPED = sync.STOPPED
           /\ \E p \in PullState :
                /\ pull' = [pull EXCEPT ![e][c] = p]
                /\ \/ /\ p.at = "failed" /\ sync'.REQUIRE_SYNC = sync.REQUIRE_SYNC
                      /\ sync' = sync \/ sync.RUNNING <= 0
                   \/ /\ p.at = "wait"
                      /\ sync'.REQUIRE_SYNC = sync.REQUIRE_SYNC + 1
                      /\ sync'.RUNNING = sync.RUNNING - 1
                   \/ p.at = "load" /\ p.answer = sync.version /\ sync' = sync
<1>1. /\ sync \in SyncState /\ sync.version \in 0 .. MaxStep
      /\ sync.RUNNING \in Int /\ sync.REQUIRE_SYNC \in Int
    BY Types
<1>2. 0 \in 0 .. MaxStep
    BY Bounds
<1> DEFINE required == Recounted(sync, sync.RUNNING - 1, sync.REQUIRE_SYNC + 1)
           missed == Recounted(sync, sync.RUNNING - 1, sync.REQUIRE_SYNC)
           failed == [at |-> "failed", answer |-> 0]
           wait == [at |-> "wait", answer |-> 0]
           answer == [at |-> "load", answer |-> sync.version]
<1>3. {failed, wait, answer} \subseteq PullState
    BY <1>1, <1>2 DEF PullState
<1>4. required \in SyncState /\ missed \in SyncState
    BY <1>1, Counted
<1>5. \/ sync' = sync /\ pull' = [pull EXCEPT ![e][c] = failed]
      \/ sync.RUNNING <= 0 /\ sync' = missed /\ pull' = [pull EXCEPT ![e][c] = failed]
      \/ sync' = required /\ pull' = [pull EXCEPT ![e][c] = wait]
      \/ sync' = sync /\ pull' = [pull EXCEPT ![e][c] = answer]
    <2>1. [sync EXCEPT !.RUNNING = @ - 1, !.REQUIRE_SYNC = @ + 1] = required
        <3> SUFFICES ASSUME NEW s, s = [sync EXCEPT !.RUNNING = @ - 1, !.REQUIRE_SYNC = @ + 1]
                     PROVE  s = required
            OBVIOUS
        <3> QED BY <1>1 DEF SyncState, Recounted
    <2>2. [sync EXCEPT !.RUNNING = @ - 1] = missed
        BY <1>1 DEF SyncState, Recounted
    <2>3. [required EXCEPT !.RUNNING = @ + 1, !.REQUIRE_SYNC = @ - 1] = sync
        <3> SUFFICES ASSUME NEW s, s = [required EXCEPT !.RUNNING = @ + 1, !.REQUIRE_SYNC = @ - 1]
                     PROVE  s = sync
            OBVIOUS
        <3>1. /\ required.RUNNING + 1 = sync.RUNNING
              /\ required.REQUIRE_SYNC - 1 = sync.REQUIRE_SYNC
              /\ required.version = sync.version /\ required.STOPPED = sync.STOPPED
              /\ required.trainer_status = sync.trainer_status
            BY <1>1 DEF Recounted
        <3>2. sync = Recounted(sync, sync.RUNNING, sync.REQUIRE_SYNC)
            BY <1>1 DEF SyncState, Recounted
        <3> HIDE DEF required
        <3>3. s = Recounted(required, required.RUNNING + 1, required.REQUIRE_SYNC - 1)
            BY <1>4 DEF SyncState, Recounted
        <3>4. s = Recounted(required, sync.RUNNING, sync.REQUIRE_SYNC)
            BY <3>1, <3>3
        <3>5. Recounted(required, sync.RUNNING, sync.REQUIRE_SYNC)
                  = Recounted(sync, sync.RUNNING, sync.REQUIRE_SYNC)
            BY <3>1, Zenon DEF Recounted
        <3> QED BY <3>2, <3>4, <3>5
    <2>4. [Idle EXCEPT !.at = "failed"] = failed /\ [Idle EXCEPT !.at = "wait"] = wait
        BY DEF Idle
    <2>5. required.version = sync.version
        BY DEF Recounted
    <2> HIDE DEF required, missed
    <2> QED BY <2>1, <2>2, <2>3, <2>4, <2>5 DEF WaitNew, Answered
<1>6. /\ required.version = sync.version /\ missed.version = sync.version
      /\ required.STOPPED = sync.STOPPED /\ missed.STOPPED = sync.STOPPED
      /\ required.RUNNING = sync.RUNNING - 1
      /\ required.REQUIRE_SYNC = sync.REQUIRE_SYNC + 1
      /\ missed.REQUIRE_SYNC = sync.REQUIRE_SYNC
    BY DEF Recounted
<1>7. failed.at = "failed" /\ wait.at = "wait" /\ answer.at = "load" /\ answer.answer = sync.version
    OBVIOUS
<1> HIDE DEF required, missed, failed, wait, answer
<1> QED BY <1>1, <1>3, <1>4, <1>5, <1>6, <1>7

\* The answer to a wait that was woken.
LEMMA AnswerOutcome ==
    ASSUME TypeOK, NEW e \in Members, NEW c \in Callers, Answer(e, c)
    PROVE  /\ sync' \in SyncState
           /\ sync'.version = sync.version /\ sync'.STOPPED = sync.STOPPED
           /\ sync'.RUNNING = sync.RUNNING + 1 /\ sync'.REQUIRE_SYNC = sync.REQUIRE_SYNC - 1
           /\ [at |-> "load", answer |-> sync.version] \in PullState
           /\ pull' = [pull EXCEPT ![e][c] = [at |-> "load", answer |-> sync.version]]
<1>1. sync \in SyncState /\ sync.version \in 0 .. MaxStep
    BY Types
<1>2. /\ sync' = [sync EXCEPT !.RUNNING = @ + 1, !.REQUIRE_SYNC = @ - 1]
      /\ pull' = [pull EXCEPT ![e][c] = [at |-> "load", answer |-> sync.version]]
    BY DEF Answer, Answered
<1>3. sync' = Recounted(sync, sync.RUNNING + 1, sync.REQUIRE_SYNC - 1)
    BY <1>1, <1>2 DEF SyncState, Recounted
<1>4. sync.RUNNING + 1 \in Int /\ sync.REQUIRE_SYNC - 1 \in Int
    BY <1>1 DEF SyncState
<1>5. [at |-> "load", answer |-> sync.version] \in PullState
    BY <1>1 DEF PullState
<1> QED BY <1>1, <1>2, <1>3, <1>4, <1>5, Counted

-----------------------------------------------------------------------------
(* Types.                                                                  *)

LEMMA TypeInit == Init => TypeOK
<1> SUFFICES ASSUME Init PROVE TypeOK
    OBVIOUS
<1>1. 0 \in 0 .. MaxStep /\ -1 \in -1 .. MaxStep /\ 0 \in 0 .. MaxTimeouts
    BY Bounds
<1>2. /\ explorer \in [Members -> ExplorerState]
      /\ \A e \in Members : explorer[e].done <= explorer[e].step
    BY <1>1 DEF Init, ExplorerState
<1>3. pull \in [Members -> [Callers -> PullState]]
    BY <1>1 DEF Init, Idle, PullState
<1>4. trainer \in TrainerState
    BY <1>1 DEF Init, TrainerState
<1>5. sync \in SyncState
    BY <1>1 DEF Init, SyncState
<1> QED BY <1>1, <1>2, <1>3, <1>4, <1>5 DEF Init, TypeOK

LEMMA TypeStep == TypeOK /\ [Next]_vars => TypeOK'
<1> SUFFICES ASSUME TypeOK, [Next]_vars PROVE TypeOK'
    OBVIOUS
<1>1. ASSUME NEW e \in Members, Prepare(e) PROVE TypeOK'
    <2>1. explorer[e] \in ExplorerState
        BY Types
    <2>2. /\ explorer' \in [Members -> ExplorerState]
          /\ \A f \in Members : explorer'[f].done <= explorer'[f].step
        <3> DEFINE x == [explorer[e] EXCEPT !.pc = "start", !.watching = Async]
        <3>1. explorer' = [explorer EXCEPT ![e] = x]
            BY <1>1 DEF Prepare, TypeOK
        <3>2. x \in ExplorerState /\ x.done <= x.step
            BY <1>1, <2>1, Types, Bounds, WeightPullAssumption DEF Prepare, ExplorerState, Async
        <3> HIDE DEF x
        <3> QED BY <1>1, <3>1, <3>2, ExplorerWritten DEF Prepare
    <2>3. sync' \in SyncState
        BY <1>1, Types DEF Prepare, SyncState
    <2> QED BY <1>1, <2>2, <2>3 DEF Prepare, TypeOK, Members
<1>2. ASSUME NEW e \in Members, NEW c \in Callers, WaitNew(e, c),
             UNCHANGED <<setting, explorer, trainer, saved, timeouts>>
      PROVE  TypeOK'
    <2>1. sync' \in SyncState /\ pull' \in Pulls
        BY <1>2, WaitOutcomes, OnePull
    <2> QED BY <1>2, <2>1 DEF TypeOK, Members, Pulls
<1>3. ASSUME NEW e \in Members, SyncWeight(e) \/ WatchPulls(e) PROVE TypeOK'
    BY <1>2, <1>3 DEF SyncWeight, WatchPulls, Callers
<1>4. ASSUME NEW e \in Members, WatchSees(e) PROVE TypeOK'
    <2>1. pull' \in [Members -> [Callers -> PullState]]
        BY <1>4 DEF WatchSees, TypeOK, PullState, Callers
    <2> QED BY <1>4, <2>1 DEF WatchSees, TypeOK, Members
<1>5. ASSUME NEW e \in Members, NEW c \in Callers, Answer(e, c) PROVE TypeOK'
    <2>1. sync' \in SyncState /\ pull' \in Pulls
        BY <1>5, AnswerOutcome, OnePull
    <2> QED BY <1>5, <2>1 DEF Answer, TypeOK, Members, Pulls
<1>6. ASSUME NEW e \in Members, NEW c \in Callers, TimeOut(e, c) PROVE TypeOK'
    <2>1. pull' \in [Members -> [Callers -> PullState]]
        BY <1>6 DEF TimeOut, TypeOK, PullState
    <2>2. timeouts' \in 0 .. MaxTimeouts
        BY <1>6, Bounds DEF TimeOut, TypeOK
    <2> QED BY <1>6, <2>1, <2>2 DEF TimeOut, TypeOK, Members
<1>7. ASSUME NEW e \in Members, NEW c \in Callers, Load(e, c) PROVE TypeOK'
    <2>1. PICK pc \in {explorer[e].pc, "explore"}, v \in {explorer[e].version, pull[e][c].answer},
               w \in {explorer[e].weights, sync.version, pull[e][c].answer} :
              explorer' = [explorer EXCEPT ![e] = [explorer[e] EXCEPT !.pc = pc, !.version = v,
                                                                      !.weights = w]]
        <3> DEFINE pc == Continue(e, c)
                   v == IF pull[e][c].answer > explorer[e].version THEN pull[e][c].answer
                        ELSE explorer[e].version
                   w == IF pull[e][c].answer > explorer[e].version
                        THEN IF explorer[e].version = -1 /\ pull[e][c].answer = 0
                             THEN explorer[e].weights
                             ELSE IF setting.method = "memory" THEN sync.version
                             ELSE pull[e][c].answer
                        ELSE explorer[e].weights
        <3>1. explorer' = [explorer EXCEPT ![e] = [explorer[e] EXCEPT !.pc = pc, !.version = v,
                                                                      !.weights = w]]
            BY <1>7 DEF Load, TypeOK
        <3>2. /\ pc \in {explorer[e].pc, "explore"}
              /\ v \in {explorer[e].version, pull[e][c].answer}
              /\ w \in {explorer[e].weights, sync.version, pull[e][c].answer}
            BY DEF Continue
        <3> QED BY <3>1, <3>2
    <2>2. /\ explorer' \in [Members -> ExplorerState]
          /\ \A f \in Members : explorer'[f].done <= explorer'[f].step
        <3> DEFINE x == [explorer[e] EXCEPT !.pc = pc, !.version = v, !.weights = w]
        <3>1. v \in -1 .. MaxStep /\ w \in 0 .. MaxStep
            BY Types, Bounds
        <3>2. x \in ExplorerState /\ x.done <= x.step
            BY <3>1, Types DEF ExplorerState
        <3>3. explorer' = [explorer EXCEPT ![e] = x]
            BY <2>1
        <3> HIDE DEF x
        <3> QED BY <1>7, <3>2, <3>3, ExplorerWritten DEF Load
    <2>3. pull' \in Pulls
        <3>1. Idle \in PullState
            BY Bounds DEF Idle, PullState
        <3> QED BY <1>7, <3>1, OnePull DEF Load
    <2> QED BY <1>7, <2>2, <2>3 DEF Load, TypeOK, Members, Pulls
<1>8. ASSUME NEW e \in Members, NEW c \in Callers, Fail(e, c) PROVE TypeOK'
    <2>1. /\ explorer' \in [Members -> ExplorerState]
          /\ \A f \in Members : explorer'[f].done <= explorer'[f].step
        BY <1>8, Types, ZenonT(40) DEF Fail, ExplorerState, TypeOK
    <2>2. pull' \in Pulls
        <3>1. Idle \in PullState
            BY Bounds DEF Idle, PullState
        <3> QED BY <1>8, <3>1, OnePull DEF Fail
    <2> QED BY <1>8, <2>1, <2>2 DEF Fail, TypeOK, Members, Pulls
<1>9. ASSUME NEW e \in Members, ExploreStep(e) PROVE TypeOK'
    <2>1. explorer[e] \in ExplorerState
        BY Types
    <2>2. /\ explorer' \in [Members -> ExplorerState]
          /\ \A f \in Members : explorer'[f].done <= explorer'[f].step
        <3> DEFINE x == [explorer[e] EXCEPT
                            !.step = @ + 1,
                            !.done = IF Async /\ explorer[e].step - @ >= MaxInflight THEN @ + 1 ELSE @,
                            !.pc = IF ExplorerNeedsSync(explorer[e].step + 1) THEN "finish" ELSE "explore"]
        <3>1. explorer' = [explorer EXCEPT ![e] = x]
            BY <1>9 DEF ExploreStep, TypeOK
        <3>2. x \in ExplorerState /\ x.done <= x.step
            <4> DEFINE n == explorer[e].step + 1
                       d == IF Async /\ explorer[e].step - explorer[e].done >= MaxInflight
                            THEN explorer[e].done + 1 ELSE explorer[e].done
                       pc == IF ExplorerNeedsSync(n) THEN "finish" ELSE "explore"
            <4>1. n \in 0 .. MaxStep /\ d \in 0 .. MaxStep /\ d <= n
                BY <1>9, Types, Bounds DEF ExploreStep
            <4>2. x = [explorer[e] EXCEPT !.step = n, !.done = d, !.pc = pc]
                OBVIOUS
            <4>3. pc \in {"finish", "explore"}
                OBVIOUS
            <4> HIDE DEF x, n, d, pc
            <4> QED BY <2>1, <4>1, <4>2, <4>3 DEF ExplorerState
        <3> HIDE DEF x
        <3> QED BY <1>9, <3>1, <3>2, ExplorerWritten DEF ExploreStep
    <2> QED BY <1>9, <2>2 DEF ExploreStep, TypeOK, Members
<1>10. ASSUME NEW e \in Members, EndOfTasks(e) PROVE TypeOK'
    <2>1. explorer[e] \in ExplorerState
        BY Types
    <2>2. /\ explorer' \in [Members -> ExplorerState]
          /\ \A f \in Members : explorer'[f].done <= explorer'[f].step
        BY <1>10, <2>1, Bounds DEF EndOfTasks, ExplorerAt, ExplorerState, TypeOK
    <2> QED BY <1>10, <2>2 DEF EndOfTasks, TypeOK, Members
<1>11. ASSUME NEW e \in Members, FinishCurrentSteps(e) PROVE TypeOK'
    <2>1. explorer[e] \in ExplorerState
        BY Types
    <2>2. /\ explorer' \in [Members -> ExplorerState]
          /\ \A f \in Members : explorer'[f].done <= explorer'[f].step
        <3> DEFINE x == [explorer[e] EXCEPT !.done = @ + 1]
        <3>1. explorer' = [explorer EXCEPT ![e] = x]
            BY <1>11 DEF FinishCurrentSteps, TypeOK
        <3>2. x \in ExplorerState /\ x.done <= x.step
            BY <1>11, <2>1, Types, Bounds, WeightPullAssumption DEF FinishCurrentSteps, ExplorerState
        <3> HIDE DEF x
        <3> QED BY <1>11, <3>1, <3>2, ExplorerWritten DEF FinishCurrentSteps
    <2> QED BY <1>11, <2>2 DEF FinishCurrentSteps, TypeOK, Members
<1>12. ASSUME NEW e \in Members, Finished(e) PROVE TypeOK'
    <2>1. explorer[e] \in ExplorerState
        BY Types
    <2>2. /\ explorer' \in [Members -> ExplorerState]
          /\ \A f \in Members : explorer'[f].done <= explorer'[f].step
        BY <1>12, <2>1, Bounds DEF Finished, ExplorerAt, ExplorerState, TypeOK
    <2> QED BY <1>12, <2>2 DEF Finished, TypeOK, Members
<1>13. ASSUME NEW e \in Members, Stop(e) PROVE TypeOK'
    <2>1. explorer[e] \in ExplorerState
        BY Types
    <2>2. /\ explorer' \in [Members -> ExplorerState]
          /\ \A f \in Members : explorer'[f].done <= explorer'[f].step
        BY <1>13, <2>1, Bounds DEF Stop, ExplorerAt, ExplorerState, TypeOK
    <2>3. sync' \in SyncState
        <3>1. sync.RUNNING - 1 \in Int /\ sync.STOPPED + 1 \in Int /\ sync \in SyncState
            BY Types
        <3>2. \A n, m \in Int : [sync EXCEPT !.RUNNING = n, !.STOPPED = m] \in SyncState
            BY <3>1 DEF SyncState
        <3> QED BY <1>13, <3>1, <3>2 DEF Stop
    <2>4. pull' \in Pulls
        BY <1>13, Notified DEF Stop
    <2> QED BY <1>13, <2>2, <2>3, <2>4 DEF Stop, TypeOK, Members, Pulls
<1>14. ASSUME PrepareTrainer PROVE TypeOK'
    <2>1. trainer' \in TrainerState /\ sync' \in SyncState
        BY <1>14, Types DEF PrepareTrainer, TrainerAt, TrainerState, SyncState
    <2> QED BY <1>14, <2>1 DEF PrepareTrainer, TypeOK, Members
<1>15. ASSUME Poll \/ TrainStep \/ AfterTrainStep PROVE TypeOK'
    <2>1. trainer' \in TrainerState
        <3>1. CASE Poll
            BY <3>1, Types DEF Poll, TrainerAt, TrainerState
        <3>2. CASE TrainStep
            <4>1. trainer.step + 1 \in 0 .. MaxStep
                BY <3>2, Types, Bounds DEF TrainStep
            <4> QED BY <3>2, <4>1, Types DEF TrainStep, TrainerState
        <3>3. CASE AfterTrainStep
            <4>1. PICK pc \in {"save", "sync", "sample"}, n \in {trainer.step, trainer.last_sync} :
                      trainer' = [trainer EXCEPT !.pc = pc, !.last_sync = n]
                BY <3>3, Types DEF AfterTrainStep, TrainerState
            <4> QED BY <4>1, Types DEF TrainerState
        <3> QED BY <1>15, <3>1, <3>2, <3>3
    <2> QED BY <1>15, <2>1 DEF Poll, TrainStep, AfterTrainStep, TypeOK, Members
<1>16. ASSUME NotifyNoNew PROVE TypeOK'
    <2>1. pull' \in Pulls
        BY <1>16, Notified DEF NotifyNoNew
    <2> QED BY <1>16, <2>1 DEF NotifyNoNew, TypeOK, Members, Pulls
<1>17. ASSUME NEW v \in 0 .. MaxStep, SetModelStateDict(v) PROVE sync' \in SyncState /\ pull' \in Pulls
    BY <1>17, Types, Notified DEF SetModelStateDict, SyncState
<1>18. ASSUME Scan PROVE TypeOK'
    <2>1. sync' \in SyncState /\ pull' \in Pulls
        BY <1>17, <1>18, Types DEF Scan
    <2> QED BY <1>18, <2>1 DEF Scan, TypeOK, Members, Pulls
<1>19. ASSUME TrainerSyncWeight PROVE TypeOK'
    <2>1. trainer' \in TrainerState /\ saved' \in 0 .. MaxStep
        BY <1>19, Types DEF TrainerSyncWeight, TrainerState
    <2>2. sync' \in SyncState /\ pull' \in Pulls
        BY <1>17, <1>19, Types DEF TrainerSyncWeight, TypeOK, Pulls, Members
    <2> QED BY <1>19, <2>1, <2>2 DEF TrainerSyncWeight, TypeOK, Members, Pulls
<1>20. ASSUME SaveCheckpoint PROVE TypeOK'
    <2>1. trainer' \in TrainerState /\ saved' \in 0 .. MaxStep
        BY <1>20, Types DEF SaveCheckpoint, TrainerAt, TrainerState
    <2> QED BY <1>20, <2>1 DEF SaveCheckpoint, TypeOK, Members
<1>21. ASSUME StopTraining PROVE TypeOK'
    <2>1. trainer' \in TrainerState /\ saved' \in 0 .. MaxStep
        BY <1>21, Types DEF StopTraining, TrainerAt, TrainerState
    <2>2. sync' \in SyncState /\ pull' \in Pulls
        BY <1>21, Types, Notified DEF StopTraining, SyncState
    <2> QED BY <1>21, <2>1, <2>2 DEF StopTraining, TypeOK, Members, Pulls
<1>22. CASE UNCHANGED vars
    BY <1>22 DEF TypeOK, vars, Members
<1> QED BY <1>1, <1>3, <1>4, <1>5, <1>6, <1>7, <1>8, <1>9, <1>10, <1>11, <1>12, <1>13, <1>14,
           <1>15, <1>16, <1>18, <1>19, <1>20, <1>21, <1>22
           DEF Next, TrainerStep, LoopStep, PullStep, Watch

\* The records of the loops and of the synchronizer keep their types.
THEOREM TypeCorrect == Spec => []TypeOK
BY TypeInit, TypeStep, PTL DEF Spec

-----------------------------------------------------------------------------
(* Tags: what an explorer writes on its experiences is not newer than the  *)
(* weights of its models.                                                  *)

\* The synchronizer never goes back, since with MEMORY it holds weights of a train
\* step that was taken, and so an answer is not ahead of what is fetched later.
TagsFit ==
    /\ \A e \in Members : explorer[e].version <= explorer[e].weights \/ explorer[e].version = -1
    /\ \A e \in Members, c \in Callers :
           pull[e][c].at = "load" => pull[e][c].answer <= sync.version
    /\ setting.method = "memory" => sync.version <= trainer.step

LEMMA TagsInit == Init => TagsFit
<1> SUFFICES ASSUME Init PROVE TagsFit
    OBVIOUS
<1>1. \A e \in Members : explorer[e].version = -1
    BY DEF Init
<1>2. \A e \in Members, c \in Callers : pull[e][c].at = "idle"
    BY DEF Init, Idle
<1>3. sync.version = 0 /\ trainer.step = 0
    BY DEF Init
<1> QED BY <1>1, <1>2, <1>3 DEF TagsFit

\* A step that loads no weights, answers no version but the present one, and takes
\* back neither a version of the synchronizer nor a train step.
LEMMA TagsStay ==
    ASSUME TypeOK, TagsFit, setting' = setting,
           \A e \in Members : /\ explorer'[e].version = explorer[e].version
                              /\ explorer'[e].weights = explorer[e].weights,
           \A e \in Members, c \in Callers :
               pull'[e][c].at = "load" =>
                   \/ pull[e][c].at = "load" /\ pull'[e][c].answer = pull[e][c].answer
                   \/ pull'[e][c].answer = sync.version,
           sync'.version \in Nat, sync'.version >= sync.version,
           trainer'.step \in Nat, trainer'.step >= trainer.step,
           setting.method = "memory" => sync'.version = sync.version \/ sync'.version = trainer.step
    PROVE  TagsFit'
<1>1. Members' = Members
    BY DEF Members
<1>2. sync.version \in Nat /\ trainer.step \in Nat
    BY Types
<1>3. \A e \in Members : explorer'[e].version <= explorer'[e].weights \/ explorer'[e].version = -1
    BY DEF TagsFit
<1>4. \A e \in Members, c \in Callers : pull[e][c].answer \in Nat
    BY Types
<1>5. ASSUME NEW e \in Members, NEW c \in Callers, pull'[e][c].at = "load"
      PROVE  pull'[e][c].answer <= sync'.version
    BY <1>2, <1>4, <1>5 DEF TagsFit
<1>6. setting.method = "memory" => sync'.version <= trainer'.step
    BY <1>2 DEF TagsFit
<1> QED BY <1>1, <1>3, <1>5, <1>6 DEF TagsFit

LEMMA TagsStep == TypeOK /\ TypeOK' /\ TagsFit /\ [Next]_vars => TagsFit'
<1> SUFFICES ASSUME TypeOK, TypeOK', TagsFit, [Next]_vars PROVE TagsFit'
    OBVIOUS
<1>0. /\ sync.version \in Nat /\ trainer.step \in Nat
      /\ sync'.version \in Nat /\ trainer'.step \in Nat /\ saved \in Nat
    BY DEF TypeOK, SyncState, TrainerState
<1>1. ASSUME UNCHANGED <<setting, sync, pull>>, trainer'.step >= trainer.step,
             \A e \in Members : /\ explorer'[e].version = explorer[e].version
                                /\ explorer'[e].weights = explorer[e].weights
      PROVE  TagsFit'
    BY <1>0, <1>1, TagsStay
<1>2. ASSUME UNCHANGED <<setting, sync, pull, explorer>>, trainer'.step >= trainer.step
      PROVE  TagsFit'
    BY <1>1, <1>2
<1>3. ASSUME NEW e \in Members, NEW c \in Callers, NEW p \in PullState,
             UNCHANGED <<setting, explorer, trainer>>, sync'.version = sync.version,
             pull' = [pull EXCEPT ![e][c] = p], p.at = "load" => p.answer = sync.version
      PROVE  TagsFit'
    <2>1. \A f \in Members, d \in Callers :
              (f = e /\ d = c /\ pull'[f][d] = p) \/ pull'[f][d] = pull[f][d]
        BY <1>3, OnePull
    <2> QED BY <1>0, <1>3, <2>1, TagsStay
<1>4. ASSUME NEW e \in Members, NEW c \in Callers, WaitNew(e, c),
             UNCHANGED <<setting, explorer, trainer>>
      PROVE  TagsFit'
    BY <1>3, <1>4, WaitOutcomes
<1>5. ASSUME NotifyAll, UNCHANGED setting, sync'.version >= sync.version,
             trainer'.step >= trainer.step,
             setting.method = "memory" => sync'.version = sync.version \/ sync'.version = trainer.step,
             \A e \in Members : /\ explorer'[e].version = explorer[e].version
                                /\ explorer'[e].weights = explorer[e].weights
      PROVE  TagsFit'
    <2>1. \A e \in Members, c \in Callers :
              /\ pull'[e][c].answer = pull[e][c].answer
              /\ pull'[e][c].at = "load" => pull[e][c].at = "load"
        BY <1>5, Notified
    <2> QED BY <1>0, <1>5, <2>1, TagsStay
<1>6. ASSUME NEW e \in Members, LoopStep(e) PROVE TagsFit'
    <2>1. CASE Prepare(e)
        <3>1. \A f \in Members : /\ explorer'[f].version = explorer[f].version
                                 /\ explorer'[f].weights = explorer[f].weights
            BY <2>1 DEF Prepare, TypeOK, ExplorerState
        <3>2. sync'.version = sync.version
            BY <2>1 DEF Prepare, TypeOK, SyncState
        <3>3. UNCHANGED <<setting, pull, trainer>>
            BY <2>1 DEF Prepare
        <3> QED BY <1>0, <3>1, <3>2, <3>3, TagsStay
    <2>2. CASE SyncWeight(e)
        BY <1>4, <2>2 DEF SyncWeight, Callers
    <2>3. CASE ExploreStep(e) \/ EndOfTasks(e) \/ FinishCurrentSteps(e) \/ Finished(e)
        <3>1. \A f \in Members : /\ explorer'[f].version = explorer[f].version
                                 /\ explorer'[f].weights = explorer[f].weights
            BY <2>3 DEF ExploreStep, EndOfTasks, FinishCurrentSteps, Finished, ExplorerAt, TypeOK,
                        ExplorerState
        <3> QED BY <1>0, <1>1, <2>3, <3>1 DEF ExploreStep, EndOfTasks, FinishCurrentSteps, Finished
    <2>4. CASE Stop(e)
        <3>1. \A f \in Members : /\ explorer'[f].version = explorer[f].version
                                 /\ explorer'[f].weights = explorer[f].weights
            BY <2>4 DEF Stop, TypeOK, ExplorerState
        <3>2. sync'.version = sync.version
            BY <2>4 DEF Stop, TypeOK, SyncState
        <3>3. NotifyAll /\ UNCHANGED <<setting, trainer>>
            BY <2>4 DEF Stop
        <3> QED BY <1>0, <1>5, <3>1, <3>2, <3>3
    <2> QED BY <1>6, <2>1, <2>2, <2>3, <2>4 DEF LoopStep
<1>7. ASSUME NEW e \in Members, Watch(e) PROVE TagsFit'
    <2>1. CASE WatchSees(e)
        <3>1. \A f \in Members, d \in Callers :
                  pull'[f][d].at = "load" => pull'[f][d] = pull[f][d]
            BY <2>1 DEF WatchSees, TypeOK, PullState
        <3> QED BY <1>0, <2>1, <3>1, TagsStay DEF WatchSees
    <2>2. CASE WatchPulls(e)
        BY <1>4, <2>2 DEF WatchPulls, Callers
    <2> QED BY <1>7, <2>1, <2>2 DEF Watch
<1>8. ASSUME NEW e \in Members, NEW c \in Callers, Answer(e, c) \/ TimeOut(e, c) PROVE TagsFit'
    <2>1. CASE Answer(e, c)
        <3> DEFINE p == [at |-> "load", answer |-> sync.version]
        <3>1. /\ p \in PullState /\ p.answer = sync.version
              /\ pull' = [pull EXCEPT ![e][c] = p] /\ sync'.version = sync.version
            BY <2>1, AnswerOutcome
        <3>2. UNCHANGED <<setting, explorer, trainer>>
            BY <2>1 DEF Answer
        <3> HIDE DEF p
        <3> QED BY <1>3, <3>1, <3>2
    <2>2. CASE TimeOut(e, c)
        <3>1. \A f \in Members, d \in Callers :
                  pull'[f][d].at = "load" => pull'[f][d] = pull[f][d]
            BY <2>2 DEF TimeOut, TypeOK, PullState
        <3> QED BY <1>0, <2>2, <3>1, TagsStay DEF TimeOut
    <2> QED BY <1>8, <2>1, <2>2
<1>9. ASSUME NEW e \in Members, NEW c \in Callers, Load(e, c) PROVE TagsFit'
    <2> DEFINE answer == pull[e][c].answer
               known == explorer[e].version
    <2>1. /\ pull[e][c].at = "load" /\ answer <= sync.version
          /\ answer \in Nat /\ explorer[e].weights \in Nat
        BY <1>9, Types DEF Load, TagsFit
    <2>2. /\ \A f \in Members : f # e => explorer'[f] = explorer[f]
          /\ explorer'[e].version = IF answer > known THEN answer ELSE known
          /\ explorer'[e].weights =
                 IF answer > known
                 THEN IF known = -1 /\ answer = 0 THEN explorer[e].weights
                      ELSE IF setting.method = "memory" THEN sync.version ELSE answer
                 ELSE explorer[e].weights
        BY <1>9, ZenonT(40) DEF Load, TypeOK, ExplorerState
    <2>3. pull' = [pull EXCEPT ![e][c] = Idle] /\ Idle.at = "idle" /\ Idle \in PullState
        BY <1>9, Bounds DEF Load, Idle, PullState
    <2>4. \A f \in Members, d \in Callers :
              pull'[f][d].at = "load" => pull'[f][d] = pull[f][d]
        BY <2>3, OnePull
    <2> HIDE DEF answer, known
    <2>5. explorer'[e].version <= explorer'[e].weights \/ explorer'[e].version = -1
        <3>1. known <= explorer[e].weights \/ known = -1
            BY DEF TagsFit, known
        <3> QED BY <1>0, <2>1, <2>2, <3>1
    <2>6. UNCHANGED <<setting, sync, trainer>>
        BY <1>9 DEF Load
    <2>7. Members' = Members
        BY <2>6 DEF Members
    <2> QED BY <2>2, <2>4, <2>5, <2>6, <2>7 DEF TagsFit
<1>10. ASSUME NEW e \in Members, NEW c \in Callers, Fail(e, c) PROVE TagsFit'
    <2>1. \A f \in Members : /\ explorer'[f].version = explorer[f].version
                             /\ explorer'[f].weights = explorer[f].weights
        BY <1>10 DEF Fail, TypeOK, ExplorerState
    <2>2. pull' = [pull EXCEPT ![e][c] = Idle] /\ Idle.at = "idle" /\ Idle \in PullState
        BY <1>10, Bounds DEF Fail, Idle, PullState
    <2>3. \A f \in Members, d \in Callers :
              pull'[f][d].at = "load" => pull'[f][d] = pull[f][d]
        BY <2>2, OnePull
    <2>4. UNCHANGED <<setting, sync, trainer>>
        BY <1>10 DEF Fail
    <2> QED BY <1>0, <2>1, <2>3, <2>4, TagsStay
<1>11. ASSUME TrainerStep PROVE TagsFit'
    <2>1. CASE PrepareTrainer
        <3>1. sync'.version = sync.version /\ trainer'.step = trainer.step
            BY <2>1 DEF PrepareTrainer, TrainerAt, TypeOK, SyncState, TrainerState
        <3> QED BY <1>0, <2>1, <3>1, TagsStay DEF PrepareTrainer
    <2>2. CASE Poll \/ AfterTrainStep
        <3>1. trainer'.step = trainer.step
            BY <2>2 DEF Poll, AfterTrainStep, TrainerAt, TypeOK, TrainerState
        <3> QED BY <1>0, <1>2, <2>2, <3>1 DEF Poll, AfterTrainStep
    <2>3. CASE NotifyNoNew
        BY <1>0, <1>5, <2>3 DEF NotifyNoNew
    <2>4. CASE TrainStep
        <3>1. trainer'.step >= trainer.step
            BY <1>0, <2>4 DEF TrainStep, TypeOK, TrainerState
        <3> QED BY <1>2, <2>4, <3>1 DEF TrainStep
    <2>5. CASE TrainerSyncWeight
        <3>1. trainer'.step = trainer.step /\ UNCHANGED <<setting, explorer>>
            BY <2>5 DEF TrainerSyncWeight, TypeOK, TrainerState
        <3>2. CASE UNCHANGED <<sync, pull>>
            BY <1>0, <1>2, <3>1, <3>2
        <3>3. CASE ~UNCHANGED <<sync, pull>>
            <4>1. setting.method = "memory" /\ SetModelStateDict(trainer.step)
                BY <2>5, <3>3 DEF TrainerSyncWeight
            <4>2. sync'.version = trainer.step /\ NotifyAll /\ sync.version <= trainer.step
                BY <4>1 DEF SetModelStateDict, TagsFit, TypeOK, SyncState
            <4> QED BY <1>0, <1>5, <3>1, <4>2
        <3> QED BY <3>2, <3>3
    <2>6. CASE SaveCheckpoint
        <3>1. trainer'.step = trainer.step
            BY <2>6 DEF SaveCheckpoint, TrainerAt, TypeOK, TrainerState
        <3> QED BY <1>0, <1>2, <2>6, <3>1 DEF SaveCheckpoint
    <2>7. CASE StopTraining
        <3>1. sync'.version = sync.version /\ trainer'.step = trainer.step
            BY <2>7 DEF StopTraining, TrainerAt, TypeOK, SyncState, TrainerState
        <3> QED BY <1>0, <1>5, <2>7, <3>1 DEF StopTraining
    <2> QED BY <1>11, <2>1, <2>2, <2>3, <2>4, <2>5, <2>6, <2>7 DEF TrainerStep
<1>12. ASSUME Scan PROVE TagsFit'
    <2>1. setting.method # "memory" /\ sync'.version > sync.version /\ NotifyAll
        BY <1>0, <1>12 DEF Scan, SetModelStateDict, TypeOK, SyncState
    <2> QED BY <1>0, <1>5, <1>12, <2>1 DEF Scan
<1>13. CASE UNCHANGED vars
    BY <1>0, <1>2, <1>13 DEF vars
<1> QED BY <1>6, <1>7, <1>8, <1>9, <1>10, <1>11, <1>12, <1>13 DEF Next, PullStep

\* The version an explorer tags experiences with is never newer than the weights of
\* its models, although a pull hands over whatever the synchronizer holds by then.
THEOREM TagsNotAhead == Spec => []TagNotAhead
<1>1. TagsFit => TagNotAhead
    BY DEF TagsFit, TagNotAhead
<1> QED BY <1>1, TypeInit, TypeStep, TagsInit, TagsStep, PTL DEF Spec

-----------------------------------------------------------------------------
(* Counts: what the synchronizer counts is where the explorers stand.      *)

LoopWaits(e) == pull[e]["loop"].at \in {"wait", "woken"}
InWait == {e \in Members : LoopWaits(e)}
InStop == {e \in Members : explorer[e].pc = "stopped"}
InRun == {e \in Members : explorer[e].pc \notin {"new", "stopped"} /\ ~LoopWaits(e)}

\* Without a watcher an explorer waits only where its loop asked for weights.
OneCaller(e) ==
    /\ pull[e]["watch"].at = "idle" /\ ~explorer[e].watching
    /\ pull[e]["loop"].at # "idle" => explorer[e].pc \in {"start", "sync"}

CountsFit ==
    timeouts = 0 /\ ~Async =>
        /\ \A e \in Members : OneCaller(e)
        /\ sync.REQUIRE_SYNC = Cardinality(InWait)
        /\ sync.STOPPED = Cardinality(InStop)
        /\ sync.RUNNING = Cardinality(InRun)

LEMMA MembersFinite == TypeOK => IsFiniteSet(Members)
BY FS_Subset, WeightPullAssumption DEF TypeOK, Members

\* The sets are finite, and an explorer more or less changes their size by one.
LEMMA Sizes ==
    ASSUME TypeOK
    PROVE  /\ \A S \in SUBSET Members : IsFiniteSet(S) /\ Cardinality(S) \in Nat
           /\ \A S \in SUBSET Members, e \in Members :
                  /\ e \notin S => Cardinality(S \cup {e}) = Cardinality(S) + 1
                  /\ e \in S => Cardinality(S \ {e}) = Cardinality(S) - 1 /\ Cardinality(S) > 0
<1>1. \A S \in SUBSET Members : IsFiniteSet(S) /\ Cardinality(S) \in Nat
    BY MembersFinite, FS_Subset, FS_CardinalityType
<1>2. ASSUME NEW S \in SUBSET Members, NEW e \in Members
      PROVE  /\ e \notin S => Cardinality(S \cup {e}) = Cardinality(S) + 1
             /\ e \in S => Cardinality(S \ {e}) = Cardinality(S) - 1 /\ Cardinality(S) > 0
    <2>1. IsFiniteSet(S) /\ Cardinality(S) \in Nat
        BY <1>1
    <2>2. e \notin S => Cardinality(S \cup {e}) = Cardinality(S) + 1
        BY <2>1, FS_AddElement
    <2>3. e \in S => Cardinality(S \ {e}) = Cardinality(S) - 1
        BY <2>1, FS_RemoveElement
    <2>4. e \in S => Cardinality(S) # 0
        BY <2>1, FS_EmptySet
    <2> QED BY <2>1, <2>2, <2>3, <2>4
<1> QED BY <1>1, <1>2

LEMMA CountsInit == Init => CountsFit
<1> SUFFICES ASSUME Init PROVE CountsFit
    OBVIOUS
<1>1. \A e \in Members : OneCaller(e)
    BY DEF Init, Idle, OneCaller, Callers
<1>2. InWait = {} /\ InStop = {} /\ InRun = {}
    BY DEF Init, Idle, LoopWaits, InWait, InStop, InRun, Callers
<1>3. sync.REQUIRE_SYNC = 0 /\ sync.STOPPED = 0 /\ sync.RUNNING = 0
    BY DEF Init
<1> QED BY <1>1, <1>2, <1>3, FS_EmptySet DEF CountsFit

\* A step after which everybody stands where they stood.
LEMMA CountsStay ==
    ASSUME TypeOK, CountsFit, setting' = setting, timeouts' = timeouts,
           sync'.REQUIRE_SYNC = sync.REQUIRE_SYNC, sync'.STOPPED = sync.STOPPED,
           sync'.RUNNING = sync.RUNNING,
           timeouts = 0 /\ ~Async =>
               \A e \in Members :
                   /\ OneCaller(e)'
                   /\ LoopWaits(e)' <=> LoopWaits(e)
                   /\ explorer'[e].pc \in {"new", "stopped"} \/ explorer[e].pc \in {"new", "stopped"} =>
                          explorer'[e].pc = explorer[e].pc
    PROVE  CountsFit'
<1> SUFFICES ASSUME timeouts = 0, ~Async
             PROVE  /\ \A e \in Members' : OneCaller(e)'
                    /\ sync'.REQUIRE_SYNC = Cardinality(InWait')
                    /\ sync'.STOPPED = Cardinality(InStop')
                    /\ sync'.RUNNING = Cardinality(InRun')
    BY DEF CountsFit, Async
<1>1. Members' = Members
    BY DEF Members
<1>2. InWait' = InWait
    BY <1>1 DEF InWait
<1>3. InStop' = InStop
    BY <1>1 DEF InStop
<1>4. InRun' = InRun
    BY <1>1 DEF InRun
<1> QED BY <1>1, <1>2, <1>3, <1>4 DEF CountsFit

\* A step that only moves the explorers on in their loops.
LEMMA CountsOfLoops ==
    ASSUME TypeOK, CountsFit, UNCHANGED <<setting, timeouts, sync, pull>>,
           \A e \in Members :
               explorer'[e] = explorer[e]
               \/ /\ explorer[e].pc \notin {"new", "stopped", "start", "sync"}
                  /\ explorer'[e].pc \notin {"new", "stopped"}
                  /\ explorer'[e].watching = explorer[e].watching
    PROVE  CountsFit'
<1>1. ASSUME timeouts = 0, ~Async, NEW e \in Members PROVE OneCaller(e)'
    BY <1>1 DEF CountsFit, OneCaller
<1> QED BY <1>1, CountsStay DEF LoopWaits

\* A step that only notifies.
LEMMA CountsOfNotify ==
    ASSUME TypeOK, CountsFit, UNCHANGED <<setting, timeouts, explorer>>, NotifyAll,
           sync'.REQUIRE_SYNC = sync.REQUIRE_SYNC, sync'.STOPPED = sync.STOPPED,
           sync'.RUNNING = sync.RUNNING
    PROVE  CountsFit'
<1>1. \A e \in Members, c \in Callers :
          pull'[e][c].at = IF pull[e][c].at = "wait" THEN "woken" ELSE pull[e][c].at
    BY Notified
<1>2. ASSUME timeouts = 0, ~Async, NEW e \in Members
      PROVE  OneCaller(e)' /\ (LoopWaits(e)' <=> LoopWaits(e))
    BY <1>1, <1>2 DEF CountsFit, OneCaller, LoopWaits, Callers
<1> QED BY <1>2, CountsStay

\* The loop of one explorer asks, waits, and is answered; the others stay.
LEMMA CountsOfPull ==
    ASSUME TypeOK, CountsFit, UNCHANGED <<setting, timeouts, explorer>>,
           NEW e \in Members, NEW p \in PullState, pull' = [pull EXCEPT ![e]["loop"] = p],
           explorer[e].pc \in {"start", "sync"},
           sync'.STOPPED = sync.STOPPED,
           timeouts = 0 /\ ~Async =>
               \/ /\ sync'.REQUIRE_SYNC = sync.REQUIRE_SYNC /\ sync'.RUNNING = sync.RUNNING
                  /\ LoopWaits(e) <=> p.at \in {"wait", "woken"}
               \/ /\ sync'.REQUIRE_SYNC = sync.REQUIRE_SYNC + 1 /\ sync'.RUNNING = sync.RUNNING - 1
                  /\ ~LoopWaits(e) /\ p.at \in {"wait", "woken"}
               \/ /\ sync'.REQUIRE_SYNC = sync.REQUIRE_SYNC - 1 /\ sync'.RUNNING = sync.RUNNING + 1
                  /\ LoopWaits(e) /\ p.at \notin {"wait", "woken"}
    PROVE  CountsFit'
<1>0. "loop" \in Callers /\ "watch" \in Callers /\ Members' = Members
    BY DEF Callers, Members
<1>1. /\ pull'[e]["loop"] = p
      /\ \A f \in Members, d \in Callers : f # e \/ d # "loop" => pull'[f][d] = pull[f][d]
    <2>1. PICK c \in Callers : c = "loop"
        BY <1>0
    <2>2. pull' = [pull EXCEPT ![e][c] = p]
        BY <2>1
    <2>3. /\ pull'[e][c] = p
          /\ \A f \in Members, d \in Callers : f # e \/ d # c => pull'[f][d] = pull[f][d]
        BY <2>2 DEF TypeOK
    <2> QED BY <2>1, <2>3
<1>2. ASSUME timeouts = 0, ~Async
      PROVE  /\ \A f \in Members : OneCaller(f)'
             /\ sync'.REQUIRE_SYNC = Cardinality(InWait')
             /\ sync'.STOPPED = Cardinality(InStop')
             /\ sync'.RUNNING = Cardinality(InRun')
    <2>1. \A f \in Members : OneCaller(f)'
        <3>1. \A f \in Members : OneCaller(f)
            BY <1>2 DEF CountsFit
        <3> QED BY <1>0, <1>1, <3>1 DEF OneCaller
    <2>2. InWait \subseteq Members /\ InRun \subseteq Members
        BY DEF InWait, InRun
    <2>3. /\ sync.REQUIRE_SYNC = Cardinality(InWait)
          /\ sync.STOPPED = Cardinality(InStop)
          /\ sync.RUNNING = Cardinality(InRun)
        BY <1>2 DEF CountsFit
    <2>4. \A f \in Members : f # e => (LoopWaits(f)' <=> LoopWaits(f))
        BY <1>0, <1>1 DEF LoopWaits
    <2>5. LoopWaits(e)' <=> p.at \in {"wait", "woken"}
        BY <1>1 DEF LoopWaits
    <2>6. InStop' = InStop
        BY <1>0 DEF InStop
    <2>7. CASE LoopWaits(e) <=> p.at \in {"wait", "woken"}
        <3>1. InWait' = InWait /\ InRun' = InRun
            BY <1>0, <2>4, <2>5, <2>7 DEF InWait, InRun
        <3> QED BY <1>2, <2>1, <2>3, <2>6, <2>7, <3>1
    <2>8. CASE ~LoopWaits(e) /\ p.at \in {"wait", "woken"}
        <3>1. InWait' = InWait \cup {e} /\ e \notin InWait
            BY <1>0, <2>4, <2>5, <2>8 DEF InWait
        <3>2. InRun' = InRun \ {e} /\ e \in InRun
            BY <1>0, <2>4, <2>5, <2>8 DEF InRun
        <3> QED BY <1>2, <2>1, <2>2, <2>3, <2>6, <2>8, <3>1, <3>2, Sizes
    <2>9. CASE LoopWaits(e) /\ p.at \notin {"wait", "woken"}
        <3>1. InWait' = InWait \ {e} /\ e \in InWait
            BY <1>0, <2>4, <2>5, <2>9 DEF InWait
        <3>2. InRun' = InRun \cup {e} /\ e \notin InRun
            BY <1>0, <2>4, <2>5, <2>9 DEF InRun
        <3> QED BY <1>2, <2>1, <2>2, <2>3, <2>6, <2>9, <3>1, <3>2, Sizes
    <2> QED BY <2>7, <2>8, <2>9
<1> QED BY <1>0, <1>2 DEF CountsFit, Async

LEMMA CountsStep == TypeOK /\ TypeOK' /\ CountsFit /\ [Next]_vars => CountsFit'
<1> SUFFICES ASSUME TypeOK, TypeOK', CountsFit, [Next]_vars PROVE CountsFit'
    OBVIOUS
<1>0. /\ Members' = Members \/ setting' # setting
      /\ "loop" \in Callers /\ "watch" \in Callers
    BY DEF Members, Callers
<1>1. ASSUME UNCHANGED <<setting, timeouts, explorer, pull, sync>> PROVE CountsFit'
    BY <1>1, CountsOfLoops
<1>2. ASSUME UNCHANGED setting, Async PROVE CountsFit'
    BY <1>2 DEF CountsFit, Async
<1>3. ASSUME NEW e \in Members, Prepare(e) PROVE CountsFit'
    <2>1. /\ UNCHANGED <<setting, timeouts, pull>> /\ explorer[e].pc = "new"
          /\ \A f \in Members : f # e => explorer'[f] = explorer[f]
          /\ explorer'[e].pc = "start" /\ explorer'[e].watching = Async
          /\ sync'.RUNNING = sync.RUNNING + 1 /\ sync'.REQUIRE_SYNC = sync.REQUIRE_SYNC
          /\ sync'.STOPPED = sync.STOPPED
        BY <1>3 DEF Prepare, TypeOK, ExplorerState, SyncState
    <2>2. ASSUME timeouts = 0, ~Async
          PROVE  /\ \A f \in Members : OneCaller(f)'
                 /\ sync'.REQUIRE_SYNC = Cardinality(InWait')
                 /\ sync'.STOPPED = Cardinality(InStop')
                 /\ sync'.RUNNING = Cardinality(InRun')
        <3>1. \A f \in Members : OneCaller(f)
            BY <2>2 DEF CountsFit
        <3>2. \A f \in Members : OneCaller(f)'
            BY <2>1, <2>2, <3>1 DEF OneCaller
        <3>3. ~LoopWaits(e)
            BY <2>1, <3>1 DEF OneCaller, LoopWaits
        <3>4. Members' = Members
            BY <1>0, <2>1
        <3>5. InWait' = InWait /\ InStop' = InStop
            BY <2>1, <3>4 DEF InWait, InStop, LoopWaits
        <3>6. InRun' = InRun \cup {e} /\ e \notin InRun /\ InRun \subseteq Members
            BY <2>1, <3>3, <3>4 DEF InRun, LoopWaits
        <3> QED BY <2>1, <2>2, <3>2, <3>5, <3>6, Sizes DEF CountsFit
    <2> QED BY <1>0, <2>1, <2>2 DEF CountsFit, Async
<1>4. ASSUME NEW e \in Members, SyncWeight(e) PROVE CountsFit'
    <2>1. /\ pull[e]["loop"].at = "idle" /\ explorer[e].pc \in {"start", "sync"}
          /\ WaitNew(e, "loop") /\ UNCHANGED <<setting, timeouts, explorer>>
        BY <1>4 DEF SyncWeight
    <2>2. ~LoopWaits(e)
        BY <2>1 DEF LoopWaits
    <2>3. ASSUME timeouts = 0, ~Async PROVE sync.RUNNING > 0
        <3>1. e \in InRun /\ InRun \subseteq Members
            BY <2>1, <2>2 DEF InRun
        <3> QED BY <2>3, <3>1, Sizes DEF CountsFit
    <2>4. PICK p \in PullState :
              /\ pull' = [pull EXCEPT ![e]["loop"] = p]
              /\ \/ /\ p.at = "failed" /\ sync'.REQUIRE_SYNC = sync.REQUIRE_SYNC
                    /\ sync' = sync \/ sync.RUNNING <= 0
                 \/ /\ p.at = "wait"
                    /\ sync'.REQUIRE_SYNC = sync.REQUIRE_SYNC + 1
                    /\ sync'.RUNNING = sync.RUNNING - 1
                 \/ p.at = "load" /\ p.answer = sync.version /\ sync' = sync
        BY <1>0, <2>1, WaitOutcomes
    <2>5. sync'.STOPPED = sync.STOPPED
        BY <1>0, <2>1, WaitOutcomes
    <2>6. timeouts = 0 /\ ~Async => ~(sync.RUNNING <= 0)
        BY <2>3, Types
    <2> QED BY <2>1, <2>2, <2>4, <2>5, <2>6, CountsOfPull
<1>5. ASSUME NEW e \in Members, Watch(e) PROVE CountsFit'
    <2>1. UNCHANGED <<setting, timeouts>> /\ explorer[e].watching
        BY <1>5 DEF Watch, WatchSees, WatchPulls
    <2> QED BY <2>1 DEF CountsFit, OneCaller, Async
<1>6. ASSUME NEW e \in Members, NEW c \in Callers, pull[e][c].at # "idle", ~Async, timeouts = 0
      PROVE  c = "loop" /\ explorer[e].pc \in {"start", "sync"}
    BY <1>6 DEF CountsFit, OneCaller, Callers
<1>7. ASSUME NEW e \in Members, NEW c \in Callers, Answer(e, c) PROVE CountsFit'
    <2>1. pull[e][c].at = "woken" /\ UNCHANGED <<setting, timeouts, explorer>>
        BY <1>7 DEF Answer
    <2>2. CASE ~Async /\ timeouts = 0
        <3> DEFINE p == [at |-> "load", answer |-> sync.version]
        <3>1. c = "loop" /\ explorer[e].pc \in {"start", "sync"} /\ LoopWaits(e)
            BY <1>6, <2>1, <2>2 DEF LoopWaits
        <3>2. /\ p \in PullState /\ p.at = "load" /\ pull' = [pull EXCEPT ![e]["loop"] = p]
              /\ sync'.STOPPED = sync.STOPPED
              /\ sync'.RUNNING = sync.RUNNING + 1 /\ sync'.REQUIRE_SYNC = sync.REQUIRE_SYNC - 1
            BY <1>7, <3>1, AnswerOutcome
        <3> HIDE DEF p
        <3> QED BY <2>1, <3>1, <3>2, CountsOfPull
    <2> QED BY <2>1, <2>2 DEF CountsFit, Async
<1>8. ASSUME NEW e \in Members, NEW c \in Callers, TimeOut(e, c) PROVE CountsFit'
    BY <1>8, Types, Bounds DEF TimeOut, CountsFit
<1>9. ASSUME NEW e \in Members, NEW c \in Callers, Load(e, c) \/ Fail(e, c) PROVE CountsFit'
    <2>1. /\ UNCHANGED <<setting, timeouts, sync>> /\ pull[e][c].at \in {"load", "failed"}
          /\ pull' = [pull EXCEPT ![e][c] = Idle] /\ Idle.at = "idle" /\ Idle \in PullState
        BY <1>9, Bounds DEF Load, Fail, Idle, PullState
    <2>2. CASE ~Async /\ timeouts = 0
        <3>1. c = "loop" /\ explorer[e].pc \in {"start", "sync"} /\ ~LoopWaits(e)
            BY <1>6, <2>1, <2>2 DEF LoopWaits
        <3>2. /\ \A f \in Members : f # e => explorer'[f] = explorer[f]
              /\ explorer'[e].pc \in {"explore", "dead"}
              /\ explorer'[e].watching => explorer[e].watching
            BY <1>9, <3>1 DEF Load, Fail, Continue, TypeOK, ExplorerState
        <3>3. /\ pull'[e]["loop"].at = "idle"
              /\ \A f \in Members, d \in Callers : f # e \/ d # "loop" => pull'[f][d] = pull[f][d]
            <4>1. /\ pull'[e][c] = Idle
                  /\ \A f \in Members, d \in Callers : f # e \/ d # c => pull'[f][d] = pull[f][d]
                BY <2>1 DEF TypeOK
            <4> QED BY <2>1, <3>1, <4>1
        <3>4. \A f \in Members : OneCaller(f)'
            <4>1. \A f \in Members : OneCaller(f)
                BY <2>2 DEF CountsFit
            <4> QED BY <1>0, <3>2, <3>3, <4>1 DEF OneCaller
        <3>5. \A f \in Members : LoopWaits(f)' <=> LoopWaits(f)
            BY <1>0, <3>1, <3>3 DEF LoopWaits
        <3> QED BY <2>1, <3>1, <3>2, <3>4, <3>5, CountsStay
    <2> QED BY <2>1, <2>2 DEF CountsFit, Async
<1>10. ASSUME NEW e \in Members,
              ExploreStep(e) \/ EndOfTasks(e) \/ FinishCurrentSteps(e)
       PROVE  CountsFit'
    <2>1. UNCHANGED <<setting, timeouts, sync, pull>> /\ explorer[e] \in ExplorerState
        BY <1>10, Types DEF ExploreStep, EndOfTasks, FinishCurrentSteps
    <2>2. /\ \A f \in Members : f # e => explorer'[f] = explorer[f]
          /\ explorer[e].pc \in {"explore", "finish", "over"}
          /\ explorer'[e].pc \in {"explore", "finish", "over"}
          /\ explorer'[e].watching = explorer[e].watching
        BY <1>10, <2>1 DEF ExploreStep, EndOfTasks, FinishCurrentSteps, ExplorerAt, TypeOK,
                           ExplorerState
    <2> QED BY <2>1, <2>2, CountsOfLoops
<1>11. ASSUME NEW e \in Members, Finished(e) PROVE CountsFit'
    <2>1. UNCHANGED <<setting, timeouts, sync, pull>> /\ explorer[e] \in ExplorerState
        BY <1>11, Types DEF Finished
    <2>2. /\ \A f \in Members : f # e => explorer'[f] = explorer[f]
          /\ explorer[e].pc = "finish" /\ explorer'[e].pc = "sync"
          /\ explorer'[e].watching = explorer[e].watching
        BY <1>11, <2>1 DEF Finished, ExplorerAt, TypeOK, ExplorerState
    <2> QED BY <2>1, <2>2, CountsOfLoops
<1>12. ASSUME NEW e \in Members, Stop(e) PROVE CountsFit'
    <2>1. /\ UNCHANGED <<setting, timeouts>> /\ explorer[e].pc = "over" /\ NotifyAll
          /\ \A f \in Members : f # e => explorer'[f] = explorer[f]
          /\ explorer'[e].pc = "stopped" /\ ~explorer'[e].watching
          /\ sync'.RUNNING = sync.RUNNING - 1 /\ sync'.REQUIRE_SYNC = sync.REQUIRE_SYNC
          /\ sync'.STOPPED = sync.STOPPED + 1
        BY <1>12 DEF Stop, TypeOK, ExplorerState, SyncState
    <2>2. \A f \in Members, c \in Callers :
              pull'[f][c].at = IF pull[f][c].at = "wait" THEN "woken" ELSE pull[f][c].at
        BY <2>1, Notified
    <2>3. ASSUME timeouts = 0, ~Async
          PROVE  /\ \A f \in Members : OneCaller(f)'
                 /\ sync'.REQUIRE_SYNC = Cardinality(InWait')
                 /\ sync'.STOPPED = Cardinality(InStop')
                 /\ sync'.RUNNING = Cardinality(InRun')
        <3>1. \A f \in Members : OneCaller(f)
            BY <2>3 DEF CountsFit
        <3>2. ~LoopWaits(e) /\ pull[e]["loop"].at = "idle"
            BY <2>1, <3>1 DEF OneCaller, LoopWaits
        <3>3. \A f \in Members : OneCaller(f)'
            BY <1>0, <2>1, <2>2, <3>1, <3>2 DEF OneCaller
        <3>4. Members' = Members
            BY <1>0, <2>1
        <3>5. \A f \in Members : LoopWaits(f)' <=> LoopWaits(f)
            BY <1>0, <2>2 DEF LoopWaits
        <3>6. InWait' = InWait
            BY <3>4, <3>5 DEF InWait
        <3>7. InStop' = InStop \cup {e} /\ e \notin InStop /\ InStop \subseteq Members
            BY <2>1, <3>4 DEF InStop
        <3>8. InRun' = InRun \ {e} /\ e \in InRun /\ InRun \subseteq Members
            BY <2>1, <3>2, <3>4, <3>5 DEF InRun
        <3> QED BY <2>1, <2>3, <3>3, <3>6, <3>7, <3>8, Sizes DEF CountsFit
    <2> QED BY <1>0, <2>1, <2>3 DEF CountsFit, Async
<1>13. ASSUME TrainerStep PROVE CountsFit'
    <2>1. CASE PrepareTrainer
        <3>1. /\ UNCHANGED <<setting, timeouts, explorer, pull>>
              /\ sync'.REQUIRE_SYNC = sync.REQUIRE_SYNC /\ sync'.STOPPED = sync.STOPPED
              /\ sync'.RUNNING = sync.RUNNING
            BY <2>1 DEF PrepareTrainer, TypeOK, SyncState
        <3>2. \A e \in Members : LoopWaits(e)' <=> LoopWaits(e)
            BY <3>1 DEF LoopWaits
        <3>3. timeouts = 0 /\ ~Async => \A e \in Members : OneCaller(e)'
            BY <3>1 DEF CountsFit, OneCaller
        <3> QED BY <3>1, <3>2, <3>3, CountsStay
    <2>2. CASE Poll \/ TrainStep \/ AfterTrainStep \/ SaveCheckpoint
        BY <1>1, <2>2 DEF Poll, TrainStep, AfterTrainStep, SaveCheckpoint
    <2>3. CASE NotifyNoNew
        BY <2>3, CountsOfNotify DEF NotifyNoNew
    <2>4. CASE TrainerSyncWeight
        <3>1. UNCHANGED <<setting, timeouts, explorer>>
            BY <2>4 DEF TrainerSyncWeight
        <3>2. CASE UNCHANGED <<sync, pull>>
            BY <1>1, <3>1, <3>2
        <3>3. CASE SetModelStateDict(trainer.step)
            <4>1. /\ NotifyAll /\ sync'.REQUIRE_SYNC = sync.REQUIRE_SYNC
                  /\ sync'.STOPPED = sync.STOPPED /\ sync'.RUNNING = sync.RUNNING
                BY <3>3 DEF SetModelStateDict, TypeOK, SyncState
            <4> QED BY <3>1, <4>1, CountsOfNotify
        <3> QED BY <2>4, <3>2, <3>3 DEF TrainerSyncWeight
    <2>5. CASE StopTraining
        <3>1. /\ UNCHANGED <<setting, timeouts, explorer>> /\ NotifyAll
              /\ sync'.REQUIRE_SYNC = sync.REQUIRE_SYNC /\ sync'.STOPPED = sync.STOPPED
              /\ sync'.RUNNING = sync.RUNNING
            BY <2>5 DEF StopTraining, TypeOK, SyncState
        <3> QED BY <3>1, CountsOfNotify
    <2> QED BY <1>13, <2>1, <2>2, <2>3, <2>4, <2>5 DEF TrainerStep
<1>14. ASSUME Scan PROVE CountsFit'
    <2>1. /\ UNCHANGED <<setting, timeouts, explorer>> /\ NotifyAll
          /\ sync'.REQUIRE_SYNC = sync.REQUIRE_SYNC /\ sync'.STOPPED = sync.STOPPED
          /\ sync'.RUNNING = sync.RUNNING
        BY <1>14 DEF Scan, SetModelStateDict, TypeOK, SyncState
    <2> QED BY <2>1, CountsOfNotify
<1>15. CASE UNCHANGED vars
    BY <1>1, <1>15 DEF vars
<1> QED BY <1>3, <1>4, <1>5, <1>7, <1>8, <1>9, <1>10, <1>11, <1>12, <1>13, <1>14, <1>15
        DEF Next, LoopStep, PullStep

\* The counts by which the trainer decides whether to sync are those of the
\* explorers, until a wait has run into its timeout.
THEOREM CountsTrue == Spec => []CountsAreTrue
<1>1. TypeOK /\ CountsFit => CountsAreTrue
    <2> SUFFICES ASSUME TypeOK, CountsFit, timeouts = 0, ~Async
                 PROVE  /\ sync.REQUIRE_SYNC = Cardinality({e \in Members : Waiting(e)})
                        /\ sync.STOPPED = Cardinality({e \in Members : explorer[e].pc = "stopped"})
                        /\ sync.RUNNING = Cardinality({e \in Members :
                               explorer[e].pc \notin {"new", "stopped"} /\ ~Waiting(e)})
        BY DEF CountsAreTrue
    <2>1. \A e \in Members : Waiting(e) <=> LoopWaits(e)
        BY DEF CountsFit, OneCaller, Waiting, LoopWaits, Callers
    <2>2. InWait = {e \in Members : Waiting(e)}
        BY <2>1 DEF InWait
    <2>3. InRun = {e \in Members : explorer[e].pc \notin {"new", "stopped"} /\ ~Waiting(e)}
        BY <2>1 DEF InRun
    <2> QED BY <2>2, <2>3 DEF CountsFit, InStop
<1> QED BY <1>1, TypeInit, TypeStep, CountsInit, CountsStep, PTL DEF Spec

-----------------------------------------------------------------------------
(* Multiples.                                                              *)

\* Quotient and remainder.
LEMMA DivMod ==
    ASSUME NEW n \in Nat \ {0}, NEW a \in Nat
    PROVE  a \div n \in Nat /\ a % n \in 0 .. n - 1 /\ a = n * (a \div n) + (a % n)
OBVIOUS

\* A multiple of n is n times a number.
LEMMA Quotient ==
    ASSUME NEW n \in Nat \ {0}, NEW v \in Nat, v % n = 0
    PROVE  \E q \in Nat : v = n * q
<1>1. v \div n \in Nat /\ v = n * (v \div n) + 0
    BY DivMod
<1> QED BY <1>1

\* Two multiples of n are at least n apart.
LEMMA MultiplesApart ==
    ASSUME NEW n \in Nat \ {0}, NEW a \in Nat, NEW v \in Nat, a % n = 0, v % n = 0, a > v
    PROVE  a >= v + n
<1>1. PICK p \in Nat : a = n * p
    BY Quotient
<1>2. PICK q \in Nat : v = n * q
    BY Quotient
<1>3. p >= q + 1
    <2>1. p \in Nat /\ q \in Nat /\ ~(p >= q + 1) => p <= q
      OBVIOUS
    <2>2. p <= q => n * p <= n * q
      OBVIOUS
    <2> QED BY <1>1, <1>2, <2>1, <2>2
<1>4. n * p >= n * (q + 1)
    BY <1>3
<1> QED BY <1>1, <1>2, <1>4

\* n times a number is a multiple of n.
LEMMA MultipleOf ==
    ASSUME NEW n \in Nat \ {0}, NEW p \in Nat
    PROVE  (n * p) % n = 0
<1> DEFINE a == n * p
<1>0. a \in Nat
    OBVIOUS
<1>1. a % n \in 0 .. n - 1 /\ a \div n \in Nat /\ a = n * (a \div n) + (a % n)
    BY <1>0, DivMod
<1> DEFINE d == a \div n   r == a % n
<1>2. n * p = n * d + r /\ r \in 0 .. n - 1 /\ d \in Nat
    BY <1>1
<1> HIDE DEF d, r, a
<1>3. p = d
    <2>1. ~(p >= d + 1)
        <3>1. p >= d + 1 => n * p >= n * (d + 1)
            BY <1>2
        <3> QED BY <1>2, <3>1
    <2>2. ~(d >= p + 1)
        <3>1. d >= p + 1 => n * d >= n * (p + 1)
            BY <1>2
        <3> QED BY <1>2, <3>1
    <2> QED BY <2>1, <2>2, <1>2
<1>4. r = 0
    BY <1>2, <1>3
<1> QED BY <1>4 DEF r, a

\* n after a multiple of n comes the next one.
LEMMA NextMultiple ==
    ASSUME NEW n \in Nat \ {0}, NEW v \in Nat, v % n = 0
    PROVE  (v + n) % n = 0
<1>1. PICK q \in Nat : v = n * q
    BY Quotient
<1>2. v + n = n * (q + 1) /\ q + 1 \in Nat
    BY <1>1
<1> QED BY <1>2, MultipleOf

\* A multiple of a multiple of n is a multiple of n.
LEMMA MultiplesCompose ==
    ASSUME NEW n \in Nat \ {0}, NEW s \in Nat \ {0}, NEW v \in Nat, s % n = 0, v % s = 0
    PROVE  v % n = 0
<1>1. PICK q \in Nat : v = s * q
    BY Quotient
<1>2. PICK p \in Nat : s = n * p
    BY Quotient
<1>3. v = n * (p * q) /\ p * q \in Nat
    BY <1>1, <1>2
<1> QED BY <1>3, MultipleOf

-----------------------------------------------------------------------------
(* Lock step: one explorer and the trainer, with the same interval.  The   *)
(* trainer publishes multiples of the interval, each once, and never ahead *)
(* of the steps that are finished; the explorer asks after every interval, *)
(* waits for a version newer than its own, and so is never further ahead   *)
(* than the interval and the offset.                                       *)

\* The samples of a single explorer.
LEMMA SampledOfOne ==
    ASSUME NEW m, Members = {m}, explorer[m].done \in Nat
    PROVE  Sampled = explorer[m].done
<1> DEFINE F == [s \in SUBSET {m} |-> IF s = {} THEN 0
                    ELSE explorer[CHOOSE x \in s : TRUE].done + 0]
           G == CHOOSE g : g = [s \in SUBSET {m} |-> IF s = {} THEN 0
                    ELSE explorer[CHOOSE x \in s : TRUE].done
                           + g[s \ {CHOOSE x \in s : TRUE}]]
<1>1. \A s \in SUBSET {m} : s # {} => s = {m} /\ (CHOOSE x \in s : TRUE) = m
    OBVIOUS
<1>2. F = [s \in SUBSET {m} |-> IF s = {} THEN 0
                    ELSE explorer[CHOOSE x \in s : TRUE].done
                           + F[s \ {CHOOSE x \in s : TRUE}]]
    <2>1. \A s \in SUBSET {m} : s # {} => F[s \ {CHOOSE x \in s : TRUE}] = 0
        BY <1>1
    <2> QED BY <2>1
<1>3. G = [s \in SUBSET {m} |-> IF s = {} THEN 0
                    ELSE explorer[CHOOSE x \in s : TRUE].done
                           + G[s \ {CHOOSE x \in s : TRUE}]]
    <2> HIDE DEF F
    <2> QED BY <1>2
<1>4. G[{}] = 0 /\ G[{m}] = explorer[m].done + 0
    <2> HIDE DEF G
    <2> QED BY <1>1, <1>3
<1>5. Sampled = G[{m}]
    BY Zenon DEF Sampled, MapThenSumSet, MapThenFoldSet
<1> QED BY <1>4, <1>5

Interval == setting.trainer_interval
Ahead == setting.trainer_interval + setting.offset
Due(step) == step % setting.trainer_interval = 0

\* The weights and the version agree unless the trainer may publish twice.
Exact == setting.method = "checkpoint" \/ setting.offset < setting.trainer_interval

\* What is published was due, and is published once.
Published ==
    /\ Due(sync.version) /\ sync.version <= trainer.step
    /\ Due(saved) /\ saved <= trainer.step
    /\ trainer.last_sync <= trainer.step
    /\ setting.method = "memory" => sync.version <= trainer.last_sync
    /\ trainer.pc = "new" => trainer.step = 0
    /\ trainer.pc # "new" => sync.trainer_status = "RUNNING"
    /\ trainer.pc \in {"sync", "save"} => Due(trainer.step)
    /\ trainer.pc = "sync" /\ trainer.step > 0 => trainer.last_sync # trainer.step

\* The pull of the explorer: it waits for a version newer than its own, and gets one.
Pulled(e) ==
    /\ ~explorer[e].watching /\ pull[e]["watch"].at = "idle"
    /\ pull[e]["loop"].at # "idle" => explorer[e].pc \in {"start", "sync"}
    /\ pull[e]["loop"].at \in {"wait", "woken"} => explorer[e].pc = "sync"
    /\ pull[e]["loop"].at = "wait" => sync.version = explorer[e].version
    /\ pull[e]["loop"].at = "woken" => sync.version > explorer[e].version
    /\ pull[e]["loop"].at = "load" =>
         /\ pull[e]["loop"].answer > explorer[e].version
         /\ pull[e]["loop"].answer <= sync.version
         /\ Due(pull[e]["loop"].answer)
         /\ explorer[e].pc = "start" => pull[e]["loop"].answer = 0

\* The explorer: behind the trainer in versions, ahead of it in steps, by no more than
\* the interval and the offset.
Paced(e) ==
    /\ trainer.step <= explorer[e].done
    /\ explorer[e].pc \in {"new", "start"} =>
         /\ explorer[e].version = -1 /\ explorer[e].weights = 0
         /\ explorer[e].done = 0 /\ explorer[e].step = 0
    /\ trainer.pc = "new" => explorer[e].pc \in {"new", "start"} /\ pull[e]["loop"].at = "idle"
    /\ explorer[e].pc \in {"explore", "finish", "sync"} =>
         /\ explorer[e].version >= 0 /\ Due(explorer[e].version)
         /\ explorer[e].version <= sync.version
         /\ explorer[e].step <= explorer[e].version + Ahead
         /\ Exact => explorer[e].weights = explorer[e].version
    /\ explorer[e].pc = "explore" => explorer[e].step < explorer[e].version + Ahead
    /\ explorer[e].pc = "sync" => explorer[e].done = explorer[e].step

Pace ==
    LockStep /\ trainer.pc # "stopped" =>
        Published /\ \A e \in Members : Pulled(e) /\ Paced(e)

\* The configurations of lock step have one explorer, and count in whole steps.
LEMMA Locked ==
    ASSUME TypeOK, LockStep
    PROVE  /\ Interval \in Nat \ {0} /\ setting.offset \in Nat /\ setting.save_interval \in Nat
           /\ Interval = setting.explorer_interval
           /\ Ahead \in Nat /\ Ahead = Interval + setting.offset
           /\ setting.method = "memory" \/ setting.method = "checkpoint"
           /\ ~Async /\ setting.style # "explorer_driven" /\ setting.launch = "both"
           /\ Due(0)
           /\ \A e \in Members : Members = {e}
<1>1. setting \in Settings
    BY DEF TypeOK
<1>2. /\ Interval \in Nat \ {0} /\ setting.offset \in Nat /\ setting.save_interval \in Nat
      /\ setting.method \in {"memory", "checkpoint"}
      /\ setting.launch = "both" => Cardinality(setting.members) = 1
      /\ setting.members \subseteq Explorers
    BY <1>1, WeightPullAssumption DEF Interval
<1>3. \A e \in Members : Members = {e}
    <2>1. IsFiniteSet(Members) /\ Cardinality(Members) = 1
        BY <1>2, WeightPullAssumption, FS_Subset DEF LockStep, Members
    <2>2. PICK m : Members = {m}
        BY <2>1, FS_Singleton
    <2> QED BY <2>2
<1>4. Due(0)
    <2>1. (Interval * 0) % Interval = 0
        BY <1>2, MultipleOf
    <2>2. Interval * 0 = 0
        BY <1>2
    <2> QED BY <2>1, <2>2 DEF Due, Interval
<1>5. setting.style # "fully_async" /\ setting.style # "explorer_driven"
    BY DEF LockStep
<1> QED BY <1>2, <1>3, <1>4, <1>5 DEF LockStep, Interval, Ahead, Async

\* Lock step at the start.
LEMMA PaceInit == Init => Pace
<1> SUFFICES ASSUME Init, LockStep
             PROVE  Published /\ \A e \in Members : Pulled(e) /\ Paced(e)
    BY DEF Pace
<1>1. Due(0)
    BY TypeInit, Locked
<1>2. /\ sync.version = 0 /\ saved = 0 /\ trainer.step = 0 /\ trainer.last_sync = 0
      /\ trainer.pc = "new"
    BY DEF Init
<1>3. Published
    BY <1>1, <1>2 DEF Published
<1>4. ASSUME NEW e \in Members PROVE Pulled(e) /\ Paced(e)
    <2>1. /\ explorer[e].pc = "new" /\ explorer[e].version = -1 /\ explorer[e].weights = 0
          /\ explorer[e].done = 0 /\ explorer[e].step = 0 /\ ~explorer[e].watching
        BY DEF Init
    <2>2. pull[e]["watch"].at = "idle" /\ pull[e]["loop"].at = "idle"
        BY DEF Init, Idle, Callers
    <2>3. Pulled(e)
        BY <2>1, <2>2 DEF Pulled
    <2>4. Paced(e)
        BY <1>2, <2>1, <2>2 DEF Paced
    <2> QED BY <2>3, <2>4
<1> QED BY <1>3, <1>4

\* A step of lock step, in the terms of the present configuration.
LEMMA PaceGoal ==
    ASSUME TypeOK, Pace, setting' = setting,
           LockStep /\ trainer.pc # "stopped" /\ trainer'.pc # "stopped"
             /\ Published /\ (\A e \in Members : Pulled(e) /\ Paced(e))
             => Published' /\ \A e \in Members : Pulled(e)' /\ Paced(e)',
           trainer.pc = "stopped" => trainer'.pc = "stopped"
    PROVE  Pace'
<1>1. Members' = Members /\ (LockStep' <=> LockStep)
    BY DEF Members, LockStep
<1> QED BY <1>1 DEF Pace

\* A step of the explorer keeps what is published.
LEMMA PublishedStays ==
    ASSUME Published, setting' = setting, trainer' = trainer, saved' = saved,
           sync'.version = sync.version, sync'.trainer_status = sync.trainer_status
    PROVE  Published'
BY DEF Published, Due

\* A step of the explorer, in the terms of its records.
LEMMA PaceOfExplorer ==
    ASSUME TypeOK, Pace, NEW e \in Members,
           setting' = setting, trainer' = trainer, saved' = saved,
           LockStep /\ trainer.pc # "stopped" /\ Published /\ Pulled(e) /\ Paced(e)
             => /\ sync'.version = sync.version
                /\ sync'.trainer_status = sync.trainer_status
                /\ Pulled(e)' /\ Paced(e)'
    PROVE  Pace'
<1>1. ASSUME LockStep, trainer.pc # "stopped", Published,
             \A f \in Members : Pulled(f) /\ Paced(f)
      PROVE  Published' /\ \A f \in Members : Pulled(f)' /\ Paced(f)'
    <2>1. Members = {e}
        BY <1>1, Locked
    <2>2. Published'
        BY <1>1, PublishedStays
    <2>3. Pulled(e)' /\ Paced(e)'
        BY <1>1
    <2> QED BY <2>1, <2>2, <2>3
<1> QED BY <1>1, PaceGoal

\* A call of wait_new_model_state_dict by an explorer that is not ahead of the
\* synchronizer and a trainer that runs: it fails, waits for a newer version or has it.
LEMMA WaitForNew ==
    ASSUME TypeOK, NEW e \in Members, WaitNew(e, "loop"), sync.trainer_status = "RUNNING"
    PROVE  /\ sync'.version = sync.version /\ sync'.trainer_status = sync.trainer_status
           /\ \E p \in PullState :
                /\ pull' = [pull EXCEPT ![e]["loop"] = p]
                /\ \/ p.at = "failed"
                   \/ p.at = "wait" /\ sync.version = explorer[e].version
                   \/ /\ p.at = "load" /\ p.answer = sync.version
                      /\ sync.version > explorer[e].version
<1>1. /\ sync \in SyncState /\ sync.version \in 0 .. MaxStep
      /\ explorer[e].version \in -1 .. MaxStep
    BY Types
<1>2. 0 \in 0 .. MaxStep
    BY Bounds
<1> DEFINE required == [sync EXCEPT !.RUNNING = @ - 1, !.REQUIRE_SYNC = @ + 1]
           result ==
            IF sync.version < explorer[e].version THEN <<sync, [Idle EXCEPT !.at = "failed"]>>
            ELSE IF sync.RUNNING <= 0
            THEN <<[sync EXCEPT !.RUNNING = @ - 1], [Idle EXCEPT !.at = "failed"]>>
            ELSE IF sync.version = explorer[e].version /\ sync.trainer_status # "STOPPED"
            THEN <<required, [Idle EXCEPT !.at = "wait"]>>
            ELSE Answered(required, Idle)
<1>3. sync' = result[1] /\ pull' = [pull EXCEPT ![e]["loop"] = result[2]]
    BY DEF WaitNew
<1>4. /\ required.version = sync.version /\ required.trainer_status = sync.trainer_status
      /\ required \in SyncState
    <2>1. required = Recounted(sync, sync.RUNNING - 1, sync.REQUIRE_SYNC + 1)
        <3> SUFFICES ASSUME NEW s, s = required
                     PROVE  s = Recounted(sync, sync.RUNNING - 1, sync.REQUIRE_SYNC + 1)
            OBVIOUS
        <3> QED BY <1>1 DEF SyncState, Recounted
    <2> HIDE DEF required
    <2>2. sync.RUNNING - 1 \in Int /\ sync.REQUIRE_SYNC + 1 \in Int
        BY <1>1 DEF SyncState
    <2>3. required \in SyncState /\ required.version = sync.version
        BY <1>1, <2>1, <2>2, Counted
    <2> QED BY <2>1, <2>3 DEF Recounted
<1>5. /\ Answered(required, Idle)[1].version = sync.version
      /\ Answered(required, Idle)[1].trainer_status = sync.trainer_status
      /\ Answered(required, Idle)[2] = [at |-> "load", answer |-> sync.version]
    <2> HIDE DEF required
    <2> QED BY <1>4 DEF Answered, SyncState
<1>6. /\ [sync EXCEPT !.RUNNING = @ - 1].version = sync.version
      /\ [sync EXCEPT !.RUNNING = @ - 1].trainer_status = sync.trainer_status
    BY <1>1 DEF SyncState
<1>7. /\ [Idle EXCEPT !.at = "failed"] = [at |-> "failed", answer |-> 0]
      /\ [Idle EXCEPT !.at = "wait"] = [at |-> "wait", answer |-> 0]
    BY DEF Idle
<1>8. /\ result[1].version = sync.version /\ result[1].trainer_status = sync.trainer_status
      /\ \/ result[2] = [at |-> "failed", answer |-> 0]
         \/ result[2] = [at |-> "wait", answer |-> 0] /\ sync.version = explorer[e].version
         \/ /\ result[2] = [at |-> "load", answer |-> sync.version]
            /\ sync.version > explorer[e].version
    <2> HIDE DEF required
    <2>1. CASE sync.version < explorer[e].version
        BY <2>1, <1>7
    <2>2. CASE ~(sync.version < explorer[e].version) /\ sync.RUNNING <= 0
        BY <2>2, <1>6, <1>7
    <2>3. CASE /\ ~(sync.version < explorer[e].version) /\ ~(sync.RUNNING <= 0)
               /\ sync.version = explorer[e].version
        BY <2>3, <1>4, <1>7
    <2>4. CASE /\ ~(sync.version < explorer[e].version) /\ ~(sync.RUNNING <= 0)
               /\ sync.version # explorer[e].version
        <3>1. sync.version > explorer[e].version
            BY <2>4, <1>1
        <3> QED BY <2>4, <3>1, <1>5
    <2> QED BY <2>1, <2>2, <2>3, <2>4
<1> HIDE DEF result
<1>9. result[2] \in PullState
    BY <1>1, <1>2, <1>8 DEF PullState
<1>10. PICK p \in PullState : p = result[2]
    BY <1>9
<1>11. \/ p.at = "failed"
       \/ p.at = "wait" /\ sync.version = explorer[e].version
       \/ p.at = "load" /\ p.answer = sync.version /\ sync.version > explorer[e].version
    BY <1>8, <1>10
<1>12. pull' = [pull EXCEPT ![e]["loop"] = p]
    BY <1>3, <1>10
<1>13. sync'.version = sync.version /\ sync'.trainer_status = sync.trainer_status
    BY <1>3, <1>8
<1> QED BY <1>11, <1>12, <1>13

\* The steps of the explorer.
LEMMA PaceOfPrepare == ASSUME TypeOK, Pace, NEW e \in Members, Prepare(e) PROVE Pace'
<1>1. /\ UNCHANGED <<setting, trainer, saved, pull>> /\ explorer[e].pc = "new"
      /\ sync'.version = sync.version /\ sync'.trainer_status = sync.trainer_status
      /\ explorer'[e].watching = Async /\ explorer'[e].pc = "start"
      /\ explorer'[e].version = explorer[e].version /\ explorer'[e].weights = explorer[e].weights
      /\ explorer'[e].done = explorer[e].done /\ explorer'[e].step = explorer[e].step
    BY DEF Prepare, TypeOK, ExplorerState, SyncState
<1>2. ASSUME LockStep, Published, Pulled(e), Paced(e) PROVE Paced(e)' /\ Pulled(e)'
    <2>1. Paced(e)'
        BY <1>1, <1>2 DEF Paced
    <2>2. ~explorer'[e].watching
        BY <1>1, <1>2, Locked DEF Pulled
    <2>3. Pulled(e)'
        BY <1>1, <1>2, <2>2 DEF Pulled
    <2> QED BY <2>1, <2>3
<1> QED BY <1>1, <1>2, PaceOfExplorer

\* An explore step comes before the explorer has to sync, and the steps to the sync.
LEMMA PaceOfExploring ==
    ASSUME TypeOK, Pace, NEW e \in Members,
           ExploreStep(e) \/ EndOfTasks(e) \/ FinishCurrentSteps(e) \/ Finished(e)
    PROVE  Pace'
<1>0. explorer[e] \in ExplorerState /\ explorer \in [Members -> ExplorerState]
    BY Types DEF TypeOK
<1>1. /\ UNCHANGED <<setting, trainer, saved, pull, sync>>
      /\ explorer[e].pc \in {"explore", "finish", "over"}
      /\ explorer'[e].watching = explorer[e].watching
      /\ explorer'[e].version = explorer[e].version
      /\ explorer'[e].weights = explorer[e].weights
    BY <1>0 DEF ExploreStep, EndOfTasks, FinishCurrentSteps, Finished, ExplorerAt, ExplorerState
<1>2. /\ explorer[e].step \in Nat /\ explorer[e].done \in Nat /\ trainer.step \in Nat
      /\ explorer[e].version \in Int
    BY Types
<1>3. ASSUME LockStep, Published, Pulled(e), Paced(e) PROVE Paced(e)'
    <2>0. Ahead \in Nat /\ Interval \in Nat \ {0} /\ setting.offset \in Nat /\ ~Async
          /\ Ahead = Interval + setting.offset /\ Interval = setting.explorer_interval
        BY <1>3, Locked
    <2>1. CASE ExploreStep(e)
        <3>1. /\ explorer'[e].step = explorer[e].step + 1 /\ explorer'[e].done = explorer[e].done
              /\ explorer'[e].pc = IF ExplorerNeedsSync(explorer[e].step + 1)
                                   THEN "finish" ELSE "explore"
              /\ explorer[e].pc = "explore"
            BY <1>0, <2>0, <2>1 DEF ExploreStep, ExplorerState
        <3>2. /\ explorer[e].version \in Nat /\ Due(explorer[e].version)
              /\ explorer[e].step < explorer[e].version + Ahead
              /\ trainer.pc # "new"
            BY <1>2, <1>3, <3>1 DEF Paced
        <3>3. explorer[e].step + 1 = explorer[e].version + Ahead
                => ExplorerNeedsSync(explorer[e].step + 1)
            <4> SUFFICES ASSUME explorer[e].step + 1 = explorer[e].version + Ahead
                         PROVE  ExplorerNeedsSync(explorer[e].step + 1)
                OBVIOUS
            <4>1. (explorer[e].version + Interval) % Interval = 0
                BY <2>0, <3>2, NextMultiple DEF Due, Interval
            <4>2. /\ explorer[e].step + 1 > setting.offset
                  /\ (explorer[e].step + 1) - setting.offset = explorer[e].version + Interval
                BY <1>2, <2>0, <3>2
            <4>3. ((explorer[e].step + 1) - setting.offset) % setting.explorer_interval = 0
                BY <2>0, <4>1, <4>2, Zenon
            <4> QED BY <2>0, <4>2, <4>3, Zenon DEF ExplorerNeedsSync
        <3>4. /\ explorer'[e].step <= explorer[e].version + Ahead
              /\ explorer'[e].pc = "explore" => explorer'[e].step < explorer[e].version + Ahead
            BY <1>2, <2>0, <3>1, <3>2, <3>3
        <3>5. /\ explorer'[e].pc \in {"explore", "finish"} /\ Ahead' = Ahead
              /\ (Exact' <=> Exact) /\ (Due(explorer[e].version)' <=> Due(explorer[e].version))
            BY <1>1, <3>1 DEF Ahead, Exact, Due
        <3> QED BY <1>1, <1>3, <3>1, <3>4, <3>5 DEF Paced, Due
    <2>2. CASE EndOfTasks(e)
        <3>1. /\ explorer'[e].step = explorer[e].step /\ explorer'[e].done = explorer[e].done
              /\ explorer'[e].pc = "over" /\ explorer[e].pc = "explore"
            BY <1>0, <2>2 DEF EndOfTasks, ExplorerAt, ExplorerState
        <3> QED BY <1>1, <1>3, <3>1 DEF Paced
    <2>3. CASE FinishCurrentSteps(e)
        <3>1. /\ explorer'[e].step = explorer[e].step /\ explorer'[e].done = explorer[e].done + 1
              /\ explorer'[e].pc = explorer[e].pc /\ explorer[e].pc \in {"finish", "over"}
            BY <1>0, <2>3 DEF FinishCurrentSteps, ExplorerState
        <3>2. trainer.step <= explorer'[e].done
            BY <1>2, <1>3, <3>1 DEF Paced
        <3> QED BY <1>1, <1>3, <3>1, <3>2 DEF Paced, Ahead, Exact, Due
    <2>4. CASE Finished(e)
        <3>1. /\ explorer'[e].step = explorer[e].step /\ explorer'[e].done = explorer[e].done
              /\ explorer'[e].pc = "sync" /\ explorer[e].pc = "finish"
              /\ explorer[e].done = explorer[e].step
            BY <1>0, <2>4 DEF Finished, ExplorerAt, ExplorerState
        <3> QED BY <1>1, <1>3, <3>1 DEF Paced, Ahead, Exact, Due
    <2> QED BY <2>1, <2>2, <2>3, <2>4
<1>4. ASSUME LockStep, Published, Pulled(e), Paced(e) PROVE Pulled(e)'
    <2>1. pull[e]["loop"].at = "idle"
        BY <1>1, <1>4 DEF Pulled
    <2> QED BY <1>1, <1>4, <2>1 DEF Pulled
<1> QED BY <1>1, <1>3, <1>4, PaceOfExplorer

\* The call that asks for new weights.
LEMMA PaceOfSyncWeight == ASSUME TypeOK, Pace, NEW e \in Members, SyncWeight(e) PROVE Pace'
<1>1. /\ UNCHANGED <<setting, trainer, saved, explorer>> /\ WaitNew(e, "loop")
      /\ \/ explorer[e].pc = "sync"
         \/ explorer[e].pc = "start" /\ (setting.launch # "apart" => trainer.pc # "new")
    BY DEF SyncWeight
<1>2. ASSUME LockStep, Published, Pulled(e), Paced(e)
      PROVE  /\ sync'.version = sync.version /\ sync'.trainer_status = sync.trainer_status
             /\ Pulled(e)' /\ Paced(e)'
    <2>1. trainer.pc # "new"
        BY <1>1, <1>2, Locked DEF Paced
    <2>2. sync.trainer_status = "RUNNING"
        BY <1>2, <2>1 DEF Published
    <2>3. sync'.version = sync.version /\ sync'.trainer_status = sync.trainer_status
        BY <1>1, <2>2, WaitForNew
    <2>4. PICK p \in PullState :
              /\ pull' = [pull EXCEPT ![e]["loop"] = p]
              /\ \/ p.at = "failed"
                 \/ p.at = "wait" /\ sync.version = explorer[e].version
                 \/ /\ p.at = "load" /\ p.answer = sync.version
                    /\ sync.version > explorer[e].version
        BY <1>1, <2>2, WaitForNew
    <2>5. pull'[e]["loop"] = p /\ pull'[e]["watch"] = pull[e]["watch"]
        BY <2>4 DEF TypeOK, Callers
    <2>6. explorer[e].pc = "start" => sync.version = 0 /\ explorer[e].version = -1
        <3>1. sync.version \in Nat /\ trainer.step \in Nat
            BY Types
        <3> QED BY <1>2, <3>1 DEF Paced, Published
    <2>7. Paced(e)'
        BY <1>1, <1>2, <2>1, <2>3 DEF Paced, Ahead, Exact, Due
    <2>8. Due(sync.version)' <=> Due(sync.version)
        BY <1>1, <2>3 DEF Due
    <2>9. p.at = "load" => /\ p.answer > explorer[e].version /\ p.answer <= sync.version
                           /\ Due(p.answer) /\ (explorer[e].pc = "start" => p.answer = 0)
        <3>1. sync.version \in Nat
            BY Types
        <3> QED BY <1>2, <2>4, <2>6, <3>1 DEF Published
    <2>10. p.at = "wait" => sync.version = explorer[e].version /\ explorer[e].pc = "sync"
        BY <1>1, <2>4, <2>6
    <2>11. p.at \in {"failed", "wait", "load"}
        BY <2>4
    <2>12. Pulled(e)'
        BY <1>1, <1>2, <2>3, <2>5, <2>9, <2>10, <2>11 DEF Pulled, Due
    <2> QED BY <2>3, <2>7, <2>12
<1> QED BY <1>1, <1>2, PaceOfExplorer

\* The pull that goes on is the loop's: no watcher runs.
LEMMA PullOfLoop ==
    ASSUME TypeOK, NEW e \in Members, NEW c \in Callers, Pulled(e), pull[e][c].at # "idle"
    PROVE  c = "loop"
BY DEF Pulled, Callers

\* The pull of the explorer: an answer, or a timeout.
LEMMA PaceOfAnswer ==
    ASSUME TypeOK, Pace, NEW e \in Members, NEW c \in Callers, Answer(e, c) \/ TimeOut(e, c)
    PROVE  Pace'
<1>1. /\ UNCHANGED <<setting, trainer, saved, explorer>>
      /\ pull[e][c].at \in {"wait", "woken"}
    BY DEF Answer, TimeOut
<1>2. sync'.version = sync.version /\ sync'.trainer_status = sync.trainer_status
    <2>1. CASE Answer(e, c)
        <3>1. sync' = [sync EXCEPT !.RUNNING = @ + 1, !.REQUIRE_SYNC = @ - 1]
            BY <2>1 DEF Answer, Answered
        <3> QED BY <3>1, Types DEF SyncState
    <2>2. CASE TimeOut(e, c)
        BY <2>2 DEF TimeOut
    <2> QED BY <2>1, <2>2
<1>3. ASSUME LockStep, Published, Pulled(e), Paced(e) PROVE Pulled(e)' /\ Paced(e)'
    <2>1. c = "loop" /\ explorer[e].pc = "sync"
        BY <1>1, <1>3, PullOfLoop DEF Pulled
    <2>2. trainer.pc # "new"
        BY <1>3, <2>1 DEF Paced
    <2>3. Paced(e)'
        BY <1>1, <1>2, <1>3, <2>2 DEF Paced, Ahead, Exact, Due
    <2>4. CASE Answer(e, c)
        <3>1. pull' = [pull EXCEPT ![e]["loop"] = [at |-> "load", answer |-> sync.version]]
            BY <2>1, <2>4, AnswerOutcome
        <3>2. /\ pull'[e]["loop"] = [at |-> "load", answer |-> sync.version]
              /\ pull'[e]["watch"] = pull[e]["watch"]
            BY <3>1 DEF TypeOK, Callers
        <3>3. sync.version > explorer[e].version /\ sync.version <= sync.version
            <4>1. pull[e]["loop"].at = "woken" /\ sync.version \in Nat
                BY <2>1, <2>4, Types DEF Answer
            <4> QED BY <1>3, <4>1 DEF Pulled
        <3> QED BY <1>1, <1>2, <1>3, <2>1, <2>3, <3>2, <3>3 DEF Pulled, Published, Due
    <2>5. CASE TimeOut(e, c)
        <3>1. pull'[e]["loop"].at = "failed" /\ pull'[e]["watch"] = pull[e]["watch"]
            BY <2>1, <2>5, Types DEF TimeOut, TypeOK, Callers, PullState
        <3> QED BY <1>1, <1>2, <1>3, <2>1, <2>3, <3>1 DEF Pulled
    <2> QED BY <2>4, <2>5
<1> QED BY <1>1, <1>2, <1>3, PaceOfExplorer

\* The load: with MEMORY the synchronizer still holds what it answered, for the next
\* multiple is out of reach of the steps that are finished.
LEMMA PaceOfLoad == ASSUME TypeOK, Pace, NEW e \in Members, NEW c \in Callers, Load(e, c) PROVE Pace'
<1>1. /\ UNCHANGED <<setting, trainer, saved, sync>> /\ pull[e][c].at = "load"
      /\ pull' = [pull EXCEPT ![e][c] = Idle]
    BY DEF Load
<1>2. /\ explorer[e].step \in Nat /\ explorer[e].done \in Nat /\ trainer.step \in Nat
      /\ explorer[e].done <= explorer[e].step
      /\ explorer[e].version \in Nat \cup {-1} /\ explorer[e].weights \in Nat
      /\ sync.version \in Nat /\ pull[e][c].answer \in Nat /\ trainer.last_sync \in Nat
    BY Types DEF TrainerState
<1>3. ASSUME LockStep, Published, Pulled(e), Paced(e) PROVE Pulled(e)' /\ Paced(e)'
    <2> DEFINE answer == pull[e]["loop"].answer
    <2>0. /\ Ahead \in Nat /\ Interval \in Nat \ {0} /\ setting.offset \in Nat
          /\ Ahead = Interval + setting.offset
          /\ setting.method = "memory" \/ setting.method = "checkpoint"
        BY <1>3, Locked
    <2>1. c = "loop"
        BY <1>1, <1>3, PullOfLoop
    <2>2. /\ explorer[e].pc \in {"start", "sync"}
          /\ answer > explorer[e].version /\ answer <= sync.version /\ Due(answer)
          /\ explorer[e].pc = "start" => answer = 0
          /\ answer \in Nat
        BY <1>1, <1>2, <1>3, <2>1 DEF Pulled
    <2> HIDE DEF answer
    <2>3. /\ explorer'[e].pc = "explore" /\ explorer'[e].watching = explorer[e].watching
          /\ explorer'[e].step = explorer[e].step /\ explorer'[e].done = explorer[e].done
          /\ explorer'[e].version = answer
          /\ explorer'[e].weights = IF explorer[e].version = -1 /\ answer = 0
                                    THEN explorer[e].weights
                                    ELSE IF setting.method = "memory" THEN sync.version ELSE answer
        <3>1. explorer' = [explorer EXCEPT
                  ![e].pc = "explore", ![e].version = answer,
                  ![e].weights = IF explorer[e].version = -1 /\ answer = 0
                                 THEN explorer[e].weights
                                 ELSE IF setting.method = "memory" THEN sync.version ELSE answer]
            BY <2>1, <2>2, Zenon DEF Load, Continue, answer
        <3> QED BY <3>1 DEF TypeOK, ExplorerState
    <2>4. /\ trainer.pc # "new" /\ trainer.step <= explorer[e].done
          /\ explorer[e].step < answer + Ahead
        <3>1. CASE explorer[e].pc = "start"
            BY <1>1, <1>2, <1>3, <2>0, <2>1, <2>2, <3>1 DEF Paced
        <3>2. CASE explorer[e].pc = "sync"
            BY <1>2, <1>3, <2>0, <2>2, <3>2 DEF Paced
        <3> QED BY <2>2, <3>1, <3>2
    <2>5. Exact => explorer'[e].weights = answer
        <3>1. CASE explorer[e].pc = "start"
            BY <1>3, <2>2, <2>3, <3>1 DEF Paced
        <3>2. CASE explorer[e].pc = "sync" /\ setting.method = "checkpoint"
            BY <2>3, <1>3, <3>2 DEF Paced
        <3>3. CASE explorer[e].pc = "sync" /\ setting.method = "memory" /\ Exact
            <4>1. /\ explorer[e].version \in Nat /\ Due(explorer[e].version)
                  /\ explorer[e].step <= explorer[e].version + Ahead
                BY <1>2, <1>3, <3>3 DEF Paced
            <4>2. Due(sync.version) /\ sync.version <= trainer.step
                BY <1>3 DEF Published
            <4>3. setting.offset < Interval
                BY <3>3 DEF Exact, Interval
            <4>4. answer >= explorer[e].version + Interval
                BY <2>0, <2>2, <4>1, MultiplesApart DEF Due, Interval
            <4>5. sync.version > answer => sync.version >= answer + Interval
                BY <1>2, <2>0, <2>2, <4>2, MultiplesApart DEF Due, Interval
            <4>6. sync.version < explorer[e].version + Interval + Interval
                BY <1>2, <2>0, <2>4, <4>1, <4>2, <4>3
            <4>7. sync.version = answer
                BY <1>2, <2>0, <2>2, <4>1, <4>4, <4>5, <4>6
            <4> QED BY <2>3, <3>3, <4>1, <4>7
        <3> QED BY <2>0, <2>2, <3>1, <3>2, <3>3
    <2>6. pull'[e]["loop"].at = "idle" /\ pull'[e]["watch"] = pull[e]["watch"]
        BY <1>1, <2>1 DEF TypeOK, Callers, Idle
    <2>7. Pulled(e)'
        BY <1>3, <2>3, <2>6 DEF Pulled
    <2>8. Paced(e)'
        <3>1. Ahead' = Ahead /\ (Exact' <=> Exact)
            BY <1>1 DEF Ahead, Exact
        <3>2. Due(explorer[e].version)' /\ explorer'[e].version >= 0
            BY <1>1, <2>2, <2>3 DEF Due
        <3>3. explorer'[e].step < explorer'[e].version + Ahead'
            BY <2>3, <2>4, <3>1
        <3>4. explorer'[e].step <= explorer'[e].version + Ahead'
            BY <1>2, <2>0, <2>2, <2>3, <3>1, <3>3
        <3> QED BY <1>1, <1>2, <2>2, <2>3, <2>4, <2>5, <3>1, <3>2, <3>3, <3>4 DEF Paced
    <2> QED BY <2>7, <2>8
<1> QED BY <1>1, <1>3, PaceOfExplorer

\* A failed pull ends the loop.
LEMMA PaceOfFail == ASSUME TypeOK, Pace, NEW e \in Members, NEW c \in Callers, Fail(e, c) PROVE Pace'
<1>1. /\ UNCHANGED <<setting, trainer, saved, sync>> /\ pull[e][c].at = "failed"
      /\ pull' = [pull EXCEPT ![e][c] = Idle]
    BY DEF Fail
<1>2. ASSUME LockStep, Published, Pulled(e), Paced(e) PROVE Pulled(e)' /\ Paced(e)'
    <2>1. c = "loop" /\ explorer[e].pc \in {"start", "sync"}
        BY <1>1, <1>2, PullOfLoop DEF Pulled
    <2>2. /\ explorer'[e].pc = "dead" /\ ~explorer'[e].watching
          /\ explorer'[e].done = explorer[e].done
        BY <2>1 DEF Fail, TypeOK, ExplorerState
    <2>3. pull'[e]["loop"].at = "idle" /\ pull'[e]["watch"] = pull[e]["watch"]
        BY <1>1, <2>1 DEF TypeOK, Callers, Idle
    <2>4. trainer.pc # "new"
        BY <1>1, <1>2, <2>1 DEF Paced
    <2> QED BY <1>1, <1>2, <2>2, <2>3, <2>4 DEF Pulled, Paced
<1> QED BY <1>1, <1>2, PaceOfExplorer

\* No pull is under way when the explorer stops.
LEMMA PaceOfStop == ASSUME TypeOK, Pace, NEW e \in Members, Stop(e) PROVE Pace'
<1>1. /\ UNCHANGED <<setting, trainer, saved>> /\ NotifyAll /\ explorer[e].pc = "over"
      /\ explorer'[e].pc = "stopped" /\ ~explorer'[e].watching
      /\ explorer'[e].done = explorer[e].done
      /\ sync'.version = sync.version /\ sync'.trainer_status = sync.trainer_status
    BY DEF Stop, TypeOK, ExplorerState, SyncState
<1>2. ASSUME LockStep, Published, Pulled(e), Paced(e) PROVE Pulled(e)' /\ Paced(e)'
    <2>1. pull[e]["loop"].at = "idle" /\ pull[e]["watch"].at = "idle" /\ trainer.pc # "new"
        BY <1>1, <1>2 DEF Pulled, Paced
    <2>2. pull'[e]["loop"].at = "idle" /\ pull'[e]["watch"].at = "idle"
        BY <1>1, <2>1, Notified DEF Callers
    <2> QED BY <1>1, <1>2, <2>1, <2>2 DEF Pulled, Paced
<1> QED BY <1>1, <1>2, PaceOfExplorer

\* There is no watcher.
LEMMA PaceOfWatch == ASSUME TypeOK, Pace, NEW e \in Members, Watch(e) PROVE Pace'
<1>1. explorer[e].watching /\ UNCHANGED <<setting, trainer, saved>>
    BY DEF Watch, WatchSees, WatchPulls
<1> QED BY <1>1, PaceOfExplorer DEF Pulled

\* A step of the trainer or of the scan: what is published goes forward, and wakes the
\* explorer.
Publishes ==
    LockStep /\ trainer.pc # "stopped" /\ trainer'.pc # "stopped" /\ Published
      /\ (\A e \in Members : Pulled(e) /\ Paced(e)) =>
        /\ Published'
        /\ trainer.pc # "new" => trainer'.pc # "new"
        /\ \A e \in Members : trainer'.step <= explorer[e].done
        /\ \/ UNCHANGED pull /\ sync'.version = sync.version
           \/ NotifyAll /\ sync'.version > sync.version

LEMMA PaceOfTrainer ==
    ASSUME TypeOK, TypeOK', Pace, UNCHANGED <<setting, explorer>>,
           trainer.pc = "stopped" => trainer'.pc = "stopped", Publishes
    PROVE  Pace'
<1>1. ASSUME LockStep, trainer.pc # "stopped", trainer'.pc # "stopped", Published,
             \A e \in Members : Pulled(e) /\ Paced(e), NEW e \in Members
      PROVE  Pulled(e)' /\ Paced(e)'
    <2>1. /\ trainer.pc # "new" => trainer'.pc # "new"
          /\ trainer'.step <= explorer[e].done
          /\ \/ UNCHANGED pull /\ sync'.version = sync.version
             \/ NotifyAll /\ sync'.version > sync.version
        BY <1>1 DEF Publishes
    <2>2. Pulled(e) /\ Paced(e)
        BY <1>1
    <2>3. /\ \A c \in Callers : pull[e][c].answer \in Nat
          /\ sync.version \in Nat /\ explorer[e].version \in Int
        BY Types
    <2>4. /\ "loop" \in Callers /\ "watch" \in Callers
        BY DEF Callers
    <2>5. CASE UNCHANGED pull /\ sync'.version = sync.version
        <3>1. Pulled(e)'
            BY <2>2, <2>5 DEF Pulled, Due
        <3>2. Paced(e)'
            BY <2>1, <2>2, <2>5 DEF Paced, Ahead, Exact, Due
        <3> QED BY <3>1, <3>2
    <2>6. CASE NotifyAll /\ sync'.version > sync.version
        <3>1. /\ \A c \in Callers :
                   pull'[e][c].at = IF pull[e][c].at = "wait" THEN "woken" ELSE pull[e][c].at
              /\ \A c \in Callers : pull'[e][c].answer = pull[e][c].answer
            BY <2>6, Notified
        <3>2. /\ pull'[e]["loop"].at = IF pull[e]["loop"].at = "wait" THEN "woken"
                                       ELSE pull[e]["loop"].at
              /\ pull'[e]["watch"].at = IF pull[e]["watch"].at = "wait" THEN "woken"
                                        ELSE pull[e]["watch"].at
              /\ pull'[e]["loop"].answer = pull[e]["loop"].answer
              /\ pull[e]["loop"].answer \in Nat
            BY <2>3, <2>4, <3>1
        <3>3. explorer' = explorer /\ setting' = setting /\ sync'.version \in Nat
            BY DEF TypeOK, SyncState
        <3>4. pull'[e]["loop"].at = "woken" => sync'.version > explorer[e].version
            BY <2>2, <2>3, <2>6, <3>2, <3>3 DEF Pulled
        <3>5. pull'[e]["loop"].at = "load" => pull[e]["loop"].answer <= sync'.version
            BY <2>2, <2>3, <2>6, <3>2, <3>3 DEF Pulled
        <3>6. Pulled(e)'
            BY <2>2, <3>2, <3>3, <3>4, <3>5 DEF Pulled, Due
        <3>7. explorer[e].version <= sync.version => explorer[e].version <= sync'.version
            BY <2>3, <2>6, <3>3
        <3>8. pull[e]["loop"].at = "idle" => pull'[e]["loop"].at = "idle"
            BY <3>2
        <3>9. Paced(e)'
            BY <2>1, <2>2, <3>3, <3>7, <3>8 DEF Paced, Ahead, Exact, Due
        <3> QED BY <3>6, <3>9
    <2> QED BY <2>1, <2>5, <2>6
<1>2. ASSUME LockStep, trainer.pc # "stopped", trainer'.pc # "stopped", Published,
             \A e \in Members : Pulled(e) /\ Paced(e)
      PROVE  Published'
    BY <1>2 DEF Publishes
<1> QED BY <1>1, <1>2, PaceGoal

\* The steps of the trainer.
LEMMA PaceOfTrainerStep == ASSUME TypeOK, TypeOK', Pace, TrainerStep PROVE Pace'
<1>1. /\ trainer.step \in Nat /\ trainer.last_sync \in Nat /\ sync.version \in Nat /\ saved \in Nat
      /\ trainer \in TrainerState /\ \A e \in Members : explorer[e].done \in Nat
    BY Types DEF TrainerState
<1>2. CASE PrepareTrainer
    <2>1. /\ UNCHANGED <<setting, explorer, pull, saved>> /\ trainer.pc = "new"
          /\ trainer'.pc = "sync" /\ trainer'.step = trainer.step
          /\ trainer'.last_sync = trainer.last_sync
          /\ sync'.version = sync.version /\ sync'.trainer_status = "RUNNING"
        BY <1>1, <1>2, Types DEF PrepareTrainer, TrainerAt, TrainerState, SyncState
    <2>2. ASSUME LockStep, Published PROVE Published'
        BY <2>1, <2>2, Locked DEF Published, Due
    <2>3. Publishes
        BY <1>1, <2>1, <2>2 DEF Publishes, Paced
    <2> QED BY <2>1, <2>3, PaceOfTrainer
<1>3. CASE Poll
    <2>1. /\ UNCHANGED <<setting, explorer, pull, saved, sync>> /\ trainer.pc = "sample"
          /\ trainer'.pc = "sync" /\ trainer'.step = trainer.step
          /\ trainer'.last_sync = trainer.last_sync
        BY <1>1, <1>3 DEF Poll, Training, TrainerAt, TrainerState
    <2>2. ASSUME LockStep, Published PROVE Published'
        <3>1. DueStep
            BY <1>3, <2>2, Locked DEF Poll, TrainerNeedsSync
        <3> QED BY <2>1, <2>2, <3>1 DEF Published, Due, DueStep
    <2>3. Publishes
        BY <1>1, <2>1, <2>2 DEF Publishes, Paced
    <2> QED BY <2>1, <2>3, PaceOfTrainer
<1>4. CASE NotifyNoNew
    <2>1. UNCHANGED <<setting, explorer, trainer>> /\ setting.style = "explorer_driven"
        BY <1>4 DEF NotifyNoNew
    <2>2. Publishes
        BY <2>1, Locked DEF Publishes
    <2> QED BY <2>1, <2>2, PaceOfTrainer
<1>5. CASE TrainStep
    <2>1. /\ UNCHANGED <<setting, explorer, pull, saved, sync>> /\ trainer.pc = "sample"
          /\ trainer'.pc = "trained" /\ trainer'.step = trainer.step + 1
          /\ trainer'.last_sync = trainer.last_sync
        BY <1>1, <1>5 DEF TrainStep, Training, TrainerState
    <2>2. ASSUME Published PROVE Published'
        BY <1>1, <2>1, <2>2 DEF Published, Due
    <2>3. ASSUME LockStep, NEW e \in Members PROVE trainer'.step <= explorer[e].done
        <3>1. Members = {e}
            BY <2>3, Locked
        <3>2. Sampled = explorer[e].done
            BY <1>1, <3>1, SampledOfOne
        <3>3. Cardinality(Members) = 1
            BY <3>1, FS_Singleton
        <3>4. Sampled >= (trainer.step + 1) * 1
            BY <1>5, <3>3 DEF TrainStep, EnoughSamples
        <3> QED BY <1>1, <2>1, <3>2, <3>4
    <2>4. Publishes
        BY <1>1, <2>1, <2>2, <2>3 DEF Publishes
    <2> QED BY <2>1, <2>4, PaceOfTrainer
<1>6. CASE AfterTrainStep
    <2>1. /\ UNCHANGED <<setting, explorer, pull, saved, sync>> /\ trainer.pc = "trained"
          /\ trainer'.step = trainer.step
          /\ trainer'.last_sync \in {trainer.last_sync, trainer.step}
        BY <1>1, <1>6 DEF AfterTrainStep, TrainerState
    <2>2. \/ trainer'.pc = "sample"
          \/ trainer'.pc = "sync" /\ trainer'.last_sync = trainer.last_sync /\ TrainerNeedsSync
          \/ trainer'.pc = "save" /\ setting.method = "checkpoint" /\ NeedSave
        BY <1>1, <1>6 DEF AfterTrainStep, TrainerState
    <2>3. setting.method = "memory" => trainer'.last_sync = trainer.last_sync
        BY <1>1, <1>6 DEF AfterTrainStep, TrainerState
    <2>4. ASSUME LockStep, Published PROVE Published'
        <3>1. trainer'.pc = "sync" => Due(trainer.step) /\ trainer.last_sync # trainer.step
            BY <2>2, <2>4, Locked DEF TrainerNeedsSync, DueStep, Due
        <3>2. trainer'.pc = "save" => Due(trainer.step)
            <4> SUFFICES ASSUME trainer'.pc = "save" PROVE Due(trainer.step)
                OBVIOUS
            <4>1. /\ setting.save_interval > 0 /\ trainer.step % setting.save_interval = 0
                  /\ setting.save_interval % setting.trainer_interval = 0
                BY <2>2, <2>4 DEF NeedSave, LockStep
            <4>2. setting.trainer_interval \in Nat \ {0} /\ setting.save_interval \in Nat \ {0}
                BY <2>4, <4>1, Locked DEF Interval
            <4> QED BY <1>1, <4>1, <4>2, MultiplesCompose DEF Due
        <3> QED BY <1>1, <2>1, <2>2, <2>3, <2>4, <3>1, <3>2 DEF Published, Due
    <2>5. trainer'.pc # "new"
        BY <2>2
    <2>6. Publishes
        BY <1>1, <2>1, <2>4, <2>5 DEF Publishes, Paced
    <2> QED BY <2>1, <2>6, PaceOfTrainer
<1>7. CASE TrainerSyncWeight
    <2>1. /\ UNCHANGED <<setting, explorer>> /\ trainer.pc = "sync"
          /\ trainer'.pc = "sample" /\ trainer'.step = trainer.step
          /\ trainer'.last_sync = trainer.step
          /\ saved' = IF setting.method = "checkpoint" THEN trainer.step ELSE saved
          /\ IF trainer.step > 0 /\ setting.method = "memory"
             THEN SetModelStateDict(trainer.step) ELSE UNCHANGED <<sync, pull>>
        BY <1>1, <1>7 DEF TrainerSyncWeight, TrainerState
    <2>2. ASSUME LockStep, Published,
                 \A e \in Members : Pulled(e) /\ Paced(e)
          PROVE  /\ Published'
                 /\ \/ UNCHANGED pull /\ sync'.version = sync.version
                    \/ NotifyAll /\ sync'.version > sync.version
        <3>1. CASE ~(trainer.step > 0 /\ setting.method = "memory")
            <4>1. UNCHANGED <<sync, pull>>
                BY <2>1, <3>1
            <4>2. Published'
                BY <1>1, <2>1, <2>2, <3>1, <4>1 DEF Published, Due
            <4> QED BY <4>1, <4>2
        <3>2. CASE trainer.step > 0 /\ setting.method = "memory"
            <4>1. NotifyAll /\ sync' = [sync EXCEPT !.version = trainer.step]
                BY <2>1, <3>2 DEF SetModelStateDict
            <4>2. sync'.version = trainer.step /\ sync'.trainer_status = sync.trainer_status
                BY <4>1, Types DEF SyncState
            <4>3. trainer.step > sync.version
                BY <1>1, <2>1, <2>2, <3>2 DEF Published
            <4>4. saved' = saved
                BY <2>1, <3>2
            <4>5. Published'
                BY <1>1, <2>1, <2>2, <3>2, <4>2, <4>3, <4>4 DEF Published, Due
            <4> QED BY <4>1, <4>2, <4>3, <4>5
        <3> QED BY <3>1, <3>2
    <2>3. Publishes
        BY <1>1, <2>1, <2>2 DEF Publishes, Paced
    <2> QED BY <2>1, <2>3, PaceOfTrainer
<1>8. CASE SaveCheckpoint
    <2>1. /\ UNCHANGED <<setting, explorer, pull, sync>> /\ trainer.pc = "save"
          /\ trainer'.pc = "sample" /\ trainer'.step = trainer.step
          /\ trainer'.last_sync = trainer.last_sync /\ saved' = trainer.step
        BY <1>1, <1>8 DEF SaveCheckpoint, TrainerAt, TrainerState
    <2>2. ASSUME Published PROVE Published'
        BY <1>1, <2>1, <2>2 DEF Published, Due
    <2>3. Publishes
        BY <1>1, <2>1, <2>2 DEF Publishes, Paced
    <2> QED BY <2>1, <2>3, PaceOfTrainer
<1>9. CASE StopTraining
    <2>1. UNCHANGED <<setting, explorer>> /\ trainer'.pc = "stopped"
        BY <1>1, <1>9 DEF StopTraining, TrainerAt, TrainerState
    <2>2. Publishes
        BY <2>1 DEF Publishes
    <2> QED BY <2>1, <2>2, PaceOfTrainer
<1> QED BY <1>2, <1>3, <1>4, <1>5, <1>6, <1>7, <1>8, <1>9 DEF TrainerStep

\* The scan finds what was saved.
LEMMA PaceOfScan == ASSUME TypeOK, TypeOK', Pace, Scan PROVE Pace'
<1>1. /\ UNCHANGED <<setting, explorer, trainer, saved>> /\ setting.method = "checkpoint"
      /\ saved > sync.version /\ NotifyAll /\ sync' = [sync EXCEPT !.version = saved]
    BY DEF Scan, SetModelStateDict
<1>2. sync'.version = saved /\ sync'.trainer_status = sync.trainer_status
    BY <1>1, Types DEF SyncState
<1>3. ASSUME Published PROVE Published'
    BY <1>1, <1>2, <1>3 DEF Published, Due
<1>4. saved \in Nat /\ sync.version \in Nat
    BY Types
<1>5. Publishes
    BY <1>1, <1>2, <1>3, <1>4 DEF Publishes, Paced
<1> QED BY <1>1, <1>5, PaceOfTrainer

\* Every step keeps the pace.
LEMMA PaceStep == TypeOK /\ TypeOK' /\ Pace /\ [Next]_vars => Pace'
<1> SUFFICES ASSUME TypeOK, TypeOK', Pace, [Next]_vars PROVE Pace'
    OBVIOUS
<1>1. ASSUME NEW e \in Members, LoopStep(e) PROVE Pace'
    BY <1>1, PaceOfPrepare, PaceOfSyncWeight, PaceOfExploring, PaceOfStop DEF LoopStep
<1>2. ASSUME NEW e \in Members, NEW c \in Callers, PullStep(e, c) \/ TimeOut(e, c) PROVE Pace'
    BY <1>2, PaceOfAnswer, PaceOfLoad, PaceOfFail DEF PullStep
<1>3. CASE UNCHANGED vars
    BY <1>3 DEF vars, Pace, LockStep, Published, Pulled, Paced, Members, Due, Ahead, Exact
<1> QED BY <1>1, <1>2, <1>3, PaceOfWatch, PaceOfTrainerStep, PaceOfScan DEF Next

\* An explorer in lock step holds the weights that are due.
THEOREM LockStepOnSchedule == Spec => []OnSchedule
<1>1. TypeOK /\ Pace => OnSchedule
    <2> SUFFICES ASSUME TypeOK, Pace, LockStep, trainer.pc # "stopped", NEW e \in Members,
                        explorer[e].pc \in {"explore", "finish"}
                 PROVE  /\ explorer[e].version % setting.trainer_interval = 0
                        /\ Exact => explorer[e].weights = explorer[e].version
                        /\ explorer[e].step - explorer[e].version
                             \in 0 .. setting.trainer_interval + setting.offset
        BY DEF OnSchedule, Exact
    <2>1. Published /\ Paced(e)
        BY DEF Pace
    <2>2. /\ explorer[e].version \in Nat /\ explorer[e].step \in Nat /\ explorer[e].done \in Nat
          /\ trainer.step \in Nat /\ sync.version \in Nat
          /\ explorer[e].done <= explorer[e].step
        BY <2>1, Types DEF Paced
    <2>3. Ahead \in Nat
        BY Locked
    <2>4. /\ explorer[e].version <= explorer[e].step
          /\ explorer[e].step <= explorer[e].version + Ahead
        BY <2>1, <2>2, <2>3 DEF Paced, Published
    <2>5. explorer[e].step - explorer[e].version \in 0 .. Ahead
        BY <2>2, <2>3, <2>4
    <2> QED BY <2>1, <2>5 DEF Paced, Due, Ahead
<1> QED BY <1>1, TypeInit, TypeStep, PaceInit, PaceStep, PTL DEF Spec

-----------------------------------------------------------------------------
(* The meeting before a broadcast.                                         *)

USE NcclSyncAssumption
USE DEF synchronizerVars, loopVars

-----------------------------------------------------------------------------
(* Types.                                                                  *)

LEMMA NcclTypeInit == NcclInit => NcclTypeOK
<1> SUFFICES ASSUME NcclInit PROVE NcclTypeOK
    OBVIOUS
<1>1. /\ explorer_status_counts \in [Status -> Int]
      /\ model_version \in 0 .. MaxTrainSteps
      /\ syncs \in 0 .. MaxSyncs
    BY DEF NcclInit
<1>2. /\ nccl_trainer \in [pc : {"idle", "ending", "stopped"} \cup Calling, step : 0 .. MaxTrainSteps]
      /\ caller \in [NcclCallers -> {"idle", "gone"} \cup Calling]
    BY DEF NcclInit, Calling
<1>3. nccl_explorer \in [version : -1 .. MaxTrainSteps, weights : -1 .. MaxTrainSteps]
    BY DEF NcclInit
<1> QED BY <1>1, <1>2, <1>3 DEF NcclInit, NcclTypeOK, Status

LEMMA NcclTypeStatus ==
    ASSUME NcclTypeOK, NEW new \in Status, NEW old \in Status, SetExplorerStatus(new, old)
    PROVE  explorer_status_counts' \in [Status -> Int]
BY DEF NcclTypeOK, SetExplorerStatus

LEMMA NcclTypeTrainerStep ==
    ASSUME NcclTypeOK,
           \/ TrainerCalls \/ TrainerRequires \/ TrainerWakes \/ TrainerTimesOut
           \/ TrainerTransferFails \/ NcclTrainStep \/ TrainerPolls \/ TrainerStops
    PROVE  NcclTypeOK'
<1> USE DEF NcclTrainerAt, TrainerFails, TrainerMeets, Calling, Status, NcclCallers
<1>1. CASE TrainerCalls
    BY <1>1 DEF NcclTypeOK, TrainerCalls
<1>2. CASE TrainerRequires
    <2>1. explorer_status_counts' \in [Status -> Int]
        BY <1>2, NcclTypeStatus DEF TrainerRequires, NcclTypeOK
    <2> QED BY <1>2, <2>1 DEF NcclTypeOK, TrainerRequires, NewVersion
<1>3. CASE TrainerWakes
    <2>1. explorer_status_counts' \in [Status -> Int]
        BY <1>3, NcclTypeStatus DEF TrainerWakes, NcclTypeOK
    <2> QED BY <1>3, <2>1 DEF NcclTypeOK, TrainerWakes
<1>4. CASE TrainerTimesOut
    BY <1>4 DEF NcclTypeOK, TrainerTimesOut
<1>5. CASE TrainerTransferFails
    BY <1>5 DEF NcclTypeOK, TrainerTransferFails
<1>6. CASE NcclTrainStep
    BY <1>6 DEF NcclTypeOK, NcclTrainStep
<1>7. CASE TrainerPolls
    BY <1>7 DEF NcclTypeOK, TrainerPolls
<1>8. CASE TrainerStops
    BY <1>8 DEF NcclTypeOK, TrainerStops
<1> QED BY <1>1, <1>2, <1>3, <1>4, <1>5, <1>6, <1>7, <1>8

LEMMA NcclTypeExplorerStep ==
    ASSUME NcclTypeOK, NEW c \in NcclCallers, ExplorerStep(c)
    PROVE  NcclTypeOK'
<1> USE DEF CallerAt, CallerRaises, CallerFails, CallerMeets, ResetTrainer, Calling, Status
<1>1. CASE ExplorerCalls(c)
    <2>1. explorer_status_counts' \in [Status -> Int]
        BY <1>1, NcclTypeStatus DEF ExplorerCalls, NcclTypeOK
    <2> QED BY <1>1, <2>1 DEF NcclTypeOK, ExplorerCalls
<1>2. CASE ExplorerRequires(c)
    <2>1. explorer_status_counts' \in [Status -> Int]
        BY <1>2, NcclTypeStatus DEF ExplorerRequires, NcclTypeOK
    <2> QED BY <1>2, <2>1 DEF NcclTypeOK, ExplorerRequires
<1>3. CASE ExplorerWakes(c)
    <2>1. explorer_status_counts' \in [Status -> Int]
        BY <1>3, NcclTypeStatus DEF ExplorerWakes, NcclTypeOK
    <2> QED BY <1>3, <2>1 DEF NcclTypeOK, ExplorerWakes
<1>4. CASE ExplorerTimesOut(c)
    <2>1. explorer_status_counts' \in [Status -> Int]
        BY <1>4, NcclTypeStatus DEF ExplorerTimesOut, NcclTypeOK
    <2> QED BY <1>4, <2>1 DEF NcclTypeOK, ExplorerTimesOut
<1>5. CASE Transfer(c)
    BY <1>5 DEF NcclTypeOK, Transfer, NcclTrainerAt
<1>6. CASE ExplorerTransferFails(c)
    BY <1>6 DEF NcclTypeOK, ExplorerTransferFails
<1>7. CASE ExplorerSyncs(c)
    BY <1>7 DEF NcclTypeOK, ExplorerSyncs
<1> QED BY <1>1, <1>2, <1>3, <1>4, <1>5, <1>6, <1>7 DEF ExplorerStep

LEMMA NcclTypeOtherStep ==
    ASSUME NcclTypeOK,
           Start \/ ExplorerStops \/ ExplorerNotifies \/ ExplorerShutdown \/ UNCHANGED ncclVars
    PROVE  NcclTypeOK'
<1>1. CASE Start
    BY <1>1 DEF NcclTypeOK, Start
<1>2. CASE ExplorerStops
    <2>1. explorer_status_counts' \in [Status -> Int]
        BY <1>2, NcclTypeStatus DEF ExplorerStops, Status
    <2> QED BY <1>2, <2>1 DEF NcclTypeOK, ExplorerStops
<1>3. CASE ExplorerNotifies
    BY <1>3 DEF NcclTypeOK, ExplorerNotifies, NotifyWaiters
<1>4. CASE ExplorerShutdown
    BY <1>4 DEF NcclTypeOK, ExplorerShutdown, CallerAt, NcclCallers
<1>5. CASE UNCHANGED ncclVars
    BY <1>5 DEF NcclTypeOK, ncclVars
<1> QED BY <1>1, <1>2, <1>3, <1>4, <1>5

LEMMA NcclTypeStep == NcclTypeOK /\ [NcclNext]_ncclVars => NcclTypeOK'
BY NcclTypeTrainerStep, NcclTypeExplorerStep, NcclTypeOtherStep DEF NcclNext

\* The statuses, counts and versions of the synchronizer keep their types in
\* every style, whatever times out (synchronizer.py, ready_to_nccl_sync).
THEOREM HandshakeTypes == NcclSpec => []NcclTypeOK
BY NcclTypeInit, NcclTypeStep, PTL DEF NcclSpec

-----------------------------------------------------------------------------
(* A trainer that stopped.  sync_failed and the explorer both set its       *)
(* status back to RUNNING; neither does once the training loop is over.    *)

StoppedInv == trainer_status = "STOPPED" => nccl_trainer.pc = "stopped"

LEMMA StoppedStep ==
    ASSUME NcclTypeOK, StoppedInv, [NcclNext]_ncclVars
    PROVE  StoppedInv' /\ (trainer_status = "STOPPED" => trainer_status' = "STOPPED")
<1> USE DEF StoppedInv, NcclTypeOK, NcclTrainerAt, TrainerFails, TrainerMeets
<1>1. CASE \/ TrainerCalls \/ TrainerRequires \/ TrainerWakes \/ TrainerTimesOut
           \/ TrainerTransferFails \/ NcclTrainStep \/ TrainerPolls \/ TrainerStops
    BY <1>1 DEF TrainerCalls, TrainerRequires, TrainerWakes, TrainerTimesOut,
                TrainerTransferFails, NcclTrainStep, TrainerPolls, TrainerStops
<1>2. ASSUME NEW c \in NcclCallers, ExplorerStep(c)
      PROVE  StoppedInv' /\ (trainer_status = "STOPPED" => trainer_status' = "STOPPED")
    <2>1. CASE ExplorerRequires(c) \/ ExplorerWakes(c)
        <3>1. UNCHANGED nccl_trainer
            BY <2>1 DEF ExplorerRequires, ExplorerWakes
        <3>2. trainer_status' = trainer_status \/ (TrainerReady /\ trainer_status' = "RUNNING")
            BY <2>1 DEF ExplorerRequires, ExplorerWakes, CallerMeets, ResetTrainer
        <3> QED BY <3>1, <3>2 DEF TrainerReady
    <2>2. CASE Transfer(c)
        BY <2>2 DEF Transfer
    <2>3. CASE \/ ExplorerCalls(c) \/ ExplorerTimesOut(c) \/ ExplorerTransferFails(c)
               \/ ExplorerSyncs(c)
        BY <2>3 DEF ExplorerCalls, ExplorerTimesOut, ExplorerTransferFails, ExplorerSyncs
    <2> QED BY <1>2, <2>1, <2>2, <2>3 DEF ExplorerStep
<1>3. CASE Start \/ ExplorerStops \/ ExplorerNotifies \/ ExplorerShutdown \/ UNCHANGED ncclVars
    BY <1>3 DEF Start, ExplorerStops, ExplorerNotifies, ExplorerShutdown, ncclVars
<1> QED BY <1>1, <1>2, <1>3 DEF NcclNext

\* A trainer that reported STOPPED is never seen as RUNNING or REQUIRE_SYNC
\* again, whatever calls and timeouts are still under way.
THEOREM TrainerStaysStopped == NcclSpec => StoppedIsFinal
<1>1. NcclInit => StoppedInv
    BY DEF NcclInit, StoppedInv
<1>2. NcclSpec => [](NcclTypeOK /\ StoppedInv)
    BY <1>1, NcclTypeInit, NcclTypeStep, StoppedStep, PTL DEF NcclSpec
<1>3. NcclTypeOK /\ StoppedInv /\ [NcclNext]_ncclVars =>
          [trainer_status = "STOPPED" => trainer_status' = "STOPPED"]_ncclVars
    BY StoppedStep
<1> QED BY <1>2, <1>3, PTL DEF NcclSpec, StoppedIsFinal

-----------------------------------------------------------------------------
(* The meeting of the two sides.                                           *)

\* The explorer is counted once, under s.
ExplorerIn(s) == explorer_status_counts = [u \in Status |-> IF u = s THEN 1 ELSE 0]

\* The trainer is outside the meeting, or the first to come.
TrainerAway ==
    \/ nccl_trainer.pc \in {"idle", "call", "lock"} /\ trainer_status = "RUNNING"
    \/ nccl_trainer.pc = "stopped" /\ trainer_status = "STOPPED"

TrainerFirst == nccl_trainer.pc = "waiting" /\ trainer_status = "REQUIRE_SYNC"

\* Where the two sides may stand together.  Who comes second resets the status
\* of the first, which learns of it when it wakes.
ExplorerEnded ==
    /\ main \in {"notify", "stopped"} /\ caller["main"] = "idle"
    /\ ExplorerIn("STOPPED")
    /\ TrainerAway \/ TrainerFirst

ExplorerAway ==
    /\ main = "running" /\ caller["main"] \in {"idle", "call", "lock"}
    /\ ExplorerIn("RUNNING")
    /\ TrainerAway \/ TrainerFirst

ExplorerFirst ==
    /\ main = "running" /\ caller["main"] = "waiting"
    /\ \/ ExplorerIn("REQUIRE_SYNC") /\ TrainerAway
       \/ ExplorerIn("RUNNING") /\ nccl_trainer.pc = "collective" /\ trainer_status = "REQUIRE_SYNC"

Transferring ==
    /\ main = "running" /\ caller["main"] = "collective"
    /\ trainer_status = "RUNNING"
    /\ \/ ExplorerIn("REQUIRE_SYNC") /\ nccl_trainer.pc = "waiting"
       \/ ExplorerIn("RUNNING") /\ nccl_trainer.pc = "collective"

\* The version that the trainer announced, and the one the explorer reports.
Versions ==
    /\ nccl_trainer.pc \in {"waiting", "collective"} => model_version = nccl_trainer.step
    /\ nccl_explorer.version <= nccl_trainer.step
    /\ IF caller["main"] = "collective" THEN nccl_explorer.version = nccl_trainer.step
                                        ELSE nccl_explorer.version = nccl_explorer.weights

\* Handshake alone is not inductive: it says where the sides are, while what
\* they do next depends on the statuses at the synchronizer.
MeetingInv ==
    /\ style # "fully_async" /\ caller["watcher"] \in {"idle", "gone"}
    /\ ExplorerEnded \/ ExplorerAway \/ ExplorerFirst \/ Transferring
    /\ Versions

LEMMA Counts ==
    ASSUME NEW s \in Status, ExplorerIn(s)
    PROVE  /\ CountedExplorers = 1
           /\ \A u \in Status : explorer_status_counts[u] = IF u = s THEN 1 ELSE 0
           /\ \A u \in Status : Valid(u) <=> u = s
           /\ AllStopped <=> s = "STOPPED"
           /\ ExplorerArrived <=> s # "RUNNING"
BY DEF ExplorerIn, Status, CountedExplorers, Valid, AllStopped, ExplorerArrived

LEMMA Moved ==
    ASSUME NEW old \in Status, NEW new \in Status, new # old,
           ExplorerIn(old), SetExplorerStatus(new, old)
    PROVE  ExplorerIn(new)'
<1>1. Valid(old)
    BY Counts
<1>2. explorer_status_counts' = [explorer_status_counts EXCEPT ![old] = @ - 1, ![new] = @ + 1]
    BY <1>1 DEF SetExplorerStatus
<1>3. explorer_status_counts' = [u \in Status |-> IF u = new THEN 1 ELSE 0]
    <2>1. explorer_status_counts = [u \in Status |-> IF u = old THEN 1 ELSE 0]
        BY DEF ExplorerIn
    <2> QED BY <1>2, <2>1
<1> QED BY <1>3 DEF ExplorerIn

LEMMA MeetingInit == ASSUME NcclInit, Calm PROVE MeetingInv
<1>1. ExplorerAway
    BY DEF NcclInit, ExplorerAway, ExplorerIn, TrainerAway, NcclCallers
<1>2. Versions
    BY DEF NcclInit, Versions, NcclCallers
<1> QED BY <1>1, <1>2 DEF NcclInit, MeetingInv, Calm, NcclCallers

\* Steps of the trainer.

LEMMA MeetingTrainerCalls == ASSUME NcclTypeOK, MeetingInv, TrainerCalls PROVE MeetingInv'
<1> USE DEF NcclTrainerAt, TrainerFails
<1>1. nccl_trainer.pc = "call" /\ trainer_status = "RUNNING" /\ caller["main"] # "collective"
    BY DEF TrainerCalls, MeetingInv, ExplorerEnded, ExplorerAway, ExplorerFirst, Transferring,
           TrainerAway, TrainerFirst
<1>2. CountedExplorers = 1
    BY Counts DEF MeetingInv, ExplorerEnded, ExplorerAway, ExplorerFirst, Transferring, Status
<1>3. /\ nccl_trainer' \in {[nccl_trainer EXCEPT !.pc = "idle"], [nccl_trainer EXCEPT !.pc = "lock"]}
      /\ trainer_status' = "RUNNING"
      /\ UNCHANGED <<explorer_status_counts, model_version, caller, nccl_explorer, main, style>>
    BY <1>1, <1>2 DEF TrainerCalls
<1>4. (ExplorerEnded \/ ExplorerAway \/ ExplorerFirst)'
    BY <1>1, <1>3 DEF NcclTypeOK, MeetingInv, ExplorerEnded, ExplorerAway, ExplorerFirst, Transferring,
           TrainerAway, TrainerFirst, ExplorerIn
<1> QED BY <1>1, <1>3, <1>4 DEF NcclTypeOK, MeetingInv, Versions

LEMMA MeetingTrainerRequires == ASSUME NcclTypeOK, MeetingInv, TrainerRequires PROVE MeetingInv'
<1> USE DEF NcclTrainerAt, TrainerFails
<1>1. nccl_trainer.pc = "lock" /\ trainer_status = "RUNNING" /\ caller["main"] # "collective"
    BY DEF TrainerRequires, MeetingInv, ExplorerEnded, ExplorerAway, ExplorerFirst, Transferring,
           TrainerAway, TrainerFirst
<1>2. UNCHANGED <<caller, nccl_explorer, main, style>> /\ model_version' = nccl_trainer.step
    BY DEF TrainerRequires, NewVersion
<1>3. CASE ExplorerFirst
    <2>1. ExplorerIn("REQUIRE_SYNC")
        BY <1>1, <1>3 DEF ExplorerFirst
    <2>2. explorer_status_counts["REQUIRE_SYNC"] = 1 /\ Valid("REQUIRE_SYNC")
        BY <2>1, Counts DEF Status
    <2>3. /\ trainer_status' = "REQUIRE_SYNC"
          /\ nccl_trainer' = [nccl_trainer EXCEPT !.pc = "collective"]
          /\ SetExplorerStatus("RUNNING", "REQUIRE_SYNC")
        BY <2>2 DEF TrainerRequires, TrainerMeets
    <2>4. ExplorerIn("RUNNING")'
        BY <2>1, <2>3, Moved DEF Status
    <2>5. ExplorerFirst'
        BY <1>2, <1>3, <2>3, <2>4 DEF NcclTypeOK, ExplorerFirst
    <2> QED BY <1>1, <1>2, <2>3, <2>5 DEF NcclTypeOK, MeetingInv, Versions
<1>4. CASE ExplorerAway
    <2>1. ~ExplorerArrived /\ explorer_status_counts["REQUIRE_SYNC"] = 0
        BY <1>4, Counts DEF ExplorerAway, Status
    <2>2. /\ trainer_status' = "REQUIRE_SYNC"
          /\ nccl_trainer' = [nccl_trainer EXCEPT !.pc = "waiting"]
          /\ UNCHANGED explorer_status_counts
        BY <2>1 DEF TrainerRequires
    <2>3. ExplorerAway'
        BY <1>2, <1>4, <2>2 DEF NcclTypeOK, ExplorerAway, ExplorerIn, TrainerFirst
    <2> QED BY <1>1, <1>2, <2>2, <2>3 DEF NcclTypeOK, MeetingInv, Versions
<1>5. CASE ExplorerEnded
    <2>1. ExplorerArrived /\ explorer_status_counts["REQUIRE_SYNC"] = 0
        BY <1>5, Counts DEF ExplorerEnded, Status
    <2>2. /\ trainer_status' = "RUNNING"
          /\ nccl_trainer' = [nccl_trainer EXCEPT !.pc = "idle"]
          /\ UNCHANGED explorer_status_counts
        BY <2>1 DEF TrainerRequires
    <2>3. ExplorerEnded'
        BY <1>2, <1>5, <2>2 DEF NcclTypeOK, ExplorerEnded, ExplorerIn, TrainerAway
    <2> QED BY <1>1, <1>2, <2>2, <2>3 DEF NcclTypeOK, MeetingInv, Versions
<1> QED BY <1>1, <1>3, <1>4, <1>5 DEF MeetingInv, Transferring

LEMMA MeetingTrainerWakes == ASSUME NcclTypeOK, MeetingInv, TrainerWakes PROVE MeetingInv'
<1> USE DEF NcclTrainerAt, TrainerFails
<1>1. nccl_trainer.pc = "waiting" /\ UNCHANGED <<model_version, caller, nccl_explorer, main, style>>
    BY DEF TrainerWakes
<1>2. CASE Transferring
    <2>1. ExplorerIn("REQUIRE_SYNC") /\ trainer_status = "RUNNING"
        BY <1>1, <1>2 DEF Transferring
    <2>2. /\ ExplorerArrived /\ Valid("REQUIRE_SYNC")
          /\ explorer_status_counts["STOPPED"] = 0
        BY <2>1, Counts DEF Status
    <2>3. /\ trainer_status' = "RUNNING"
          /\ nccl_trainer' = [nccl_trainer EXCEPT !.pc = "collective"]
          /\ SetExplorerStatus("RUNNING", "REQUIRE_SYNC")
        BY <2>1, <2>2 DEF TrainerWakes, TrainerMeets
    <2>4. ExplorerIn("RUNNING")'
        BY <2>1, <2>3, Moved DEF Status
    <2>5. Transferring'
        BY <1>1, <1>2, <2>3, <2>4 DEF NcclTypeOK, Transferring
    <2> QED BY <1>1, <2>3, <2>5 DEF NcclTypeOK, MeetingInv, Versions
<1>3. CASE ExplorerAway
    <2>1. ~ExplorerArrived
        BY <1>3, Counts DEF ExplorerAway, Status
    <2>2. UNCHANGED <<trainer_status, explorer_status_counts, nccl_trainer>>
        BY <2>1 DEF TrainerWakes
    <2>3. ExplorerAway'
        BY <1>1, <1>3, <2>2 DEF ExplorerAway, ExplorerIn, TrainerFirst, TrainerAway
    <2> QED BY <1>1, <2>2, <2>3 DEF MeetingInv, Versions
<1>4. CASE ExplorerEnded
    <2>1. ExplorerArrived /\ explorer_status_counts["STOPPED"] = 1
        BY <1>4, Counts DEF ExplorerEnded, Status
    <2>2. /\ trainer_status' = "RUNNING"
          /\ nccl_trainer' = [nccl_trainer EXCEPT !.pc = "idle"]
          /\ UNCHANGED explorer_status_counts
        BY <2>1 DEF TrainerWakes
    <2>3. ExplorerEnded'
        BY <1>1, <1>4, <2>2 DEF NcclTypeOK, ExplorerEnded, ExplorerIn, TrainerAway
    <2> QED BY <1>1, <1>4, <2>2, <2>3 DEF NcclTypeOK, MeetingInv, Versions
<1> QED BY <1>1, <1>2, <1>3, <1>4 DEF MeetingInv, ExplorerFirst, TrainerAway

\* Without timeouts, and with the explorer still running, a transfer that one
\* side takes part in waits for the other.
LEMMA MeetingTrainerGoesOn ==
    ASSUME Calm, NcclTypeOK, MeetingInv
    PROVE  ~TrainerTimesOut /\ ~TrainerTransferFails
<1>1. nccl_trainer.pc = "collective" => main = "running"
    BY DEF MeetingInv, ExplorerEnded, ExplorerAway, ExplorerFirst, Transferring, TrainerAway,
           TrainerFirst
<1> QED BY <1>1 DEF Calm, TrainerTimesOut, TrainerTransferFails

\* What the trainer does on its own leaves the explorer where it is.
LEMMA MeetingTrainerMoves ==
    ASSUME NcclTypeOK, MeetingInv, NcclTrainStep \/ TrainerPolls \/ TrainerStops
    PROVE  MeetingInv'
<1>1. nccl_trainer.pc = "idle"
    BY DEF NcclTrainStep, TrainerPolls, TrainerStops, MeetingInv, ExplorerEnded, ExplorerAway,
           ExplorerFirst, Transferring, TrainerAway, TrainerFirst
<1>2. TrainerAway /\ trainer_status = "RUNNING" /\ caller["main"] # "collective"
    BY <1>1 DEF MeetingInv, ExplorerEnded, ExplorerAway, ExplorerFirst, Transferring, TrainerAway,
                TrainerFirst
<1>3. UNCHANGED <<explorer_status_counts, model_version, caller, nccl_explorer, main, style>>
    BY DEF NcclTrainStep, TrainerPolls, TrainerStops
<1>4. TrainerAway'
    BY <1>1, <1>2 DEF NcclTypeOK, NcclTrainStep, TrainerPolls, TrainerStops, TrainerAway, NcclTrainerAt
<1>5. nccl_trainer'.step >= nccl_trainer.step /\ nccl_trainer'.pc \notin {"waiting", "collective"}
    BY DEF NcclTypeOK, NcclTrainStep, TrainerPolls, TrainerStops, NcclTrainerAt
<1>6. (ExplorerEnded \/ ExplorerAway \/ ExplorerFirst)'
    BY <1>1, <1>2, <1>3, <1>4 DEF MeetingInv, ExplorerEnded, ExplorerAway, ExplorerFirst,
                                   Transferring, ExplorerIn
<1>7. nccl_trainer'.step \in Int
    BY DEF NcclTypeOK, NcclTrainStep, TrainerPolls, TrainerStops, NcclTrainerAt
<1> QED BY <1>2, <1>3, <1>5, <1>6, <1>7 DEF NcclTypeOK, MeetingInv, Versions

\* Steps of the explorer: only its loop calls.

LEMMA OnlyMain ==
    ASSUME MeetingInv, NEW c \in NcclCallers, ExplorerStep(c)
    PROVE  c = "main"
BY DEF MeetingInv, NcclCallers, ExplorerStep, ExplorerCalls, ExplorerRequires, ExplorerWakes,
       ExplorerTimesOut, Transfer, ExplorerTransferFails, ExplorerSyncs

LEMMA MeetingExplorerCalls ==
    ASSUME NcclTypeOK, MeetingInv, ExplorerCalls("main") \/ ExplorerSyncs("main")
    PROVE  MeetingInv'
<1>1. ExplorerAway /\ (TrainerAway \/ TrainerFirst)
    BY DEF ExplorerCalls, ExplorerSyncs, MeetingInv, ExplorerEnded, ExplorerAway, ExplorerFirst,
           Transferring
<1>2. CountedExplorers = 1 /\ ~AllStopped
    BY <1>1, Counts DEF ExplorerAway, Status
<1>3. /\ caller' \in {[caller EXCEPT !["main"] = "lock"], [caller EXCEPT !["main"] = "call"]}
      /\ UNCHANGED <<trainer_status, explorer_status_counts, model_version, nccl_trainer, nccl_explorer,
                     main, style>>
    BY <1>2 DEF ExplorerCalls, ExplorerSyncs, CallerAt
<1>4. caller'["main"] \in {"lock", "call"} /\ caller'["watcher"] = caller["watcher"]
    BY <1>3 DEF NcclTypeOK, NcclCallers
<1>5. ExplorerAway'
    BY <1>1, <1>3, <1>4 DEF ExplorerAway, ExplorerIn, TrainerAway, TrainerFirst
<1> QED BY <1>1, <1>3, <1>4, <1>5 DEF MeetingInv, Versions, ExplorerAway

LEMMA MeetingExplorerRequires ==
    ASSUME NcclTypeOK, MeetingInv, ExplorerRequires("main") PROVE MeetingInv'
<1> USE DEF CallerAt
<1>1. caller["main"] = "lock" /\ ExplorerAway /\ (TrainerAway \/ TrainerFirst)
    BY DEF ExplorerRequires, MeetingInv, ExplorerEnded, ExplorerAway, ExplorerFirst, Transferring
<1>2. ExplorerIn("RUNNING") /\ Valid("RUNNING") /\ main = "running"
    BY <1>1, Counts DEF ExplorerAway, Status
<1>3. UNCHANGED <<model_version, nccl_trainer, main, style>>
    BY <1>2 DEF ExplorerRequires, CallerMeets
<1>4. CASE trainer_status = "REQUIRE_SYNC"
    <2>1. nccl_trainer.pc = "waiting" /\ model_version = nccl_trainer.step
        BY <1>1, <1>4 DEF TrainerAway, TrainerFirst, MeetingInv, Versions
    <2>2. /\ SetExplorerStatus("REQUIRE_SYNC", "RUNNING")
          /\ trainer_status' = "RUNNING"
          /\ caller' = [caller EXCEPT !["main"] = "collective"]
          /\ nccl_explorer' = [nccl_explorer EXCEPT !.version = model_version]
        BY <1>2, <1>4 DEF ExplorerRequires, CallerMeets, ResetTrainer
    <2>3. ExplorerIn("REQUIRE_SYNC")'
        BY <1>2, <2>2, Moved DEF Status
    <2>4. caller'["main"] = "collective" /\ caller'["watcher"] = caller["watcher"]
        BY <2>2 DEF NcclTypeOK, NcclCallers
    <2>5. Transferring'
        BY <1>2, <1>3, <2>1, <2>2, <2>3, <2>4 DEF Transferring
    <2>6. nccl_explorer'.version = model_version
        BY <2>2 DEF NcclTypeOK
    <2> QED BY <1>3, <2>1, <2>4, <2>5, <2>6 DEF NcclTypeOK, MeetingInv, Versions
<1>5. CASE trainer_status = "STOPPED"
    <2>1. /\ caller' = [caller EXCEPT !["main"] = "idle"]
          /\ UNCHANGED <<trainer_status, explorer_status_counts, nccl_explorer>>
        BY <1>2, <1>5 DEF ExplorerRequires, TrainerReady
    <2>2. caller'["main"] = "idle" /\ caller'["watcher"] = caller["watcher"]
        BY <2>1 DEF NcclTypeOK, NcclCallers
    <2>3. ExplorerAway'
        BY <1>1, <1>3, <2>1, <2>2 DEF ExplorerAway, ExplorerIn, TrainerAway, TrainerFirst
    <2> QED BY <1>1, <1>3, <2>1, <2>2, <2>3 DEF MeetingInv, Versions
<1>6. CASE trainer_status = "RUNNING"
    <2>1. /\ SetExplorerStatus("REQUIRE_SYNC", "RUNNING")
          /\ caller' = [caller EXCEPT !["main"] = "waiting"]
          /\ UNCHANGED <<trainer_status, nccl_explorer>>
        BY <1>2, <1>6 DEF ExplorerRequires, TrainerReady
    <2>2. ExplorerIn("REQUIRE_SYNC")'
        BY <1>2, <2>1, Moved DEF Status
    <2>3. caller'["main"] = "waiting" /\ caller'["watcher"] = caller["watcher"]
        BY <2>1 DEF NcclTypeOK, NcclCallers
    <2>4. ExplorerFirst'
        BY <1>1, <1>2, <1>3, <1>6, <2>1, <2>2, <2>3 DEF ExplorerFirst, TrainerAway, TrainerFirst
    <2> QED BY <1>1, <1>3, <2>1, <2>3, <2>4 DEF MeetingInv, Versions
<1> QED BY <1>4, <1>5, <1>6 DEF NcclTypeOK, Status

LEMMA MeetingExplorerWakes ==
    ASSUME NcclTypeOK, MeetingInv, ExplorerWakes("main") PROVE MeetingInv'
<1> USE DEF CallerAt
<1>1. caller["main"] = "waiting" /\ ExplorerFirst /\ main = "running"
    BY DEF ExplorerWakes, MeetingInv, ExplorerEnded, ExplorerAway, ExplorerFirst, Transferring
<1>2. UNCHANGED <<model_version, nccl_trainer, style>>
    BY DEF ExplorerWakes
<1>3. CASE trainer_status = "REQUIRE_SYNC"
    <2>1. ExplorerIn("RUNNING") /\ nccl_trainer.pc = "collective" /\ model_version = nccl_trainer.step
        BY <1>1, <1>3 DEF ExplorerFirst, TrainerAway, MeetingInv, Versions
    <2>2. /\ trainer_status' = "RUNNING"
          /\ caller' = [caller EXCEPT !["main"] = "collective"]
          /\ nccl_explorer' = [nccl_explorer EXCEPT !.version = model_version]
          /\ UNCHANGED <<explorer_status_counts, main>>
        BY <1>3 DEF ExplorerWakes, CallerMeets, ResetTrainer, TrainerReady
    <2>3. caller'["main"] = "collective" /\ caller'["watcher"] = caller["watcher"]
        BY <2>2 DEF NcclTypeOK, NcclCallers
    <2>4. Transferring'
        BY <1>1, <1>2, <2>1, <2>2, <2>3 DEF Transferring, ExplorerIn
    <2>5. nccl_explorer'.version = model_version
        BY <2>2 DEF NcclTypeOK
    <2> QED BY <1>2, <2>1, <2>3, <2>4, <2>5 DEF NcclTypeOK, MeetingInv, Versions
<1>4. CASE trainer_status = "STOPPED"
    <2>1. ExplorerIn("REQUIRE_SYNC") /\ TrainerAway
        BY <1>1, <1>4 DEF ExplorerFirst
    <2>2. Valid("REQUIRE_SYNC")
        BY <2>1, Counts DEF Status
    <2>3. /\ SetExplorerStatus("RUNNING", "REQUIRE_SYNC")
          /\ caller' = [caller EXCEPT !["main"] = "idle"]
          /\ UNCHANGED <<trainer_status, nccl_explorer, main>>
        BY <1>4, <2>2 DEF ExplorerWakes, CallerFails, TrainerReady
    <2>4. ExplorerIn("RUNNING")'
        BY <2>1, <2>3, Moved DEF Status
    <2>5. caller'["main"] = "idle" /\ caller'["watcher"] = caller["watcher"]
        BY <2>3 DEF NcclTypeOK, NcclCallers
    <2>6. ExplorerAway'
        BY <1>1, <1>2, <2>1, <2>3, <2>4, <2>5 DEF ExplorerAway, TrainerAway
    <2> QED BY <1>1, <1>2, <2>3, <2>5, <2>6 DEF MeetingInv, Versions
<1>5. CASE trainer_status = "RUNNING"
    <2>1. UNCHANGED <<trainer_status, explorer_status_counts, caller, nccl_explorer, main>>
        BY <1>5 DEF ExplorerWakes, TrainerReady
    <2>2. ExplorerFirst'
        BY <1>1, <1>2, <2>1 DEF ExplorerFirst, ExplorerIn, TrainerAway
    <2> QED BY <1>2, <2>1, <2>2 DEF MeetingInv, Versions
<1> QED BY <1>3, <1>4, <1>5 DEF NcclTypeOK, Status

LEMMA MeetingTransfer == ASSUME NcclTypeOK, MeetingInv, Transfer("main") PROVE MeetingInv'
<1>1. /\ nccl_trainer.pc = "collective" /\ caller["main"] = "collective"
      /\ nccl_trainer' = [nccl_trainer EXCEPT !.pc = "idle"]
      /\ caller' = [caller EXCEPT !["main"] = "idle"]
      /\ nccl_explorer' = [nccl_explorer EXCEPT !.weights = nccl_trainer.step]
      /\ UNCHANGED <<trainer_status, explorer_status_counts, model_version, main, style>>
    BY DEF Transfer, NcclTrainerAt, CallerAt
<1>2. /\ main = "running" /\ trainer_status = "RUNNING" /\ ExplorerIn("RUNNING")
      /\ nccl_explorer.version = nccl_trainer.step
    BY <1>1 DEF MeetingInv, ExplorerEnded, ExplorerAway, ExplorerFirst, Transferring, Versions
<1>3. caller'["main"] = "idle" /\ caller'["watcher"] = caller["watcher"]
    BY <1>1 DEF NcclTypeOK, NcclCallers
<1>4. nccl_trainer'.pc = "idle" /\ nccl_trainer'.step = nccl_trainer.step
    BY <1>1 DEF NcclTypeOK
<1>5. nccl_explorer'.version = nccl_explorer.version /\ nccl_explorer'.weights = nccl_trainer.step
    BY <1>1 DEF NcclTypeOK
<1>6. ExplorerAway'
    BY <1>1, <1>2, <1>3, <1>4 DEF ExplorerAway, ExplorerIn, TrainerAway
<1> QED BY <1>1, <1>2, <1>3, <1>4, <1>5, <1>6 DEF NcclTypeOK, MeetingInv, Versions

\* Without timeouts the explorer gives up on nothing.
LEMMA MeetingExplorerGoesOn ==
    ASSUME Calm, NEW c \in NcclCallers
    PROVE  ~ExplorerTimesOut(c) /\ ~ExplorerTransferFails(c)
BY DEF Calm, ExplorerTimesOut, ExplorerTransferFails

LEMMA MeetingOtherStep ==
    ASSUME NcclTypeOK, MeetingInv,
           Start \/ ExplorerStops \/ ExplorerNotifies \/ ExplorerShutdown \/ UNCHANGED ncclVars
    PROVE  MeetingInv'
<1> USE DEF ExplorerIn, TrainerAway, TrainerFirst
<1>1. CASE Start \/ UNCHANGED ncclVars
    <2>1. UNCHANGED <<trainer_status, explorer_status_counts, model_version, nccl_trainer, caller,
                      nccl_explorer, main, style>>
        BY <1>1 DEF Start, ncclVars
    <2>2. (ExplorerEnded \/ ExplorerAway \/ ExplorerFirst \/ Transferring)'
        BY <2>1 DEF MeetingInv, ExplorerEnded, ExplorerAway, ExplorerFirst, Transferring
    <2> QED BY <2>1, <2>2 DEF MeetingInv, Versions
<1>2. CASE ExplorerStops
    <2>1. ExplorerAway
        BY <1>2 DEF ExplorerStops, MeetingInv, ExplorerEnded, ExplorerFirst, Transferring
    <2>2. ExplorerIn("RUNNING") /\ Valid("RUNNING")
        BY <2>1, Counts DEF ExplorerAway, Status
    <2>3. ExplorerIn("STOPPED")'
        BY <1>2, <2>2, Moved DEF ExplorerStops, Status
    <2>4. /\ main' = "notify" /\ caller["main"] = "idle"
          /\ UNCHANGED <<trainer_status, model_version, nccl_trainer, caller, nccl_explorer, style>>
        BY <1>2, <2>2 DEF ExplorerStops
    <2>5. ExplorerEnded'
        BY <2>1, <2>3, <2>4 DEF ExplorerEnded, ExplorerAway
    <2> QED BY <2>4, <2>5 DEF MeetingInv, Versions
<1>3. CASE ExplorerNotifies
    <2>1. /\ main = "notify" /\ main' = "stopped"
          /\ UNCHANGED <<trainer_status, explorer_status_counts, model_version, nccl_trainer, caller,
                         nccl_explorer, style>>
        BY <1>3 DEF ExplorerNotifies
    <2>2. ExplorerEnded'
        BY <2>1 DEF MeetingInv, ExplorerEnded, ExplorerAway, ExplorerFirst, Transferring
    <2> QED BY <2>1, <2>2 DEF MeetingInv, Versions
<1>4. CASE ExplorerShutdown
    <2>1. /\ main = "stopped" /\ caller' = [caller EXCEPT !["watcher"] = "gone"]
          /\ UNCHANGED <<trainer_status, explorer_status_counts, model_version, nccl_trainer, nccl_explorer,
                         main, style>>
        BY <1>4 DEF ExplorerShutdown, CallerAt
    <2>2. caller'["main"] = caller["main"] /\ caller'["watcher"] = "gone"
        BY <2>1 DEF NcclTypeOK, NcclCallers
    <2>3. ExplorerEnded'
        BY <2>1, <2>2 DEF MeetingInv, ExplorerEnded, ExplorerAway, ExplorerFirst, Transferring
    <2> QED BY <2>1, <2>2, <2>3 DEF MeetingInv, Versions
<1> QED BY <1>1, <1>2, <1>3, <1>4

LEMMA MeetingStep == ASSUME Calm, NcclTypeOK, MeetingInv, [NcclNext]_ncclVars PROVE MeetingInv'
<1>1. ASSUME NEW c \in NcclCallers, ExplorerStep(c) PROVE MeetingInv'
    <2>1. c = "main"
        BY <1>1, OnlyMain
    <2> QED BY <1>1, <2>1, MeetingExplorerCalls, MeetingExplorerRequires, MeetingExplorerWakes,
               MeetingTransfer, MeetingExplorerGoesOn DEF ExplorerStep
<1> QED BY <1>1, MeetingTrainerCalls, MeetingTrainerRequires, MeetingTrainerWakes,
           MeetingTrainerGoesOn, MeetingTrainerMoves, MeetingOtherStep DEF NcclNext

\* Whether a behaviour is calm is settled from its first state.
LEMMA CalmIsFrozen == [NcclNext]_ncclVars => Calm' = Calm
<1> SUFFICES ASSUME [NcclNext]_ncclVars PROVE UNCHANGED <<style, nccl_timeouts>>
    BY DEF Calm
<1>1. CASE \/ TrainerCalls \/ TrainerRequires \/ TrainerWakes \/ TrainerTimesOut
           \/ TrainerTransferFails \/ NcclTrainStep \/ TrainerPolls \/ TrainerStops
    BY <1>1 DEF TrainerCalls, TrainerRequires, TrainerWakes, TrainerTimesOut,
                TrainerTransferFails, NcclTrainStep, TrainerPolls, TrainerStops
<1>2. ASSUME NEW c \in NcclCallers, ExplorerStep(c) PROVE UNCHANGED <<style, nccl_timeouts>>
    BY <1>2 DEF ExplorerStep, ExplorerCalls, ExplorerRequires, ExplorerWakes,
                ExplorerTimesOut, Transfer, ExplorerTransferFails, ExplorerSyncs
<1>3. CASE Start \/ ExplorerStops \/ ExplorerNotifies \/ ExplorerShutdown \/ UNCHANGED ncclVars
    BY <1>3 DEF Start, ExplorerStops, ExplorerNotifies, ExplorerShutdown, ncclVars
<1> QED BY <1>1, <1>2, <1>3 DEF NcclNext

LEMMA MeetingAlways == NcclSpec => [](NcclTypeOK /\ (Calm => MeetingInv))
<1>1. NcclInit => NcclTypeOK /\ (Calm => MeetingInv)
    BY NcclTypeInit, MeetingInit
<1>2. NcclTypeOK /\ (Calm => MeetingInv) /\ [NcclNext]_ncclVars => (NcclTypeOK /\ (Calm => MeetingInv))'
    BY NcclTypeStep, MeetingStep, CalmIsFrozen
<1> QED BY <1>1, <1>2, PTL DEF NcclSpec

\* set_explorer_status and the two resets that each side makes on behalf of
\* the other keep exactly one explorer counted, so that the assertions of
\* ready_to_nccl_sync and set_explorer_status never fail.
THEOREM ExplorerCounted == NcclSpec => []OneExplorer
<1>1. (Calm => MeetingInv) => OneExplorer
    BY Counts DEF MeetingInv, ExplorerEnded, ExplorerAway, ExplorerFirst, Transferring,
                  OneExplorer, Status
<1> QED BY <1>1, MeetingAlways, PTL

\* ready_to_nccl_sync lets a side into the broadcast only when the other one
\* is in it too, or about to learn that it may come.
THEOREM TransfersPaired == NcclSpec => []Handshake
<1>1. (Calm => MeetingInv) => Handshake
    <2> SUFFICES ASSUME Calm, MeetingInv PROVE Handshake
        BY DEF Handshake
    <2>1. caller["watcher"] # "collective" /\ "main" \in NcclCallers
        BY DEF MeetingInv, NcclCallers
    <2>2. nccl_trainer.pc = "collective" =>
              \/ caller["main"] = "collective"
              \/ trainer_status = "REQUIRE_SYNC" /\ caller["main"] = "waiting"
        BY DEF MeetingInv, ExplorerEnded, ExplorerAway, ExplorerFirst, Transferring, TrainerAway,
               TrainerFirst
    <2>3. caller["main"] = "collective" =>
              \/ nccl_trainer.pc = "collective"
              \/ nccl_trainer.pc = "waiting" /\ ExplorerIn("REQUIRE_SYNC")
        BY DEF MeetingInv, ExplorerEnded, ExplorerAway, ExplorerFirst, Transferring
    <2>4. ExplorerIn("REQUIRE_SYNC") => explorer_status_counts["REQUIRE_SYNC"] = 1
        BY Counts DEF Status
    <2> QED BY <2>1, <2>2, <2>3, <2>4 DEF Handshake, NcclCallers
<1> QED BY <1>1, MeetingAlways, PTL

\* Outside its calls neither side is left in REQUIRE_SYNC: the side that comes
\* second, or the one that fails, takes the request back.
THEOREM StatusesReturn == NcclSpec => []BothReturnToRunning
<1>1. (Calm => MeetingInv) => BothReturnToRunning
    <2> SUFFICES ASSUME Calm, MeetingInv, nccl_trainer.pc \in {"idle", "call"},
                        caller["main"] \in {"idle", "call"}
                 PROVE  trainer_status = "RUNNING" /\ explorer_status_counts["REQUIRE_SYNC"] = 0
        BY DEF BothReturnToRunning, NcclCallers
    <2>1. trainer_status = "RUNNING" /\ (ExplorerIn("RUNNING") \/ ExplorerIn("STOPPED"))
        BY DEF MeetingInv, ExplorerEnded, ExplorerAway, ExplorerFirst, Transferring, TrainerAway,
               TrainerFirst
    <2> QED BY <2>1, Counts DEF Status
<1> QED BY <1>1, MeetingAlways, PTL

\* The version that the explorer takes over from ready_to_nccl_sync is that of
\* the weights that the broadcast then brings, and the trainer has made it.
THEOREM VersionsLoaded == NcclSpec => []VersionIsLoaded
<1>1. (Calm => MeetingInv) => VersionIsLoaded
    BY DEF MeetingInv, Versions, VersionIsLoaded, NcclCallers
<1> QED BY <1>1, MeetingAlways, PTL
===============================================================================

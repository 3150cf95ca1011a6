-------------------------- MODULE CheckpointProofs --------------------------
(***************************************************************************)
(* Proofs about the checkpoints, for any number of steps and crashes and   *)
(* for every configuration.                                                *)
(***************************************************************************)
EXTENDS Checkpoint, SequenceTheorems, TLAPS

\* The program counters of the trainer that belong to a save.
Saving ==
    {"state_dict", "register", "monitor", "checkpoint", "start", "write", "retain",
     "register_checkpoint", "monitor_checkpoint", "block"}

\* What is saved is a step: the weights of step 0 are not.  And a checkpoint is
\* published as a state dict, too.
SavesFit ==
    /\ trainer.pc \in Saving => trainer.step # 0
    /\ thread.pc # "none" => thread.step # 0
    /\ monitor.latest_checkpoint <= monitor.latest_state_dict

TypeInv == TypeOK /\ SavesFit

-----------------------------------------------------------------------------
(* What the monitor does.                                                  *)

LEMMA Bounds ==
    /\ MaxStep \in Nat /\ MaxStep > 0
    /\ MaxCrashes \in Nat /\ Failures \in BOOLEAN
    /\ Keeps \subseteq Nat
BY CheckpointAssumption

\* The pieces of the types that the steps below need.
LEMMA Types ==
    ASSUME TypeOK
    PROVE  /\ trainer \in TrainerState /\ trainer.step \in 0 .. MaxStep /\ trainer.over \in BOOLEAN
           /\ thread \in ThreadState /\ thread.step \in 0 .. MaxStep
           /\ monitor \in MonitorState
           /\ monitor.counter \in [Step -> Int]
           /\ monitor.checkpoint_steps \subseteq Step
           /\ monitor.latest_checkpoint \in 0 .. MaxStep
           /\ monitor.latest_state_dict \in 0 .. MaxStep
           /\ tracker \in TrackerState
           /\ tracker.checkpoint \in 0 .. MaxStep /\ tracker.state_dict \in 0 .. MaxStep
           /\ dir \in [Step -> DirState]
           /\ saved_paths \in Seq(Step)
           /\ scan.version \in 0 .. MaxStep /\ scan.remove \in 0 .. MaxStep
           /\ explorer.version \in 0 .. MaxStep /\ explorer.loading \in 0 .. MaxStep
           /\ crashes \in Nat /\ keep \in Nat
<1>1. trainer \in TrainerState /\ trainer.step \in 0 .. MaxStep /\ trainer.over \in BOOLEAN
    BY DEF TypeOK, TrainerState
<1>2. thread \in ThreadState /\ thread.step \in 0 .. MaxStep
    BY DEF TypeOK, ThreadState
<1>3. /\ monitor \in MonitorState
      /\ monitor.counter \in [Step -> Int]
      /\ monitor.checkpoint_steps \subseteq Step
      /\ monitor.latest_checkpoint \in 0 .. MaxStep
      /\ monitor.latest_state_dict \in 0 .. MaxStep
    BY DEF TypeOK, MonitorState
<1>4. /\ tracker \in TrackerState
      /\ tracker.checkpoint \in 0 .. MaxStep /\ tracker.state_dict \in 0 .. MaxStep
    BY DEF TypeOK, TrackerState
<1>5. dir \in [Step -> DirState] /\ saved_paths \in Seq(Step)
    BY DEF TypeOK
<1>6. /\ scan.version \in 0 .. MaxStep /\ scan.remove \in 0 .. MaxStep
      /\ explorer.version \in 0 .. MaxStep /\ explorer.loading \in 0 .. MaxStep
    BY DEF TypeOK
<1>7. crashes \in Nat /\ keep \in Nat
    BY Bounds DEF TypeOK
<1> QED BY <1>1, <1>2, <1>3, <1>4, <1>5, <1>6, <1>7

\* What a publication changes: the latest step of each kind stays, or it is s now and
\* was older before, in the monitor as in its file.
Published(m, t, n, u, s) ==
    /\ \/ n.latest_state_dict = m.latest_state_dict /\ u.state_dict = t.state_dict
       \/ s > m.latest_state_dict /\ n.latest_state_dict = s /\ u.state_dict = s
    /\ \/ n.latest_checkpoint = m.latest_checkpoint /\ u.checkpoint = t.checkpoint
       \/ /\ s > m.latest_checkpoint /\ n.latest_checkpoint = s /\ u.checkpoint = s
          /\ n.latest_state_dict >= s

LEMMA PublishesStateDict ==
    ASSUME NEW m \in MonitorState, NEW t \in TrackerState, NEW s \in Step,
           NEW p, p = PublishStateDict(m, t, s)
    PROVE  /\ p[1] \in MonitorState /\ p[2] \in TrackerState
           /\ p[1].counter = m.counter
           /\ p[1].checkpoint_steps = m.checkpoint_steps
           /\ p[1].latest_checkpoint = m.latest_checkpoint /\ p[2].checkpoint = t.checkpoint
           /\ p[1].latest_state_dict >= s
           /\ Published(m, t, p[1], p[2], s)
<1>1. m.latest_state_dict \in 0 .. MaxStep /\ s \in 0 .. MaxStep /\ MaxStep \in Nat
    BY Bounds DEF MonitorState, Step
<1>2. CASE s > m.latest_state_dict
    <2>1. p = <<[m EXCEPT !.latest_state_dict = s], [t EXCEPT !.state_dict = s]>>
        BY <1>2 DEF PublishStateDict
    <2>2. p[1] = [m EXCEPT !.latest_state_dict = s] /\ p[2] = [t EXCEPT !.state_dict = s]
        BY <2>1
    <2> QED BY <1>1, <1>2, <2>2 DEF MonitorState, TrackerState, Published
<1>3. CASE ~(s > m.latest_state_dict)
    <2>1. p = <<m, t>>
        BY <1>3 DEF PublishStateDict
    <2>2. p[1] = m /\ p[2] = t
        BY <2>1
    <2> QED BY <1>1, <1>3, <2>2 DEF Published
<1> QED BY <1>2, <1>3

LEMMA PublishesCheckpoint ==
    ASSUME NEW m \in MonitorState, NEW t \in TrackerState, NEW s \in Step,
           m.latest_checkpoint <= m.latest_state_dict,
           NEW p, p = PublishCheckpoint(m, t, s)
    PROVE  /\ p[1] \in MonitorState /\ p[2] \in TrackerState
           /\ p[1].counter = m.counter
           /\ p[1].checkpoint_steps = m.checkpoint_steps
           /\ p[1].latest_checkpoint >= s
           /\ Published(m, t, p[1], p[2], s)
<1>1. /\ m.latest_checkpoint \in 0 .. MaxStep /\ m.latest_state_dict \in 0 .. MaxStep
      /\ s \in 0 .. MaxStep /\ MaxStep \in Nat
    BY Bounds DEF MonitorState, Step
<1>2. CASE s > m.latest_checkpoint
    <2> DEFINE m1 == [m EXCEPT !.latest_checkpoint = s]
               t1 == [t EXCEPT !.checkpoint = s]
    <2>1. p = PublishStateDict(m1, t1, s)
        BY <1>2 DEF PublishCheckpoint
    <2>2. /\ m1 \in MonitorState /\ t1 \in TrackerState
          /\ m1.counter = m.counter /\ m1.checkpoint_steps = m.checkpoint_steps
          /\ m1.latest_checkpoint = s /\ t1.checkpoint = s
          /\ m1.latest_state_dict = m.latest_state_dict /\ t1.state_dict = t.state_dict
        BY <1>1 DEF MonitorState, TrackerState
    <2> HIDE DEF m1, t1
    <2>3. /\ p[1] \in MonitorState /\ p[2] \in TrackerState
          /\ p[1].counter = m1.counter
          /\ p[1].checkpoint_steps = m1.checkpoint_steps
          /\ p[1].latest_checkpoint = m1.latest_checkpoint /\ p[2].checkpoint = t1.checkpoint
          /\ p[1].latest_state_dict >= s
          /\ Published(m1, t1, p[1], p[2], s)
        BY <2>1, <2>2, PublishesStateDict
    <2> QED BY <1>1, <1>2, <2>2, <2>3 DEF Published
<1>3. CASE ~(s > m.latest_checkpoint)
    <2>1. p = <<m, t>>
        BY <1>3 DEF PublishCheckpoint
    <2>2. p[1] = m /\ p[2] = t
        BY <2>1
    <2> QED BY <1>1, <1>3, <2>2 DEF Published
<1> QED BY <1>2, <1>3

\* MonitorStep lets the step be published, unless a saver is still at work.
LEMMA MonitorSteps ==
    ASSUME TypeOK, monitor.latest_checkpoint <= monitor.latest_state_dict,
           NEW s \in Step, NEW b \in BOOLEAN, MonitorStep(s, b)
    PROVE  /\ monitor' \in MonitorState /\ tracker' \in TrackerState
           /\ monitor'.counter = monitor.counter
           /\ monitor'.checkpoint_steps =
                  IF b THEN monitor.checkpoint_steps ELSE monitor.checkpoint_steps \cup {s}
           /\ Published(monitor, tracker, monitor', tracker', s)
           /\ b => /\ monitor'.latest_checkpoint = monitor.latest_checkpoint
                   /\ tracker'.checkpoint = tracker.checkpoint
           /\ monitor'.latest_state_dict # monitor.latest_state_dict => monitor.counter[s] = 0
           /\ ~b /\ monitor.counter[s] = 0 => monitor'.latest_checkpoint >= s
<1> DEFINE m == IF b THEN [monitor EXCEPT !.state_dict_steps = @ \cup {s}]
                     ELSE [monitor EXCEPT !.checkpoint_steps = @ \cup {s}]
           p == IF m.counter[s] # 0 THEN <<m, tracker>>
                ELSE IF b THEN PublishStateDict(m, tracker, s)
                ELSE PublishCheckpoint(m, tracker, s)
<1>1. monitor' = p[1] /\ tracker' = p[2]
    BY DEF MonitorStep, MonitorDoes
<1>2. /\ m \in MonitorState /\ m.counter = monitor.counter
      /\ m.checkpoint_steps =
             IF b THEN monitor.checkpoint_steps ELSE monitor.checkpoint_steps \cup {s}
      /\ m.latest_state_dict = monitor.latest_state_dict
      /\ m.latest_checkpoint = monitor.latest_checkpoint
    <2>1. monitor \in MonitorState
        BY DEF TypeOK
    <2> QED BY <2>1 DEF MonitorState
<1>3. tracker \in TrackerState
    BY DEF TypeOK
<1> HIDE DEF m
<1>4. CASE m.counter[s] # 0
    <2>1. p = <<m, tracker>>
        BY <1>4
    <2>2. p[1] = m /\ p[2] = tracker
        BY <2>1
    <2> QED BY <1>1, <1>2, <1>3, <1>4, <2>2 DEF Published
<1>5. CASE m.counter[s] = 0 /\ b
    <2>1. p = PublishStateDict(m, tracker, s)
        BY <1>5
    <2> HIDE DEF p
    <2>2. /\ p[1] \in MonitorState /\ p[2] \in TrackerState
          /\ p[1].counter = m.counter
          /\ p[1].checkpoint_steps = m.checkpoint_steps
          /\ p[1].latest_checkpoint = m.latest_checkpoint /\ p[2].checkpoint = tracker.checkpoint
          /\ Published(m, tracker, p[1], p[2], s)
        BY <1>2, <1>3, <2>1, PublishesStateDict
    <2> QED BY <1>1, <1>2, <1>5, <2>2 DEF Published
<1>6. CASE m.counter[s] = 0 /\ ~b
    <2>1. p = PublishCheckpoint(m, tracker, s)
        BY <1>6
    <2> HIDE DEF p
    <2>2. /\ p[1] \in MonitorState /\ p[2] \in TrackerState
          /\ p[1].counter = m.counter
          /\ p[1].checkpoint_steps = m.checkpoint_steps
          /\ p[1].latest_checkpoint >= s
          /\ Published(m, tracker, p[1], p[2], s)
        BY <1>2, <1>3, <2>1, PublishesCheckpoint
    <2> QED BY <1>1, <1>2, <1>6, <2>2 DEF Published
<1> QED BY <1>4, <1>5, <1>6

\* NotifyFinished does too, once every saver of the step is done.
LEMMA Notified ==
    ASSUME TypeOK, monitor.latest_checkpoint <= monitor.latest_state_dict,
           NEW s \in Step, NotifyFinished(s)
    PROVE  /\ monitor' \in MonitorState /\ tracker' \in TrackerState
           /\ monitor'.counter = [monitor.counter EXCEPT ![s] = @ - 1]
           /\ monitor'.checkpoint_steps = monitor.checkpoint_steps
           /\ Published(monitor, tracker, monitor', tracker', s)
           /\ monitor'.latest_checkpoint # monitor.latest_checkpoint =>
                  s \in monitor.checkpoint_steps
<1> DEFINE m == [monitor EXCEPT !.saving_count = @ - 1, !.counter[s] = @ - 1]
           q == PublishStateDict(m, tracker, s)
           c == s \notin m.state_dict_steps \cup m.checkpoint_steps \/ m.counter[s] # 0
           d == s \in m.checkpoint_steps /\ s >= m.latest_state_dict
           p == IF c THEN <<m, tracker>> ELSE IF d THEN PublishCheckpoint(q[1], q[2], s) ELSE q
<1>1. monitor' = p[1] /\ tracker' = p[2]
    BY DEF NotifyFinished, MonitorDoes
<1>2. /\ m \in MonitorState /\ m.counter = [monitor.counter EXCEPT ![s] = @ - 1]
      /\ m.checkpoint_steps = monitor.checkpoint_steps
      /\ m.latest_state_dict = monitor.latest_state_dict
      /\ m.latest_checkpoint = monitor.latest_checkpoint
    <2>1. monitor \in MonitorState
        BY DEF TypeOK
    <2>2. monitor.counter \in [Step -> Int] /\ monitor.saving_count \in Int
        BY <2>1 DEF MonitorState
    <2>3. [monitor.counter EXCEPT ![s] = @ - 1] \in [Step -> Int]
        BY <2>2
    <2>4. monitor.saving_count - 1 \in Int
        BY <2>2
    <2> QED BY <2>1, <2>3, <2>4 DEF MonitorState
<1>3. /\ tracker \in TrackerState
      /\ m.latest_state_dict \in 0 .. MaxStep /\ m.latest_checkpoint \in 0 .. MaxStep
      /\ s \in 0 .. MaxStep /\ MaxStep \in Nat
    BY <1>2, Bounds, SMTT(30) DEF TypeOK, MonitorState, Step
<1> HIDE DEF m
<1>4. CASE c
    <2>1. p = <<m, tracker>>
        BY <1>4
    <2>2. p[1] = m /\ p[2] = tracker
        BY <2>1
    <2> QED BY <1>1, <1>2, <1>3, <2>2 DEF Published
<1>5. /\ q[1] \in MonitorState /\ q[2] \in TrackerState
      /\ q[1].counter = m.counter
      /\ q[1].checkpoint_steps = m.checkpoint_steps
      /\ q[1].latest_checkpoint = m.latest_checkpoint /\ q[2].checkpoint = tracker.checkpoint
      /\ q[1].latest_state_dict >= s
      /\ Published(m, tracker, q[1], q[2], s)
    BY <1>2, <1>3, PublishesStateDict
<1> HIDE DEF q
<1>6. CASE ~c /\ ~d
    <2>1. p = q
        BY <1>6
    <2> QED BY <1>1, <1>2, <1>5, <2>1 DEF Published
<1>7. CASE ~c /\ d
    <2>1. p = PublishCheckpoint(q[1], q[2], s) /\ s \in monitor.checkpoint_steps
        BY <1>2, <1>7
    <2>2. q[1].latest_checkpoint <= q[1].latest_state_dict
        BY <1>2, <1>3, <1>5 DEF Published
    <2> HIDE DEF p
    <2>3. /\ p[1] \in MonitorState /\ p[2] \in TrackerState
          /\ p[1].counter = q[1].counter
          /\ p[1].checkpoint_steps = q[1].checkpoint_steps
          /\ Published(q[1], q[2], p[1], p[2], s)
        BY <1>5, <2>1, <2>2, PublishesCheckpoint
    <2>4. q[1].latest_state_dict \in Int /\ p[1].latest_state_dict \in Int
        BY <1>5, <2>3 DEF MonitorState
    <2>5. Published(m, tracker, p[1], p[2], s)
        BY <1>2, <1>3, <1>5, <2>3, <2>4 DEF Published
    <2> QED BY <1>1, <1>2, <1>5, <2>1, <2>3, <2>5 DEF Published
<1> QED BY <1>4, <1>6, <1>7

\* What a publication does keeps the checkpoints behind the state dicts.
LEMMA PublishedFits ==
    ASSUME TypeInv, NEW s \in Step,
           monitor' \in MonitorState, Published(monitor, tracker, monitor', tracker', s)
    PROVE  monitor'.latest_checkpoint <= monitor'.latest_state_dict
<1>1. /\ monitor.latest_checkpoint \in Int /\ monitor.latest_state_dict \in Int
      /\ monitor'.latest_checkpoint \in Int /\ monitor'.latest_state_dict \in Int /\ s \in Int
    BY DEF TypeInv, TypeOK, MonitorState, Step
<1> QED BY <1>1 DEF TypeInv, SavesFit, Published

-----------------------------------------------------------------------------
(* Type correctness.                                                       *)

\* A step of the trainer within its saves.
LEMMA TrainerMoves ==
    ASSUME TypeInv, NEW p \in Saving \cup {"train", "stopped"}, TrainerAt(p)
    PROVE  /\ trainer' \in TrainerState
           /\ trainer'.pc = p /\ trainer'.step = trainer.step /\ trainer'.over = trainer.over
<1>1. trainer \in TrainerState
    BY DEF TypeInv, TypeOK
<1> QED BY <1>1 DEF TrainerAt, TrainerState, Saving

\* The step that is being saved.
LEMMA SavedStep ==
    ASSUME TypeInv
    PROVE  /\ trainer.pc \in Saving => trainer.step \in Step
           /\ thread.pc # "none" => thread.step \in Step
<1>1. trainer.step \in 0 .. MaxStep /\ thread.step \in 0 .. MaxStep
    BY Types DEF TypeInv
<1> QED BY <1>1, Bounds DEF TypeInv, SavesFit, Step

\* Another state of one directory.
LEMMA DirWrites ==
    ASSUME TypeOK, NEW s \in Step
    PROVE  /\ [dir EXCEPT ![s] = Empty] \in [Step -> DirState]
           /\ [dir EXCEPT ![s].full = TRUE] \in [Step -> DirState]
           /\ [dir EXCEPT ![s].state_dict = TRUE] \in [Step -> DirState]
           /\ \A c \in {"partial", "complete", "rewriting"} :
                  [dir EXCEPT ![s].checkpoint = c] \in [Step -> DirState]
<1>1. dir \in [Step -> DirState] /\ dir[s] \in DirState
    BY DEF TypeOK
<1>2. Empty \in DirState
    BY DEF Empty, DirState
<1>3. [dir[s] EXCEPT !.full = TRUE] \in DirState /\ [dir[s] EXCEPT !.state_dict = TRUE] \in DirState
    BY <1>1 DEF DirState
<1>4. \A c \in {"partial", "complete", "rewriting"} : [dir[s] EXCEPT !.checkpoint = c] \in DirState
    BY <1>1 DEF DirState
<1>5. ASSUME NEW d \in DirState PROVE [dir EXCEPT ![s] = d] \in [Step -> DirState]
    BY <1>1, <1>5
<1> QED BY <1>2, <1>3, <1>4, <1>5

\* A checkpoint that was written to its end, and may be being written again.
Written(s) == dir[s].checkpoint \in {"complete", "rewriting"}

LEMMA StartWrites ==
    ASSUME CheckpointStarts, NEW s \in Step, s = trainer.step
    PROVE  \E c \in {"partial", "rewriting"} :
              /\ dir' = [dir EXCEPT ![s].checkpoint = c]
              /\ Written(s) => c = "rewriting"
<1> DEFINE c == IF dir[s].checkpoint \in {"complete", "rewriting"} THEN "rewriting" ELSE "partial"
<1>1. dir' = [dir EXCEPT ![s].checkpoint = c]
    BY DEF CheckpointStarts
<1> QED BY <1>1 DEF Written

LEMMA MonitorStarts ==
    ASSUME TypeOK, NotifyStarted
    PROVE  /\ monitor' \in MonitorState
           /\ monitor'.counter = monitor.counter
           /\ monitor'.checkpoint_steps = monitor.checkpoint_steps
           /\ monitor'.latest_checkpoint = monitor.latest_checkpoint
           /\ monitor'.latest_state_dict = monitor.latest_state_dict
<1>1. monitor \in MonitorState /\ monitor.saving_count + 1 \in Int
    BY DEF TypeOK, MonitorState
<1> QED BY <1>1 DEF NotifyStarted, MonitorState

LEMMA MonitorRegisters ==
    ASSUME TypeOK, NEW s \in Step, monitor' = Registered(monitor, s)
    PROVE  /\ monitor' \in MonitorState
           /\ monitor'.counter = [monitor.counter EXCEPT ![s] = @ + 1]
           /\ monitor'.checkpoint_steps = monitor.checkpoint_steps
           /\ monitor'.latest_checkpoint = monitor.latest_checkpoint
           /\ monitor'.latest_state_dict = monitor.latest_state_dict
<1>1. monitor \in MonitorState /\ monitor.counter \in [Step -> Int]
    BY DEF TypeOK, MonitorState
<1>2. [monitor.counter EXCEPT ![s] = @ + 1] \in [Step -> Int]
    BY <1>1
<1> QED BY <1>1, <1>2 DEF Registered, MonitorState

\* The checkpoints that are retained: the last is the one just saved.
Paths ==
    IF saved_paths # <<>> /\ saved_paths[Len(saved_paths)] = trainer.step
    THEN saved_paths ELSE Append(saved_paths, trainer.step)
Surplus == IF keep > 0 /\ Len(Paths) > keep THEN Len(Paths) - keep ELSE 0

LEMMA Retains ==
    ASSUME TypeInv, RetainCheckpoints
    PROVE  /\ Paths \in Seq(Step) /\ Paths # <<>> /\ Paths[Len(Paths)] = trainer.step
           /\ Surplus \in Nat /\ Surplus < Len(Paths)
           /\ saved_paths' \in Seq(Step)
           /\ Len(saved_paths') = Len(Paths) - Surplus
           /\ \A n \in 1 .. Len(Paths) - Surplus : saved_paths'[n] = Paths[n + Surplus]
           /\ dir' = [s \in Step |-> IF \E n \in 1 .. Surplus : Paths[n] = s THEN Empty ELSE dir[s]]
           /\ dir' \in [Step -> DirState]
<1>1. saved_paths \in Seq(Step) /\ keep \in Nat /\ dir \in [Step -> DirState]
    BY Types DEF TypeInv
<1>2. trainer.step \in Step
    BY SavedStep DEF RetainCheckpoints, Saving
<1>3. Paths \in Seq(Step) /\ Paths # <<>> /\ Paths[Len(Paths)] = trainer.step
    <2>1. CASE saved_paths # <<>> /\ saved_paths[Len(saved_paths)] = trainer.step
        BY <1>1, <2>1 DEF Paths
    <2>2. CASE ~(saved_paths # <<>> /\ saved_paths[Len(saved_paths)] = trainer.step)
        <3>1. Paths = Append(saved_paths, trainer.step)
            BY <2>2 DEF Paths
        <3> QED BY <1>1, <1>2, <3>1
    <2> QED BY <2>1, <2>2
<1>4. Len(Paths) \in Nat /\ Len(Paths) > 0
    BY <1>3
<1>5. Surplus \in Nat /\ Surplus < Len(Paths)
    BY <1>1, <1>4 DEF Surplus
<1>6. /\ saved_paths' = SubSeq(Paths, Surplus + 1, Len(Paths))
      /\ dir' = [s \in Step |-> IF \E n \in 1 .. Surplus : Paths[n] = s THEN Empty ELSE dir[s]]
    BY DEF RetainCheckpoints, Paths, Surplus
<1> HIDE DEF Paths, Surplus
<1>7. /\ saved_paths' \in Seq(Step)
      /\ Len(saved_paths') = Len(Paths) - Surplus
      /\ \A n \in 1 .. Len(Paths) - Surplus : saved_paths'[n] = Paths[n + Surplus]
    <2>1. /\ Len(saved_paths') = Len(Paths) - Surplus
          /\ \A n \in 1 .. Len(Paths) - Surplus : saved_paths'[n] = Paths[n + Surplus]
        BY <1>3, <1>4, <1>5, <1>6
    <2>2. saved_paths' \in Seq(Step)
        BY <1>3, <1>4, <1>5, <1>6, SubSeqProperties
    <2> QED BY <2>1, <2>2
<1>8. Empty \in DirState
    BY DEF Empty, DirState
<1>9. dir' \in [Step -> DirState]
    BY <1>1, <1>6, <1>8
<1> QED BY <1>3, <1>5, <1>6, <1>7, <1>9

\* A step of the tracker: it keeps its type with the monitor.
LEMMA PublicationTypes ==
    ASSUME TypeInv, NEW s \in Step,
           (\E b \in BOOLEAN : MonitorStep(s, b)) \/ NotifyFinished(s)
    PROVE  /\ monitor' \in MonitorState /\ tracker' \in TrackerState
           /\ monitor'.latest_checkpoint <= monitor'.latest_state_dict
<1>1. TypeOK /\ monitor.latest_checkpoint <= monitor.latest_state_dict
    BY DEF TypeInv, SavesFit
<1>2. CASE \E b \in BOOLEAN : MonitorStep(s, b)
    <2>1. PICK b \in BOOLEAN : MonitorStep(s, b)
        BY <1>2
    <2>2. /\ monitor' \in MonitorState /\ tracker' \in TrackerState
          /\ Published(monitor, tracker, monitor', tracker', s)
        BY <1>1, <2>1, MonitorSteps
    <2> QED BY <2>2, PublishedFits
<1>3. CASE NotifyFinished(s)
    <2>2. /\ monitor' \in MonitorState /\ tracker' \in TrackerState
          /\ Published(monitor, tracker, monitor', tracker', s)
        BY <1>1, <1>3, Notified
    <2> QED BY <2>2, PublishedFits
<1> QED BY <1>2, <1>3

LEMMA TypeInit == Init => TypeInv
<1> SUFFICES ASSUME Init PROVE TypeInv
    OBVIOUS
<1>1. 0 \in 0 .. MaxStep /\ 0 \in 0 .. MaxCrashes
    BY Bounds
<1>2. trainer \in TrainerState /\ thread \in ThreadState /\ tracker \in TrackerState
    BY <1>1 DEF Init, TrainerState, ThreadState, TrackerState, NoThread
<1>3. monitor \in MonitorState /\ dir \in [Step -> DirState]
    BY <1>1 DEF Init, MonitorState, NewMonitor, DirState, Empty
<1>4. /\ scan \in [version : 0 .. MaxStep, remove : 0 .. MaxStep]
      /\ explorer \in [version : 0 .. MaxStep, loading : 0 .. MaxStep]
      /\ saved_paths \in Seq(Step) /\ crashes \in 0 .. MaxCrashes
      /\ keep \in Keeps /\ strategy \in Strategies
    BY <1>1 DEF Init
<1>5. SavesFit
    BY DEF Init, SavesFit, NoThread, NewMonitor, Saving
<1> QED BY <1>2, <1>3, <1>4, <1>5 DEF TypeInv, TypeOK

\* Restarts keep the types, since the tracker names a step or none.
LEMMA TypeCrash == TypeInv /\ Crash => TypeInv'
<1> SUFFICES ASSUME TypeInv, Crash PROVE TypeInv'
    OBVIOUS
<1>1. 0 \in 0 .. MaxStep /\ tracker.checkpoint \in 0 .. MaxStep
    BY Bounds, Types DEF TypeInv
<1>2. trainer' \in TrainerState /\ thread' \in ThreadState /\ trainer'.pc = "train" /\ thread'.pc = "none"
    BY <1>1 DEF Crash, TrainerState, ThreadState, NoThread
<1>3. monitor' \in MonitorState /\ monitor'.latest_checkpoint = 0 /\ monitor'.latest_state_dict = 0
    BY <1>1 DEF Crash, MonitorState, NewMonitor
<1>4. crashes' \in 0 .. MaxCrashes
    BY Bounds DEF Crash, TypeInv, TypeOK
<1>5. /\ scan' \in [version : 0 .. MaxStep, remove : 0 .. MaxStep]
      /\ explorer' \in [version : 0 .. MaxStep, loading : 0 .. MaxStep]
      /\ saved_paths' \in Seq(Step)
    BY <1>1 DEF Crash
<1>6. SavesFit'
    BY <1>2, <1>3 DEF SavesFit, Saving
<1> QED BY <1>2, <1>3, <1>4, <1>5, <1>6 DEF Crash, TypeInv, TypeOK, config

LEMMA TypeTrainer == TypeInv /\ (TrainStep \/ EndLoop \/ TrainerStep) => TypeInv'
<1> SUFFICES ASSUME TypeInv, TrainStep \/ EndLoop \/ TrainerStep PROVE TypeInv'
    OBVIOUS
<1> USE DEF config
<1>0. /\ trainer \in TrainerState /\ trainer.step \in 0 .. MaxStep /\ TypeOK
      /\ trainer.pc \in Saving => trainer.step \in Step
      /\ thread \in ThreadState
    BY SavedStep DEF TypeInv, TypeOK, TrainerState
<1>1. CASE TrainStep
    <2>1. trainer.step + 1 \in 1 .. MaxStep
        BY <1>0, <1>1, Bounds DEF TrainStep
    <2>2. /\ trainer' \in TrainerState /\ trainer'.step # 0
        <3>1. PICK p \in {"checkpoint", "state_dict", "train"} :
                  trainer' = [trainer EXCEPT !.step = trainer.step + 1, !.pc = p]
            BY <1>1 DEF TrainStep
        <3>2. trainer' = [pc |-> p, step |-> trainer.step + 1, over |-> trainer.over]
            BY <1>0, <3>1 DEF TrainerState
        <3>3. trainer.step + 1 \in 0 .. MaxStep /\ trainer.step + 1 # 0 /\ trainer.over \in BOOLEAN
            BY <1>0, <2>1, Bounds DEF TrainerState
        <3> QED BY <3>2, <3>3 DEF TrainerState
    <2> QED BY <1>1, <2>2 DEF TrainStep, TypeInv, TypeOK, SavesFit
<1>2. CASE EndLoop
    <2>1. trainer' \in TrainerState /\ trainer'.step = trainer.step
        BY <1>0, <1>2 DEF EndLoop, TrainerState
    <2>2. trainer'.pc \in Saving => trainer.step # 0
        BY <1>0, <1>2 DEF EndLoop, TrainerState, Saving
    <2> QED BY <1>2, <2>1, <2>2 DEF EndLoop, TypeInv, TypeOK, SavesFit
<1>3. CASE SaveStateDict
    <2>1. /\ trainer' \in TrainerState
          /\ trainer'.pc = "register" /\ trainer'.step = trainer.step
          /\ trainer.step \in Step
        BY <1>0, <1>3, TrainerMoves DEF SaveStateDict, Saving
    <2>2. thread' \in ThreadState /\ thread'.step # 0
        BY <1>3, <2>1 DEF SaveStateDict, ThreadState, Step
    <2>3. trainer'.step # 0
        BY <2>1, Bounds DEF Step
    <2> QED BY <1>3, <2>1, <2>2, <2>3 DEF SaveStateDict, TypeInv, TypeOK, SavesFit
<1>4. CASE RegisterStateDict
    <2>1. /\ trainer' \in TrainerState
          /\ trainer'.pc = "monitor" /\ trainer'.step = trainer.step
          /\ trainer.step \in Step
        BY <1>0, <1>4, TrainerMoves DEF RegisterStateDict, Saving
    <2>2. /\ monitor' \in MonitorState
          /\ monitor'.latest_checkpoint = monitor.latest_checkpoint
          /\ monitor'.latest_state_dict = monitor.latest_state_dict
        BY <1>0, <1>4, <2>1, MonitorRegisters DEF RegisterStateDict
    <2>3. trainer'.step # 0
        BY <2>1, Bounds DEF Step
    <2> QED BY <1>4, <2>1, <2>2, <2>3 DEF RegisterStateDict, TypeInv, TypeOK, SavesFit
<1>5. CASE MonitorStateDict
    <2>1. /\ trainer' \in TrainerState
          /\ trainer'.pc = "train" /\ trainer'.step = trainer.step
          /\ trainer.step \in Step
        BY <1>0, <1>5, TrainerMoves DEF MonitorStateDict, Saving
    <2>2. /\ monitor' \in MonitorState /\ tracker' \in TrackerState
          /\ monitor'.latest_checkpoint <= monitor'.latest_state_dict
        BY <1>5, <2>1, PublicationTypes DEF MonitorStateDict
    <2> QED BY <1>5, <2>1, <2>2 DEF MonitorStateDict, TypeInv, TypeOK, SavesFit, Saving
<1>6. CASE SaveCheckpoint
    <2>1. /\ trainer' \in TrainerState
          /\ trainer'.pc = "start" /\ trainer'.step = trainer.step
          /\ trainer.step \in Step
        BY <1>0, <1>6, TrainerMoves DEF SaveCheckpoint, Saving
    <2>2. dir' \in [Step -> DirState]
        BY <1>0, <1>6, <2>1, DirWrites DEF SaveCheckpoint
    <2>3. trainer'.step # 0
        BY <2>1, Bounds DEF Step
    <2> QED BY <1>6, <2>1, <2>2, <2>3 DEF SaveCheckpoint, TypeInv, TypeOK, SavesFit
<1>7. CASE CheckpointStarts
    <2>1. /\ trainer' \in TrainerState
          /\ trainer'.pc = "write" /\ trainer'.step = trainer.step
          /\ trainer.step \in Step
        BY <1>0, <1>7, TrainerMoves DEF CheckpointStarts, Saving
    <2>2. dir' \in [Step -> DirState]
        <3>1. PICK s \in Step : s = trainer.step
            BY <2>1
        <3>2. PICK c \in {"partial", "rewriting"} : dir' = [dir EXCEPT ![s].checkpoint = c]
            BY <1>7, <3>1, StartWrites
        <3> QED BY <1>0, <3>2, DirWrites
    <2>3. /\ monitor' \in MonitorState
          /\ monitor'.latest_checkpoint = monitor.latest_checkpoint
          /\ monitor'.latest_state_dict = monitor.latest_state_dict
        BY <1>0, <1>7, MonitorStarts DEF CheckpointStarts
    <2>4. trainer'.step # 0
        BY <2>1, Bounds DEF Step
    <2> QED BY <1>7, <2>1, <2>2, <2>3, <2>4 DEF CheckpointStarts, TypeInv, TypeOK, SavesFit
<1>8. CASE CheckpointWritten
    <2>1. /\ trainer' \in TrainerState
          /\ trainer'.pc = "retain" /\ trainer'.step = trainer.step
          /\ trainer.step \in Step
        BY <1>0, <1>8, TrainerMoves DEF CheckpointWritten, Saving
    <2>2. dir' \in [Step -> DirState]
        <3>1. [dir EXCEPT ![trainer.step].checkpoint = "complete"] \in [Step -> DirState]
            BY <1>0, <2>1, DirWrites
        <3> QED BY <1>8, <3>1 DEF CheckpointWritten
    <2>3. /\ monitor' \in MonitorState /\ tracker' \in TrackerState
          /\ monitor'.latest_checkpoint <= monitor'.latest_state_dict
        BY <1>8, <2>1, PublicationTypes DEF CheckpointWritten
    <2>4. trainer'.step # 0
        BY <2>1, Bounds DEF Step
    <2> QED BY <1>8, <2>1, <2>2, <2>3, <2>4 DEF CheckpointWritten, TypeInv, TypeOK, SavesFit
<1>9. CASE RetainCheckpoints
    <2>1. /\ trainer' \in TrainerState
          /\ trainer'.pc = "register_checkpoint" /\ trainer'.step = trainer.step
          /\ trainer.step \in Step
        BY <1>0, <1>9, TrainerMoves DEF RetainCheckpoints, Saving
    <2>2. dir' \in [Step -> DirState] /\ saved_paths' \in Seq(Step)
        BY <1>9, Retains
    <2>3. trainer'.step # 0
        BY <2>1, Bounds DEF Step
    <2> QED BY <1>9, <2>1, <2>2, <2>3 DEF RetainCheckpoints, TypeInv, TypeOK, SavesFit
<1>10. CASE RegisterCheckpoint
    <2>1. /\ trainer' \in TrainerState
          /\ trainer'.pc = "monitor_checkpoint" /\ trainer'.step = trainer.step
          /\ trainer.step \in Step
        BY <1>0, <1>10, TrainerMoves DEF RegisterCheckpoint, Saving
    <2>2. /\ monitor' \in MonitorState
          /\ monitor'.latest_checkpoint = monitor.latest_checkpoint
          /\ monitor'.latest_state_dict = monitor.latest_state_dict
        BY <1>0, <1>10, <2>1, MonitorRegisters DEF RegisterCheckpoint
    <2>3. trainer'.step # 0
        BY <2>1, Bounds DEF Step
    <2> QED BY <1>10, <2>1, <2>2, <2>3 DEF RegisterCheckpoint, TypeInv, TypeOK, SavesFit
<1>11. CASE MonitorCheckpoint
    <2>1. PICK p \in {"block", "train"} : TrainerAt(p)
        BY <1>11 DEF MonitorCheckpoint
    <2>2. /\ trainer' \in TrainerState
          /\ trainer'.step = trainer.step /\ trainer.step \in Step
        BY <1>0, <1>11, <2>1, TrainerMoves DEF MonitorCheckpoint, Saving
    <2>3. /\ monitor' \in MonitorState /\ tracker' \in TrackerState
          /\ monitor'.latest_checkpoint <= monitor'.latest_state_dict
        BY <1>11, <2>2, PublicationTypes DEF MonitorCheckpoint
    <2>4. trainer'.step # 0
        BY <2>2, Bounds DEF Step
    <2> QED BY <1>11, <2>2, <2>3, <2>4 DEF MonitorCheckpoint, TypeInv, TypeOK, SavesFit
<1>12. CASE WaitForSave
    <2>1. PICK p \in {"stopped", "train"} : TrainerAt(p)
        BY <1>12 DEF WaitForSave
    <2>2. trainer' \in TrainerState /\ trainer'.pc \notin Saving
        BY <2>1, TrainerMoves DEF Saving
    <2> QED BY <1>12, <2>2 DEF WaitForSave, TypeInv, TypeOK, SavesFit
<1> QED BY <1>1, <1>2, <1>3, <1>4, <1>5, <1>6, <1>7, <1>8, <1>9, <1>10, <1>11, <1>12 DEF TrainerStep

LEMMA TypeThread == TypeInv /\ (ThreadStep \/ ThreadFails) => TypeInv'
<1> SUFFICES ASSUME TypeInv, ThreadStep \/ ThreadFails PROVE TypeInv'
    OBVIOUS
<1> USE DEF config
<1>0. /\ TypeOK /\ thread \in ThreadState
      /\ thread.pc # "none" => thread.step \in Step
    BY SavedStep DEF TypeInv, TypeOK
<1>1. CASE ThreadStarts
    <2>1. thread' \in ThreadState /\ thread'.step = thread.step /\ thread.pc = "start"
        BY <1>0, <1>1 DEF ThreadStarts, ThreadState
    <2>2. /\ monitor' \in MonitorState
          /\ monitor'.latest_checkpoint = monitor.latest_checkpoint
          /\ monitor'.latest_state_dict = monitor.latest_state_dict
        BY <1>0, <1>1, MonitorStarts DEF ThreadStarts
    <2> QED BY <1>1, <2>1, <2>2 DEF ThreadStarts, TypeInv, TypeOK, SavesFit
<1>2. CASE ThreadRenames
    <2>1. thread' \in ThreadState /\ thread'.step = thread.step /\ thread.pc = "rename"
        BY <1>0, <1>2 DEF ThreadRenames, ThreadState
    <2>2. dir' \in [Step -> DirState]
        BY <1>0, <1>2, <2>1, DirWrites DEF ThreadRenames
    <2> QED BY <1>2, <2>1, <2>2 DEF ThreadRenames, TypeInv, TypeOK, SavesFit
<1>3. CASE ThreadFinishes
    <2>1. thread' \in ThreadState /\ thread'.step = thread.step /\ thread.pc = "finish"
        BY <1>0, <1>3 DEF ThreadFinishes, ThreadState
    <2>2. /\ monitor' \in MonitorState /\ tracker' \in TrackerState
          /\ monitor'.latest_checkpoint <= monitor'.latest_state_dict
        BY <1>0, <1>3, <2>1, PublicationTypes DEF ThreadFinishes
    <2> QED BY <1>3, <2>1, <2>2 DEF ThreadFinishes, TypeInv, TypeOK, SavesFit
<1>4. CASE ThreadFails
    <2>1. thread' \in ThreadState /\ thread'.step = thread.step /\ thread.pc = "rename"
        BY <1>0, <1>4 DEF ThreadFails, ThreadState
    <2> QED BY <1>4, <2>1 DEF ThreadFails, TypeInv, TypeOK, SavesFit
<1> QED BY <1>1, <1>2, <1>3, <1>4 DEF ThreadStep

LEMMA TypeScan == TypeInv /\ (ScanFinds \/ ScanRemoves \/ LoadStarts \/ LoadEnds) => TypeInv'
<1> SUFFICES ASSUME TypeInv, ScanFinds \/ ScanRemoves \/ LoadStarts \/ LoadEnds PROVE TypeInv'
    OBVIOUS
<1> USE DEF config
<1>0. /\ scan \in [version : 0 .. MaxStep, remove : 0 .. MaxStep]
      /\ explorer \in [version : 0 .. MaxStep, loading : 0 .. MaxStep]
      /\ tracker.state_dict \in 0 .. MaxStep /\ MaxStep \in Nat /\ TypeOK
    BY Types, Bounds DEF TypeInv, TypeOK
<1>1. CASE ScanFinds
    <2>1. scan' \in [version : 0 .. MaxStep, remove : 0 .. MaxStep]
        BY <1>0, <1>1 DEF ScanFinds
    <2> QED BY <1>1, <2>1 DEF ScanFinds, TypeInv, TypeOK, SavesFit
<1>2. CASE ScanRemoves
    <2>1. scan.remove \in Step
        BY <1>0, <1>2 DEF ScanRemoves, Step
    <2>2. [dir EXCEPT ![scan.remove] = Empty] \in [Step -> DirState]
        BY <1>0, <2>1, DirWrites
    <2>3. dir' \in [Step -> DirState]
        BY <1>0, <1>2, <2>2 DEF ScanRemoves, TypeOK
    <2>4. scan' \in [version : 0 .. MaxStep, remove : 0 .. MaxStep]
        BY <1>0, <1>2 DEF ScanRemoves
    <2> QED BY <1>2, <2>3, <2>4 DEF ScanRemoves, TypeInv, TypeOK, SavesFit
<1>3. CASE LoadStarts
    <2>1. explorer' \in [version : 0 .. MaxStep, loading : 0 .. MaxStep]
        BY <1>0, <1>3 DEF LoadStarts
    <2> QED BY <1>3, <2>1 DEF LoadStarts, TypeInv, TypeOK, SavesFit
<1>4. CASE LoadEnds
    <2>1. explorer' \in [version : 0 .. MaxStep, loading : 0 .. MaxStep]
        BY <1>0, <1>4 DEF LoadEnds
    <2> QED BY <1>4, <2>1 DEF LoadEnds, TypeInv, TypeOK, SavesFit
<1> QED BY <1>1, <1>2, <1>3, <1>4

LEMMA TypeStep == TypeInv /\ [Next]_vars => TypeInv'
<1>1. TypeInv /\ UNCHANGED vars => TypeInv'
    BY DEF vars, config, TypeInv, TypeOK, SavesFit
<1> QED BY <1>1, TypeTrainer, TypeThread, TypeScan, TypeCrash DEF Next

\* The state of the savers, the monitor and the files has its type, in every job.
THEOREM TypeCorrect == Spec => []TypeOK
<1>1. TypeInv => TypeOK
    BY DEF TypeInv
<1> QED BY <1>1, TypeInit, TypeStep, PTL DEF Spec

-----------------------------------------------------------------------------
(* What the actions do to the pieces that the invariants speak of.         *)

\* Nothing is registered, finished or published.
MonitorStays ==
    /\ monitor'.counter = monitor.counter
    /\ monitor'.checkpoint_steps = monitor.checkpoint_steps
    /\ monitor'.latest_checkpoint = monitor.latest_checkpoint
    /\ monitor'.latest_state_dict = monitor.latest_state_dict

JobStays == UNCHANGED <<keep, saved_paths, scan, explorer, crashes>>

LEMMA DoesTrainStep ==
    ASSUME TypeInv, TrainStep
    PROVE  /\ trainer.pc = "train" /\ ~trainer.over /\ ~trainer'.over
           /\ trainer'.step = trainer.step + 1
           /\ trainer'.pc \in {"checkpoint", "state_dict", "train"}
           /\ UNCHANGED <<thread, monitor, tracker, dir>> /\ JobStays
<1>1. trainer \in TrainerState
    BY DEF TypeInv, TypeOK
<1>2. PICK p \in {"checkpoint", "state_dict", "train"} :
          trainer' = [trainer EXCEPT !.step = trainer.step + 1, !.pc = p]
    BY DEF TrainStep
<1>3. trainer' = [pc |-> p, step |-> trainer.step + 1, over |-> trainer.over]
    BY <1>1, <1>2 DEF TrainerState
<1>4. trainer'.step = trainer.step + 1 /\ trainer'.pc = p /\ trainer'.over = trainer.over
    BY <1>3
<1> QED BY <1>2, <1>4 DEF TrainStep, JobStays, config

LEMMA DoesEndLoop ==
    ASSUME TypeInv, EndLoop
    PROVE  /\ trainer.pc = "train" /\ ~trainer.over /\ trainer'.over
           /\ trainer'.step = trainer.step
           /\ trainer'.pc \in {"checkpoint", "stopped"}
           /\ UNCHANGED <<thread, monitor, tracker, dir>> /\ JobStays
<1>1. trainer \in TrainerState
    BY DEF TypeInv, TypeOK
<1> QED BY <1>1 DEF EndLoop, TrainerState, JobStays, config

LEMMA DoesSaveStateDict ==
    ASSUME TypeInv, SaveStateDict
    PROVE  /\ trainer.pc = "state_dict" /\ trainer'.pc = "register"
           /\ trainer'.step = trainer.step /\ trainer'.over = trainer.over
           /\ trainer.step \in Step
           /\ thread'.pc = "start" /\ thread'.step = trainer.step
           /\ UNCHANGED <<monitor, tracker, dir>> /\ JobStays
BY TrainerMoves, SavedStep DEF SaveStateDict, Saving, JobStays, config

LEMMA DoesRegisterStateDict ==
    ASSUME TypeInv, RegisterStateDict
    PROVE  /\ trainer.pc = "register" /\ trainer'.pc = "monitor"
           /\ trainer'.step = trainer.step /\ trainer'.over = trainer.over
           /\ trainer.step \in Step
           /\ monitor'.counter = [monitor.counter EXCEPT ![trainer.step] = @ + 1]
           /\ monitor'.checkpoint_steps = monitor.checkpoint_steps
           /\ monitor'.latest_checkpoint = monitor.latest_checkpoint
           /\ monitor'.latest_state_dict = monitor.latest_state_dict
           /\ UNCHANGED <<thread, tracker, dir>> /\ JobStays
<1>1. /\ trainer.pc = "register" /\ trainer'.pc = "monitor"
      /\ trainer'.step = trainer.step /\ trainer'.over = trainer.over
      /\ trainer.step \in Step
    BY TrainerMoves, SavedStep DEF RegisterStateDict, Saving
<1>2. TypeOK /\ monitor' = Registered(monitor, trainer.step)
    BY DEF TypeInv, RegisterStateDict
<1>3. /\ monitor'.counter = [monitor.counter EXCEPT ![trainer.step] = @ + 1]
      /\ monitor'.checkpoint_steps = monitor.checkpoint_steps
      /\ monitor'.latest_checkpoint = monitor.latest_checkpoint
      /\ monitor'.latest_state_dict = monitor.latest_state_dict
    BY <1>1, <1>2, MonitorRegisters
<1> QED BY <1>1, <1>3 DEF RegisterStateDict, JobStays, config

LEMMA DoesMonitorStateDict ==
    ASSUME TypeInv, MonitorStateDict
    PROVE  /\ trainer.pc = "monitor" /\ trainer'.pc = "train"
           /\ trainer'.step = trainer.step /\ trainer'.over = trainer.over
           /\ trainer.step \in Step
           /\ monitor'.counter = monitor.counter
           /\ monitor'.checkpoint_steps = monitor.checkpoint_steps
           /\ Published(monitor, tracker, monitor', tracker', trainer.step)
           /\ monitor'.latest_checkpoint = monitor.latest_checkpoint
           /\ tracker'.checkpoint = tracker.checkpoint
           /\ monitor'.latest_state_dict # monitor.latest_state_dict =>
                  monitor.counter[trainer.step] = 0
           /\ UNCHANGED <<thread, dir>> /\ JobStays
<1>1. /\ trainer.pc = "monitor" /\ trainer'.pc = "train"
      /\ trainer'.step = trainer.step /\ trainer'.over = trainer.over
      /\ trainer.step \in Step
    BY TrainerMoves, SavedStep DEF MonitorStateDict, Saving
<1>2. /\ TypeOK /\ monitor.latest_checkpoint <= monitor.latest_state_dict
      /\ MonitorStep(trainer.step, TRUE)
    BY DEF TypeInv, SavesFit, MonitorStateDict
<1>3. PICK s \in Step : s = trainer.step
    BY <1>1
<1>4. MonitorStep(s, TRUE)
    BY <1>2, <1>3
<1>5. /\ monitor'.counter = monitor.counter
      /\ monitor'.checkpoint_steps = monitor.checkpoint_steps
      /\ Published(monitor, tracker, monitor', tracker', s)
      /\ monitor'.latest_checkpoint = monitor.latest_checkpoint
      /\ tracker'.checkpoint = tracker.checkpoint
      /\ monitor'.latest_state_dict # monitor.latest_state_dict => monitor.counter[s] = 0
    BY <1>2, <1>4, MonitorSteps
<1> QED BY <1>1, <1>3, <1>5 DEF MonitorStateDict, JobStays, config

LEMMA DoesSaveCheckpoint ==
    ASSUME TypeInv, SaveCheckpoint
    PROVE  /\ trainer.pc = "checkpoint" /\ trainer'.pc = "start"
           /\ trainer'.step = trainer.step /\ trainer'.over = trainer.over
           /\ trainer.step \in Step
           /\ dir' = [dir EXCEPT ![trainer.step].full = TRUE]
           /\ UNCHANGED <<thread, monitor, tracker>> /\ JobStays
BY TrainerMoves, SavedStep DEF SaveCheckpoint, Saving, JobStays, config

LEMMA DoesCheckpointStarts ==
    ASSUME TypeInv, CheckpointStarts
    PROVE  /\ trainer.pc = "start" /\ trainer'.pc = "write"
           /\ trainer'.step = trainer.step /\ trainer'.over = trainer.over
           /\ trainer.step \in Step
           /\ MonitorStays
           /\ \E c \in {"partial", "rewriting"} :
                 /\ dir' = [dir EXCEPT ![trainer.step].checkpoint = c]
                 /\ Written(trainer.step) => c = "rewriting"
           /\ UNCHANGED <<thread, tracker>> /\ JobStays
<1>1. /\ trainer.pc = "start" /\ trainer'.pc = "write"
      /\ trainer'.step = trainer.step /\ trainer'.over = trainer.over
      /\ trainer.step \in Step
    BY TrainerMoves, SavedStep DEF CheckpointStarts, Saving
<1>2. TypeOK /\ NotifyStarted
    BY DEF TypeInv, CheckpointStarts
<1>3. \E c \in {"partial", "rewriting"} :
         /\ dir' = [dir EXCEPT ![trainer.step].checkpoint = c]
         /\ Written(trainer.step) => c = "rewriting"
    <2>1. PICK s \in Step : s = trainer.step
        BY <1>1
    <2> QED BY <2>1, StartWrites
<1> QED BY <1>1, <1>2, <1>3, MonitorStarts DEF CheckpointStarts, JobStays, MonitorStays, config

LEMMA DoesCheckpointWritten ==
    ASSUME TypeInv, CheckpointWritten
    PROVE  /\ trainer.pc = "write" /\ trainer'.pc = "retain"
           /\ trainer'.step = trainer.step /\ trainer'.over = trainer.over
           /\ trainer.step \in Step
           /\ monitor'.counter = [monitor.counter EXCEPT ![trainer.step] = @ - 1]
           /\ monitor'.checkpoint_steps = monitor.checkpoint_steps
           /\ Published(monitor, tracker, monitor', tracker', trainer.step)
           /\ monitor'.latest_checkpoint # monitor.latest_checkpoint =>
                  trainer.step \in monitor.checkpoint_steps
           /\ dir' = [dir EXCEPT ![trainer.step].checkpoint = "complete"]
           /\ UNCHANGED thread /\ JobStays
<1>1. /\ trainer.pc = "write" /\ trainer'.pc = "retain"
      /\ trainer'.step = trainer.step /\ trainer'.over = trainer.over
      /\ trainer.step \in Step
    BY TrainerMoves, SavedStep DEF CheckpointWritten, Saving
<1>2. /\ TypeOK /\ monitor.latest_checkpoint <= monitor.latest_state_dict
      /\ NotifyFinished(trainer.step)
    BY DEF TypeInv, SavesFit, CheckpointWritten
<1>3. PICK s \in Step : s = trainer.step
    BY <1>1
<1>4. NotifyFinished(s)
    BY <1>2, <1>3
<1>5. /\ monitor'.counter = [monitor.counter EXCEPT ![s] = @ - 1]
      /\ monitor'.checkpoint_steps = monitor.checkpoint_steps
      /\ Published(monitor, tracker, monitor', tracker', s)
      /\ monitor'.latest_checkpoint # monitor.latest_checkpoint => s \in monitor.checkpoint_steps
    BY <1>2, <1>4, Notified
<1> QED BY <1>1, <1>3, <1>5 DEF CheckpointWritten, JobStays, config

LEMMA DoesRetain ==
    ASSUME TypeInv, RetainCheckpoints
    PROVE  /\ trainer.pc = "retain" /\ trainer'.pc = "register_checkpoint"
           /\ trainer'.step = trainer.step /\ trainer'.over = trainer.over
           /\ trainer.step \in Step
           /\ UNCHANGED <<thread, monitor, tracker, keep, scan, explorer, crashes>>
BY TrainerMoves, SavedStep DEF RetainCheckpoints, Saving, config

LEMMA DoesRegisterCheckpoint ==
    ASSUME TypeInv, RegisterCheckpoint
    PROVE  /\ trainer.pc = "register_checkpoint" /\ trainer'.pc = "monitor_checkpoint"
           /\ trainer'.step = trainer.step /\ trainer'.over = trainer.over
           /\ trainer.step \in Step
           /\ monitor'.counter = [monitor.counter EXCEPT ![trainer.step] = @ + 1]
           /\ monitor'.checkpoint_steps = monitor.checkpoint_steps
           /\ monitor'.latest_checkpoint = monitor.latest_checkpoint
           /\ monitor'.latest_state_dict = monitor.latest_state_dict
           /\ UNCHANGED <<thread, tracker, dir>> /\ JobStays
<1>1. /\ trainer.pc = "register_checkpoint" /\ trainer'.pc = "monitor_checkpoint"
      /\ trainer'.step = trainer.step /\ trainer'.over = trainer.over
      /\ trainer.step \in Step
    BY TrainerMoves, SavedStep DEF RegisterCheckpoint, Saving
<1>2. TypeOK /\ monitor' = Registered(monitor, trainer.step)
    BY DEF TypeInv, RegisterCheckpoint
<1>3. /\ monitor'.counter = [monitor.counter EXCEPT ![trainer.step] = @ + 1]
      /\ monitor'.checkpoint_steps = monitor.checkpoint_steps
      /\ monitor'.latest_checkpoint = monitor.latest_checkpoint
      /\ monitor'.latest_state_dict = monitor.latest_state_dict
    BY <1>1, <1>2, MonitorRegisters
<1> QED BY <1>1, <1>3 DEF RegisterCheckpoint, JobStays, config

LEMMA DoesMonitorCheckpoint ==
    ASSUME TypeInv, MonitorCheckpoint
    PROVE  /\ trainer.pc = "monitor_checkpoint" /\ trainer'.pc \in {"block", "train"}
           /\ trainer.over => trainer'.pc = "block"
           /\ trainer'.step = trainer.step /\ trainer'.over = trainer.over
           /\ trainer.step \in Step
           /\ monitor'.counter = monitor.counter
           /\ monitor'.checkpoint_steps = monitor.checkpoint_steps \cup {trainer.step}
           /\ Published(monitor, tracker, monitor', tracker', trainer.step)
           /\ monitor.counter[trainer.step] = 0 => monitor'.latest_checkpoint >= trainer.step
           /\ UNCHANGED <<thread, dir>> /\ JobStays
<1>1. PICK p \in {"block", "train"} : TrainerAt(p) /\ (trainer.over => p = "block")
    BY DEF MonitorCheckpoint
<1>2. /\ trainer.pc = "monitor_checkpoint" /\ trainer'.pc = p
      /\ trainer'.step = trainer.step /\ trainer'.over = trainer.over
      /\ trainer.step \in Step
    BY <1>1, TrainerMoves, SavedStep DEF MonitorCheckpoint, Saving
<1>3. /\ TypeOK /\ monitor.latest_checkpoint <= monitor.latest_state_dict
      /\ MonitorStep(trainer.step, FALSE)
    BY DEF TypeInv, SavesFit, MonitorCheckpoint
<1>4. PICK s \in Step : s = trainer.step
    BY <1>2
<1>5. MonitorStep(s, FALSE)
    BY <1>3, <1>4
<1>6. /\ monitor'.counter = monitor.counter
      /\ monitor'.checkpoint_steps = monitor.checkpoint_steps \cup {s}
      /\ Published(monitor, tracker, monitor', tracker', s)
      /\ monitor.counter[s] = 0 => monitor'.latest_checkpoint >= s
    BY <1>3, <1>5, MonitorSteps
<1> QED BY <1>1, <1>2, <1>4, <1>6 DEF MonitorCheckpoint, JobStays, config

LEMMA DoesWaitForSave ==
    ASSUME TypeInv, WaitForSave
    PROVE  /\ trainer.pc = "block"
           /\ trainer'.pc = IF trainer.over THEN "stopped" ELSE "train"
           /\ trainer'.step = trainer.step /\ trainer'.over = trainer.over
           /\ UNCHANGED <<thread, monitor, tracker, dir>> /\ JobStays
<1>1. PICK p \in {"stopped", "train"} :
          TrainerAt(p) /\ p = IF trainer.over THEN "stopped" ELSE "train"
    BY DEF WaitForSave
<1> QED BY <1>1, TrainerMoves DEF WaitForSave, JobStays, config

LEMMA DoesThreadStart ==
    ASSUME TypeInv, ThreadStarts
    PROVE  /\ thread.pc = "start" /\ thread'.pc = "rename" /\ thread'.step = thread.step
           /\ MonitorStays
           /\ UNCHANGED <<trainer, tracker, dir>> /\ JobStays
<1>1. thread \in ThreadState /\ TypeOK
    BY DEF TypeInv, TypeOK
<1>2. thread.pc = "start" /\ thread'.pc = "rename" /\ thread'.step = thread.step
    BY <1>1 DEF ThreadStarts, ThreadState
<1> QED BY <1>1, <1>2, MonitorStarts DEF ThreadStarts, MonitorStays, JobStays, config

LEMMA DoesThreadRename ==
    ASSUME TypeInv, ThreadRenames
    PROVE  /\ thread.pc = "rename" /\ thread'.pc = "finish" /\ thread'.step = thread.step
           /\ thread.step \in Step
           /\ dir' = [dir EXCEPT ![thread.step].state_dict = TRUE]
           /\ UNCHANGED <<trainer, monitor, tracker>> /\ JobStays
<1>1. thread \in ThreadState
    BY DEF TypeInv, TypeOK
<1> QED BY <1>1, SavedStep DEF ThreadRenames, ThreadState, JobStays, config

LEMMA DoesThreadFinish ==
    ASSUME TypeInv, ThreadFinishes
    PROVE  /\ thread.pc = "finish" /\ thread'.pc = "done" /\ thread'.step = thread.step
           /\ thread.step \in Step
           /\ monitor'.counter = [monitor.counter EXCEPT ![thread.step] = @ - 1]
           /\ monitor'.checkpoint_steps = monitor.checkpoint_steps
           /\ Published(monitor, tracker, monitor', tracker', thread.step)
           /\ monitor'.latest_checkpoint # monitor.latest_checkpoint =>
                  thread.step \in monitor.checkpoint_steps
           /\ UNCHANGED <<trainer, dir>> /\ JobStays
<1>1. thread \in ThreadState
    BY DEF TypeInv, TypeOK
<1>2. /\ thread.pc = "finish" /\ thread'.pc = "done" /\ thread'.step = thread.step
      /\ thread.step \in Step
    BY <1>1, SavedStep DEF ThreadFinishes, ThreadState
<1>3. /\ TypeOK /\ monitor.latest_checkpoint <= monitor.latest_state_dict
      /\ NotifyFinished(thread.step)
    BY DEF TypeInv, SavesFit, ThreadFinishes
<1>4. PICK s \in Step : s = thread.step
    BY <1>2
<1>5. NotifyFinished(s)
    BY <1>3, <1>4
<1>6. /\ monitor'.counter = [monitor.counter EXCEPT ![s] = @ - 1]
      /\ monitor'.checkpoint_steps = monitor.checkpoint_steps
      /\ Published(monitor, tracker, monitor', tracker', s)
      /\ monitor'.latest_checkpoint # monitor.latest_checkpoint => s \in monitor.checkpoint_steps
    BY <1>3, <1>5, Notified
<1> QED BY <1>2, <1>4, <1>6 DEF ThreadFinishes, JobStays, config

LEMMA DoesThreadFail ==
    ASSUME TypeInv, ThreadFails
    PROVE  /\ thread.pc = "rename" /\ thread'.pc = "failed" /\ thread'.step = thread.step
           /\ UNCHANGED <<trainer, monitor, tracker, dir>> /\ JobStays
<1>1. thread \in ThreadState
    BY DEF TypeInv, TypeOK
<1> QED BY <1>1 DEF ThreadFails, ThreadState, JobStays, config

LEMMA DoesScan ==
    ASSUME TypeInv, ScanFinds \/ ScanRemoves
    PROVE  /\ scan'.version = IF scan.remove = 0 THEN tracker.state_dict ELSE scan.version
           /\ scan'.remove = IF scan.remove = 0 THEN scan.version ELSE 0
           /\ scan.remove = 0 => tracker.state_dict > scan.version /\ UNCHANGED dir
           /\ scan.remove # 0 =>
                  dir' = IF dir[scan.remove].full THEN dir ELSE [dir EXCEPT ![scan.remove] = Empty]
           /\ UNCHANGED <<trainer, thread, monitor, tracker>>
           /\ UNCHANGED <<keep, saved_paths, explorer, crashes>>
<1>1. scan \in [version : 0 .. MaxStep, remove : 0 .. MaxStep]
    BY DEF TypeInv, TypeOK
<1>2. CASE ScanFinds
    BY <1>1, <1>2 DEF ScanFinds, config
<1>3. CASE ScanRemoves
    BY <1>1, <1>3 DEF ScanRemoves, config
<1> QED BY <1>2, <1>3

LEMMA DoesLoad ==
    ASSUME TypeInv, LoadStarts \/ LoadEnds
    PROVE  /\ explorer'.loading \in {0, scan.version}
           /\ UNCHANGED <<trainer, thread, monitor, tracker, dir>>
           /\ UNCHANGED <<keep, saved_paths, scan, crashes>>
<1>1. explorer \in [version : 0 .. MaxStep, loading : 0 .. MaxStep]
    BY DEF TypeInv, TypeOK
<1> QED BY <1>1 DEF LoadStarts, LoadEnds, config

LEMMA DoesCrash ==
    ASSUME TypeInv, Crash
    PROVE  /\ trainer'.pc = "train" /\ ~trainer'.over
           /\ trainer'.step = IF Exists(tracker.checkpoint) THEN tracker.checkpoint ELSE 0
           /\ thread'.pc = "none" /\ thread'.step = 0
           /\ monitor'.counter = [s \in Step |-> 0] /\ monitor'.checkpoint_steps = {}
           /\ monitor'.latest_checkpoint = 0 /\ monitor'.latest_state_dict = 0
           /\ saved_paths' = <<>>
           /\ scan'.version = 0 /\ scan'.remove = 0 /\ explorer'.loading = 0
           /\ crashes' = crashes + 1
           /\ UNCHANGED <<keep, tracker, dir>>
BY DEF Crash, NoThread, NewMonitor, config

-----------------------------------------------------------------------------
(* The invariants.                                                         *)

\* Where the trainer saves a checkpoint.
Checkpointing ==
    {"checkpoint", "start", "write", "retain", "register_checkpoint", "monitor_checkpoint"}
Retained == {"register_checkpoint", "monitor_checkpoint"}

\* Nothing is published, registered or saved that is ahead of the trainer, and one step
\* is saved in both ways only when the loop is over.
StepsFit ==
    /\ thread.step <= trainer.step
    /\ monitor.latest_state_dict <= trainer.step
    /\ \A s \in monitor.checkpoint_steps : s <= trainer.step
    /\ monitor.latest_checkpoint # 0 => monitor.latest_checkpoint \in monitor.checkpoint_steps
    /\ thread.step \in monitor.checkpoint_steps => trainer.over /\ thread.step = trainer.step
    /\ trainer.pc \in {"state_dict", "register", "monitor"} =>
           trainer.step \notin monitor.checkpoint_steps /\ ~trainer.over
    /\ trainer.pc = "stopped" => trainer.over

\* The counter of the step at hand is what its savers registered less those that are done.
CountsFit ==
    /\ \A s \in Step : s > trainer.step => monitor.counter[s] = 0
    /\ ~trainer.over /\ trainer.pc \in Checkpointing =>
          /\ thread.step # trainer.step
          /\ monitor.counter[trainer.step] =
                 IF trainer.pc \in {"retain", "register_checkpoint"} THEN -1 ELSE 0
    /\ trainer.pc = "state_dict" =>
          thread.step # trainer.step /\ monitor.counter[trainer.step] = 0
    /\ trainer.pc = "register" =>
          /\ thread.pc # "none" /\ thread.step = trainer.step
          /\ monitor.counter[trainer.step] = IF thread.pc = "done" THEN -1 ELSE 0
    /\ trainer.pc = "monitor" =>
          /\ thread.pc # "none" /\ thread.step = trainer.step
          /\ monitor.counter[trainer.step] = IF thread.pc = "done" THEN 0 ELSE 1

\* The files say what the monitor knows, unless this job has published nothing.
TrackerFits ==
    /\ monitor.latest_state_dict # tracker.state_dict =>
          crashes > 0 /\ monitor.latest_state_dict = 0
    /\ monitor.latest_checkpoint # tracker.checkpoint =>
          crashes > 0 /\ monitor.latest_checkpoint = 0

\* A job goes on from the checkpoint that is published, or a later step.
JobFits ==
    keep # 1 =>
        /\ tracker.checkpoint <= trainer.step
        /\ tracker.checkpoint <= tracker.state_dict
        /\ monitor.latest_checkpoint = 0 /\ thread.pc # "none" => tracker.checkpoint <= thread.step
        /\ tracker.checkpoint # 0 => dir[tracker.checkpoint].full

\* Checkpoints are retained in the order of their steps, and all but the one being
\* retained are published, or overtaken by one that is.
PathsFit ==
    /\ \A m, n \in DOMAIN saved_paths : m < n => saved_paths[m] < saved_paths[n]
    /\ \A n \in DOMAIN saved_paths : saved_paths[n] <= trainer.step
    /\ keep > 0 => Len(saved_paths) <= keep
    /\ trainer.pc \in Retained =>
          saved_paths # <<>> /\ saved_paths[Len(saved_paths)] = trainer.step
    /\ \/ saved_paths = <<>>
       \/ trainer.pc \in Retained
       \/ trainer.over /\ trainer.pc \in {"block", "stopped"}
       \/ saved_paths[Len(saved_paths)] <= monitor.latest_checkpoint

\* What the savers left on disk.
CheckpointOnDisk ==
    /\ trainer.pc \in {"start", "write", "retain"} \cup Retained => dir[trainer.step].full
    /\ trainer.pc \in {"retain"} \cup Retained => dir[trainer.step].checkpoint = "complete"
    /\ trainer.step \in monitor.checkpoint_steps =>
          dir[trainer.step].full /\ Written(trainer.step)

StateDictOnDisk ==
    keep # 1 =>
        /\ thread.pc \in {"finish", "done"} =>
               dir[thread.step].state_dict \/ thread.step < monitor.latest_state_dict
        /\ \/ trainer.pc \in {"write", "retain"} \cup Retained
           \/ trainer.step = 0 \/ monitor.latest_state_dict # trainer.step
           \/ trainer.step \in monitor.checkpoint_steps
           \/ dir[trainer.step].state_dict

\* The synchronizer removes only what is overtaken, and holds what is published.
ScanFits ==
    /\ monitor.latest_state_dict # tracker.state_dict =>
          /\ scan.version \in {0, tracker.state_dict} /\ scan.remove = 0
          /\ explorer.loading \in {0, tracker.state_dict}
    /\ scan.remove # 0 => scan.remove < scan.version /\ scan.version <= tracker.state_dict
    /\ crashes = 0 => scan.version <= tracker.state_dict /\ explorer.loading <= tracker.state_dict

Survives == keep # 1 /\ tracker.checkpoint # 0 => Written(tracker.checkpoint)

Loadable(v) == dir[v].state_dict \/ Written(v) \/ tracker.state_dict > v

HeldIsLoadable ==
    keep # 1 =>
        /\ tracker.state_dict # 0 => Loadable(tracker.state_dict)
        /\ scan.version # 0 => Loadable(scan.version)
        /\ explorer.loading # 0 => Loadable(explorer.loading)

IInv ==
    /\ TypeInv /\ StepsFit /\ CountsFit /\ TrackerFits /\ JobFits /\ PathsFit
    /\ CheckpointOnDisk /\ StateDictOnDisk /\ ScanFits /\ Survives /\ HeldIsLoadable

LEMMA Numbers ==
    ASSUME TypeInv
    PROVE  /\ trainer.step \in Nat /\ thread.step \in Nat
           /\ monitor.latest_state_dict \in Nat /\ monitor.latest_checkpoint \in Nat
           /\ monitor.latest_checkpoint <= monitor.latest_state_dict
           /\ tracker.checkpoint \in Nat /\ tracker.state_dict \in Nat
           /\ scan.version \in Nat /\ scan.remove \in Nat /\ explorer.loading \in Nat
           /\ crashes \in Nat /\ keep \in Nat
           /\ \A s \in Step : s \in Nat /\ s > 0 /\ monitor.counter[s] \in Int
<1>1. TypeOK
    BY DEF TypeInv
<1>2. /\ trainer.step \in 0 .. MaxStep /\ thread.step \in 0 .. MaxStep
      /\ monitor.latest_state_dict \in 0 .. MaxStep /\ monitor.latest_checkpoint \in 0 .. MaxStep
      /\ tracker.checkpoint \in 0 .. MaxStep /\ tracker.state_dict \in 0 .. MaxStep
    BY <1>1, Types
<1>3. /\ scan.version \in 0 .. MaxStep /\ scan.remove \in 0 .. MaxStep
      /\ explorer.loading \in 0 .. MaxStep
      /\ crashes \in Nat /\ keep \in Nat /\ monitor.counter \in [Step -> Int]
    BY <1>1, Types
<1>4. \A s \in Step : s \in Nat /\ s > 0 /\ monitor.counter[s] \in Int
    BY <1>3, Bounds DEF Step
<1>5. \A n \in 0 .. MaxStep : n \in Nat
    BY Bounds
<1> QED BY <1>2, <1>3, <1>4, <1>5 DEF TypeInv, SavesFit

LEMMA InitIInv == Init => IInv
<1> SUFFICES ASSUME Init PROVE IInv
    OBVIOUS
<1>1. /\ thread.pc = "none" /\ thread.step = 0 /\ trainer.step = 0 /\ trainer.pc = "train"
      /\ ~trainer.over
      /\ monitor.counter = [s \in Step |-> 0] /\ monitor.checkpoint_steps = {}
      /\ monitor.latest_checkpoint = 0 /\ monitor.latest_state_dict = 0
      /\ tracker.checkpoint = 0 /\ tracker.state_dict = 0 /\ saved_paths = <<>>
      /\ scan.version = 0 /\ scan.remove = 0 /\ explorer.loading = 0 /\ crashes = 0
    BY DEF Init, NoThread, NewMonitor
<1>2. TypeInv
    BY TypeInit
<1>3. StepsFit /\ CountsFit /\ TrackerFits /\ JobFits
    BY <1>1 DEF StepsFit, CountsFit, TrackerFits, JobFits, Checkpointing
<1>4. PathsFit
    BY <1>1, <1>2, Numbers DEF PathsFit, Retained
<1>5. CheckpointOnDisk /\ StateDictOnDisk /\ ScanFits /\ Survives /\ HeldIsLoadable
    BY <1>1 DEF CheckpointOnDisk, StateDictOnDisk, ScanFits, Survives, HeldIsLoadable, Retained
<1> QED BY <1>2, <1>3, <1>4, <1>5 DEF IInv

\* The actions in groups, by what the invariants see of them.
ScanStep == ScanFinds \/ ScanRemoves
LoadStep == LoadStarts \/ LoadEnds

LEMMA Actions ==
    ASSUME Next
    PROVE  \/ TrainStep \/ EndLoop
           \/ SaveStateDict \/ RegisterStateDict \/ MonitorStateDict
           \/ SaveCheckpoint \/ CheckpointStarts \/ CheckpointWritten \/ RetainCheckpoints
           \/ RegisterCheckpoint \/ MonitorCheckpoint \/ WaitForSave
           \/ ThreadStarts \/ ThreadRenames \/ ThreadFinishes \/ ThreadFails
           \/ ScanStep \/ LoadStep \/ Crash
BY DEF Next, TrainerStep, ThreadStep, ScanStep, LoadStep

LEMMA StepsKept == IInv /\ Next => StepsFit'
<1> SUFFICES ASSUME IInv, Next PROVE StepsFit'
    OBVIOUS
<1>0. TypeInv /\ StepsFit /\ CountsFit
    BY DEF IInv
<1>n. /\ trainer.step \in Nat /\ thread.step \in Nat
      /\ monitor.latest_state_dict \in Nat /\ monitor.latest_checkpoint \in Nat
      /\ \A s \in monitor.checkpoint_steps : s \in Nat
    BY <1>0, Numbers, Types DEF TypeInv
<1>1. CASE TrainStep
    BY <1>0, <1>1, <1>n, DoesTrainStep DEF StepsFit
<1>2. CASE EndLoop
    BY <1>0, <1>2, <1>n, DoesEndLoop DEF StepsFit
<1>3. CASE SaveStateDict
    BY <1>0, <1>3, <1>n, DoesSaveStateDict DEF StepsFit
<1>4. CASE RegisterStateDict
    BY <1>0, <1>4, <1>n, DoesRegisterStateDict DEF StepsFit
<1>5. CASE MonitorStateDict
    BY <1>0, <1>5, <1>n, DoesMonitorStateDict DEF StepsFit, Published
<1>6. CASE SaveCheckpoint
    BY <1>0, <1>6, <1>n, DoesSaveCheckpoint DEF StepsFit
<1>7. CASE CheckpointStarts
    BY <1>0, <1>7, <1>n, DoesCheckpointStarts DEF StepsFit, MonitorStays
<1>8. CASE CheckpointWritten
    BY <1>0, <1>8, <1>n, DoesCheckpointWritten DEF StepsFit, Published
<1>9. CASE RetainCheckpoints
    BY <1>0, <1>9, <1>n, DoesRetain DEF StepsFit
<1>10. CASE RegisterCheckpoint
    BY <1>0, <1>10, <1>n, DoesRegisterCheckpoint DEF StepsFit
<1>11. CASE MonitorCheckpoint
    <2>1. ~trainer.over => thread.step # trainer.step
        BY <1>0, <1>11, DoesMonitorCheckpoint DEF CountsFit, Checkpointing
    <2> QED BY <1>0, <1>11, <1>n, <2>1, DoesMonitorCheckpoint DEF StepsFit, Published
<1>12. CASE WaitForSave
    BY <1>0, <1>12, <1>n, DoesWaitForSave DEF StepsFit
<1>13. CASE ThreadStarts
    BY <1>0, <1>13, <1>n, DoesThreadStart DEF StepsFit, MonitorStays
<1>14. CASE ThreadRenames
    BY <1>0, <1>14, <1>n, DoesThreadRename DEF StepsFit
<1>15. CASE ThreadFinishes
    BY <1>0, <1>15, <1>n, DoesThreadFinish DEF StepsFit, Published
<1>16. CASE ThreadFails
    BY <1>0, <1>16, <1>n, DoesThreadFail DEF StepsFit
<1>17. CASE ScanStep
    BY <1>0, <1>17, DoesScan DEF StepsFit, ScanStep
<1>18. CASE LoadStep
    BY <1>0, <1>18, DoesLoad DEF StepsFit, LoadStep
<1>19. CASE Crash
    <2>1. trainer'.step \in Nat
        BY <1>0, <1>19, DoesCrash, Numbers
    <2> QED BY <1>0, <1>19, <2>1, DoesCrash DEF StepsFit
<1> QED BY Actions, <1>1, <1>2, <1>3, <1>4, <1>5, <1>6, <1>7, <1>8, <1>9, <1>10, <1>11, <1>12,
           <1>13, <1>14, <1>15, <1>16, <1>17, <1>18, <1>19

LEMMA CountsKept == IInv /\ Next => CountsFit'
<1> SUFFICES ASSUME IInv, Next PROVE CountsFit'
    OBVIOUS
<1>0. TypeInv /\ StepsFit /\ CountsFit
    BY DEF IInv
<1>n. /\ trainer.step \in Nat /\ thread.step \in Nat
      /\ monitor.counter \in [Step -> Int]
      /\ \A s \in Step : s \in Nat /\ monitor.counter[s] \in Int
    BY <1>0, Numbers, Types DEF TypeInv
<1>1. CASE TrainStep
    <2>1. trainer'.step \in Step
        <3>1. trainer'.step = trainer.step + 1 /\ trainer.step < MaxStep
            BY <1>0, <1>1, DoesTrainStep DEF TrainStep
        <3> QED BY <1>n, <3>1, Bounds DEF Step
    <2>2. monitor.counter[trainer'.step] = 0
        BY <1>0, <1>1, <1>n, <2>1, DoesTrainStep DEF CountsFit
    <2>3. thread.step # trainer'.step
        BY <1>0, <1>1, <1>n, DoesTrainStep DEF StepsFit
    <2>4. /\ trainer'.pc \in {"checkpoint", "state_dict", "train"}
          /\ trainer'.step = trainer.step + 1 /\ thread' = thread /\ monitor' = monitor
        BY <1>0, <1>1, DoesTrainStep
    <2>5. \A s \in Step : s > trainer'.step => monitor'.counter[s] = 0
        BY <1>0, <1>n, <2>4 DEF CountsFit
    <2> QED BY <2>2, <2>3, <2>4, <2>5 DEF CountsFit
<1>2. CASE EndLoop
    BY <1>0, <1>2, <1>n, DoesEndLoop DEF CountsFit
<1>3. CASE SaveStateDict
    <2>1. /\ trainer.pc = "state_dict" /\ trainer'.pc = "register"
          /\ trainer'.step = trainer.step /\ monitor' = monitor
          /\ thread'.pc = "start" /\ thread'.step = trainer.step
        BY <1>0, <1>3, DoesSaveStateDict
    <2> QED BY <1>0, <2>1 DEF CountsFit, Checkpointing
<1>4. CASE RegisterStateDict
    <2>1. /\ trainer.pc = "register" /\ trainer'.pc = "monitor"
          /\ trainer'.step = trainer.step /\ thread' = thread /\ trainer.step \in Step
          /\ monitor'.counter = [monitor.counter EXCEPT ![trainer.step] = @ + 1]
        BY <1>0, <1>4, DoesRegisterStateDict
    <2>2. monitor'.counter[trainer.step] = monitor.counter[trainer.step] + 1
        BY <1>n, <2>1
    <2>3. \A s \in Step : s # trainer.step => monitor'.counter[s] = monitor.counter[s]
        BY <1>n, <2>1
    <2>4. monitor.counter[trainer.step] = IF thread.pc = "done" THEN -1 ELSE 0
        BY <1>0, <2>1 DEF CountsFit
    <2>5. monitor'.counter[trainer.step] = IF thread.pc = "done" THEN 0 ELSE 1
        BY <2>2, <2>4
    <2>6. \A s \in Step : s > trainer'.step => monitor'.counter[s] = 0
        BY <1>0, <1>n, <2>1, <2>3 DEF CountsFit
    <2> QED BY <1>0, <2>1, <2>5, <2>6 DEF CountsFit, Checkpointing
<1>5. CASE MonitorStateDict
    <2>1. /\ trainer'.pc = "train" /\ trainer'.step = trainer.step
          /\ monitor'.counter = monitor.counter
        BY <1>0, <1>5, DoesMonitorStateDict
    <2> QED BY <1>0, <2>1 DEF CountsFit, Checkpointing
<1>6. CASE SaveCheckpoint
    <2>1. /\ trainer.pc = "checkpoint" /\ trainer'.pc = "start" /\ trainer'.step = trainer.step
          /\ trainer'.over = trainer.over /\ thread' = thread /\ monitor' = monitor
        BY <1>0, <1>6, DoesSaveCheckpoint
    <2> QED BY <1>0, <2>1 DEF CountsFit, Checkpointing
<1>7. CASE CheckpointStarts
    <2>1. /\ trainer.pc = "start" /\ trainer'.pc = "write" /\ trainer'.step = trainer.step
          /\ trainer'.over = trainer.over /\ thread' = thread
          /\ monitor'.counter = monitor.counter
        BY <1>0, <1>7, DoesCheckpointStarts DEF MonitorStays
    <2> QED BY <1>0, <2>1 DEF CountsFit, Checkpointing
<1>8. CASE CheckpointWritten
    <2>1. /\ trainer.pc = "write" /\ trainer'.pc = "retain" /\ trainer'.step = trainer.step
          /\ trainer'.over = trainer.over /\ thread' = thread /\ trainer.step \in Step
          /\ monitor'.counter = [monitor.counter EXCEPT ![trainer.step] = @ - 1]
        BY <1>0, <1>8, DoesCheckpointWritten
    <2>2. monitor'.counter[trainer.step] = monitor.counter[trainer.step] - 1
        BY <1>n, <2>1
    <2>3. \A s \in Step : s # trainer.step => monitor'.counter[s] = monitor.counter[s]
        BY <1>n, <2>1
    <2>4. \A s \in Step : s > trainer'.step => monitor'.counter[s] = 0
        BY <1>0, <1>n, <2>1, <2>3 DEF CountsFit
    <2>5. ~trainer.over => monitor'.counter[trainer.step] = -1 /\ thread.step # trainer.step
        BY <1>0, <2>1, <2>2 DEF CountsFit, Checkpointing
    <2> QED BY <2>1, <2>4, <2>5 DEF CountsFit, Checkpointing
<1>9. CASE RetainCheckpoints
    <2>1. /\ trainer.pc = "retain" /\ trainer'.pc = "register_checkpoint"
          /\ trainer'.step = trainer.step
          /\ trainer'.over = trainer.over /\ thread' = thread /\ monitor' = monitor
        BY <1>0, <1>9, DoesRetain
    <2> QED BY <1>0, <2>1 DEF CountsFit, Checkpointing
<1>10. CASE RegisterCheckpoint
    <2>1. /\ trainer.pc = "register_checkpoint" /\ trainer'.pc = "monitor_checkpoint"
          /\ trainer'.step = trainer.step
          /\ trainer'.over = trainer.over /\ thread' = thread /\ trainer.step \in Step
          /\ monitor'.counter = [monitor.counter EXCEPT ![trainer.step] = @ + 1]
        BY <1>0, <1>10, DoesRegisterCheckpoint
    <2>2. monitor'.counter[trainer.step] = monitor.counter[trainer.step] + 1
        BY <1>n, <2>1
    <2>3. \A s \in Step : s # trainer.step => monitor'.counter[s] = monitor.counter[s]
        BY <1>n, <2>1
    <2>4. \A s \in Step : s > trainer'.step => monitor'.counter[s] = 0
        BY <1>0, <1>n, <2>1, <2>3 DEF CountsFit
    <2>5. ~trainer.over => monitor'.counter[trainer.step] = 0 /\ thread.step # trainer.step
        BY <1>0, <2>1, <2>2 DEF CountsFit, Checkpointing
    <2> QED BY <2>1, <2>4, <2>5 DEF CountsFit, Checkpointing
<1>11. CASE MonitorCheckpoint
    <2>1. /\ trainer'.pc \in {"block", "train"} /\ trainer'.step = trainer.step
          /\ monitor'.counter = monitor.counter
        BY <1>0, <1>11, DoesMonitorCheckpoint
    <2> QED BY <1>0, <2>1 DEF CountsFit, Checkpointing
<1>12. CASE WaitForSave
    <2>1. /\ trainer'.pc \in {"stopped", "train"} /\ trainer'.step = trainer.step
          /\ monitor' = monitor
        BY <1>0, <1>12, DoesWaitForSave
    <2> QED BY <1>0, <2>1 DEF CountsFit, Checkpointing
<1>13. CASE ThreadStarts
    <2>1. /\ thread.pc = "start" /\ thread'.pc = "rename" /\ thread'.step = thread.step
          /\ monitor'.counter = monitor.counter /\ trainer' = trainer
        BY <1>0, <1>13, DoesThreadStart DEF MonitorStays
    <2> QED BY <1>0, <2>1 DEF CountsFit
<1>14. CASE ThreadRenames
    <2>1. /\ thread.pc = "rename" /\ thread'.pc = "finish" /\ thread'.step = thread.step
          /\ monitor' = monitor /\ trainer' = trainer
        BY <1>0, <1>14, DoesThreadRename
    <2> QED BY <1>0, <2>1 DEF CountsFit
<1>15. CASE ThreadFinishes
    <2>1. /\ thread.pc = "finish" /\ thread'.pc = "done" /\ thread'.step = thread.step
          /\ trainer' = trainer /\ thread.step \in Step
          /\ monitor'.counter = [monitor.counter EXCEPT ![thread.step] = @ - 1]
        BY <1>0, <1>15, DoesThreadFinish
    <2>2. monitor'.counter[thread.step] = monitor.counter[thread.step] - 1
        BY <1>n, <2>1
    <2>3. \A s \in Step : s # thread.step => monitor'.counter[s] = monitor.counter[s]
        BY <1>n, <2>1
    <2>4. \A s \in Step : s > trainer'.step => monitor'.counter[s] = 0
        BY <1>0, <1>n, <2>1, <2>3 DEF CountsFit, StepsFit
    <2>5. trainer.pc \in Saving => trainer.step \in Step
        BY <1>0, SavedStep
    <2>6. ~trainer.over /\ trainer.pc \in Checkpointing =>
              monitor'.counter[trainer.step] = monitor.counter[trainer.step]
        BY <1>0, <2>3, <2>5 DEF CountsFit, Checkpointing, Saving
    <2>7. trainer.pc = "state_dict" =>
              monitor'.counter[trainer.step] = monitor.counter[trainer.step]
        BY <1>0, <2>3, <2>5 DEF CountsFit, Saving
    <2>8. trainer.pc = "register" => monitor'.counter[trainer.step] = -1
        <3> SUFFICES ASSUME trainer.pc = "register" PROVE monitor'.counter[trainer.step] = -1
            OBVIOUS
        <3>1. thread.step = trainer.step /\ monitor.counter[trainer.step] = 0
            BY <1>0, <2>1 DEF CountsFit
        <3> QED BY <2>2, <3>1
    <2>9. trainer.pc = "monitor" => monitor'.counter[trainer.step] = 0
        <3> SUFFICES ASSUME trainer.pc = "monitor" PROVE monitor'.counter[trainer.step] = 0
            OBVIOUS
        <3>1. thread.step = trainer.step /\ monitor.counter[trainer.step] = 1
            BY <1>0, <2>1 DEF CountsFit
        <3> QED BY <2>2, <3>1
    <2> QED BY <1>0, <2>1, <2>4, <2>6, <2>7, <2>8, <2>9 DEF CountsFit
<1>16. CASE ThreadFails
    <2>1. /\ thread.pc = "rename" /\ thread'.pc = "failed" /\ thread'.step = thread.step
          /\ monitor' = monitor /\ trainer' = trainer
        BY <1>0, <1>16, DoesThreadFail
    <2> QED BY <1>0, <2>1 DEF CountsFit
<1>17. CASE ScanStep
    BY <1>0, <1>17, DoesScan DEF CountsFit, ScanStep
<1>18. CASE LoadStep
    BY <1>0, <1>18, DoesLoad DEF CountsFit, LoadStep
<1>19. CASE Crash
    BY <1>0, <1>19, DoesCrash DEF CountsFit, Checkpointing
<1> QED BY Actions, <1>1, <1>2, <1>3, <1>4, <1>5, <1>6, <1>7, <1>8, <1>9, <1>10, <1>11, <1>12,
           <1>13, <1>14, <1>15, <1>16, <1>17, <1>18, <1>19

\* A publication brings file and monitor together.
LEMMA TrackerPublished ==
    ASSUME IInv, NEW s \in Step, Published(monitor, tracker, monitor', tracker', s),
           crashes' = crashes
    PROVE  TrackerFits'
<1>1. TypeInv /\ TrackerFits
    BY DEF IInv
<1>2. s > 0 /\ s \in Nat /\ monitor.latest_state_dict \in Nat /\ monitor.latest_checkpoint \in Nat
    BY <1>1, Numbers
<1> QED BY <1>1, <1>2 DEF TrackerFits, Published

LEMMA TrackerKept == IInv /\ Next => TrackerFits'
<1> SUFFICES ASSUME IInv, Next PROVE TrackerFits'
    OBVIOUS
<1>0. TypeInv /\ TrackerFits
    BY DEF IInv
<1>1. CASE TrainStep
    BY <1>0, <1>1, DoesTrainStep DEF TrackerFits, JobStays
<1>2. CASE EndLoop
    BY <1>0, <1>2, DoesEndLoop DEF TrackerFits, JobStays
<1>3. CASE SaveStateDict
    BY <1>0, <1>3, DoesSaveStateDict DEF TrackerFits, JobStays
<1>4. CASE RegisterStateDict
    BY <1>0, <1>4, DoesRegisterStateDict DEF TrackerFits, JobStays
<1>5. CASE MonitorStateDict
    BY <1>0, <1>5, DoesMonitorStateDict, TrackerPublished DEF JobStays
<1>6. CASE SaveCheckpoint
    BY <1>0, <1>6, DoesSaveCheckpoint DEF TrackerFits, JobStays
<1>7. CASE CheckpointStarts
    BY <1>0, <1>7, DoesCheckpointStarts DEF TrackerFits, JobStays, MonitorStays
<1>8. CASE CheckpointWritten
    BY <1>0, <1>8, DoesCheckpointWritten, TrackerPublished DEF JobStays
<1>9. CASE RetainCheckpoints
    BY <1>0, <1>9, DoesRetain DEF TrackerFits
<1>10. CASE RegisterCheckpoint
    BY <1>0, <1>10, DoesRegisterCheckpoint DEF TrackerFits, JobStays
<1>11. CASE MonitorCheckpoint
    BY <1>0, <1>11, DoesMonitorCheckpoint, TrackerPublished DEF JobStays
<1>12. CASE WaitForSave
    BY <1>0, <1>12, DoesWaitForSave DEF TrackerFits, JobStays
<1>13. CASE ThreadStarts
    BY <1>0, <1>13, DoesThreadStart DEF TrackerFits, JobStays, MonitorStays
<1>14. CASE ThreadRenames
    BY <1>0, <1>14, DoesThreadRename DEF TrackerFits, JobStays
<1>15. CASE ThreadFinishes
    BY <1>0, <1>15, DoesThreadFinish, TrackerPublished DEF JobStays
<1>16. CASE ThreadFails
    BY <1>0, <1>16, DoesThreadFail DEF TrackerFits, JobStays
<1>17. CASE ScanStep
    BY <1>0, <1>17, DoesScan DEF TrackerFits, ScanStep
<1>18. CASE LoadStep
    BY <1>0, <1>18, DoesLoad DEF TrackerFits, LoadStep
<1>19. CASE Crash
    <2>1. crashes \in Nat
        BY <1>0, Numbers
    <2> QED BY <1>0, <1>19, <2>1, DoesCrash DEF TrackerFits
<1> QED BY Actions, <1>1, <1>2, <1>3, <1>4, <1>5, <1>6, <1>7, <1>8, <1>9, <1>10, <1>11, <1>12,
           <1>13, <1>14, <1>15, <1>16, <1>17, <1>18, <1>19

-----------------------------------------------------------------------------
(* The checkpoints that are retained.                                      *)

LEMMA PathsIncrease ==
    ASSUME IInv, RetainCheckpoints
    PROVE  /\ \A m, n \in 1 .. Len(Paths) : m < n => Paths[m] < Paths[n]
           /\ \A n \in 1 .. Len(Paths) : Paths[n] <= trainer.step
<1>0. TypeInv /\ StepsFit /\ PathsFit
    BY DEF IInv
<1>1. /\ saved_paths \in Seq(Step) /\ trainer.step \in Step /\ trainer.pc = "retain"
      /\ trainer.step \in Nat /\ monitor.latest_checkpoint \in Nat
      /\ \A s \in Step : s \in Nat
    BY <1>0, Types, DoesRetain, Numbers DEF TypeInv
<1>2. \A m, n \in 1 .. Len(saved_paths) : m < n => saved_paths[m] < saved_paths[n]
    BY <1>0, <1>1 DEF PathsFit
<1>3. \A n \in 1 .. Len(saved_paths) : saved_paths[n] <= trainer.step /\ saved_paths[n] \in Nat
    BY <1>0, <1>1 DEF PathsFit
<1>4. CASE saved_paths # <<>> /\ saved_paths[Len(saved_paths)] = trainer.step
    <2>1. Paths = saved_paths
        BY <1>4 DEF Paths
    <2> QED BY <1>2, <1>3, <2>1
<1>5. CASE ~(saved_paths # <<>> /\ saved_paths[Len(saved_paths)] = trainer.step)
    <2>1. Paths = Append(saved_paths, trainer.step)
        BY <1>5 DEF Paths
    <2>2. /\ Len(Paths) = Len(saved_paths) + 1 /\ Len(saved_paths) \in Nat
          /\ Paths[Len(saved_paths) + 1] = trainer.step
          /\ \A n \in 1 .. Len(saved_paths) : Paths[n] = saved_paths[n]
        BY <1>1, <2>1
    <2>3. \A n \in 1 .. Len(saved_paths) : saved_paths[n] < trainer.step
        <3> SUFFICES ASSUME NEW n \in 1 .. Len(saved_paths) PROVE saved_paths[n] < trainer.step
            OBVIOUS
        <3>1. /\ Len(saved_paths) \in 1 .. Len(saved_paths) /\ saved_paths # <<>>
            BY <1>1, <2>2
        <3>2. saved_paths[Len(saved_paths)] < trainer.step
            BY <1>1, <1>3, <1>5, <3>1
        <3>3. n = Len(saved_paths) \/ saved_paths[n] < saved_paths[Len(saved_paths)]
            BY <1>2, <2>2, <3>1
        <3> QED BY <1>1, <1>3, <3>1, <3>2, <3>3
    <2>4. \A n \in 1 .. Len(Paths) : n \in 1 .. Len(saved_paths) \/ n = Len(saved_paths) + 1
        BY <2>2
    <2>5. \A n \in 1 .. Len(Paths) : Paths[n] <= trainer.step
        <3> SUFFICES ASSUME NEW n \in 1 .. Len(Paths) PROVE Paths[n] <= trainer.step
            OBVIOUS
        <3>1. CASE n \in 1 .. Len(saved_paths)
            BY <1>3, <2>2, <3>1
        <3>2. CASE n = Len(saved_paths) + 1
            BY <1>1, <2>2, <3>2
        <3> QED BY <2>4, <3>1, <3>2
    <2>6. \A m, n \in 1 .. Len(Paths) : m < n => Paths[m] < Paths[n]
        <3> SUFFICES ASSUME NEW m \in 1 .. Len(Paths), NEW n \in 1 .. Len(Paths), m < n
                     PROVE  Paths[m] < Paths[n]
            OBVIOUS
        <3>1. m \in 1 .. Len(saved_paths)
            BY <2>2
        <3>2. CASE n \in 1 .. Len(saved_paths)
            BY <1>2, <2>2, <3>1, <3>2
        <3>3. CASE n = Len(saved_paths) + 1
            BY <2>2, <2>3, <3>1, <3>3
        <3> QED BY <2>4, <3>2, <3>3
    <2> QED BY <2>5, <2>6
<1> QED BY <1>4, <1>5

\* A checkpoint that is removed is older than one that is published, unless only one
\* is retained.
LEMMA RemovedIsOvertaken ==
    ASSUME IInv, RetainCheckpoints, NEW n \in 1 .. Surplus
    PROVE  /\ Paths[n] < trainer.step
           /\ keep # 1 => Paths[n] < monitor.latest_checkpoint
<1>0. TypeInv /\ StepsFit /\ PathsFit
    BY DEF IInv
<1>1. /\ saved_paths \in Seq(Step) /\ trainer.step \in Step /\ trainer.pc = "retain"
      /\ trainer.step \in Nat /\ monitor.latest_checkpoint \in Nat
      /\ keep \in Nat /\ \A s \in Step : s \in Nat
    BY <1>0, Types, DoesRetain, Numbers DEF TypeInv
<1>2. /\ Len(Paths) \in Nat /\ Surplus \in Nat /\ Surplus < Len(Paths)
      /\ Paths[Len(Paths)] = trainer.step
    BY <1>0, Retains
<1>3. Paths[n] < trainer.step
    <2>1. n \in 1 .. Len(Paths) /\ Len(Paths) \in 1 .. Len(Paths) /\ n < Len(Paths)
        BY <1>2
    <2> QED BY <1>2, <2>1, PathsIncrease
<1>4. ASSUME keep # 1 PROVE Paths[n] < monitor.latest_checkpoint
    <2>1. keep > 1 /\ Len(Paths) > keep
        BY <1>1, <1>2, <1>4 DEF Surplus
    <2>2. Len(saved_paths) <= keep /\ Len(saved_paths) \in Nat
        BY <1>0, <1>1, <2>1 DEF PathsFit
    <2>3. Paths # saved_paths
        BY <1>1, <2>1, <2>2
    <2>4. Paths = Append(saved_paths, trainer.step)
        BY <2>3 DEF Paths
    <2>5. /\ Len(Paths) = Len(saved_paths) + 1
          /\ \A k \in 1 .. Len(saved_paths) : Paths[k] = saved_paths[k] /\ saved_paths[k] \in Nat
        BY <1>1, <2>4
    <2>6. Len(saved_paths) = keep /\ Len(Paths) = keep + 1
        BY <1>1, <2>1, <2>2, <2>5
    <2>7. Surplus = 1
        BY <1>1, <2>1, <2>6 DEF Surplus
    <2>8. n = 1 /\ 1 \in 1 .. Len(saved_paths) /\ keep \in 1 .. Len(saved_paths) /\ saved_paths # <<>>
        BY <1>1, <2>1, <2>6, <2>7
    <2>9. saved_paths[Len(saved_paths)] <= monitor.latest_checkpoint
        BY <1>0, <1>1, <2>8 DEF PathsFit, Retained
    <2>10. saved_paths[1] < saved_paths[keep]
        BY <1>0, <1>1, <2>1, <2>8 DEF PathsFit
    <2> QED BY <1>1, <2>5, <2>6, <2>8, <2>9, <2>10
<1> QED BY <1>3, <1>4

LEMMA PathsAfter ==
    ASSUME IInv, RetainCheckpoints
    PROVE  PathsFit'
<1>0. TypeInv /\ PathsFit
    BY DEF IInv
<1>1. /\ Paths \in Seq(Step) /\ Paths # <<>> /\ Paths[Len(Paths)] = trainer.step
      /\ Surplus \in Nat /\ Surplus < Len(Paths)
      /\ saved_paths' \in Seq(Step)
      /\ Len(saved_paths') = Len(Paths) - Surplus
      /\ \A n \in 1 .. Len(Paths) - Surplus : saved_paths'[n] = Paths[n + Surplus]
    BY <1>0, Retains
<1>2. /\ trainer'.pc = "register_checkpoint" /\ trainer'.step = trainer.step /\ keep' = keep
      /\ keep \in Nat
    BY <1>0, DoesRetain, Numbers
<1>3. Len(Paths) \in Nat /\ Len(saved_paths') \in Nat /\ Len(saved_paths') > 0
    BY <1>1
<1>4. \A n \in DOMAIN saved_paths' :
          n \in 1 .. Len(Paths) - Surplus /\ n + Surplus \in 1 .. Len(Paths)
    BY <1>1, <1>3
<1>5. \A m, n \in DOMAIN saved_paths' : m < n => saved_paths'[m] < saved_paths'[n]
    <2> SUFFICES ASSUME NEW m \in DOMAIN saved_paths', NEW n \in DOMAIN saved_paths', m < n
                 PROVE  saved_paths'[m] < saved_paths'[n]
        OBVIOUS
    <2>1. /\ saved_paths'[m] = Paths[m + Surplus] /\ saved_paths'[n] = Paths[n + Surplus]
          /\ m + Surplus \in 1 .. Len(Paths) /\ n + Surplus \in 1 .. Len(Paths)
          /\ m + Surplus < n + Surplus
        BY <1>1, <1>4, SMTT(30)
    <2> QED BY <2>1, PathsIncrease
<1>6. \A n \in DOMAIN saved_paths' : saved_paths'[n] <= trainer'.step
    BY <1>1, <1>2, <1>4, PathsIncrease
<1>7. keep' > 0 => Len(saved_paths') <= keep'
    BY <1>1, <1>2, <1>3 DEF Surplus
<1>8. saved_paths' # <<>> /\ saved_paths'[Len(saved_paths')] = trainer'.step
    <2>1. Len(saved_paths') \in 1 .. Len(Paths) - Surplus
        BY <1>1, <1>3
    <2>2. saved_paths'[Len(saved_paths')] = Paths[Len(Paths)]
        BY <1>1, <1>3, <2>1
    <2> QED BY <1>1, <1>2, <1>3, <2>2
<1> QED BY <1>2, <1>5, <1>6, <1>7, <1>8 DEF PathsFit, Retained

\* The retained checkpoints keep their places while the trainer goes on, and stay
\* published.
LEMMA PathsStay ==
    ASSUME IInv, saved_paths' = saved_paths, keep' = keep,
           trainer.pc \notin Retained, trainer'.pc \notin Retained,
           trainer'.step \in Nat, trainer'.step >= trainer.step,
           trainer.over /\ trainer.pc \in {"block", "stopped"} =>
               trainer'.over /\ trainer'.pc \in {"block", "stopped"},
           monitor'.latest_checkpoint \in Nat,
           monitor'.latest_checkpoint >= monitor.latest_checkpoint
    PROVE  PathsFit'
<1>0. TypeInv /\ PathsFit
    BY DEF IInv
<1>1. /\ saved_paths \in Seq(Step) /\ trainer.step \in Nat /\ monitor.latest_checkpoint \in Nat
      /\ \A s \in Step : s \in Nat
    BY <1>0, Types, Numbers DEF TypeInv
<1>2. \A n \in DOMAIN saved_paths : saved_paths[n] \in Nat /\ saved_paths[n] <= trainer'.step
    BY <1>0, <1>1 DEF PathsFit
<1>3. saved_paths # <<>> => Len(saved_paths) \in DOMAIN saved_paths
    BY <1>1
<1>4. \/ saved_paths = <<>>
      \/ trainer'.over /\ trainer'.pc \in {"block", "stopped"}
      \/ saved_paths[Len(saved_paths)] <= monitor'.latest_checkpoint
    BY <1>0, <1>1, <1>2, <1>3 DEF PathsFit
<1> QED BY <1>0, <1>2, <1>4 DEF PathsFit

LEMMA PathsKept == IInv /\ Next => PathsFit'
<1> SUFFICES ASSUME IInv, Next PROVE PathsFit'
    OBVIOUS
<1>0. TypeInv /\ PathsFit /\ StepsFit /\ CountsFit
    BY DEF IInv
<1>n. /\ trainer.step \in Nat /\ monitor.latest_checkpoint \in Nat
      /\ \A s \in Step : s \in Nat
    BY <1>0, Numbers
<1> USE DEF JobStays, Retained
<1>1. CASE TrainStep
    BY <1>0, <1>1, <1>n, DoesTrainStep, PathsStay
<1>2. CASE EndLoop
    BY <1>0, <1>2, <1>n, DoesEndLoop, PathsStay
<1>3. CASE SaveStateDict
    BY <1>0, <1>3, <1>n, DoesSaveStateDict, PathsStay
<1>4. CASE RegisterStateDict
    BY <1>0, <1>4, <1>n, DoesRegisterStateDict, PathsStay
<1>5. CASE MonitorStateDict
    BY <1>0, <1>5, <1>n, DoesMonitorStateDict, PathsStay
<1>6. CASE SaveCheckpoint
    BY <1>0, <1>6, <1>n, DoesSaveCheckpoint, PathsStay
<1>7. CASE CheckpointStarts
    BY <1>0, <1>7, <1>n, DoesCheckpointStarts, PathsStay DEF MonitorStays
<1>8. CASE CheckpointWritten
    <2>1. monitor'.latest_checkpoint \in Nat /\ monitor'.latest_checkpoint >= monitor.latest_checkpoint
        BY <1>0, <1>8, <1>n, DoesCheckpointWritten DEF Published
    <2> QED BY <1>0, <1>8, <1>n, <2>1, DoesCheckpointWritten, PathsStay
<1>9. CASE RetainCheckpoints
    BY <1>9, PathsAfter
<1>10. CASE RegisterCheckpoint
    BY <1>0, <1>10, <1>n, DoesRegisterCheckpoint DEF PathsFit
<1>11. CASE MonitorCheckpoint
    <2>1. /\ trainer.pc = "monitor_checkpoint" /\ trainer'.pc \in {"block", "train"}
          /\ trainer.over => trainer'.pc = "block"
          /\ trainer'.step = trainer.step /\ trainer'.over = trainer.over
          /\ monitor.counter[trainer.step] = 0 => monitor'.latest_checkpoint >= trainer.step
          /\ saved_paths' = saved_paths /\ keep' = keep
        BY <1>0, <1>11, DoesMonitorCheckpoint
    <2>2. saved_paths[Len(saved_paths)] = trainer.step
        BY <1>0, <2>1 DEF PathsFit
    <2>3. trainer.over \/ monitor'.latest_checkpoint >= trainer.step
        BY <1>0, <2>1 DEF CountsFit, Checkpointing
    <2>4. monitor'.latest_checkpoint \in Nat
        BY <1>0, <1>11, <1>n, DoesMonitorCheckpoint DEF Published
    <2>5. \/ trainer'.over /\ trainer'.pc = "block"
          \/ saved_paths[Len(saved_paths)] <= monitor'.latest_checkpoint
        BY <1>n, <2>1, <2>2, <2>3, <2>4
    <2> QED BY <1>0, <2>1, <2>5 DEF PathsFit
<1>12. CASE WaitForSave
    BY <1>0, <1>12, <1>n, DoesWaitForSave, PathsStay
<1>13. CASE ThreadStarts
    BY <1>0, <1>13, DoesThreadStart DEF PathsFit, MonitorStays
<1>14. CASE ThreadRenames
    BY <1>0, <1>14, DoesThreadRename DEF PathsFit
<1>15. CASE ThreadFinishes
    <2>1. monitor'.latest_checkpoint \in Nat /\ monitor'.latest_checkpoint >= monitor.latest_checkpoint
        BY <1>0, <1>15, <1>n, DoesThreadFinish DEF Published
    <2>2. trainer' = trainer /\ saved_paths' = saved_paths /\ keep' = keep
        BY <1>0, <1>15, DoesThreadFinish
    <2>3. CASE trainer.pc \in Retained
        BY <1>0, <2>2, <2>3 DEF PathsFit
    <2>4. CASE trainer.pc \notin Retained
        BY <1>n, <2>1, <2>2, <2>4, PathsStay
    <2> QED BY <2>3, <2>4
<1>16. CASE ThreadFails
    BY <1>0, <1>16, DoesThreadFail DEF PathsFit
<1>17. CASE ScanStep
    BY <1>0, <1>17, DoesScan DEF PathsFit, ScanStep
<1>18. CASE LoadStep
    BY <1>0, <1>18, DoesLoad DEF PathsFit, LoadStep
<1>19. CASE Crash
    <2>1. /\ saved_paths' = <<>> /\ trainer'.pc = "train" /\ keep' = keep
        BY <1>0, <1>19, DoesCrash
    <2>2. keep \in Nat /\ Len(<<>>) = 0 /\ DOMAIN saved_paths' = {}
        BY <1>0, <2>1, Numbers
    <2> QED BY <2>1, <2>2 DEF PathsFit
<1> QED BY Actions, <1>1, <1>2, <1>3, <1>4, <1>5, <1>6, <1>7, <1>8, <1>9, <1>10, <1>11, <1>12,
           <1>13, <1>14, <1>15, <1>16, <1>17, <1>18, <1>19

-----------------------------------------------------------------------------
(* What is on disk.                                                        *)

\* One entry of one directory is written.
LEMMA DirChanges ==
    ASSUME TypeInv, NEW s \in Step, NEW r \in Step
    PROVE  /\ [dir EXCEPT ![s].full = TRUE][r].full = (r = s \/ dir[r].full)
           /\ [dir EXCEPT ![s].full = TRUE][r].checkpoint = dir[r].checkpoint
           /\ [dir EXCEPT ![s].full = TRUE][r].state_dict = dir[r].state_dict
           /\ [dir EXCEPT ![s].state_dict = TRUE][r].full = dir[r].full
           /\ [dir EXCEPT ![s].state_dict = TRUE][r].checkpoint = dir[r].checkpoint
           /\ [dir EXCEPT ![s].state_dict = TRUE][r].state_dict = (r = s \/ dir[r].state_dict)
           /\ \A c \in {"partial", "complete", "rewriting"} :
                 /\ [dir EXCEPT ![s].checkpoint = c][r].full = dir[r].full
                 /\ [dir EXCEPT ![s].checkpoint = c][r].checkpoint =
                        IF r = s THEN c ELSE dir[r].checkpoint
                 /\ [dir EXCEPT ![s].checkpoint = c][r].state_dict = dir[r].state_dict
<1>1. dir \in [Step -> DirState] /\ dir[s] \in DirState /\ dir[r] \in DirState
    BY DEF TypeInv, TypeOK
<1>2. /\ dir[s].full \in BOOLEAN /\ dir[r].full \in BOOLEAN
      /\ dir[s].state_dict \in BOOLEAN /\ dir[r].state_dict \in BOOLEAN
    BY <1>1 DEF DirState
<1>3. CASE r = s
    <2>1. /\ [dir EXCEPT ![s].full = TRUE][r] = [dir[s] EXCEPT !.full = TRUE]
          /\ [dir EXCEPT ![s].state_dict = TRUE][r] = [dir[s] EXCEPT !.state_dict = TRUE]
          /\ \A c \in {"partial", "complete", "rewriting"} :
                 [dir EXCEPT ![s].checkpoint = c][r] = [dir[s] EXCEPT !.checkpoint = c]
        BY <1>1, <1>3
    <2> QED BY <1>1, <1>3, <2>1 DEF DirState
<1>4. CASE r # s
    <2>1. /\ [dir EXCEPT ![s].full = TRUE][r] = dir[r]
          /\ [dir EXCEPT ![s].state_dict = TRUE][r] = dir[r]
          /\ \A c \in {"partial", "complete", "rewriting"} : [dir EXCEPT ![s].checkpoint = c][r] = dir[r]
        BY <1>1, <1>4
    <2> QED BY <1>2, <1>4, <2>1
<1> QED BY <1>3, <1>4

LEMMA CheckpointChanges ==
    ASSUME TypeInv, NEW s \in Step, NEW c \in {"partial", "complete", "rewriting"},
           dir' = [dir EXCEPT ![s].checkpoint = c]
    PROVE  \A r \in Step :
              /\ dir'[r].full = dir[r].full
              /\ dir'[r].state_dict = dir[r].state_dict
              /\ dir'[r].checkpoint = IF r = s THEN c ELSE dir[r].checkpoint
<1> SUFFICES ASSUME NEW r \in Step
             PROVE  /\ dir'[r].full = dir[r].full
                    /\ dir'[r].state_dict = dir[r].state_dict
                    /\ dir'[r].checkpoint = IF r = s THEN c ELSE dir[r].checkpoint
    OBVIOUS
<1>1. /\ [dir EXCEPT ![s].checkpoint = c][r].full = dir[r].full
      /\ [dir EXCEPT ![s].checkpoint = c][r].checkpoint = IF r = s THEN c ELSE dir[r].checkpoint
      /\ [dir EXCEPT ![s].checkpoint = c][r].state_dict = dir[r].state_dict
    BY DirChanges
<1> QED BY <1>1

LEMMA FullStays ==
    ASSUME TypeInv, NEW s \in Step, NEW c \in {"partial", "complete", "rewriting"},
           \/ dir' = dir \/ dir' = [dir EXCEPT ![s].full = TRUE]
           \/ dir' = [dir EXCEPT ![s].state_dict = TRUE] \/ dir' = [dir EXCEPT ![s].checkpoint = c]
    PROVE  \A r \in Step : dir[r].full => dir'[r].full
<1> SUFFICES ASSUME NEW r \in Step, dir[r].full PROVE dir'[r].full
    OBVIOUS
<1>1. CASE dir' = dir
    BY <1>1
<1>2. CASE dir' = [dir EXCEPT ![s].full = TRUE]
    BY <1>2, DirChanges
<1>3. CASE dir' = [dir EXCEPT ![s].state_dict = TRUE]
    BY <1>3, DirChanges
<1>4. CASE dir' = [dir EXCEPT ![s].checkpoint = c]
    BY <1>4, DirChanges
<1> QED BY <1>1, <1>2, <1>3, <1>4

\* A directory that the retention or the synchronizer empties.
LEMMA RetainedDirs ==
    ASSUME IInv, RetainCheckpoints, NEW r \in Step
    PROVE  dir'[r] = dir[r] \/ (r < trainer.step /\ (keep # 1 => r < monitor.latest_checkpoint))
<1>0. TypeInv
    BY DEF IInv
<1>1. dir' = [s \in Step |-> IF \E n \in 1 .. Surplus : Paths[n] = s THEN Empty ELSE dir[s]]
    BY <1>0, Retains
<1>2. CASE \E n \in 1 .. Surplus : Paths[n] = r
    BY <1>2, RemovedIsOvertaken
<1>3. CASE ~\E n \in 1 .. Surplus : Paths[n] = r
    BY <1>1, <1>3
<1> QED BY <1>2, <1>3

LEMMA ScannedDirs ==
    ASSUME IInv, ScanStep, NEW r \in Step
    PROVE  \/ dir'[r] = dir[r]
           \/ ~dir[r].full /\ r = scan.remove /\ r < tracker.state_dict
              /\ monitor.latest_state_dict = tracker.state_dict
<1>0. TypeInv /\ ScanFits
    BY DEF IInv
<1>1. /\ scan.remove \in Nat /\ scan.version \in Nat /\ tracker.state_dict \in Nat
      /\ r \in Nat /\ r > 0
    BY <1>0, Numbers
<1>2. /\ scan.remove = 0 => UNCHANGED dir
      /\ scan.remove # 0 =>
             dir' = IF dir[scan.remove].full THEN dir ELSE [dir EXCEPT ![scan.remove] = Empty]
    BY <1>0, DoesScan DEF ScanStep
<1>3. dir \in [Step -> DirState]
    BY <1>0, Types DEF TypeInv
<1>4. r # scan.remove \/ dir[r].full => dir'[r] = dir[r]
    BY <1>2, <1>3
<1>5. r = scan.remove => r < tracker.state_dict /\ monitor.latest_state_dict = tracker.state_dict
    BY <1>0, <1>1 DEF ScanFits
<1> QED BY <1>4, <1>5

\* A job goes on, publishes nothing, and keeps the checkpoint that is published.
LEMMA JobStay ==
    ASSUME IInv, keep' = keep, tracker' = tracker,
           monitor'.latest_checkpoint = monitor.latest_checkpoint,
           trainer'.step \in Nat, trainer'.step >= trainer.step,
           \/ thread'.pc = "none" \/ thread'.step = trainer.step
           \/ thread.pc # "none" /\ thread'.step = thread.step,
           keep # 1 /\ tracker.checkpoint # 0 /\ dir[tracker.checkpoint].full =>
               dir'[tracker.checkpoint].full
    PROVE  JobFits'
<1>0. TypeInv /\ JobFits
    BY DEF IInv
<1>1. /\ trainer.step \in Nat /\ thread.step \in Nat /\ tracker.checkpoint \in Nat
    BY <1>0, Numbers
<1> SUFFICES ASSUME keep # 1
             PROVE  /\ tracker'.checkpoint <= trainer'.step
                    /\ tracker'.checkpoint <= tracker'.state_dict
                    /\ monitor'.latest_checkpoint = 0 /\ thread'.pc # "none" =>
                           tracker'.checkpoint <= thread'.step
                    /\ tracker'.checkpoint # 0 => dir'[tracker'.checkpoint].full
    BY DEF JobFits
<1>2. /\ tracker.checkpoint <= trainer.step
      /\ tracker.checkpoint <= tracker.state_dict
      /\ monitor.latest_checkpoint = 0 /\ thread.pc # "none" => tracker.checkpoint <= thread.step
      /\ tracker.checkpoint # 0 => dir[tracker.checkpoint].full
    BY <1>0 DEF JobFits
<1> QED BY <1>1, <1>2

\* A step that is published comes after what the job went on from.
LEMMA JobPublished ==
    ASSUME IInv, NEW s \in Step, Published(monitor, tracker, monitor', tracker', s),
           keep' = keep, trainer'.step = trainer.step, thread' = thread \/
               (thread'.step = thread.step /\ thread'.pc # "none" /\ thread.pc # "none"),
           s = trainer.step \/ (s = thread.step /\ thread.pc # "none"),
           monitor'.latest_checkpoint # monitor.latest_checkpoint => dir[s].full,
           \A r \in Step : dir[r].full => dir'[r].full
    PROVE  JobFits'
<1>0. TypeInv /\ JobFits /\ TrackerFits /\ StepsFit
    BY DEF IInv
<1>1. /\ trainer.step \in Nat /\ thread.step \in Nat
      /\ monitor.latest_state_dict \in Nat /\ monitor.latest_checkpoint \in Nat
      /\ monitor.latest_checkpoint <= monitor.latest_state_dict
      /\ tracker.checkpoint \in Nat /\ tracker.state_dict \in Nat /\ s \in Nat /\ s > 0
      /\ tracker.checkpoint # 0 => tracker.checkpoint \in Step
    <2>1. tracker.checkpoint \in 0 .. MaxStep
        BY <1>0, Types DEF TypeInv
    <2>2. tracker.checkpoint # 0 => tracker.checkpoint \in Step
        BY <2>1, Bounds DEF Step
    <2> QED BY <1>0, <2>2, Numbers
<1> SUFFICES ASSUME keep # 1
             PROVE  /\ tracker'.checkpoint <= trainer'.step
                    /\ tracker'.checkpoint <= tracker'.state_dict
                    /\ monitor'.latest_checkpoint = 0 /\ thread'.pc # "none" =>
                           tracker'.checkpoint <= thread'.step
                    /\ tracker'.checkpoint # 0 => dir'[tracker'.checkpoint].full
    BY DEF JobFits
<1>2. /\ tracker.checkpoint <= trainer.step
      /\ tracker.checkpoint <= tracker.state_dict
      /\ monitor.latest_checkpoint = 0 /\ thread.pc # "none" => tracker.checkpoint <= thread.step
      /\ tracker.checkpoint # 0 => dir[tracker.checkpoint].full
    BY <1>0 DEF JobFits
<1>3. s <= trainer.step
    BY <1>0, <1>1 DEF StepsFit
<1>4. monitor.latest_checkpoint = 0 => tracker.checkpoint <= s
    BY <1>2
<1>5. /\ monitor.latest_checkpoint = tracker.checkpoint \/ monitor.latest_checkpoint = 0
      /\ monitor.latest_state_dict = tracker.state_dict \/ monitor.latest_state_dict = 0
    BY <1>0 DEF TrackerFits
<1>6. CASE /\ monitor'.latest_checkpoint = monitor.latest_checkpoint
           /\ tracker'.checkpoint = tracker.checkpoint
    <2>1. \/ tracker'.state_dict = tracker.state_dict
          \/ s > monitor.latest_state_dict /\ tracker'.state_dict = s
        BY DEF Published
    <2>2. tracker'.checkpoint <= tracker'.state_dict
        BY <1>1, <1>2, <1>4, <1>5, <1>6, <2>1
    <2>3. tracker'.checkpoint # 0 => dir'[tracker'.checkpoint].full
        BY <1>1, <1>2, <1>6
    <2> QED BY <1>1, <1>2, <1>6, <2>2, <2>3
<1>7. CASE /\ s > monitor.latest_checkpoint /\ monitor'.latest_checkpoint = s
           /\ tracker'.checkpoint = s
           /\ monitor'.latest_state_dict >= s
    <2>1. tracker'.state_dict >= s
        <3>1. CASE monitor'.latest_state_dict = monitor.latest_state_dict
                   /\ tracker'.state_dict = tracker.state_dict
            BY <1>1, <1>5, <1>7, <3>1
        <3>2. CASE tracker'.state_dict = s
            BY <1>1, <3>2
        <3> QED BY <3>1, <3>2 DEF Published
    <2>2. dir[s].full
        BY <1>1, <1>7
    <2> QED BY <1>1, <1>3, <1>7, <2>1, <2>2
<1> QED BY <1>6, <1>7 DEF Published

LEMMA JobKept == IInv /\ Next => JobFits'
<1> SUFFICES ASSUME IInv, Next PROVE JobFits'
    OBVIOUS
<1>0. TypeInv /\ JobFits /\ TrackerFits /\ StepsFit /\ CheckpointOnDisk
    BY DEF IInv
<1>n. /\ trainer.step \in Nat /\ tracker.checkpoint \in Nat
      /\ tracker.checkpoint # 0 => tracker.checkpoint \in Step
      /\ thread.pc # "none" \/ thread.pc = "none"
      /\ dir \in [Step -> DirState]
    <2>1. tracker.checkpoint \in 0 .. MaxStep /\ dir \in [Step -> DirState]
        BY <1>0, Types DEF TypeInv
    <2>2. tracker.checkpoint # 0 => tracker.checkpoint \in Step
        BY <2>1, Bounds DEF Step
    <2> QED BY <1>0, <2>1, <2>2, Numbers
<1> USE DEF JobStays
<1>1. CASE TrainStep
    BY <1>0, <1>1, <1>n, DoesTrainStep, JobStay
<1>2. CASE EndLoop
    BY <1>0, <1>2, <1>n, DoesEndLoop, JobStay
<1>3. CASE SaveStateDict
    BY <1>0, <1>3, <1>n, DoesSaveStateDict, JobStay
<1>4. CASE RegisterStateDict
    BY <1>0, <1>4, <1>n, DoesRegisterStateDict, JobStay
<1>5. CASE MonitorStateDict
    <2>1. PICK s \in Step : s = trainer.step
        BY <1>0, <1>5, DoesMonitorStateDict
    <2> QED BY <1>0, <1>5, <2>1, DoesMonitorStateDict, JobPublished
<1>6. CASE SaveCheckpoint
    <2>1. tracker.checkpoint # 0 /\ dir[tracker.checkpoint].full => dir'[tracker.checkpoint].full
        <3>1. PICK s \in Step : dir' = [dir EXCEPT ![s].full = TRUE]
            BY <1>0, <1>6, DoesSaveCheckpoint
        <3> QED BY <1>0, <1>n, <3>1, FullStays
    <2> QED BY <1>0, <1>6, <1>n, <2>1, DoesSaveCheckpoint, JobStay
<1>7. CASE CheckpointStarts
    <2>1. tracker.checkpoint # 0 /\ dir[tracker.checkpoint].full => dir'[tracker.checkpoint].full
        <3>1. PICK s \in Step : \E c \in {"partial", "rewriting"} :
                  dir' = [dir EXCEPT ![s].checkpoint = c]
            BY <1>0, <1>7, DoesCheckpointStarts
        <3> QED BY <1>0, <1>n, <3>1, FullStays
    <2> QED BY <1>0, <1>7, <1>n, <2>1, DoesCheckpointStarts, JobStay DEF MonitorStays
<1>8. CASE CheckpointWritten
    <2>1. PICK s \in Step : s = trainer.step
        BY <1>0, <1>8, DoesCheckpointWritten
    <2>2. \A r \in Step : dir[r].full => dir'[r].full
        <3>1. dir' = [dir EXCEPT ![s].checkpoint = "complete"]
            BY <1>0, <1>8, <2>1, DoesCheckpointWritten
        <3> QED BY <1>0, <3>1, FullStays
    <2>3. dir[s].full
        BY <1>0, <1>8, <2>1, DoesCheckpointWritten DEF CheckpointOnDisk
    <2> QED BY <1>0, <1>8, <2>1, <2>2, <2>3, DoesCheckpointWritten, JobPublished
<1>9. CASE RetainCheckpoints
    <2>1. keep # 1 /\ tracker.checkpoint # 0 => dir'[tracker.checkpoint] = dir[tracker.checkpoint]
        <3> SUFFICES ASSUME keep # 1, tracker.checkpoint # 0
                     PROVE  dir'[tracker.checkpoint] = dir[tracker.checkpoint]
            OBVIOUS
        <3>1. PICK r \in Step : r = tracker.checkpoint
            BY <1>n
        <3>2. dir'[r] = dir[r] \/ r < monitor.latest_checkpoint
            BY <1>9, RetainedDirs
        <3>3. ~(r < monitor.latest_checkpoint)
            BY <1>0, <1>n, <3>1 DEF TrackerFits
        <3> QED BY <3>1, <3>2, <3>3
    <2> QED BY <1>0, <1>9, <1>n, <2>1, DoesRetain, JobStay
<1>10. CASE RegisterCheckpoint
    BY <1>0, <1>10, <1>n, DoesRegisterCheckpoint, JobStay
<1>11. CASE MonitorCheckpoint
    <2>1. PICK s \in Step : s = trainer.step
        BY <1>0, <1>11, DoesMonitorCheckpoint
    <2>2. dir[s].full
        BY <1>0, <1>11, <2>1, DoesMonitorCheckpoint DEF CheckpointOnDisk, Retained
    <2> QED BY <1>0, <1>11, <2>1, <2>2, DoesMonitorCheckpoint, JobPublished
<1>12. CASE WaitForSave
    BY <1>0, <1>12, <1>n, DoesWaitForSave, JobStay
<1>13. CASE ThreadStarts
    BY <1>0, <1>13, <1>n, DoesThreadStart, JobStay DEF MonitorStays
<1>14. CASE ThreadRenames
    <2>1. tracker.checkpoint # 0 /\ dir[tracker.checkpoint].full => dir'[tracker.checkpoint].full
        <3>1. PICK s \in Step : dir' = [dir EXCEPT ![s].state_dict = TRUE]
            BY <1>0, <1>14, DoesThreadRename
        <3> QED BY <1>0, <1>n, <3>1, FullStays
    <2> QED BY <1>0, <1>14, <1>n, <2>1, DoesThreadRename, JobStay
<1>15. CASE ThreadFinishes
    <2>1. PICK s \in Step : s = thread.step
        BY <1>0, <1>15, DoesThreadFinish
    <2>2. monitor'.latest_checkpoint # monitor.latest_checkpoint => dir[s].full
        BY <1>0, <1>15, <2>1, DoesThreadFinish DEF StepsFit, CheckpointOnDisk
    <2> QED BY <1>0, <1>15, <2>1, <2>2, DoesThreadFinish, JobPublished
<1>16. CASE ThreadFails
    BY <1>0, <1>16, <1>n, DoesThreadFail, JobStay
<1>17. CASE ScanStep
    <2>1. tracker.checkpoint # 0 /\ dir[tracker.checkpoint].full => dir'[tracker.checkpoint].full
        BY <1>17, <1>n, ScannedDirs
    <2> QED BY <1>0, <1>17, <1>n, <2>1, DoesScan, JobStay DEF ScanStep
<1>18. CASE LoadStep
    BY <1>0, <1>18, <1>n, DoesLoad, JobStay DEF LoadStep
<1>19. CASE Crash
    <2>1. /\ keep' = keep /\ tracker' = tracker /\ dir' = dir /\ thread'.pc = "none"
          /\ trainer'.step = IF Exists(tracker.checkpoint) THEN tracker.checkpoint ELSE 0
        BY <1>0, <1>19, DoesCrash
    <2>2. dir[tracker.checkpoint].full /\ tracker.checkpoint # 0 => Exists(tracker.checkpoint)
        BY <1>n DEF Exists, Empty
    <2>3. keep # 1 => tracker'.checkpoint <= trainer'.step
        BY <1>0, <1>n, <2>1, <2>2 DEF JobFits
    <2> QED BY <1>0, <2>1, <2>3 DEF JobFits
<1> QED BY Actions, <1>1, <1>2, <1>3, <1>4, <1>5, <1>6, <1>7, <1>8, <1>9, <1>10, <1>11, <1>12,
           <1>13, <1>14, <1>15, <1>16, <1>17, <1>18, <1>19

\* The step at hand keeps its checkpoint.
LEMMA OnDiskStays ==
    ASSUME IInv, trainer'.step = trainer.step,
           monitor'.checkpoint_steps = monitor.checkpoint_steps,
           trainer'.pc = trainer.pc \/ trainer'.pc \notin {"start", "write", "retain"} \cup Retained,
           trainer.step \in Step /\ dir[trainer.step].full =>
               /\ dir'[trainer.step].full
               /\ dir'[trainer.step].checkpoint = dir[trainer.step].checkpoint
    PROVE  CheckpointOnDisk'
<1>0. TypeInv /\ CheckpointOnDisk
    BY DEF IInv
<1>1. trainer.pc \in {"start", "write", "retain"} \cup Retained => trainer.step \in Step
    BY <1>0, SavedStep DEF Saving, Retained
<1>2. trainer.step \in monitor.checkpoint_steps => trainer.step \in Step
    BY <1>0, Types DEF TypeInv
<1>3. trainer'.pc \in {"start", "write", "retain"} \cup Retained =>
          trainer'.pc = trainer.pc /\ dir[trainer.step].full /\ dir'[trainer.step].full
    BY <1>0, <1>1 DEF CheckpointOnDisk
<1>4. trainer'.pc \in {"retain"} \cup Retained => dir'[trainer.step].checkpoint = "complete"
    BY <1>0, <1>1, <1>3 DEF CheckpointOnDisk
<1>5. trainer.step \in monitor.checkpoint_steps =>
          dir'[trainer.step].full /\ dir'[trainer.step].checkpoint \in {"complete", "rewriting"}
    BY <1>0, <1>2 DEF CheckpointOnDisk, Written
<1> QED BY <1>3, <1>4, <1>5 DEF CheckpointOnDisk, Written

LEMMA CheckpointDiskKept == IInv /\ Next => CheckpointOnDisk'
<1> SUFFICES ASSUME IInv, Next PROVE CheckpointOnDisk'
    OBVIOUS
<1>0. TypeInv /\ StepsFit /\ CheckpointOnDisk
    BY DEF IInv
<1>n. /\ trainer.step \in Nat
      /\ \A s \in monitor.checkpoint_steps : s \in Nat
    BY <1>0, Numbers, Types DEF TypeInv
<1> USE DEF Retained
<1>1. CASE TrainStep
    <2>1. trainer'.step \notin monitor'.checkpoint_steps
        BY <1>0, <1>1, <1>n, DoesTrainStep DEF StepsFit
    <2> QED BY <1>0, <1>1, <2>1, DoesTrainStep DEF CheckpointOnDisk, Written
<1>2. CASE EndLoop
    BY <1>0, <1>2, DoesEndLoop, OnDiskStays
<1>3. CASE SaveStateDict
    BY <1>0, <1>3, DoesSaveStateDict, OnDiskStays
<1>4. CASE RegisterStateDict
    BY <1>0, <1>4, DoesRegisterStateDict, OnDiskStays
<1>5. CASE MonitorStateDict
    BY <1>0, <1>5, DoesMonitorStateDict, OnDiskStays
<1>6. CASE SaveCheckpoint
    <2>1. /\ trainer'.pc = "start" /\ trainer'.step = trainer.step /\ trainer.step \in Step
          /\ monitor' = monitor /\ dir' = [dir EXCEPT ![trainer.step].full = TRUE]
        BY <1>0, <1>6, DoesSaveCheckpoint
    <2>2. dir'[trainer.step].full /\ dir'[trainer.step].checkpoint = dir[trainer.step].checkpoint
        <3>1. PICK s \in Step : s = trainer.step /\ dir' = [dir EXCEPT ![s].full = TRUE]
            BY <2>1
        <3> QED BY <1>0, <3>1, DirChanges, ZenonT(40)
    <2> QED BY <1>0, <2>1, <2>2 DEF CheckpointOnDisk, Written
<1>7. CASE CheckpointStarts
    <2>1. /\ trainer.pc = "start" /\ trainer'.pc = "write" /\ trainer'.step = trainer.step
          /\ trainer.step \in Step
          /\ monitor'.checkpoint_steps = monitor.checkpoint_steps
        BY <1>0, <1>7, DoesCheckpointStarts DEF MonitorStays
    <2>2. /\ dir'[trainer.step].full
          /\ Written(trainer.step) => dir'[trainer.step].checkpoint = "rewriting"
        <3>1. PICK s \in Step : s = trainer.step
            BY <2>1
        <3>2. PICK c \in {"partial", "rewriting"} :
                 /\ dir' = [dir EXCEPT ![s].checkpoint = c]
                 /\ Written(s) => c = "rewriting"
            BY <1>7, <3>1, StartWrites
        <3>3. dir[s].full
            BY <1>0, <2>1, <3>1 DEF CheckpointOnDisk, Written
        <3>4. c \in {"partial", "complete", "rewriting"} /\ dir' = [dir EXCEPT ![s].checkpoint = c]
            BY <3>2
        <3>5. \A q \in Step :
                 /\ dir'[q].full = dir[q].full
                 /\ dir'[q].checkpoint = IF q = s THEN c ELSE dir[q].checkpoint
            BY <1>0, <3>4, CheckpointChanges
        <3> QED BY <3>1, <3>2, <3>3, <3>5
    <2> QED BY <1>0, <2>1, <2>2 DEF CheckpointOnDisk, Written
<1>8. CASE CheckpointWritten
    <2>1. /\ trainer.pc = "write" /\ trainer'.pc = "retain" /\ trainer'.step = trainer.step
          /\ trainer.step \in Step
          /\ monitor'.checkpoint_steps = monitor.checkpoint_steps
          /\ dir' = [dir EXCEPT ![trainer.step].checkpoint = "complete"]
        BY <1>0, <1>8, DoesCheckpointWritten
    <2>2. dir'[trainer.step].full /\ dir'[trainer.step].checkpoint = "complete"
        <3>1. PICK s \in Step : s = trainer.step /\ dir' = [dir EXCEPT ![s].checkpoint = "complete"]
            BY <2>1
        <3>2. dir[s].full
            BY <1>0, <2>1, <3>1 DEF CheckpointOnDisk, Written
        <3>3. \A r \in Step :
                 /\ dir'[r].full = dir[r].full
                 /\ dir'[r].checkpoint = IF r = s THEN "complete" ELSE dir[r].checkpoint
            BY <1>0, <3>1, CheckpointChanges
        <3> QED BY <3>1, <3>2, <3>3
    <2> QED BY <1>0, <2>1, <2>2 DEF CheckpointOnDisk, Written
<1>9. CASE RetainCheckpoints
    <2>1. /\ trainer.pc = "retain" /\ trainer'.pc = "register_checkpoint"
          /\ trainer'.step = trainer.step /\ trainer.step \in Step
          /\ monitor' = monitor
        BY <1>0, <1>9, DoesRetain
    <2>2. dir'[trainer.step] = dir[trainer.step]
        <3>1. PICK s \in Step : s = trainer.step
            BY <2>1
        <3> QED BY <1>9, <1>n, <3>1, RetainedDirs
    <2> QED BY <1>0, <2>1, <2>2 DEF CheckpointOnDisk, Written
<1>10. CASE RegisterCheckpoint
    BY <1>0, <1>10, DoesRegisterCheckpoint DEF CheckpointOnDisk, Written
<1>11. CASE MonitorCheckpoint
    BY <1>0, <1>11, DoesMonitorCheckpoint DEF CheckpointOnDisk, Written
<1>12. CASE WaitForSave
    BY <1>0, <1>12, DoesWaitForSave, OnDiskStays
<1>13. CASE ThreadStarts
    BY <1>0, <1>13, DoesThreadStart, OnDiskStays DEF MonitorStays
<1>14. CASE ThreadRenames
    <2>1. PICK s \in Step : dir' = [dir EXCEPT ![s].state_dict = TRUE]
        BY <1>0, <1>14, DoesThreadRename
    <2>2. \A r \in Step : dir'[r].full = dir[r].full /\ dir'[r].checkpoint = dir[r].checkpoint
        BY <1>0, <2>1, DirChanges
    <2> QED BY <1>0, <1>14, <2>2, DoesThreadRename, OnDiskStays
<1>15. CASE ThreadFinishes
    BY <1>0, <1>15, DoesThreadFinish, OnDiskStays
<1>16. CASE ThreadFails
    BY <1>0, <1>16, DoesThreadFail, OnDiskStays
<1>17. CASE ScanStep
    <2>1. \A r \in Step : dir[r].full => dir'[r] = dir[r]
        BY <1>17, ScannedDirs
    <2> QED BY <1>0, <1>17, <2>1, DoesScan, OnDiskStays DEF ScanStep
<1>18. CASE LoadStep
    BY <1>0, <1>18, DoesLoad, OnDiskStays DEF LoadStep
<1>19. CASE Crash
    BY <1>0, <1>19, DoesCrash DEF CheckpointOnDisk, Written
<1> QED BY Actions, <1>1, <1>2, <1>3, <1>4, <1>5, <1>6, <1>7, <1>8, <1>9, <1>10, <1>11, <1>12,
           <1>13, <1>14, <1>15, <1>16, <1>17, <1>18, <1>19

\* The synchronizer only falls back to what an earlier job published.
LEMMA ScanPublished ==
    ASSUME IInv, NEW s \in Step, Published(monitor, tracker, monitor', tracker', s),
           scan' = scan, explorer' = explorer, crashes' = crashes
    PROVE  ScanFits'
<1>0. TypeInv /\ ScanFits /\ TrackerFits
    BY DEF IInv
<1>1. /\ monitor.latest_state_dict \in Nat /\ tracker.state_dict \in Nat
      /\ scan.version \in Nat /\ scan.remove \in Nat /\ explorer.loading \in Nat
      /\ s \in Nat /\ s > 0
    BY <1>0, Numbers
<1>2. CASE monitor'.latest_state_dict = monitor.latest_state_dict
           /\ tracker'.state_dict = tracker.state_dict
    BY <1>0, <1>2 DEF ScanFits
<1>3. CASE s > monitor.latest_state_dict /\ monitor'.latest_state_dict = s /\ tracker'.state_dict = s
    <2>1. CASE monitor.latest_state_dict = tracker.state_dict
        BY <1>0, <1>1, <1>3, <2>1 DEF ScanFits
    <2>2. CASE monitor.latest_state_dict # tracker.state_dict
        <3>1. scan.remove = 0 /\ crashes # 0
            BY <1>0, <2>2, Numbers DEF ScanFits, TrackerFits
        <3> QED BY <1>3, <3>1 DEF ScanFits
    <2> QED BY <2>1, <2>2
<1> QED BY <1>2, <1>3 DEF Published

LEMMA ScanKept == IInv /\ Next => ScanFits'
<1> SUFFICES ASSUME IInv, Next PROVE ScanFits'
    OBVIOUS
<1>0. TypeInv /\ ScanFits /\ TrackerFits
    BY DEF IInv
<1>n. /\ monitor.latest_state_dict \in Nat /\ tracker.state_dict \in Nat
      /\ scan.version \in Nat /\ scan.remove \in Nat /\ explorer.loading \in Nat
      /\ crashes \in Nat
    BY <1>0, Numbers
<1> USE DEF JobStays
<1>1. CASE TrainStep
    BY <1>0, <1>1, DoesTrainStep DEF ScanFits
<1>2. CASE EndLoop
    BY <1>0, <1>2, DoesEndLoop DEF ScanFits
<1>3. CASE SaveStateDict
    BY <1>0, <1>3, DoesSaveStateDict DEF ScanFits
<1>4. CASE RegisterStateDict
    BY <1>0, <1>4, DoesRegisterStateDict DEF ScanFits
<1>5. CASE MonitorStateDict
    BY <1>0, <1>5, DoesMonitorStateDict, ScanPublished
<1>6. CASE SaveCheckpoint
    BY <1>0, <1>6, DoesSaveCheckpoint DEF ScanFits
<1>7. CASE CheckpointStarts
    BY <1>0, <1>7, DoesCheckpointStarts DEF ScanFits, MonitorStays
<1>8. CASE CheckpointWritten
    BY <1>0, <1>8, DoesCheckpointWritten, ScanPublished
<1>9. CASE RetainCheckpoints
    BY <1>0, <1>9, DoesRetain DEF ScanFits
<1>10. CASE RegisterCheckpoint
    BY <1>0, <1>10, DoesRegisterCheckpoint DEF ScanFits
<1>11. CASE MonitorCheckpoint
    BY <1>0, <1>11, DoesMonitorCheckpoint, ScanPublished
<1>12. CASE WaitForSave
    BY <1>0, <1>12, DoesWaitForSave DEF ScanFits
<1>13. CASE ThreadStarts
    BY <1>0, <1>13, DoesThreadStart DEF ScanFits, MonitorStays
<1>14. CASE ThreadRenames
    BY <1>0, <1>14, DoesThreadRename DEF ScanFits
<1>15. CASE ThreadFinishes
    BY <1>0, <1>15, DoesThreadFinish, ScanPublished
<1>16. CASE ThreadFails
    BY <1>0, <1>16, DoesThreadFail DEF ScanFits
<1>17. CASE ScanStep
    BY <1>0, <1>17, <1>n, DoesScan DEF ScanFits, ScanStep
<1>18. CASE LoadStep
    BY <1>0, <1>18, <1>n, DoesLoad DEF ScanFits, LoadStep
<1>19. CASE Crash
    BY <1>0, <1>19, <1>n, DoesCrash DEF ScanFits
<1> QED BY Actions, <1>1, <1>2, <1>3, <1>4, <1>5, <1>6, <1>7, <1>8, <1>9, <1>10, <1>11, <1>12,
           <1>13, <1>14, <1>15, <1>16, <1>17, <1>18, <1>19

-----------------------------------------------------------------------------
(* The weights that are published can be loaded.                           *)

NothingPublished ==
    /\ monitor'.latest_checkpoint = monitor.latest_checkpoint
    /\ monitor'.latest_state_dict = monitor.latest_state_dict
    /\ tracker' = tracker

\* Every action but a crash.
LEMMA Alive ==
    ASSUME TypeInv, Next, ~Crash
    PROVE  /\ keep' = keep /\ crashes' = crashes
           /\ \/ NothingPublished
              \/ MonitorStateDict \/ CheckpointWritten \/ MonitorCheckpoint \/ ThreadFinishes
<1>1. CASE TrainStep \/ EndLoop \/ SaveStateDict \/ SaveCheckpoint \/ WaitForSave
    BY <1>1, DoesTrainStep, DoesEndLoop, DoesSaveStateDict, DoesSaveCheckpoint, DoesWaitForSave
       DEF JobStays, MonitorStays, NothingPublished
<1>2. CASE RegisterStateDict \/ RegisterCheckpoint
    BY <1>2, DoesRegisterStateDict, DoesRegisterCheckpoint DEF JobStays, MonitorStays, NothingPublished
<1>3. CASE RetainCheckpoints
    BY <1>3, DoesRetain DEF MonitorStays, NothingPublished
<1>4. CASE CheckpointStarts \/ ThreadStarts
    BY <1>4, DoesCheckpointStarts, DoesThreadStart DEF JobStays, MonitorStays, NothingPublished
<1>5. CASE ThreadRenames \/ ThreadFails \/ ScanStep \/ LoadStep
    BY <1>5, DoesThreadRename, DoesThreadFail, DoesScan, DoesLoad
       DEF JobStays, MonitorStays, NothingPublished, ScanStep, LoadStep
<1>6. CASE MonitorStateDict \/ CheckpointWritten \/ MonitorCheckpoint \/ ThreadFinishes
    BY <1>6, DoesMonitorStateDict, DoesCheckpointWritten, DoesMonitorCheckpoint, DoesThreadFinish
       DEF JobStays
<1> QED BY Actions, <1>1, <1>2, <1>3, <1>4, <1>5, <1>6

\* The monitor and its files go forward within a job; what a job publishes first may be
\* older than what the job before it published.
LEMMA Forward ==
    ASSUME IInv, Next, ~Crash
    PROVE  /\ monitor'.latest_state_dict \in Nat /\ tracker'.state_dict \in Nat
           /\ monitor'.latest_state_dict >= monitor.latest_state_dict
           /\ \/ /\ tracker'.state_dict = tracker.state_dict
                 /\ monitor'.latest_state_dict = monitor.latest_state_dict
              \/ /\ tracker'.state_dict > monitor.latest_state_dict
                 /\ monitor'.latest_state_dict = tracker'.state_dict
<1>0. TypeInv
    BY DEF IInv
<1>1. /\ monitor.latest_state_dict \in Nat /\ tracker.state_dict \in Nat
      /\ \A s \in Step : s \in Nat
    BY <1>0, Numbers
<1>2. ASSUME NEW s \in Step, Published(monitor, tracker, monitor', tracker', s)
      PROVE  /\ monitor'.latest_state_dict \in Nat /\ tracker'.state_dict \in Nat
             /\ monitor'.latest_state_dict >= monitor.latest_state_dict
             /\ \/ /\ tracker'.state_dict = tracker.state_dict
                   /\ monitor'.latest_state_dict = monitor.latest_state_dict
                \/ /\ tracker'.state_dict > monitor.latest_state_dict
                   /\ monitor'.latest_state_dict = tracker'.state_dict
    BY <1>1, <1>2 DEF Published
<1>3. CASE MonitorStateDict
    BY <1>0, <1>2, <1>3, DoesMonitorStateDict
<1>4. CASE CheckpointWritten
    BY <1>0, <1>2, <1>4, DoesCheckpointWritten
<1>5. CASE MonitorCheckpoint
    BY <1>0, <1>2, <1>5, DoesMonitorCheckpoint
<1>6. CASE ThreadFinishes
    BY <1>0, <1>2, <1>6, DoesThreadFinish
<1>7. CASE NothingPublished
    BY <1>1, <1>7 DEF NothingPublished
<1> QED BY <1>0, <1>3, <1>4, <1>5, <1>6, <1>7, Alive

\* A state dict stays on disk until it is overtaken.
LEMMA DictsStay ==
    ASSUME IInv, Next, ~Crash, keep # 1, NEW r \in Step, dir[r].state_dict
    PROVE  dir'[r].state_dict \/ r < monitor.latest_state_dict
<1>0. TypeInv
    BY DEF IInv
<1>n. /\ monitor.latest_state_dict \in Nat /\ monitor.latest_checkpoint \in Nat
      /\ monitor.latest_checkpoint <= monitor.latest_state_dict /\ r \in Nat
    BY <1>0, Numbers
<1>1. CASE dir' = dir
    BY <1>1
<1>2. CASE SaveCheckpoint
    <2>1. PICK s \in Step : dir' = [dir EXCEPT ![s].full = TRUE]
        BY <1>0, <1>2, DoesSaveCheckpoint
    <2> QED BY <1>0, <2>1, DirChanges
<1>3. CASE CheckpointStarts
    <2>1. PICK s \in Step : \E c \in {"partial", "rewriting"} :
              dir' = [dir EXCEPT ![s].checkpoint = c]
        BY <1>0, <1>3, DoesCheckpointStarts
    <2> QED BY <1>0, <2>1, CheckpointChanges
<1>4. CASE CheckpointWritten
    <2>1. PICK s \in Step : dir' = [dir EXCEPT ![s].checkpoint = "complete"]
        BY <1>0, <1>4, DoesCheckpointWritten
    <2> QED BY <1>0, <2>1, CheckpointChanges
<1>5. CASE RetainCheckpoints
    <2>1. dir'[r] = dir[r] \/ r < monitor.latest_checkpoint
        BY <1>5, RetainedDirs
    <2> QED BY <1>n, <2>1
<1>6. CASE ThreadRenames
    <2>1. PICK s \in Step : dir' = [dir EXCEPT ![s].state_dict = TRUE]
        BY <1>0, <1>6, DoesThreadRename
    <2> QED BY <1>0, <2>1, DirChanges
<1>7. CASE ScanStep
    BY <1>7, ScannedDirs
<1>8. CASE TrainStep \/ EndLoop \/ SaveStateDict \/ RegisterStateDict \/ MonitorStateDict
    BY <1>0, <1>1, <1>8, DoesTrainStep, DoesEndLoop, DoesSaveStateDict, DoesRegisterStateDict,
       DoesMonitorStateDict
<1>9. CASE RegisterCheckpoint \/ MonitorCheckpoint \/ WaitForSave
    BY <1>0, <1>1, <1>9, DoesRegisterCheckpoint, DoesMonitorCheckpoint, DoesWaitForSave
<1>10. CASE ThreadStarts \/ ThreadFinishes \/ ThreadFails \/ LoadStep
    BY <1>0, <1>1, <1>10, DoesThreadStart, DoesThreadFinish, DoesThreadFail, DoesLoad DEF LoadStep
<1> QED BY Actions, <1>2, <1>3, <1>4, <1>5, <1>6, <1>7, <1>8, <1>9, <1>10

\* What the thread renamed is there, or overtaken.
LEMMA ThreadDict ==
    ASSUME IInv, Next, ~Crash, keep # 1
    PROVE  thread'.pc \in {"finish", "done"} =>
               dir'[thread'.step].state_dict \/ thread'.step < monitor'.latest_state_dict
<1>0. TypeInv /\ StateDictOnDisk
    BY DEF IInv
<1>1. /\ monitor.latest_state_dict \in Nat /\ monitor'.latest_state_dict \in Nat
      /\ monitor'.latest_state_dict >= monitor.latest_state_dict
      /\ thread.step \in Nat
    BY <1>0, Forward, Numbers
<1>2. CASE thread.pc \in {"finish", "done"} /\ thread'.step = thread.step
    <2>1. PICK r \in Step : r = thread.step
        BY <1>0, <1>2, SavedStep
    <2>2. dir[r].state_dict \/ r < monitor.latest_state_dict
        BY <1>0, <1>2, <2>1 DEF StateDictOnDisk
    <2>3. dir'[r].state_dict \/ r < monitor.latest_state_dict
        BY <2>2, DictsStay
    <2>4. r \in Nat
        BY <1>1, <2>1
    <2> QED BY <1>1, <1>2, <2>1, <2>3, <2>4
<1>3. CASE ThreadRenames
    <2>1. PICK s \in Step : s = thread.step /\ dir' = [dir EXCEPT ![s].state_dict = TRUE]
                            /\ thread'.step = s
        BY <1>0, <1>3, DoesThreadRename
    <2>2. dir'[s].state_dict
        BY <1>0, <2>1, DirChanges
    <2> QED BY <2>1, <2>2
<1>4. CASE thread'.pc \notin {"finish", "done"}
    BY <1>4
<1>5. CASE TrainStep \/ EndLoop \/ SaveStateDict \/ RegisterStateDict \/ MonitorStateDict
    BY <1>0, <1>2, <1>4, <1>5, DoesTrainStep, DoesEndLoop, DoesSaveStateDict,
       DoesRegisterStateDict, DoesMonitorStateDict
<1>6. CASE SaveCheckpoint \/ CheckpointStarts \/ CheckpointWritten \/ RetainCheckpoints
    BY <1>0, <1>2, <1>4, <1>6, DoesSaveCheckpoint, DoesCheckpointStarts, DoesCheckpointWritten,
       DoesRetain
<1>7. CASE RegisterCheckpoint \/ MonitorCheckpoint \/ WaitForSave
    BY <1>0, <1>2, <1>4, <1>7, DoesRegisterCheckpoint, DoesMonitorCheckpoint, DoesWaitForSave
<1>8. CASE ThreadStarts \/ ThreadFinishes \/ ThreadFails \/ LoadStep \/ ScanStep
    BY <1>0, <1>2, <1>4, <1>8, DoesThreadStart, DoesThreadFinish, DoesThreadFail, DoesLoad, DoesScan
       DEF LoadStep, ScanStep
<1> QED BY Actions, <1>3, <1>5, <1>6, <1>7, <1>8

\* When the monitor publishes a state dict, its weights are on disk.
LEMMA PublishedReadable ==
    ASSUME IInv, Next, ~Crash, keep # 1,
           monitor'.latest_state_dict # monitor.latest_state_dict
    PROVE  /\ tracker'.state_dict = monitor'.latest_state_dict
           /\ tracker'.state_dict \in Step
           /\ dir'[tracker'.state_dict].state_dict \/ dir'[tracker'.state_dict].checkpoint = "complete"
<1>0. TypeInv /\ StateDictOnDisk /\ CountsFit /\ CheckpointOnDisk
    BY DEF IInv
<1>1. monitor.latest_state_dict \in Nat /\ \A s \in Step : s \in Nat
    BY <1>0, Numbers
<1>2. ASSUME NEW s \in Step, Published(monitor, tracker, monitor', tracker', s)
      PROVE  /\ tracker'.state_dict = s /\ monitor'.latest_state_dict = s
             /\ s > monitor.latest_state_dict
    BY <1>2 DEF Published
<1>3. CASE MonitorStateDict
    <2>1. PICK s \in Step : s = trainer.step
        BY <1>0, <1>3, DoesMonitorStateDict
    <2>2. /\ trainer.pc = "monitor" /\ dir' = dir
          /\ Published(monitor, tracker, monitor', tracker', s)
          /\ monitor.counter[trainer.step] = 0
        BY <1>0, <1>3, <2>1, DoesMonitorStateDict
    <2>3. thread.pc = "done" /\ thread.step = s
        BY <1>0, <2>1, <2>2 DEF CountsFit
    <2>4. dir[s].state_dict \/ s < monitor.latest_state_dict
        BY <1>0, <2>3 DEF StateDictOnDisk
    <2> QED BY <1>1, <1>2, <2>2, <2>4
<1>4. CASE CheckpointWritten
    <2>1. PICK s \in Step : /\ dir' = [dir EXCEPT ![s].checkpoint = "complete"]
                            /\ Published(monitor, tracker, monitor', tracker', s)
        BY <1>0, <1>4, DoesCheckpointWritten
    <2>2. dir'[s].checkpoint = "complete"
        BY <1>0, <2>1, CheckpointChanges
    <2> QED BY <1>2, <2>1, <2>2
<1>5. CASE MonitorCheckpoint
    <2>1. PICK s \in Step : s = trainer.step
        BY <1>0, <1>5, DoesMonitorCheckpoint
    <2>2. dir' = dir /\ Published(monitor, tracker, monitor', tracker', s)
        BY <1>0, <1>5, <2>1, DoesMonitorCheckpoint
    <2>3. dir[s].checkpoint = "complete"
        BY <1>0, <1>5, <2>1, DoesMonitorCheckpoint DEF CheckpointOnDisk, Retained
    <2> QED BY <1>2, <2>2, <2>3
<1>6. CASE ThreadFinishes
    <2>1. PICK s \in Step : s = thread.step
        BY <1>0, <1>6, DoesThreadFinish
    <2>2. thread.pc = "finish" /\ dir' = dir /\ Published(monitor, tracker, monitor', tracker', s)
        BY <1>0, <1>6, <2>1, DoesThreadFinish
    <2>3. dir[s].state_dict \/ s < monitor.latest_state_dict
        BY <1>0, <2>1, <2>2 DEF StateDictOnDisk
    <2> QED BY <1>1, <1>2, <2>2, <2>3
<1> QED BY <1>0, <1>3, <1>4, <1>5, <1>6, Alive DEF NothingPublished

\* The state dict of the step at hand is there when it is what the monitor published.
LEMMA AtHandStays ==
    ASSUME IInv, Next, ~Crash, keep # 1, trainer'.step = trainer.step,
           monitor'.checkpoint_steps = monitor.checkpoint_steps,
           \/ trainer.pc \notin {"write", "retain"} \cup Retained
           \/ trainer'.pc \in {"write", "retain"} \cup Retained,
           monitor'.latest_state_dict # monitor.latest_state_dict =>
               thread.pc \in {"finish", "done"} /\ monitor'.latest_state_dict = thread.step
    PROVE  \/ trainer'.pc \in {"write", "retain"} \cup Retained
           \/ trainer'.step = 0 \/ monitor'.latest_state_dict # trainer'.step
           \/ trainer'.step \in monitor'.checkpoint_steps
           \/ dir'[trainer'.step].state_dict
<1>0. TypeInv /\ StateDictOnDisk
    BY DEF IInv
<1>1. /\ trainer.step \in 0 .. MaxStep /\ monitor.latest_state_dict \in Nat
      /\ trainer.step # 0 => trainer.step \in Step
      /\ thread.step \in Nat /\ monitor'.latest_state_dict \in Nat
      /\ monitor'.latest_state_dict >= monitor.latest_state_dict
    <2>1. trainer.step \in 0 .. MaxStep
        BY <1>0, Types DEF TypeInv
    <2>2. trainer.step # 0 => trainer.step \in Step
        BY <2>1, Bounds DEF Step
    <2> QED BY <1>0, <2>1, <2>2, Numbers, Forward
<1> SUFFICES ASSUME trainer.pc \notin {"write", "retain"} \cup Retained,
                    trainer.step # 0, monitor'.latest_state_dict = trainer.step,
                    trainer.step \notin monitor.checkpoint_steps
             PROVE  dir'[trainer.step].state_dict
    OBVIOUS
<1>2. PICK s \in Step : s = trainer.step
    BY <1>1
<1>3. dir[s].state_dict
    <2>1. CASE monitor'.latest_state_dict = monitor.latest_state_dict
        BY <1>0, <1>2, <2>1 DEF StateDictOnDisk
    <2>2. CASE monitor'.latest_state_dict # monitor.latest_state_dict
        <3>1. thread.pc \in {"finish", "done"} /\ thread.step = s
            BY <1>2, <2>2
        <3>2. ~(s < monitor.latest_state_dict)
            BY <1>1, <1>2
        <3> QED BY <1>0, <3>1, <3>2 DEF StateDictOnDisk
    <2> QED BY <2>1, <2>2
<1>4. dir'[s].state_dict \/ s < monitor.latest_state_dict
    BY <1>3, DictsStay
<1>5. ~(s < monitor.latest_state_dict)
    BY <1>1, <1>2
<1> QED BY <1>2, <1>4, <1>5

LEMMA StateDictDiskKept == IInv /\ Next => StateDictOnDisk'
<1> SUFFICES ASSUME IInv, Next PROVE StateDictOnDisk'
    OBVIOUS
<1>0. TypeInv /\ StepsFit /\ StateDictOnDisk /\ CountsFit
    BY DEF IInv
<1>n. /\ trainer.step \in Nat /\ monitor.latest_state_dict \in Nat
    BY <1>0, Numbers
<1>c. CASE Crash
    <2>1. thread'.pc = "none" /\ trainer'.pc = "train" /\ monitor'.latest_state_dict = 0
        BY <1>0, <1>c, DoesCrash
    <2> QED BY <2>1 DEF StateDictOnDisk
<1>l. CASE ~Crash
  <2> SUFFICES ASSUME keep # 1
               PROVE  \/ trainer'.pc \in {"write", "retain"} \cup Retained
                      \/ trainer'.step = 0 \/ monitor'.latest_state_dict # trainer'.step
                      \/ trainer'.step \in monitor'.checkpoint_steps
                      \/ dir'[trainer'.step].state_dict
      <3>1. keep' = keep
          BY <1>0, <1>l, Alive
      <3> QED BY <1>l, <3>1, ThreadDict DEF StateDictOnDisk
  <2> USE <1>l
  <2>1. CASE TrainStep
      BY <1>0, <1>n, <2>1, DoesTrainStep DEF StepsFit
  <2>2. CASE EndLoop
      BY <1>0, <2>2, DoesEndLoop, AtHandStays DEF Retained
  <2>3. CASE SaveStateDict
      BY <1>0, <2>3, DoesSaveStateDict, AtHandStays DEF Retained
  <2>4. CASE RegisterStateDict
      BY <1>0, <2>4, DoesRegisterStateDict, AtHandStays DEF Retained
  <2>5. CASE MonitorStateDict
      <3>1. /\ trainer.pc = "monitor" /\ trainer'.pc = "train" /\ trainer'.step = trainer.step
            /\ monitor'.checkpoint_steps = monitor.checkpoint_steps
            /\ Published(monitor, tracker, monitor', tracker', trainer.step)
            /\ monitor'.latest_state_dict # monitor.latest_state_dict =>
                   monitor.counter[trainer.step] = 0
          BY <1>0, <2>5, DoesMonitorStateDict
      <3>2. monitor'.latest_state_dict # monitor.latest_state_dict =>
                thread.pc = "done" /\ monitor'.latest_state_dict = thread.step
          BY <1>0, <3>1 DEF CountsFit, Published
      <3> QED BY <3>1, <3>2, AtHandStays DEF Retained
  <2>6. CASE SaveCheckpoint
      BY <1>0, <2>6, DoesSaveCheckpoint, AtHandStays DEF Retained
  <2>7. CASE CheckpointStarts
      BY <1>0, <2>7, DoesCheckpointStarts
  <2>8. CASE CheckpointWritten
      BY <1>0, <2>8, DoesCheckpointWritten
  <2>9. CASE RetainCheckpoints
      BY <1>0, <2>9, DoesRetain DEF Retained
  <2>10. CASE RegisterCheckpoint
      BY <1>0, <2>10, DoesRegisterCheckpoint DEF Retained
  <2>11. CASE MonitorCheckpoint
      BY <1>0, <2>11, DoesMonitorCheckpoint
  <2>12. CASE WaitForSave
      BY <1>0, <2>12, DoesWaitForSave, AtHandStays DEF Retained
  <2>13. CASE ThreadStarts
      BY <1>0, <2>13, DoesThreadStart, AtHandStays DEF MonitorStays
  <2>14. CASE ThreadRenames
      BY <1>0, <2>14, DoesThreadRename, AtHandStays
  <2>15. CASE ThreadFinishes
      BY <1>0, <2>15, DoesThreadFinish, AtHandStays DEF Published
  <2>16. CASE ThreadFails
      BY <1>0, <2>16, DoesThreadFail, AtHandStays
  <2>17. CASE ScanStep
      BY <1>0, <2>17, DoesScan, AtHandStays DEF ScanStep
  <2>18. CASE LoadStep
      BY <1>0, <2>18, DoesLoad, AtHandStays DEF LoadStep
  <2> QED BY Actions, <2>1, <2>2, <2>3, <2>4, <2>5, <2>6, <2>7, <2>8, <2>9, <2>10, <2>11, <2>12,
             <2>13, <2>14, <2>15, <2>16, <2>17, <2>18
<1> QED BY <1>c, <1>l

\* A checkpoint that was written to its end stays, perhaps being written again, until it
\* is overtaken.
LEMMA CheckpointsStay ==
    ASSUME IInv, Next, ~Crash, keep # 1, NEW r \in Step, Written(r)
    PROVE  \/ dir'[r].checkpoint \in {"complete", "rewriting"}
           \/ ~dir[r].full /\ r < tracker.state_dict /\ monitor.latest_state_dict = tracker.state_dict
           \/ r < monitor.latest_checkpoint
<1> USE DEF Written
<1>0. TypeInv
    BY DEF IInv
<1>1. CASE dir' = dir
    BY <1>1
<1>2. CASE SaveCheckpoint
    <2>1. PICK s \in Step : dir' = [dir EXCEPT ![s].full = TRUE]
        BY <1>0, <1>2, DoesSaveCheckpoint
    <2> QED BY <1>0, <2>1, DirChanges
<1>3. CASE CheckpointStarts
    <2>1. PICK s \in Step : s = trainer.step
        BY <1>0, <1>3, DoesCheckpointStarts
    <2>2. PICK c \in {"partial", "rewriting"} :
             /\ dir' = [dir EXCEPT ![s].checkpoint = c]
             /\ Written(s) => c = "rewriting"
        BY <1>3, <2>1, StartWrites
    <2>3. c \in {"partial", "complete", "rewriting"} /\ dir' = [dir EXCEPT ![s].checkpoint = c]
        BY <2>2
    <2>4. \A q \in Step : dir'[q].checkpoint = IF q = s THEN c ELSE dir[q].checkpoint
        BY <1>0, <2>3, CheckpointChanges
    <2> QED BY <2>2, <2>4
<1>4. CASE CheckpointWritten
    <2>1. PICK s \in Step : dir' = [dir EXCEPT ![s].checkpoint = "complete"]
        BY <1>0, <1>4, DoesCheckpointWritten
    <2> QED BY <1>0, <2>1, CheckpointChanges
<1>5. CASE RetainCheckpoints
    BY <1>5, RetainedDirs
<1>6. CASE ThreadRenames
    <2>1. PICK s \in Step : dir' = [dir EXCEPT ![s].state_dict = TRUE]
        BY <1>0, <1>6, DoesThreadRename
    <2> QED BY <1>0, <2>1, DirChanges, ZenonT(40)
<1>7. CASE ScanStep
    BY <1>7, ScannedDirs
<1>8. CASE TrainStep \/ EndLoop \/ SaveStateDict \/ RegisterStateDict \/ MonitorStateDict
    BY <1>0, <1>1, <1>8, DoesTrainStep, DoesEndLoop, DoesSaveStateDict, DoesRegisterStateDict,
       DoesMonitorStateDict
<1>9. CASE RegisterCheckpoint \/ MonitorCheckpoint \/ WaitForSave
    BY <1>0, <1>1, <1>9, DoesRegisterCheckpoint, DoesMonitorCheckpoint, DoesWaitForSave
<1>10. CASE ThreadStarts \/ ThreadFinishes \/ ThreadFails \/ LoadStep
    BY <1>0, <1>1, <1>10, DoesThreadStart, DoesThreadFinish, DoesThreadFail, DoesLoad DEF LoadStep
<1> QED BY Actions, <1>2, <1>3, <1>4, <1>5, <1>6, <1>7, <1>8, <1>9, <1>10

LEMMA SurvivesKept == IInv /\ Next => Survives'
<1> SUFFICES ASSUME IInv, Next PROVE Survives'
    OBVIOUS
<1>0. TypeInv /\ Survives /\ JobFits /\ TrackerFits /\ StepsFit /\ CheckpointOnDisk
    BY DEF IInv
<1>n. /\ tracker.checkpoint \in Nat /\ monitor.latest_checkpoint \in Nat
      /\ tracker.checkpoint # 0 => tracker.checkpoint \in Step
    <2>1. tracker.checkpoint \in 0 .. MaxStep
        BY <1>0, Types DEF TypeInv
    <2>2. tracker.checkpoint # 0 => tracker.checkpoint \in Step
        BY <2>1, Bounds DEF Step
    <2> QED BY <1>0, <2>2, Numbers
<1>1. CASE Crash
    BY <1>0, <1>1, DoesCrash DEF Survives, Written
<1>2. CASE ~Crash
    <2>1. keep' = keep
        BY <1>0, <1>2, Alive
    <2> SUFFICES ASSUME keep # 1, tracker'.checkpoint # 0
                 PROVE  dir'[tracker'.checkpoint].checkpoint \in {"complete", "rewriting"}
        BY <2>1 DEF Survives, Written
    <2>2. CASE tracker'.checkpoint = tracker.checkpoint
        <3>1. PICK r \in Step : r = tracker.checkpoint
            BY <1>n, <2>2
        <3>2. Written(r) /\ dir[r].full
            BY <1>0, <2>2, <3>1 DEF Survives, JobFits
        <3>3. ~(r < monitor.latest_checkpoint)
            BY <1>0, <1>n, <3>1 DEF TrackerFits
        <3> QED BY <1>2, <2>2, <3>1, <3>2, <3>3, CheckpointsStay
    <2>3. CASE tracker'.checkpoint # tracker.checkpoint
        <3>1. CASE MonitorStateDict
            BY <1>0, <2>3, <3>1, DoesMonitorStateDict
        <3>2. CASE CheckpointWritten
            <4>1. PICK s \in Step : /\ dir' = [dir EXCEPT ![s].checkpoint = "complete"]
                                    /\ Published(monitor, tracker, monitor', tracker', s)
                BY <1>0, <3>2, DoesCheckpointWritten
            <4>2. dir'[s].checkpoint = "complete"
                BY <1>0, <4>1, CheckpointChanges
            <4> QED BY <2>3, <4>1, <4>2 DEF Published
        <3>3. CASE MonitorCheckpoint
            <4>1. PICK s \in Step : s = trainer.step
                BY <1>0, <3>3, DoesMonitorCheckpoint
            <4>2. /\ dir' = dir /\ Published(monitor, tracker, monitor', tracker', s)
                  /\ trainer.pc = "monitor_checkpoint"
                BY <1>0, <3>3, <4>1, DoesMonitorCheckpoint
            <4>3. dir[s].checkpoint = "complete"
                BY <1>0, <4>1, <4>2 DEF CheckpointOnDisk, Retained
            <4> QED BY <2>3, <4>2, <4>3 DEF Published
        <3>4. CASE ThreadFinishes
            <4>1. PICK s \in Step : s = thread.step
                BY <1>0, <3>4, DoesThreadFinish
            <4>2. /\ dir' = dir /\ Published(monitor, tracker, monitor', tracker', s)
                  /\ monitor'.latest_checkpoint # monitor.latest_checkpoint =>
                         s \in monitor.checkpoint_steps
                BY <1>0, <3>4, <4>1, DoesThreadFinish
            <4>3. tracker'.checkpoint = s /\ s \in monitor.checkpoint_steps
                <5>1. s > monitor.latest_checkpoint /\ monitor'.latest_checkpoint = s
                      /\ tracker'.checkpoint = s
                    BY <2>3, <4>2 DEF Published
                <5>2. s \in Nat
                    BY <1>0, Numbers
                <5> QED BY <1>n, <4>2, <5>1, <5>2
            <4>4. Written(s)
                BY <1>0, <4>1, <4>3 DEF StepsFit, CheckpointOnDisk
            <4> QED BY <4>2, <4>3, <4>4 DEF Written
        <3> QED BY <1>0, <1>2, <2>3, <3>1, <3>2, <3>3, <3>4, Alive DEF NothingPublished
    <2> QED BY <2>2, <2>3
<1> QED BY <1>1, <1>2

\* A version that the synchronizer, the explorer or the tracker holds stays loadable.
Holds(v) ==
    /\ monitor.latest_state_dict # tracker.state_dict => v = tracker.state_dict
    /\ crashes = 0 => v <= tracker.state_dict

LEMMA LoadableStays ==
    ASSUME IInv, Next, ~Crash, keep # 1, NEW v \in Step, Holds(v), Loadable(v)
    PROVE  Loadable(v)'
<1>0. TypeInv /\ TrackerFits /\ StateDictOnDisk /\ StepsFit
    BY DEF IInv
<1>1. /\ keep' = keep /\ crashes' = crashes /\ v \in Nat /\ v > 0
      /\ crashes \in Nat
      /\ tracker.state_dict \in Nat /\ tracker'.state_dict \in Nat
      /\ monitor.latest_state_dict \in Nat /\ monitor.latest_checkpoint \in Nat
      /\ monitor.latest_checkpoint <= monitor.latest_state_dict
    BY <1>0, Alive, Numbers, Forward
<1>2. ASSUME tracker.state_dict > v PROVE tracker'.state_dict > v
    <2>1. monitor.latest_state_dict = tracker.state_dict
        BY <1>1, <1>2 DEF Holds
    <2>2. tracker'.state_dict = tracker.state_dict \/ tracker'.state_dict > tracker.state_dict
        BY <2>1, Forward
    <2> QED BY <1>1, <1>2, <2>2
<1>3. ASSUME v < monitor.latest_state_dict PROVE tracker.state_dict > v
    <2>1. monitor.latest_state_dict = tracker.state_dict
        BY <1>0, <1>1, <1>3 DEF TrackerFits
    <2> QED BY <1>3, <2>1
<1>4. dir'[v].state_dict \/ dir'[v].checkpoint \in {"complete", "rewriting"} => Loadable(v)'
    BY DEF Loadable, Written
<1>5. tracker'.state_dict > v => Loadable(v)'
    BY DEF Loadable
<1>6. CASE tracker.state_dict > v
    BY <1>2, <1>5, <1>6
<1>7. CASE dir[v].state_dict
    <2>1. dir'[v].state_dict \/ v < monitor.latest_state_dict
        BY <1>7, DictsStay
    <2> QED BY <1>2, <1>3, <1>4, <1>5, <2>1
<1>8. CASE Written(v)
    <2>1. \/ dir'[v].checkpoint \in {"complete", "rewriting"}
          \/ v < tracker.state_dict
          \/ v < monitor.latest_checkpoint
        BY <1>8, CheckpointsStay
    <2>2. CASE v < monitor.latest_checkpoint
        <3>1. v < monitor.latest_state_dict
            BY <1>1, <2>2
        <3> QED BY <1>2, <1>3, <1>5, <3>1
    <2>3. CASE v < tracker.state_dict
        BY <1>1, <1>2, <1>5, <2>3
    <2> QED BY <1>4, <2>1, <2>2, <2>3
<1> QED BY <1>6, <1>7, <1>8 DEF Loadable

LEMMA HeldKept == IInv /\ Next => HeldIsLoadable'
<1> SUFFICES ASSUME IInv, Next, keep' # 1
             PROVE  /\ tracker'.state_dict # 0 => Loadable(tracker.state_dict)'
                    /\ scan'.version # 0 => Loadable(scan.version)'
                    /\ explorer'.loading # 0 => Loadable(explorer.loading)'
    BY DEF HeldIsLoadable
<1>0. TypeInv /\ HeldIsLoadable /\ ScanFits
    BY DEF IInv
<1>n. /\ crashes \in Nat /\ tracker.state_dict \in Nat
      /\ tracker.state_dict # 0 => tracker.state_dict \in Step
      /\ scan.version # 0 => scan.version \in Step
      /\ explorer.loading # 0 => explorer.loading \in Step
    <2>1. /\ tracker.state_dict \in 0 .. MaxStep /\ scan.version \in 0 .. MaxStep
          /\ explorer.loading \in 0 .. MaxStep
        BY <1>0, Types DEF TypeInv
    <2>2. \A v \in 0 .. MaxStep : v # 0 => v \in Step
        BY Bounds DEF Step
    <2> QED BY <1>0, <2>1, <2>2, Numbers
<1>1. CASE Crash
    <2>1. /\ crashes' = crashes + 1 /\ tracker' = tracker /\ dir' = dir /\ keep' = keep
          /\ scan'.version = 0 /\ explorer'.loading = 0
        BY <1>0, <1>1, DoesCrash
    <2> QED BY <1>0, <2>1 DEF HeldIsLoadable, Loadable, Written
<1>2. CASE ~Crash
    <2>1. keep' = keep /\ crashes' = crashes /\ keep # 1
        BY <1>0, <1>2, Alive
    <2>2. ASSUME NEW v \in Step, Holds(v), Loadable(v) PROVE Loadable(v)'
        BY <1>2, <2>1, <2>2, LoadableStays
    <2>3. tracker.state_dict # 0 /\ tracker'.state_dict = tracker.state_dict =>
              Loadable(tracker.state_dict)'
        <3> SUFFICES ASSUME tracker.state_dict # 0, tracker'.state_dict = tracker.state_dict
                     PROVE  Loadable(tracker.state_dict)'
            OBVIOUS
        <3>1. PICK v \in Step : v = tracker.state_dict
            BY <1>n
        <3>2. Loadable(v) /\ Holds(v)
            BY <1>0, <1>n, <2>1, <3>1 DEF HeldIsLoadable, Holds
        <3>3. Loadable(v)'
            BY <2>2, <3>2
        <3> QED BY <3>1, <3>3 DEF Loadable, Written
    <2>4. tracker'.state_dict # 0 => Loadable(tracker.state_dict)'
        <3>1. CASE tracker'.state_dict = tracker.state_dict
            BY <2>3, <3>1
        <3>2. CASE tracker'.state_dict # tracker.state_dict
            <4>1. monitor'.latest_state_dict # monitor.latest_state_dict
                <5>1. /\ tracker'.state_dict > monitor.latest_state_dict
                      /\ monitor'.latest_state_dict = tracker'.state_dict
                    BY <1>2, <3>2, Forward
                <5>2. monitor.latest_state_dict \in Nat
                    BY <1>0, Numbers
                <5> QED BY <5>1, <5>2
            <4>2. /\ tracker'.state_dict \in Step
                  /\ \/ dir'[tracker'.state_dict].state_dict
                     \/ dir'[tracker'.state_dict].checkpoint = "complete"
                BY <1>2, <2>1, <4>1, PublishedReadable
            <4> QED BY <4>2 DEF Loadable, Written
        <3> QED BY <3>1, <3>2
    <2>5. scan.version # 0 => Loadable(scan.version) /\ Holds(scan.version)
        BY <1>0, <2>1 DEF HeldIsLoadable, Holds, ScanFits
    <2>6. explorer.loading # 0 => Loadable(explorer.loading) /\ Holds(explorer.loading)
        BY <1>0, <2>1 DEF HeldIsLoadable, Holds, ScanFits
    <2>7. \/ scan' = scan
          \/ /\ tracker'.state_dict = tracker.state_dict
             /\ scan'.version \in {scan.version, tracker.state_dict}
        <3>1. CASE ScanStep
            BY <1>0, <3>1, DoesScan DEF ScanStep
        <3>2. CASE ~ScanStep
            BY <1>2, <3>2 DEF Next, ScanStep, TrainStep, EndLoop, TrainerStep, SaveStateDict,
               RegisterStateDict, MonitorStateDict, SaveCheckpoint, CheckpointStarts,
               CheckpointWritten, RetainCheckpoints, RegisterCheckpoint, MonitorCheckpoint,
               WaitForSave, ThreadStep, ThreadStarts, ThreadRenames, ThreadFinishes, ThreadFails,
               LoadStarts, LoadEnds
        <3> QED BY <3>1, <3>2
    <2>8. \/ explorer' = explorer
          \/ explorer'.loading \in {0, scan.version}
        <3>1. CASE LoadStep
            BY <1>0, <3>1, DoesLoad DEF LoadStep
        <3>2. CASE ~LoadStep
            BY <1>2, <3>2 DEF Next, LoadStep, TrainStep, EndLoop, TrainerStep, SaveStateDict,
               RegisterStateDict, MonitorStateDict, SaveCheckpoint, CheckpointStarts,
               CheckpointWritten, RetainCheckpoints, RegisterCheckpoint, MonitorCheckpoint,
               WaitForSave, ThreadStep, ThreadStarts, ThreadRenames, ThreadFinishes, ThreadFails,
               ScanFinds, ScanRemoves
        <3> QED BY <3>1, <3>2
    <2>9. ASSUME NEW v \in Step, v = scan.version \/ v = explorer.loading PROVE Loadable(v)'
        BY <1>n, <2>2, <2>5, <2>6, <2>9, Bounds DEF Step
    <2>10. scan'.version # 0 => Loadable(scan.version)'
        <3> SUFFICES ASSUME scan'.version # 0 PROVE Loadable(scan.version)'
            OBVIOUS
        <3>1. CASE scan'.version = scan.version
            <4>1. PICK v \in Step : v = scan.version
                BY <1>n, <3>1
            <4>2. Loadable(v)'
                BY <2>9, <4>1
            <4> QED BY <3>1, <4>1, <4>2 DEF Loadable, Written
        <3>2. CASE tracker'.state_dict = tracker.state_dict /\ scan'.version = tracker.state_dict
            BY <2>3, <3>2 DEF Loadable, Written
        <3> QED BY <2>7, <3>1, <3>2
    <2>11. explorer'.loading # 0 => Loadable(explorer.loading)'
        <3> SUFFICES ASSUME explorer'.loading # 0 PROVE Loadable(explorer.loading)'
            OBVIOUS
        <3>1. explorer'.loading \in {explorer.loading, scan.version}
            BY <2>8
        <3>2. PICK v \in Step : v = explorer'.loading
            BY <1>n, <3>1
        <3>3. Loadable(v)'
            BY <2>9, <3>1, <3>2
        <3> QED BY <3>2, <3>3 DEF Loadable, Written
    <2> QED BY <2>4, <2>10, <2>11
<1> QED BY <1>1, <1>2

-----------------------------------------------------------------------------
(* The theorems.                                                           *)

LEMMA Inductive == IInv /\ [Next]_vars => IInv'
<1>1. IInv /\ UNCHANGED vars => IInv'
    <2> SUFFICES ASSUME IInv, UNCHANGED vars PROVE IInv'
        OBVIOUS
    <2>1. TypeInv'
        BY TypeStep DEF IInv
    <2>2. StepsFit' /\ CountsFit' /\ TrackerFits' /\ JobFits'
        BY DEF vars, config, IInv, StepsFit, CountsFit, TrackerFits, JobFits
    <2>3. PathsFit' /\ CheckpointOnDisk' /\ StateDictOnDisk' /\ ScanFits'
        BY DEF vars, config, IInv, PathsFit, CheckpointOnDisk, Written, StateDictOnDisk, ScanFits
    <2>4. Survives' /\ HeldIsLoadable'
        BY DEF vars, config, IInv, Survives, HeldIsLoadable, Loadable, Written
    <2> QED BY <2>1, <2>2, <2>3, <2>4 DEF IInv
<1>2. IInv /\ Next => TypeInv'
    BY TypeStep DEF IInv
<1>3. IInv /\ Next => StepsFit' /\ CountsFit' /\ TrackerFits' /\ JobFits'
    BY StepsKept, CountsKept, TrackerKept, JobKept
<1>4. IInv /\ Next => PathsFit' /\ CheckpointOnDisk' /\ StateDictOnDisk' /\ ScanFits'
    BY PathsKept, CheckpointDiskKept, StateDictDiskKept, ScanKept
<1>5. IInv /\ Next => Survives' /\ HeldIsLoadable'
    BY SurvivesKept, HeldKept
<1> QED BY <1>1, <1>2, <1>3, <1>4, <1>5 DEF IInv

LEMMA Invariance == Spec => []IInv
BY InitIInv, Inductive, PTL DEF Spec

LEMMA OnlyForwardStep ==
    IInv /\ [Next]_vars =>
        [/\ keep # 1 => tracker'.checkpoint >= tracker.checkpoint
         /\ tracker'.state_dict < tracker.state_dict =>
               crashes > 0 /\ monitor.latest_state_dict = 0]_vars
<1> SUFFICES ASSUME IInv, Next
             PROVE  /\ keep # 1 => tracker'.checkpoint >= tracker.checkpoint
                    /\ tracker'.state_dict < tracker.state_dict =>
                          crashes > 0 /\ monitor.latest_state_dict = 0
    BY DEF vars, config
<1>0. TypeInv /\ TrackerFits /\ JobFits
    BY DEF IInv
<1>1. /\ tracker.checkpoint \in Nat /\ tracker.state_dict \in Nat
      /\ monitor.latest_checkpoint \in Nat /\ monitor.latest_state_dict \in Nat
      /\ trainer.step \in Nat /\ thread.step \in Nat
    BY <1>0, Numbers
<1>2. CASE Crash
    BY <1>0, <1>1, <1>2, DoesCrash
<1>3. CASE ~Crash
    <2>1. tracker'.state_dict < tracker.state_dict => crashes > 0 /\ monitor.latest_state_dict = 0
        <3>1. \/ tracker'.state_dict = tracker.state_dict
              \/ tracker'.state_dict > monitor.latest_state_dict
            BY <1>3, Forward
        <3>2. tracker'.state_dict \in Nat
            BY <1>3, Forward
        <3> QED BY <1>0, <1>1, <3>1, <3>2 DEF TrackerFits
    <2>2. ASSUME keep # 1, NEW s \in Step, Published(monitor, tracker, monitor', tracker', s),
                 s = trainer.step \/ (s = thread.step /\ thread.pc # "none")
          PROVE  tracker'.checkpoint >= tracker.checkpoint
        <3>1. \/ tracker'.checkpoint = tracker.checkpoint
              \/ s > monitor.latest_checkpoint /\ tracker'.checkpoint = s
            BY <2>2 DEF Published
        <3>2. /\ tracker.checkpoint <= trainer.step
              /\ monitor.latest_checkpoint = 0 /\ thread.pc # "none" =>
                     tracker.checkpoint <= thread.step
            BY <1>0, <2>2 DEF JobFits
        <3>3. monitor.latest_checkpoint = tracker.checkpoint \/ monitor.latest_checkpoint = 0
            BY <1>0 DEF TrackerFits
        <3> QED BY <1>1, <2>2, <3>1, <3>2, <3>3
    <2>3. keep # 1 => tracker'.checkpoint >= tracker.checkpoint
        <3> SUFFICES ASSUME keep # 1 PROVE tracker'.checkpoint >= tracker.checkpoint
            OBVIOUS
        <3>1. CASE NothingPublished
            BY <1>1, <3>1 DEF NothingPublished
        <3>2. CASE MonitorStateDict
            BY <1>0, <1>1, <3>2, DoesMonitorStateDict
        <3>3. CASE CheckpointWritten
            BY <1>0, <2>2, <3>3, DoesCheckpointWritten
        <3>4. CASE MonitorCheckpoint
            BY <1>0, <2>2, <3>4, DoesMonitorCheckpoint
        <3>5. CASE ThreadFinishes
            BY <1>0, <2>2, <3>5, DoesThreadFinish
        <3> QED BY <1>0, <1>3, <3>1, <3>2, <3>3, <3>4, <3>5, Alive
    <2> QED BY <2>1, <2>3
<1> QED BY <1>2, <1>3

\* What is published is never taken back, whatever order the savers finish in and
\* wherever the job dies: a restart goes on from the checkpoint that the tracker names,
\* so no job publishes an older one.
THEOREM OnlyForward == Spec => PublishedOnlyForward
<1>1. Spec => [][Next]_vars
    BY PTL DEF Spec
<1> QED BY <1>1, Invariance, OnlyForwardStep, PTL DEF PublishedOnlyForward

\* The checkpoint to restart from was written to its end and is there at every moment,
\* however often the job dies.  The moment it is written again is not excluded: the
\* last save, and the first after a resume, overwrite it in place.
THEOREM CheckpointIsComplete == Spec => []CheckpointSurvives
<1>1. IInv => CheckpointSurvives
    BY DEF IInv, Survives, Written, CheckpointSurvives
<1> QED BY <1>1, Invariance, PTL

\* What an explorer loads is complete on disk, or being written again, or the trainer
\* has already published something newer.
THEOREM WeightsAreLoadable == Spec => []LoadableUnlessOvertaken
<1>1. IInv => LoadableUnlessOvertaken
    <2> SUFFICES ASSUME IInv, explorer.loading # 0, keep # 1
                 PROVE  \/ Readable(explorer.loading)
                        \/ tracker.state_dict > explorer.loading
                        \/ dir[explorer.loading].checkpoint = "rewriting"
        BY DEF LoadableUnlessOvertaken
    <2>1. Loadable(explorer.loading)
        BY DEF IInv, HeldIsLoadable
    <2>2. explorer.loading \in Step
        <3>1. explorer.loading \in 0 .. MaxStep
            BY Types DEF IInv, TypeInv
        <3> QED BY <3>1, Bounds DEF Step
    <2> QED BY <2>1, <2>2 DEF Loadable, Written, Readable
<1> QED BY <1>1, Invariance, PTL

=============================================================================

------------------------------- MODULE NcclSync -------------------------------
(***************************************************************************)
(* Weight synchronisation over NCCL: Synchronizer.ready_to_nccl_sync       *)
(* (trinity/manager/synchronizer.py), where one trainer and one explorer   *)
(* meet before the broadcast of the weights, with the loops of             *)
(* trinity/trainer/trainer.py and trinity/explorer/explorer.py that call   *)
(* it.  The synchronizer is an asyncio actor: an action is what one call   *)
(* does between two points where it may be suspended, which are the        *)
(* acquisition of _ready_condition and the waits on it.                    *)
(*                                                                         *)
(* WeightPull models the other methods of the same class with trainer and  *)
(* explorer of its own: what both have carries a prefix here, so that one  *)
(* module can extend the two.                                              *)
(***************************************************************************)
EXTENDS Integers

CONSTANTS
    NcclStyles,    \* sync_style, one of these
    MaxTrainSteps, \* train steps
    MaxSyncs,      \* synchronisations the explorer asks for
    Timeouts       \* whether sync_timeout may run out, one of these

ASSUME NcclSyncAssumption ==
    /\ NcclStyles \subseteq {"fixed", "explorer_driven", "trainer_driven", "fully_async"}
    /\ MaxTrainSteps \in Nat /\ MaxSyncs \in Nat
    /\ Timeouts \subseteq BOOLEAN

VARIABLES
    trainer_status,         \* as the synchronizer knows it
    explorer_status_counts, \* status -> explorers in it; the asserts watch over its signs
    model_version,
    waiters,                \* callers that wait on _ready_condition, not yet notified
    nccl_trainer,           \* where the trainer stands, and its train_step_num
    caller,                 \* where sync_weight and the watcher of the explorer stand
    nccl_explorer,          \* the version it reports, and that of the weights it holds
    main,                   \* the loop of the explorer
    started,                \* the launcher saw the first synchronisation
    syncs,                  \* synchronisations the explorer asked for
    style,                  \* sync_style
    nccl_timeouts           \* whether sync_timeout may run out

synchronizerVars == <<trainer_status, explorer_status_counts, model_version, waiters>>
loopVars == <<started, syncs, style, nccl_timeouts>>
ncclVars == <<synchronizerVars, nccl_trainer, caller, nccl_explorer, main, loopVars>>

Status == {"RUNNING", "REQUIRE_SYNC", "STOPPED"}
Calling == {"call", "lock", "waiting", "collective"}
NcclCallers == {"main", "watcher"} \* the watcher is there in fully_async

\* Both sides are prepared, and the launcher makes them synchronise once.
NcclInit ==
    /\ trainer_status = "RUNNING"
    /\ explorer_status_counts = [s \in Status |-> IF s = "RUNNING" THEN 1 ELSE 0]
    /\ model_version = 0
    /\ waiters = {}
    /\ nccl_trainer = [pc |-> "call", step |-> 0]
    /\ caller = [c \in NcclCallers |-> IF c = "main" THEN "call" ELSE "idle"]
    /\ nccl_explorer = [version |-> -1, weights |-> -1]
    /\ main = "running"
    /\ started = FALSE
    /\ syncs = 0
    /\ style \in NcclStyles
    /\ nccl_timeouts \in Timeouts

CountedExplorers == explorer_status_counts["RUNNING"] + explorer_status_counts["REQUIRE_SYNC"]
                        + explorer_status_counts["STOPPED"]
AllStopped == explorer_status_counts["RUNNING"] + explorer_status_counts["REQUIRE_SYNC"] = 0

Valid(old) == explorer_status_counts[old] > 0

\* set_explorer_status(new, old): the assertion on the old count fails after
\* the count has been lowered.
SetExplorerStatus(new, old) ==
    explorer_status_counts' =
        IF Valid(old) THEN [explorer_status_counts EXCEPT ![old] = @ - 1, ![new] = @ + 1]
                      ELSE [explorer_status_counts EXCEPT ![old] = @ - 1]

NcclTrainerAt(pc) == nccl_trainer' = [nccl_trainer EXCEPT !.pc = pc]
CallerAt(c, pc) == caller' = [caller EXCEPT ![c] = pc]

\* An exception ends the loop of the explorer, and STOPPED is not reported; the
\* watcher logs it and goes on.
CallerRaises(c) ==
    /\ CallerAt(c, "idle")
    /\ main' = IF c = "main" THEN "dead" ELSE main

-----------------------------------------------------------------------------
(* The trainer's side of ready_to_nccl_sync.                               *)

\* The version that the explorer is to report; the variant counts ahead.
VersionAhead == nccl_trainer.step + 1

NewVersion == nccl_trainer.step

TrainerFails == trainer_status' = "RUNNING" /\ NcclTrainerAt("idle")

\* The explorer is there, or has stopped.
ExplorerArrived ==
    explorer_status_counts["REQUIRE_SYNC"] + explorer_status_counts["STOPPED"] = 1

\* The assertion and the count of explorers, before the lock is taken.  An
\* exception ends the training loop.
TrainerCalls ==
    /\ nccl_trainer.pc = "call"
    /\ \/ CountedExplorers # 1 /\ NcclTrainerAt("ending") /\ UNCHANGED trainer_status
       \/ CountedExplorers = 1 /\ AllStopped /\ TrainerFails
       \/ CountedExplorers = 1 /\ ~AllStopped /\ NcclTrainerAt("lock") /\ UNCHANGED trainer_status
    /\ UNCHANGED <<explorer_status_counts, model_version, waiters, caller, nccl_explorer, main,
                   loopVars>>

\* The explorer is there: it goes back to RUNNING on its behalf.
TrainerMeets ==
    /\ SetExplorerStatus("RUNNING", "REQUIRE_SYNC")
    /\ NcclTrainerAt(IF Valid("REQUIRE_SYNC") THEN "collective" ELSE "ending")

TrainerRequires ==
    /\ nccl_trainer.pc = "lock"
    /\ model_version' = NewVersion
    /\ IF explorer_status_counts["REQUIRE_SYNC"] = 1
       THEN /\ trainer_status' = "REQUIRE_SYNC"
            /\ waiters' = {}
            /\ TrainerMeets
       ELSE IF ExplorerArrived
       THEN waiters' = {} /\ TrainerFails /\ UNCHANGED explorer_status_counts
       ELSE /\ trainer_status' = "REQUIRE_SYNC"
            /\ waiters' = {"trainer"}
            /\ NcclTrainerAt("waiting")
            /\ UNCHANGED explorer_status_counts
    /\ UNCHANGED <<caller, nccl_explorer, main, loopVars>>

\* Notified, the trainer looks again.
TrainerWakes ==
    /\ nccl_trainer.pc = "waiting" /\ "trainer" \notin waiters
    /\ IF ~ExplorerArrived
       THEN /\ waiters' = waiters \cup {"trainer"}
            /\ UNCHANGED <<trainer_status, explorer_status_counts, nccl_trainer>>
       ELSE /\ UNCHANGED waiters
            /\ IF explorer_status_counts["STOPPED"] = 1
               THEN TrainerFails /\ UNCHANGED explorer_status_counts
               ELSE TrainerMeets /\ UNCHANGED trainer_status
    /\ UNCHANGED <<model_version, caller, nccl_explorer, main, loopVars>>

TrainerTimesOut ==
    /\ nccl_timeouts
    /\ nccl_trainer.pc = "waiting"
    /\ TrainerFails
    /\ waiters' = waiters \ {"trainer"}
    /\ UNCHANGED <<explorer_status_counts, model_version, caller, nccl_explorer, main, loopVars>>

-----------------------------------------------------------------------------
(* The explorer's side of ready_to_nccl_sync.                              *)

\* sync_failed, with the count of REQUIRE_SYNC as it is in this step.
CallerFails(c) ==
    /\ SetExplorerStatus("RUNNING", "REQUIRE_SYNC")
    /\ IF Valid("REQUIRE_SYNC") THEN CallerAt(c, "idle") /\ UNCHANGED main ELSE CallerRaises(c)

ExplorerCalls(c) ==
    /\ caller[c] = "call"
    /\ \/ CountedExplorers # 1 /\ CallerRaises(c) /\ UNCHANGED explorer_status_counts
       \/ CountedExplorers = 1 /\ AllStopped /\ CallerFails(c)
       \/ /\ CountedExplorers = 1 /\ ~AllStopped
          /\ CallerAt(c, "lock")
          /\ UNCHANGED <<explorer_status_counts, main>>
    /\ UNCHANGED <<trainer_status, model_version, waiters, nccl_trainer, nccl_explorer, loopVars>>

\* The trainer asks for the synchronisation; the variant takes any change of
\* its status for that.
TrainerAnswered == trainer_status # "RUNNING"

TrainerReady == trainer_status = "REQUIRE_SYNC"

\* The trainer is there: it goes back to RUNNING on its behalf.  The variant
\* leaves its status alone.
KeepTrainer == UNCHANGED trainer_status

ResetTrainer == trainer_status' = "RUNNING"

CallerMeets(c) ==
    /\ ResetTrainer
    /\ CallerAt(c, "collective")
    /\ nccl_explorer' = [nccl_explorer EXCEPT !.version = model_version]
    /\ UNCHANGED main

ExplorerRequires(c) ==
    /\ caller[c] = "lock"
    /\ \/ /\ ~Valid("RUNNING")
          /\ SetExplorerStatus("REQUIRE_SYNC", "RUNNING")
          /\ CallerRaises(c)
          /\ UNCHANGED <<waiters, trainer_status, nccl_explorer>>
       \/ /\ Valid("RUNNING") /\ TrainerReady
          /\ SetExplorerStatus("REQUIRE_SYNC", "RUNNING")
          /\ waiters' = {}
          /\ CallerMeets(c)
       \/ \* The failure takes the new status back.
          /\ Valid("RUNNING") /\ trainer_status = "STOPPED"
          /\ waiters' = {}
          /\ CallerAt(c, "idle")
          /\ UNCHANGED <<explorer_status_counts, trainer_status, nccl_explorer, main>>
       \/ /\ Valid("RUNNING") /\ trainer_status = "RUNNING"
          /\ SetExplorerStatus("REQUIRE_SYNC", "RUNNING")
          /\ waiters' = {c}
          /\ CallerAt(c, "waiting")
          /\ UNCHANGED <<trainer_status, nccl_explorer, main>>
    /\ UNCHANGED <<model_version, nccl_trainer, loopVars>>

ExplorerWakes(c) ==
    /\ caller[c] = "waiting" /\ c \notin waiters
    /\ \/ /\ trainer_status = "RUNNING"
          /\ waiters' = waiters \cup {c}
          /\ UNCHANGED <<trainer_status, explorer_status_counts, caller, nccl_explorer, main>>
       \/ /\ TrainerReady
          /\ CallerMeets(c)
          /\ UNCHANGED <<waiters, explorer_status_counts>>
       \/ /\ trainer_status = "STOPPED"
          /\ CallerFails(c)
          /\ UNCHANGED <<waiters, trainer_status, nccl_explorer>>
    /\ UNCHANGED <<model_version, nccl_trainer, loopVars>>

ExplorerTimesOut(c) ==
    /\ nccl_timeouts
    /\ caller[c] = "waiting"
    /\ CallerFails(c)
    /\ waiters' = waiters \ {c}
    /\ UNCHANGED <<trainer_status, model_version, nccl_trainer, nccl_explorer, loopVars>>

-----------------------------------------------------------------------------
(* The broadcast: both sides take part, or the one that does gives up.     *)

Transfer(c) ==
    /\ nccl_trainer.pc = "collective" /\ caller[c] = "collective"
    /\ NcclTrainerAt("idle")
    /\ CallerAt(c, "idle")
    /\ nccl_explorer' = [nccl_explorer EXCEPT !.weights = nccl_trainer.step]
    /\ UNCHANGED <<synchronizerVars, main, loopVars>>

\* The trainer logs the failure and continues.
TrainerTransferFails ==
    /\ nccl_trainer.pc = "collective" /\ \A c \in NcclCallers : caller[c] # "collective"
    /\ nccl_timeouts \/ main \in {"stopped", "dead"}
    /\ NcclTrainerAt("idle")
    /\ UNCHANGED <<synchronizerVars, caller, nccl_explorer, main, loopVars>>

ExplorerTransferFails(c) ==
    /\ caller[c] = "collective" /\ nccl_trainer.pc # "collective"
    /\ nccl_timeouts
    /\ CallerRaises(c)
    /\ UNCHANGED <<synchronizerVars, nccl_trainer, nccl_explorer, loopVars>>

-----------------------------------------------------------------------------
(* The launcher and the loops of the two sides.                            *)

Start ==
    /\ ~started /\ main = "running" /\ nccl_trainer.pc = "idle" /\ caller["main"] = "idle"
    /\ started' = TRUE
    /\ UNCHANGED <<synchronizerVars, nccl_trainer, caller, nccl_explorer, main, syncs, style,
                   nccl_timeouts>>

\* A train step, with an interval of one step between synchronisations, unless
\* it is the explorer that asks for them.
NcclTrainStep ==
    /\ started /\ nccl_trainer.pc = "idle" /\ nccl_trainer.step < MaxTrainSteps
    /\ nccl_trainer' = [pc |-> IF style = "explorer_driven" THEN "idle" ELSE "call",
                        step |-> nccl_trainer.step + 1]
    /\ UNCHANGED <<synchronizerVars, caller, nccl_explorer, main, loopVars>>

\* need_sync of explorer_driven, while sampling and after a train step.
TrainerPolls ==
    /\ started /\ nccl_trainer.pc = "idle" /\ style = "explorer_driven"
    /\ explorer_status_counts["REQUIRE_SYNC"] > 0
    /\ NcclTrainerAt("call")
    /\ UNCHANGED <<synchronizerVars, caller, nccl_explorer, main, loopVars>>

\* The training loop is over: no more samples, its last step, or an exception.
TrainerStops ==
    /\ started /\ nccl_trainer.pc \in {"idle", "ending"}
    /\ trainer_status' = "STOPPED"
    /\ waiters' = {}
    /\ NcclTrainerAt("stopped")
    /\ UNCHANGED <<explorer_status_counts, model_version, caller, nccl_explorer, main, loopVars>>

\* The explorer is due to synchronise; in trainer_driven only if the trainer
\* asks for it.  The watcher polls for that from the preparation on.
ExplorerSyncs(c) ==
    /\ main = "running" /\ caller[c] = "idle" /\ syncs < MaxSyncs
    /\ IF c = "main" THEN started /\ style # "fully_async" ELSE style = "fully_async"
    /\ style \in {"trainer_driven", "fully_async"} => trainer_status = "REQUIRE_SYNC"
    /\ CallerAt(c, "call")
    /\ syncs' = syncs + 1
    /\ UNCHANGED <<synchronizerVars, nccl_trainer, nccl_explorer, main, started, style,
                   nccl_timeouts>>

\* No more tasks: STOPPED is counted first and announced under the lock.  The
\* watcher may be anywhere by then.
ExplorerStops ==
    /\ started /\ main = "running" /\ caller["main"] = "idle"
    /\ SetExplorerStatus("STOPPED", "RUNNING")
    /\ main' = IF Valid("RUNNING") THEN "notify" ELSE "dead"
    /\ UNCHANGED <<trainer_status, model_version, waiters, nccl_trainer, caller, nccl_explorer,
                   loopVars>>

\* The variant does not wake anyone.
NotifyNoOne == UNCHANGED waiters

NotifyWaiters == waiters' = {}

ExplorerNotifies ==
    /\ main = "notify"
    /\ NotifyWaiters
    /\ main' = "stopped"
    /\ UNCHANGED <<trainer_status, explorer_status_counts, model_version, nccl_trainer, caller,
                   nccl_explorer, loopVars>>

\* shutdown: the watcher is cancelled and the models go away.  A call that is
\* still with the synchronizer runs on, for nobody.
ExplorerShutdown ==
    /\ main = "stopped" /\ caller["watcher"] \in {"idle", "collective"}
    /\ CallerAt("watcher", "gone")
    /\ UNCHANGED <<synchronizerVars, nccl_trainer, nccl_explorer, main, loopVars>>

-----------------------------------------------------------------------------
ExplorerStep(c) ==
    \/ ExplorerCalls(c) \/ ExplorerRequires(c) \/ ExplorerWakes(c) \/ ExplorerTimesOut(c)
    \/ Transfer(c) \/ ExplorerTransferFails(c) \/ ExplorerSyncs(c)

NcclNext ==
    \/ TrainerCalls \/ TrainerRequires \/ TrainerWakes \/ TrainerTimesOut \/ TrainerTransferFails
    \/ Start \/ NcclTrainStep \/ TrainerPolls \/ TrainerStops
    \/ ExplorerStops \/ ExplorerNotifies \/ ExplorerShutdown
    \/ \E c \in NcclCallers : ExplorerStep(c)

NcclSpec == NcclInit /\ [][NcclNext]_ncclVars

\* The event loop of the synchronizer runs every call that can go on.  Nothing
\* is assumed of sync_timeout, of the training or of the exploration.
FairSpec ==
    /\ NcclSpec
    /\ WF_ncclVars(TrainerCalls) /\ WF_ncclVars(TrainerRequires) /\ WF_ncclVars(TrainerWakes)
    /\ WF_ncclVars(ExplorerNotifies)
    /\ \A c \in NcclCallers :
           /\ WF_ncclVars(ExplorerCalls(c)) /\ WF_ncclVars(ExplorerRequires(c))
           /\ WF_ncclVars(ExplorerWakes(c))

-----------------------------------------------------------------------------
(* Properties.                                                             *)

\* The statuses and positions of the two sides keep their types.
NcclTypeOK ==
    /\ trainer_status \in Status
    /\ explorer_status_counts \in [Status -> Int]
    /\ model_version \in 0 .. MaxTrainSteps
    /\ waiters \subseteq {"trainer"} \cup NcclCallers
    /\ nccl_trainer \in [pc : {"idle", "ending", "stopped"} \cup Calling, step : 0 .. MaxTrainSteps]
    /\ caller \in [NcclCallers -> {"idle", "gone"} \cup Calling]
    /\ nccl_explorer \in [version : -1 .. MaxTrainSteps, weights : -1 .. MaxTrainSteps]
    /\ main \in {"running", "notify", "stopped", "dead"}
    /\ started \in BOOLEAN
    /\ syncs \in 0 .. MaxSyncs
    /\ style \in NcclStyles
    /\ nccl_timeouts \in Timeouts

\* The explorer has one caller, and sync_timeout does not run out.  Neither is
\* a matter of convenience: a timeout can meet a late answer, and the watcher
\* of fully_async can still be in a call when the loop ends.
Calm == style # "fully_async" /\ ~nccl_timeouts

\* The transfer begins only when both sides are ready: a side that takes part
\* finds the other one there, or about to learn that it may come.
Handshake == Calm =>
    /\ nccl_trainer.pc = "collective" =>
           \/ \E c \in NcclCallers : caller[c] = "collective"
           \/ trainer_status = "REQUIRE_SYNC" /\ \E c \in NcclCallers : caller[c] = "waiting"
    /\ \A c \in NcclCallers : caller[c] = "collective" =>
           \/ nccl_trainer.pc = "collective"
           \/ nccl_trainer.pc = "waiting" /\ explorer_status_counts["REQUIRE_SYNC"] = 1

\* The explorer holds the weights of the version it reports whenever it is not
\* in the middle of a transfer, and they are never newer than the trainer's.
VersionIsLoaded ==
    Calm /\ (\A c \in NcclCallers : caller[c] # "collective") =>
        nccl_explorer.weights = nccl_explorer.version /\ nccl_explorer.version <= nccl_trainer.step

\* Between calls nobody is left in REQUIRE_SYNC.
BothReturnToRunning ==
    /\ Calm /\ nccl_trainer.pc \in {"idle", "call"}
    /\ \A c \in NcclCallers : caller[c] \in {"idle", "call"}
    => trainer_status = "RUNNING" /\ explorer_status_counts["REQUIRE_SYNC"] = 0

\* The one explorer is in one status.
OneExplorer ==
    Calm => CountedExplorers = 1 /\ \A s \in Status : explorer_status_counts[s] >= 0

\* A trainer that stopped stays stopped: the explorer never waits for it again.
StoppedIsFinal == [][trainer_status = "STOPPED" => trainer_status' = "STOPPED"]_ncclVars

\* A side that waits is told when the other one stops, without the timeout.
StopIsNoticed ==
    /\ (Calm /\ nccl_trainer.pc = "waiting" /\ main = "stopped") ~> nccl_trainer.pc # "waiting"
    /\ \A c \in NcclCallers :
           (caller[c] = "waiting" /\ nccl_trainer.pc = "stopped") ~> caller[c] # "waiting"
=============================================================================

------------------------------ MODULE RunnerRetry ------------------------------
(***************************************************************************)
(* One runner: RunnerWrapper.run_with_retry of                             *)
(* trinity/explorer/scheduler.py on the side of the scheduler, and the     *)
(* remote calls of run_task in the WorkflowRunner actor of                 *)
(* trinity/explorer/workflow_runner.py on the other.  A call that times    *)
(* out is abandoned, not cancelled: the actor goes on with it beside the   *)
(* next attempt or the next task, and calls in sequential mode share one   *)
(* model wrapper with one history of responses.                            *)
(***************************************************************************)
EXTENDS Integers, Sequences, FiniteSets, FiniteSetsExt

CONSTANT
    Setups   \* what may be configured: see RunnerRetryAssumption

\* mode: explorer.concurrent_mode ("asynchronous" stands for multi-threading too, whose runs
\* are isolated in the same way); history: enable_history of the model; partial:
\* return_partial_tasks; repeat_times of a sub task; retry_times: max_retry_times; tasks: the
\* sub tasks that the scheduler gives to this runner, one after the other.
ASSUME RunnerRetryAssumption ==
    Setups \subseteq [mode : {"sequential", "asynchronous"}, history : BOOLEAN, partial : BOOLEAN,
                      repeat_times : Nat \ {0}, retry_times : Nat, tasks : Nat \ {0}]

VARIABLES
    setup,
    task,     \* the sub task in run_with_retry, or the last one
    attempt,  \* 0 .. setup.retry_times + 1; 0: run_with_retry is not running
    call,     \* the remote call it waits for
    exp_payload, \* of the last attempt that was answered
    result,   \* what run_with_retry returned for each sub task
    calls,    \* remote calls so far: the sub task, whether the actor still works on it,
              \* whether it timed out, where its runs stand and their experiences
    history   \* of the shared model wrapper: the runs whose responses it holds

wrapperVars == <<task, attempt, call, exp_payload, result>>
vars == <<setup, wrapperVars, calls, history>>

Runs == 1 .. setup.repeat_times
Calls == 1 .. Len(calls)
Exps == Nat \X Runs        \* an experience, by the call and the run that it comes from

Sequential == setup.mode = "sequential"

Init ==
    /\ setup \in Setups
    /\ task = 0 /\ attempt = 0 /\ call = 0 /\ exp_payload = {}
    /\ result = <<>>
    /\ calls = <<>> /\ history = {}

--------------------------------------------------------------------------------
(* run_with_retry *)

NewCall(t) ==
    [task |-> t, running |-> TRUE, abandoned |-> FALSE, runs |-> [i \in Runs |-> "new"], exps |-> {}]

\* What is left of a call that has ended.
EndedCall(c) == [NewCall(calls[c].task) EXCEPT !.running = FALSE, !.abandoned = calls[c].abandoned]

\* run_task.remote: a new call in the actor, next to those that still run.
Remote(t) ==
    /\ call' = Len(calls) + 1
    /\ calls' = Append(calls, NewCall(t))

RunWithRetry ==
    /\ attempt = 0 /\ task < setup.tasks
    /\ task' = task + 1
    /\ attempt' = 1 /\ exp_payload' = {}
    /\ Remote(task + 1)
    /\ UNCHANGED <<setup, result, history>>

\* The wrapper turns from its call: that ended, or goes on for nobody.
Leave(abandon) ==
    IF abandon THEN [calls EXCEPT ![call].abandoned = TRUE]
               ELSE [calls EXCEPT ![call] = EndedCall(call)]

Answer(completed, payload) ==
    /\ attempt' = 0 /\ call' = 0 /\ exp_payload' = {}
    /\ result' = Append(result, [completed |-> completed, payload |-> payload])
    /\ UNCHANGED task

\* The end of an attempt with this status and what exp_payload then is.
NextAttempt(completed, payload, abandon) ==
    IF attempt <= setup.retry_times
    THEN /\ call' = Len(calls) + 1
         /\ attempt' = attempt + 1 /\ exp_payload' = payload
         /\ calls' = Append(Leave(abandon), NewCall(task))
         /\ UNCHANGED <<task, result>>
    ELSE /\ Answer(completed, payload)
         /\ calls' = Leave(abandon)

\* run_task answered: enough, partial success that is kept, or another attempt.
Enough(completed) ==
    \/ completed = setup.repeat_times
    \/ setup.partial /\ completed > 0

\* asyncio.TimeoutError: nobody waits for the call any more, and exp_payload is kept.
AttemptTimesOut ==
    /\ attempt > 0
    /\ NextAttempt(0, exp_payload, TRUE)
    /\ UNCHANGED <<setup, history>>

\* Any other exception of the call: the actor has ended it.
AttemptRaises ==
    /\ attempt > 0
    /\ NextAttempt(0, exp_payload, FALSE)
    /\ UNCHANGED <<setup, history>>

\* The scheduler cancels the future, which cancels the remote call.
Cancelled ==
    /\ attempt > 0
    /\ Answer(0, {})
    /\ calls' = Leave(FALSE)
    /\ UNCHANGED <<setup, history>>

--------------------------------------------------------------------------------
(* The calls in the actor. *)

Ended == {"ok", "failed"}
Failed(c) == \E i \in Runs : calls[c].runs[i] = "failed"

\* Without collect_partial_runs the first failure ends the call.
GoesOn(c) == calls[c].running /\ (setup.partial \/ ~Failed(c))

\* Variant: isolated runs get the shared model wrapper.
SharedHistoryAlways == setup.history

\* enable_history without clone_with_isolated_history.
SharedHistory == setup.history /\ Sequential

\* Concurrent runs start together, sequential ones in turn; clean_workflow_state before each
\* run empties the shared history, whoever filled it.
StartRun(c, i) ==
    /\ GoesOn(c) /\ calls[c].runs[i] = "new"
    /\ IF Sequential
       THEN /\ \A j \in 1 .. i - 1 : calls[c].runs[j] \in Ended
            /\ calls' = [calls EXCEPT ![c].runs[i] = "started"]
       ELSE calls' = [calls EXCEPT ![c].runs = [j \in Runs |-> "started"]]
    /\ history' = {}
    /\ UNCHANGED <<setup, wrapperVars>>

\* The model answers a request of the workflow; without a shared history only the run itself
\* sees that.
Respond(c, i) ==
    /\ SharedHistory /\ GoesOn(c) /\ calls[c].runs[i] = "started"
    /\ calls' = [calls EXCEPT ![c].runs[i] = "responded"]
    /\ history' = history \cup {<<c, i>>}
    /\ UNCHANGED <<setup, wrapperVars>>

\* The experiences of a run: of a shared history all that is in it, which is then cleared.
FinishRun(c, i) ==
    /\ GoesOn(c)
    /\ calls[c].runs[i] = IF SharedHistory THEN "responded" ELSE "started"
    /\ calls' = [calls EXCEPT ![c].runs[i] = "ok",
                              ![c].exps = @ \cup (IF SharedHistory THEN history ELSE {<<c, i>>})]
    /\ history' = {}
    /\ UNCHANGED <<setup, wrapperVars>>

FailRun(c, i) ==
    /\ GoesOn(c) /\ calls[c].runs[i] \in {"started", "responded"}
    /\ calls' = [calls EXCEPT ![c].runs[i] = "failed"]
    /\ UNCHANGED <<setup, wrapperVars, history>>

CallEnds(c) ==
    /\ calls[c].running
    /\ \/ \A i \in Runs : calls[c].runs[i] \in Ended
       \/ ~setup.partial /\ Failed(c)

\* "An empty experience is generated": a call without experiences is a failure.
CompletedRuns(c) ==
    IF calls[c].exps = {} THEN 0 ELSE Cardinality({i \in Runs : calls[c].runs[i] = "ok"})

\* Variant: the experiences of every attempt are kept.
RunTaskReturnsAll ==
    /\ attempt > 0 /\ CallEnds(call)
    /\ IF Enough(CompletedRuns(call))
       THEN /\ Answer(CompletedRuns(call), exp_payload \cup calls[call].exps)
            /\ calls' = Leave(FALSE)
       ELSE NextAttempt(CompletedRuns(call), exp_payload \cup calls[call].exps, FALSE)
    /\ UNCHANGED <<setup, history>>

RunTaskReturns ==
    /\ attempt > 0 /\ CallEnds(call)
    /\ IF Enough(CompletedRuns(call))
       THEN /\ Answer(CompletedRuns(call), calls[call].exps)
            /\ calls' = Leave(FALSE)
       ELSE NextAttempt(CompletedRuns(call), calls[call].exps, FALSE)
    /\ UNCHANGED <<setup, history>>

\* Nobody reads the answer of an abandoned call.
AbandonedReturns(c) ==
    /\ c # call /\ CallEnds(c)
    /\ calls' = [calls EXCEPT ![c] = EndedCall(c)]
    /\ UNCHANGED <<setup, wrapperVars, history>>

\* Bound: the actor is not followed beyond the last answer.
Followed == attempt > 0 \/ task < setup.tasks

Done == ~Followed /\ UNCHANGED vars

Next ==
    \/ RunWithRetry \/ AttemptTimesOut \/ AttemptRaises \/ Cancelled \/ RunTaskReturns
    \/ Followed /\ \E c \in Calls : AbandonedReturns(c)
    \/ Followed /\ \E c \in Calls, i \in Runs :
          StartRun(c, i) \/ Respond(c, i) \/ FinishRun(c, i) \/ FailRun(c, i)
    \/ Done

\* The timer of wait_for always expires in the end; nothing is assumed of the actor.
Spec == Init /\ [][Next]_vars /\ WF_vars(AttemptTimesOut)

--------------------------------------------------------------------------------
(* Properties. *)

RunState == {"new", "started", "responded", "ok", "failed"}
Found == SUBSET Exps
CallState ==
    [task : Nat, running : BOOLEAN, abandoned : BOOLEAN, runs : [Runs -> RunState], exps : Found]
Outcome == [completed : 0 .. setup.repeat_times, payload : Found]

TypeOK ==
    /\ setup \in Setups
    /\ task \in 0 .. setup.tasks /\ attempt \in 0 .. setup.retry_times + 1
    /\ calls \in Seq(CallState)
    /\ call \in 0 .. Len(calls) /\ (call = 0 <=> attempt = 0)
    /\ exp_payload \in Found /\ history \in Found
    /\ result \in Seq(Outcome)

\* Two calls that record in one history can be at work at once: a known limit of sequential
\* mode with enable_history after a timeout.
SharesHistory == setup.mode = "sequential" /\ setup.history /\ \E c \in Calls : calls[c].abandoned

\* The experiences of a sub task come from one attempt at that sub task: neither from an
\* abandoned call of an earlier one, which may still be at work, nor from two attempts.
OwnExperiences ==
    \A t \in 1 .. Len(result) : result[t].payload # {} /\ ~SharesHistory =>
        \E c \in Calls : calls[c].task = t /\ result[t].payload \subseteq {c} \X Runs

\* A status and the payload next to it speak of the same runs, although the two are kept
\* apart from attempt to attempt.  Only where partial results are not wanted can a failed
\* status come with the experiences of an attempt before the one that timed out.
StatusFitsPayload ==
    \A t \in 1 .. Len(result) :
        /\ result[t].completed > 0 /\ ~SharesHistory =>
               Cardinality(result[t].payload) = result[t].completed
        /\ result[t].completed = 0 /\ setup.partial => result[t].payload = {}

================================================================================

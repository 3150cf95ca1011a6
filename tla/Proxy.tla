-------------------------------- MODULE Proxy --------------------------------
(***************************************************************************)
(* Mode serve: trinity/explorer/proxy.  Requests of agent applications go  *)
(* to one of the rollout models, the answers are recorded in a database,   *)
(* a feedback takes them out of it, and a commit hands those over to the   *)
(* experience pipeline.  Meanwhile a loop takes one model after the other  *)
(* out of service to load the latest checkpoint.  An action is what one    *)
(* coroutine does between two awaits that may suspend it.                  *)
(***************************************************************************)
EXTENDS Integers, Sequences, SequencesExt, FiniteSets

CONSTANTS
    Models,          \* rollout models
    MinRunning,      \* min_running_model_num
    Requests,        \* chat completions
    Streaming,       \* those that ask for a stream
    MaxFeedbacks,    \* calls of /feedback
    MaxCommits,      \* calls of /commit
    MaxVersion,      \* model versions
    Scenarios        \* what one run of the service may meet

Scenario ==
    [locks : BOOLEAN,     \* the database locks the rows of SELECT ... FOR UPDATE;
                          \* SQLite, the default, does not
     failing : SUBSET {"requests", "models", "database"}, \* parts that may fail
     feedbacks : 0 .. MaxFeedbacks, versions : 0 .. MaxVersion] \* bounds

ASSUME ProxyAssumption ==
    /\ IsFiniteSet(Models) /\ IsFiniteSet(Requests) /\ Streaming \subseteq Requests
    /\ MinRunning \in Nat \ {0} /\ Cardinality(Models) > MinRunning
    /\ MaxFeedbacks \in Nat /\ MaxCommits \in Nat /\ MaxVersion \in Nat
    /\ Scenarios \subseteq Scenario

VARIABLES
    scenario,
    latest,            \* latest_model_version
    running_model_ids, \* the models in rotation
    model_version_map, \* model -> version, -1 while there is no entry
    served,            \* model -> version of the weights it holds
    sync,              \* model -> its _sync_model_weights, and the version it captured
    loop_alive,        \* whether model_weights_sync_loop still runs
    request,           \* chat completion -> where it stands, what it was told
    consumed,          \* request -> column of its row, -1 while there is no row
    feedback,          \* call -> where it stands, the transactions it began, the rows
                       \* it selected, and those it took but cannot hand on
    ready_experiences, \* request -> how many times its experience is in it
    committing,        \* whether a commit holds commit_lock, and its experiences
    commits,
    submitted          \* experiences that the pipeline took, or raised over

modelVars == <<latest, running_model_ids, model_version_map, served, sync, loop_alive>>
recordVars == <<consumed, feedback, ready_experiences>>
commitVars == <<committing, commits, submitted>>
vars == <<scenario, modelVars, request, recordVars, commitVars>>

Version == 0 .. MaxVersion
Feedbacks == 1 .. MaxFeedbacks \* in the order in which they select
Attempts == 2                  \* max_retry_times
Unknown == -1
Idle == [pc |-> "none", version |-> 0]

\* Experiences that are kept in no particular order: how many of each request.
None == [r \in Requests |-> 0]
Plus(a, b) == [r \in Requests |-> a[r] + b[r]]
Once(S) == [r \in Requests |-> IF r \in S THEN 1 ELSE 0]

\* The explorer has loaded one version everywhere before it serves.
Init ==
    /\ scenario \in Scenarios
    /\ latest = 0
    /\ running_model_ids = SetToSeq(Models)
    /\ model_version_map = [m \in Models |-> Unknown]
    /\ served = [m \in Models |-> 0]
    /\ sync = [m \in Models |-> Idle]
    /\ request = [r \in Requests |-> [pc |-> "new"]]
    /\ consumed = [r \in Requests |-> -1]
    /\ loop_alive = TRUE
    /\ feedback = [f \in Feedbacks |->
           [pc |-> "new", attempt |-> 0, asked |-> {}, found |-> {}, lost |-> {}]]
    /\ ready_experiences = None
    /\ committing = [held |-> FALSE, experiences |-> None]
    /\ commits = 0
    /\ submitted = None

-----------------------------------------------------------------------------
(* Requests.                                                               *)

\* Round robin.  A model without an entry in model_version_map fails the
\* request, after it has been rotated.
AllocateModel(r) ==
    /\ request[r].pc = "new" /\ running_model_ids # <<>>
    /\ LET m == Head(running_model_ids)
       IN  request' = [request EXCEPT ![r] =
               IF model_version_map[m] = Unknown
               THEN [pc |-> "failed"]
               ELSE [pc |-> "sent", model |-> m, label |-> model_version_map[m],
                     late |-> FALSE]]
    /\ running_model_ids' = Append(Tail(running_model_ids), Head(running_model_ids))
    /\ UNCHANGED <<scenario, latest, model_version_map, served, sync, loop_alive, recordVars,
                   commitVars>>

\* The model takes the request up.  Since it was allocated, the model may have
\* been found free and begun to load: the request is late.
Arrive(r) ==
    /\ request[r].pc = "sent"
    /\ LET m == request[r].model
       IN  request' = [request EXCEPT
               ![r].pc = "served",
               ![r].late = sync[m].pc \in {"loading", "lost"} \/ model_version_map[m] # request[r].label]
    /\ UNCHANGED <<scenario, modelVars, recordVars, commitVars>>

Finish(r) ==
    /\ request[r].pc = "served"
    /\ request' = [request EXCEPT ![r] =
           [pc |-> "answered", label |-> @.label, late |-> @.late, made |-> served[@.model]]]
    /\ UNCHANGED <<scenario, modelVars, recordVars, commitVars>>

\* inference_timeout, or an error of the model.
RequestFails(r) ==
    /\ "requests" \in scenario.failing /\ request[r].pc \in {"sent", "served"}
    /\ request' = [request EXCEPT ![r] = [pc |-> "failed"]]
    /\ UNCHANGED <<scenario, modelVars, recordVars, commitVars>>

\* record_history commits, or has used up its retries.
RecordExperience(r) ==
    /\ request[r].pc = "answered"
    /\ \/ /\ request' = [request EXCEPT ![r].pc = "recorded"]
          /\ consumed' = [consumed EXCEPT ![r] = 0]
       \/ /\ "database" \in scenario.failing
          /\ request' = [request EXCEPT ![r] = [pc |-> "dropped"]]
          /\ UNCHANGED consumed
    /\ UNCHANGED <<scenario, modelVars, feedback, ready_experiences, commitVars>>

\* The application has the answer.  A stream hands it on as it comes, before
\* it is recorded.
Known(r) ==
    \/ request[r].pc = "recorded"
    \/ request[r].pc \in {"answered", "dropped"} /\ r \in Streaming

-----------------------------------------------------------------------------
(* Feedback and commit.                                                    *)

\* The rows that the SELECT of update_reward returns; the variant takes the
\* consumed ones too.
AnyRow(msg_ids) == {r \in msg_ids : consumed[r] # -1}

Unconsumed(msg_ids) == {r \in msg_ids : consumed[r] = 0}

\* A locking SELECT waits for the transactions that hold one of its rows.
MaySelect(msg_ids) ==
    scenario.locks => \A f \in Feedbacks : feedback[f].pc = "found" => feedback[f].found \cap msg_ids = {}

\* The SELECT of a transaction; one that finds nothing changes nothing.
Select(f, msg_ids) ==
    /\ MaySelect(msg_ids)
    /\ feedback' = [feedback EXCEPT ![f] =
           [pc |-> IF Unconsumed(msg_ids) = {} THEN "done" ELSE "found",
            attempt |-> @.attempt + 1, asked |-> msg_ids, found |-> Unconsumed(msg_ids),
            lost |-> @.lost]]
    /\ UNCHANGED <<scenario, modelVars, request, consumed, ready_experiences, commitVars>>

Feedback(f) ==
    /\ feedback[f].pc = "new" /\ \A g \in 1 .. f - 1 : feedback[g].pc # "new"
    /\ f <= scenario.feedbacks
    /\ \E msg_ids \in (SUBSET {r \in Requests : Known(r)}) \ {{}} : Select(f, msg_ids)

GoesOn(f, pc, found, lost) ==
    feedback' = [feedback EXCEPT ![f] = [pc |-> pc, attempt |-> @.attempt, asked |-> @.asked,
                                         found |-> found, lost |-> lost]]

\* The UPDATE and its commit; update_reward has yet to close the session.
UpdateReward(f) ==
    /\ feedback[f].pc = "found"
    /\ GoesOn(f, "committed", feedback[f].found, feedback[f].lost)
    /\ consumed' = Plus(consumed, Once(feedback[f].found))
    /\ UNCHANGED <<scenario, modelVars, request, ready_experiences, commitVars>>

\* The transaction raises: rolled back, or committed with the answer lost.  The
\* session gives the rows up either way.  (One that raises before or in its
\* SELECT is one that selects later.)
TransactionFails(f) ==
    /\ "database" \in scenario.failing /\ feedback[f].pc = "found"
    /\ \E applied \in BOOLEAN :
           LET taken == IF applied THEN feedback[f].found ELSE {}
           IN  /\ consumed' = Plus(consumed, Once(taken))
               /\ GoesOn(f, IF feedback[f].attempt < Attempts THEN "again" ELSE "failed",
                         {}, feedback[f].lost \cup taken)
    /\ UNCHANGED <<scenario, modelVars, request, ready_experiences, commitVars>>

\* The second attempt begins anew, with the same msg_ids.
RetryFeedback(f) == feedback[f].pc = "again" /\ Select(f, feedback[f].asked)

\* The session closes, and record_feedback extends the list.
RecordFeedback(f) ==
    /\ feedback[f].pc = "committed"
    /\ GoesOn(f, "done", {}, feedback[f].lost)
    /\ ready_experiences' = Plus(ready_experiences, Once(feedback[f].found))
    /\ UNCHANGED <<scenario, modelVars, request, consumed, commitVars>>

\* Closing the session raises, outside the part that is tried again.
CloseFails(f) ==
    /\ "database" \in scenario.failing /\ feedback[f].pc = "committed"
    /\ GoesOn(f, "failed", {}, feedback[f].lost \cup feedback[f].found)
    /\ UNCHANGED <<scenario, modelVars, request, consumed, ready_experiences, commitVars>>

\* submit_experiences takes what is ready along; the variant leaves it there.
LeaveReady == UNCHANGED ready_experiences

ClearReady == ready_experiences' = None

SubmitExperiences ==
    /\ ~committing.held /\ commits < MaxCommits
    /\ committing' = [held |-> TRUE, experiences |-> ready_experiences]
    /\ ClearReady
    /\ commits' = commits + 1
    /\ UNCHANGED <<scenario, modelVars, request, consumed, feedback, submitted>>

\* The pipeline answers or raises; commit_lock is given up either way.
Submitted ==
    /\ committing.held
    /\ committing' = [held |-> FALSE, experiences |-> None]
    /\ submitted' = Plus(submitted, committing.experiences)
    /\ UNCHANGED <<scenario, modelVars, request, recordVars, commits>>

-----------------------------------------------------------------------------
(* Model versions.                                                         *)

\* serve asks the synchronizer for the latest checkpoint.
SetLatestModelVersion ==
    /\ \E version \in 0 .. scenario.versions : version > latest /\ latest' = version
    /\ UNCHANGED <<scenario, running_model_ids, model_version_map, served, sync, loop_alive,
                   request, recordVars, commitVars>>

\* More models in rotation than there must be.
EnoughWithout == Len(running_model_ids) > MinRunning

\* Out of rotation.
LeaveRotation(m) ==
    \E i \in DOMAIN running_model_ids :
        /\ running_model_ids[i] = m
        /\ running_model_ids' = RemoveAt(running_model_ids, i)

\* One turn of model_weights_sync_loop for a model, after it answered.
CheckModel(m) ==
    /\ loop_alive /\ Contains(running_model_ids, m)
    /\ model_version_map' = [model_version_map EXCEPT ![m] = served[m]]
    /\ IF EnoughWithout /\ served[m] < latest
       THEN /\ LeaveRotation(m)
            /\ sync' = [sync EXCEPT ![m] = [pc |-> "draining", version |-> 0]]
       ELSE UNCHANGED <<running_model_ids, sync>>
    /\ UNCHANGED <<scenario, latest, served, loop_alive, request, recordVars, commitVars>>

\* A model in rotation does not answer: the loop raises, and nobody awaits it.
CheckFails ==
    /\ "models" \in scenario.failing /\ loop_alive /\ running_model_ids # <<>>
    /\ loop_alive' = FALSE
    /\ UNCHANGED <<scenario, latest, running_model_ids, model_version_map, served, sync, request,
                   recordVars, commitVars>>

\* The load of a model, as its server reports it: a request on its way to it
\* does not count.  The variant counts none.
AlwaysFree(m) == TRUE

Free(m) == \A r \in Requests : request[r].pc = "served" => request[r].model # m

\* _sync_model_weights: the model is free, and loads the latest version.
Drained(m) ==
    /\ sync[m].pc = "draining" /\ Free(m)
    /\ sync' = [sync EXCEPT ![m] = [pc |-> "loading", version |-> latest]]
    /\ UNCHANGED <<scenario, latest, running_model_ids, model_version_map, served, loop_alive,
                   request, recordVars, commitVars>>

\* It is not free for max_timeout, or does not answer, or the load fails.
\* Nobody awaits the task: the model stays out of rotation.
SyncFails(m) ==
    /\ "models" \in scenario.failing /\ sync[m].pc \in {"draining", "loading"}
    /\ sync' = [sync EXCEPT ![m] = [pc |-> "lost", version |-> 0]]
    /\ \/ UNCHANGED served
       \/ sync[m].pc = "loading" /\ served' = [served EXCEPT ![m] = sync[m].version]
    /\ UNCHANGED <<scenario, latest, running_model_ids, model_version_map, loop_alive, request,
                   recordVars, commitVars>>

\* Back in rotation, at its end; the variant forgets that.
StayOut(m) == UNCHANGED running_model_ids

ComeBack(m) == running_model_ids' = Append(running_model_ids, m)

Loaded(m) ==
    /\ sync[m].pc = "loading"
    /\ served' = [served EXCEPT ![m] = sync[m].version]
    /\ model_version_map' = [model_version_map EXCEPT ![m] = sync[m].version]
    /\ sync' = [sync EXCEPT ![m] = Idle]
    /\ ComeBack(m)
    /\ UNCHANGED <<scenario, latest, loop_alive, request, recordVars, commitVars>>

-----------------------------------------------------------------------------
\* Every call has been made and every version loaded.
Done ==
    /\ \A r \in Requests : request[r].pc \in {"recorded", "dropped", "failed"}
    /\ UNCHANGED vars

RequestStep(r) ==
    \/ AllocateModel(r) \/ Arrive(r) \/ Finish(r) \/ RequestFails(r) \/ RecordExperience(r)

FeedbackStep(f) ==
    \/ Feedback(f) \/ UpdateReward(f) \/ TransactionFails(f) \/ RetryFeedback(f)
    \/ RecordFeedback(f) \/ CloseFails(f)

ModelStep(m) == CheckModel(m) \/ Drained(m) \/ SyncFails(m) \/ Loaded(m)

Next ==
    \/ \E r \in Requests : RequestStep(r)
    \/ \E f \in Feedbacks : FeedbackStep(f)
    \/ SubmitExperiences \/ Submitted
    \/ SetLatestModelVersion \/ CheckFails
    \/ \E m \in Models : ModelStep(m)
    \/ Done

Spec == Init /\ [][Next]_vars

\* The event loop runs the synchronisation loop and its tasks, and a request
\* ends within inference_timeout.  Applications need not do anything.
FairSpec ==
    /\ Spec
    /\ \A m \in Models : WF_vars(CheckModel(m)) /\ WF_vars(Drained(m)) /\ WF_vars(Loaded(m))
    /\ \A r \in Requests : WF_vars(Arrive(r)) /\ WF_vars(Finish(r)) /\ WF_vars(RecordExperience(r))

-----------------------------------------------------------------------------
(* Properties.                                                             *)

RequestState ==
    [pc : {"new", "failed", "dropped"}]
    \cup [pc : {"sent", "served"}, model : Models, label : Version, late : BOOLEAN]
    \cup [pc : {"answered", "recorded"}, label : Version, late : BOOLEAN, made : Version]

FeedbackState ==
    [pc : {"new", "found", "committed", "again", "done", "failed"}, attempt : Nat,
     asked : SUBSET Requests, found : SUBSET Requests, lost : SUBSET Requests]

\* The tables of the service keep their types.
TypeOK ==
    /\ scenario \in Scenario
    /\ latest \in Version
    /\ running_model_ids \in Seq(Models)
    /\ model_version_map \in [Models -> Version \cup {Unknown}]
    /\ served \in [Models -> Version]
    /\ sync \in [Models -> [pc : {"none", "draining", "loading", "lost"}, version : Version]]
    /\ loop_alive \in BOOLEAN
    /\ request \in [Requests -> RequestState]
    /\ consumed \in [Requests -> Int] /\ \A r \in Requests : consumed[r] >= -1
    /\ feedback \in [Feedbacks -> FeedbackState]
    /\ committing \in [held : BOOLEAN, experiences : [Requests -> Nat]]
    /\ {ready_experiences, submitted} \subseteq [Requests -> Nat]

\* The version recorded with an experience is never newer than the weights
\* that made it, and differs from them only if the request reached the model
\* after the model had been found free.
LabelIsTrue ==
    \A r \in Requests : request[r].pc = "recorded" =>
        /\ request[r].label <= request[r].made
        /\ ~request[r].late => request[r].label = request[r].made

\* The calls that have taken the experience of a request and not handed it on:
\* they are about to, or an error has kept them from it.
HeldBy(r) ==
    {f \in Feedbacks :
        \/ feedback[f].pc = "committed" /\ r \in feedback[f].found
        \/ r \in feedback[f].lost}

\* Every experience that a feedback has taken out of the database is in one
\* place, once for each time it was taken: with the call that took it, ready,
\* with a commit, or handed to the pipeline.  It never leaves the call only
\* when the answer to its transaction was lost or its session failed to close.
TakenIsKept ==
    \A r \in Requests :
        Cardinality(HeldBy(r)) + ready_experiences[r] + committing.experiences[r] + submitted[r]
            = IF consumed[r] = -1 THEN 0 ELSE consumed[r]

\* With row locks two feedbacks for one answer take it once.
TakenOnce == scenario.locks => \A r \in Requests : consumed[r] <= 1

\* A new version reaches every model, one after the other, unless one is lost or
\* the synchronisation loop has died.
UpdatesReachAll ==
    \A m \in Models :
        served[m] < latest ~>
            served[m] = latest \/ ~loop_alive \/ \E n \in Models : sync[n].pc = "lost"
=============================================================================

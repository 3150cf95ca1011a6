------------------------------ MODULE ProxyProofs ------------------------------
(***************************************************************************)
(* Proofs about the serving proxy, for any number of models, requests,     *)
(* feedbacks, commits and model versions, with and without row locks.      *)
(***************************************************************************)
EXTENDS Proxy, FiniteSetTheorems, SequenceTheorems, TLAPS

USE DEF modelVars, recordVars, commitVars

-----------------------------------------------------------------------------
(* Types.                                                                  *)

LEMMA ModelsAsSequence ==
    /\ SetToSeq(Models) \in Seq(Models)
    /\ Len(SetToSeq(Models)) = Cardinality(Models)
<1> DEFINE n == Cardinality(Models)
<1>1. n \in Nat /\ ExistsBijection(1 .. n, Models)
    BY FS_CardinalityType, ProxyAssumption
<1>2. \E f \in [1 .. n -> Models] : IsInjective(f)
    BY <1>1 DEF ExistsBijection, Bijection, Injection
<1>3. SetToSeq(Models) \in [1 .. n -> Models]
    BY <1>2 DEF SetToSeq
<1> QED BY <1>1, <1>3

\* What is left of a sequence without one of its elements.
LEMMA RemovedOne ==
    ASSUME NEW s \in Seq(Models), NEW i \in DOMAIN s
    PROVE  RemoveAt(s, i) \in Seq(Models) /\ Len(RemoveAt(s, i)) = Len(s) - 1
<1> DEFINE a == SubSeq(s, 1, i - 1)
           b == SubSeq(s, i + 1, Len(s))
<1>1. i \in 1 .. Len(s) /\ Len(s) \in Nat
    BY LenProperties
<1>2. a \in Seq(Models) /\ Len(a) = i - 1
    BY <1>1
<1>3. b \in Seq(Models) /\ Len(b) = Len(s) - i
    BY <1>1
<1> HIDE DEF a, b
<1>4. a \o b \in Seq(Models) /\ Len(a \o b) = Len(a) + Len(b)
    BY <1>2, <1>3, ConcatProperties
<1>5. RemoveAt(s, i) = a \o b
    BY DEF RemoveAt, a, b
<1> QED BY <1>1, <1>2, <1>3, <1>4, <1>5, SMTT(30)

LEMMA TypeInit == Init => TypeOK
<1> SUFFICES ASSUME Init PROVE TypeOK
    OBVIOUS
<1>1. request \in [Requests -> RequestState]
    BY DEF Init, RequestState
<1>2. 0 \in Version
    BY ProxyAssumption DEF Version
<1>3. feedback \in [Feedbacks -> FeedbackState]
    BY DEF Init, FeedbackState
<1>4. /\ latest \in Version
      /\ model_version_map \in [Models -> Version \cup {Unknown}]
      /\ served \in [Models -> Version]
    BY <1>2 DEF Init
<1>5. sync \in [Models -> [pc : {"none", "draining", "loading", "lost"}, version : Version]]
    BY <1>2 DEF Init, Idle
<1>6. None \in [Requests -> Nat]
    BY DEF None
<1>7. committing \in [held : BOOLEAN, experiences : [Requests -> Nat]]
    BY <1>6 DEF Init
<1>8. running_model_ids \in Seq(Models) /\ scenario \in Scenario /\ loop_alive \in BOOLEAN
    BY ModelsAsSequence, ProxyAssumption DEF Init
<1>9. consumed \in [Requests -> Int] /\ \A r \in Requests : consumed[r] >= -1
    BY DEF Init
<1>10. {ready_experiences, submitted} \subseteq [Requests -> Nat]
    BY <1>6 DEF Init
<1> QED BY <1>1, <1>3, <1>4, <1>5, <1>7, <1>8, <1>9, <1>10 DEF TypeOK

\* Where a call of /feedback stands after one of its steps.
LEMMA FeedbackMoves ==
    ASSUME TypeOK, NEW f \in Feedbacks
    PROVE  /\ feedback[f] \in FeedbackState
           /\ \A msg_ids \in SUBSET Requests : Select(f, msg_ids) =>
                  feedback' = [feedback EXCEPT ![f] =
                         [pc |-> IF Unconsumed(msg_ids) = {} THEN "done" ELSE "found",
                          attempt |-> feedback[f].attempt + 1, asked |-> msg_ids,
                          found |-> Unconsumed(msg_ids), lost |-> feedback[f].lost]]
           /\ UpdateReward(f) =>
                  feedback' = [feedback EXCEPT ![f] =
                      [pc |-> "committed", attempt |-> feedback[f].attempt,
                       asked |-> feedback[f].asked, found |-> feedback[f].found,
                       lost |-> feedback[f].lost]]
           /\ TransactionFails(f) =>
                  \E taken \in {{}, feedback[f].found}, pc \in {"again", "failed"} :
                      /\ consumed' = Plus(consumed, Once(taken))
                      /\ feedback' = [feedback EXCEPT ![f] =
                             [pc |-> pc, attempt |-> feedback[f].attempt,
                              asked |-> feedback[f].asked, found |-> {},
                              lost |-> feedback[f].lost \cup taken]]
           /\ RecordFeedback(f) =>
                  feedback' = [feedback EXCEPT ![f] =
                      [pc |-> "done", attempt |-> feedback[f].attempt,
                       asked |-> feedback[f].asked, found |-> {}, lost |-> feedback[f].lost]]
           /\ CloseFails(f) =>
                  feedback' = [feedback EXCEPT ![f] =
                      [pc |-> "failed", attempt |-> feedback[f].attempt,
                       asked |-> feedback[f].asked, found |-> {},
                       lost |-> feedback[f].lost \cup feedback[f].found]]
<1>1. feedback \in [Feedbacks -> FeedbackState] /\ feedback[f] \in FeedbackState
    BY DEF TypeOK
<1>2. ASSUME NEW msg_ids \in SUBSET Requests, Select(f, msg_ids)
      PROVE  feedback' = [feedback EXCEPT ![f] =
                 [pc |-> IF Unconsumed(msg_ids) = {} THEN "done" ELSE "found",
                  attempt |-> feedback[f].attempt + 1, asked |-> msg_ids,
                  found |-> Unconsumed(msg_ids), lost |-> feedback[f].lost]]
    BY <1>2 DEF Select
<1>3. ASSUME TransactionFails(f)
      PROVE  \E taken \in {{}, feedback[f].found}, pc \in {"again", "failed"} :
                 /\ consumed' = Plus(consumed, Once(taken))
                 /\ feedback' = [feedback EXCEPT ![f] =
                        [pc |-> pc, attempt |-> feedback[f].attempt,
                         asked |-> feedback[f].asked, found |-> {},
                         lost |-> feedback[f].lost \cup taken]]
    <2> DEFINE pc == IF feedback[f].attempt < Attempts THEN "again" ELSE "failed"
    <2>1. pc \in {"again", "failed"}
        OBVIOUS
    <2>2. PICK taken \in {{}, feedback[f].found} :
              /\ consumed' = Plus(consumed, Once(taken))
              /\ GoesOn(f, pc, {}, feedback[f].lost \cup taken)
        <3>1. PICK applied \in BOOLEAN :
                  LET taken == IF applied THEN feedback[f].found ELSE {}
                  IN  /\ consumed' = Plus(consumed, Once(taken))
                      /\ GoesOn(f, pc, {}, feedback[f].lost \cup taken)
            BY <1>3 DEF TransactionFails
        <3> QED BY <3>1
    <2> HIDE DEF pc
    <2> QED BY <2>1, <2>2 DEF GoesOn
<1> QED BY <1>1, <1>2, <1>3 DEF UpdateReward, RecordFeedback, CloseFails, GoesOn

LEMMA FeedbackTypes ==
    ASSUME TypeOK, NEW f \in Feedbacks, FeedbackStep(f)
    PROVE  feedback' \in [Feedbacks -> FeedbackState]
<1>1. /\ feedback \in [Feedbacks -> FeedbackState] /\ feedback[f] \in FeedbackState
      /\ feedback[f].attempt \in Nat /\ feedback[f].attempt + 1 \in Nat
      /\ {feedback[f].asked, feedback[f].found, feedback[f].lost} \subseteq SUBSET Requests
    BY DEF TypeOK, FeedbackState
<1>2. SUFFICES \E state \in FeedbackState : feedback' = [feedback EXCEPT ![f] = state]
    BY <1>1
<1>3. ASSUME NEW msg_ids \in SUBSET Requests, Select(f, msg_ids)
      PROVE  \E state \in FeedbackState : feedback' = [feedback EXCEPT ![f] = state]
    <2>1. Unconsumed(msg_ids) \in SUBSET Requests
        BY DEF Unconsumed
    <2> QED BY <1>1, <1>3, <2>1, FeedbackMoves DEF FeedbackState
<1>4. CASE UpdateReward(f) \/ RecordFeedback(f) \/ CloseFails(f)
    BY <1>1, <1>4, FeedbackMoves DEF FeedbackState
<1>5. CASE TransactionFails(f)
    BY <1>1, <1>5, FeedbackMoves DEF FeedbackState
<1> QED BY <1>1, <1>3, <1>4, <1>5 DEF FeedbackStep, Feedback, RetryFeedback

LEMMA TypeStep == TypeOK /\ [Next]_vars => TypeOK'
<1> SUFFICES ASSUME TypeOK, [Next]_vars PROVE TypeOK'
    OBVIOUS
<1>1. ASSUME NEW r \in Requests, AllocateModel(r) PROVE TypeOK'
    <2> DEFINE m == Head(running_model_ids)
    <2>1. m \in Models /\ Append(Tail(running_model_ids), m) \in Seq(Models)
        BY <1>1 DEF TypeOK, AllocateModel
    <2>2. request' \in [Requests -> RequestState]
        BY <1>1, <2>1 DEF TypeOK, AllocateModel, RequestState, Unknown
    <2> QED BY <1>1, <2>1, <2>2 DEF TypeOK, AllocateModel
<1>2. ASSUME NEW r \in Requests, Arrive(r) PROVE TypeOK'
    <2>1. request[r] \in [pc : {"sent", "served"}, model : Models, label : Version, late : BOOLEAN]
        BY <1>2 DEF TypeOK, Arrive, RequestState
    <2>2. PICK late \in BOOLEAN : request' = [request EXCEPT ![r].pc = "served", ![r].late = late]
        BY <1>2 DEF TypeOK, Arrive
    <2>3. [request[r] EXCEPT !.pc = "served", !.late = late] \in RequestState
        BY <2>1 DEF RequestState
    <2>4. request' \in [Requests -> RequestState]
        BY <2>2, <2>3 DEF TypeOK
    <2> QED BY <1>2, <2>4 DEF TypeOK, Arrive
<1>3. ASSUME NEW r \in Requests, Finish(r) PROVE TypeOK'
    <2>1. request' \in [Requests -> RequestState]
        BY <1>3 DEF TypeOK, Finish, RequestState
    <2> QED BY <1>3, <2>1 DEF TypeOK, Finish
<1>4. ASSUME NEW r \in Requests, RequestFails(r) PROVE TypeOK'
    <2>1. request' \in [Requests -> RequestState]
        BY <1>4 DEF TypeOK, RequestFails, RequestState
    <2> QED BY <1>4, <2>1 DEF TypeOK, RequestFails
<1>5. ASSUME NEW r \in Requests, RecordExperience(r) PROVE TypeOK'
    <2>1. request[r] \in [pc : {"answered", "recorded"}, label : Version, late : BOOLEAN, made : Version]
        BY <1>5 DEF TypeOK, RecordExperience, RequestState
    <2>2. /\ [request[r] EXCEPT !.pc = "recorded"] \in RequestState
          /\ [pc |-> "dropped"] \in RequestState
        BY <2>1 DEF RequestState
    <2>3. request' \in [Requests -> RequestState]
        BY <1>5, <2>2 DEF TypeOK, RecordExperience
    <2>4. consumed' \in [Requests -> Int] /\ \A q \in Requests : consumed'[q] >= -1
        <3>1. consumed' = [consumed EXCEPT ![r] = 0] \/ consumed' = consumed
            BY <1>5 DEF RecordExperience
        <3>2. consumed \in [Requests -> Int] /\ \A q \in Requests : consumed[q] >= -1
            BY DEF TypeOK
        <3> QED BY <3>1, <3>2
    <2> QED BY <1>5, <2>3, <2>4 DEF TypeOK, RecordExperience
<1>6. ASSUME NEW f \in Feedbacks, FeedbackStep(f) PROVE TypeOK'
    <2>1. /\ UNCHANGED <<scenario, modelVars, request, commitVars>>
          /\ consumed' = consumed \/ \E S \in SUBSET Requests : consumed' = Plus(consumed, Once(S))
          /\ \/ ready_experiences' = ready_experiences
             \/ \E S \in SUBSET Requests : ready_experiences' = Plus(ready_experiences, Once(S))
        <3>1. feedback[f].found \subseteq Requests
            BY DEF TypeOK, FeedbackState
        <3> QED BY <1>6, <3>1 DEF FeedbackStep, Feedback, Select, UpdateReward, TransactionFails,
                RetryFeedback, RecordFeedback, CloseFails
    <2>2. consumed' \in [Requests -> Int] /\ \A q \in Requests : consumed'[q] >= -1
        <3>1. consumed \in [Requests -> Int] /\ \A q \in Requests : consumed[q] >= -1
            BY DEF TypeOK
        <3>2. ASSUME NEW S \in SUBSET Requests, consumed' = Plus(consumed, Once(S))
              PROVE  consumed' \in [Requests -> Int] /\ \A q \in Requests : consumed'[q] >= -1
            BY <3>1, <3>2 DEF Plus, Once
        <3> QED BY <2>1, <3>1, <3>2
    <2>3. ready_experiences' \in [Requests -> Nat]
        <3>1. ready_experiences \in [Requests -> Nat]
            BY DEF TypeOK
        <3>2. ASSUME NEW S \in SUBSET Requests,
                     ready_experiences' = Plus(ready_experiences, Once(S))
              PROVE  ready_experiences' \in [Requests -> Nat]
            BY <3>1, <3>2 DEF Plus, Once
        <3> QED BY <2>1, <3>1, <3>2
    <2>4. feedback' \in [Feedbacks -> FeedbackState]
        BY <1>6, FeedbackTypes
    <2> QED BY <2>1, <2>2, <2>3, <2>4 DEF TypeOK
<1>8. ASSUME SubmitExperiences PROVE TypeOK'
    BY <1>8 DEF TypeOK, SubmitExperiences, ClearReady, None
<1>9. ASSUME Submitted PROVE TypeOK'
    <2>1. submitted' \in [Requests -> Nat]
        BY <1>9 DEF TypeOK, Submitted, Plus
    <2>2. committing' \in [held : BOOLEAN, experiences : [Requests -> Nat]]
        BY <1>9 DEF Submitted, None
    <2>3. UNCHANGED <<scenario, modelVars, request, recordVars>>
        BY <1>9 DEF Submitted
    <2> QED BY <2>1, <2>2, <2>3 DEF TypeOK
<1>10. ASSUME SetLatestModelVersion PROVE TypeOK'
    <2>1. scenario.versions \in 0 .. MaxVersion
        BY DEF TypeOK, Scenario
    <2>2. latest' \in Version
        BY <1>10, <2>1, ProxyAssumption DEF SetLatestModelVersion, Version
    <2>3. UNCHANGED <<scenario, running_model_ids, model_version_map, served, sync, loop_alive,
                      request, recordVars, commitVars>>
        BY <1>10 DEF SetLatestModelVersion
    <2> QED BY <2>2, <2>3 DEF TypeOK
<1>11. ASSUME NEW m \in Models, CheckModel(m) PROVE TypeOK'
    <2>1. running_model_ids' \in Seq(Models)
        BY <1>11, RemovedOne DEF TypeOK, CheckModel, LeaveRotation
    <2>2. model_version_map' \in [Models -> Version \cup {Unknown}]
        BY <1>11 DEF TypeOK, CheckModel
    <2>3. sync' = sync \/ sync' = [sync EXCEPT ![m] = [pc |-> "draining", version |-> 0]]
        BY <1>11 DEF CheckModel
    <2>4. 0 \in Version
        BY ProxyAssumption DEF Version
    <2>5. sync' \in [Models -> [pc : {"none", "draining", "loading", "lost"}, version : Version]]
        <3> DEFINE S == [pc : {"none", "draining", "loading", "lost"}, version : Version]
        <3>1. [pc |-> "draining", version |-> 0] \in S
            BY <2>4
        <3>2. sync \in [Models -> S]
            BY DEF TypeOK
        <3> HIDE DEF S
        <3>3. sync' \in [Models -> S]
            BY <2>3, <3>1, <3>2
        <3> QED BY <3>3 DEF S
    <2> QED BY <1>11, <2>1, <2>2, <2>5 DEF TypeOK, CheckModel
<1>12. ASSUME NEW m \in Models, Drained(m) PROVE TypeOK'
    <2>1. latest \in Version
        BY DEF TypeOK
    <2>2. sync' \in [Models -> [pc : {"none", "draining", "loading", "lost"}, version : Version]]
        BY <1>12, <2>1 DEF TypeOK, Drained
    <2> QED BY <1>12, <2>2 DEF TypeOK, Drained
<1>13. ASSUME NEW m \in Models, SyncFails(m) PROVE TypeOK'
    <2>1. sync[m].version \in Version /\ 0 \in Version
        BY ProxyAssumption DEF TypeOK, Version
    <2>2. served' \in [Models -> Version]
        BY <1>13, <2>1 DEF TypeOK, SyncFails
    <2>3. sync' \in [Models -> [pc : {"none", "draining", "loading", "lost"}, version : Version]]
        BY <1>13, <2>1 DEF TypeOK, SyncFails
    <2> QED BY <1>13, <2>2, <2>3 DEF TypeOK, SyncFails
<1>14. ASSUME NEW m \in Models, Loaded(m) PROVE TypeOK'
    <2>1. sync[m].version \in Version /\ 0 \in Version
        BY ProxyAssumption DEF TypeOK, Version
    <2>2. served' \in [Models -> Version]
        BY <1>14, <2>1 DEF TypeOK, Loaded
    <2>3. model_version_map' \in [Models -> Version \cup {Unknown}]
        BY <1>14, <2>1 DEF TypeOK, Loaded
    <2>4. sync' \in [Models -> [pc : {"none", "draining", "loading", "lost"}, version : Version]]
        BY <1>14, <2>1 DEF TypeOK, Loaded, Idle
    <2>5. running_model_ids' \in Seq(Models)
        BY <1>14 DEF TypeOK, Loaded, ComeBack
    <2> QED BY <1>14, <2>2, <2>3, <2>4, <2>5 DEF TypeOK, Loaded
<1>15. ASSUME UNCHANGED vars PROVE TypeOK'
    BY <1>15 DEF TypeOK, vars
<1>7. ASSUME CheckFails PROVE TypeOK'
    BY <1>7 DEF TypeOK, CheckFails
<1> QED BY <1>1, <1>2, <1>3, <1>4, <1>5, <1>6, <1>7, <1>8, <1>9, <1>10, <1>11, <1>12, <1>13,
           <1>14, <1>15 DEF Next, RequestStep, ModelStep, Done

\* The tables of the service keep their types.
THEOREM TypeCorrect == Spec => []TypeOK
BY TypeInit, TypeStep, PTL DEF Spec
-----------------------------------------------------------------------------
(* Versions: what the service believes of a model is never ahead of it.    *)

\* What the tables say of the weights of the models.
VersionsFit ==
    \A m \in Models :
        /\ served[m] <= latest
        /\ sync[m].pc = "loading" => served[m] <= sync[m].version /\ sync[m].version <= latest
        /\ model_version_map[m] <= served[m]
        /\ sync[m].pc \in {"none", "draining"} =>
               model_version_map[m] \in {Unknown, served[m]}

\* What a request was told of the version of the model it goes to, while it is
\* under way and after it was answered.
LabelFits(r) ==
    /\ request[r].pc \in {"sent", "served"} => request[r].label <= served[request[r].model]
    /\ request[r].pc = "served" /\ ~request[r].late =>
           /\ request[r].label = served[request[r].model]
           /\ sync[request[r].model].pc # "loading"
    /\ request[r].pc \in {"answered", "recorded"} =>
           /\ request[r].label <= request[r].made
           /\ ~request[r].late => request[r].label = request[r].made

LabelsFit == \A r \in Requests : LabelFits(r)

\* The pieces of the types that the steps below need.
LEMMA VersionTypes ==
    ASSUME TypeOK
    PROVE  /\ latest \in Int /\ latest >= 0
           /\ \A m \in Models :
                  /\ served[m] \in Int /\ served[m] >= 0
                  /\ model_version_map[m] \in Int
                  /\ sync[m].version \in Int
                  /\ sync[m].pc \in {"none", "draining", "loading", "lost"}
           /\ Unknown = -1
<1>1. \A v \in Version : v \in Int /\ v >= 0
    BY DEF Version
<1>2. \A m \in Models : served[m] \in Version /\ sync[m].version \in Version
                        /\ sync[m].pc \in {"none", "draining", "loading", "lost"}
                        /\ model_version_map[m] \in Version \cup {Unknown}
    BY DEF TypeOK
<1>3. latest \in Version
    BY DEF TypeOK
<1> QED BY <1>1, <1>2, <1>3 DEF Unknown

LEMMA VersionsInit == Init => VersionsFit /\ LabelsFit
BY DEF Init, VersionsFit, LabelsFit, LabelFits, Idle, Unknown

\* A model only moves on: the version it loads is the latest at that time.
LEMMA VersionsStep == TypeOK /\ VersionsFit /\ [Next]_vars => VersionsFit'
<1> SUFFICES ASSUME TypeOK, VersionsFit, [Next]_vars PROVE VersionsFit'
    OBVIOUS
<1>1. CASE UNCHANGED modelVars
    BY <1>1 DEF VersionsFit
<1>2. ASSUME NEW r \in Requests, AllocateModel(r) PROVE VersionsFit'
    BY <1>2 DEF AllocateModel, VersionsFit
<1>3. ASSUME SetLatestModelVersion PROVE VersionsFit'
    <2>1. latest' \in Int /\ latest' > latest
        BY <1>3 DEF SetLatestModelVersion, Version
    <2>2. UNCHANGED <<model_version_map, served, sync>>
        BY <1>3 DEF SetLatestModelVersion
    <2> QED BY <2>1, <2>2, VersionTypes DEF VersionsFit
<1>4. ASSUME NEW m \in Models, CheckModel(m) PROVE VersionsFit'
    <2>1. /\ model_version_map' = [model_version_map EXCEPT ![m] = served[m]]
          /\ UNCHANGED <<latest, served>>
        BY <1>4 DEF CheckModel
    <2>2. \A n \in Models : sync'[n] = sync[n] \/ (n = m /\ sync'[n].pc = "draining")
        BY <1>4 DEF CheckModel, TypeOK
    <2>3. \A n \in Models : model_version_map'[n] = IF n = m THEN served[n] ELSE model_version_map[n]
        BY <2>1 DEF TypeOK
    <2> QED BY <2>1, <2>2, <2>3, VersionTypes DEF VersionsFit
<1>5. ASSUME NEW m \in Models, Drained(m) PROVE VersionsFit'
    <2>1. \A n \in Models : sync'[n] = IF n = m THEN [pc |-> "loading", version |-> latest] ELSE sync[n]
        BY <1>5 DEF Drained, TypeOK
    <2>2. UNCHANGED <<latest, model_version_map, served>>
        BY <1>5 DEF Drained
    <2> QED BY <2>1, <2>2, VersionTypes DEF VersionsFit
<1>6. ASSUME NEW m \in Models, SyncFails(m) PROVE VersionsFit'
    <2>1. \A n \in Models : sync'[n] = IF n = m THEN [pc |-> "lost", version |-> 0] ELSE sync[n]
        BY <1>6 DEF SyncFails, TypeOK
    <2>2. \A n \in Models : served'[n] = served[n]
                            \/ (n = m /\ sync[m].pc = "loading" /\ served'[n] = sync[m].version)
        BY <1>6 DEF SyncFails, TypeOK
    <2>3. UNCHANGED <<latest, model_version_map>>
        BY <1>6 DEF SyncFails
    <2> QED BY <2>1, <2>2, <2>3, VersionTypes DEF VersionsFit
<1>7. ASSUME NEW m \in Models, Loaded(m) PROVE VersionsFit'
    <2>1. /\ sync[m].pc = "loading"
          /\ latest' = latest
          /\ \A n \in Models :
                 /\ served'[n] = IF n = m THEN sync[m].version ELSE served[n]
                 /\ model_version_map'[n] = IF n = m THEN sync[m].version ELSE model_version_map[n]
                 /\ sync'[n] = IF n = m THEN Idle ELSE sync[n]
        BY <1>7 DEF Loaded, TypeOK
    <2>2. Idle.pc = "none"
        BY DEF Idle
    <2> QED BY <2>1, <2>2, VersionTypes DEF VersionsFit
<1>9. CASE CheckFails
    BY <1>9 DEF CheckFails, VersionsFit
<1>8. QED
    <2>1. CASE \E r \in Requests : RequestStep(r)
        BY <2>1, <1>1, <1>2 DEF RequestStep, Arrive, Finish, RequestFails, RecordExperience
    <2>2. CASE \E f \in Feedbacks : FeedbackStep(f)
        BY <2>2, <1>1 DEF FeedbackStep, Feedback, Select, UpdateReward, TransactionFails,
                RetryFeedback, RecordFeedback, CloseFails
    <2>3. CASE SubmitExperiences \/ Submitted
        BY <2>3, <1>1 DEF SubmitExperiences, Submitted
    <2>4. CASE SetLatestModelVersion \/ CheckFails
        BY <2>4, <1>1, <1>3, <1>9 DEF CheckFails
    <2>5. CASE \E m \in Models : ModelStep(m)
        BY <2>5, <1>4, <1>5, <1>6, <1>7 DEF ModelStep
    <2>6. CASE Done \/ UNCHANGED vars
        BY <2>6, <1>1 DEF Done, vars
    <2> QED BY <2>1, <2>2, <2>3, <2>4, <2>5, <2>6 DEF Next

\* The pieces of the type of a request that the steps below need.
LEMMA RequestTypes ==
    ASSUME TypeOK, NEW r \in Requests
    PROVE  /\ request[r].pc \in {"sent", "served"} =>
                  /\ request[r] \in [pc : {"sent", "served"}, model : Models, label : Version,
                                     late : BOOLEAN]
                  /\ request[r].model \in Models /\ request[r].label \in Int
                  /\ request[r].label >= 0 /\ request[r].late \in BOOLEAN
           /\ request[r].pc \in {"answered", "recorded"} =>
                  request[r] \in [pc : {"answered", "recorded"}, label : Version, late : BOOLEAN,
                                  made : Version]
<1>1. request[r] \in RequestState
    BY DEF TypeOK
<1>2. \A v \in Version : v \in Int /\ v >= 0
    BY DEF Version
<1> QED BY <1>1, <1>2 DEF RequestState

\* The weights of the models and what is known of a request stay: so does what
\* was said of it.
LEMMA LabelStays ==
    ASSUME NEW r \in Requests, LabelFits(r), request'[r] = request[r],
           UNCHANGED <<served, sync>>
    PROVE  LabelFits(r)'
BY DEF LabelFits

LEMMA LabelsStep == TypeOK /\ VersionsFit /\ LabelsFit /\ [Next]_vars => LabelsFit'
<1> SUFFICES ASSUME TypeOK, VersionsFit, LabelsFit, [Next]_vars, NEW q \in Requests
             PROVE  LabelFits(q)'
    BY DEF LabelsFit
<1>0. LabelFits(q)
    BY DEF LabelsFit
<1>1. CASE UNCHANGED <<request, served, sync>>
    BY <1>0, <1>1, LabelStays
<1>2. ASSUME NEW r \in Requests, AllocateModel(r) PROVE LabelFits(q)'
    <2>1. UNCHANGED <<served, sync>> /\ \A x \in Requests : x # r => request'[x] = request[x]
        BY <1>2 DEF AllocateModel, TypeOK
    <2>2. ASSUME q = r PROVE LabelFits(q)'
        <3> DEFINE m == Head(running_model_ids)
        <3>1. m \in Models
            BY <1>2 DEF TypeOK, AllocateModel
        <3>2. \/ request'[r] = [pc |-> "failed"]
              \/ request'[r] = [pc |-> "sent", model |-> m, label |-> model_version_map[m],
                                late |-> FALSE]
            BY <1>2 DEF AllocateModel, TypeOK
        <3> HIDE DEF m
        <3>3. model_version_map[m] <= served[m]
            BY <3>1 DEF VersionsFit
        <3> QED BY <2>1, <2>2, <3>2, <3>3 DEF LabelFits
    <2> QED BY <1>0, <2>1, <2>2, LabelStays
<1>3. ASSUME NEW r \in Requests, Arrive(r) PROVE LabelFits(q)'
    <2>1. UNCHANGED <<served, sync>> /\ \A x \in Requests : x # r => request'[x] = request[x]
        BY <1>3 DEF Arrive, TypeOK
    <2>2. ASSUME q = r PROVE LabelFits(q)'
        <3> DEFINE m == request[r].model
        <3>1. request[r].pc = "sent" /\ m \in Models /\ request[r].label \in Int /\ request[r].label >= 0
              /\ request[r].label <= served[m]
            BY <1>0, <1>3, <2>2, RequestTypes DEF Arrive, LabelFits
        <3>2. /\ request'[r].pc = "served"
              /\ request'[r].model = m
              /\ request'[r].label = request[r].label
              /\ request'[r].late =
                     (sync[m].pc \in {"loading", "lost"} \/ model_version_map[m] # request[r].label)
            <4>1. request[r] \in [pc : {"sent", "served"}, model : Models, label : Version,
                                  late : BOOLEAN]
                BY <3>1, RequestTypes
            <4>2. request'[r] = [request[r] EXCEPT !.pc = "served",
                      !.late = sync[m].pc \in {"loading", "lost"}
                               \/ model_version_map[m] # request[r].label]
                BY <1>3 DEF Arrive, TypeOK
            <4> QED BY <4>1, <4>2
        <3> HIDE DEF m
        <3>3. ~request'[r].late => sync[m].pc \in {"none", "draining"} /\ request[r].label = served[m]
            <4> SUFFICES ASSUME ~request'[r].late
                         PROVE  sync[m].pc \in {"none", "draining"} /\ request[r].label = served[m]
                OBVIOUS
            <4>1. sync[m].pc \in {"none", "draining"} /\ model_version_map[m] = request[r].label
                BY <3>1, <3>2, VersionTypes
            <4>2. model_version_map[m] \in {Unknown, served[m]}
                BY <3>1, <4>1 DEF VersionsFit
            <4>3. model_version_map[m] # Unknown
                BY <3>1, <4>1 DEF Unknown
            <4> QED BY <4>1, <4>2, <4>3
        <3> QED BY <2>1, <2>2, <3>1, <3>2, <3>3 DEF LabelFits
    <2> QED BY <1>0, <2>1, <2>2, LabelStays
<1>4. ASSUME NEW r \in Requests, Finish(r) PROVE LabelFits(q)'
    <2>1. UNCHANGED <<served, sync>> /\ \A x \in Requests : x # r => request'[x] = request[x]
        BY <1>4 DEF Finish, TypeOK
    <2>2. request[r].pc = "served"
          /\ request'[r] = [pc |-> "answered", label |-> request[r].label, late |-> request[r].late,
                            made |-> served[request[r].model]]
        BY <1>4 DEF Finish, TypeOK
    <2>3. ASSUME q = r PROVE LabelFits(q)'
        BY <1>0, <2>2, <2>3 DEF LabelFits
    <2> QED BY <1>0, <2>1, <2>3, LabelStays
<1>5. ASSUME NEW r \in Requests, RequestFails(r) PROVE LabelFits(q)'
    <2>1. /\ UNCHANGED <<served, sync>>
          /\ \A x \in Requests : request'[x] = IF x = r THEN [pc |-> "failed"] ELSE request[x]
        BY <1>5 DEF RequestFails, TypeOK
    <2> QED BY <1>0, <2>1 DEF LabelFits
<1>6. ASSUME NEW r \in Requests, RecordExperience(r) PROVE LabelFits(q)'
    <2>1. UNCHANGED <<served, sync>> /\ \A x \in Requests : x # r => request'[x] = request[x]
        BY <1>6 DEF RecordExperience, TypeOK
    <2>2. ASSUME q = r PROVE LabelFits(q)'
        <3>1. /\ request[r].pc = "answered"
              /\ \/ request'[r] = [request[r] EXCEPT !.pc = "recorded"]
                 \/ request'[r] = [pc |-> "dropped"]
            BY <1>6 DEF RecordExperience, TypeOK
        <3>2. request[r] \in [pc : {"answered", "recorded"}, label : Version, late : BOOLEAN,
                              made : Version]
            BY <3>1, RequestTypes
        <3> QED BY <1>0, <2>2, <3>1, <3>2 DEF LabelFits
    <2> QED BY <1>0, <2>1, <2>2, LabelStays
<1>7. ASSUME NEW m \in Models, CheckModel(m) PROVE LabelFits(q)'
    <2>1. UNCHANGED <<request, served>>
          /\ \A n \in Models : sync'[n].pc = "loading" => sync[n].pc = "loading"
        <3>1. DOMAIN sync = Models
            BY DEF TypeOK
        <3>2. sync' = sync \/ sync' = [sync EXCEPT ![m] = [pc |-> "draining", version |-> 0]]
            BY <1>7 DEF CheckModel
        <3>3. UNCHANGED <<request, served>>
            BY <1>7 DEF CheckModel
        <3> QED BY <3>1, <3>2, <3>3
    <2> QED BY <1>0, <2>1, RequestTypes DEF LabelFits
<1>8. ASSUME NEW m \in Models, Drained(m) PROVE LabelFits(q)'
    <2>1. /\ UNCHANGED <<request, served>>
          /\ \A n \in Models : n # m => sync'[n] = sync[n]
          /\ request[q].pc = "served" => request[q].model # m
        BY <1>8 DEF Drained, Free, TypeOK
    <2> QED BY <1>0, <2>1, RequestTypes DEF LabelFits
<1>9. ASSUME NEW m \in Models, served'[m] \in Int, served[m] <= served'[m], request' = request,
             sync[m].pc # "loading" => served'[m] = served[m],
             sync'[m].pc # "loading",
             \A n \in Models : n # m => served'[n] = served[n] /\ sync'[n] = sync[n]
      PROVE  LabelFits(q)'
    BY <1>0, <1>9, RequestTypes, VersionTypes DEF LabelFits
<1>10. ASSUME NEW m \in Models, SyncFails(m) \/ Loaded(m) PROVE LabelFits(q)'
    <2>1. /\ request' = request
          /\ \A n \in Models : n # m => served'[n] = served[n] /\ sync'[n] = sync[n]
          /\ sync'[m].pc # "loading"
          /\ served'[m] = served[m] \/ (sync[m].pc = "loading" /\ served'[m] = sync[m].version)
        BY <1>10 DEF SyncFails, Loaded, Idle, TypeOK
    <2>2. served'[m] \in Int /\ served[m] <= served'[m]
        BY <2>1, VersionTypes DEF VersionsFit
    <2> QED BY <1>9, <2>1, <2>2
<1>11. QED
    <2>1. CASE \E r \in Requests : RequestStep(r)
        BY <2>1, <1>2, <1>3, <1>4, <1>5, <1>6 DEF RequestStep
    <2>2. CASE \E f \in Feedbacks : FeedbackStep(f)
        BY <2>2, <1>1 DEF FeedbackStep, Feedback, Select, UpdateReward, TransactionFails,
                RetryFeedback, RecordFeedback, CloseFails
    <2>3. CASE SubmitExperiences \/ Submitted \/ SetLatestModelVersion \/ CheckFails
        BY <2>3, <1>1 DEF SubmitExperiences, Submitted, SetLatestModelVersion, CheckFails
    <2>4. CASE \E m \in Models : ModelStep(m)
        BY <2>4, <1>7, <1>8, <1>10 DEF ModelStep
    <2>5. CASE Done \/ UNCHANGED vars
        BY <2>5, <1>1 DEF Done, vars
    <2> QED BY <2>1, <2>2, <2>3, <2>4, <2>5 DEF Next

\* The version recorded with an experience is never newer than the weights
\* that made it, and differs from them only if the request reached the model
\* after the model had been found free.
THEOREM LabelsAreTrue == Spec => []LabelIsTrue
<1>1. LabelsFit => LabelIsTrue
    BY DEF LabelsFit, LabelFits, LabelIsTrue
<1> QED BY <1>1, TypeInit, TypeStep, VersionsInit, VersionsStep, LabelsStep, PTL DEF Spec

-----------------------------------------------------------------------------
(* Experiences: what a feedback takes out of the database is not lost, and *)
(* with row locks it is taken once.                                        *)

Places(r) ==
    Cardinality(HeldBy(r)) + ready_experiences[r] + committing.experiences[r] + submitted[r]

\* A row is written once, at the end of its request; a SELECT found it there.
\* What a call has lost was taken, so its next SELECT does not find it again.
RowsFit ==
    /\ \A r \in Requests : request[r].pc # "recorded" => consumed[r] = -1
    /\ \A f \in Feedbacks : \A r \in feedback[f].found : consumed[r] # -1 /\ r \notin feedback[f].lost
    /\ \A f \in Feedbacks : \A r \in feedback[f].lost : consumed[r] >= 1
    /\ ~committing.held => committing.experiences = None
    /\ \A r \in Requests : Places(r) = IF consumed[r] = -1 THEN 0 ELSE consumed[r]

\* The rows that the transaction of a call holds.
Taking(f) == {r \in feedback[f].found : feedback[f].pc = "found"}

\* They are its own, and nobody has taken them.
RowsHeld ==
    scenario.locks =>
        /\ \A r \in Requests : consumed[r] <= 1
        /\ \A f \in Feedbacks : \A r \in Taking(f) :
               /\ consumed[r] = 0
               /\ \A g \in Feedbacks \ {f} : r \notin Taking(g)

LEMMA HeldFinite ==
    ASSUME NEW S \in SUBSET Feedbacks
    PROVE  IsFiniteSet(S) /\ Cardinality(S) \in Nat
<1>1. IsFiniteSet(Feedbacks)
    BY FS_Interval, ProxyAssumption DEF Feedbacks
<1>2. IsFiniteSet(S)
    BY <1>1, FS_Subset
<1> QED BY <1>2, FS_CardinalityType

\* How many calls hold an experience, as one of them takes it or gives it up.
LEMMA HeldCount ==
    ASSUME NEW S \in SUBSET Feedbacks, NEW f \in Feedbacks
    PROVE  /\ Cardinality(S) \in Nat
           /\ f \notin S => Cardinality(S \cup {f}) = Cardinality(S) + 1
           /\ f \in S => Cardinality(S \ {f}) = Cardinality(S) - 1
BY HeldFinite, FS_AddElement, FS_RemoveElement

LEMMA HeldStays ==
    ASSUME UNCHANGED feedback
    PROVE  \A r \in Requests :
               /\ HeldBy(r)' = HeldBy(r) /\ Cardinality(HeldBy(r))' = Cardinality(HeldBy(r))
               /\ Cardinality(HeldBy(r)) \in Nat
<1>1. \A r \in Requests : HeldBy(r)' = HeldBy(r) /\ HeldBy(r) \in SUBSET Feedbacks
    BY DEF HeldBy
<1> QED BY <1>1, HeldFinite

LEMMA RowTypes ==
    ASSUME TypeOK
    PROVE  /\ \A r \in Requests :
                  /\ consumed[r] \in Int /\ consumed[r] >= -1
                  /\ ready_experiences[r] \in Nat
                  /\ committing.experiences[r] \in Nat
                  /\ submitted[r] \in Nat
           /\ \A f \in Feedbacks :
                  /\ feedback[f] \in FeedbackState
                  /\ feedback[f].found \subseteq Requests /\ feedback[f].lost \subseteq Requests
BY DEF TypeOK, FeedbackState

LEMMA RowsInit == Init => RowsFit /\ RowsHeld
<1> SUFFICES ASSUME Init PROVE RowsFit /\ RowsHeld
    OBVIOUS
<1>2. \A f \in Feedbacks : feedback[f].found = {} /\ feedback[f].lost = {}
    BY DEF Init
<1>1. \A r \in Requests : consumed[r] = -1 /\ Places(r) = 0
    <2>1. \A r \in Requests : HeldBy(r) = {}
        BY <1>2 DEF HeldBy
    <2>2. Cardinality({}) = 0
        BY FS_EmptySet
    <2>3. ASSUME NEW r \in Requests
          PROVE  /\ consumed[r] = -1 /\ ready_experiences[r] = 0
                 /\ committing.experiences[r] = 0 /\ submitted[r] = 0
        BY DEF Init, None
    <2> QED BY <2>1, <2>2, <2>3 DEF Places
<1>3. committing.experiences = None
    BY DEF Init
<1> QED BY <1>1, <1>2, <1>3 DEF RowsFit, RowsHeld, Taking

\* A step that only moves requests on before they are recorded.
LEMMA RowsStay ==
    ASSUME RowsFit, RowsHeld, UNCHANGED <<scenario, recordVars, committing, submitted>>,
           \A r \in Requests : request'[r].pc # "recorded" => request[r].pc # "recorded"
    PROVE  RowsFit' /\ RowsHeld'
BY DEF RowsFit, RowsHeld, Places, HeldBy, Taking

\* A SELECT finds rows that nobody has taken; with locks, that nobody holds.
LEMMA SelectStep ==
    ASSUME TypeOK, RowsFit, RowsHeld, NEW f \in Feedbacks, feedback[f].pc # "committed",
           NEW msg_ids \in SUBSET Requests, Select(f, msg_ids)
    PROVE  RowsFit' /\ RowsHeld'
<1>1. UNCHANGED <<scenario, request, consumed, ready_experiences, committing, submitted>>
    BY DEF Select
<1>2. \A g \in Feedbacks : g # f => feedback'[g] = feedback[g]
    BY FeedbackMoves DEF TypeOK
<1>3. /\ feedback'[f].pc # "committed"
      /\ feedback'[f].found = Unconsumed(msg_ids)
      /\ feedback'[f].lost = feedback[f].lost
    <2>1. feedback' = [feedback EXCEPT ![f] =
                         [pc |-> IF Unconsumed(msg_ids) = {} THEN "done" ELSE "found",
                          attempt |-> feedback[f].attempt + 1, asked |-> msg_ids,
                          found |-> Unconsumed(msg_ids), lost |-> feedback[f].lost]]
        BY FeedbackMoves
    <2>2. f \in DOMAIN feedback
        BY DEF TypeOK
    <2> QED BY <2>1, <2>2
<1>4. \A r \in Unconsumed(msg_ids) : r \in msg_ids /\ consumed[r] = 0
    BY DEF Unconsumed
<1>5. \A r \in Requests : HeldBy(r)' = HeldBy(r)
    BY <1>2, <1>3 DEF HeldBy
<1>6. \A g \in Feedbacks : \A r \in feedback'[g].lost : consumed'[r] >= 1
    BY <1>1, <1>2, <1>3 DEF RowsFit
<1>7. \A g \in Feedbacks : \A r \in feedback'[g].found :
          consumed'[r] # -1 /\ r \notin feedback'[g].lost
    BY <1>1, <1>2, <1>3, <1>4 DEF RowsFit
<1>8. \A r \in Requests : Places(r)' = Places(r)
    BY <1>1, <1>5 DEF Places
<1>9. RowsFit'
    BY <1>1, <1>6, <1>7, <1>8 DEF RowsFit, None
<1>10. RowsHeld'
    <2>1. ASSUME scenario.locks, NEW g \in Feedbacks \ {f}, NEW r \in Unconsumed(msg_ids)
          PROVE  r \notin Taking(g)
        BY <1>4, <2>1 DEF Taking, Select, MaySelect
    <2>2. \A g \in Feedbacks : g # f => Taking(g)' = Taking(g)
        BY <1>2 DEF Taking
    <2>3. Taking(f)' \subseteq Unconsumed(msg_ids)
        BY <1>3 DEF Taking
    <2> QED BY <1>1, <1>4, <2>1, <2>2, <2>3 DEF RowsHeld
<1> QED BY <1>9, <1>10

\* A transaction ends; the call has the rows if it was committed.
LEMMA TakenStep ==
    ASSUME TypeOK, RowsFit, RowsHeld, NEW f \in Feedbacks, feedback[f].pc = "found",
           NEW taken \in {{}, feedback[f].found}, consumed' = Plus(consumed, Once(taken)),
           UNCHANGED <<scenario, request, ready_experiences, committing, submitted>>,
           \A g \in Feedbacks : g # f => feedback'[g] = feedback[g],
           feedback'[f].pc # "found",
           \/ /\ feedback'[f].pc = "committed" /\ taken = feedback[f].found
              /\ feedback'[f].found = taken /\ feedback'[f].lost = feedback[f].lost
           \/ /\ feedback'[f].found = {} /\ feedback'[f].lost = feedback[f].lost \cup taken
    PROVE  RowsFit' /\ RowsHeld'
<1>1. taken \subseteq Requests /\ taken \subseteq feedback[f].found
    BY RowTypes
<1>2. \A r \in Requests :
          consumed'[r] = IF r \in taken THEN consumed[r] + 1 ELSE consumed[r]
    BY RowTypes DEF Plus, Once
<1>3. \A r \in taken : consumed[r] \in Nat /\ r \notin feedback[f].lost
    BY <1>1, RowTypes DEF RowsFit
<1>4. \A r \in Requests : (consumed'[r] = -1 <=> consumed[r] = -1) /\ consumed'[r] >= consumed[r]
    BY <1>2, <1>3, RowTypes
<1>5. \A g \in Feedbacks : \A r \in feedback'[g].found :
          consumed'[r] # -1 /\ r \notin feedback'[g].lost
    BY <1>1, <1>3, <1>4, RowTypes DEF RowsFit
<1>6. \A g \in Feedbacks : \A r \in feedback'[g].lost : consumed'[r] >= 1
    BY <1>1, <1>2, <1>3, <1>4, RowTypes DEF RowsFit
<1>7. ASSUME NEW r \in Requests
      PROVE  Places(r)' = IF consumed'[r] = -1 THEN 0 ELSE consumed'[r]
    <2>1. HeldBy(r) \in SUBSET Feedbacks
        BY DEF HeldBy
    <2>2. CASE r \in taken
        <3>1. f \notin HeldBy(r) /\ HeldBy(r)' = HeldBy(r) \cup {f}
            BY <1>3, <2>2 DEF HeldBy
        <3>2. Cardinality(HeldBy(r))' = Cardinality(HeldBy(r)) + 1
              /\ Cardinality(HeldBy(r)) \in Nat
            BY <2>1, <3>1, HeldCount
        <3>3. Places(r)' = Places(r) + 1
            BY <3>2, RowTypes DEF Places
        <3> QED BY <1>2, <1>3, <2>2, <3>3 DEF RowsFit
    <2>3. CASE r \notin taken
        <3>1. HeldBy(r)' = HeldBy(r)
            BY <2>3 DEF HeldBy
        <3> QED BY <1>2, <2>3, <3>1 DEF RowsFit, Places
    <2> QED BY <2>2, <2>3
<1>8. RowsFit'
    BY <1>4, <1>5, <1>6, <1>7 DEF RowsFit, None
<1>9. RowsHeld'
    <2>1. Taking(f) = feedback[f].found /\ Taking(f)' = {}
          /\ \A g \in Feedbacks : g # f => Taking(g)' = Taking(g)
        BY DEF Taking
    <2>2. \A g \in Feedbacks : Taking(g) \subseteq Requests
        BY RowTypes DEF Taking
    <2>3. ASSUME scenario.locks PROVE \A r \in Requests : consumed'[r] <= 1
        BY <1>1, <1>2, <2>1, <2>3, RowTypes DEF RowsHeld
    <2>4. ASSUME scenario.locks, NEW g \in Feedbacks, NEW r \in Taking(g)'
          PROVE  /\ consumed'[r] = 0
                 /\ \A h \in Feedbacks \ {g} : r \notin Taking(h)'
        <3>1. g # f /\ r \in Taking(g) /\ r \in Requests
            BY <2>1, <2>2, <2>4
        <3>2. r \notin Taking(f) /\ consumed[r] = 0
            BY <2>4, <3>1 DEF RowsHeld
        <3>3. r \notin taken
            BY <1>1, <2>1, <3>2
        <3> QED BY <1>2, <2>1, <2>4, <3>1, <3>2, <3>3 DEF RowsHeld
    <2> QED BY <2>3, <2>4 DEF RowsHeld
<1> QED BY <1>8, <1>9

\* What the call took goes to the ready list, or stays with it for good.
LEMMA HandedOnStep ==
    ASSUME TypeOK, RowsFit, RowsHeld, NEW f \in Feedbacks, RecordFeedback(f) \/ CloseFails(f)
    PROVE  RowsFit' /\ RowsHeld'
<1> DEFINE S == feedback[f].found
<1>1. /\ UNCHANGED <<scenario, request, consumed, committing, submitted>>
      /\ feedback[f].pc = "committed" /\ S \subseteq Requests
    BY RowTypes DEF RecordFeedback, CloseFails
<1>2. \A g \in Feedbacks : g # f => feedback'[g] = feedback[g]
    BY FeedbackMoves DEF TypeOK
<1>3. feedback'[f].found = {} /\ feedback'[f].pc \notin {"found", "committed"}
    BY FeedbackMoves DEF TypeOK
<1>4. /\ RecordFeedback(f) => feedback'[f].lost = feedback[f].lost /\ feedback'[f].pc = "done"
      /\ CloseFails(f) => feedback'[f].lost = feedback[f].lost \cup S /\ feedback'[f].pc = "failed"
    BY FeedbackMoves DEF TypeOK
<1>5. \A r \in S : r \notin feedback[f].lost
    BY DEF RowsFit
<1>6. CASE RecordFeedback(f)
    <2>1. \A r \in Requests : ready_experiences'[r] =
              IF r \in S THEN ready_experiences[r] + 1 ELSE ready_experiences[r]
        BY <1>6, RowTypes DEF RecordFeedback, Plus, Once
    <2>2. ASSUME NEW r \in Requests PROVE Places(r)' = Places(r)
        <3>1. HeldBy(r) \in SUBSET Feedbacks
            BY DEF HeldBy
        <3>2. CASE r \in S
            <4>1. f \in HeldBy(r) /\ HeldBy(r)' = HeldBy(r) \ {f}
                BY <1>1, <1>2, <1>3, <1>4, <1>5, <1>6, <3>2 DEF HeldBy
            <4>2. Cardinality(HeldBy(r)') = Cardinality(HeldBy(r)) - 1 /\ Cardinality(HeldBy(r)) \in Nat
                BY <3>1, <4>1, HeldCount
            <4> QED BY <1>1, <2>1, <3>2, <4>2, RowTypes DEF Places
        <3>3. CASE r \notin S
            <4>1. HeldBy(r)' = HeldBy(r)
                BY <1>1, <1>2, <1>3, <1>4, <1>6, <3>3 DEF HeldBy
            <4> QED BY <1>1, <2>1, <3>3, <4>1 DEF Places
        <3> QED BY <3>2, <3>3
    <2>3. RowsFit'
        BY <1>1, <1>2, <1>3, <1>4, <1>6, <2>2 DEF RowsFit, None
    <2>4. RowsHeld'
        BY <1>1, <1>2, <1>3 DEF RowsHeld, Taking
    <2> QED BY <2>3, <2>4
<1>7. CASE CloseFails(f)
    <2>1. ready_experiences' = ready_experiences
        BY <1>7 DEF CloseFails
    <2>2. \A r \in Requests : HeldBy(r)' = HeldBy(r)
        BY <1>1, <1>2, <1>3, <1>4, <1>7 DEF HeldBy
    <2>3. \A r \in Requests : Places(r)' = Places(r)
        BY <1>1, <2>1, <2>2 DEF Places
    <2>4. \A r \in S : consumed[r] >= 1
        <3>1. ASSUME NEW r \in S PROVE consumed[r] >= 1
            <4>1. f \in HeldBy(r) /\ HeldBy(r) \in SUBSET Feedbacks
                BY <1>1 DEF HeldBy
            <4>2. Cardinality(HeldBy(r)) \in Nat /\ Cardinality(HeldBy(r) \ {f}) \in Nat
                  /\ Cardinality(HeldBy(r) \ {f}) = Cardinality(HeldBy(r)) - 1
                BY <4>1, HeldCount
            <4>3. Places(r) = consumed[r]
                BY <1>1 DEF RowsFit
            <4> QED BY <1>1, <4>2, <4>3, RowTypes DEF Places
        <3> QED BY <3>1
    <2>5. RowsFit'
        BY <1>1, <1>2, <1>3, <1>4, <1>7, <2>1, <2>3, <2>4 DEF RowsFit, None
    <2>6. RowsHeld'
        BY <1>1, <1>2, <1>3 DEF RowsHeld, Taking
    <2> QED BY <2>5, <2>6
<1> QED BY <1>6, <1>7

LEMMA RowsStep == TypeOK /\ TypeOK' /\ RowsFit /\ RowsHeld /\ [Next]_vars => RowsFit' /\ RowsHeld'
<1> SUFFICES ASSUME TypeOK, TypeOK', RowsFit, RowsHeld, [Next]_vars
             PROVE  RowsFit' /\ RowsHeld'
    OBVIOUS
<1>1. CASE UNCHANGED <<scenario, request, recordVars, committing, submitted>>
    BY <1>1, RowsStay
<1>2. ASSUME NEW r \in Requests, AllocateModel(r) \/ Arrive(r) \/ Finish(r) \/ RequestFails(r)
      PROVE  RowsFit' /\ RowsHeld'
    <2>1. UNCHANGED <<scenario, recordVars, committing, submitted>>
        BY <1>2 DEF AllocateModel, Arrive, Finish, RequestFails
    <2>2. request[r].pc # "recorded" /\ \A x \in Requests : x # r => request'[x] = request[x]
        BY <1>2 DEF AllocateModel, Arrive, Finish, RequestFails, TypeOK
    <2> QED BY <2>1, <2>2, RowsStay
<1>3. ASSUME NEW r \in Requests, RecordExperience(r) PROVE RowsFit' /\ RowsHeld'
    <2>1. UNCHANGED <<scenario, feedback, ready_experiences, committing, submitted>>
          /\ \A x \in Requests : x # r => request'[x] = request[x]
        BY <1>3 DEF RecordExperience, TypeOK
    <2>2. request[r].pc = "answered" /\ consumed[r] = -1
        BY <1>3 DEF RecordExperience, RowsFit
    <2>3. CASE UNCHANGED consumed
        BY <2>1, <2>2, <2>3, RowsStay
    <2>4. CASE ~UNCHANGED consumed
        <3>1. /\ request'[r].pc = "recorded"
              /\ \A x \in Requests : consumed'[x] = IF x = r THEN 0 ELSE consumed[x]
            <4>1. /\ request' = [request EXCEPT ![r] = [request[r] EXCEPT !.pc = "recorded"]]
                  /\ consumed' = [consumed EXCEPT ![r] = 0]
                BY <1>3, <2>4 DEF RecordExperience
            <4>2. request[r] \in [pc : {"answered", "recorded"}, label : Version, late : BOOLEAN,
                                  made : Version]
                BY <2>2, RequestTypes
            <4>3. [request[r] EXCEPT !.pc = "recorded"].pc = "recorded"
                BY <4>2
            <4> QED BY <4>1, <4>3 DEF TypeOK
        <3>2. \A f \in Feedbacks : feedback[f].found \subseteq Requests /\ r \notin feedback[f].found
            BY <2>2, RowTypes DEF RowsFit
        <3>3. RowsFit'
            <4>1. \A x \in Requests : Places(x)' = Places(x)
                BY <2>1, HeldStays DEF Places
            <4>2. \A f \in Feedbacks : feedback[f].lost \subseteq Requests /\ r \notin feedback[f].lost
                BY <2>2, RowTypes DEF RowsFit
            <4>3. \A x \in Requests : request'[x].pc # "recorded" => consumed'[x] = -1
                BY <2>1, <3>1 DEF RowsFit
            <4>4. \A f \in Feedbacks : \A x \in feedback'[f].lost : consumed'[x] >= 1
                BY <2>1, <3>1, <4>2 DEF RowsFit
            <4>5. \A f \in Feedbacks : \A x \in feedback'[f].found :
                      consumed'[x] # -1 /\ x \notin feedback'[f].lost
                BY <2>1, <3>1, <3>2 DEF RowsFit
            <4> QED BY <2>1, <2>2, <3>1, <4>1, <4>3, <4>4, <4>5 DEF RowsFit, None
        <3>4. RowsHeld'
            BY <2>1, <3>1, <3>2 DEF RowsHeld, Taking
        <3> QED BY <3>3, <3>4
    <2> QED BY <2>3, <2>4
<1>4. ASSUME NEW f \in Feedbacks, FeedbackStep(f) PROVE RowsFit' /\ RowsHeld'
    <2>1. CASE Feedback(f) \/ RetryFeedback(f)
        <3>1. feedback[f].asked \subseteq Requests /\ feedback[f].pc # "committed"
            BY <2>1 DEF Feedback, RetryFeedback, TypeOK, FeedbackState
        <3>2. \E msg_ids \in SUBSET Requests : Select(f, msg_ids)
            BY <2>1, <3>1 DEF Feedback, RetryFeedback
        <3> QED BY <3>1, <3>2, SelectStep
    <2>2. CASE UpdateReward(f)
        <3>1. feedback'[f] = [pc |-> "committed", attempt |-> feedback[f].attempt,
                              asked |-> feedback[f].asked, found |-> feedback[f].found,
                              lost |-> feedback[f].lost]
              /\ \A g \in Feedbacks : g # f => feedback'[g] = feedback[g]
            BY <2>2, FeedbackMoves DEF TypeOK
        <3> QED BY <2>2, <3>1, TakenStep DEF UpdateReward
    <2>3. CASE TransactionFails(f)
        <3>1. PICK taken \in {{}, feedback[f].found}, pc \in {"again", "failed"} :
                  /\ consumed' = Plus(consumed, Once(taken))
                  /\ feedback' = [feedback EXCEPT ![f] =
                         [pc |-> pc, attempt |-> feedback[f].attempt,
                          asked |-> feedback[f].asked, found |-> {},
                          lost |-> feedback[f].lost \cup taken]]
            BY <2>3, FeedbackMoves
        <3>2. feedback'[f] = [pc |-> pc, attempt |-> feedback[f].attempt,
                              asked |-> feedback[f].asked, found |-> {},
                              lost |-> feedback[f].lost \cup taken]
              /\ \A g \in Feedbacks : g # f => feedback'[g] = feedback[g]
            BY <3>1 DEF TypeOK
        <3>3. /\ feedback[f].pc = "found"
              /\ UNCHANGED <<scenario, request, ready_experiences, committing, submitted>>
            BY <2>3 DEF TransactionFails
        <3>4. /\ feedback'[f].pc # "found" /\ feedback'[f].found = {}
              /\ feedback'[f].lost = feedback[f].lost \cup taken
            BY <3>2
        <3>5. taken \in {{}, feedback[f].found} /\ consumed' = Plus(consumed, Once(taken))
            BY <3>1
        <3> QED BY <3>2, <3>3, <3>4, <3>5, TakenStep
    <2>4. CASE RecordFeedback(f) \/ CloseFails(f)
        BY <2>4, HandedOnStep
    <2> QED BY <1>4, <2>1, <2>2, <2>3, <2>4 DEF FeedbackStep
<1>6. ASSUME SubmitExperiences PROVE RowsFit' /\ RowsHeld'
    <2>1. UNCHANGED <<scenario, request, consumed, feedback, submitted>>
        BY <1>6 DEF SubmitExperiences
    <2>2. \A r \in Requests : /\ ready_experiences'[r] = 0
                              /\ committing'.experiences[r] = ready_experiences[r]
        BY <1>6 DEF SubmitExperiences, ClearReady, None
    <2>3. ASSUME NEW r \in Requests PROVE committing.experiences[r] = 0
        BY <1>6 DEF SubmitExperiences, RowsFit, None
    <2>4. \A r \in Requests : Places(r)' = Places(r)
        BY <2>1, <2>2, <2>3, HeldStays, RowTypes DEF Places
    <2>5. committing'.held
        BY <1>6 DEF SubmitExperiences
    <2> QED BY <2>1, <2>4, <2>5 DEF RowsFit, RowsHeld, Taking
<1>7. ASSUME Submitted PROVE RowsFit' /\ RowsHeld'
    <2>1. UNCHANGED <<scenario, request, recordVars>>
        BY <1>7 DEF Submitted
    <2>2. \A r \in Requests :
              /\ committing'.experiences[r] = 0
              /\ submitted'[r] = submitted[r] + committing.experiences[r]
        BY <1>7 DEF Submitted, None, Plus
    <2>3. \A r \in Requests : Places(r)' = Places(r)
        BY <2>1, <2>2, HeldStays, RowTypes DEF Places
    <2>4. committing'.experiences = None
        BY <1>7 DEF Submitted
    <2> QED BY <2>1, <2>3, <2>4 DEF RowsFit, RowsHeld, Taking, None
<1>8. QED
    <2>1. CASE \E r \in Requests : RequestStep(r)
        BY <2>1, <1>2, <1>3 DEF RequestStep
    <2>2. CASE \E f \in Feedbacks : FeedbackStep(f)
        BY <2>2, <1>4
    <2>3. CASE SubmitExperiences \/ Submitted
        BY <2>3, <1>6, <1>7
    <2>4. CASE SetLatestModelVersion \/ CheckFails
        BY <2>4, <1>1 DEF SetLatestModelVersion, CheckFails
    <2>5. CASE \E m \in Models : ModelStep(m)
        BY <2>5, <1>1 DEF ModelStep, CheckModel, Drained, SyncFails, Loaded
    <2>6. CASE Done \/ UNCHANGED vars
        BY <2>6, <1>1 DEF Done, vars
    <2> QED BY <2>1, <2>2, <2>3, <2>4, <2>5, <2>6 DEF Next

\* Every experience that a feedback has taken out of the database is in one
\* place, once for each time it was taken: with the call that took it, ready,
\* with a commit, or handed to the pipeline.
THEOREM ExperiencesAreKept == Spec => []TakenIsKept
<1>1. RowsFit => TakenIsKept
    BY DEF RowsFit, Places, TakenIsKept
<1> QED BY <1>1, TypeInit, TypeStep, RowsInit, RowsStep, PTL DEF Spec

\* With row locks, feedbacks for the same answer take it once, however they
\* overlap.
THEOREM ExperiencesAreTakenOnce == Spec => []TakenOnce
<1>1. RowsHeld => TakenOnce
    BY DEF RowsHeld, TakenOnce
<1> QED BY <1>1, TypeInit, TypeStep, RowsInit, RowsStep, PTL DEF Spec
=============================================================================

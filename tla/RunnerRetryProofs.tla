-------------------------- MODULE RunnerRetryProofs --------------------------
(***************************************************************************)
(* Proofs about a runner and its retries, for any number of sub tasks,     *)
(* repetitions and attempts and in every configuration.                    *)
(***************************************************************************)
EXTENDS RunnerRetry, FiniteSetTheorems, SequenceTheorems, TLAPS

USE DEF wrapperVars

-----------------------------------------------------------------------------
(* What the operators on calls do.                                         *)

LEMMA SetupTypes ==
    ASSUME TypeOK
    PROVE  /\ setup.repeat_times \in Nat /\ setup.repeat_times > 0
           /\ setup.retry_times \in Nat /\ setup.tasks \in Nat
           /\ setup.partial \in BOOLEAN /\ setup.history \in BOOLEAN
BY RunnerRetryAssumption DEF TypeOK

LEMMA OneCall ==
    ASSUME TypeOK, NEW c \in Calls
    PROVE  /\ calls[c] \in CallState /\ c \in Nat /\ c > 0
           /\ calls[c].task \in Nat /\ calls[c].running \in BOOLEAN
           /\ calls[c].abandoned \in BOOLEAN
           /\ calls[c].runs \in [Runs -> RunState] /\ calls[c].exps \in Found
<1>1. calls[c] \in CallState /\ c \in Nat /\ c > 0
    BY DEF TypeOK, Calls
<1> QED BY <1>1 DEF CallState

LEMMA NewCallType ==
    ASSUME NEW t \in Nat
    PROVE  /\ NewCall(t) \in CallState
           /\ NewCall(t).task = t /\ NewCall(t).running = TRUE /\ NewCall(t).abandoned = FALSE
           /\ NewCall(t).exps = {} /\ \A i \in Runs : NewCall(t).runs[i] = "new"
BY DEF NewCall, CallState, Found, Exps, RunState

LEMMA EndedCallType ==
    ASSUME TypeOK, NEW c \in Calls
    PROVE  /\ EndedCall(c) \in CallState
           /\ EndedCall(c).task = calls[c].task /\ EndedCall(c).running = FALSE
           /\ EndedCall(c).abandoned = calls[c].abandoned
           /\ EndedCall(c).exps = {} /\ \A i \in Runs : EndedCall(c).runs[i] = "new"
<1>1. calls[c].task \in Nat /\ calls[c].abandoned \in BOOLEAN
    BY OneCall
<1> DEFINE x == NewCall(calls[c].task)
<1>2. /\ x \in CallState /\ x.task = calls[c].task /\ x.exps = {}
      /\ \A i \in Runs : x.runs[i] = "new"
    BY <1>1, NewCallType
<1>3. EndedCall(c) = [x EXCEPT !.running = FALSE, !.abandoned = calls[c].abandoned]
    BY DEF EndedCall
<1> HIDE DEF x
<1> QED BY <1>1, <1>2, <1>3 DEF CallState

\* One call of the sequence replaced.
LEMMA Replaced ==
    ASSUME NEW s \in Seq(CallState), NEW c \in 1 .. Len(s), NEW x \in CallState
    PROVE  /\ [s EXCEPT ![c] = x] \in Seq(CallState)
           /\ Len([s EXCEPT ![c] = x]) = Len(s)
           /\ [s EXCEPT ![c] = x][c] = x
           /\ \A d \in 1 .. Len(s) : d # c => [s EXCEPT ![c] = x][d] = s[d]
OBVIOUS

LEMMA Appended ==
    ASSUME NEW s \in Seq(CallState), NEW x \in CallState
    PROVE  /\ Append(s, x) \in Seq(CallState)
           /\ Len(Append(s, x)) = Len(s) + 1
           /\ Append(s, x)[Len(s) + 1] = x
           /\ \A d \in 1 .. Len(s) : Append(s, x)[d] = s[d]
OBVIOUS

\* The wrapper leaves its call, which ends or is abandoned.
LEMMA Left ==
    ASSUME TypeOK, attempt > 0, NEW abandon \in BOOLEAN
    PROVE  /\ call \in Calls
           /\ Leave(abandon) \in Seq(CallState) /\ Len(Leave(abandon)) = Len(calls)
           /\ \A c \in Calls : c # call => Leave(abandon)[c] = calls[c]
           /\ Leave(abandon)[call].task = calls[call].task
           /\ IF abandon
              THEN /\ Leave(abandon)[call].abandoned = TRUE
                   /\ Leave(abandon)[call].running = calls[call].running
                   /\ Leave(abandon)[call].runs = calls[call].runs
                   /\ Leave(abandon)[call].exps = calls[call].exps
              ELSE /\ Leave(abandon)[call].abandoned = calls[call].abandoned
                   /\ Leave(abandon)[call].running = FALSE
                   /\ Leave(abandon)[call].exps = {}
                   /\ \A i \in Runs : Leave(abandon)[call].runs[i] = "new"
<1>1. call \in Calls /\ calls \in Seq(CallState)
    BY DEF TypeOK, Calls
<1> DEFINE x == IF abandon THEN [calls[call] EXCEPT !.abandoned = TRUE] ELSE EndedCall(call)
<1>2. /\ x \in CallState /\ x.task = calls[call].task
      /\ IF abandon
         THEN /\ x.abandoned = TRUE /\ x.running = calls[call].running
              /\ x.runs = calls[call].runs /\ x.exps = calls[call].exps
         ELSE /\ x.abandoned = calls[call].abandoned /\ x.running = FALSE
              /\ x.exps = {} /\ \A i \in Runs : x.runs[i] = "new"
    <2>1. calls[call] \in CallState
        BY <1>1, OneCall
    <2>2. CASE abandon
        BY <2>1, <2>2 DEF CallState
    <2>3. CASE ~abandon
        BY <1>1, <2>3, EndedCallType
    <2> QED BY <2>2, <2>3
<1>3. Leave(abandon) = [calls EXCEPT ![call] = x]
    BY DEF Leave
<1> HIDE DEF x
<1>4. Calls = 1 .. Len(calls)
    BY DEF Calls
<1>5. /\ [calls EXCEPT ![call] = x] \in Seq(CallState)
      /\ Len([calls EXCEPT ![call] = x]) = Len(calls)
      /\ [calls EXCEPT ![call] = x][call] = x
      /\ \A d \in 1 .. Len(calls) : d # call => [calls EXCEPT ![call] = x][d] = calls[d]
    BY <1>1, <1>2, <1>4, Replaced
<1> QED BY <1>1, <1>2, <1>3, <1>4, <1>5

\* What NextAttempt and Answer make of the wrapper and of the calls.
LEMMA Moved ==
    ASSUME TypeOK, attempt > 0, NEW abandon \in BOOLEAN,
           NEW completed \in 0 .. setup.repeat_times, NEW payload \in Found,
           NextAttempt(completed, payload, abandon)
           \/ (Answer(completed, payload) /\ calls' = Leave(abandon))
    PROVE  /\ task' = task
           /\ \/ /\ attempt' = attempt + 1 /\ attempt <= setup.retry_times
                 /\ call' = Len(calls) + 1 /\ exp_payload' = payload /\ result' = result
                 /\ calls' = Append(Leave(abandon), NewCall(task))
              \/ /\ attempt' = 0 /\ call' = 0 /\ exp_payload' = {}
                 /\ result' = Append(result, [completed |-> completed, payload |-> payload])
                 /\ calls' = Leave(abandon)
BY DEF NextAttempt, Answer

-----------------------------------------------------------------------------
(* Types.                                                                  *)

LEMMA TypeInit == Init => TypeOK
<1> SUFFICES ASSUME Init PROVE TypeOK
    OBVIOUS
<1>1. setup.retry_times \in Nat /\ setup.tasks \in Nat
    BY RunnerRetryAssumption DEF Init
<1> QED BY <1>1 DEF Init, TypeOK, Found

LEMMA TypeOfMove ==
    ASSUME TypeOK, attempt > 0, setup' = setup, history' = history, NEW abandon \in BOOLEAN,
           NEW completed \in 0 .. setup.repeat_times, NEW payload \in Found,
           NextAttempt(completed, payload, abandon)
           \/ (Answer(completed, payload) /\ calls' = Leave(abandon))
    PROVE  TypeOK'
<1>0. /\ setup.retry_times \in Nat /\ setup.tasks \in Nat
      /\ attempt \in 0 .. setup.retry_times + 1 /\ task \in 0 .. setup.tasks
      /\ result \in Seq(Outcome) /\ Len(calls) \in Nat
    BY SetupTypes DEF TypeOK
<1>1. /\ Found' = Found /\ CallState' = CallState /\ Outcome' = Outcome
    BY DEF Found, Exps, Runs, CallState, Outcome
<1>2. Leave(abandon) \in Seq(CallState) /\ Len(Leave(abandon)) = Len(calls)
    BY Left
<1>3. NewCall(task) \in CallState
    <2>1. task \in Nat
        BY <1>0
    <2> QED BY <2>1, NewCallType
<1>4. [completed |-> completed, payload |-> payload] \in Outcome
    BY DEF Outcome
<1>5. CASE /\ attempt' = attempt + 1 /\ attempt <= setup.retry_times
           /\ call' = Len(calls) + 1 /\ exp_payload' = payload /\ result' = result
           /\ calls' = Append(Leave(abandon), NewCall(task))
    <2>1. calls' \in Seq(CallState) /\ Len(calls') = Len(calls) + 1
        BY <1>2, <1>3, <1>5, Appended
    <2>2. attempt' \in 0 .. setup.retry_times + 1 /\ attempt' # 0
        BY <1>0, <1>5
    <2>3. call' \in 0 .. Len(calls') /\ call' # 0
        BY <1>0, <1>5, <2>1
    <2>4. task' = task
        BY Moved
    <2> QED BY <1>1, <1>5, <2>1, <2>2, <2>3, <2>4 DEF TypeOK
<1>6. CASE /\ attempt' = 0 /\ call' = 0 /\ exp_payload' = {}
           /\ result' = Append(result, [completed |-> completed, payload |-> payload])
           /\ calls' = Leave(abandon)
    <2>1. result' \in Seq(Outcome)
        BY <1>0, <1>4, <1>6
    <2>2. {} \in Found
        BY DEF Found
    <2>3. task' = task
        BY Moved
    <2>4. attempt' \in 0 .. setup.retry_times + 1 /\ call' \in 0 .. Len(calls')
        BY <1>0, <1>2, <1>6
    <2> QED BY <1>1, <1>2, <1>6, <2>1, <2>2, <2>3, <2>4 DEF TypeOK
<1> QED BY <1>5, <1>6, Moved

\* One call goes on.
LEMMA TypeOfCall ==
    ASSUME TypeOK, UNCHANGED <<setup, wrapperVars>>, NEW c \in Calls, NEW x \in CallState,
           calls' = [calls EXCEPT ![c] = x], history' \in Found
    PROVE  TypeOK'
<1>1. Found' = Found /\ CallState' = CallState /\ Outcome' = Outcome
    BY DEF Found, Exps, Runs, CallState, Outcome
<1>2. calls' \in Seq(CallState) /\ Len(calls') = Len(calls)
    BY Replaced DEF TypeOK, Calls
<1> QED BY <1>1, <1>2 DEF TypeOK

LEMMA CompletedType ==
    ASSUME TypeOK, NEW c \in Calls
    PROVE  CompletedRuns(c) \in 0 .. setup.repeat_times
<1>1. IsFiniteSet(Runs) /\ Cardinality(Runs) = setup.repeat_times
    <2>1. setup.repeat_times \in Nat /\ setup.repeat_times > 0 /\ 1 \in Int
        BY SetupTypes
    <2>2. IsFiniteSet(1 .. setup.repeat_times)
          /\ Cardinality(1 .. setup.repeat_times)
                 = IF 1 > setup.repeat_times THEN 0 ELSE setup.repeat_times - 1 + 1
        BY <2>1, FS_Interval, SMTT(30)
    <2> QED BY <2>1, <2>2 DEF Runs
<1>2. {i \in Runs : calls[c].runs[i] = "ok"} \in SUBSET Runs
    OBVIOUS
<1>3. /\ Cardinality({i \in Runs : calls[c].runs[i] = "ok"}) \in Nat
      /\ Cardinality({i \in Runs : calls[c].runs[i] = "ok"}) <= setup.repeat_times
    BY <1>1, <1>2, FS_Subset, FS_CardinalityType
<1> QED BY <1>3, SetupTypes DEF CompletedRuns

LEMMA TypeStep == TypeOK /\ [Next]_vars => TypeOK'
<1> SUFFICES ASSUME TypeOK, [Next]_vars PROVE TypeOK'
    OBVIOUS
<1>0. /\ {} \in Found /\ exp_payload \in Found /\ history \in Found
      /\ 0 \in 0 .. setup.repeat_times
    BY SetupTypes DEF TypeOK, Found
<1>1. ASSUME RunWithRetry PROVE TypeOK'
    <2>1. /\ attempt = 0 /\ task < setup.tasks /\ task' = task + 1 /\ attempt' = 1
          /\ exp_payload' = {} /\ call' = Len(calls) + 1 /\ calls' = Append(calls, NewCall(task + 1))
          /\ UNCHANGED <<setup, result, history>>
        BY <1>1 DEF RunWithRetry, Remote
    <2>2. Found' = Found /\ CallState' = CallState /\ Outcome' = Outcome
        BY <2>1 DEF Found, Exps, Runs, CallState, Outcome
    <2>3. task + 1 \in Nat /\ task' \in 0 .. setup.tasks /\ attempt' \in 0 .. setup.retry_times + 1
        BY <2>1, SetupTypes DEF TypeOK
    <2>4. calls' \in Seq(CallState) /\ Len(calls') = Len(calls) + 1 /\ Len(calls) \in Nat
        <3>1. NewCall(task + 1) \in CallState
            BY <2>3, NewCallType
        <3> QED BY <2>1, <3>1, Appended DEF TypeOK
    <2>5. call' \in 0 .. Len(calls') /\ call' # 0
        BY <2>1, <2>4
    <2> QED BY <1>0, <2>1, <2>2, <2>3, <2>4, <2>5 DEF TypeOK
<1>2. ASSUME AttemptTimesOut \/ AttemptRaises PROVE TypeOK'
    BY <1>0, <1>2, TypeOfMove DEF AttemptTimesOut, AttemptRaises
<1>3. ASSUME Cancelled PROVE TypeOK'
    BY <1>0, <1>3, TypeOfMove DEF Cancelled
<1>4. ASSUME RunTaskReturns PROVE TypeOK'
    <2>1. attempt > 0 /\ setup' = setup /\ history' = history
        BY <1>4 DEF RunTaskReturns
    <2>2. call \in Calls
        BY <2>1, Left
    <2>3. CompletedRuns(call) \in 0 .. setup.repeat_times /\ calls[call].exps \in Found
        BY <2>2, CompletedType, OneCall
    <2>4. \/ NextAttempt(CompletedRuns(call), calls[call].exps, FALSE)
          \/ (Answer(CompletedRuns(call), calls[call].exps) /\ calls' = Leave(FALSE))
        BY <1>4 DEF RunTaskReturns
    <2> QED BY <2>1, <2>3, <2>4, TypeOfMove
<1>5. ASSUME NEW c \in Calls, AbandonedReturns(c) PROVE TypeOK'
    <2>1. calls' = [calls EXCEPT ![c] = EndedCall(c)] /\ UNCHANGED <<setup, wrapperVars, history>>
        BY <1>5 DEF AbandonedReturns
    <2> QED BY <1>0, <2>1, EndedCallType, TypeOfCall
<1>6. ASSUME NEW c \in Calls, NEW i \in Runs, StartRun(c, i) PROVE TypeOK'
    <2>1. PICK r \in [Runs -> RunState] : calls' = [calls EXCEPT ![c] = [calls[c] EXCEPT !.runs = r]]
        <3>1. calls[c].runs \in [Runs -> RunState] /\ calls \in Seq(CallState) /\ c \in 1 .. Len(calls)
            BY OneCall DEF TypeOK, Calls
        <3>2. CASE Sequential
            <4>1. calls' = [calls EXCEPT ![c] = [calls[c] EXCEPT !.runs = [calls[c].runs EXCEPT ![i] = "started"]]]
                BY <1>6, <3>2 DEF StartRun
            <4>2. [calls[c].runs EXCEPT ![i] = "started"] \in [Runs -> RunState]
                BY <3>1 DEF RunState
            <4> QED BY <4>1, <4>2
        <3>3. CASE ~Sequential
            <4>1. calls' = [calls EXCEPT ![c] = [calls[c] EXCEPT !.runs = [j \in Runs |-> "started"]]]
                BY <1>6, <3>3 DEF StartRun
            <4>2. [j \in Runs |-> "started"] \in [Runs -> RunState]
                BY DEF RunState
            <4> QED BY <4>1, <4>2
        <3> QED BY <3>2, <3>3
    <2>2. [calls[c] EXCEPT !.runs = r] \in CallState
        BY OneCall DEF CallState
    <2> QED BY <1>0, <1>6, <2>1, <2>2, TypeOfCall DEF StartRun
<1>7. ASSUME NEW c \in Calls, NEW i \in Runs, NEW s \in RunState
      PROVE  [calls[c] EXCEPT !.runs[i] = s] \in CallState
    <2>1. [calls[c].runs EXCEPT ![i] = s] \in [Runs -> RunState] /\ calls[c] \in CallState
        BY OneCall
    <2> QED BY <2>1 DEF CallState
<1>8. ASSUME NEW c \in Calls, NEW i \in Runs PROVE <<c, i>> \in Exps
    BY OneCall DEF Exps
<1>9. ASSUME NEW c \in Calls, NEW i \in Runs, Respond(c, i) PROVE TypeOK'
    <2>1. calls' = [calls EXCEPT ![c] = [calls[c] EXCEPT !.runs[i] = "responded"]]
        BY <1>9 DEF Respond
    <2>2. history' \in Found /\ UNCHANGED <<setup, wrapperVars>>
        BY <1>0, <1>8, <1>9 DEF Respond, Found
    <2>3. [calls[c] EXCEPT !.runs[i] = "responded"] \in CallState
        BY <1>7 DEF RunState
    <2> QED BY <2>1, <2>2, <2>3, TypeOfCall
<1>10. ASSUME NEW c \in Calls, NEW i \in Runs, FinishRun(c, i) PROVE TypeOK'
    <2>1. PICK e \in Found : calls' = [calls EXCEPT ![c] = [calls[c] EXCEPT !.runs[i] = "ok", !.exps = e]]
        <3> DEFINE e == calls[c].exps \cup (IF SharedHistory THEN history ELSE {<<c, i>>})
        <3>1. e \in Found
            BY <1>0, <1>8, OneCall DEF Found
        <3>2. calls' = [calls EXCEPT ![c] = [calls[c] EXCEPT !.runs[i] = "ok", !.exps = e]]
            BY <1>10, OneCall DEF FinishRun, CallState, TypeOK, Calls
        <3> QED BY <3>1, <3>2
    <2>2. [calls[c] EXCEPT !.runs[i] = "ok", !.exps = e] \in CallState
        <3>1. [calls[c].runs EXCEPT ![i] = "ok"] \in [Runs -> RunState] /\ calls[c] \in CallState
            BY OneCall DEF RunState
        <3> QED BY <3>1 DEF CallState
    <2> QED BY <1>0, <1>10, <2>1, <2>2, TypeOfCall DEF FinishRun
<1>11. ASSUME NEW c \in Calls, NEW i \in Runs, FailRun(c, i) PROVE TypeOK'
    <2>1. calls' = [calls EXCEPT ![c] = [calls[c] EXCEPT !.runs[i] = "failed"]]
        BY <1>11 DEF FailRun
    <2>2. [calls[c] EXCEPT !.runs[i] = "failed"] \in CallState
        BY <1>7 DEF RunState
    <2> QED BY <1>0, <1>11, <2>1, <2>2, TypeOfCall DEF FailRun
<1>12. CASE UNCHANGED vars
    BY <1>12 DEF vars, TypeOK, Found, Exps, Runs, CallState, Outcome
<1> QED BY <1>1, <1>2, <1>3, <1>4, <1>5, <1>6, <1>9, <1>10, <1>11, <1>12 DEF Next, Done

\* The variables of the wrapper and of the actor keep their types.
THEOREM TypeCorrect == Spec => []TypeOK
BY TypeInit, TypeStep, PTL DEF Spec

-----------------------------------------------------------------------------
(* Experiences: those of a call are of its own finished runs, and those of *)
(* a result are of one call for its sub task.                              *)

OkRuns(c) == {i \in Runs : calls[c].runs[i] = "ok"}

CallFits(c) ==
    /\ ~SharesHistory => calls[c].exps = {<<c, i>> : i \in OkRuns(c)}
    /\ calls[c].exps # {} => OkRuns(c) # {}
    /\ ~Sequential => \A i, j \in Runs : calls[c].runs[i] = "new" => calls[c].runs[j] = "new"

\* While no call was abandoned only one is at work, and it empties the history
\* it shares before each of its runs, which take turns.
CallTakesTurns(c) ==
    calls[c].running =>
      /\ c = call
      /\ \A i \in Runs :
        /\ calls[c].runs[i] = "started" => history = {}
        /\ calls[c].runs[i] = "responded" => history = {<<c, i>>}
        /\ calls[c].runs[i] # "new" => \A j \in 1 .. i - 1 : calls[c].runs[j] \in Ended

CallsFit ==
    \A c \in Calls :
        /\ CallFits(c)
        /\ SharedHistory /\ ~SharesHistory => CallTakesTurns(c)

\* A payload that may come with the answer to the sub task.
OfOneCall(t, payload) == \E c \in Calls : calls[c].task = t /\ payload \subseteq {c} \X Runs

PayloadFits ==
    /\ Len(result) = IF attempt = 0 THEN task ELSE task - 1
    /\ attempt > 0 =>
        /\ calls[call].task = task /\ task > 0
        /\ setup.partial => exp_payload = {}
        /\ ~SharesHistory /\ exp_payload # {} => OfOneCall(task, exp_payload)

ResultFits(t) ==
    /\ result[t].payload # {} /\ ~SharesHistory => OfOneCall(t, result[t].payload)
    /\ result[t].completed > 0 /\ ~SharesHistory =>
           Cardinality(result[t].payload) = result[t].completed
    /\ result[t].completed = 0 /\ setup.partial => result[t].payload = {}

ResultsFit == \A t \in 1 .. Len(result) : ResultFits(t)

\* As many experiences as runs.
LEMMA OwnSize ==
    ASSUME TypeOK, NEW c
    PROVE  Cardinality({<<c, i>> : i \in OkRuns(c)}) = Cardinality(OkRuns(c))
<1> DEFINE T == {<<c, i>> : i \in OkRuns(c)}
           f == [i \in OkRuns(c) |-> <<c, i>>]
<1>1. IsFiniteSet(OkRuns(c))
    <2>1. IsFiniteSet(Runs)
        <3>1. setup.repeat_times \in Int /\ 1 \in Int
            BY SetupTypes
        <3> QED BY <3>1, FS_Interval DEF Runs
    <2> QED BY <2>1, FS_Subset DEF OkRuns
<1>2. ExistsBijection(OkRuns(c), T)
    <2>1. f \in [OkRuns(c) -> T]
        OBVIOUS
    <2>2. \A i, j \in OkRuns(c) : f[i] = f[j] => i = j
        OBVIOUS
    <2>3. \A e \in T : \E i \in OkRuns(c) : f[i] = e
        OBVIOUS
    <2> HIDE DEF f, T
    <2> QED BY <2>1, <2>2, <2>3 DEF ExistsBijection, Bijection, Injection, Surjection, IsInjective
<1> QED BY <1>1, <1>2, FS_Bijection

\* More calls, and more of them abandoned: what was found of a result stays true.
LEMMA ResultsStay ==
    ASSUME TypeOK, UNCHANGED setup, Len(calls') >= Len(calls), Len(calls') \in Nat,
           \A c \in Calls : calls'[c].task = calls[c].task,
           SharesHistory => SharesHistory'
    PROVE  /\ Calls \subseteq Calls'
           /\ \A t, payload : OfOneCall(t, payload) => OfOneCall(t, payload)'
           /\ \A t : ResultFits(t) /\ result'[t] = result[t] => ResultFits(t)'
<1>1. Calls \subseteq Calls' /\ Runs' = Runs
    BY DEF TypeOK, Calls, Runs
<1>2. \A t, payload : OfOneCall(t, payload) => OfOneCall(t, payload)'
    BY <1>1 DEF OfOneCall
<1>3. ASSUME NEW t, ResultFits(t), result'[t] = result[t] PROVE ResultFits(t)'
    BY <1>2, <1>3 DEF ResultFits
<1> QED BY <1>1, <1>2, <1>3

LEMMA FitsInit == Init => CallsFit /\ PayloadFits /\ ResultsFit
BY DEF Init, CallsFit, PayloadFits, ResultsFit, Calls

\* The wrapper goes on to its next attempt, or answers.
LEMMA FitsMove ==
    ASSUME TypeOK, CallsFit, PayloadFits, ResultsFit, attempt > 0,
           setup' = setup, history' = history, NEW abandon \in BOOLEAN,
           NEW completed \in 0 .. setup.repeat_times, NEW payload \in Found,
           NextAttempt(completed, payload, abandon)
           \/ (Answer(completed, payload) /\ calls' = Leave(abandon)),
           attempt' # 0 /\ setup.partial => completed = 0,
           setup.partial /\ completed = 0 => payload = {},
           ~SharesHistory /\ payload # {} => OfOneCall(task, payload),
           ~SharesHistory /\ completed > 0 => Cardinality(payload) = completed
    PROVE  CallsFit' /\ PayloadFits' /\ ResultsFit'
<1> DEFINE left == Leave(abandon)
<1>0. PICK k \in Calls : k = call
    BY Left
<1>1. /\ left \in Seq(CallState) /\ Len(left) = Len(calls) /\ Len(calls) \in Nat
      /\ \A c \in Calls : c # k => left[c] = calls[c]
      /\ left[k].task = calls[k].task
      /\ calls[k].task \in Nat
      /\ IF abandon
         THEN /\ left[k].abandoned = TRUE
              /\ left[k].runs = calls[k].runs /\ left[k].exps = calls[k].exps
         ELSE /\ left[k].abandoned = calls[k].abandoned
              /\ left[k].running = FALSE /\ left[k].exps = {}
              /\ \A i \in Runs : left[k].runs[i] = "new"
    <2>1. calls \in Seq(CallState) /\ Len(calls) \in Nat /\ calls[k].task \in Nat
        BY OneCall DEF TypeOK
    <2>2. CASE abandon
        BY <1>0, <2>1, <2>2, Left
    <2>3. CASE ~abandon
        BY <1>0, <2>1, <2>3, Left
    <2> QED BY <2>2, <2>3
<1> HIDE DEF left
<1>2. task \in Nat /\ NewCall(task) \in CallState
    <2>1. task \in Nat
        BY SetupTypes DEF TypeOK
    <2> QED BY <2>1, NewCallType
<1>3. Runs' = Runs /\ SharedHistory' = SharedHistory /\ Sequential' = Sequential
    BY DEF Runs, SharedHistory, Sequential
<1>4. /\ task' = task
      /\ \/ /\ attempt' = attempt + 1 /\ call' = Len(calls) + 1 /\ exp_payload' = payload
            /\ result' = result /\ calls' = Append(left, NewCall(task))
         \/ /\ attempt' = 0 /\ call' = 0
            /\ result' = Append(result, [completed |-> completed, payload |-> payload])
            /\ calls' = left
    BY Moved DEF left
<1>5. /\ calls' \in Seq(CallState) /\ Len(calls') \in Nat /\ Len(calls') >= Len(calls)
      /\ \A c \in Calls : calls'[c] = left[c]
      /\ \A c \in Calls' : c \in Calls \/ /\ c = Len(calls) + 1 /\ c = call'
                                          /\ calls'[c] = NewCall(task)
    <2>1. Calls = 1 .. Len(left) /\ Len(left) = Len(calls)
        BY <1>1 DEF Calls
    <2>2. CASE calls' = left
        BY <1>1, <2>1, <2>2 DEF Calls
    <2>3. CASE calls' = Append(left, NewCall(task)) /\ call' = Len(calls) + 1
        <3>1. /\ Append(left, NewCall(task)) \in Seq(CallState)
              /\ Len(Append(left, NewCall(task))) = Len(left) + 1
              /\ Append(left, NewCall(task))[Len(left) + 1] = NewCall(task)
              /\ \A d \in 1 .. Len(left) : Append(left, NewCall(task))[d] = left[d]
            BY <1>1, <1>2, Appended
        <3> QED BY <1>1, <2>1, <2>3, <3>1 DEF Calls
    <2> QED BY <1>4, <2>2, <2>3
<1>6. \A c \in Calls : calls'[c].task = calls[c].task
    BY <1>1, <1>5
<1>7. SharesHistory => SharesHistory'
    BY <1>1, <1>5 DEF SharesHistory, Calls
<1>8. /\ Calls \subseteq Calls'
      /\ \A t, p : OfOneCall(t, p) => OfOneCall(t, p)'
      /\ \A t : ResultFits(t) /\ result'[t] = result[t] => ResultFits(t)'
    BY <1>5, <1>6, <1>7, ResultsStay
<1>9. CallsFit'
    <2>1. ASSUME NEW c \in Calls', c \notin Calls
          PROVE  CallFits(c)' /\ CallTakesTurns(c)'
        <3>1. c = call' /\ calls'[c] = NewCall(task)
            BY <1>5, <2>1
        <3>2. calls'[c].exps = {} /\ \A i \in Runs : calls'[c].runs[i] = "new"
            <4>1. task \in Nat
                BY <1>2
            <4>2. NewCall(task).exps = {} /\ \A i \in Runs : NewCall(task).runs[i] = "new"
                BY <4>1, NewCallType
            <4> QED BY <3>1, <4>2
        <3> QED BY <1>3, <3>1, <3>2 DEF CallFits, CallTakesTurns, OkRuns
    <2>2. ASSUME NEW c \in Calls, c # k
          PROVE  CallFits(c)' /\ (SharedHistory /\ ~SharesHistory' => CallTakesTurns(c)')
        <3>1. calls'[c] = calls[c]
            BY <1>1, <1>5, <2>2
        <3>2. CallFits(c) /\ (SharedHistory /\ ~SharesHistory => CallTakesTurns(c))
            BY <2>2 DEF CallsFit
        <3>3. CallFits(c)'
            BY <1>3, <1>7, <3>1, <3>2 DEF CallFits, OkRuns
        <3>4. ASSUME SharedHistory, ~SharesHistory' PROVE CallTakesTurns(c)'
            <4>1. CallTakesTurns(c) /\ ~calls[c].running
                BY <1>0, <1>7, <2>2, <3>2, <3>4 DEF CallTakesTurns
            <4> QED BY <1>3, <3>1, <4>1 DEF CallTakesTurns
        <3> QED BY <3>3, <3>4
    <2>3. CallFits(k) /\ (SharedHistory /\ ~SharesHistory => CallTakesTurns(k))
        BY <1>1 DEF CallsFit
    <2>4. CASE abandon
        <3>1. SharedHistory => SharesHistory'
            BY <1>1, <1>3, <1>5, <1>8, <2>4 DEF SharesHistory, SharedHistory, Sequential
        <3>2. CallFits(k)'
            BY <1>1, <1>3, <1>5, <1>7, <2>3, <2>4 DEF CallFits, OkRuns
        <3> QED BY <1>1, <1>3, <2>1, <2>2, <3>1, <3>2 DEF CallsFit
    <2>5. CASE ~abandon
        <3>1. calls'[k].exps = {} /\ calls'[k].running = FALSE
              /\ \A i \in Runs : calls'[k].runs[i] = "new"
            BY <1>1, <1>5, <2>5
        <3>2. CallFits(k)' /\ CallTakesTurns(k)'
            BY <1>3, <3>1 DEF CallFits, CallTakesTurns, OkRuns
        <3> QED BY <1>1, <1>3, <2>1, <2>2, <3>2 DEF CallsFit
    <2> QED BY <2>4, <2>5
<1>10. PayloadFits /\ task > 0 /\ Len(result) = task - 1 /\ result \in Seq(Outcome)
    BY DEF PayloadFits, TypeOK
<1>11. CASE /\ attempt' = attempt + 1 /\ call' = Len(calls) + 1 /\ exp_payload' = payload
            /\ result' = result /\ calls' = Append(left, NewCall(task))
    <2>1. attempt' # 0 /\ attempt' > 0
        BY <1>11, SetupTypes DEF TypeOK
    <2>2. calls'[call'] = NewCall(task) /\ NewCall(task).task = task
        <3>1. Append(left, NewCall(task))[Len(left) + 1] = NewCall(task)
            BY <1>1, <1>2, Appended
        <3> QED BY <1>1, <1>2, <1>11, <3>1, NewCallType
    <2>3. PayloadFits'
        BY <1>4, <1>7, <1>8, <1>10, <1>11, <2>1, <2>2 DEF PayloadFits
    <2>4. ResultsFit'
        BY <1>8, <1>11 DEF ResultsFit
    <2> QED BY <1>9, <2>3, <2>4
<1>12. CASE /\ attempt' = 0 /\ call' = 0
            /\ result' = Append(result, [completed |-> completed, payload |-> payload])
            /\ calls' = left
    <2> DEFINE r == [completed |-> completed, payload |-> payload]
    <2>1. r.completed = completed /\ r.payload = payload
        OBVIOUS
    <2> HIDE DEF r
    <2>2. /\ Len(result') = task /\ result'[task] = r
          /\ \A t \in 1 .. Len(result) : result'[t] = result[t]
          /\ 1 .. Len(result') = 1 .. Len(result) \cup {task}
        <3>1. result' = Append(result, r)
            BY <1>12 DEF r
        <3> QED BY <1>2, <1>10, <3>1
    <2>3. PayloadFits'
        BY <1>4, <1>12, <2>2 DEF PayloadFits
    <2>4. PICK n \in Nat : n = task
        BY <1>2
    <2>5. ResultFits(n)'
        <3>1. ~SharesHistory' => ~SharesHistory
            BY <1>7
        <3>2. result'[n] = r
            BY <2>2, <2>4
        <3>3. ~SharesHistory /\ payload # {} => OfOneCall(n, payload)
            BY <2>4
        <3>4. ~SharesHistory' /\ payload # {} => OfOneCall(n, payload)'
            BY <1>8, <3>1, <3>3
        <3> QED BY <2>1, <3>1, <3>2, <3>4 DEF ResultFits
    <2>6. \A t \in 1 .. Len(result) : ResultFits(t)'
        BY <1>8, <2>2 DEF ResultsFit
    <2>7. ResultsFit'
        BY <2>2, <2>4, <2>5, <2>6 DEF ResultsFit
    <2> QED BY <1>9, <2>3, <2>7
<1> QED BY <1>4, <1>11, <1>12

\* The wrapper begins with its next sub task.
LEMMA FitsStart ==
    ASSUME TypeOK, CallsFit, PayloadFits, ResultsFit, RunWithRetry
    PROVE  CallsFit' /\ PayloadFits' /\ ResultsFit'
<1>1. /\ attempt = 0 /\ task' = task + 1 /\ attempt' = 1 /\ exp_payload' = {}
      /\ call' = Len(calls) + 1 /\ calls' = Append(calls, NewCall(task + 1))
      /\ setup' = setup /\ result' = result /\ history' = history
    BY DEF RunWithRetry, Remote
<1>2. /\ call = 0 /\ task \in Nat /\ task + 1 \in Nat /\ calls \in Seq(CallState)
      /\ Len(calls) \in Nat
    BY <1>1, SetupTypes DEF TypeOK
<1>3. Runs' = Runs /\ SharedHistory' = SharedHistory /\ Sequential' = Sequential
    BY <1>1 DEF Runs, SharedHistory, Sequential
<1>4. /\ NewCall(task + 1) \in CallState /\ NewCall(task + 1).task = task + 1
      /\ NewCall(task + 1).exps = {} /\ \A i \in Runs : NewCall(task + 1).runs[i] = "new"
    BY <1>2, NewCallType
<1>5. /\ Len(calls') = Len(calls) + 1 /\ calls'[call'] = NewCall(task + 1)
      /\ \A c \in 1 .. Len(calls) : calls'[c] = calls[c]
    <2>1. /\ Len(Append(calls, NewCall(task + 1))) = Len(calls) + 1
          /\ Append(calls, NewCall(task + 1))[Len(calls) + 1] = NewCall(task + 1)
          /\ \A d \in 1 .. Len(calls) : Append(calls, NewCall(task + 1))[d] = calls[d]
        BY <1>2, <1>4, Appended
    <2> QED BY <1>1, <2>1
<1>6. \A c \in Calls' : c \in Calls \/ c = call'
    BY <1>1, <1>2, <1>5 DEF Calls
<1>7. SharesHistory => SharesHistory'
    BY <1>1, <1>2, <1>5 DEF SharesHistory, Calls
<1>8. /\ Calls \subseteq Calls'
      /\ \A t : ResultFits(t) /\ result'[t] = result[t] => ResultFits(t)'
    <2>1. Len(calls') >= Len(calls) /\ Len(calls') \in Nat
        BY <1>2, <1>5
    <2>2. \A c \in Calls : calls'[c].task = calls[c].task
        BY <1>5 DEF Calls
    <2> QED BY <1>1, <1>7, <2>1, <2>2, ResultsStay
<1>9. CallsFit'
    <2>1. ASSUME NEW c \in Calls', c = call'
          PROVE  CallFits(c)' /\ CallTakesTurns(c)'
        BY <1>3, <1>4, <1>5, <2>1 DEF CallFits, CallTakesTurns, OkRuns
    <2>2. ASSUME NEW c \in Calls
          PROVE  CallFits(c)' /\ (SharedHistory /\ ~SharesHistory' => CallTakesTurns(c)')
        <3>1. calls'[c] = calls[c] /\ c # call
            BY <1>2, <1>5 DEF Calls
        <3>2. CallFits(c) /\ (SharedHistory /\ ~SharesHistory => CallTakesTurns(c))
            BY DEF CallsFit
        <3>3. CallFits(c)'
            BY <1>3, <1>7, <3>1, <3>2 DEF CallFits, OkRuns
        <3>4. ASSUME SharedHistory, ~SharesHistory' PROVE CallTakesTurns(c)'
            BY <1>7, <3>1, <3>2, <3>4 DEF CallTakesTurns
        <3> QED BY <3>3, <3>4
    <2> QED BY <1>3, <1>6, <2>1, <2>2 DEF CallsFit
<1>10. PayloadFits'
    <2>1. Len(result) = task
        BY <1>1 DEF PayloadFits
    <2>2. calls'[call'].task = task' /\ task' > 0 /\ attempt' # 0 /\ Len(result') = task' - 1
        BY <1>1, <1>2, <1>4, <1>5, <2>1
    <2> QED BY <1>1, <2>2 DEF PayloadFits
<1>11. ResultsFit'
    BY <1>1, <1>8 DEF ResultsFit
<1> QED BY <1>9, <1>10, <1>11

\* The actor goes on with one call.
LEMMA FitsCall ==
    ASSUME TypeOK, CallsFit, PayloadFits, ResultsFit, UNCHANGED <<setup, wrapperVars>>,
           NEW c \in Calls, NEW x \in CallState, calls' = [calls EXCEPT ![c] = x],
           x.task = calls[c].task, x.abandoned = calls[c].abandoned, calls[c].running,
           CallFits(c)', SharedHistory /\ ~SharesHistory => CallTakesTurns(c)'
    PROVE  CallsFit' /\ PayloadFits' /\ ResultsFit'
<1>1. /\ setup' = setup /\ task' = task /\ attempt' = attempt /\ call' = call
      /\ exp_payload' = exp_payload /\ result' = result
    OBVIOUS
<1>2. /\ Len(calls') = Len(calls) /\ Len(calls) \in Nat /\ calls'[c] = x
      /\ \A d \in Calls : d # c => calls'[d] = calls[d]
    BY Replaced DEF TypeOK, Calls
<1>3. /\ Runs' = Runs /\ SharedHistory' = SharedHistory /\ Sequential' = Sequential
      /\ Calls' = Calls
    BY <1>1, <1>2 DEF Runs, SharedHistory, Sequential, Calls
<1>4. \A d \in Calls : calls'[d].task = calls[d].task /\ calls'[d].abandoned = calls[d].abandoned
    BY <1>2
<1>5. SharesHistory' <=> SharesHistory
    BY <1>1, <1>3, <1>4 DEF SharesHistory
<1>6. /\ \A t, p : OfOneCall(t, p) => OfOneCall(t, p)'
      /\ \A t : ResultFits(t) /\ result'[t] = result[t] => ResultFits(t)'
    <2>1. Len(calls') >= Len(calls) /\ Len(calls') \in Nat
        BY <1>2
    <2> QED BY <1>1, <1>4, <1>5, <2>1, ResultsStay
<1>7. ASSUME NEW d \in Calls, d # c
      PROVE  CallFits(d)' /\ (SharedHistory /\ ~SharesHistory => CallTakesTurns(d)')
    <2>1. calls'[d] = calls[d]
        BY <1>2, <1>7
    <2>2. CallFits(d)'
        BY <1>3, <1>5, <2>1 DEF CallsFit, CallFits, OkRuns
    <2>3. ASSUME SharedHistory, ~SharesHistory PROVE CallTakesTurns(d)'
        <3>1. CallTakesTurns(c) /\ CallTakesTurns(d)
            BY <2>3 DEF CallsFit
        <3>2. ~calls[d].running
            BY <1>7, <3>1 DEF CallTakesTurns
        <3> QED BY <2>1, <3>2 DEF CallTakesTurns
    <2> QED BY <2>2, <2>3
<1>8. CallsFit'
    BY <1>3, <1>5, <1>7 DEF CallsFit
<1>9. PayloadFits'
    <2>1. attempt > 0 => call \in Calls
        BY DEF TypeOK, Calls
    <2> QED BY <1>1, <1>4, <1>5, <1>6, <2>1 DEF PayloadFits
<1>10. ResultsFit'
    BY <1>1, <1>6 DEF ResultsFit
<1> QED BY <1>8, <1>9, <1>10

LEMMA FitsReturns ==
    ASSUME TypeOK, CallsFit, PayloadFits, ResultsFit, RunTaskReturns
    PROVE  CallsFit' /\ PayloadFits' /\ ResultsFit'
<1> DEFINE n == CompletedRuns(call)
           e == calls[call].exps
<1>1. attempt > 0 /\ setup' = setup /\ history' = history /\ CallEnds(call)
    BY DEF RunTaskReturns
<1>2. PICK c \in Calls : c = call
    BY <1>1, Left
<1>3. n \in 0 .. setup.repeat_times /\ e \in Found
    BY <1>2, CompletedType, OneCall
<1>4. \/ NextAttempt(n, e, FALSE) /\ ~Enough(n)
      \/ Answer(n, e) /\ calls' = Leave(FALSE) /\ Enough(n)
    BY DEF RunTaskReturns
<1>5. CallFits(c) /\ calls[c].task = task
    BY <1>1, <1>2 DEF CallsFit, PayloadFits
<1>6. /\ n = IF e = {} THEN 0 ELSE Cardinality(OkRuns(c))
      /\ IsFiniteSet(OkRuns(c))
    <2>1. IsFiniteSet(OkRuns(c))
        <3>1. setup.repeat_times \in Int /\ 1 \in Int
            BY SetupTypes
        <3>2. IsFiniteSet(Runs)
            BY <3>1, FS_Interval DEF Runs
        <3> QED BY <3>2, FS_Subset DEF OkRuns
    <2> QED BY <1>2, <2>1 DEF CompletedRuns, OkRuns
<1>7. n = 0 => e = {}
    <2>1. SUFFICES ASSUME e # {} PROVE n # 0
        OBVIOUS
    <2>2. OkRuns(c) # {}
        BY <1>2, <1>5, <2>1 DEF CallFits
    <2> QED BY <1>6, <2>1, <2>2, FS_EmptySet
<1>8. ~SharesHistory => e = {<<c, i>> : i \in OkRuns(c)}
    BY <1>2, <1>5 DEF CallFits
<1>9. ~SharesHistory /\ e # {} => OfOneCall(task, e)
    BY <1>5, <1>8 DEF OfOneCall, OkRuns
<1>10. ~SharesHistory /\ n > 0 => Cardinality(e) = n
    <2>1. n > 0 => n = Cardinality(OkRuns(c))
        BY <1>6
    <2> QED BY <1>8, <2>1, OwnSize
<1>11. attempt' # 0 /\ setup.partial => n = 0
    <2>1. attempt' # 0 => ~Enough(n)
        BY <1>4 DEF Answer
    <2> QED BY <1>3, <2>1, SetupTypes DEF Enough
<1> HIDE DEF n, e
<1> QED BY <1>1, <1>3, <1>4, <1>7, <1>9, <1>10, <1>11, FitsMove

\* The runs and the experiences of one call, at a step of the actor.
LEMMA FitsRuns ==
    ASSUME TypeOK, CallsFit, PayloadFits, ResultsFit, UNCHANGED <<setup, wrapperVars>>,
           NEW c \in Calls, NEW r \in [Runs -> RunState], NEW e \in Found,
           calls' = [calls EXCEPT ![c] = [calls[c] EXCEPT !.runs = r, !.exps = e]],
           calls[c].running,
           ~SharesHistory => e = {<<c, i>> : i \in {j \in Runs : r[j] = "ok"}},
           e # {} => \E i \in Runs : r[i] = "ok",
           ~Sequential => \A i, j \in Runs : r[i] = "new" => r[j] = "new",
           SharedHistory /\ ~SharesHistory =>
               \A i \in Runs :
                  /\ r[i] = "started" => history' = {}
                  /\ r[i] = "responded" => history' = {<<c, i>>}
                  /\ r[i] # "new" => \A j \in 1 .. i - 1 : r[j] \in Ended
    PROVE  CallsFit' /\ PayloadFits' /\ ResultsFit'
<1> DEFINE x == [calls[c] EXCEPT !.runs = r, !.exps = e]
<1>1. calls[c] \in CallState
    BY OneCall
<1>2. /\ x \in CallState /\ x.task = calls[c].task /\ x.abandoned = calls[c].abandoned
      /\ x.running = calls[c].running /\ x.runs = r /\ x.exps = e
    BY <1>1 DEF CallState
<1> HIDE DEF x
<1>3. calls' = [calls EXCEPT ![c] = x]
    BY DEF x
<1>4. /\ calls'[c] = x /\ Len(calls') = Len(calls)
      /\ \A d \in 1 .. Len(calls) : d # c => calls'[d] = calls[d]
    <2>1. calls \in Seq(CallState) /\ c \in 1 .. Len(calls) /\ x \in CallState
        BY <1>2 DEF TypeOK, Calls
    <2>2. /\ [calls EXCEPT ![c] = x][c] = x /\ Len([calls EXCEPT ![c] = x]) = Len(calls)
          /\ \A d \in 1 .. Len(calls) : d # c => [calls EXCEPT ![c] = x][d] = calls[d]
        BY <2>1, Replaced
    <2> QED BY <1>3, <2>2
<1>5. Runs' = Runs /\ Sequential' = Sequential /\ call' = call
    BY DEF Runs, Sequential
<1>6. ~SharesHistory' => ~SharesHistory
    BY <1>2, <1>4 DEF SharesHistory, Calls
<1>7. CallFits(c)'
    BY <1>2, <1>4, <1>5, <1>6 DEF CallFits, OkRuns
<1>8. SharedHistory /\ ~SharesHistory => CallTakesTurns(c)'
    <2>1. SUFFICES ASSUME SharedHistory, ~SharesHistory PROVE CallTakesTurns(c)'
        OBVIOUS
    <2>2. c = call
        BY <2>1 DEF CallsFit, CallTakesTurns
    <2> QED BY <1>2, <1>4, <1>5, <2>1, <2>2 DEF CallTakesTurns
<1> QED BY <1>2, <1>3, <1>7, <1>8, FitsCall

LEMMA FitsActor ==
    ASSUME TypeOK, CallsFit, PayloadFits, ResultsFit, NEW c \in Calls, NEW i \in Runs,
           StartRun(c, i) \/ Respond(c, i) \/ FinishRun(c, i) \/ FailRun(c, i)
    PROVE  CallsFit' /\ PayloadFits' /\ ResultsFit'
<1> DEFINE q == calls[c].runs
           e == calls[c].exps
<1>0. /\ calls[c] \in CallState /\ q \in [Runs -> RunState] /\ e \in Found
      /\ history \in Found /\ <<c, i>> \in Exps /\ calls[c].running
      /\ UNCHANGED <<setup, wrapperVars>>
    <2>1. calls[c].running /\ UNCHANGED <<setup, wrapperVars>>
        BY DEF StartRun, Respond, FinishRun, FailRun, GoesOn
    <2> QED BY <2>1, OneCall DEF Exps, TypeOK
<1>1. /\ ~SharesHistory => e = {<<c, k>> : k \in {j \in Runs : q[j] = "ok"}}
      /\ e # {} => \E k \in Runs : q[k] = "ok"
      /\ ~Sequential => \A k, j \in Runs : q[k] = "new" => q[j] = "new"
    BY DEF CallsFit, CallFits, OkRuns
<1>2. SharedHistory /\ ~SharesHistory =>
          \A k \in Runs :
             /\ q[k] = "started" => history = {}
             /\ q[k] = "responded" => history = {<<c, k>>}
             /\ q[k] # "new" => \A j \in 1 .. k - 1 : q[j] \in Ended
    BY <1>0 DEF CallsFit, CallTakesTurns
<1>3. calls[c] = [calls[c] EXCEPT !.runs = q, !.exps = e]
    BY <1>0 DEF CallState
<1>4. \A k, j \in Runs : k = j \/ k \in 1 .. j - 1 \/ j \in 1 .. k - 1
    BY SetupTypes DEF Runs
<1>5. \A j \in Runs : 1 .. j - 1 \subseteq Runs /\ j \notin 1 .. j - 1
    BY SetupTypes DEF Runs
<1>6. CASE StartRun(c, i)
    <2>1. q[i] = "new" /\ history' = {}
        BY <1>6 DEF StartRun
    <2>2. CASE Sequential
        <3> DEFINE r == [q EXCEPT ![i] = "started"]
        <3>1. r \in [Runs -> RunState] /\ r[i] = "started" /\ \A j \in Runs : j # i => r[j] = q[j]
            BY <1>0 DEF RunState
        <3>2. \A j \in 1 .. i - 1 : q[j] \in Ended
            BY <1>6, <2>2 DEF StartRun
        <3>3. calls' = [calls EXCEPT ![c] = [calls[c] EXCEPT !.runs = r, !.exps = e]]
            <4>1. calls' = [calls EXCEPT ![c].runs[i] = "started"]
                BY <1>6, <2>2 DEF StartRun
            <4>2. calls' = [calls EXCEPT ![c] = [calls[c] EXCEPT !.runs = r]]
                BY <4>1
            <4>3. [calls[c] EXCEPT !.runs = r] = [calls[c] EXCEPT !.runs = r, !.exps = e]
                BY <1>0 DEF CallState
            <4> QED BY <4>2, <4>3
        <3> HIDE DEF r
        <3>4. \A j \in Runs : r[j] = "ok" <=> q[j] = "ok"
            BY <2>1, <3>1
        <3>5. /\ ~SharesHistory => e = {<<c, k>> : k \in {j \in Runs : r[j] = "ok"}}
              /\ e # {} => \E k \in Runs : r[k] = "ok"
            BY <1>1, <3>4
        <3>6. SharedHistory /\ ~SharesHistory =>
                  \A k \in Runs :
                     /\ r[k] = "started" => history' = {}
                     /\ r[k] = "responded" => history' = {<<c, k>>}
                     /\ r[k] # "new" => \A j \in 1 .. k - 1 : r[j] \in Ended
            <4>1. SUFFICES ASSUME SharedHistory, ~SharesHistory, NEW k \in Runs
                           PROVE  /\ r[k] # "responded"
                                  /\ r[k] # "new" => \A j \in 1 .. k - 1 : r[j] \in Ended
                BY <2>1
            <4>2. CASE k = i
                BY <1>5, <3>1, <3>2, <4>2
            <4>3. CASE k \in 1 .. i - 1
                BY <1>2, <1>5, <1>4, <3>1, <3>2, <4>1, <4>3 DEF Ended
            <4>4. CASE i \in 1 .. k - 1
                BY <1>2, <2>1, <3>1, <4>1, <4>4 DEF Ended
            <4> QED BY <1>4, <4>2, <4>3, <4>4
        <3> HIDE DEF q, e
        <3> QED BY <1>0, <2>2, <3>1, <3>3, <3>5, <3>6, FitsRuns
    <2>3. CASE ~Sequential
        <3> DEFINE r == [j \in Runs |-> "started"]
        <3>1. r \in [Runs -> RunState] /\ \A j \in Runs : r[j] = "started"
            BY DEF RunState
        <3>2. calls' = [calls EXCEPT ![c] = [calls[c] EXCEPT !.runs = r, !.exps = e]]
            <4>1. calls' = [calls EXCEPT ![c] = [calls[c] EXCEPT !.runs = r]]
                BY <1>6, <2>3 DEF StartRun
            <4>2. [calls[c] EXCEPT !.runs = r] = [calls[c] EXCEPT !.runs = r, !.exps = e]
                BY <1>0 DEF CallState
            <4> QED BY <4>1, <4>2
        <3>3. \A j \in Runs : q[j] = "new"
            BY <1>1, <2>1, <2>3
        <3>4. e = {}
            BY <1>1, <3>3
        <3>5. ~SharedHistory
            BY <2>3 DEF SharedHistory
        <3> HIDE DEF q, e, r
        <3>6. /\ ~SharesHistory => e = {<<c, k>> : k \in {j \in Runs : r[j] = "ok"}}
              /\ e # {} => \E k \in Runs : r[k] = "ok"
            BY <3>1, <3>4
        <3>7. \A k, j \in Runs : r[k] = "new" => r[j] = "new"
            BY <3>1
        <3> QED BY <1>0, <3>1, <3>2, <3>5, <3>6, <3>7, FitsRuns
    <2> QED BY <2>2, <2>3
<1>7. CASE Respond(c, i)
    <2> DEFINE r == [q EXCEPT ![i] = "responded"]
    <2>1. SharedHistory /\ Sequential /\ q[i] = "started" /\ history' = history \cup {<<c, i>>}
        BY <1>7 DEF Respond, SharedHistory
    <2>2. r \in [Runs -> RunState] /\ r[i] = "responded" /\ \A j \in Runs : j # i => r[j] = q[j]
        BY <1>0 DEF RunState
    <2>3. calls' = [calls EXCEPT ![c] = [calls[c] EXCEPT !.runs = r, !.exps = e]]
        <3>1. calls' = [calls EXCEPT ![c] = [calls[c] EXCEPT !.runs = r]]
            BY <1>7 DEF Respond
        <3>2. [calls[c] EXCEPT !.runs = r] = [calls[c] EXCEPT !.runs = r, !.exps = e]
            BY <1>0 DEF CallState
        <3> QED BY <3>1, <3>2
    <2> HIDE DEF r
    <2>4. \A j \in Runs : r[j] = "ok" <=> q[j] = "ok"
        BY <2>1, <2>2
    <2>5. /\ ~SharesHistory => e = {<<c, k>> : k \in {j \in Runs : r[j] = "ok"}}
          /\ e # {} => \E k \in Runs : r[k] = "ok"
        BY <1>1, <2>4
    <2>6. SharedHistory /\ ~SharesHistory =>
              \A k \in Runs :
                 /\ r[k] = "started" => history' = {}
                 /\ r[k] = "responded" => history' = {<<c, k>>}
                 /\ r[k] # "new" => \A j \in 1 .. k - 1 : r[j] \in Ended
        <3>1. SUFFICES ASSUME SharedHistory, ~SharesHistory, NEW k \in Runs
                       PROVE  /\ r[k] = "started" => history' = {}
                              /\ r[k] = "responded" => history' = {<<c, k>>}
                              /\ r[k] # "new" => \A j \in 1 .. k - 1 : r[j] \in Ended
            OBVIOUS
        <3>2. history' = {<<c, i>>} /\ \A j \in 1 .. i - 1 : q[j] \in Ended
            BY <1>2, <2>1, <3>1
        <3>3. CASE k = i
            BY <1>5, <2>2, <3>2, <3>3
        <3>4. CASE k \in 1 .. i - 1
            BY <1>2, <1>4, <1>5, <2>2, <3>1, <3>2, <3>4 DEF Ended
        <3>5. CASE i \in 1 .. k - 1
            BY <1>2, <2>1, <2>2, <3>1, <3>5 DEF Ended
        <3> QED BY <1>4, <3>3, <3>4, <3>5
    <2>7. history' \in Found
        BY <1>0, <2>1 DEF Found
    <2> HIDE DEF q, e
    <2> QED BY <1>0, <2>1, <2>2, <2>3, <2>5, <2>6, FitsRuns
<1>8. CASE FinishRun(c, i)
    <2> DEFINE r == [q EXCEPT ![i] = "ok"]
               f == e \cup (IF SharedHistory THEN history ELSE {<<c, i>>})
    <2>1. q[i] = (IF SharedHistory THEN "responded" ELSE "started") /\ history' = {}
        BY <1>8 DEF FinishRun
    <2>2. /\ r \in [Runs -> RunState] /\ r[i] = "ok" /\ \A j \in Runs : j # i => r[j] = q[j]
          /\ f \in Found
        BY <1>0 DEF RunState, Found
    <2>3. calls' = [calls EXCEPT ![c] = [calls[c] EXCEPT !.runs = r, !.exps = f]]
        BY <1>0, <1>8, OneCall DEF FinishRun, CallState, TypeOK, Calls
    <2>4. ~SharesHistory => f = e \cup {<<c, i>>}
        <3>1. SharedHistory /\ ~SharesHistory => history = {<<c, i>>}
            BY <1>2, <2>1
        <3> QED BY <3>1
    <2> HIDE DEF r, f
    <2>5. {j \in Runs : r[j] = "ok"} = {j \in Runs : q[j] = "ok"} \cup {i}
        BY <2>2
    <2>6. /\ ~SharesHistory => f = {<<c, k>> : k \in {j \in Runs : r[j] = "ok"}}
          /\ f # {} => \E k \in Runs : r[k] = "ok"
        <3>1. ~SharesHistory => f = {<<c, k>> : k \in {j \in Runs : q[j] = "ok"}} \cup {<<c, i>>}
            BY <1>1, <2>4
        <3> HIDE DEF q, e
        <3> QED BY <2>2, <2>5, <3>1
    <2>7. ~Sequential => \A k, j \in Runs : r[k] = "new" => r[j] = "new"
        BY <1>1, <2>1, <2>2
    <2>8. SharedHistory /\ ~SharesHistory =>
              \A k \in Runs :
                 /\ r[k] = "started" => history' = {}
                 /\ r[k] = "responded" => history' = {<<c, k>>}
                 /\ r[k] # "new" => \A j \in 1 .. k - 1 : r[j] \in Ended
        <3>1. SUFFICES ASSUME SharedHistory, ~SharesHistory, NEW k \in Runs
                       PROVE  /\ r[k] # "responded"
                              /\ r[k] # "new" => \A j \in 1 .. k - 1 : r[j] \in Ended
            BY <2>1
        <3>2. q[i] = "responded" /\ \A j \in 1 .. i - 1 : q[j] \in Ended
            BY <1>2, <2>1, <3>1
        <3>3. CASE k = i
            BY <1>5, <2>2, <3>2, <3>3
        <3>4. CASE k \in 1 .. i - 1
            BY <1>2, <1>4, <1>5, <2>2, <3>1, <3>2, <3>4 DEF Ended
        <3>5. CASE i \in 1 .. k - 1
            BY <1>2, <2>1, <2>2, <3>1, <3>2, <3>5 DEF Ended
        <3> QED BY <1>4, <3>3, <3>4, <3>5
    <2> HIDE DEF q, e
    <2> QED BY <1>0, <2>2, <2>3, <2>6, <2>7, <2>8, FitsRuns
<1>9. CASE FailRun(c, i)
    <2> DEFINE r == [q EXCEPT ![i] = "failed"]
    <2>1. q[i] \in {"started", "responded"} /\ history' = history
        BY <1>9 DEF FailRun
    <2>2. r \in [Runs -> RunState] /\ r[i] = "failed" /\ \A j \in Runs : j # i => r[j] = q[j]
        BY <1>0 DEF RunState
    <2>3. calls' = [calls EXCEPT ![c] = [calls[c] EXCEPT !.runs = r, !.exps = e]]
        <3>1. calls' = [calls EXCEPT ![c] = [calls[c] EXCEPT !.runs = r]]
            BY <1>9 DEF FailRun
        <3>2. [calls[c] EXCEPT !.runs = r] = [calls[c] EXCEPT !.runs = r, !.exps = e]
            BY <1>0 DEF CallState
        <3> QED BY <3>1, <3>2
    <2> HIDE DEF r
    <2>4. \A j \in Runs : r[j] = "ok" <=> q[j] = "ok"
        BY <2>1, <2>2
    <2>5. /\ ~SharesHistory => e = {<<c, k>> : k \in {j \in Runs : r[j] = "ok"}}
          /\ e # {} => \E k \in Runs : r[k] = "ok"
        BY <1>1, <2>4
    <2>6. ~Sequential => \A k, j \in Runs : r[k] = "new" => r[j] = "new"
        BY <1>1, <2>1, <2>2
    <2>7. SharedHistory /\ ~SharesHistory =>
              \A k \in Runs :
                 /\ r[k] = "started" => history' = {}
                 /\ r[k] = "responded" => history' = {<<c, k>>}
                 /\ r[k] # "new" => \A j \in 1 .. k - 1 : r[j] \in Ended
        BY <1>2, <1>5, <2>1, <2>2 DEF Ended
    <2> HIDE DEF q, e
    <2> QED BY <1>0, <2>2, <2>3, <2>5, <2>6, <2>7, FitsRuns
<1> QED BY <1>6, <1>7, <1>8, <1>9

LEMMA FitsStep == TypeOK /\ CallsFit /\ PayloadFits /\ ResultsFit /\ [Next]_vars
                    => CallsFit' /\ PayloadFits' /\ ResultsFit'
<1> SUFFICES ASSUME TypeOK, CallsFit, PayloadFits, ResultsFit, [Next]_vars
             PROVE  CallsFit' /\ PayloadFits' /\ ResultsFit'
    OBVIOUS
<1>0. /\ {} \in Found /\ exp_payload \in Found /\ 0 \in 0 .. setup.repeat_times
      /\ ~SharesHistory /\ exp_payload # {} /\ attempt > 0 => OfOneCall(task, exp_payload)
      /\ setup.partial /\ attempt > 0 => exp_payload = {}
    BY SetupTypes DEF TypeOK, Found, PayloadFits
<1>1. ASSUME NEW abandon \in BOOLEAN, NEW payload \in Found,
             attempt > 0, setup' = setup, history' = history,
             payload = exp_payload \/ payload = {},
             NextAttempt(0, payload, abandon) \/ (Answer(0, payload) /\ calls' = Leave(abandon))
      PROVE  CallsFit' /\ PayloadFits' /\ ResultsFit'
    <2>1. /\ setup.partial => payload = {}
          /\ ~SharesHistory /\ payload # {} => OfOneCall(task, payload)
        BY <1>0, <1>1
    <2> QED BY <1>0, <1>1, <2>1, FitsMove
<1>2. CASE AttemptTimesOut \/ AttemptRaises
    <2>1. PICK payload \in Found : payload = exp_payload
        BY <1>0
    <2>2. /\ attempt > 0 /\ setup' = setup /\ history' = history
          /\ NextAttempt(0, payload, TRUE) \/ NextAttempt(0, payload, FALSE)
        BY <1>2, <2>1 DEF AttemptTimesOut, AttemptRaises
    <2> QED BY <1>1, <2>1, <2>2
<1>3. CASE Cancelled
    <2>1. PICK payload \in Found : payload = {}
        BY <1>0
    <2>2. /\ attempt > 0 /\ setup' = setup /\ history' = history
          /\ Answer(0, payload) /\ calls' = Leave(FALSE)
        BY <1>3, <2>1 DEF Cancelled
    <2> QED BY <1>1, <2>1, <2>2
<1>4. ASSUME NEW c \in Calls, AbandonedReturns(c)
      PROVE  CallsFit' /\ PayloadFits' /\ ResultsFit'
    <2> DEFINE x == EndedCall(c)
    <2>1. /\ calls[c].running /\ calls' = [calls EXCEPT ![c] = x]
          /\ UNCHANGED <<setup, wrapperVars>>
        BY <1>4 DEF AbandonedReturns, CallEnds
    <2>2. /\ x \in CallState /\ x.task = calls[c].task /\ x.abandoned = calls[c].abandoned
          /\ x.running = FALSE /\ x.exps = {} /\ \A i \in Runs : x.runs[i] = "new"
        BY EndedCallType
    <2> HIDE DEF x
    <2>3. calls'[c] = x /\ Runs' = Runs
        <3>1. calls \in Seq(CallState) /\ c \in 1 .. Len(calls) /\ x \in CallState
            BY <2>2 DEF TypeOK, Calls
        <3>2. [calls EXCEPT ![c] = x][c] = x
            BY <3>1, Replaced
        <3> QED BY <2>1, <3>2 DEF Runs
    <2>4. CallFits(c)' /\ CallTakesTurns(c)'
        BY <2>2, <2>3 DEF CallFits, CallTakesTurns, OkRuns
    <2> QED BY <2>1, <2>2, <2>4, FitsCall
<1>5. CASE UNCHANGED vars
    BY <1>5, SMTT(30) DEF vars, CallsFit, PayloadFits, ResultsFit, CallFits, CallTakesTurns, OkRuns,
                OfOneCall, ResultFits, SharesHistory, SharedHistory, Sequential, Calls, Runs
<1> QED BY <1>2, <1>3, <1>4, <1>5, FitsStart, FitsReturns, FitsActor DEF Next, Done

LEMMA FitsAlways == Spec => [](TypeOK /\ CallsFit /\ PayloadFits /\ ResultsFit)
BY TypeInit, TypeStep, FitsInit, FitsStep, PTL DEF Spec

\* The experiences that run_with_retry returns for a sub task are of one attempt at that sub
\* task, and never of a call that was abandoned for another one.
THEOREM ExperiencesAreOwn == Spec => []OwnExperiences
<1>1. ResultsFit => OwnExperiences
    BY DEF ResultsFit, ResultFits, OfOneCall, OwnExperiences
<1> QED BY <1>1, FitsAlways, PTL

\* The status that run_with_retry returns counts the runs whose experiences are beside it.
THEOREM StatusIsTrue == Spec => []StatusFitsPayload
<1>1. ResultsFit => StatusFitsPayload
    BY DEF ResultsFit, ResultFits, StatusFitsPayload
<1> QED BY <1>1, FitsAlways, PTL
=============================================================================

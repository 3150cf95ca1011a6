----------------------- MODULE RolloutCoordinatorProofs -----------------------
(***************************************************************************)
(* Proofs about the rollout coordinator, for any number of batches, tasks  *)
(* and callers: what one lock per batch and one table of active ids give.  *)
(***************************************************************************)
EXTENDS RolloutCoordinator, FiniteSetTheorems, TLAPS

-----------------------------------------------------------------------------
(* Types, and that a call which is going on has a batch with an id.        *)

Named == \A b \in Batch : batches[b].state # "new" => batches[b].id \in BatchIds

Known ==
    \A c \in Clients : client[c].pc # "idle" =>
        client[c].b \in Batch /\ batches[client[c].b].state # "new"

\* What is registered was submitted, under its own id.
Registered ==
    \A id \in BatchIds : pending_batches[id] # 0 =>
        /\ batches[pending_batches[id]].id = id
        /\ batches[pending_batches[id]].state # "new"

TypeInv == TypeOK /\ Named /\ Known /\ Registered

LEMMA OneBatch ==
    ASSUME TypeOK, NEW b \in Batch
    PROVE  /\ batches[b] \in BatchState
           /\ batches[b].expected \in 0 .. MaxTasks /\ batches[b].min_wait_num \in 0 .. MaxTasks
           /\ batches[b].statuses \in Nat
           /\ batches[b].state \in {"new"} \cup Active \cup Terminal
           /\ batches[b].has_result \in BOOLEAN
<1>1. batches[b] \in BatchState
    BY DEF TypeOK
<1> QED BY <1>1 DEF BatchState

LEMMA OneClient ==
    ASSUME TypeInv, NEW c \in Clients
    PROVE  /\ client[c] \in ClientState
           /\ client[c].scheduled \in Nat /\ client[c].payloads \in SUBSET Task
           /\ client[c].waits \in SUBSET Task
           /\ client[c].pc # "idle" =>
                /\ client[c].b \in Batch /\ batches[client[c].b].state # "new"
                /\ batches[client[c].b].id \in BatchIds
<1>1. client[c] \in ClientState
    BY DEF TypeInv, TypeOK
<1> QED BY <1>1 DEF ClientState, TypeInv, Named, Known

LEMMA IdleType == Idle \in ClientState /\ Idle.pc = "idle"
BY DEF Idle, ClientState

LEMMA BatchFacts ==
    /\ MaxTasks \in Nat /\ MaxSubmits \in Nat /\ NoClient \notin Clients
    /\ 0 \notin Batch
    /\ \A b \in Batch, i \in 1 .. MaxTasks : <<b, i>> \in Task
    /\ \A k \in Task : k[1] \in Batch /\ k[2] \in 1 .. MaxTasks /\ k = <<k[1], k[2]>>
BY CoordinatorAssumption DEF Batch, Task

\* One entry of a table replaced.
LEMMA SetBatch ==
    ASSUME TypeOK, NEW b \in Batch, NEW x \in BatchState, batches' = [batches EXCEPT ![b] = x]
    PROVE  /\ batches' \in [Batch -> BatchState] /\ batches'[b] = x
           /\ \A d \in Batch : d # b => batches'[d] = batches[d]
BY DEF TypeOK

LEMMA SetClient ==
    ASSUME TypeOK, NEW c \in Clients, NEW x \in ClientState, client' = [client EXCEPT ![c] = x]
    PROVE  /\ client' \in [Clients -> ClientState] /\ client'[c] = x
           /\ \A d \in Clients : d # c => client'[d] = client[d]
BY DEF TypeOK

LEMMA SetLock ==
    ASSUME TypeOK, NEW b \in Batch, NEW x \in Clients \cup {NoClient},
           finalize_lock' = [finalize_lock EXCEPT ![b] = x]
    PROVE  /\ finalize_lock' \in [Batch -> Clients \cup {NoClient}] /\ finalize_lock'[b] = x
           /\ \A d \in Batch : d # b => finalize_lock'[d] = finalize_lock[d]
BY DEF TypeOK

LEMMA SetFailures ==
    ASSUME TypeOK, NEW b \in Batch, failures' = [failures EXCEPT ![b] = @ + 1]
    PROVE  failures' \in [Batch -> Nat]
BY DEF TypeOK

LEMMA Moved ==
    ASSUME TypeOK, NEW keys, NEW state \in TaskState
    PROVE  /\ Move(keys, state) \in [Task -> TaskState]
           /\ \A k \in Task : Move(keys, state)[k] = IF k \in keys THEN state ELSE task[k]
BY DEF Move, TypeOK

LEMMA Evicted ==
    ASSUME TypeOK, NEW id \in BatchIds
    PROVE  /\ Evict(id) \in [BatchIds -> Batch \cup {0}] /\ Evict(id)[id] = 0
           /\ \A j \in BatchIds : j # id => Evict(id)[j] = pending_batches[j]
BY DEF Evict, TypeOK

\* The calls of c with which the others have to do: Leave, FinishBatch, StartCleanup.
LEMMA Leaving ==
    ASSUME TypeOK, NEW c \in Clients, NEW b \in Batch, client[c].b = b, Leave(c)
    PROVE  /\ client' \in [Clients -> ClientState] /\ client'[c] = Idle
           /\ \A d \in Clients : d # c => client'[d] = client[d]
           /\ finalize_lock' \in [Batch -> Clients \cup {NoClient}]
           /\ finalize_lock'[b] = NoClient
           /\ \A d \in Batch : d # b => finalize_lock'[d] = finalize_lock[d]
BY IdleType, SetClient, SetLock DEF Leave

LEMMA Finishing ==
    ASSUME TypeInv, NEW c \in Clients, NEW b \in Batch, client[c].b = b,
           batches[b].state # "new", NEW n \in Nat, NEW kept \in [Task -> TaskState],
           FinishBatch(c, b, n, kept)
    PROVE  /\ Leave(c)
           /\ batches' \in [Batch -> BatchState]
           /\ \A d \in Batch : d # b => batches'[d] = batches[d]
           /\ batches'[b].id = batches[b].id /\ batches'[b].statuses = n
           /\ batches'[b].expected = batches[b].expected
           /\ batches'[b].min_wait_num = batches[b].min_wait_num
           /\ \/ /\ scheduler = "none" /\ task' = kept
                 /\ batches'[b].state = batches[b].state
                 /\ batches'[b].has_result = batches[b].has_result
                 /\ UNCHANGED <<pending_batches, task_num_map>>
              \/ /\ scheduler # "none"
                 /\ batches'[b].state = "finalized" /\ batches'[b].has_result = TRUE
                 /\ task' = [k \in Task |-> IF IdOf(k) = batches[b].id /\ kept[k] = "cached"
                                            THEN "dropped" ELSE kept[k]]
                 /\ pending_batches' = Evict(batches[b].id)
                 /\ task_num_map' = [task_num_map EXCEPT ![batches[b].id] = 0]
           /\ failures' \in [Batch -> Nat]
<1> DEFINE x == IF scheduler = "none" THEN [batches[b] EXCEPT !.statuses = n]
                ELSE [batches[b] EXCEPT !.statuses = n, !.state = "finalized", !.has_result = TRUE]
<1>0. TypeOK /\ batches[b] \in BatchState
    BY OneBatch DEF TypeInv
<1>1. /\ x \in BatchState /\ x.id = batches[b].id /\ x.statuses = n
      /\ x.expected = batches[b].expected /\ x.min_wait_num = batches[b].min_wait_num
      /\ scheduler = "none" => x.state = batches[b].state /\ x.has_result = batches[b].has_result
      /\ scheduler # "none" => x.state = "finalized" /\ x.has_result = TRUE
    <2>1. CASE scheduler = "none"
        BY <1>0, <2>1 DEF BatchState, Terminal
    <2>2. CASE scheduler # "none"
        BY <1>0, <2>2 DEF BatchState, Terminal
    <2> QED BY <2>1, <2>2
<1>2. batches' = [batches EXCEPT ![b] = x]
    BY DEF FinishBatch
<1>3. /\ Leave(c)
      /\ \/ /\ scheduler = "none" /\ task' = kept
            /\ UNCHANGED <<pending_batches, task_num_map>>
            /\ failures' = [failures EXCEPT ![b] = @ + 1]
         \/ /\ scheduler # "none" /\ UNCHANGED failures
            /\ task' = [k \in Task |-> IF IdOf(k) = batches[b].id /\ kept[k] = "cached"
                                       THEN "dropped" ELSE kept[k]]
            /\ pending_batches' = Evict(batches[b].id)
            /\ task_num_map' = [task_num_map EXCEPT ![batches[b].id] = 0]
    BY DEF FinishBatch
<1>4. failures' \in [Batch -> Nat]
    <2>1. CASE UNCHANGED failures
        BY <1>0, <2>1 DEF TypeOK
    <2>2. CASE failures' = [failures EXCEPT ![b] = @ + 1]
        BY <1>0, <2>2, SetFailures
    <2> QED BY <1>3, <2>1, <2>2
<1> HIDE DEF x
<1>5. /\ batches' \in [Batch -> BatchState] /\ batches'[b] = x
      /\ \A d \in Batch : d # b => batches'[d] = batches[d]
    BY <1>0, <1>1, <1>2, SetBatch
<1> QED BY <1>1, <1>3, <1>4, <1>5

LEMMA CleaningUp ==
    ASSUME TypeOK, NEW c \in Clients, NEW id \in BatchIds, NEW call \in ClientState,
           StartCleanup(c, id, call)
    PROVE  /\ task' \in [Task -> TaskState]
           /\ \A k \in Task : IF IdOf(k) = id /\ task[k] = "running"
                              THEN task'[k] \in {"dropped", "cancelling"}
                              ELSE task'[k] = task[k]
           /\ task_num_map' \in [BatchIds -> Nat] /\ task_num_map'[id] = 0
           /\ \A j \in BatchIds : j # id => task_num_map'[j] = task_num_map[j]
           /\ client' \in [Clients -> ClientState]
           /\ \A d \in Clients : d # c => client'[d] = client[d]
           /\ client'[c].pc = call.pc /\ client'[c].b = call.b
           /\ client'[c].scheduled = call.scheduled /\ client'[c].payloads = call.payloads
           /\ \A k \in Task : IdOf(k) = id /\ task[k] = "running" /\ task'[k] = "cancelling"
                                 => k \in client'[c].waits
<1>1. PICK queued \in SUBSET {k \in Task : IdOf(k) = id /\ task[k] = "running"} :
        LET cancelled == {k \in Task : IdOf(k) = id /\ task[k] = "running"} \ queued IN
        /\ task' = [k \in Task |-> IF k \in queued THEN "dropped"
                                   ELSE IF k \in cancelled THEN "cancelling" ELSE task[k]]
        /\ task_num_map' = [task_num_map EXCEPT ![id] = 0]
        /\ client' = [client EXCEPT ![c] = [call EXCEPT !.waits = cancelled]]
    BY DEF StartCleanup
<1> DEFINE cancelled == {k \in Task : IdOf(k) = id /\ task[k] = "running"} \ queued
           x == [call EXCEPT !.waits = cancelled]
<1>2. /\ x \in ClientState /\ x.pc = call.pc /\ x.b = call.b /\ x.waits = cancelled
      /\ x.scheduled = call.scheduled /\ x.payloads = call.payloads
    BY DEF ClientState
<1>3. client' = [client EXCEPT ![c] = x]
    BY <1>1
<1>4. task' = [k \in Task |-> IF k \in queued THEN "dropped"
                              ELSE IF k \in cancelled THEN "cancelling" ELSE task[k]]
    BY <1>1
<1>5. task' \in [Task -> TaskState]
    BY <1>4 DEF TypeOK, TaskState
<1>6. \A k \in Task : IF IdOf(k) = id /\ task[k] = "running"
                      THEN /\ task'[k] \in {"dropped", "cancelling"}
                           /\ task'[k] = "cancelling" => k \in cancelled
                      ELSE task'[k] = task[k]
    BY <1>4
<1>7. /\ task_num_map' \in [BatchIds -> Nat] /\ task_num_map'[id] = 0
      /\ \A j \in BatchIds : j # id => task_num_map'[j] = task_num_map[j]
    BY <1>1 DEF TypeOK
<1> HIDE DEF x, cancelled
<1>8. /\ client' \in [Clients -> ClientState] /\ client'[c] = x
      /\ \A d \in Clients : d # c => client'[d] = client[d]
    BY <1>2, <1>3, SetClient
<1> QED BY <1>2, <1>5, <1>6, <1>7, <1>8

\* Enter: to the end, or into the call with the lock.
LEMMA Entering ==
    ASSUME TypeInv, NEW c \in Clients, NEW b \in Batch, batches[b].state # "new", Enter(c, b)
    PROVE  /\ client' \in [Clients -> ClientState]
           /\ \A d \in Clients : d # c => client'[d] = client[d]
           /\ finalize_lock' \in [Batch -> Clients \cup {NoClient}]
           /\ \A d \in Batch : d # b => finalize_lock'[d] = finalize_lock[d]
           /\ \/ client'[c].pc = "idle" /\ finalize_lock'[b] = finalize_lock[b]
              \/ /\ ~HasResult(b) /\ client'[c].b = b /\ finalize_lock'[b] = c
                 /\ client'[c].pc = IF IsEval(b) THEN "statuses" ELSE "results"
                 /\ client'[c].scheduled = task_num_map[batches[b].id]
<1>0. TypeOK /\ task_num_map[batches[b].id] \in Nat
    BY DEF TypeInv, TypeOK, Named
<1>1. CASE client' = [client EXCEPT ![c] = Idle] /\ UNCHANGED finalize_lock
    <2>1. /\ client' \in [Clients -> ClientState] /\ client'[c] = Idle
          /\ \A d \in Clients : d # c => client'[d] = client[d]
        BY <1>0, <1>1, IdleType, SetClient
    <2> QED BY <1>0, <1>1, <2>1, IdleType DEF TypeOK
<1>2. CASE /\ ~HasResult(b)
           /\ client' = [client EXCEPT ![c] =
                [Idle EXCEPT !.pc = IF IsEval(b) THEN "statuses" ELSE "results",
                             !.b = b, !.scheduled = task_num_map[batches[b].id]]]
           /\ finalize_lock' = [finalize_lock EXCEPT ![b] = c]
    <2> DEFINE x == [Idle EXCEPT !.pc = IF IsEval(b) THEN "statuses" ELSE "results",
                                 !.b = b, !.scheduled = task_num_map[batches[b].id]]
    <2>1. /\ x \in ClientState /\ x.b = b /\ x.scheduled = task_num_map[batches[b].id]
          /\ x.pc = IF IsEval(b) THEN "statuses" ELSE "results"
        BY <1>0 DEF Idle, ClientState
    <2>2. client' = [client EXCEPT ![c] = x]
        BY <1>2
    <2> HIDE DEF x
    <2>3. /\ client' \in [Clients -> ClientState] /\ client'[c] = x
          /\ \A d \in Clients : d # c => client'[d] = client[d]
        BY <1>0, <2>1, <2>2, SetClient
    <2>4. /\ finalize_lock' \in [Batch -> Clients \cup {NoClient}] /\ finalize_lock'[b] = c
          /\ \A d \in Batch : d # b => finalize_lock'[d] = finalize_lock[d]
        BY <1>0, <1>2, SetLock
    <2> QED BY <1>2, <2>1, <2>3, <2>4
<1> QED BY <1>1, <1>2 DEF Enter

LEMMA TypeInit == Init => TypeInv
<1> SUFFICES ASSUME Init PROVE TypeInv
    OBVIOUS
<1>0. MaxTasks \in Nat
    BY CoordinatorAssumption
<1>1. NewBatch \in BatchState /\ NewBatch.state = "new"
    BY <1>0 DEF NewBatch, BatchState
<1>2. TypeOK
    <2>1. batches \in [Batch -> BatchState] /\ client \in [Clients -> ClientState]
        BY <1>1, IdleType DEF Init
    <2>2. task \in [Task -> TaskState]
        BY DEF Init, TaskState
    <2> QED BY <2>1, <2>2 DEF Init, TypeOK
<1>3. Known
    BY IdleType DEF Init, Known
<1> QED BY <1>1, <1>2, <1>3 DEF Init, TypeInv, Named, Registered

\* A step that submits nothing keeps the ids, and the batches of the calls.
LEMMA Going ==
    ASSUME TypeInv, TypeOK',
           \A b \in Batch : /\ batches[b].state # "new" <=> batches'[b].state # "new"
                            /\ batches'[b].id = batches[b].id,
           \A id \in BatchIds : pending_batches'[id] \in {0, pending_batches[id]},
           \A c \in Clients :
              \/ client'[c].pc = "idle"
              \/ client'[c].b \in Batch /\ batches[client'[c].b].state # "new"
    PROVE  TypeInv'
<1>1. Named'
    BY DEF TypeInv, Named
<1>2. Known'
    BY DEF Known
<1>3. Registered'
    BY DEF TypeInv, TypeOK, Registered
<1> QED BY <1>1, <1>2, <1>3 DEF TypeInv

\* One call of c on b goes on or ends.
LEMMA GoingOn ==
    ASSUME TypeInv, TypeOK', NEW c \in Clients, NEW b \in Batch, batches[b].state # "new",
           \A d \in Clients : d # c => client'[d] = client[d],
           client'[c].pc = "idle" \/ client'[c].b = b,
           \A d \in Batch : d # b => batches'[d] = batches[d],
           batches'[b].state # "new" /\ batches'[b].id = batches[b].id,
           \A id \in BatchIds : pending_batches'[id] \in {0, pending_batches[id]}
    PROVE  TypeInv'
<1>1. \A d \in Clients :
              \/ client'[d].pc = "idle"
              \/ client'[d].b \in Batch /\ batches[client'[d].b].state # "new"
    BY DEF TypeInv, Known
<1>2. \A d \in Batch : /\ batches[d].state # "new" <=> batches'[d].state # "new"
                       /\ batches'[d].id = batches[d].id
    OBVIOUS
<1> QED BY <1>1, <1>2, Going

LEMMA TypeOfTask ==
    ASSUME TypeInv, task' \in [Task -> TaskState],
           UNCHANGED <<batches, pending_batches, finalize_lock, task_num_map, client,
                       processed, shutdownVars, failures>>
    PROVE  TypeInv'
BY DEF TypeInv, TypeOK, Named, Known, Registered, shutdownVars

\* What schedule() takes of n tasks.
Scheduled(n) == IF scheduler = "none" THEN 0 ELSE n

LEMMA TypeOfSubmit ==
    ASSUME TypeInv, NEW b \in Batch, NEW id \in BatchIds, NEW n \in 0 .. MaxTasks,
           NEW min \in 0 .. MaxTasks, SubmitBatch(b, id, n, min)
    PROVE  /\ TypeInv' /\ batches[b].state = "new"
           /\ batches'[b].id = id /\ batches'[b].expected = n /\ batches'[b].min_wait_num = min
           /\ batches'[b].state \in {"running", "pending"} /\ batches'[b].has_result = FALSE
           /\ batches'[b].statuses = 0
           /\ \A d \in Batch : d # b => batches'[d] = batches[d]
           /\ pending_batches'[id] = b
           /\ \A j \in BatchIds : j # id => pending_batches'[j] = pending_batches[j]
           /\ \A k \in Task : task'[k] = IF k[1] = b /\ k[2] <= Scheduled(n) THEN "running" ELSE task[k]
           /\ task_num_map'[id] = task_num_map[id] + Scheduled(n)
           /\ \A j \in BatchIds : j # id => task_num_map'[j] = task_num_map[j]
<1> DEFINE m == IF scheduler = "none" THEN 0 ELSE n
           x == [NewBatch EXCEPT !.id = id, !.expected = n, !.min_wait_num = min,
                                 !.state = IF m > 0 THEN "running" ELSE "pending"]
<1>0. TypeOK /\ MaxTasks \in Nat /\ m \in {0, n} /\ m \in Nat /\ m <= MaxTasks
    BY BatchFacts DEF TypeInv
<1>1. /\ x \in BatchState /\ x.id = id /\ x.expected = n /\ x.min_wait_num = min
      /\ x.statuses = 0 /\ x.state \in {"running", "pending"} /\ x.has_result = FALSE
    BY <1>0 DEF NewBatch, BatchState, Active
<1>2. /\ batches' = [batches EXCEPT ![b] = x]
      /\ pending_batches' = [pending_batches EXCEPT ![id] = b]
      /\ task' = Move({b} \X (1 .. m), "running")
      /\ task_num_map' = [task_num_map EXCEPT ![id] = @ + m]
      /\ UNCHANGED <<finalize_lock, client, processed, shutdownVars, failures>>
      /\ \A d \in Batch : d < b <=> batches[d].state # "new"
    BY DEF SubmitBatch
<1>3. batches[b].state = "new"
    BY <1>2 DEF Batch
<1> HIDE DEF x, m
<1>4. /\ batches' \in [Batch -> BatchState] /\ batches'[b] = x
      /\ \A d \in Batch : d # b => batches'[d] = batches[d]
    BY <1>0, <1>1, <1>2, SetBatch
<1>5. /\ task' \in [Task -> TaskState]
      /\ \A k \in Task : task'[k] = IF k \in {b} \X (1 .. m) THEN "running" ELSE task[k]
    BY <1>0, <1>2, Moved DEF TaskState
<1>6. \A k \in Task : k \in {b} \X (1 .. m) <=> k[1] = b /\ k[2] <= m
    <2>1. SUFFICES ASSUME NEW k \in Task PROVE k \in {b} \X (1 .. m) <=> k[1] = b /\ k[2] <= m
        OBVIOUS
    <2>2. k[2] \in 1 .. MaxTasks /\ k = <<k[1], k[2]>>
        BY BatchFacts
    <2> QED BY <1>0, <2>2
<1>7. /\ task_num_map' \in [BatchIds -> Nat] /\ task_num_map'[id] = task_num_map[id] + m
      /\ \A j \in BatchIds : j # id => task_num_map'[j] = task_num_map[j]
    BY <1>0, <1>2 DEF TypeOK
<1>8. /\ pending_batches' \in [BatchIds -> Batch \cup {0}] /\ pending_batches'[id] = b
      /\ \A j \in BatchIds : j # id => pending_batches'[j] = pending_batches[j]
    BY <1>0, <1>2 DEF TypeOK
<1>9. TypeInv'
    <2>1. TypeOK'
        BY <1>0, <1>2, <1>4, <1>5, <1>7, <1>8 DEF TypeOK, shutdownVars
    <2>2. Named'
        BY <1>1, <1>4 DEF TypeInv, Named
    <2>3. Known'
        BY <1>1, <1>2, <1>4 DEF TypeInv, Known
    <2>4. Registered'
        <3>1. \A j \in BatchIds : j # id /\ pending_batches[j] # 0 => pending_batches[j] # b
            BY <1>3 DEF TypeInv, Registered
        <3>2. \A j \in BatchIds : pending_batches[j] \in Batch \cup {0}
            BY <1>0 DEF TypeOK
        <3> QED BY <1>1, <1>4, <1>8, <3>1, <3>2 DEF TypeInv, Registered
    <2> QED BY <2>1, <2>2, <2>3, <2>4 DEF TypeInv
<1>10. /\ \A k \in Task : task'[k] = IF k[1] = b /\ k[2] <= m THEN "running" ELSE task[k]
       /\ m = Scheduled(n)
    BY <1>5, <1>6 DEF m, Scheduled
<1> QED BY <1>1, <1>3, <1>4, <1>7, <1>8, <1>9, <1>10

LEMMA CachedIsFinite ==
    ASSUME NEW id
    PROVE  /\ Cached(id) \in SUBSET Task /\ IsFiniteSet(Cached(id))
           /\ Cardinality(Cached(id)) \in Nat
<1>1. IsFiniteSet(Task)
    <2>1. MaxSubmits \in Int /\ MaxTasks \in Int /\ 1 \in Int
        BY BatchFacts
    <2>2. IsFiniteSet(1 .. MaxSubmits) /\ IsFiniteSet(1 .. MaxTasks)
        BY <2>1, FS_Interval
    <2> QED BY <2>2, FS_Product DEF Task, Batch
<1>2. Cached(id) \in SUBSET Task
    BY DEF Cached
<1> QED BY <1>1, <1>2, FS_Subset, FS_CardinalityType

LEMMA PayloadResultsDoes ==
    ASSUME TypeInv, NEW c \in Clients, NEW b \in Batch, client[c].b = b, PayloadResults(c)
    PROVE  /\ client[c].pc = "results" /\ TypeInv'
           /\ UNCHANGED <<pending_batches, task_num_map, processed, shutdownVars>>
           /\ \A k \in Task : task'[k] = IF k \in Cached(batches[b].id) THEN "taken" ELSE task[k]
           /\ \/ /\ TooFew(b, Cardinality(Cached(batches[b].id)))
                 /\ UNCHANGED batches /\ Leave(c)
              \/ /\ ~TooFew(b, Cardinality(Cached(batches[b].id)))
                 /\ UNCHANGED finalize_lock
                 /\ \A d \in Clients : d # c => client'[d] = client[d]
                 /\ client'[c].pc = "pipeline" /\ client'[c].b = b
                 /\ client'[c].payloads = Cached(batches[b].id)
                 /\ \A d \in Batch : d # b => batches'[d] = batches[d]
                 /\ batches'[b].id = batches[b].id
                 /\ batches'[b].expected = batches[b].expected
                 /\ batches'[b].min_wait_num = batches[b].min_wait_num
                 /\ batches'[b].statuses = Cardinality(Cached(batches[b].id))
                 /\ batches'[b].state = "finalizing"
                 /\ batches'[b].has_result = batches[b].has_result
<1>0. TypeOK /\ client[c].pc = "results"
    BY DEF TypeInv, PayloadResults
<1>1. batches[b].state # "new" /\ client[c] \in ClientState
    BY <1>0, OneClient
<1> DEFINE drained == Cached(batches[b].id)
           n == Cardinality(drained)
<1>2. n \in Nat /\ drained \in SUBSET Task
    BY CachedIsFinite
<1>3. /\ UNCHANGED <<pending_batches, task_num_map, processed, shutdownVars>>
      /\ task' = Move(drained, "taken")
      /\ \/ /\ TooFew(b, n) /\ Leave(c) /\ UNCHANGED batches
            /\ failures' = [failures EXCEPT ![b] = @ + 1]
         \/ /\ ~TooFew(b, n) /\ UNCHANGED <<finalize_lock, failures>>
            /\ batches' = [batches EXCEPT ![b] = [@ EXCEPT !.statuses = n, !.state = "finalizing"]]
            /\ client' = [client EXCEPT ![c] = [@ EXCEPT !.pc = "pipeline", !.payloads = drained]]
    BY DEF PayloadResults
<1> HIDE DEF drained, n
<1>4. /\ task' \in [Task -> TaskState]
      /\ \A k \in Task : task'[k] = IF k \in drained THEN "taken" ELSE task[k]
    BY <1>0, <1>3, Moved DEF TaskState
<1>5. CASE TooFew(b, n) /\ Leave(c) /\ UNCHANGED batches /\ failures' = [failures EXCEPT ![b] = @ + 1]
    <2>1. /\ client' \in [Clients -> ClientState] /\ client'[c] = Idle
          /\ \A d \in Clients : d # c => client'[d] = client[d]
          /\ finalize_lock' \in [Batch -> Clients \cup {NoClient}]
        BY <1>0, <1>5, Leaving
    <2>2. failures' \in [Batch -> Nat]
        BY <1>0, <1>5, SetFailures
    <2>3. TypeOK'
        BY <1>0, <1>3, <1>4, <1>5, <2>1, <2>2 DEF TypeOK, shutdownVars
    <2>4. TypeInv'
        BY <1>1, <1>3, <1>5, <2>1, <2>3, IdleType, GoingOn DEF TypeInv
    <2> QED BY <1>0, <1>3, <1>4, <1>5, <2>4 DEF drained, n
<1>6. CASE /\ ~TooFew(b, n) /\ UNCHANGED <<finalize_lock, failures>>
           /\ batches' = [batches EXCEPT ![b] = [@ EXCEPT !.statuses = n, !.state = "finalizing"]]
           /\ client' = [client EXCEPT ![c] = [@ EXCEPT !.pc = "pipeline", !.payloads = drained]]
    <2> DEFINE x == [batches[b] EXCEPT !.statuses = n, !.state = "finalizing"]
               y == [client[c] EXCEPT !.pc = "pipeline", !.payloads = drained]
    <2>1. /\ x \in BatchState /\ x.id = batches[b].id /\ x.expected = batches[b].expected
          /\ x.min_wait_num = batches[b].min_wait_num /\ x.statuses = n /\ x.state = "finalizing"
          /\ x.has_result = batches[b].has_result
        BY <1>0, <1>2, OneBatch, ZenonT(40) DEF BatchState, Active
    <2>2. y \in ClientState /\ y.pc = "pipeline" /\ y.b = b /\ y.payloads = drained
        BY <1>1, <1>2 DEF ClientState
    <2>3. batches' = [batches EXCEPT ![b] = x] /\ client' = [client EXCEPT ![c] = y]
        BY <1>0, <1>6 DEF TypeOK
    <2> HIDE DEF x, y
    <2>4. /\ batches' \in [Batch -> BatchState] /\ batches'[b] = x
          /\ \A d \in Batch : d # b => batches'[d] = batches[d]
        BY <1>0, <2>1, <2>3, SetBatch
    <2>5. /\ client' \in [Clients -> ClientState] /\ client'[c] = y
          /\ \A d \in Clients : d # c => client'[d] = client[d]
        BY <1>0, <2>2, <2>3, SetClient
    <2>6. TypeOK'
        BY <1>0, <1>3, <1>4, <1>6, <2>4, <2>5 DEF TypeOK, shutdownVars
    <2>7. TypeInv'
        BY <1>1, <1>3, <2>1, <2>2, <2>4, <2>5, <2>6, GoingOn
    <2> QED BY <1>0, <1>3, <1>4, <1>6, <2>1, <2>2, <2>4, <2>5, <2>7 DEF drained, n
<1> QED BY <1>3, <1>5, <1>6

\* FinishBatch as a step of its own.
LEMMA FinishingTypes ==
    ASSUME TypeInv, NEW c \in Clients, NEW b \in Batch, client[c].b = b,
           batches[b].state # "new", NEW n \in Nat, NEW kept \in [Task -> TaskState],
           FinishBatch(c, b, n, kept), processed' \in SUBSET Task, UNCHANGED shutdownVars
    PROVE  TypeInv'
<1>0. TypeOK /\ batches[b].id \in BatchIds
    BY DEF TypeInv, Named
<1>1. /\ client' \in [Clients -> ClientState] /\ client'[c] = Idle
      /\ \A d \in Clients : d # c => client'[d] = client[d]
      /\ finalize_lock' \in [Batch -> Clients \cup {NoClient}]
    BY <1>0, Finishing, Leaving
<1>2. /\ batches' \in [Batch -> BatchState] /\ failures' \in [Batch -> Nat]
      /\ \A d \in Batch : d # b => batches'[d] = batches[d]
      /\ batches'[b].id = batches[b].id /\ batches'[b].state # "new"
    <2>1. batches'[b].state = batches[b].state \/ batches'[b].state = "finalized"
        BY Finishing
    <2> QED BY <2>1, Finishing
<1>3. /\ task' \in [Task -> TaskState]
      /\ pending_batches' \in [BatchIds -> Batch \cup {0}]
      /\ \A id \in BatchIds : pending_batches'[id] \in {0, pending_batches[id]}
      /\ task_num_map' \in [BatchIds -> Nat]
    <2>1. CASE task' = kept /\ UNCHANGED <<pending_batches, task_num_map>>
        BY <1>0, <2>1 DEF TypeOK
    <2>2. CASE /\ task' = [k \in Task |-> IF IdOf(k) = batches[b].id /\ kept[k] = "cached"
                                          THEN "dropped" ELSE kept[k]]
               /\ pending_batches' = Evict(batches[b].id)
               /\ task_num_map' = [task_num_map EXCEPT ![batches[b].id] = 0]
        <3>1. task' \in [Task -> TaskState]
            BY <2>2 DEF TaskState
        <3>2. task_num_map' \in [BatchIds -> Nat]
            BY <1>0, <2>2 DEF TypeOK
        <3> QED BY <1>0, <2>2, <3>1, <3>2, Evicted
    <2>3. \/ task' = kept /\ UNCHANGED <<pending_batches, task_num_map>>
          \/ /\ task' = [k \in Task |-> IF IdOf(k) = batches[b].id /\ kept[k] = "cached"
                                          THEN "dropped" ELSE kept[k]]
             /\ pending_batches' = Evict(batches[b].id)
             /\ task_num_map' = [task_num_map EXCEPT ![batches[b].id] = 0]
        BY DEF FinishBatch
    <2> QED BY <2>1, <2>2, <2>3
<1>4. TypeOK'
    BY <1>0, <1>1, <1>2, <1>3 DEF TypeOK, shutdownVars
<1> QED BY <1>1, <1>2, <1>3, <1>4, IdleType, GoingOn

\* StartCleanup as a step of its own.
LEMMA CleaningTypes ==
    ASSUME TypeInv, NEW c \in Clients, NEW b \in Batch, batches[b].state # "new",
           NEW call \in ClientState, call.b = b, StartCleanup(c, batches[b].id, call),
           UNCHANGED <<batches, pending_batches, finalize_lock, shutdownVars, failures>>,
           processed' \in SUBSET Task
    PROVE  TypeInv'
<1>0. TypeOK /\ batches[b].id \in BatchIds
    BY DEF TypeInv, Named
<1>1. /\ task' \in [Task -> TaskState] /\ task_num_map' \in [BatchIds -> Nat]
      /\ client' \in [Clients -> ClientState] /\ client'[c].b = b
      /\ \A d \in Clients : d # c => client'[d] = client[d]
    BY <1>0, CleaningUp
<1>2. TypeOK'
    BY <1>0, <1>1 DEF TypeOK, shutdownVars
<1> QED BY <1>1, <1>2, GoingOn

\* A call ends with another state of its batch.
LEMMA RestoringTypes ==
    ASSUME TypeInv, NEW c \in Clients, NEW b \in Batch, batches[b].state # "new",
           client' = [client EXCEPT ![c] = Idle],
           finalize_lock' \in [Batch -> Clients \cup {NoClient}],
           NEW x \in BatchState, batches' = [batches EXCEPT ![b] = x],
           x.id = batches[b].id, x.state # "new",
           task' \in [Task -> TaskState], task_num_map' \in [BatchIds -> Nat],
           failures' \in [Batch -> Nat], processed' \in SUBSET Task,
           pending_batches' \in [BatchIds -> Batch \cup {0}],
           \A id \in BatchIds : pending_batches'[id] \in {0, pending_batches[id]},
           UNCHANGED shutdownVars
    PROVE  /\ TypeInv' /\ batches'[b] = x
           /\ \A d \in Batch : d # b => batches'[d] = batches[d]
<1>0. TypeOK
    BY DEF TypeInv
<1>2. /\ batches' \in [Batch -> BatchState] /\ batches'[b] = x
      /\ \A d \in Batch : d # b => batches'[d] = batches[d]
    BY <1>0, SetBatch
<1>3. /\ client' \in [Clients -> ClientState] /\ client'[c] = Idle
      /\ \A d \in Clients : d # c => client'[d] = client[d]
    BY <1>0, IdleType, SetClient
<1>4. TypeOK'
    BY <1>0, <1>2, <1>3 DEF TypeOK, shutdownVars
<1>6. TypeInv'
    BY <1>2, <1>3, <1>4, IdleType, GoingOn
<1> QED BY <1>2, <1>6

LEMMA PipelineDoneTypes ==
    ASSUME TypeInv, NEW c \in Clients, PipelineDone(c) PROVE TypeInv'
<1>0. TypeOK /\ client[c].pc = "pipeline"
    BY DEF TypeInv, PipelineDone
<1>1. PICK b \in Batch : b = client[c].b /\ batches[b].state # "new" /\ batches[b].id \in BatchIds
    BY <1>0, OneClient
<1>2. processed' \in SUBSET Task /\ UNCHANGED shutdownVars
    <2>1. processed' = processed \cup client[c].payloads /\ UNCHANGED shutdownVars
        BY DEF PipelineDone
    <2>2. client[c].payloads \in SUBSET Task
        BY OneClient
    <2> QED BY <1>0, <2>1, <2>2 DEF TypeOK
<1>3. CASE Incomplete(b)
    <2> DEFINE call == [client[c] EXCEPT !.pc = "cleanup"]
    <2>1. /\ StartCleanup(c, batches[b].id, call)
          /\ UNCHANGED <<batches, pending_batches, finalize_lock, shutdownVars, failures>>
        BY <1>1, <1>2, <1>3 DEF PipelineDone
    <2>2. call \in ClientState /\ call.b = b
        BY <1>1, OneClient DEF ClientState
    <2> HIDE DEF call
    <2> QED BY <1>1, <1>2, <2>1, <2>2, CleaningTypes
<1>4. CASE ~Incomplete(b)
    <2>1. PICK n \in Nat, kept \in [Task -> TaskState] : n = batches[b].statuses /\ kept = task
        BY <1>0, OneBatch DEF TypeOK
    <2>2. FinishBatch(c, b, n, kept)
        BY <1>1, <1>4, <2>1 DEF PipelineDone
    <2> QED BY <1>1, <1>2, <2>2, FinishingTypes
<1> QED BY <1>3, <1>4

LEMMA CleanupDoneTypes ==
    ASSUME TypeInv, NEW c \in Clients, CleanupDone(c) PROVE TypeInv'
<1>0. TypeOK /\ client[c].pc = "cleanup" /\ UNCHANGED <<processed, shutdownVars>>
    BY DEF TypeInv, CleanupDone
<1>1. PICK b \in Batch : b = client[c].b /\ batches[b].state # "new"
    BY <1>0, OneClient
<1>2. PICK n \in Nat, kept \in [Task -> TaskState] : n = batches[b].statuses /\ kept = task
    BY <1>0, OneBatch DEF TypeOK
<1>3. FinishBatch(c, b, n, kept) /\ processed' \in SUBSET Task
    BY <1>0, <1>1, <1>2 DEF CleanupDone, TypeOK
<1> QED BY <1>0, <1>1, <1>3, FinishingTypes

LEMMA DrainEvalTypes ==
    ASSUME TypeInv, NEW c \in Clients, client[c].pc # "idle", DrainEval(c),
           UNCHANGED <<processed, shutdownVars>>
    PROVE  TypeInv'
<1>0. TypeOK
    BY DEF TypeInv
<1>1. PICK b \in Batch : b = client[c].b /\ batches[b].state # "new"
    BY <1>0, OneClient
<1>2. PICK n \in Nat, kept \in [Task -> TaskState] :
        /\ n = Cardinality(Cached(batches[b].id))
        /\ kept = Move(Cached(batches[b].id), "taken")
    BY <1>0, CachedIsFinite, Moved DEF TaskState
<1>3. FinishBatch(c, b, n, kept) /\ processed' \in SUBSET Task
    BY <1>0, <1>1, <1>2 DEF DrainEval, TypeOK
<1> QED BY <1>1, <1>3, FinishingTypes

LEMMA RestoreActiveDoes ==
    ASSUME TypeInv, NEW c \in Clients, NEW b \in Batch, b = client[c].b, RestoreActive(c)
    PROVE  /\ client[c].pc = "pipeline" /\ TypeInv' /\ Leave(c)
           /\ UNCHANGED <<pending_batches, schedulerVars, shutdownVars>>
           /\ \A d \in Batch : d # b => batches'[d] = batches[d]
           /\ batches'[b].id = batches[b].id /\ batches'[b].state \in {"running", "pending"}
           /\ batches'[b].expected = batches[b].expected
           /\ batches'[b].min_wait_num = batches[b].min_wait_num
<1>0. TypeOK /\ client[c].pc = "pipeline"
    BY DEF TypeInv, RestoreActive
<1>1. batches[b].state # "new"
    BY <1>0, OneClient
<1>2. /\ Leave(c) /\ failures' = [failures EXCEPT ![b] = @ + 1]
      /\ UNCHANGED <<pending_batches, schedulerVars, shutdownVars>>
      /\ processed' = processed \/ processed' = processed \cup client[c].payloads
    BY DEF RestoreActive
<1>3. PICK x \in BatchState :
        /\ batches' = [batches EXCEPT ![b] = x]
        /\ x.id = batches[b].id /\ x.state \in {"running", "pending"}
        /\ x.expected = batches[b].expected /\ x.min_wait_num = batches[b].min_wait_num
    <2> DEFINE state == IF batches[b].expected = 0 THEN "pending" ELSE "running"
               x == [batches[b] EXCEPT !.state = state]
    <2>1. batches' = [batches EXCEPT ![b].state = state]
        BY DEF RestoreActive
    <2>2. batches' = [batches EXCEPT ![b] = x]
        BY <1>0, <2>1 DEF TypeOK
    <2>3. /\ x \in BatchState /\ x.id = batches[b].id /\ x.state \in {"running", "pending"}
          /\ x.expected = batches[b].expected /\ x.min_wait_num = batches[b].min_wait_num
        BY <1>0, OneBatch DEF BatchState, Active
    <2> QED BY <2>2, <2>3
<1>4. /\ client' = [client EXCEPT ![c] = Idle]
      /\ finalize_lock' \in [Batch -> Clients \cup {NoClient}]
    BY <1>0, <1>2, Leaving DEF Leave
<1>5. failures' \in [Batch -> Nat] /\ processed' \in SUBSET Task
    <2>1. client[c].payloads \in SUBSET Task
        BY OneClient
    <2> QED BY <1>0, <1>2, <2>1, SetFailures DEF TypeOK
<1>6. /\ task' \in [Task -> TaskState] /\ task_num_map' \in [BatchIds -> Nat]
      /\ pending_batches' \in [BatchIds -> Batch \cup {0}]
      /\ \A id \in BatchIds : pending_batches'[id] \in {0, pending_batches[id]}
    BY <1>0, <1>2 DEF TypeOK, schedulerVars
<1>7. x.state # "new" /\ UNCHANGED shutdownVars
    BY <1>2, <1>3
<1>8. /\ TypeInv' /\ batches'[b] = x
      /\ \A d \in Batch : d # b => batches'[d] = batches[d]
    BY <1>1, <1>3, <1>4, <1>5, <1>6, <1>7, RestoringTypes
<1> QED BY <1>0, <1>2, <1>3, <1>8

LEMMA CleanupRaisedDoes ==
    ASSUME TypeInv, NEW c \in Clients, NEW b \in Batch, b = client[c].b, CleanupRaised(c)
    PROVE  /\ client[c].pc \in {"cleanup", "evalcleanup", "abort"} /\ TypeInv'
           /\ CleanedUp(c)
           /\ UNCHANGED <<pending_batches, schedulerVars, processed, shutdownVars>>
           /\ client[c].pc # "abort" => Leave(c)
           /\ \A d \in Batch : d # b => batches'[d] = batches[d]
           /\ batches'[b].id = batches[b].id /\ batches'[b].expected = batches[b].expected
           /\ batches'[b].min_wait_num = batches[b].min_wait_num
           /\ batches'[b].state \in {"running", batches[b].state}
           /\ batches'[b].has_result = batches[b].has_result
<1>0. TypeOK /\ client[c].pc \in {"cleanup", "evalcleanup", "abort"} /\ CleanedUp(c)
    BY DEF TypeInv, CleanupRaised
<1>1. batches[b].state # "new"
    BY <1>0, OneClient
<1>2. /\ failures' = [failures EXCEPT ![b] = @ + 1]
      /\ client' = [client EXCEPT ![c] = Idle]
      /\ UNCHANGED <<pending_batches, schedulerVars, processed, shutdownVars>>
      /\ finalize_lock' = [finalize_lock EXCEPT ![b] = IF client[c].pc = "abort" THEN @ ELSE NoClient]
    BY DEF CleanupRaised
<1>3. PICK x \in BatchState :
        /\ batches' = [batches EXCEPT ![b] = x]
        /\ x.id = batches[b].id /\ x.state \in {"running", batches[b].state}
        /\ x.expected = batches[b].expected /\ x.min_wait_num = batches[b].min_wait_num
        /\ x.has_result = batches[b].has_result
    <2> DEFINE state == IF client[c].pc = "cleanup" THEN "running" ELSE batches[b].state
               x == [batches[b] EXCEPT !.state = state]
    <2>1. batches' = [batches EXCEPT ![b].state = IF client[c].pc = "cleanup" THEN "running" ELSE @]
        BY DEF CleanupRaised
    <2>2. batches' = [batches EXCEPT ![b] = x]
        BY <1>0, <2>1 DEF TypeOK
    <2>3. /\ x \in BatchState /\ x.id = batches[b].id /\ x.state \in {"running", batches[b].state}
          /\ x.expected = batches[b].expected /\ x.min_wait_num = batches[b].min_wait_num
          /\ x.has_result = batches[b].has_result
        BY <1>0, OneBatch DEF BatchState, Active
    <2> QED BY <2>2, <2>3
<1>4. finalize_lock' \in [Batch -> Clients \cup {NoClient}]
    BY <1>0, <1>2 DEF TypeOK
<1>5. failures' \in [Batch -> Nat] /\ processed' \in SUBSET Task
    BY <1>0, <1>2, SetFailures DEF TypeOK
<1>6. /\ task' \in [Task -> TaskState] /\ task_num_map' \in [BatchIds -> Nat]
      /\ pending_batches' \in [BatchIds -> Batch \cup {0}]
      /\ \A id \in BatchIds : pending_batches'[id] \in {0, pending_batches[id]}
    BY <1>0, <1>2 DEF TypeOK, schedulerVars
<1>7. /\ x.state # "new" /\ UNCHANGED shutdownVars /\ client' = [client EXCEPT ![c] = Idle]
      /\ batches' = [batches EXCEPT ![b] = x] /\ x.id = batches[b].id
    BY <1>1, <1>2, <1>3
<1>8. /\ TypeInv' /\ batches'[b] = x
      /\ \A d \in Batch : d # b => batches'[d] = batches[d]
    BY <1>1, <1>4, <1>5, <1>6, <1>7, RestoringTypes, ZenonT(40)
<1>9. client[c].pc # "abort" => Leave(c)
    BY <1>2 DEF Leave
<1> QED BY <1>0, <1>2, <1>3, <1>8, <1>9

LEMMA AbortDoneTypes ==
    ASSUME TypeInv, NEW c \in Clients, AbortDone(c) PROVE TypeInv'
<1>0. TypeOK /\ client[c].pc = "abort"
    BY DEF TypeInv, AbortDone
<1>1. PICK b \in Batch : b = client[c].b /\ batches[b].state # "new" /\ batches[b].id \in BatchIds
    BY <1>0, OneClient
<1>2. /\ task' = Move(Cached(batches[b].id), "dropped")
      /\ task_num_map' = [task_num_map EXCEPT ![batches[b].id] = 0]
      /\ batches' = [batches EXCEPT ![b] = [@ EXCEPT !.state = "aborted", !.has_result = TRUE]]
      /\ pending_batches' = Evict(batches[b].id)
      /\ client' = [client EXCEPT ![c] = Idle]
      /\ UNCHANGED <<finalize_lock, processed, shutdownVars, failures>>
    BY <1>1 DEF AbortDone
<1>3. PICK x \in BatchState :
        /\ batches' = [batches EXCEPT ![b] = x] /\ x.id = batches[b].id /\ x.state = "aborted"
    <2> DEFINE x == [batches[b] EXCEPT !.state = "aborted", !.has_result = TRUE]
    <2>1. batches' = [batches EXCEPT ![b] = x]
        BY <1>0, <1>2 DEF TypeOK
    <2>2. x \in BatchState /\ x.id = batches[b].id /\ x.state = "aborted"
        BY <1>0, OneBatch DEF BatchState, Terminal
    <2> QED BY <2>1, <2>2
<1>5. /\ task' \in [Task -> TaskState] /\ task_num_map' \in [BatchIds -> Nat]
      /\ pending_batches' \in [BatchIds -> Batch \cup {0}]
      /\ \A id \in BatchIds : pending_batches'[id] \in {0, pending_batches[id]}
    <2>1. task' \in [Task -> TaskState] /\ task_num_map' \in [BatchIds -> Nat]
        BY <1>0, <1>2, Moved DEF TypeOK, TaskState
    <2> QED BY <1>0, <1>1, <1>2, <2>1, Evicted
<1>6. /\ failures' \in [Batch -> Nat] /\ processed' \in SUBSET Task
      /\ finalize_lock' \in [Batch -> Clients \cup {NoClient}]
    BY <1>0, <1>2 DEF TypeOK
<1>7. client' = [client EXCEPT ![c] = Idle] /\ UNCHANGED shutdownVars /\ x.state # "new"
    BY <1>2, <1>3
<1>8. batches' = [batches EXCEPT ![b] = x] /\ x.id = batches[b].id /\ batches[b].state # "new"
    BY <1>1, <1>3
<1> QED BY <1>5, <1>6, <1>7, <1>8, RestoringTypes

LEMMA EnterTypes ==
    ASSUME TypeInv, NEW c \in Clients, NEW b \in Batch, batches[b].state # "new", Enter(c, b),
           UNCHANGED <<batches, pending_batches, schedulerVars, processed, shutdownVars, failures>>
    PROVE  TypeInv'
<1>1. /\ client' \in [Clients -> ClientState]
      /\ \A d \in Clients : d # c => client'[d] = client[d]
      /\ finalize_lock' \in [Batch -> Clients \cup {NoClient}]
      /\ client'[c].pc = "idle" \/ client'[c].b = b
    BY Entering
<1>2. TypeOK'
    BY <1>1 DEF TypeInv, TypeOK, schedulerVars, shutdownVars
<1> QED BY <1>1, <1>2, GoingOn

LEMMA FinalizeBatchTypes ==
    ASSUME TypeInv, NEW c \in Clients, NEW id \in BatchIds, FinalizeBatch(c, id)
    PROVE  TypeInv'
<1>0. TypeOK
    BY DEF TypeInv
<1>1. /\ pending_batches[id] # 0
      /\ UNCHANGED <<batches, pending_batches, schedulerVars, processed, shutdownVars, failures>>
    BY DEF FinalizeBatch
<1>2. PICK b \in Batch : b = pending_batches[id] /\ batches[b].state # "new"
    BY <1>0, <1>1 DEF TypeOK, TypeInv, Registered
<1>3. CASE Enter(c, b)
    BY <1>1, <1>2, <1>3, EnterTypes
<1>4. CASE client' = [client EXCEPT ![c] = [Idle EXCEPT !.pc = "lock", !.b = b]] /\ UNCHANGED finalize_lock
    <2> DEFINE x == [Idle EXCEPT !.pc = "lock", !.b = b]
    <2>1. x \in ClientState /\ x.b = b
        BY DEF Idle, ClientState
    <2>2. client' = [client EXCEPT ![c] = x]
        BY <1>4
    <2> HIDE DEF x
    <2>3. /\ client' \in [Clients -> ClientState] /\ client'[c].b = b
          /\ \A d \in Clients : d # c => client'[d] = client[d]
        BY <1>0, <2>1, <2>2, SetClient
    <2>4. TypeOK'
        BY <1>0, <1>1, <1>4, <2>3 DEF TypeOK, schedulerVars, shutdownVars
    <2> QED BY <1>1, <1>2, <2>3, <2>4, GoingOn
<1> QED BY <1>2, <1>3, <1>4 DEF FinalizeBatch

LEMMA AbortBatchTypes ==
    ASSUME TypeInv, NEW c \in Clients, NEW id \in BatchIds, AbortBatch(c, id)
    PROVE  TypeInv'
<1>1. /\ pending_batches[id] # 0
      /\ UNCHANGED <<batches, pending_batches, finalize_lock, processed, shutdownVars, failures>>
      /\ StartCleanup(c, id, [Idle EXCEPT !.pc = "abort", !.b = pending_batches[id]])
    BY DEF AbortBatch
<1>2. PICK b \in Batch : b = pending_batches[id] /\ batches[b].state # "new" /\ batches[b].id = id
    BY <1>1 DEF TypeOK, TypeInv, Registered
<1> DEFINE x == [Idle EXCEPT !.pc = "abort", !.b = b]
<1>3. x \in ClientState /\ x.b = b /\ StartCleanup(c, batches[b].id, x)
    BY <1>1, <1>2 DEF Idle, ClientState
<1>4. processed' \in SUBSET Task
    BY <1>1 DEF TypeInv, TypeOK
<1> HIDE DEF x
<1> QED BY <1>1, <1>2, <1>3, <1>4, CleaningTypes

LEMMA EvalTimedOutTypes ==
    ASSUME TypeInv, NEW c \in Clients, EvalTimedOut(c)
    PROVE  TypeInv'
<1>1. /\ client[c].pc = "statuses"
      /\ UNCHANGED <<batches, pending_batches, finalize_lock, processed, shutdownVars, failures>>
      /\ StartCleanup(c, batches[client[c].b].id, [client[c] EXCEPT !.pc = "evalcleanup"])
    BY DEF EvalTimedOut
<1>2. PICK b \in Batch : b = client[c].b /\ batches[b].state # "new"
    BY <1>1, OneClient
<1> DEFINE x == [client[c] EXCEPT !.pc = "evalcleanup"]
<1>3. x \in ClientState /\ x.b = b /\ StartCleanup(c, batches[b].id, x)
    BY <1>1, <1>2, OneClient DEF ClientState
<1>4. processed' \in SUBSET Task
    BY <1>1 DEF TypeInv, TypeOK
<1> HIDE DEF x
<1> QED BY <1>1, <1>2, <1>3, <1>4, CleaningTypes

LEMMA ClientTypes ==
    ASSUME TypeInv, NEW c \in Clients, ClientStep(c) PROVE TypeInv'
<1>1. CASE Acquire(c)
    <2>1. /\ client[c].pc = "lock" /\ Enter(c, client[c].b)
          /\ UNCHANGED <<batches, pending_batches, schedulerVars, processed, shutdownVars, failures>>
        BY <1>1 DEF Acquire
    <2>2. PICK b \in Batch : b = client[c].b /\ batches[b].state # "new"
        BY <2>1, OneClient
    <2> QED BY <2>1, <2>2, EnterTypes
<1>2. CASE PayloadResults(c) \/ RestoreActive(c) \/ CleanupRaised(c)
    <2>1. client[c].pc # "idle"
        BY <1>2 DEF PayloadResults, RestoreActive, CleanupRaised
    <2>2. PICK b \in Batch : b = client[c].b
        BY <2>1, OneClient
    <2> QED BY <1>2, <2>2, PayloadResultsDoes, RestoreActiveDoes, CleanupRaisedDoes
<1>3. CASE EvalCompleted(c) \/ EvalCleanedUp(c)
    <2>1. client[c].pc # "idle" /\ DrainEval(c) /\ UNCHANGED <<processed, shutdownVars>>
        BY <1>3 DEF EvalCompleted, EvalCleanedUp
    <2> QED BY <2>1, DrainEvalTypes
<1> QED BY <1>1, <1>2, <1>3, PipelineDoneTypes, CleanupDoneTypes, EvalTimedOutTypes, AbortDoneTypes
        DEF ClientStep

LEMMA TypeStep == TypeInv /\ [Next]_vars => TypeInv'
<1> SUFFICES ASSUME TypeInv, [Next]_vars PROVE TypeInv'
    OBVIOUS
<1>0. task \in [Task -> TaskState]
    BY DEF TypeInv, TypeOK
<1>1. ASSUME NEW k \in Task, TaskCompleted(k) PROVE TypeInv'
    <2> DEFINE older == {j \in Cached(IdOf(k)) : j[2] = k[2]}
    <2>1. /\ task' = [Move(older, "dropped") EXCEPT ![k] = "cached"]
          /\ UNCHANGED <<batches, pending_batches, finalize_lock, task_num_map, client,
                         processed, shutdownVars, failures>>
        BY <1>1 DEF TaskCompleted
    <2> HIDE DEF older
    <2>2. Move(older, "dropped") \in [Task -> TaskState] /\ "cached" \in TaskState
        BY Moved DEF TaskState, TypeInv
    <2>3. task' \in [Task -> TaskState]
        BY <2>1, <2>2
    <2> QED BY <2>1, <2>3, TypeOfTask
<1>2. ASSUME NEW k \in Task, TaskEnded(k) PROVE TypeInv'
    <2>1. /\ task' = [task EXCEPT ![k] = "dropped"]
          /\ UNCHANGED <<batches, pending_batches, finalize_lock, task_num_map, client,
                         processed, shutdownVars, failures>>
        BY <1>2 DEF TaskEnded
    <2>2. task' \in [Task -> TaskState]
        BY <1>0, <2>1 DEF TaskState
    <2> QED BY <2>1, <2>2, TypeOfTask
<1>3. CASE Shutdown \/ SchedulerStopped \/ PipelineClosed
    <2>1. /\ UNCHANGED <<batches, pending_batches, finalize_lock, schedulerVars, client,
                         processed, failures>>
          /\ scheduler' \in {"up", "stopping", "none"} /\ pipeline' \in BOOLEAN
        BY <1>3 DEF Shutdown, SchedulerStopped, PipelineClosed, TypeInv, TypeOK
    <2> QED BY <2>1 DEF schedulerVars, TypeInv, TypeOK, Named, Known, Registered
<1>4. CASE UNCHANGED vars
    BY <1>4 DEF vars, schedulerVars, shutdownVars, TypeInv, TypeOK, Named, Known, Registered
<1> QED BY <1>1, <1>2, <1>3, <1>4, TypeOfSubmit, FinalizeBatchTypes, AbortBatchTypes, ClientTypes
        DEF Next

LEMMA TypesAlways == Spec => []TypeInv
BY TypeInit, TypeStep, PTL DEF Spec

\* The tables of the coordinator and the calls on them keep their types.
THEOREM TypeCorrect == Spec => []TypeOK
<1>1. TypeInv => TypeOK
    BY DEF TypeInv
<1> QED BY <1>1, TypesAlways, PTL

-----------------------------------------------------------------------------
(* Without abort_batch, which does not take the lock: who is inside a call *)
(* holds the lock of its batch, an active batch is the one registered      *)
(* under its id, and all work in the scheduler belongs to active batches.  *)

Cleaning == {"cleanup", "evalcleanup"}
Inside == {"results", "pipeline", "statuses"} \cup Cleaning
Working == {"running", "cancelling", "cached"}

LocksFit ==
    /\ \A c \in Clients :
        /\ client[c].pc # "abort"
        /\ client[c].pc \in Inside =>
             finalize_lock[client[c].b] = c /\ batches[client[c].b].state \in Active
    /\ \A b \in Batch :
        /\ batches[b].state \in Terminal => batches[b].has_result
        /\ batches[b].state \in Active => pending_batches[batches[b].id] = b
    /\ \A id \in BatchIds : pending_batches[id] # 0 => batches[pending_batches[id]].state \in Active

Running(b) == \E k \in Task : k[1] = b /\ task[k] = "running"

WorkFits ==
    /\ \A k \in Task :
        /\ task[k] # "none" => batches[k[1]].state # "new" /\ k[2] <= batches[k[1]].expected
        /\ task[k] \in Working => batches[k[1]].state \in Active
        /\ task[k] = "cancelling" =>
             \E c \in Clients : client[c].pc \in Cleaning /\ client[c].b = k[1] /\ k \in client[c].waits
    /\ \A b \in Batch : batches[b].state \in Active /\ Running(b) =>
           task_num_map[batches[b].id] = batches[b].expected
    /\ \A id \in BatchIds : pending_batches[id] = 0 => task_num_map[id] = 0

\* What a call has found out when it stands where it stands.
CallFits(c) ==
    LET b == client[c].b IN
    /\ client[c].pc = "pipeline" /\ ~Incomplete(b) => ~Running(b)
    /\ client[c].pc \in Cleaning => ~Running(b)
    /\ client[c].pc = "statuses" /\ Running(b) => client[c].scheduled = batches[b].expected

CallsFit == \A c \in Clients : CallFits(c)

Inv == LocksFit /\ WorkFits /\ CallsFit

\* An active batch has its id to itself.
LEMMA OwnId ==
    ASSUME TypeInv, Inv, NEW b \in Batch, batches[b].state \in Active
    PROVE  /\ pending_batches[batches[b].id] = b
           /\ \A k \in Task : IdOf(k) = batches[b].id /\ task[k] \in Working => k[1] = b
<1>1. pending_batches[batches[b].id] = b
    BY DEF Inv, LocksFit
<1>2. ASSUME NEW k \in Task, IdOf(k) = batches[b].id, task[k] \in Working PROVE k[1] = b
    <2>1. k[1] \in Batch /\ batches[k[1]].state \in Active
        BY <1>2, BatchFacts DEF Inv, WorkFits
    <2>2. pending_batches[batches[k[1]].id] = k[1]
        BY <2>1 DEF Inv, LocksFit
    <2> QED BY <1>1, <1>2, <2>2 DEF IdOf
<1> QED BY <1>1, <1>2

\* Nobody else is inside a call on the batch.
LEMMA Alone ==
    ASSUME TypeInv, Inv, NEW c \in Clients, NEW d \in Clients, c # d,
           client[c].pc \in Inside, client[d].pc \in Inside
    PROVE  client[c].b # client[d].b
BY DEF Inv, LocksFit

\* A batch of which as many results are there as tasks were expected has no other work.
LEMMA AllCached ==
    ASSUME TypeInv, Inv, NEW b \in Batch, batches[b].state \in Active,
           Cardinality(Cached(batches[b].id)) >= batches[b].expected
    PROVE  /\ \A k \in Task : k[1] = b /\ task[k] # "none" => task[k] = "cached"
           /\ Cardinality(Cached(batches[b].id)) = batches[b].expected
<1> DEFINE n == batches[b].expected
           Own == {b} \X (1 .. n)
           got == Cached(batches[b].id)
<1>1. n \in 0 .. MaxTasks /\ MaxTasks \in Nat
    BY OneBatch, BatchFacts DEF TypeInv
<1>2. IsFiniteSet(Own) /\ Cardinality(Own) = n
    <2>1. n \in Int /\ 1 \in Int
        BY <1>1
    <2>2. IsFiniteSet(1 .. n) /\ Cardinality(1 .. n) = n
        <3>1. IsFiniteSet(1 .. n) /\ Cardinality(1 .. n) = IF 1 > n THEN 0 ELSE n - 1 + 1
            BY <2>1, FS_Interval
        <3> HIDE DEF n
        <3> QED BY <1>1, <3>1
    <2>3. IsFiniteSet({b}) /\ Cardinality({b}) = 1
        BY FS_Singleton
    <2>4. IsFiniteSet(Own) /\ Cardinality(Own) = Cardinality({b}) * Cardinality(1 .. n)
        BY <2>2, <2>3, FS_Product
    <2> HIDE DEF n, Own
    <2>5. 1 * n = n
        BY <2>1
    <2> QED BY <2>2, <2>3, <2>4, <2>5
<1>3. got \subseteq Own
    <2>1. SUFFICES ASSUME NEW k \in got PROVE k \in Own
        OBVIOUS
    <2>2. k \in Task /\ task[k] = "cached" /\ IdOf(k) = batches[b].id
        BY DEF Cached
    <2>3. k[1] = b
        BY <2>2, OwnId DEF Working
    <2>4. k[2] <= n /\ k[2] \in 1 .. MaxTasks /\ k = <<k[1], k[2]>>
        BY <2>2, <2>3, BatchFacts DEF Inv, WorkFits
    <2> QED BY <1>1, <2>3, <2>4
<1>4. Cardinality(got) <= Cardinality(Own) /\ Cardinality(got) \in Nat
    BY <1>2, <1>3, FS_Subset, CachedIsFinite
<1> HIDE DEF n, Own, got
<1>5. Cardinality(got) = Cardinality(Own)
    BY <1>1, <1>2, <1>4 DEF n, got
<1>6. got = Own
    BY <1>2, <1>3, <1>5, FS_Subset
<1>7. ASSUME NEW k \in Task, k[1] = b, task[k] # "none" PROVE task[k] = "cached"
    <2>1. k[2] <= n /\ k[2] \in 1 .. MaxTasks /\ k = <<k[1], k[2]>>
        BY <1>7, BatchFacts DEF Inv, WorkFits, n
    <2>2. k \in Own
        BY <1>1, <1>7, <2>1 DEF Own
    <2> QED BY <1>6, <2>2 DEF got, Cached
<1> QED BY <1>2, <1>5, <1>7 DEF got, n

LEMMA FitsInit == Init => Inv
<1> SUFFICES ASSUME Init PROVE Inv
    OBVIOUS
<1>1. \A c \in Clients : client[c].pc = "idle"
    BY DEF Init, Idle
<1>2. \A b \in Batch : batches[b].state = "new"
    BY DEF Init, NewBatch
<1>3. \A k \in Task : task[k] = "none"
    BY DEF Init
<1>4. LocksFit
    BY <1>1, <1>2 DEF Init, LocksFit, Inside, Cleaning, Active, Terminal
<1>5. WorkFits
    BY <1>1, <1>2, <1>3 DEF Init, WorkFits, Working, Active
<1>6. CallsFit
    BY <1>1 DEF CallsFit, CallFits, Cleaning
<1> QED BY <1>4, <1>5, <1>6 DEF Inv

\* A step of the call of c that holds the lock of b: the call goes on or gives up its lock, with
\* b active or done with, and only the tasks of b change.
LEMMA LockedStep ==
    ASSUME TypeInv, TypeInv', Inv, NEW c \in Clients, NEW b \in Batch,
           client[c].b = b, client[c].pc \in Inside,
           \A d \in Clients : d # c => client'[d] = client[d],
           \A d \in Batch : d # b => batches'[d] = batches[d] /\ finalize_lock'[d] = finalize_lock[d],
           batches'[b].id = batches[b].id, batches'[b].expected = batches[b].expected,
           \A k \in Task : /\ k[1] # b => task'[k] = task[k]
                           /\ task'[k] = "running" => task[k] = "running"
                           /\ task'[k] = "none" <=> task[k] = "none"
                           /\ task'[k] \in Working => task[k] \in Working
                           /\ k[1] = b /\ task'[k] = "cancelling" =>
                                 client'[c].pc \in Cleaning /\ k \in client'[c].waits,
           \/ client'[c].pc = "idle"
           \/ client'[c].pc \in Inside /\ client'[c].b = b /\ finalize_lock'[b] = c,
           \A id \in BatchIds : id # batches[b].id =>
               pending_batches'[id] = pending_batches[id] /\ task_num_map'[id] = task_num_map[id],
           \/ /\ batches'[b].state \in Active /\ UNCHANGED pending_batches
              /\ task_num_map'[batches[b].id] = task_num_map[batches[b].id] \/ ~Running(b)'
              /\ CallFits(c)'
           \/ /\ batches'[b].state \in Terminal /\ batches'[b].has_result
              /\ pending_batches'[batches[b].id] = 0 /\ task_num_map'[batches[b].id] = 0
              /\ client'[c].pc = "idle"
              /\ \A k \in Task : k[1] = b => task'[k] \notin Working
    PROVE  Inv'
<1> DEFINE id == batches[b].id
<1>0. /\ finalize_lock[b] = c /\ batches[b].state \in Active /\ batches[b].state # "new"
      /\ id \in BatchIds /\ pending_batches[id] = b /\ b # 0
    <2>1. finalize_lock[b] = c /\ batches[b].state \in Active /\ batches[b].state # "new"
        BY DEF Inv, LocksFit, Active
    <2> QED BY <2>1, OwnId, BatchFacts DEF TypeInv, Named
<1>1. batches'[b].state \in Active \cup Terminal /\ batches'[b].state # "new"
    BY DEF Active, Terminal
<1>2. \A d \in Clients : d # c /\ client[d].pc \in Inside => client[d].b # b
    BY <1>0 DEF Inv, LocksFit
<1>3. LocksFit'
    <2>1. ASSUME NEW d \in Clients
          PROVE  /\ client'[d].pc # "abort"
                 /\ client'[d].pc \in Inside =>
                      finalize_lock'[client'[d].b] = d /\ batches'[client'[d].b].state \in Active
        <3>1. CASE d = c
            BY <3>1 DEF Inside, Cleaning
        <3>2. CASE d # c
            <4>1. client'[d] = client[d] /\ client[d].pc # "abort"
                BY <3>2 DEF Inv, LocksFit
            <4>2. ASSUME client[d].pc \in Inside
                  PROVE  finalize_lock'[client[d].b] = d /\ batches'[client[d].b].state \in Active
                <5>1. client[d].b \in Batch /\ client[d].b # b
                    BY <1>2, <3>2, <4>2, OneClient DEF Inside, Cleaning
                <5> QED BY <4>2, <5>1 DEF Inv, LocksFit
            <4> QED BY <4>1, <4>2
        <3> QED BY <3>1, <3>2
    <2>2. ASSUME NEW d \in Batch
          PROVE  /\ batches'[d].state \in Terminal => batches'[d].has_result
                 /\ batches'[d].state \in Active => pending_batches'[batches'[d].id] = d
        <3>1. CASE d = b
            BY <1>0, <3>1 DEF Active, Terminal
        <3>2. CASE d # b
            <4>1. batches'[d] = batches[d] /\ (batches[d].state \in Terminal => batches[d].has_result)
                BY <3>2 DEF Inv, LocksFit
            <4>2. ASSUME batches[d].state \in Active PROVE pending_batches'[batches[d].id] = d
                <5>1. pending_batches[batches[d].id] = d /\ batches[d].id \in BatchIds
                    BY <4>2 DEF Inv, LocksFit, TypeInv, Named, Active
                <5>2. batches[d].id # id
                    BY <1>0, <3>2, <5>1
                <5> QED BY <5>1, <5>2
            <4> QED BY <4>1, <4>2
        <3> QED BY <3>1, <3>2
    <2>3. ASSUME NEW j \in BatchIds, pending_batches'[j] # 0
          PROVE  batches'[pending_batches'[j]].state \in Active
        <3>1. CASE j = id
            BY <1>0, <2>3, <3>1
        <3>2. CASE j # id
            <4>1. pending_batches'[j] = pending_batches[j] /\ pending_batches[j] \in Batch
                BY <2>3, <3>2 DEF TypeInv, TypeOK
            <4>2. pending_batches[j] # b /\ batches[pending_batches[j]].state \in Active
                BY <2>3, <3>2, <4>1 DEF TypeInv, Registered, Inv, LocksFit
            <4> QED BY <4>1, <4>2
        <3> QED BY <3>1, <3>2
    <2> QED BY <2>1, <2>2, <2>3 DEF LocksFit
<1>4. \A d \in Batch : Running(d)' => Running(d)
    BY DEF Running
<1>5. WorkFits'
    <2>1. ASSUME NEW k \in Task
          PROVE  /\ task'[k] # "none" => batches'[k[1]].state # "new" /\ k[2] <= batches'[k[1]].expected
                 /\ task'[k] \in Working => batches'[k[1]].state \in Active
                 /\ task'[k] = "cancelling" =>
                      \E d \in Clients : client'[d].pc \in Cleaning /\ client'[d].b = k[1]
                                         /\ k \in client'[d].waits
        <3>0. k[1] \in Batch
            BY BatchFacts
        <3>1. CASE k[1] = b
            <4>1. task'[k] # "none" => k[2] <= batches'[b].expected
                BY <3>1 DEF Inv, WorkFits
            <4>2. task'[k] \in Working => batches'[b].state \in Active
                BY <3>1
            <4>3. task'[k] = "cancelling" => client'[c].pc \in Cleaning /\ client'[c].b = b
                                             /\ k \in client'[c].waits
                BY <3>1 DEF Cleaning
            <4> QED BY <1>1, <3>1, <4>1, <4>2, <4>3
        <3>2. CASE k[1] # b
            <4>1. task'[k] = task[k] /\ batches'[k[1]] = batches[k[1]]
                BY <3>0, <3>2
            <4>2. ASSUME task[k] = "cancelling"
                  PROVE  \E d \in Clients : client'[d].pc \in Cleaning /\ client'[d].b = k[1]
                                            /\ k \in client'[d].waits
                <5>1. PICK d \in Clients : client[d].pc \in Cleaning /\ client[d].b = k[1]
                                           /\ k \in client[d].waits
                    BY <4>2 DEF Inv, WorkFits
                <5> QED BY <3>2, <5>1
            <4> QED BY <4>1, <4>2 DEF Inv, WorkFits
        <3> QED BY <3>1, <3>2
    <2>2. ASSUME NEW d \in Batch, batches'[d].state \in Active, Running(d)'
          PROVE  task_num_map'[batches'[d].id] = batches'[d].expected
        <3>1. CASE d = b
            BY <1>0, <1>4, <2>2, <3>1 DEF Inv, WorkFits, Active, Terminal
        <3>2. CASE d # b
            <4>1. batches'[d] = batches[d] /\ Running(d)
                BY <1>4, <2>2, <3>2
            <4>2. pending_batches[batches[d].id] = d /\ batches[d].id \in BatchIds
                BY <2>2, <4>1 DEF Inv, LocksFit, TypeInv, Named, Active
            <4>3. batches[d].id # id
                BY <1>0, <3>2, <4>2
            <4> QED BY <2>2, <4>1, <4>2, <4>3 DEF Inv, WorkFits
        <3> QED BY <3>1, <3>2
    <2>3. ASSUME NEW j \in BatchIds, pending_batches'[j] = 0 PROVE task_num_map'[j] = 0
        BY <1>0, <2>3 DEF Inv, WorkFits
    <2> QED BY <2>1, <2>2, <2>3 DEF WorkFits
<1>6. CallsFit'
    <2>1. ASSUME NEW d \in Clients, d # c PROVE CallFits(d)'
        <3>1. client'[d] = client[d] /\ CallFits(d)
            BY <2>1 DEF Inv, CallsFit
        <3>2. ASSUME client[d].pc \in Inside PROVE CallFits(d)'
            <4>1. PICK a \in Batch : a = client[d].b /\ a # b
                BY <1>2, <2>1, <3>2, OneClient DEF Inside, Cleaning
            <4>2. client'[d].b = a /\ batches'[a] = batches[a] /\ (Running(a)' => Running(a))
                BY <1>4, <3>1, <4>1
            <4> QED BY <3>1, <4>1, <4>2 DEF CallFits, Incomplete
        <3>3. ASSUME client[d].pc \notin Inside PROVE CallFits(d)'
            BY <3>1, <3>3 DEF CallFits, Inside
        <3> QED BY <3>2, <3>3
    <2>2. CallFits(c)'
        <3>1. CASE client'[c].pc = "idle"
            BY <3>1 DEF CallFits, Cleaning
        <3> QED BY <3>1
    <2> QED BY <2>1, <2>2 DEF CallsFit
<1> QED BY <1>3, <1>5, <1>6 DEF Inv

-----------------------------------------------------------------------------
(* One step at a time.                                                     *)

\* The tasks move by themselves: no new work.
LEMMA TaskStepFits ==
    ASSUME TypeInv, Inv,
           UNCHANGED <<batches, pending_batches, finalize_lock, task_num_map, client,
                       processed, shutdownVars, failures>>,
           \A k \in Task : /\ task'[k] = "running" => task[k] = "running"
                           /\ task'[k] = "cancelling" => task[k] = "cancelling"
                           /\ task'[k] = "none" <=> task[k] = "none"
                           /\ task'[k] \in Working => task[k] \in Working
    PROVE  Inv'
<1>1. \A b \in Batch : Running(b)' => Running(b)
    BY DEF Running
<1>2. LocksFit'
    BY DEF Inv, LocksFit
<1>3. WorkFits'
    <2>1. ASSUME NEW k \in Task
          PROVE  /\ task'[k] # "none" => batches'[k[1]].state # "new" /\ k[2] <= batches'[k[1]].expected
                 /\ task'[k] \in Working => batches'[k[1]].state \in Active
                 /\ task'[k] = "cancelling" =>
                      \E d \in Clients : client'[d].pc \in Cleaning /\ client'[d].b = k[1]
                                         /\ k \in client'[d].waits
        BY DEF Inv, WorkFits
    <2>2. \A b \in Batch : batches'[b].state \in Active /\ Running(b)' =>
              task_num_map'[batches'[b].id] = batches'[b].expected
        BY <1>1 DEF Inv, WorkFits
    <2>3. \A id \in BatchIds : pending_batches'[id] = 0 => task_num_map'[id] = 0
        BY DEF Inv, WorkFits
    <2> QED BY <2>1, <2>2, <2>3 DEF WorkFits
<1>4. CallsFit'
    <2>1. SUFFICES ASSUME NEW d \in Clients PROVE CallFits(d)'
        BY DEF CallsFit
    <2>2. CallFits(d) /\ client'[d] = client[d] /\ batches' = batches
        BY DEF Inv, CallsFit
    <2>3. CASE client[d].pc = "idle"
        BY <2>2, <2>3 DEF CallFits, Cleaning
    <2>4. CASE client[d].pc # "idle"
        <3>1. PICK a \in Batch : a = client[d].b
            BY <2>4, OneClient
        <3> QED BY <1>1, <2>2, <3>1 DEF CallFits, Incomplete
    <2> QED BY <2>3, <2>4
<1> QED BY <1>2, <1>3, <1>4 DEF Inv

\* A call of c that is not inside one: it stays outside or enters, with the lock of its batch.
LEMMA EnteringFits ==
    ASSUME TypeInv, Inv, NEW c \in Clients, NEW b \in Batch,
           UNCHANGED <<batches, pending_batches, schedulerVars, processed, shutdownVars, failures>>,
           client[c].pc \in {"idle", "lock"},
           \A d \in Clients : d # c => client'[d] = client[d],
           \A d \in Batch : d # b => finalize_lock'[d] = finalize_lock[d],
           \/ client'[c].pc \in {"idle", "lock"} /\ finalize_lock'[b] = finalize_lock[b]
           \/ /\ finalize_lock[b] = NoClient /\ finalize_lock'[b] = c /\ client'[c].b = b
              /\ batches[b].state \in Active /\ client'[c].pc \in {"results", "statuses"}
              /\ client'[c].scheduled = task_num_map[batches[b].id]
    PROVE  Inv'
<1>1. NoClient \notin Clients
    BY BatchFacts
<1>2. UNCHANGED <<task, task_num_map>>
    BY DEF schedulerVars
<1>3. LocksFit'
    <2>1. ASSUME NEW d \in Clients
          PROVE  /\ client'[d].pc # "abort"
                 /\ client'[d].pc \in Inside =>
                      finalize_lock'[client'[d].b] = d /\ batches'[client'[d].b].state \in Active
        <3>1. CASE d = c
            BY <3>1 DEF Inside, Cleaning
        <3>2. CASE d # c
            <4>1. client'[d] = client[d] /\ client[d].pc # "abort" /\ batches' = batches
                BY <3>2 DEF Inv, LocksFit
            <4>2. ASSUME client[d].pc \in Inside
                  PROVE  finalize_lock'[client[d].b] = d /\ batches[client[d].b].state \in Active
                <5>1. PICK a \in Batch : a = client[d].b
                    BY <4>2, OneClient DEF Inside, Cleaning
                <5>2. finalize_lock[a] = d /\ batches[a].state \in Active
                    BY <4>2, <5>1 DEF Inv, LocksFit
                <5>3. a = b => finalize_lock[b] # NoClient
                    BY <1>1, <5>2
                <5> QED BY <5>1, <5>2, <5>3
            <4> QED BY <4>1, <4>2
        <3> QED BY <3>1, <3>2
    <2> QED BY <2>1 DEF Inv, LocksFit
<1>4. WorkFits'
    <2>1. ASSUME NEW k \in Task, task[k] = "cancelling"
          PROVE  \E d \in Clients : client'[d].pc \in Cleaning /\ client'[d].b = k[1]
                                    /\ k \in client'[d].waits
        <3>1. PICK d \in Clients : client[d].pc \in Cleaning /\ client[d].b = k[1]
                                   /\ k \in client[d].waits
            BY <2>1 DEF Inv, WorkFits
        <3>2. d # c
            BY <3>1 DEF Cleaning
        <3> QED BY <3>1, <3>2
    <2>2. \A d \in Batch : Running(d)' <=> Running(d)
        BY <1>2 DEF Running
    <2> QED BY <1>2, <2>1, <2>2 DEF Inv, WorkFits
<1>5. CallsFit'
    <2>1. ASSUME NEW d \in Clients PROVE CallFits(d)'
        <3>1. CASE d # c
            BY <1>2, <3>1 DEF Inv, CallsFit, CallFits, Running, Incomplete
        <3>2. CASE d = c
            <4>1. CASE client'[c].pc \in {"idle", "lock"}
                BY <3>2, <4>1 DEF CallFits, Cleaning
            <4>2. CASE /\ client'[c].b = b /\ batches[b].state \in Active
                       /\ client'[c].pc \in {"results", "statuses"}
                       /\ client'[c].scheduled = task_num_map[batches[b].id]
                <5>1. Running(b) => task_num_map[batches[b].id] = batches[b].expected
                    BY <4>2 DEF Inv, WorkFits
                <5>2. Running(b)' => Running(b)
                    BY <1>2 DEF Running
                <5> QED BY <3>2, <4>2, <5>1, <5>2 DEF CallFits, Cleaning
            <4> QED BY <4>1, <4>2
        <3> QED BY <3>1, <3>2
    <2> QED BY <2>1 DEF CallsFit
<1> QED BY <1>3, <1>4, <1>5 DEF Inv

LEMMA EnterFits ==
    ASSUME TypeInv, Inv, NEW c \in Clients, NEW b \in Batch, batches[b].state # "new", Enter(c, b),
           client[c].pc \in {"idle", "lock"}, finalize_lock[b] = NoClient,
           UNCHANGED <<batches, pending_batches, schedulerVars, processed, shutdownVars, failures>>
    PROVE  Inv'
<1>1. /\ \A d \in Clients : d # c => client'[d] = client[d]
      /\ \A d \in Batch : d # b => finalize_lock'[d] = finalize_lock[d]
      /\ \/ client'[c].pc = "idle" /\ finalize_lock'[b] = finalize_lock[b]
         \/ /\ ~HasResult(b) /\ client'[c].b = b /\ finalize_lock'[b] = c
            /\ client'[c].pc \in {"results", "statuses"}
            /\ client'[c].scheduled = task_num_map[batches[b].id]
    BY Entering
<1>2. ~HasResult(b) => batches[b].state \in Active
    <2>1. batches[b].state \in {"new"} \cup Active \cup Terminal
        BY OneBatch DEF TypeInv
    <2> QED BY <2>1 DEF Inv, LocksFit, HasResult
<1> QED BY <1>1, <1>2, EnteringFits

LEMMA FinalizeBatchFits ==
    ASSUME TypeInv, Inv, NEW c \in Clients, NEW id \in BatchIds, FinalizeBatch(c, id)
    PROVE  Inv'
<1>1. /\ pending_batches[id] # 0 /\ client[c].pc = "idle"
      /\ UNCHANGED <<batches, pending_batches, schedulerVars, processed, shutdownVars, failures>>
    BY DEF FinalizeBatch
<1>2. PICK b \in Batch : b = pending_batches[id] /\ batches[b].state # "new"
    BY <1>1 DEF TypeOK, TypeInv, Registered
<1>3. CASE finalize_lock[b] = NoClient /\ Enter(c, b)
    BY <1>1, <1>2, <1>3, EnterFits
<1>4. CASE client' = [client EXCEPT ![c] = [Idle EXCEPT !.pc = "lock", !.b = b]] /\ UNCHANGED finalize_lock
    <2> DEFINE x == [Idle EXCEPT !.pc = "lock", !.b = b]
    <2>1. x \in ClientState /\ x.pc = "lock"
        BY DEF Idle, ClientState
    <2>2. client' = [client EXCEPT ![c] = x] /\ TypeOK
        BY <1>4 DEF TypeInv
    <2> HIDE DEF x
    <2>3. /\ client'[c].pc = "lock"
          /\ \A d \in Clients : d # c => client'[d] = client[d]
        BY <2>1, <2>2, SetClient
    <2> QED BY <1>1, <1>4, <2>3, EnteringFits
<1> QED BY <1>2, <1>3, <1>4 DEF FinalizeBatch

LEMMA AcquireFits ==
    ASSUME TypeInv, Inv, NEW c \in Clients, Acquire(c) PROVE Inv'
<1>1. /\ client[c].pc = "lock" /\ Enter(c, client[c].b) /\ finalize_lock[client[c].b] = NoClient
      /\ UNCHANGED <<batches, pending_batches, schedulerVars, processed, shutdownVars, failures>>
    BY DEF Acquire
<1>2. PICK b \in Batch : b = client[c].b /\ batches[b].state # "new"
    BY <1>1, OneClient
<1> QED BY <1>1, <1>2, EnterFits

LEMMA SubmitFits ==
    ASSUME TypeInv, Inv, NEW b \in Batch, NEW id \in BatchIds, NEW n \in 0 .. MaxTasks,
           NEW min \in 0 .. MaxTasks, SubmitBatch(b, id, n, min)
    PROVE  Inv'
<1>1. PICK m \in {0, n} :
        /\ \A k \in Task : task'[k] = IF k[1] = b /\ k[2] <= m THEN "running" ELSE task[k]
        /\ task_num_map'[id] = task_num_map[id] + m
    <2>1. /\ \A k \in Task : task'[k] = IF k[1] = b /\ k[2] <= Scheduled(n) THEN "running" ELSE task[k]
          /\ task_num_map'[id] = task_num_map[id] + Scheduled(n)
        BY TypeOfSubmit, ZenonT(40)
    <2>2. Scheduled(n) \in {0, n}
        BY DEF Scheduled
    <2> QED BY <2>1, <2>2
<1>2. /\ batches[b].state = "new" /\ b # 0
      /\ batches'[b].id = id /\ batches'[b].expected = n
      /\ batches'[b].state \in Active /\ batches'[b].state # "new"
      /\ \A d \in Batch : d # b => batches'[d] = batches[d]
      /\ pending_batches'[id] = b
      /\ \A j \in BatchIds : j # id => pending_batches'[j] = pending_batches[j]
                                       /\ task_num_map'[j] = task_num_map[j]
      /\ UNCHANGED <<finalize_lock, client>>
    <2>1. UNCHANGED <<finalize_lock, client>>
        BY DEF SubmitBatch
    <2>2. batches'[b].state \in {"running", "pending"}
        BY TypeOfSubmit, Zenon
    <2>3. batches'[b].state \in Active /\ batches'[b].state # "new"
        BY <2>2 DEF Active
    <2>4. batches'[b].id = id /\ batches'[b].expected = n
        BY DEF SubmitBatch, NewBatch, TypeInv, TypeOK
    <2>5. batches[b].state = "new" /\ b # 0
        BY TypeOfSubmit, BatchFacts
    <2>6. \A d \in Batch : d # b => batches'[d] = batches[d]
        BY TypeOfSubmit, ZenonT(40)
    <2>7. /\ pending_batches' = [pending_batches EXCEPT ![id] = b]
          /\ task_num_map' = [task_num_map EXCEPT ![id] = @ + IF scheduler = "none" THEN 0 ELSE n]
        BY DEF SubmitBatch
    <2>8. /\ pending_batches'[id] = b
          /\ \A j \in BatchIds : j # id => pending_batches'[j] = pending_batches[j]
                                           /\ task_num_map'[j] = task_num_map[j]
        BY <2>7 DEF TypeInv, TypeOK
    <2> QED BY <2>1, <2>3, <2>4, <2>5, <2>6, <2>8
<1>3. pending_batches[id] = 0 /\ task_num_map[id] = 0
    <2>1. pending_batches[id] # 0 => batches[pending_batches[id]].state \in Terminal
        BY DEF SubmitBatch, Registrable
    <2>2. pending_batches[id] = 0
        BY <2>1 DEF Inv, LocksFit, Active, Terminal
    <2> QED BY <2>2 DEF Inv, WorkFits
<1>4. n \in Nat /\ m \in Nat /\ m <= n
    BY BatchFacts
<1>5. \A d \in Batch : batches[d].state \in Active => batches[d].id # id /\ d # b /\ batches[d].id \in BatchIds
    BY <1>2, <1>3, BatchFacts DEF Inv, LocksFit, Active, TypeInv, Named
<1>6. \A k \in Task : k[1] = b => task[k] = "none"
    BY <1>2 DEF Inv, WorkFits
<1>7. \A d \in Clients : client[d].pc # "idle" => client[d].b # b /\ client[d].b \in Batch
    BY <1>2, OneClient
<1>8. LocksFit'
    <2>1. ASSUME NEW d \in Clients
          PROVE  /\ client'[d].pc # "abort"
                 /\ client'[d].pc \in Inside =>
                      finalize_lock'[client'[d].b] = d /\ batches'[client'[d].b].state \in Active
        <3>1. client[d].pc \in Inside => client[d].pc # "idle"
            BY DEF Inside, Cleaning
        <3> QED BY <1>2, <1>7, <3>1 DEF Inv, LocksFit
    <2>2. ASSUME NEW d \in Batch
          PROVE  /\ batches'[d].state \in Terminal => batches'[d].has_result
                 /\ batches'[d].state \in Active => pending_batches'[batches'[d].id] = d
        <3>1. CASE d = b
            BY <1>2, <3>1 DEF Active, Terminal
        <3>2. CASE d # b
            BY <1>2, <1>5, <3>2 DEF Inv, LocksFit
        <3> QED BY <3>1, <3>2
    <2>3. ASSUME NEW j \in BatchIds, pending_batches'[j] # 0
          PROVE  batches'[pending_batches'[j]].state \in Active
        <3>1. CASE j = id
            BY <1>2, <3>1
        <3>2. CASE j # id
            <4>1. PICK a \in Batch : a = pending_batches[j] /\ pending_batches'[j] = a
                BY <1>2, <2>3, <3>2 DEF TypeInv, TypeOK
            <4>2. batches[a].state \in Active
                BY <1>2, <2>3, <3>2, <4>1 DEF Inv, LocksFit
            <4>3. a # b
                BY <1>2, <4>2 DEF Active
            <4> QED BY <1>2, <4>1, <4>2, <4>3
        <3> QED BY <3>1, <3>2
    <2> QED BY <2>1, <2>2, <2>3 DEF LocksFit
<1>9. WorkFits'
    <2>1. ASSUME NEW k \in Task
          PROVE  /\ task'[k] # "none" => batches'[k[1]].state # "new" /\ k[2] <= batches'[k[1]].expected
                 /\ task'[k] \in Working => batches'[k[1]].state \in Active
                 /\ task'[k] = "cancelling" =>
                      \E d \in Clients : client'[d].pc \in Cleaning /\ client'[d].b = k[1]
                                         /\ k \in client'[d].waits
        <3>0. k[1] \in Batch /\ k[2] \in Nat
            BY BatchFacts
        <3>1. CASE k[1] = b
            <4>1. task'[k] = IF k[2] <= m THEN "running" ELSE "none"
                BY <1>1, <1>6, <3>1
            <4> QED BY <1>2, <1>4, <3>0, <3>1, <4>1 DEF Working
        <3>2. CASE k[1] # b
            <4>1. task'[k] = task[k] /\ batches'[k[1]] = batches[k[1]] /\ client' = client
                BY <1>1, <1>2, <3>0, <3>2
            <4> QED BY <4>1 DEF Inv, WorkFits
        <3> QED BY <3>1, <3>2
    <2>2. ASSUME NEW d \in Batch, batches'[d].state \in Active, Running(d)'
          PROVE  task_num_map'[batches'[d].id] = batches'[d].expected
        <3>1. CASE d = b
            <4>1. PICK k \in Task : k[1] = b /\ task'[k] = "running"
                BY <2>2, <3>1 DEF Running
            <4>2. m # 0
                <5>1. k[2] <= m /\ k[2] \in 1 .. MaxTasks
                    BY <1>1, <1>6, <4>1, BatchFacts
                <5> QED BY <5>1
            <4> QED BY <1>1, <1>2, <1>3, <1>4, <3>1, <4>2
        <3>2. CASE d # b
            <4>1. batches'[d] = batches[d] /\ Running(d)
                BY <1>1, <1>2, <2>2, <3>2 DEF Running
            <4>2. batches[d].id # id /\ batches[d].id \in BatchIds
                BY <1>5, <2>2, <4>1
            <4> QED BY <1>2, <2>2, <4>1, <4>2 DEF Inv, WorkFits
        <3> QED BY <3>1, <3>2
    <2>3. ASSUME NEW j \in BatchIds, pending_batches'[j] = 0 PROVE task_num_map'[j] = 0
        BY <1>2, <2>3 DEF Inv, WorkFits
    <2> QED BY <2>1, <2>2, <2>3 DEF WorkFits
<1>10. CallsFit'
    <2>1. SUFFICES ASSUME NEW d \in Clients PROVE CallFits(d)'
        BY DEF CallsFit
    <2>2. CASE client[d].pc = "idle"
        BY <1>2, <2>2 DEF CallFits, Cleaning
    <2>3. CASE client[d].pc # "idle"
        <3>1. PICK a \in Batch : a = client[d].b /\ a # b
            BY <1>7, <2>3
        <3>2. batches'[a] = batches[a] /\ client' = client /\ (Running(a)' => Running(a))
            BY <1>1, <1>2, <3>1 DEF Running
        <3>3. CallFits(d)
            BY DEF Inv, CallsFit
        <3> QED BY <3>1, <3>2, <3>3 DEF CallFits, Incomplete
    <2> QED BY <2>2, <2>3
<1> QED BY <1>8, <1>9, <1>10 DEF Inv

\* Nobody but c has work of b cancelled, so when that has ended nothing is left of it.
LEMMA NothingLeft ==
    ASSUME TypeInv, Inv, NEW c \in Clients, NEW b \in Batch, client[c].b = b,
           client[c].pc \in Inside, client[c].pc \in Cleaning => CleanedUp(c)
    PROVE  \A k \in Task : k[1] = b => task[k] # "cancelling"
<1>1. SUFFICES ASSUME NEW k \in Task, k[1] = b, task[k] = "cancelling" PROVE FALSE
    OBVIOUS
<1>2. PICK d \in Clients : client[d].pc \in Cleaning /\ client[d].b = b /\ k \in client[d].waits
    BY <1>1 DEF Inv, WorkFits
<1>3. d = c
    BY <1>2, Alone DEF Inside
<1> QED BY <1>1, <1>2, <1>3 DEF CleanedUp

\* A call that fails or finds nothing more to do leaves its batch active.
LEMMA LeavingFits ==
    ASSUME TypeInv, TypeInv', Inv, NEW c \in Clients, NEW b \in Batch, client[c].b = b,
           client[c].pc \in Inside, Leave(c),
           client[c].pc \in Cleaning => CleanedUp(c),
           \A d \in Batch : d # b => batches'[d] = batches[d],
           batches'[b].id = batches[b].id, batches'[b].expected = batches[b].expected,
           batches'[b].state \in Active,
           \A k \in Task : task'[k] = IF task'[k] = "taken" /\ k[1] = b /\ task[k] = "cached"
                                      THEN "taken" ELSE task[k],
           UNCHANGED <<pending_batches, task_num_map>>
    PROVE  Inv'
<1>1. /\ client'[c].pc = "idle" /\ \A d \in Clients : d # c => client'[d] = client[d]
      /\ \A d \in Batch : d # b => finalize_lock'[d] = finalize_lock[d]
    BY Leaving, IdleType DEF TypeInv
<1>2. \A k \in Task : /\ k[1] # b => task'[k] = task[k]
                      /\ task'[k] = "running" => task[k] = "running"
                      /\ task'[k] = "none" <=> task[k] = "none"
                      /\ task'[k] \in Working => task[k] \in Working
                      /\ ~(k[1] = b /\ task'[k] = "cancelling")
    <2>1. SUFFICES ASSUME NEW k \in Task
                   PROVE  /\ k[1] # b => task'[k] = task[k]
                          /\ task'[k] = "running" => task[k] = "running"
                          /\ task'[k] = "none" <=> task[k] = "none"
                          /\ task'[k] \in Working => task[k] \in Working
                          /\ ~(k[1] = b /\ task'[k] = "cancelling")
        OBVIOUS
    <2>2. k[1] = b => task[k] # "cancelling"
        BY NothingLeft
    <2>3. task'[k] = task[k] \/ (task'[k] = "taken" /\ k[1] = b /\ task[k] = "cached")
        OBVIOUS
    <2> QED BY <2>2, <2>3 DEF Working
<1>3. CallFits(c)'
    BY <1>1 DEF CallFits, Cleaning
<1> QED BY <1>1, <1>2, <1>3, LockedStep

\* A call that finishes its batch, with no work of it left.
LEMMA FinishingFits ==
    ASSUME TypeInv, TypeInv', Inv, NEW c \in Clients, NEW b \in Batch, client[c].b = b,
           client[c].pc \in Inside, NEW n \in Nat, NEW kept \in [Task -> TaskState],
           FinishBatch(c, b, n, kept),
           client[c].pc \in Cleaning => CleanedUp(c),
           \A k \in Task : kept[k] = IF kept[k] = "taken" /\ k[1] = b /\ task[k] = "cached"
                                     THEN "taken" ELSE task[k],
           ~Running(b)
    PROVE  Inv'
<1>1. /\ batches[b].state \in Active /\ batches[b].state # "new" /\ batches[b].id \in BatchIds
    <2>1. batches[b].state \in Active
        BY DEF Inv, LocksFit
    <2> QED BY <2>1 DEF Active, TypeInv, Named
<1>2. /\ Leave(c)
      /\ \A d \in Batch : d # b => batches'[d] = batches[d]
      /\ batches'[b].id = batches[b].id /\ batches'[b].expected = batches[b].expected
    BY <1>1, Finishing
<1>3. \/ /\ task' = kept /\ batches'[b].state = batches[b].state
         /\ UNCHANGED <<pending_batches, task_num_map>>
      \/ /\ batches'[b].state = "finalized" /\ batches'[b].has_result = TRUE
         /\ task' = [k \in Task |-> IF IdOf(k) = batches[b].id /\ kept[k] = "cached"
                                    THEN "dropped" ELSE kept[k]]
         /\ pending_batches' = Evict(batches[b].id)
         /\ task_num_map' = [task_num_map EXCEPT ![batches[b].id] = 0]
    <2>1. CASE scheduler = "none"
        <3>1. task' = kept /\ UNCHANGED <<pending_batches, task_num_map>>
            BY <2>1 DEF FinishBatch
        <3>2. batches'[b].state = batches[b].state
            BY <1>1, <2>1, Finishing
        <3> QED BY <3>1, <3>2
    <2>2. CASE scheduler # "none"
        <3>1. /\ task' = [k \in Task |-> IF IdOf(k) = batches[b].id /\ kept[k] = "cached"
                                         THEN "dropped" ELSE kept[k]]
              /\ pending_batches' = Evict(batches[b].id)
              /\ task_num_map' = [task_num_map EXCEPT ![batches[b].id] = 0]
            BY <2>2 DEF FinishBatch
        <3>2. batches'[b].state = "finalized" /\ batches'[b].has_result = TRUE
            BY <1>1, <2>2, Finishing
        <3> QED BY <3>1, <3>2
    <2> QED BY <2>1, <2>2
<1>4. CASE /\ task' = kept /\ batches'[b].state = batches[b].state
           /\ UNCHANGED <<pending_batches, task_num_map>>
    BY <1>1, <1>2, <1>4, LeavingFits
<1>5. CASE /\ batches'[b].state = "finalized" /\ batches'[b].has_result = TRUE
           /\ task' = [k \in Task |-> IF IdOf(k) = batches[b].id /\ kept[k] = "cached"
                                      THEN "dropped" ELSE kept[k]]
           /\ pending_batches' = Evict(batches[b].id)
           /\ task_num_map' = [task_num_map EXCEPT ![batches[b].id] = 0]
    <2>1. /\ client'[c].pc = "idle" /\ \A d \in Clients : d # c => client'[d] = client[d]
          /\ \A d \in Batch : d # b => finalize_lock'[d] = finalize_lock[d]
        BY <1>2, Leaving, IdleType DEF TypeInv
    <2>2. \A k \in Task : /\ k[1] # b => task'[k] = task[k]
                          /\ task'[k] = "running" => task[k] = "running"
                          /\ task'[k] = "none" <=> task[k] = "none"
                          /\ task'[k] \in Working => task[k] \in Working
                          /\ k[1] = b => task'[k] \notin Working
        <3>1. SUFFICES ASSUME NEW k \in Task
                       PROVE  /\ k[1] # b => task'[k] = task[k]
                              /\ task'[k] = "running" => task[k] = "running"
                              /\ task'[k] = "none" <=> task[k] = "none"
                              /\ task'[k] \in Working => task[k] \in Working
                              /\ k[1] = b => task'[k] \notin Working
            OBVIOUS
        <3>2. task'[k] = IF IdOf(k) = batches[b].id /\ kept[k] = "cached" THEN "dropped" ELSE kept[k]
            BY <1>5
        <3>3. CASE k[1] = b
            <4>1. task[k] # "cancelling" /\ task[k] # "running"
                BY <3>3, NothingLeft DEF Running
            <4>2. IdOf(k) = batches[b].id
                BY <3>3 DEF IdOf
            <4>3. kept[k] = task[k] \/ (kept[k] = "taken" /\ task[k] = "cached")
                OBVIOUS
            <4> QED BY <3>2, <3>3, <4>1, <4>2, <4>3 DEF Working
        <3>4. CASE k[1] # b
            <4>1. kept[k] = task[k]
                BY <3>4
            <4>2. ~(IdOf(k) = batches[b].id /\ task[k] = "cached")
                BY <1>1, <3>4, OwnId DEF Working
            <4>3. task'[k] = task[k]
                BY <3>2, <4>1, <4>2
            <4> QED BY <3>4, <4>3
        <3> QED BY <3>3, <3>4
    <2>3. /\ \A j \in BatchIds : j # batches[b].id =>
                pending_batches'[j] = pending_batches[j] /\ task_num_map'[j] = task_num_map[j]
          /\ pending_batches'[batches[b].id] = 0 /\ task_num_map'[batches[b].id] = 0
        <3>1. /\ \A j \in BatchIds : j # batches[b].id => pending_batches'[j] = pending_batches[j]
              /\ pending_batches'[batches[b].id] = 0
            BY <1>1, <1>5, Evicted DEF TypeInv
        <3>2. /\ \A j \in BatchIds : j # batches[b].id => task_num_map'[j] = task_num_map[j]
              /\ task_num_map'[batches[b].id] = 0
            BY <1>1, <1>5 DEF TypeInv, TypeOK
        <3> QED BY <3>1, <3>2
    <2>4. \A k \in Task : k[1] = b /\ task'[k] = "cancelling" => FALSE
        BY <2>2 DEF Working
    <2>5. batches'[b].state \in Terminal
        BY <1>5 DEF Terminal
    <2> QED BY <1>2, <1>5, <2>1, <2>2, <2>3, <2>4, <2>5, LockedStep
<1> QED BY <1>3, <1>4, <1>5

LEMMA InsideFacts ==
    ASSUME TypeInv, Inv, NEW c \in Clients, client[c].pc \in Inside
    PROVE  /\ client[c].pc # "idle" /\ client[c].pc # "abort"
           /\ finalize_lock[client[c].b] = c
           /\ client[c].b \in Batch /\ batches[client[c].b].state \in Active
           /\ batches[client[c].b].state # "new" /\ batches[client[c].b].id \in BatchIds
<1>1. client[c].pc # "idle"
    BY DEF Inside, Cleaning
<1> QED BY <1>1, OneClient DEF Inv, LocksFit

LEMMA PayloadResultsFits ==
    ASSUME TypeInv, Inv, NEW c \in Clients, PayloadResults(c) PROVE Inv'
<1>1. client[c].pc = "results" /\ client[c].pc \in Inside /\ client[c].pc \notin Cleaning
    BY DEF PayloadResults, Inside, Cleaning
<1>2. PICK b \in Batch : /\ b = client[c].b /\ batches[b].state \in Active
                         /\ batches[b].id \in BatchIds /\ finalize_lock[b] = c
    BY <1>1, InsideFacts
<1> DEFINE got == Cached(batches[b].id)
<1>3. TypeInv' /\ UNCHANGED <<pending_batches, task_num_map>>
    BY <1>2, PayloadResultsDoes
<1>4. \A k \in Task : task'[k] = IF k \in got THEN "taken" ELSE task[k]
    BY <1>2, PayloadResultsDoes
<1>5. \A k \in Task : k \in got => k[1] = b /\ task[k] = "cached"
    BY <1>2, OwnId DEF Cached, Working
<1>6. \A k \in Task : task'[k] = IF task'[k] = "taken" /\ k[1] = b /\ task[k] = "cached"
                                 THEN "taken" ELSE task[k]
    BY <1>4, <1>5
<1>7. \/ UNCHANGED batches /\ Leave(c)
      \/ /\ UNCHANGED finalize_lock
         /\ \A d \in Clients : d # c => client'[d] = client[d]
         /\ client'[c].pc = "pipeline" /\ client'[c].b = b
         /\ \A d \in Batch : d # b => batches'[d] = batches[d]
         /\ batches'[b].id = batches[b].id
         /\ batches'[b].expected = batches[b].expected
         /\ batches'[b].statuses = Cardinality(got)
         /\ batches'[b].state = "finalizing"
    BY <1>2, PayloadResultsDoes
<1>8. CASE UNCHANGED batches /\ Leave(c)
    BY <1>1, <1>2, <1>3, <1>6, <1>8, LeavingFits
<1>9. CASE /\ UNCHANGED finalize_lock
           /\ \A d \in Clients : d # c => client'[d] = client[d]
           /\ client'[c].pc = "pipeline" /\ client'[c].b = b
           /\ \A d \in Batch : d # b => batches'[d] = batches[d]
           /\ batches'[b].id = batches[b].id
           /\ batches'[b].expected = batches[b].expected
           /\ batches'[b].statuses = Cardinality(got)
           /\ batches'[b].state = "finalizing"
    <2>1. \A k \in Task : /\ k[1] # b => task'[k] = task[k]
                          /\ task'[k] = "running" => task[k] = "running"
                          /\ task'[k] = "none" <=> task[k] = "none"
                          /\ task'[k] \in Working => task[k] \in Working
                          /\ ~(k[1] = b /\ task'[k] = "cancelling")
        <3>1. SUFFICES ASSUME NEW k \in Task
                       PROVE  /\ k[1] # b => task'[k] = task[k]
                              /\ task'[k] = "running" => task[k] = "running"
                              /\ task'[k] = "none" <=> task[k] = "none"
                              /\ task'[k] \in Working => task[k] \in Working
                              /\ ~(k[1] = b /\ task'[k] = "cancelling")
            OBVIOUS
        <3>2. k[1] = b => task[k] # "cancelling"
            BY <1>1, <1>2, NothingLeft
        <3>3. task'[k] = task[k] \/ (task'[k] = "taken" /\ k[1] = b /\ task[k] = "cached")
            BY <1>6
        <3> QED BY <3>2, <3>3 DEF Working
    <2>2. CallFits(c)'
        <3>1. SUFFICES ASSUME ~Incomplete(b)' PROVE ~Running(b)'
            BY <1>9 DEF CallFits, Cleaning
        <3>2. Cardinality(got) \in Nat /\ batches[b].expected \in Nat
            <4>1. batches[b].expected \in 0 .. MaxTasks
                BY OneBatch DEF TypeInv
            <4> QED BY <4>1, CachedIsFinite
        <3>3. ~(Cardinality(got) < batches[b].expected)
            BY <1>9, <3>1 DEF Incomplete
        <3>4. Cardinality(got) >= batches[b].expected
            <4> HIDE DEF got
            <4> QED BY <3>2, <3>3
        <3>5. \A k \in Task : k[1] = b => task[k] # "running"
            BY <1>2, <3>4, AllCached
        <3> QED BY <2>1, <3>5 DEF Running
    <2>3. batches'[b].state \in Active /\ client'[c].pc \in Inside
        BY <1>9 DEF Active, Inside
    <2> HIDE DEF got
    <2> QED BY <1>1, <1>2, <1>3, <1>9, <2>1, <2>2, <2>3, LockedStep
<1> QED BY <1>7, <1>8, <1>9

\* A call begins to clean up what its batch has left in the scheduler.
LEMMA CleaningFits ==
    ASSUME TypeInv, TypeInv', Inv, NEW c \in Clients, NEW b \in Batch, client[c].b = b,
           client[c].pc \in Inside, client[c].pc \notin Cleaning,
           NEW call \in ClientState, call.b = b, call.pc \in Cleaning,
           StartCleanup(c, batches[b].id, call),
           UNCHANGED <<batches, pending_batches, finalize_lock>>
    PROVE  Inv'
<1>1. batches[b].state \in Active /\ batches[b].id \in BatchIds /\ finalize_lock[b] = c
    BY InsideFacts
<1>2. /\ \A k \in Task : IF IdOf(k) = batches[b].id /\ task[k] = "running"
                         THEN task'[k] \in {"dropped", "cancelling"}
                         ELSE task'[k] = task[k]
      /\ task_num_map'[batches[b].id] = 0
      /\ \A j \in BatchIds : j # batches[b].id => task_num_map'[j] = task_num_map[j]
      /\ \A d \in Clients : d # c => client'[d] = client[d]
      /\ client'[c].pc \in Cleaning /\ client'[c].b = b
      /\ \A k \in Task : IdOf(k) = batches[b].id /\ task[k] = "running" /\ task'[k] = "cancelling"
                                 => k \in client'[c].waits
    BY <1>1, CleaningUp DEF TypeInv
<1>3. \A k \in Task : /\ k[1] # b => task'[k] = task[k]
                      /\ task'[k] # "running" \/ k[1] # b
                      /\ task'[k] = "running" => task[k] = "running"
                      /\ task'[k] = "none" <=> task[k] = "none"
                      /\ task'[k] \in Working => task[k] \in Working
                      /\ k[1] = b /\ task'[k] = "cancelling" => k \in client'[c].waits
    <2>1. SUFFICES ASSUME NEW k \in Task
                   PROVE  /\ k[1] # b => task'[k] = task[k]
                          /\ task'[k] # "running" \/ k[1] # b
                          /\ task'[k] = "running" => task[k] = "running"
                          /\ task'[k] = "none" <=> task[k] = "none"
                          /\ task'[k] \in Working => task[k] \in Working
                          /\ k[1] = b /\ task'[k] = "cancelling" => k \in client'[c].waits
        OBVIOUS
    <2>2. k[1] = b => IdOf(k) = batches[b].id /\ task[k] # "cancelling"
        BY NothingLeft DEF IdOf
    <2>3. IdOf(k) = batches[b].id /\ task[k] = "running" => k[1] = b
        BY <1>1, OwnId DEF Working
    <2>4. CASE IdOf(k) = batches[b].id /\ task[k] = "running"
        <3>1. task'[k] \in {"dropped", "cancelling"} /\ k[1] = b
              /\ (task'[k] = "cancelling" => k \in client'[c].waits)
            BY <1>2, <2>3, <2>4
        <3> QED BY <2>4, <3>1 DEF Working
    <2>5. CASE ~(IdOf(k) = batches[b].id /\ task[k] = "running")
        <3>1. task'[k] = task[k]
            BY <1>2, <2>5
        <3> QED BY <2>2, <2>5, <3>1
    <2> QED BY <2>4, <2>5
<1>4. ~Running(b)'
    BY <1>3 DEF Running
<1>5. CallFits(c)'
    BY <1>2, <1>4 DEF CallFits, Cleaning
<1>6. client'[c].pc \in Inside
    BY <1>2 DEF Inside
<1> QED BY <1>1, <1>2, <1>3, <1>4, <1>5, <1>6, LockedStep

LEMMA PipelineDoneFits ==
    ASSUME TypeInv, TypeInv', Inv, NEW c \in Clients, PipelineDone(c) PROVE Inv'
<1>1. client[c].pc = "pipeline" /\ client[c].pc \in Inside /\ client[c].pc \notin Cleaning
    BY DEF PipelineDone, Inside, Cleaning
<1>2. PICK b \in Batch : b = client[c].b
    BY <1>1, InsideFacts
<1>3. CASE Incomplete(b)
    <2> DEFINE call == [client[c] EXCEPT !.pc = "cleanup"]
    <2>1. /\ StartCleanup(c, batches[b].id, call)
          /\ UNCHANGED <<batches, pending_batches, finalize_lock>>
        BY <1>2, <1>3 DEF PipelineDone
    <2>2. call \in ClientState /\ call.b = b /\ call.pc \in Cleaning
        BY <1>2, OneClient DEF ClientState, Cleaning
    <2> HIDE DEF call
    <2> QED BY <1>1, <1>2, <2>1, <2>2, CleaningFits
<1>4. CASE ~Incomplete(b)
    <2>1. PICK n \in Nat, kept \in [Task -> TaskState] : n = batches[b].statuses /\ kept = task
        BY OneBatch DEF TypeInv, TypeOK
    <2>2. FinishBatch(c, b, n, kept)
        BY <1>2, <1>4, <2>1 DEF PipelineDone
    <2>3. ~Running(b)
        BY <1>1, <1>2, <1>4 DEF Inv, CallsFit, CallFits
    <2>4. \A k \in Task : kept[k] = task[k]
        BY <2>1
    <2> QED BY <1>1, <1>2, <2>2, <2>3, <2>4, FinishingFits
<1> QED BY <1>3, <1>4

LEMMA CleanupDoneFits ==
    ASSUME TypeInv, TypeInv', Inv, NEW c \in Clients, CleanupDone(c) PROVE Inv'
<1>1. /\ client[c].pc = "cleanup" /\ CleanedUp(c)
      /\ client[c].pc \in Inside /\ client[c].pc \in Cleaning
    BY DEF CleanupDone, Inside, Cleaning
<1>2. PICK b \in Batch : b = client[c].b
    BY <1>1, InsideFacts
<1>3. PICK n \in Nat, kept \in [Task -> TaskState] : n = batches[b].statuses /\ kept = task
    BY OneBatch DEF TypeInv, TypeOK
<1>4. FinishBatch(c, b, n, kept)
    BY <1>2, <1>3 DEF CleanupDone
<1>5. ~Running(b)
    BY <1>1, <1>2 DEF Inv, CallsFit, CallFits
<1>6. \A k \in Task : kept[k] = task[k]
    BY <1>3
<1> QED BY <1>1, <1>2, <1>4, <1>5, <1>6, FinishingFits

LEMMA DrainEvalFits ==
    ASSUME TypeInv, TypeInv', Inv, NEW c \in Clients, client[c].pc \in Inside,
           client[c].pc \in Cleaning => CleanedUp(c),
           DrainEval(c), ~Running(client[c].b)
    PROVE  Inv'
<1>1. PICK b \in Batch : b = client[c].b /\ batches[b].state \in Active
    BY InsideFacts
<1>2. PICK n \in Nat, kept \in [Task -> TaskState] :
        /\ n = Cardinality(Cached(batches[b].id))
        /\ kept = Move(Cached(batches[b].id), "taken")
    BY CachedIsFinite, Moved DEF TaskState, TypeInv
<1>3. FinishBatch(c, b, n, kept)
    BY <1>1, <1>2 DEF DrainEval
<1>4. \A k \in Task : kept[k] = IF kept[k] = "taken" /\ k[1] = b /\ task[k] = "cached"
                                THEN "taken" ELSE task[k]
    <2>1. \A k \in Task : kept[k] = IF k \in Cached(batches[b].id) THEN "taken" ELSE task[k]
        BY <1>2, Moved DEF TaskState, TypeInv
    <2>2. \A k \in Task : k \in Cached(batches[b].id) => k[1] = b /\ task[k] = "cached"
        BY <1>1, OwnId DEF Cached, Working
    <2> QED BY <2>1, <2>2
<1> QED BY <1>1, <1>3, <1>4, FinishingFits

LEMMA EvalCompletedFits ==
    ASSUME TypeInv, TypeInv', Inv, NEW c \in Clients, EvalCompleted(c) PROVE Inv'
<1>1. /\ client[c].pc = "statuses" /\ DrainEval(c)
      /\ client[c].pc \in Inside /\ client[c].pc \notin Cleaning
    BY DEF EvalCompleted, Inside, Cleaning
<1>2. PICK b \in Batch : b = client[c].b /\ batches[b].state \in Active
    BY <1>1, InsideFacts
<1>3. ~Running(b)
    <2>1. SUFFICES ASSUME Running(b) PROVE FALSE
        OBVIOUS
    <2>2. client[c].scheduled = batches[b].expected
        BY <1>1, <1>2, <2>1 DEF Inv, CallsFit, CallFits
    <2>3. Cardinality(Cached(batches[b].id)) >= batches[b].expected
        BY <1>2, <2>2 DEF EvalCompleted
    <2>4. \A k \in Task : k[1] = b /\ task[k] # "none" => task[k] = "cached"
        BY <1>2, <2>3, AllCached
    <2> QED BY <2>1, <2>4 DEF Running
<1> QED BY <1>1, <1>2, <1>3, DrainEvalFits

LEMMA EvalTimedOutFits ==
    ASSUME TypeInv, TypeInv', Inv, NEW c \in Clients, EvalTimedOut(c) PROVE Inv'
<1>1. /\ client[c].pc = "statuses"
      /\ client[c].pc \in Inside /\ client[c].pc \notin Cleaning
      /\ UNCHANGED <<batches, pending_batches, finalize_lock>>
      /\ StartCleanup(c, batches[client[c].b].id, [client[c] EXCEPT !.pc = "evalcleanup"])
    BY DEF EvalTimedOut, Inside, Cleaning
<1>2. PICK b \in Batch : b = client[c].b
    BY <1>1, InsideFacts
<1> DEFINE call == [client[c] EXCEPT !.pc = "evalcleanup"]
<1>3. call \in ClientState /\ call.b = b /\ call.pc \in Cleaning
    BY <1>2, OneClient DEF ClientState, Cleaning
<1>4. StartCleanup(c, batches[b].id, call)
    BY <1>1, <1>2
<1> HIDE DEF call
<1> QED BY <1>1, <1>2, <1>3, <1>4, CleaningFits

LEMMA EvalCleanedUpFits ==
    ASSUME TypeInv, TypeInv', Inv, NEW c \in Clients, EvalCleanedUp(c) PROVE Inv'
<1>1. /\ client[c].pc \in Cleaning /\ client[c].pc \in Inside /\ CleanedUp(c) /\ DrainEval(c)
    BY DEF EvalCleanedUp, Inside, Cleaning
<1>2. ~Running(client[c].b)
    BY <1>1 DEF Inv, CallsFit, CallFits
<1> QED BY <1>1, <1>2, DrainEvalFits

\* Both calls that fail leave the batch active and its work alone.
LEMMA FailingFits ==
    ASSUME TypeInv, TypeInv', Inv, NEW c \in Clients, RestoreActive(c) \/ CleanupRaised(c)
    PROVE  Inv'
<1>1. /\ client[c].pc \in Inside /\ (client[c].pc \in Cleaning => CleanedUp(c))
      /\ client[c].pc # "abort"
    <2>1. CASE RestoreActive(c)
        BY <2>1 DEF RestoreActive, Inside, Cleaning
    <2>2. CASE CleanupRaised(c)
        <3>1. client[c].pc \in {"cleanup", "evalcleanup", "abort"} /\ CleanedUp(c)
            BY <2>2 DEF CleanupRaised
        <3>2. client[c].pc # "abort"
            BY DEF Inv, LocksFit
        <3> QED BY <3>1, <3>2 DEF Inside, Cleaning
    <2> QED BY <2>1, <2>2
<1>2. PICK b \in Batch : b = client[c].b /\ batches[b].state \in Active
    BY <1>1, InsideFacts
<1>3. /\ Leave(c) /\ UNCHANGED <<pending_batches, schedulerVars>>
      /\ \A d \in Batch : d # b => batches'[d] = batches[d]
      /\ batches'[b].id = batches[b].id /\ batches'[b].expected = batches[b].expected
      /\ batches'[b].state \in Active
    <2>1. CASE RestoreActive(c)
        <3>1. batches'[b].state \in {"running", "pending"}
            BY <1>2, <2>1, RestoreActiveDoes
        <3> QED BY <1>2, <2>1, <3>1, RestoreActiveDoes DEF Active
    <2>2. CASE CleanupRaised(c)
        <3>1. batches'[b].state \in {"running", batches[b].state}
            BY <1>2, <2>2, CleanupRaisedDoes
        <3>2. batches'[b].state \in Active
            BY <1>2, <3>1 DEF Active
        <3> QED BY <1>1, <1>2, <2>2, <3>2, CleanupRaisedDoes
    <2> QED BY <2>1, <2>2
<1>4. UNCHANGED <<task, task_num_map, pending_batches>>
    BY <1>3 DEF schedulerVars
<1>5. \A k \in Task : task'[k] = task[k]
    BY <1>4
<1> QED BY <1>1, <1>2, <1>3, <1>4, <1>5, LeavingFits

LEMMA FitsStep ==
    ASSUME ~Aborts, TypeInv, TypeInv', Inv, [Next]_vars PROVE Inv'
<1>0. task \in [Task -> TaskState]
    BY DEF TypeInv, TypeOK
<1>1. ASSUME NEW k \in Task, TaskCompleted(k) PROVE Inv'
    <2> DEFINE older == {j \in Cached(IdOf(k)) : j[2] = k[2]}
    <2>1. /\ task' = [Move(older, "dropped") EXCEPT ![k] = "cached"]
          /\ task[k] \in {"running", "cancelling"}
          /\ UNCHANGED <<batches, pending_batches, finalize_lock, task_num_map, client,
                         processed, shutdownVars, failures>>
        BY <1>1 DEF TaskCompleted
    <2>2. \A j \in older : task[j] = "cached"
        BY DEF Cached
    <2> HIDE DEF older
    <2>3. /\ Move(older, "dropped") \in [Task -> TaskState]
          /\ \A j \in Task : Move(older, "dropped")[j] = IF j \in older THEN "dropped" ELSE task[j]
        BY Moved DEF TaskState, TypeInv
    <2>4. \A j \in Task : task'[j] = IF j = k THEN "cached" ELSE IF j \in older THEN "dropped" ELSE task[j]
        BY <2>1, <2>3
    <2>5. \A j \in Task : /\ task'[j] = "running" => task[j] = "running"
                          /\ task'[j] = "cancelling" => task[j] = "cancelling"
                          /\ task'[j] = "none" <=> task[j] = "none"
                          /\ task'[j] \in Working => task[j] \in Working
        BY <2>1, <2>2, <2>4 DEF Working
    <2> QED BY <2>1, <2>5, TaskStepFits
<1>2. ASSUME NEW k \in Task, TaskEnded(k) PROVE Inv'
    <2>1. /\ task' = [task EXCEPT ![k] = "dropped"] /\ task[k] \in {"running", "cancelling"}
          /\ UNCHANGED <<batches, pending_batches, finalize_lock, task_num_map, client,
                         processed, shutdownVars, failures>>
        BY <1>2 DEF TaskEnded
    <2>2. \A j \in Task : task'[j] = IF j = k THEN "dropped" ELSE task[j]
        BY <1>0, <2>1
    <2>3. \A j \in Task : /\ task'[j] = "running" => task[j] = "running"
                          /\ task'[j] = "cancelling" => task[j] = "cancelling"
                          /\ task'[j] = "none" <=> task[j] = "none"
                          /\ task'[j] \in Working => task[j] \in Working
        BY <2>1, <2>2 DEF Working
    <2> QED BY <2>1, <2>3, TaskStepFits
<1>3. CASE Shutdown \/ SchedulerStopped \/ PipelineClosed \/ UNCHANGED vars
    <2>1. UNCHANGED <<batches, pending_batches, finalize_lock, task, task_num_map, client>>
        BY <1>3 DEF Shutdown, SchedulerStopped, PipelineClosed, vars, schedulerVars
    <2>2. LocksFit'
        BY <2>1 DEF Inv, LocksFit
    <2>3. WorkFits'
        BY <2>1 DEF Inv, WorkFits, Running
    <2>4. CallsFit'
        BY <2>1 DEF Inv, CallsFit, CallFits, Running, Incomplete
    <2> QED BY <2>2, <2>3, <2>4 DEF Inv
<1>4. ASSUME NEW c \in Clients, ClientStep(c) PROVE Inv'
    <2>1. ~AbortDone(c)
        BY DEF AbortDone, Inv, LocksFit
    <2> QED BY <1>4, <2>1, AcquireFits, PayloadResultsFits, PipelineDoneFits, CleanupDoneFits,
               EvalCompletedFits, EvalTimedOutFits, EvalCleanedUpFits, FailingFits DEF ClientStep
<1>5. ASSUME NEW c \in Clients, NEW id \in BatchIds, AbortBatch(c, id) PROVE Inv'
    BY <1>5 DEF AbortBatch
<1> QED BY <1>1, <1>2, <1>3, <1>4, <1>5, SubmitFits, FinalizeBatchFits DEF Next

LEMMA FitsAlways ==
    ASSUME ~Aborts PROVE Spec => [](TypeInv /\ Inv)
<1>1. Init => TypeInv /\ Inv
    BY TypeInit, FitsInit
<1>2. TypeInv /\ Inv /\ [Next]_vars => TypeInv' /\ Inv'
    BY TypeStep, FitsStep
<1> QED BY <1>1, <1>2, PTL DEF Spec

\* While nobody aborts batches, every task in the scheduler and every result
\* in its cache belongs to a batch that is registered: the cleanups and the
\* drains of finalize_train_batch and finalize_eval_batch leave none behind.
THEOREM NothingOrphaned == ASSUME ~Aborts PROVE Spec => []NoOrphans
<1>1. TypeInv /\ Inv => NoOrphans
    <2>1. SUFFICES ASSUME TypeInv, Inv, NEW k \in Task, task[k] \in {"running", "cancelling", "cached"}
                   PROVE  pending_batches[IdOf(k)] = k[1]
        BY DEF NoOrphans
    <2>2. k[1] \in Batch /\ batches[k[1]].state \in Active
        BY <2>1, BatchFacts DEF Inv, WorkFits, Working
    <2> QED BY <2>1, <2>2 DEF Inv, LocksFit, IdOf
<1> QED BY <1>1, FitsAlways, PTL

\* While nobody aborts batches, a batch that has its result is never touched
\* again: the lock keeps every other call out, and one that waited for it
\* looks for the result first.
THEOREM OneResult == ASSUME ~Aborts PROVE Spec => TerminalIsFinal
<1>1. TypeInv /\ Inv /\ [Next]_vars =>
        [\A b \in Batch : batches[b].state \in Terminal => batches'[b] = batches[b]]_vars
    <2>1. SUFFICES ASSUME TypeInv, Inv, Next, NEW a \in Batch, batches[a].state \in Terminal
                   PROVE  batches'[a] = batches[a]
        OBVIOUS
    <2>2. ASSUME NEW c \in Clients, client[c].pc \in Inside,
                 NEW b \in Batch, b = client[c].b, \A d \in Batch : d # b => batches'[d] = batches[d]
          PROVE  batches'[a] = batches[a]
        <3>1. a # b
            BY <2>1, <2>2 DEF Inv, LocksFit, Active, Terminal
        <3> QED BY <2>2, <3>1
    <2>3. ASSUME NEW b \in Batch, NEW id \in BatchIds, NEW n \in 0 .. MaxTasks, NEW min \in 0 .. MaxTasks,
                 SubmitBatch(b, id, n, min)
          PROVE  batches'[a] = batches[a]
        <3>1. batches[b].state = "new" /\ \A d \in Batch : d # b => batches'[d] = batches[d]
            BY <2>1, <2>3, TypeOfSubmit, ZenonT(40)
        <3> QED BY <2>1, <3>1 DEF Terminal
    <2>4. ASSUME NEW c \in Clients, NEW b \in Batch, b = client[c].b, client[c].pc \in Inside,
                 NEW n \in Nat, NEW kept \in [Task -> TaskState], FinishBatch(c, b, n, kept)
          PROVE  batches'[a] = batches[a]
        <3>1. batches[b].state # "new"
            BY <2>1, <2>4, InsideFacts
        <3>2. \A d \in Batch : d # b => batches'[d] = batches[d]
            BY <2>1, <2>4, <3>1, Finishing
        <3> QED BY <2>2, <2>4, <3>2
    <2>5. ASSUME NEW c \in Clients, client[c].pc \in Inside, DrainEval(c) PROVE batches'[a] = batches[a]
        <3>1. PICK b \in Batch : b = client[c].b
            BY <2>1, <2>5, InsideFacts
        <3>2. PICK n \in Nat, kept \in [Task -> TaskState] :
                /\ n = Cardinality(Cached(batches[b].id))
                /\ kept = Move(Cached(batches[b].id), "taken")
            BY <2>1, CachedIsFinite, Moved DEF TaskState, TypeInv
        <3> QED BY <2>4, <2>5, <3>1, <3>2 DEF DrainEval
    <2>6. ASSUME NEW c \in Clients, client[c].pc \in Inside,
                 FinishBatch(c, client[c].b, batches[client[c].b].statuses, task)
          PROVE  batches'[a] = batches[a]
        <3>1. PICK b \in Batch : b = client[c].b
            BY <2>1, <2>6, InsideFacts
        <3>2. PICK n \in Nat, kept \in [Task -> TaskState] : n = batches[b].statuses /\ kept = task
            BY <2>1, OneBatch DEF TypeInv, TypeOK
        <3> QED BY <2>4, <2>6, <3>1, <3>2
    <2>7. ASSUME NEW c \in Clients, ClientStep(c) PROVE batches'[a] = batches[a]
        <3>1. CASE Acquire(c) \/ EvalTimedOut(c)
            BY <3>1 DEF Acquire, EvalTimedOut
        <3>2. CASE PayloadResults(c)
            <4>1. client[c].pc \in Inside
                BY <3>2 DEF PayloadResults, Inside
            <4>2. PICK b \in Batch : b = client[c].b
                BY <4>1, <2>1, InsideFacts
            <4>3. \A d \in Batch : d # b => batches'[d] = batches[d]
                BY <2>1, <3>2, <4>2, PayloadResultsDoes
            <4> QED BY <2>2, <4>1, <4>2, <4>3
        <3>3. CASE PipelineDone(c)
            <4>1. client[c].pc \in Inside
                BY <3>3 DEF PipelineDone, Inside
            <4>2. UNCHANGED batches \/ FinishBatch(c, client[c].b, batches[client[c].b].statuses, task)
                BY <3>3 DEF PipelineDone
            <4> QED BY <2>6, <4>1, <4>2
        <3>4. CASE CleanupDone(c)
            BY <2>6, <3>4 DEF CleanupDone, Inside, Cleaning
        <3>5. CASE EvalCompleted(c) \/ EvalCleanedUp(c)
            BY <2>5, <3>5 DEF EvalCompleted, EvalCleanedUp, Inside, Cleaning
        <3>6. CASE RestoreActive(c)
            <4>1. client[c].pc \in Inside
                BY <3>6 DEF RestoreActive, Inside
            <4>2. PICK b \in Batch : b = client[c].b
                BY <2>1, <4>1, InsideFacts
            <4>3. \A d \in Batch : d # b => batches'[d] = batches[d]
                BY <2>1, <3>6, <4>2, RestoreActiveDoes
            <4> QED BY <2>2, <4>1, <4>2, <4>3
        <3>7. CASE CleanupRaised(c)
            <4>1. client[c].pc \in Inside
                <5>1. client[c].pc \in {"cleanup", "evalcleanup", "abort"}
                    BY <3>7 DEF CleanupRaised
                <5> QED BY <2>1, <5>1 DEF Inv, LocksFit, Inside, Cleaning
            <4>2. PICK b \in Batch : b = client[c].b
                BY <2>1, <4>1, InsideFacts
            <4>3. \A d \in Batch : d # b => batches'[d] = batches[d]
                BY <2>1, <3>7, <4>2, CleanupRaisedDoes
            <4> QED BY <2>2, <4>1, <4>2, <4>3
        <3>8. ~AbortDone(c)
            BY <2>1 DEF AbortDone, Inv, LocksFit
        <3> QED BY <2>7, <3>1, <3>2, <3>3, <3>4, <3>5, <3>6, <3>7, <3>8 DEF ClientStep
    <2>8. CASE UNCHANGED batches
        BY <2>8
    <2>9. ASSUME ~UNCHANGED batches
          PROVE  \/ \E b \in Batch, id \in BatchIds, n, min \in 0 .. MaxTasks : SubmitBatch(b, id, n, min)
                 \/ \E c \in Clients : ClientStep(c)
        BY <2>1, <2>9 DEF Next, TaskCompleted, TaskEnded, FinalizeBatch, AbortBatch,
              Shutdown, SchedulerStopped, PipelineClosed
    <2> QED BY <2>3, <2>7, <2>8, <2>9
<1> QED BY <1>1, FitsAlways, PTL DEF Spec, TerminalIsFinal
-----------------------------------------------------------------------------
(* When in addition no call fails in the middle: which results a finalized *)
(* batch consists of.  A call that finds too few results has drained them  *)
(* all the same; the batch is finalized later only if there were none.     *)

\* The results taken from the scheduler for b are those of set S, and are counted.
Counted(b, S) ==
    /\ S = {k \in Tasks(b) : task[k] = "taken"}
    /\ batches[b].statuses = Cardinality(S)
    /\ batches[b].min_wait_num = 0 => batches[b].statuses = batches[b].expected

Unprocessed(b) == \A k \in Task : k[1] = b => k \notin processed

Open == {"new", "pending", "running"}

BatchHas(b) ==
    /\ batches[b].state \in Open =>
          /\ Unprocessed(b)
          /\ batches[b].min_wait_num # 0 => \A k \in Task : k[1] = b => task[k] # "taken"
    /\ batches[b].state = "finalized" /\ ~IsEval(b) => Counted(b, processed \cap Tasks(b))
    /\ batches[b].state = "finalizing" =>
          \E c \in Clients : client[c].pc \in {"pipeline", "cleanup"} /\ client[c].b = b

CallHas(c) ==
    LET b == client[c].b IN
    /\ client[c].pc \in {"statuses", "evalcleanup"} => IsEval(b)
    /\ client[c].pc = "results" => batches[b].state \in Open
    /\ client[c].pc = "pipeline" =>
          batches[b].state = "finalizing" /\ Counted(b, client[c].payloads) /\ Unprocessed(b)
    /\ client[c].pc = "cleanup" =>
          batches[b].state = "finalizing" /\ Counted(b, processed \cap Tasks(b))

ResultsFit ==
    /\ scheduler = "up" /\ pipeline
    /\ \A k \in processed : task[k] = "taken"
    /\ \A b \in Batch : BatchHas(b)
    /\ \A c \in Clients : CallHas(c)

LEMMA TasksOf ==
    ASSUME NEW b \in Batch
    PROVE  \A k : k \in Tasks(b) <=> k \in Task /\ k[1] = b
BY BatchFacts DEF Tasks, Task, Batch

\* A batch that a step leaves alone.
LEMMA OtherBatch ==
    ASSUME NEW a \in Batch,
           \A k \in Task : k[1] = a =>
               /\ task'[k] = "taken" <=> task[k] = "taken"
               /\ k \in processed' <=> k \in processed
    PROVE  /\ {k \in Tasks(a) : task'[k] = "taken"} = {k \in Tasks(a) : task[k] = "taken"}
           /\ processed' \cap Tasks(a) = processed \cap Tasks(a)
           /\ Unprocessed(a) => Unprocessed(a)'
<1>1. {k \in Tasks(a) : task'[k] = "taken"} = {k \in Tasks(a) : task[k] = "taken"}
    BY TasksOf
<1>2. processed' \cap Tasks(a) = processed \cap Tasks(a)
    BY TasksOf
<1> QED BY <1>1, <1>2 DEF Unprocessed

LEMMA CallStays ==
    ASSUME TypeInv, NEW d \in Clients, CallHas(d), client'[d] = client[d],
           client[d].pc # "idle" => batches'[client[d].b] = batches[client[d].b],
           \A k \in Task : k[1] = client[d].b =>
               /\ task'[k] = "taken" <=> task[k] = "taken"
               /\ k \in processed' <=> k \in processed
    PROVE  CallHas(d)'
<1>1. CASE client[d].pc = "idle"
    BY <1>1 DEF CallHas
<1>2. CASE client[d].pc # "idle"
    <2>1. PICK a \in Batch : a = client[d].b
        BY <1>2, OneClient
    <2>2. /\ {k \in Tasks(a) : task'[k] = "taken"} = {k \in Tasks(a) : task[k] = "taken"}
          /\ processed' \cap Tasks(a) = processed \cap Tasks(a)
          /\ Unprocessed(a) => Unprocessed(a)'
        BY <2>1, OtherBatch
    <2>3. Counted(a, client[d].payloads) => Counted(a, client[d].payloads)'
        BY <1>2, <2>1, <2>2 DEF Counted
    <2>4. Counted(a, processed \cap Tasks(a)) => Counted(a, processed \cap Tasks(a))'
        BY <1>2, <2>1, <2>2 DEF Counted
    <2>5. batches'[a] = batches[a] /\ client'[d].b = a /\ client'[d].pc = client[d].pc
        BY <1>2, <2>1
    <2>6. client[d].pc \in {"statuses", "evalcleanup"} => IsEval(a)'
        BY <2>1, <2>5 DEF CallHas, IsEval
    <2>7. client[d].pc = "results" => batches'[a].state \in Open
        BY <2>1, <2>5 DEF CallHas
    <2>8. client[d].pc = "pipeline" =>
              /\ batches'[a].state = "finalizing"
              /\ Counted(a, client[d].payloads)' /\ Unprocessed(a)'
        BY <2>1, <2>2, <2>3, <2>5 DEF CallHas
    <2>9. client[d].pc = "cleanup" =>
              batches'[a].state = "finalizing" /\ Counted(a, processed \cap Tasks(a))'
        BY <2>1, <2>4, <2>5 DEF CallHas
    <2> QED BY <2>1, <2>5, <2>6, <2>7, <2>8, <2>9 DEF CallHas
<1> QED BY <1>1, <1>2

LEMMA BatchStays ==
    ASSUME TypeInv, NEW a \in Batch, BatchHas(a), batches'[a] = batches[a],
           \A k \in Task : k[1] = a =>
               /\ task'[k] = "taken" <=> task[k] = "taken"
               /\ k \in processed' <=> k \in processed,
           \A d \in Clients : client[d].pc \in {"pipeline", "cleanup"} /\ client[d].b = a =>
               client'[d].pc \in {"pipeline", "cleanup"} /\ client'[d].b = a
    PROVE  BatchHas(a)'
<1>1. /\ {k \in Tasks(a) : task'[k] = "taken"} = {k \in Tasks(a) : task[k] = "taken"}
      /\ processed' \cap Tasks(a) = processed \cap Tasks(a)
      /\ Unprocessed(a) => Unprocessed(a)'
    BY OtherBatch
<1>2. Counted(a, processed \cap Tasks(a)) => Counted(a, processed \cap Tasks(a))'
    BY <1>1 DEF Counted
<1>3. batches[a].state \in Open =>
          /\ Unprocessed(a)'
          /\ batches[a].min_wait_num # 0 => \A k \in Task : k[1] = a => task'[k] # "taken"
    BY <1>1 DEF BatchHas
<1>4. IsEval(a)' <=> IsEval(a)
    BY DEF IsEval
<1>5. batches[a].state = "finalizing" =>
          \E d \in Clients : client'[d].pc \in {"pipeline", "cleanup"} /\ client'[d].b = a
    BY DEF BatchHas
<1>6. batches[a].state = "finalized" /\ ~IsEval(a) => Counted(a, processed \cap Tasks(a))'
    BY <1>2 DEF BatchHas
<1> QED BY <1>3, <1>4, <1>5, <1>6 DEF BatchHas

\* No result is taken and no call gets on: at most one begins or ends.
LEMMA QuietStep ==
    ASSUME TypeInv, ResultsFit,
           UNCHANGED <<batches, processed, shutdownVars>>,
           \A k \in Task : task'[k] = "taken" <=> task[k] = "taken",
           \A d \in Clients :
               \/ client'[d] = client[d]
               \/ /\ client[d].pc \notin {"pipeline", "cleanup"}
                  /\ \/ client'[d].pc \in {"idle", "lock"}
                     \/ client'[d].pc \in {"statuses", "evalcleanup"} /\ IsEval(client'[d].b)
                     \/ client'[d].pc = "results" /\ batches[client'[d].b].state \in Open
    PROVE  ResultsFit'
<1>1. ASSUME NEW a \in Batch PROVE BatchHas(a)'
    BY BatchStays DEF ResultsFit
<1>2. ASSUME NEW d \in Clients PROVE CallHas(d)'
    <2>1. CASE client'[d] = client[d]
        BY <2>1, CallStays DEF ResultsFit
    <2>2. CASE \/ client'[d].pc \in {"idle", "lock"}
               \/ client'[d].pc \in {"statuses", "evalcleanup"} /\ IsEval(client'[d].b)
               \/ client'[d].pc = "results" /\ batches[client'[d].b].state \in Open
        BY <2>2 DEF CallHas, IsEval
    <2> QED BY <2>1, <2>2
<1>3. \A k \in processed' : task'[k] = "taken"
    BY DEF ResultsFit, TypeInv, TypeOK
<1> QED BY <1>1, <1>2, <1>3 DEF ResultsFit, shutdownVars

\* A step of the call of c inside b, seen from the other batches and calls.
LEMMA ResultStep ==
    ASSUME TypeInv, TypeInv', Inv, ResultsFit, NEW c \in Clients, NEW b \in Batch,
           client[c].b = b, client[c].pc \in Inside,
           UNCHANGED shutdownVars,
           \A d \in Clients : d # c => client'[d] = client[d],
           \A d \in Batch : d # b => batches'[d] = batches[d],
           \A k \in Task : /\ k[1] # b => /\ task'[k] = "taken" <=> task[k] = "taken"
                                          /\ k \in processed' <=> k \in processed
                           /\ k[1] = b /\ k \in processed' => task'[k] = "taken",
           CallHas(c)', BatchHas(b)'
    PROVE  ResultsFit'
<1>1. ASSUME NEW a \in Batch PROVE BatchHas(a)'
    <2>1. CASE a # b
        <3>1. \A d \in Clients : client[d].pc \in {"pipeline", "cleanup"} /\ client[d].b = a =>
                  client'[d].pc \in {"pipeline", "cleanup"} /\ client'[d].b = a
            BY <2>1
        <3>2. /\ BatchHas(a) /\ batches'[a] = batches[a]
              /\ \A k \in Task : k[1] = a => /\ task'[k] = "taken" <=> task[k] = "taken"
                                             /\ k \in processed' <=> k \in processed
            BY <2>1 DEF ResultsFit
        <3> QED BY <3>1, <3>2, BatchStays
    <2> QED BY <2>1
<1>2. ASSUME NEW d \in Clients PROVE CallHas(d)'
    <2>1. CASE d # c /\ client[d].pc \in Inside
        <3>1. PICK a \in Batch : a = client[d].b /\ a # b
            BY <2>1, Alone, InsideFacts
        <3> QED BY <2>1, <3>1, CallStays DEF ResultsFit
    <2>2. CASE d # c /\ client[d].pc \notin Inside
        BY <2>2 DEF CallHas, Inside, Cleaning
    <2> QED BY <2>1, <2>2
<1>3. \A k \in processed' : task'[k] = "taken"
    <2>1. SUFFICES ASSUME NEW k \in processed' PROVE task'[k] = "taken"
        OBVIOUS
    <2>2. k \in Task
        BY DEF TypeInv, TypeOK
    <2> QED BY <2>2 DEF ResultsFit
<1> QED BY <1>1, <1>2, <1>3 DEF ResultsFit, shutdownVars

\* Results of no other batch are taken, nor are any of b but those of the call.
LEMMA DrainedOwn ==
    ASSUME TypeInv, Inv, NEW b \in Batch, batches[b].state \in Active
    PROVE  \A k \in Cached(batches[b].id) : k \in Task /\ k[1] = b /\ task[k] = "cached"
BY OwnId DEF Cached, Working

LEMMA SubmitResults ==
    ASSUME TypeInv, Inv, ResultsFit, NEW b \in Batch, NEW id \in BatchIds, NEW n \in 0 .. MaxTasks,
           NEW min \in 0 .. MaxTasks, SubmitBatch(b, id, n, min)
    PROVE  ResultsFit'
<1>1. /\ batches[b].state = "new"
      /\ \A d \in Batch : d # b => batches'[d] = batches[d]
    BY TypeOfSubmit, ZenonT(40)
<1>2. batches'[b].state \in {"running", "pending"}
    BY TypeOfSubmit, Zenon
<1>3. /\ \A k \in Task : task'[k] = IF k[1] = b /\ k[2] <= Scheduled(n) THEN "running" ELSE task[k]
      /\ task_num_map'[id] = task_num_map[id] + Scheduled(n)
    BY TypeOfSubmit, ZenonT(40)
<1>4. UNCHANGED <<client, processed, shutdownVars>>
    BY DEF SubmitBatch
<1>5. \A k \in Task : k[1] = b => task[k] = "none"
    BY <1>1 DEF Inv, WorkFits
<1>6. \A k \in Task : task'[k] = "taken" <=> task[k] = "taken"
    BY <1>3, <1>5
<1>7. \A k \in Task : k[1] = b => task'[k] # "taken" /\ k \notin processed'
    BY <1>4, <1>5, <1>6 DEF ResultsFit
<1>8. ASSUME NEW a \in Batch PROVE BatchHas(a)'
    <2>1. CASE a # b
        <3>1. BatchHas(a) /\ batches'[a] = batches[a]
            BY <1>1, <2>1 DEF ResultsFit
        <3> QED BY <1>4, <1>6, <3>1, BatchStays
    <2>2. CASE a = b
        BY <1>2, <1>7, <2>2 DEF BatchHas, Unprocessed
    <2> QED BY <2>1, <2>2
<1>9. ASSUME NEW d \in Clients PROVE CallHas(d)'
    <2>1. client[d].pc # "idle" => batches'[client[d].b] = batches[client[d].b]
        BY <1>1, OneClient
    <2>2. CallHas(d) /\ client'[d] = client[d]
        BY <1>4 DEF ResultsFit
    <2> QED BY <1>4, <1>6, <2>1, <2>2, CallStays
<1>10. \A k \in processed' : task'[k] = "taken"
    BY <1>4, <1>6 DEF ResultsFit, TypeInv, TypeOK
<1> QED BY <1>4, <1>8, <1>9, <1>10 DEF ResultsFit, shutdownVars

LEMMA EnterResults ==
    ASSUME TypeInv, Inv, ResultsFit, NEW c \in Clients, NEW b \in Batch, batches[b].state # "new",
           Enter(c, b), client[c].pc \in {"idle", "lock"}, finalize_lock[b] = NoClient,
           UNCHANGED <<batches, pending_batches, schedulerVars, processed, shutdownVars, failures>>
    PROVE  ResultsFit'
<1>1. /\ \A d \in Clients : d # c => client'[d] = client[d]
      /\ \/ client'[c].pc = "idle"
         \/ /\ ~HasResult(b) /\ client'[c].b = b
            /\ client'[c].pc = IF IsEval(b) THEN "statuses" ELSE "results"
    BY Entering
<1>2. batches[b].state # "finalizing"
    <2>1. SUFFICES ASSUME batches[b].state = "finalizing" PROVE FALSE
        OBVIOUS
    <2>2. PICK d \in Clients : client[d].pc \in {"pipeline", "cleanup"} /\ client[d].b = b
        BY <2>1 DEF ResultsFit, BatchHas
    <2>3. finalize_lock[b] = d
        BY <2>2 DEF Inv, LocksFit, Inside, Cleaning
    <2> QED BY <2>3, BatchFacts
<1>3. ~HasResult(b) => batches[b].state \in Open
    <2>1. batches[b].state \in {"new"} \cup Active \cup Terminal
        BY OneBatch DEF TypeInv
    <2>2. ~HasResult(b) => batches[b].state \notin Terminal
        BY DEF Inv, LocksFit, HasResult
    <2> QED BY <1>2, <2>1, <2>2 DEF Active, Open
<1>4. \A d \in Clients :
               \/ client'[d] = client[d]
               \/ /\ client[d].pc \notin {"pipeline", "cleanup"}
                  /\ \/ client'[d].pc \in {"idle", "lock"}
                     \/ client'[d].pc \in {"statuses", "evalcleanup"} /\ IsEval(client'[d].b)
                     \/ client'[d].pc = "results" /\ batches[client'[d].b].state \in Open
    BY <1>1, <1>3
<1>5. \A k \in Task : task'[k] = "taken" <=> task[k] = "taken"
    BY DEF schedulerVars
<1> QED BY <1>4, <1>5, QuietStep

LEMMA FinalizeBatchResults ==
    ASSUME TypeInv, Inv, ResultsFit, NEW c \in Clients, NEW id \in BatchIds, FinalizeBatch(c, id)
    PROVE  ResultsFit'
<1>1. /\ pending_batches[id] # 0 /\ client[c].pc = "idle"
      /\ UNCHANGED <<batches, pending_batches, schedulerVars, processed, shutdownVars, failures>>
    BY DEF FinalizeBatch
<1>2. PICK b \in Batch : b = pending_batches[id] /\ batches[b].state # "new"
    BY <1>1 DEF TypeOK, TypeInv, Registered
<1>3. CASE finalize_lock[b] = NoClient /\ Enter(c, b)
    BY <1>1, <1>2, <1>3, EnterResults
<1>4. CASE client' = [client EXCEPT ![c] = [Idle EXCEPT !.pc = "lock", !.b = b]]
    <2> DEFINE x == [Idle EXCEPT !.pc = "lock", !.b = b]
    <2>1. x \in ClientState /\ x.pc = "lock"
        BY DEF Idle, ClientState
    <2>2. client' = [client EXCEPT ![c] = x] /\ TypeOK
        BY <1>4 DEF TypeInv
    <2> HIDE DEF x
    <2>3. client'[c].pc = "lock" /\ \A d \in Clients : d # c => client'[d] = client[d]
        BY <2>1, <2>2, SetClient
    <2>4. \A k \in Task : task'[k] = "taken" <=> task[k] = "taken"
        BY <1>1 DEF schedulerVars
    <2> QED BY <1>1, <2>3, <2>4, QuietStep
<1> QED BY <1>2, <1>3, <1>4 DEF FinalizeBatch

LEMMA AcquireResults ==
    ASSUME TypeInv, Inv, ResultsFit, NEW c \in Clients, Acquire(c) PROVE ResultsFit'
<1>1. /\ client[c].pc = "lock" /\ Enter(c, client[c].b) /\ finalize_lock[client[c].b] = NoClient
      /\ UNCHANGED <<batches, pending_batches, schedulerVars, processed, shutdownVars, failures>>
    BY DEF Acquire
<1>2. PICK b \in Batch : b = client[c].b /\ batches[b].state # "new"
    BY <1>1, OneClient
<1> QED BY <1>1, <1>2, EnterResults

\* What a call drains are all the results of its batch that were ever taken, or too few.
LEMMA PayloadResultsCounts ==
    ASSUME TypeInv, TypeInv', Inv, ResultsFit, NEW c \in Clients, PayloadResults(c)
    PROVE  ResultsFit'
<1>1. client[c].pc = "results" /\ client[c].pc \in Inside
    BY DEF PayloadResults, Inside
<1>2. PICK b \in Batch : b = client[c].b /\ batches[b].state \in Active /\ batches[b].state \in Open
    BY <1>1, InsideFacts DEF ResultsFit, CallHas
<1> DEFINE got == Cached(batches[b].id)
<1>3. /\ UNCHANGED <<processed, shutdownVars>>
      /\ \A k \in Task : task'[k] = IF k \in got THEN "taken" ELSE task[k]
      /\ \/ TooFew(b, Cardinality(got)) /\ UNCHANGED batches /\ Leave(c)
         \/ /\ ~TooFew(b, Cardinality(got))
            /\ \A d \in Clients : d # c => client'[d] = client[d]
            /\ client'[c].pc = "pipeline" /\ client'[c].b = b /\ client'[c].payloads = got
            /\ \A d \in Batch : d # b => batches'[d] = batches[d]
            /\ batches'[b].expected = batches[b].expected
            /\ batches'[b].min_wait_num = batches[b].min_wait_num
            /\ batches'[b].statuses = Cardinality(got)
            /\ batches'[b].state = "finalizing"
    BY <1>2, PayloadResultsDoes
<1>4. \A k \in got : k \in Task /\ k[1] = b /\ task[k] = "cached"
    BY <1>2, DrainedOwn
<1>5. IsFiniteSet(got) /\ Cardinality(got) \in Nat
    BY CachedIsFinite
<1>6. /\ Unprocessed(b)
      /\ batches[b].min_wait_num # 0 => \A k \in Task : k[1] = b => task[k] # "taken"
    BY <1>2 DEF ResultsFit, BatchHas
<1>7. batches[b].expected \in Nat
    <2>1. batches[b].expected \in 0 .. MaxTasks
        BY OneBatch DEF TypeInv
    <2> QED BY <2>1
<1> HIDE DEF got
<1>8. \A k \in Task : /\ k[1] # b => /\ task'[k] = "taken" <=> task[k] = "taken"
                                     /\ k \in processed' <=> k \in processed
                      /\ k[1] = b /\ k \in processed' => task'[k] = "taken"
    BY <1>3, <1>4, <1>6 DEF Unprocessed
<1>9. CASE TooFew(b, Cardinality(got)) /\ UNCHANGED batches /\ Leave(c)
    <2>1. /\ client'[c] = Idle
          /\ \A d \in Clients : d # c => client'[d] = client[d]
        BY <1>2, <1>9, Leaving DEF TypeInv
    <2>2. batches[b].min_wait_num # 0 => got = {}
        BY <1>5, <1>9, FS_EmptySet DEF TooFew
    <2>3. BatchHas(b)'
        <3>1. Unprocessed(b)'
            BY <1>3, <1>6 DEF Unprocessed
        <3>2. batches[b].min_wait_num # 0 => \A k \in Task : k[1] = b => task'[k] # "taken"
            BY <1>3, <1>6, <2>2
        <3> QED BY <1>2, <1>9, <3>1, <3>2 DEF BatchHas, Open
    <2>4. CallHas(c)'
        BY <2>1, IdleType DEF CallHas
    <2> QED BY <1>1, <1>2, <1>3, <1>8, <1>9, <2>1, <2>3, <2>4, ResultStep
<1>10. CASE /\ ~TooFew(b, Cardinality(got))
            /\ \A d \in Clients : d # c => client'[d] = client[d]
            /\ client'[c].pc = "pipeline" /\ client'[c].b = b /\ client'[c].payloads = got
            /\ \A d \in Batch : d # b => batches'[d] = batches[d]
            /\ batches'[b].expected = batches[b].expected
            /\ batches'[b].min_wait_num = batches[b].min_wait_num
            /\ batches'[b].statuses = Cardinality(got)
            /\ batches'[b].state = "finalizing"
    <2>1. batches[b].min_wait_num = 0 =>
              /\ \A k \in Task : k[1] = b => task[k] # "taken"
              /\ Cardinality(got) = batches[b].expected
        <3>1. SUFFICES ASSUME batches[b].min_wait_num = 0
                       PROVE  /\ \A k \in Task : k[1] = b => task[k] # "taken"
                              /\ Cardinality(got) = batches[b].expected
            OBVIOUS
        <3>2. Cardinality(got) >= batches[b].expected
            BY <1>5, <1>7, <1>10, <3>1 DEF TooFew
        <3>3. /\ \A k \in Task : k[1] = b /\ task[k] # "none" => task[k] = "cached"
              /\ Cardinality(got) = batches[b].expected
            BY <1>2, <3>2, AllCached DEF got
        <3> QED BY <3>3
    <2>2. \A k \in Task : k[1] = b => task[k] # "taken"
        BY <1>6, <2>1
    <2>3. got = {k \in Tasks(b) : task'[k] = "taken"}
        BY <1>3, <1>4, <2>2, TasksOf
    <2>4. batches'[b].min_wait_num = 0 => batches'[b].statuses = batches'[b].expected
        BY <1>10, <2>1
    <2>5. Unprocessed(b)'
        BY <1>3, <1>6 DEF Unprocessed
    <2>6. CallHas(c)'
        <3>1. Counted(client[c].b, client[c].payloads)'
            BY <1>10, <2>3, <2>4 DEF Counted
        <3>2. Unprocessed(client[c].b)'
            BY <1>10, <2>5
        <3> QED BY <1>10, <3>1, <3>2 DEF CallHas
    <2>7. BatchHas(b)'
        BY <1>10 DEF BatchHas, Open
    <2> QED BY <1>1, <1>2, <1>3, <1>8, <1>10, <2>6, <2>7, ResultStep
<1> QED BY <1>3, <1>9, <1>10

\* The end of a call that has all of its results processed, or of one on an eval batch.
LEMMA FinishingCounts ==
    ASSUME TypeInv, TypeInv', Inv, ResultsFit, NEW c \in Clients, NEW b \in Batch,
           client[c].b = b, client[c].pc \in Inside,
           NEW n \in Nat, NEW kept \in [Task -> TaskState], FinishBatch(c, b, n, kept),
           UNCHANGED shutdownVars,
           \A k \in Task : /\ k[1] # b => /\ kept[k] = task[k]
                                          /\ k \in processed' <=> k \in processed
                           /\ k[1] = b /\ k \in processed' => kept[k] = "taken",
           \/ IsEval(b)
           \/ /\ processed' \cap Tasks(b) = {k \in Tasks(b) : kept[k] = "taken"}
              /\ n = Cardinality(processed' \cap Tasks(b))
              /\ batches[b].min_wait_num = 0 => n = batches[b].expected
    PROVE  ResultsFit'
<1>1. batches[b].state # "new"
    BY InsideFacts
<1>2. /\ Leave(c) /\ \A d \in Batch : d # b => batches'[d] = batches[d]
      /\ batches'[b].id = batches[b].id /\ batches'[b].statuses = n
      /\ batches'[b].expected = batches[b].expected
      /\ batches'[b].min_wait_num = batches[b].min_wait_num
    <2>0. Leave(c)
        BY <1>1, Finishing
    <2>5. batches' = [batches EXCEPT ![b] =
              [@ EXCEPT !.statuses = n, !.state = "finalized", !.has_result = TRUE]]
        <3>1. scheduler # "none"
            BY DEF ResultsFit
        <3> QED BY <3>1 DEF FinishBatch
    <2>6. batches \in [Batch -> BatchState]
        BY DEF TypeInv, TypeOK
    <2>1. \A d \in Batch : d # b => batches'[d] = batches[d]
        BY <2>5, <2>6
    <2>2. batches'[b].id = batches[b].id
        BY <1>1, Finishing
    <2>4. batches'[b].statuses = n
        <3>1. batches'[b] = [batches[b] EXCEPT !.statuses = n, !.state = "finalized", !.has_result = TRUE]
            BY <2>5, <2>6
        <3> QED BY <2>6, <3>1 DEF BatchState
    <2>3. /\ batches'[b].expected = batches[b].expected
          /\ batches'[b].min_wait_num = batches[b].min_wait_num
        BY <1>1, Finishing
    <2> QED BY <2>0, <2>1, <2>2, <2>3, <2>4
<1>3. batches'[b].state = "finalized"
    BY <1>1, Finishing, ZenonT(40) DEF ResultsFit
<1>4. task' = [k \in Task |-> IF IdOf(k) = batches[b].id /\ kept[k] = "cached"
                              THEN "dropped" ELSE kept[k]]
    BY DEF FinishBatch, ResultsFit
<1>5. \A k \in Task : task'[k] = "taken" <=> kept[k] = "taken"
    <2>1. SUFFICES ASSUME NEW k \in Task PROVE task'[k] = "taken" <=> kept[k] = "taken"
        OBVIOUS
    <2>2. task'[k] = IF IdOf(k) = batches[b].id /\ kept[k] = "cached" THEN "dropped" ELSE kept[k]
        BY <1>4
    <2> QED BY <2>2
<1>6. /\ client'[c] = Idle
      /\ \A d \in Clients : d # c => client'[d] = client[d]
    BY <1>2, Leaving DEF TypeInv
<1>7. \A k \in Task : /\ k[1] # b => /\ task'[k] = "taken" <=> task[k] = "taken"
                                     /\ k \in processed' <=> k \in processed
                      /\ k[1] = b /\ k \in processed' => task'[k] = "taken"
    BY <1>5
<1>8. CallHas(c)'
    BY <1>6, IdleType DEF CallHas
<1>9. BatchHas(b)'
    <2>1. CASE IsEval(b)
        BY <1>2, <1>3, <2>1 DEF BatchHas, IsEval, Open
    <2>2. CASE /\ processed' \cap Tasks(b) = {k \in Tasks(b) : kept[k] = "taken"}
               /\ n = Cardinality(processed' \cap Tasks(b))
               /\ batches[b].min_wait_num = 0 => n = batches[b].expected
        <3>1. {k \in Tasks(b) : kept[k] = "taken"} = {k \in Tasks(b) : task'[k] = "taken"}
            BY <1>5, TasksOf
        <3>2. Counted(b, processed \cap Tasks(b))'
            BY <1>2, <2>2, <3>1 DEF Counted
        <3> QED BY <1>3, <3>2 DEF BatchHas, Open
    <2> QED BY <2>1, <2>2
<1> QED BY <1>2, <1>6, <1>7, <1>8, <1>9, ResultStep

LEMMA PipelineDoneCounts ==
    ASSUME TypeInv, TypeInv', Inv, ResultsFit, NEW c \in Clients, PipelineDone(c)
    PROVE  ResultsFit'
<1>1. client[c].pc = "pipeline" /\ client[c].pc \in Inside
    BY DEF PipelineDone, Inside
<1>2. PICK b \in Batch : b = client[c].b /\ batches[b].id \in BatchIds /\ batches[b].state \in Active
    BY <1>1, InsideFacts
<1>3. /\ processed' = processed \cup client[c].payloads /\ UNCHANGED shutdownVars
    BY DEF PipelineDone
<1>4. /\ batches[b].state = "finalizing" /\ Unprocessed(b)
      /\ client[c].payloads = {k \in Tasks(b) : task[k] = "taken"}
      /\ batches[b].statuses = Cardinality(client[c].payloads)
      /\ batches[b].min_wait_num = 0 => batches[b].statuses = batches[b].expected
    BY <1>1, <1>2 DEF ResultsFit, CallHas, Counted
<1>5. processed' \cap Tasks(b) = {k \in Tasks(b) : task[k] = "taken"}
    BY <1>3, <1>4, TasksOf DEF Unprocessed
<1>6. \A k \in Task : /\ k[1] # b => (k \in processed' <=> k \in processed)
                      /\ k[1] = b /\ k \in processed' => task[k] = "taken"
    BY <1>3, <1>4, TasksOf DEF Unprocessed
<1>7. CASE Incomplete(b)
    <2> DEFINE call == [client[c] EXCEPT !.pc = "cleanup"]
    <2>1. StartCleanup(c, batches[b].id, call) /\ UNCHANGED batches
        BY <1>2, <1>7 DEF PipelineDone
    <2>2. call \in ClientState /\ call.b = b /\ call.pc = "cleanup"
        BY <1>2, OneClient DEF ClientState
    <2> HIDE DEF call
    <2>3. /\ \A k \in Task : IF IdOf(k) = batches[b].id /\ task[k] = "running"
                             THEN task'[k] \in {"dropped", "cancelling"}
                             ELSE task'[k] = task[k]
          /\ \A d \in Clients : d # c => client'[d] = client[d]
          /\ client'[c].pc = "cleanup" /\ client'[c].b = b
        BY <1>2, <2>1, <2>2, CleaningUp DEF TypeInv
    <2>4. \A k \in Task : task'[k] = "taken" <=> task[k] = "taken"
        BY <2>3
    <2>5. {k \in Tasks(b) : task'[k] = "taken"} = {k \in Tasks(b) : task[k] = "taken"}
        BY <2>4, TasksOf
    <2>6. CallHas(c)'
        <3>1. Counted(b, processed \cap Tasks(b))'
            BY <1>4, <1>5, <2>1, <2>5 DEF Counted
        <3> QED BY <1>4, <2>1, <2>3, <3>1 DEF CallHas
    <2>7. BatchHas(b)'
        BY <1>4, <2>1, <2>3 DEF BatchHas, Open
    <2> QED BY <1>1, <1>2, <1>3, <1>6, <2>1, <2>3, <2>4, <2>6, <2>7, ResultStep
<1>8. CASE ~Incomplete(b)
    <2>1. PICK n \in Nat, kept \in [Task -> TaskState] : n = batches[b].statuses /\ kept = task
        BY OneBatch DEF TypeInv, TypeOK
    <2>2. FinishBatch(c, b, n, kept)
        BY <1>2, <1>8, <2>1 DEF PipelineDone
    <2>3. \A k \in Task : /\ k[1] # b => /\ kept[k] = task[k]
                                         /\ k \in processed' <=> k \in processed
                          /\ k[1] = b /\ k \in processed' => kept[k] = "taken"
        BY <1>6, <2>1
    <2>4. /\ processed' \cap Tasks(b) = {k \in Tasks(b) : kept[k] = "taken"}
          /\ n = Cardinality(processed' \cap Tasks(b))
          /\ batches[b].min_wait_num = 0 => n = batches[b].expected
        BY <1>4, <1>5, <2>1
    <2> QED BY <1>1, <1>2, <1>3, <2>2, <2>3, <2>4, FinishingCounts
<1> QED BY <1>7, <1>8

LEMMA CleanupDoneCounts ==
    ASSUME TypeInv, TypeInv', Inv, ResultsFit, NEW c \in Clients, CleanupDone(c)
    PROVE  ResultsFit'
<1>1. client[c].pc = "cleanup" /\ client[c].pc \in Inside /\ UNCHANGED <<processed, shutdownVars>>
    BY DEF CleanupDone, Inside, Cleaning
<1>2. PICK b \in Batch : b = client[c].b
    BY <1>1, InsideFacts
<1>3. Counted(b, processed \cap Tasks(b))
    BY <1>1, <1>2 DEF ResultsFit, CallHas
<1>4. PICK n \in Nat, kept \in [Task -> TaskState] : n = batches[b].statuses /\ kept = task
    BY OneBatch DEF TypeInv, TypeOK
<1>5. FinishBatch(c, b, n, kept)
    BY <1>2, <1>4 DEF CleanupDone
<1>6. \A k \in Task : /\ k[1] # b => /\ kept[k] = task[k]
                                     /\ k \in processed' <=> k \in processed
                      /\ k[1] = b /\ k \in processed' => kept[k] = "taken"
    BY <1>1, <1>4 DEF ResultsFit
<1>7. /\ processed' \cap Tasks(b) = {k \in Tasks(b) : kept[k] = "taken"}
      /\ n = Cardinality(processed' \cap Tasks(b))
      /\ batches[b].min_wait_num = 0 => n = batches[b].expected
    BY <1>1, <1>3, <1>4 DEF Counted
<1> QED BY <1>1, <1>2, <1>5, <1>6, <1>7, FinishingCounts

LEMMA DrainEvalCounts ==
    ASSUME TypeInv, TypeInv', Inv, ResultsFit, NEW c \in Clients,
           client[c].pc \in {"statuses", "evalcleanup"}, DrainEval(c),
           UNCHANGED <<processed, shutdownVars>>
    PROVE  ResultsFit'
<1>1. client[c].pc \in Inside
    BY DEF Inside, Cleaning
<1>2. PICK b \in Batch : b = client[c].b /\ batches[b].state \in Active
    BY <1>1, InsideFacts
<1>3. IsEval(b)
    BY <1>2 DEF ResultsFit, CallHas
<1>4. PICK n \in Nat, kept \in [Task -> TaskState] :
        /\ n = Cardinality(Cached(batches[b].id))
        /\ kept = Move(Cached(batches[b].id), "taken")
    BY CachedIsFinite, Moved DEF TaskState, TypeInv
<1>5. FinishBatch(c, b, n, kept)
    BY <1>2, <1>4 DEF DrainEval
<1>6. \A k \in Task : kept[k] = IF k \in Cached(batches[b].id) THEN "taken" ELSE task[k]
    BY <1>4, Moved DEF TaskState, TypeInv
<1>7. \A k \in Cached(batches[b].id) : k \in Task /\ k[1] = b /\ task[k] = "cached"
    BY <1>2, DrainedOwn
<1>8. \A k \in Task : /\ k[1] # b => /\ kept[k] = task[k]
                                     /\ k \in processed' <=> k \in processed
                      /\ k[1] = b /\ k \in processed' => kept[k] = "taken"
    BY <1>6, <1>7 DEF ResultsFit
<1> QED BY <1>1, <1>2, <1>3, <1>5, <1>8, FinishingCounts

LEMMA EvalTimedOutCounts ==
    ASSUME TypeInv, Inv, ResultsFit, NEW c \in Clients, EvalTimedOut(c)
    PROVE  ResultsFit'
<1>1. /\ client[c].pc = "statuses" /\ client[c].pc \in Inside
      /\ UNCHANGED <<batches, processed, shutdownVars>>
      /\ StartCleanup(c, batches[client[c].b].id, [client[c] EXCEPT !.pc = "evalcleanup"])
    BY DEF EvalTimedOut, Inside
<1>2. PICK b \in Batch : b = client[c].b /\ batches[b].id \in BatchIds
    BY <1>1, InsideFacts
<1> DEFINE call == [client[c] EXCEPT !.pc = "evalcleanup"]
<1>3. call \in ClientState /\ call.b = b /\ call.pc = "evalcleanup"
    BY <1>2, OneClient DEF ClientState
<1>4. StartCleanup(c, batches[b].id, call)
    BY <1>1, <1>2
<1> HIDE DEF call
<1>5. /\ \A k \in Task : IF IdOf(k) = batches[b].id /\ task[k] = "running"
                         THEN task'[k] \in {"dropped", "cancelling"}
                         ELSE task'[k] = task[k]
      /\ \A d \in Clients : d # c => client'[d] = client[d]
      /\ client'[c].pc = "evalcleanup" /\ client'[c].b = b
    BY <1>2, <1>3, <1>4, CleaningUp DEF TypeInv
<1>6. \A k \in Task : task'[k] = "taken" <=> task[k] = "taken"
    BY <1>5
<1>7. IsEval(b)
    BY <1>1, <1>2 DEF ResultsFit, CallHas
<1>8. IsEval(client'[c].b)
    BY <1>5, <1>7
<1>9. \A d \in Clients :
               \/ client'[d] = client[d]
               \/ /\ client[d].pc \notin {"pipeline", "cleanup"}
                  /\ \/ client'[d].pc \in {"idle", "lock"}
                     \/ client'[d].pc \in {"statuses", "evalcleanup"} /\ IsEval(client'[d].b)
                     \/ client'[d].pc = "results" /\ batches[client'[d].b].state \in Open
    BY <1>1, <1>5, <1>8
<1> QED BY <1>1, <1>6, <1>9, QuietStep

\* The configurations in which a call that has begun to process its results gets to its end.
NothingFails == ~Aborts /\ ~Shutdowns /\ ~PipelineFaults /\ ~RestartFaults

LEMMA ResultsInit == Init => ResultsFit
<1> SUFFICES ASSUME Init PROVE ResultsFit
    OBVIOUS
<1>1. \A b \in Batch : batches[b].state = "new"
    BY DEF Init, NewBatch
<1>2. \A k \in Task : task[k] = "none"
    BY DEF Init
<1>3. \A c \in Clients : client[c].pc = "idle"
    BY DEF Init, Idle
<1>4. processed = {} /\ scheduler = "up" /\ pipeline
    BY DEF Init
<1>5. \A b \in Batch : BatchHas(b)
    BY <1>1, <1>2, <1>4 DEF BatchHas, Unprocessed
<1>6. \A c \in Clients : CallHas(c)
    BY <1>3 DEF CallHas
<1> QED BY <1>4, <1>5, <1>6 DEF ResultsFit

LEMMA ResultsNext ==
    ASSUME NothingFails, TypeInv, TypeInv', Inv, ResultsFit, [Next]_vars PROVE ResultsFit'
<1>0. task \in [Task -> TaskState]
    BY DEF TypeInv, TypeOK
<1>1. ASSUME NEW k \in Task, TaskCompleted(k) PROVE ResultsFit'
    <2> DEFINE older == {j \in Cached(IdOf(k)) : j[2] = k[2]}
    <2>1. /\ task' = [Move(older, "dropped") EXCEPT ![k] = "cached"]
          /\ task[k] \in {"running", "cancelling"}
          /\ UNCHANGED <<batches, client, processed, shutdownVars>>
        BY <1>1 DEF TaskCompleted
    <2>2. \A j \in older : task[j] = "cached"
        BY DEF Cached
    <2> HIDE DEF older
    <2>3. /\ Move(older, "dropped") \in [Task -> TaskState]
          /\ \A j \in Task : Move(older, "dropped")[j] = IF j \in older THEN "dropped" ELSE task[j]
        BY Moved DEF TaskState, TypeInv
    <2>4. \A j \in Task : task'[j] = IF j = k THEN "cached" ELSE IF j \in older THEN "dropped" ELSE task[j]
        BY <2>1, <2>3
    <2>5. \A j \in Task : task'[j] = "taken" <=> task[j] = "taken"
        BY <2>1, <2>2, <2>4
    <2> QED BY <2>1, <2>5, QuietStep
<1>2. ASSUME NEW k \in Task, TaskEnded(k) PROVE ResultsFit'
    <2>1. /\ task' = [task EXCEPT ![k] = "dropped"] /\ task[k] \in {"running", "cancelling"}
          /\ UNCHANGED <<batches, client, processed, shutdownVars>>
        BY <1>2 DEF TaskEnded
    <2>2. \A j \in Task : task'[j] = "taken" <=> task[j] = "taken"
        BY <1>0, <2>1
    <2> QED BY <2>1, <2>2, QuietStep
<1>3. CASE UNCHANGED vars
    <2>1. UNCHANGED <<batches, client, processed, shutdownVars, task>>
        BY <1>3 DEF vars, schedulerVars
    <2> QED BY <2>1, QuietStep
<1>4. ~Shutdown /\ ~SchedulerStopped /\ ~PipelineClosed
    BY DEF NothingFails, ResultsFit, Shutdown, SchedulerStopped, PipelineClosed
<1>5. ASSUME NEW c \in Clients, ClientStep(c) PROVE ResultsFit'
    <2>1. ~AbortDone(c) /\ ~RestoreActive(c) /\ ~CleanupRaised(c)
        BY DEF AbortDone, RestoreActive, CleanupRaised, Inv, LocksFit, NothingFails, ResultsFit
    <2>2. EvalCompleted(c) \/ EvalCleanedUp(c) => ResultsFit'
        BY DrainEvalCounts DEF EvalCompleted, EvalCleanedUp
    <2> QED BY <1>5, <2>1, <2>2, AcquireResults, PayloadResultsCounts, PipelineDoneCounts,
               CleanupDoneCounts, EvalTimedOutCounts DEF ClientStep
<1>6. ASSUME NEW c \in Clients, NEW id \in BatchIds PROVE ~AbortBatch(c, id)
    BY DEF AbortBatch, NothingFails
<1> QED BY <1>1, <1>2, <1>3, <1>4, <1>5, <1>6, SubmitResults, FinalizeBatchResults DEF Next

\* A train batch is finalized with exactly the results that went through the pipeline, each
\* once, and with all of its tasks unless min_wait_num allows less: for any number of
\* callers, batches and ids used again, as long as no call fails between the drain of its
\* results and its end.
THEOREM OnlyProcessedCounts == ASSUME NothingFails PROVE Spec => []FinalizedIsComplete
<1>1. TypeInv /\ ResultsFit => FinalizedIsComplete
    <2>1. SUFFICES ASSUME TypeInv, ResultsFit, NEW b \in Batch,
                          batches[b].state = "finalized", ~IsEval(b)
                   PROVE  /\ batches[b].statuses = Cardinality(processed \cap Tasks(b))
                          /\ \A k \in Tasks(b) : task[k] = "taken" => k \in processed
                          /\ batches[b].min_wait_num = 0 => batches[b].statuses = batches[b].expected
        BY DEF FinalizedIsComplete
    <2>2. Counted(b, processed \cap Tasks(b))
        BY <2>1 DEF ResultsFit, BatchHas
    <2> QED BY <2>2 DEF Counted
<1>2. Init => TypeInv /\ Inv /\ ResultsFit
    BY TypeInit, FitsInit, ResultsInit
<1>3. TypeInv /\ Inv /\ ResultsFit /\ [Next]_vars => TypeInv' /\ Inv' /\ ResultsFit'
    <2>1. ~Aborts
        BY DEF NothingFails
    <2> QED BY <2>1, TypeStep, FitsStep, ResultsNext
<1> QED BY <1>1, <1>2, <1>3, PTL DEF Spec

=============================================================================

------------------------------ MODULE ExpQueue ------------------------------
(***************************************************************************)
(* The experience buffer between explorers and trainer:                    *)
(* trinity/buffer/storage/queue.py, an actor QueueStorage over an          *)
(* AsyncQueue or, with a replay buffer, an AsyncPriorityQueue.  Explorers  *)
(* write one item, a list of experiences, per call; the trainer reads      *)
(* batches.  An action is what one coroutine does between two awaits that  *)
(* may suspend it.                                                         *)
(***************************************************************************)
EXTENDS Integers, Sequences, SequencesExt, FiniteSets

CONSTANTS
    Writers,     \* experience pipelines, one per explorer
    MaxItems,    \* put_batch calls
    Size,        \* experiences in an item
    BatchSize,   \* batch_size of get_batch
    Capacity,    \* items in the queue
    MaxVersion,  \* model versions
    ItemVersions,\* model versions of the experiences of an item
    Decay,       \* of the priority function
    UseLimit,    \* use_count_limit of the priority function
    MaxReads,    \* get_batch calls
    Modes        \* the kinds of queue: "fifo", "once" (replay buffer without
                 \* reuse), "reuse" (replay buffer with a cooldown)

ASSUME ExpQueueAssumption ==
    /\ MaxItems \in Nat /\ MaxVersion \in Nat /\ MaxReads \in Nat /\ Decay \in Nat
    /\ Size \in Nat \ {0} /\ BatchSize \in Nat \ {0} /\ Capacity \in Nat \ {0}
    /\ UseLimit \in Nat \ {0} /\ IsFiniteSet(Writers)
    /\ Modes \subseteq {"fifo", "once", "reuse"}
    /\ ItemVersions \subseteq [1 .. Size -> 0 .. MaxVersion]

VARIABLES
    mode,      \* the replay_buffer configuration
    version,   \* item -> model versions of its experiences
    queue,     \* items, in the order in which they were put
    use_count, \* item -> how often it left the priority queue
    cooling,   \* items whose delayed _put is still to come
    closed,
    ref_count,
    exp_pool,  \* experiences got from the queue for a later batch
    writer,    \* pipeline -> "new", "open", "late" (opened after the close),
               \* "released", "released late"
    blocked,   \* pipeline -> the item it waits to put, or 0
    items,     \* put_batch calls so far
    reader,    \* the call of get_batch: where it stands, its result and min_model_version
    reads,     \* get_batch calls so far
    accepted,  \* items the queue took, in that order
    delivered  \* experiences in full batches, in that order

queueVars == <<queue, use_count, cooling>>
writerVars == <<writer, blocked, items, accepted>>
readerVars == <<exp_pool, reader, reads, delivered>>
vars == <<mode, version, queueVars, closed, ref_count, writerVars, readerVars>>

Item == 1 .. MaxItems
Exp == Item \X (1 .. Size)
ExpsOf(i) == [k \in 1 .. Size |-> <<i, k>>]

\* min_model_version <= 0, or not older than it.
Fresh(e, min) == version[e[1]][e[2]] >= min
FreshItem(i) == Fresh(<<i, 1>>, reader.min)

Init ==
    /\ mode \in Modes
    /\ version \in [Item -> ItemVersions]
    /\ queue = <<>>
    /\ use_count = [i \in Item |-> 0]
    /\ cooling = {}
    /\ closed = FALSE
    /\ ref_count = 0
    /\ exp_pool = <<>>
    /\ writer = [w \in Writers |-> "new"]
    /\ blocked = [w \in Writers |-> 0]
    /\ items = 0
    /\ reader = [pc |-> "idle", result |-> <<>>, min |-> 0]
    /\ reads = 0
    /\ accepted = <<>>
    /\ delivered = <<>>

-----------------------------------------------------------------------------
(* The two queues.                                                         *)

Full == Len(queue) = Capacity

\* LinearDecayUseCountControlPriority; whether an item is queued is asked
\* before it enters, also for one that comes back.
Priority(i) == version[i][1] - Decay * use_count[i]
MayQueue(i) == use_count[i] < UseLimit

\* Whether the item at m leaves before the one at n: priority_groups are served
\* from the best, each in the order of arrival.
Before(m, n) ==
    IF mode = "fifo" THEN m < n
    ELSE \/ Priority(queue[m]) > Priority(queue[n])
         \/ Priority(queue[m]) = Priority(queue[n]) /\ m < n

\* The item a full priority queue gives up: the first of its worst group.
IsWorst(n) ==
    \A m \in DOMAIN queue \ {n} :
        \/ Priority(queue[m]) > Priority(queue[n])
        \/ Priority(queue[m]) = Priority(queue[n]) /\ n < m

\* Variant of the _put below, without the use limit.
InsertAgain(i) ==
    \/ ~Full /\ queue' = Append(queue, i)
    \/ /\ Full
       /\ \E n \in DOMAIN queue :
            /\ IsWorst(n)
            /\ queue' = IF Priority(queue[n]) > Priority(i) THEN queue
                        ELSE Append(RemoveAt(queue, n), i)

\* AsyncPriorityQueue._put after its delay.
Insert(i) ==
    \/ ~MayQueue(i) /\ UNCHANGED queue
    \/ MayQueue(i) /\ ~Full /\ queue' = Append(queue, i)
    \/ /\ MayQueue(i) /\ Full
       /\ \E n \in DOMAIN queue :
            /\ IsWorst(n)
            /\ queue' = IF Priority(queue[n]) > Priority(i) THEN queue
                        ELSE Append(RemoveAt(queue, n), i)

-----------------------------------------------------------------------------
(* The writers: ExperiencePipeline and QueueWriter.                        *)

\* prepare acquires the buffer.  A queue that was closed stays closed.
Acquire(w) ==
    /\ writer[w] = "new"
    /\ writer' = [writer EXCEPT ![w] = IF closed THEN "late" ELSE "open"]
    /\ ref_count' = ref_count + 1
    /\ UNCHANGED <<mode, version, queueVars, closed, blocked, items, accepted, readerVars>>

Idle(w) == writer[w] \in {"open", "late"} /\ blocked[w] = 0

\* put_batch of a list of experiences; asyncio.Queue makes the caller wait while
\* it is full, the priority queue never does.
PutBatch(w) ==
    /\ Idle(w) /\ items < MaxItems
    /\ items' = items + 1
    /\ IF mode = "fifo" /\ Full
       THEN blocked' = [blocked EXCEPT ![w] = items'] /\ UNCHANGED <<queue, accepted>>
       ELSE /\ IF mode = "fifo" THEN queue' = Append(queue, items') ELSE Insert(items')
            /\ accepted' = Append(accepted, items')
            /\ UNCHANGED blocked
    /\ UNCHANGED <<mode, version, use_count, cooling, closed, ref_count, writer, readerVars>>

\* A woken putter looks again whether there is room: a later put may have taken
\* it, so the blocked writers go on in no fixed order.
PutRoom(w) ==
    /\ blocked[w] # 0 /\ ~Full
    /\ queue' = Append(queue, blocked[w])
    /\ accepted' = Append(accepted, blocked[w])
    /\ blocked' = [blocked EXCEPT ![w] = 0]
    /\ UNCHANGED <<mode, version, use_count, cooling, closed, ref_count, writer, items, readerVars>>

\* close at the end of an explorer releases the buffer; the last one closes it.
\* AsyncQueue.close fails a getter that waits at that moment.
Release(w) ==
    /\ Idle(w)
    /\ writer' = [writer EXCEPT ![w] = IF @ = "late" THEN "released late" ELSE "released"]
    /\ ref_count' = ref_count - 1
    /\ closed' = (closed \/ ref_count' <= 0)
    /\ reader' = IF ref_count' <= 0 /\ mode = "fifo" /\ reader.pc = "get" /\ queue = <<>>
                 THEN [reader EXCEPT !.pc = "stopped", !.result = <<>>] ELSE reader
    /\ UNCHANGED <<mode, version, queueVars, blocked, items, accepted, exp_pool, reads, delivered>>

\* The delayed _put of an item that was read, also after close.
CooldownOver(i) ==
    /\ i \in cooling
    /\ cooling' = cooling \ {i}
    /\ Insert(i)
    /\ UNCHANGED <<mode, version, use_count, closed, ref_count, writerVars, readerVars>>

-----------------------------------------------------------------------------
(* The reader: QueueReader.read in the trainer.                            *)

\* The numbers of S from the lowest up (one function, as far as S is finite).
Ascending(S) ==
    {f \in [1 .. Cardinality(S) -> S] : \A m, n \in DOMAIN f : m < n => f[m] < f[n]}

At(s, picked) == [n \in DOMAIN picked |-> s[picked[n]]]

\* Variants of Fill, which do not filter: without the pool, and from its end.
FillAll(pool, result, min) ==
    LET all == result \o pool
        last == IF Len(all) < BatchSize THEN Len(all) ELSE BatchSize
    IN {[result |-> SubSeq(all, 1, last), pool |-> SubSeq(all, last + 1, Len(all))]}
FillNoPool(pool, result, min) ==
    {[filled EXCEPT !.pool = <<>>] : filled \in FillAll(pool, result, min)}
FillReversed(pool, result, min) == FillAll(Reverse(pool), result, min)

\* What get_batch moves from the pool to its result, and what stays: it takes the
\* experiences one by one and drops the stale, until the batch is full or the pool empty.
Fill(pool, result, min) ==
    LET FreshIn(n) == {m \in 1 .. n : Fresh(pool[m], min)}
        IsShort(n) == Len(result) + Cardinality(FreshIn(n)) < BatchSize
        Taken == {n \in 0 .. Len(pool) : /\ \A m \in 0 .. n - 1 : IsShort(m)
                                         /\ n = Len(pool) \/ ~IsShort(n)}
        After(n) == {[result |-> result \o At(pool, picked),
                      pool |-> SubSeq(pool, n + 1, Len(pool))] :
                        picked \in Ascending(FreshIn(n))}
    IN UNION {After(n) : n \in Taken}

\* Variant of Loop: it does not ask whether the queue has stopped.
LoopOn(pool, result, min) ==
    \E filled \in Fill(pool, result, min) :
        /\ exp_pool' = filled.pool
        /\ IF Len(filled.result) = BatchSize
           THEN /\ delivered' = delivered \o filled.result
                /\ reader' = [pc |-> "idle", result |-> <<>>, min |-> min]
           ELSE /\ reader' = [pc |-> "get", result |-> filled.result, min |-> min]
                /\ UNCHANGED delivered

\* The head of its loop, up to the await of the queue or the return.
Loop(pool, result, min) ==
    \E filled \in Fill(pool, result, min) :
        /\ exp_pool' = filled.pool
        /\ \/ /\ Len(filled.result) = BatchSize
              /\ delivered' = delivered \o filled.result
              /\ reader' = [pc |-> "idle", result |-> <<>>, min |-> min]
           \/ /\ Len(filled.result) < BatchSize
              /\ reader' = IF closed /\ queue' = <<>>
                           THEN [pc |-> "stopped", result |-> <<>>, min |-> min]
                           ELSE [pc |-> "get", result |-> filled.result, min |-> min]
              /\ UNCHANGED delivered

\* min_model_version follows the training step (StalenessControlSampleStrategy).
GetBatch ==
    /\ reader.pc = "idle" /\ reads < MaxReads
    /\ reads' = reads + 1
    /\ UNCHANGED queueVars
    /\ \E min \in reader.min .. MaxVersion : Loop(exp_pool, <<>>, min)
    /\ UNCHANGED <<mode, version, closed, ref_count, writerVars>>

\* The items before the first fresh one are thrown away.
Get ==
    /\ reader.pc = "get"
    /\ \E n \in DOMAIN queue :
        LET i == queue[n]
        IN /\ FreshItem(i)
           /\ \A m \in DOMAIN queue : Before(m, n) => ~FreshItem(queue[m])
           /\ \E left \in Ascending({m \in DOMAIN queue : Before(n, m)}) : queue' = At(queue, left)
           /\ use_count' = IF mode = "fifo" THEN use_count ELSE [use_count EXCEPT ![i] = @ + 1]
           /\ cooling' = IF mode = "reuse" /\ ~closed THEN cooling \cup {i} ELSE cooling
           /\ Loop(exp_pool \o ExpsOf(i), reader.result, reader.min)
    /\ UNCHANGED <<mode, version, closed, ref_count, writerVars, reads>>

\* None is fresh: get keeps waiting, the queue is empty now.
SkipStale ==
    /\ reader.pc = "get" /\ queue # <<>>
    /\ \A n \in DOMAIN queue : ~FreshItem(queue[n])
    /\ queue' = <<>>
    /\ UNCHANGED <<mode, version, use_count, cooling, closed, ref_count, writerVars, readerVars>>

\* The priority queue looks at _closed whenever it finds itself empty.
GetStopped ==
    /\ mode # "fifo"
    /\ reader.pc = "get" /\ closed /\ queue = <<>>
    /\ reader' = [reader EXCEPT !.pc = "stopped", !.result = <<>>]
    /\ UNCHANGED <<mode, version, queueVars, closed, ref_count, writerVars, exp_pool, reads, delivered>>

\* wait_for gives the queue one second, and get_batch its whole timeout.  Then it
\* returns the pool, which is empty, and QueueReader.read fails on the short batch.
GiveUp ==
    /\ reader.pc = "get" /\ queue = <<>>
    /\ reader' = [reader EXCEPT !.pc = "failed", !.result = <<>>]
    /\ UNCHANGED <<mode, version, queueVars, closed, ref_count, writerVars, exp_pool, reads, delivered>>

Poll ==
    /\ reader.pc = "get" /\ queue = <<>>
    /\ UNCHANGED queueVars
    /\ Loop(exp_pool, reader.result, reader.min)
    /\ UNCHANGED <<mode, version, closed, ref_count, writerVars, reads>>

-----------------------------------------------------------------------------
Next ==
    \/ \E w \in Writers : Acquire(w) \/ PutBatch(w) \/ PutRoom(w) \/ Release(w)
    \/ \E i \in Item : CooldownOver(i)
    \/ GetBatch \/ Get \/ SkipStale \/ GetStopped \/ GiveUp \/ Poll

\* Coroutines that can go on do: the event loop of the actor is fair, every
\* cooldown ends, and the trainer reads as long as it gets batches.  Nobody has
\* to write, and no read has to time out.
Fairness ==
    /\ \A w \in Writers : WF_vars(PutRoom(w))
    /\ \A i \in Item : WF_vars(CooldownOver(i))
    /\ WF_vars(GetBatch) /\ WF_vars(Get) /\ WF_vars(SkipStale) /\ WF_vars(GetStopped)
    /\ WF_vars(Poll)

Spec == Init /\ [][Next]_vars /\ Fairness

-----------------------------------------------------------------------------
(* Properties.                                                             *)

TypeOK ==
    /\ mode \in Modes
    /\ version \in [Item -> ItemVersions]
    /\ queue \in Seq(Item) /\ Len(queue) <= Capacity
    /\ use_count \in [Item -> Nat]
    /\ cooling \subseteq Item
    /\ closed \in BOOLEAN
    /\ ref_count \in 0 .. Cardinality(Writers)
    /\ exp_pool \in Seq(Exp)
    /\ writer \in [Writers -> {"new", "open", "late", "released", "released late"}]
    /\ blocked \in [Writers -> 0 .. MaxItems]
    /\ items \in 0 .. MaxItems /\ reads \in 0 .. MaxReads
    /\ reader \in [pc : {"idle", "get", "stopped", "failed"}, result : Seq(Exp), min : 0 .. MaxVersion]
    /\ accepted \in Seq(Item) /\ delivered \in Seq(Exp)

\* Without a replay buffer experiences reach the trainer in the order in which
\* their items were accepted, none of them twice.
FifoOrder ==
    mode = "fifo" =>
        LET Place(e) == (CHOOSE n \in DOMAIN accepted : accepted[n] = e[1]) * Size + e[2]
        IN \A m, n \in DOMAIN delivered : m < n => Place(delivered[m]) < Place(delivered[n])

\* Without a replay buffer no fresh experience is lost while the trainer reads:
\* one of an accepted item that never was stale is still on its way or was handed
\* out, whatever stale ones were around it.
NoFreshExperienceLost ==
    mode = "fifo" /\ reader.pc \in {"idle", "get"} =>
        \A i \in ToSet(accepted) :
            FreshItem(i) =>
                \/ i \in ToSet(queue)
                \/ \A e \in ToSet(ExpsOf(i)) :
                    Fresh(e, reader.min) =>
                        e \in ToSet(exp_pool) \cup ToSet(reader.result) \cup ToSet(delivered)

\* The queue as an ExpBuffer: experiences are handed out from what was put, at most
\* once, or use_count_limit times when they are reused, and not after the end.
Buffer == INSTANCE ExpBuffer WITH
    Experiences <- Exp,
    BatchSize <- BatchSize,
    MaxLimit <- UseLimit,
    limit <- IF mode = "reuse" THEN UseLimit ELSE 1,
    written <- {e \in Exp : e[1] \in ToSet(accepted)},
    taken <- [e \in Exp |-> Cardinality({n \in DOMAIN delivered : delivered[n] = e})],
    over <- reader.pc = "stopped"

BufferSpec == Buffer!Spec

\* Once the buffer is closed, a trainer that waits for experiences is answered:
\* with a batch, or by the end.
EndIsTold == closed /\ reader.pc = "get" ~> reader.pc # "get"

=============================================================================

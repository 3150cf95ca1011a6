---------------------------- MODULE TaskSetsProofs ----------------------------
(***************************************************************************)
(* Proofs about TaskSets, for every set of setups, every batch size and    *)
(* any number of crashes: its types, that a step reads one batch in every  *)
(* life of the explorer, and the bound on what a saved step can lose.      *)
(*                                                                         *)
(* The slots of all epochs in a row make one sequence; a batch is the next *)
(* Batch slots of it, and the position of a task set is the number of its  *)
(* slots before the batch.  So each position is a function of the step     *)
(* alone, which is what the scheduler and the selectors, rebuilt from      *)
(* different parts of the state file, have to agree on.                    *)
(***************************************************************************)
EXTENDS TaskSets, FiniteSetTheorems, TLAPS

--------------------------------------------------------------------------------
(* What a setup determines. *)

SlotsOf(s) == Len(s.plan[0])

\* The task set of the j-th slot, counted from 0 over all epochs.
Slot(s, j) == s.plan[j \div SlotsOf(s)][(j % SlotsOf(s)) + 1]

SlotsBefore(s, n, t) == {j \in 0 .. n - 1 : Slot(s, j) = t}

\* The position of a task set before the batch of step k + 1.
Index(s, k, t) == Cardinality(SlotsBefore(s, k * Batch, t))

\* The slots of that batch.
IdsAt(s, k) == [i \in 1 .. Batch |-> Slot(s, k * Batch + i - 1)]

OrderOf(s, t, index) == s.picks[t][index \div s.sizes[t]]

SamplesAt(s, k, t) ==
    LET size == s.sizes[t]
        start == Index(s, k, t) % size
        count == Times(IdsAt(s, k), t)
        next == OrderOf(s, t, Index(s, k, t) + count)
    IN [i \in 1 .. count |->
          IF start + i <= size THEN OrderOf(s, t, Index(s, k, t))[start + i]
                               ELSE next[start + i - size]]

ReadAt(s, k) == TasksOf(IdsAt(s, k), [t \in Range(IdsAt(s, k)) |-> SamplesAt(s, k, t)])

--------------------------------------------------------------------------------
(* Division. *)

LEMMA DivModExists ==
    ASSUME NEW n \in Nat \ {0}, NEW j \in Nat
    PROVE  /\ j \div n \in Nat
           /\ j % n \in 0 .. n - 1
           /\ j = (j \div n) * n + (j % n)
OBVIOUS

LEMMA DivModUnique ==
    ASSUME NEW n \in Nat \ {0}, NEW q \in Nat, NEW r \in 0 .. n - 1
    PROVE  (q * n + r) \div n = q /\ (q * n + r) % n = r
OBVIOUS

\* Adding at most n to j crosses at most one multiple of n.
LEMMA DivModAdd ==
    ASSUME NEW n \in Nat \ {0}, NEW j \in Nat, NEW d \in 0 .. n
    PROVE  /\ (j % n) + d < n => /\ (j + d) \div n = j \div n
                                 /\ (j + d) % n = (j % n) + d
           /\ (j % n) + d >= n => /\ (j + d) \div n = (j \div n) + 1
                                  /\ (j + d) % n = (j % n) + d - n
<1>1. PICK q \in Nat, r \in 0 .. n - 1 : q = j \div n /\ r = j % n /\ j = q * n + r
    BY DivModExists
<1>2. CASE r + d < n
    <2>1. j + d = q * n + (r + d) /\ r + d \in 0 .. n - 1
        BY <1>1, <1>2
    <2>2. (q * n + (r + d)) \div n = q /\ (q * n + (r + d)) % n = r + d
        BY <2>1, DivModUnique
    <2> QED BY <1>1, <1>2, <2>1, <2>2
<1>3. CASE r + d >= n
    <2>1. q + 1 \in Nat /\ r + d - n \in 0 .. n - 1
        BY <1>3
    <2>2. (q + 1) * n = q * n + n
        OBVIOUS
    <2>3. j + d = (q + 1) * n + (r + d - n)
        BY <1>1, <2>2
    <2>4. ((q + 1) * n + (r + d - n)) \div n = q + 1 /\ ((q + 1) * n + (r + d - n)) % n = r + d - n
        BY <2>1, DivModUnique
    <2> QED BY <1>1, <1>3, <2>3, <2>4
<1> QED BY <1>1, <1>2, <1>3

LEMMA DivBelow ==
    ASSUME NEW n \in Nat \ {0}, NEW j \in Nat, NEW m \in Nat
    PROVE  /\ j <= m * n => j \div n <= m
           /\ j < m * n => j \div n < m
           /\ m <= j \div n <=> m * n <= j
<1>1. PICK q \in Nat, r \in 0 .. n - 1 : q = j \div n /\ r = j % n /\ j = q * n + r
    BY DivModExists
<1>2. m <= q => m * n <= q * n
    OBVIOUS
<1>3. m >= q + 1 => m * n >= (q + 1) * n /\ (q + 1) * n = q * n + n
    OBVIOUS
<1>4. q >= m + 1 => q * n >= (m + 1) * n /\ (m + 1) * n = m * n + n
    OBVIOUS
<1>5. q * n \in Nat /\ m * n \in Nat
    OBVIOUS
<1> QED BY <1>1, <1>2, <1>3, <1>4, <1>5

--------------------------------------------------------------------------------
(* Setups. *)

\* The batch is no longer than an epoch, and the slots hold task sets.
LEMMA SetupFacts ==
    ASSUME NEW s \in Setups
    PROVE  /\ s.style \in {"stepwise", "watched"}
           /\ SlotsOf(s) \in Nat \ {0} /\ Batch \in 1 .. SlotsOf(s)
           /\ \A e \in 0 .. Epochs :
                s.plan[e] \in Seq(DOMAIN s.sizes) /\ Len(s.plan[e]) = SlotsOf(s)
           /\ \A t \in DOMAIN s.sizes : s.sizes[t] \in Nat \ {0}
           /\ s.kinds[1] = "plain" => DOMAIN s.sizes = {1}
<1>1. IsSetup(s) /\ Batch \in Nat \ {0} /\ Epochs \in Nat \ {0}
    BY TaskSetsAssumption
<1>2. s.sizes \in Seq(Nat \ {0}) /\ \A t \in DOMAIN s.sizes : s.sizes[t] \in Nat \ {0}
    BY <1>1 DEF IsSetup
<1>3. \A e \in 0 .. Epochs : s.plan[e] \in Seq(DOMAIN s.sizes) /\ Len(s.plan[e]) = Len(s.plan[0])
    BY <1>1 DEF IsSetup
<1>4. s.plan[0] \in Seq(DOMAIN s.sizes) /\ Batch <= Len(s.plan[0])
    BY <1>1, <1>3 DEF IsSetup
<1>5. Len(s.plan[0]) \in Nat /\ Len(s.plan[0]) >= 1
    BY <1>1, <1>4
<1>6. s.plan[0][1] \in DOMAIN s.sizes
    BY <1>4, <1>5
<1>7. 1 \in DOMAIN s.sizes
    BY <1>2, <1>6
<1>8. s.kinds[1] = "plain" => DOMAIN s.sizes = {1}
    BY <1>1, <1>7 DEF IsSetup
<1> QED BY <1>1, <1>2, <1>3, <1>4, <1>5, <1>8 DEF IsSetup, SlotsOf

\* A step of the run ends before the last slot of the last epoch.
LEMMA StepsFit ==
    ASSUME NEW s \in Setups, NEW k \in Nat
    PROVE  k <= (Epochs * SlotsOf(s)) \div Batch <=> k * Batch <= Epochs * SlotsOf(s)
<1>1. Batch \in Nat \ {0} /\ Epochs \in Nat /\ SlotsOf(s) \in Nat
    BY SetupFacts, TaskSetsAssumption
<1>2. Epochs * SlotsOf(s) \in Nat
    BY <1>1
<1> HIDE DEF SlotsOf
<1> QED BY <1>1, <1>2, DivBelow

LEMMA SlotIsTaskset ==
    ASSUME NEW s \in Setups, NEW j \in Nat, j < Epochs * SlotsOf(s)
    PROVE  Slot(s, j) \in DOMAIN s.sizes
<1>1. Epochs \in Nat \ {0} /\ SlotsOf(s) \in Nat \ {0}
    BY SetupFacts, TaskSetsAssumption
<1>2. j \div SlotsOf(s) < Epochs /\ j \div SlotsOf(s) \in Nat
    BY <1>1, DivBelow, DivModExists
<1>3. j % SlotsOf(s) \in 0 .. SlotsOf(s) - 1
    BY <1>1, DivModExists
<1>4. PICK e \in 0 .. Epochs, i \in 1 .. SlotsOf(s) :
          e = j \div SlotsOf(s) /\ i = (j % SlotsOf(s)) + 1
    BY <1>1, <1>2, <1>3
<1>5. s.plan[e] \in Seq(DOMAIN s.sizes) /\ Len(s.plan[e]) = SlotsOf(s)
    BY SetupFacts
<1>6. s.plan[e][i] \in DOMAIN s.sizes
    BY <1>5
<1> QED BY <1>4, <1>6 DEF Slot

--------------------------------------------------------------------------------
(* Positions. *)

LEMMA SlotsBeforeIsFinite ==
    ASSUME NEW s, NEW n \in Nat, NEW t
    PROVE  /\ IsFiniteSet(SlotsBefore(s, n, t))
           /\ Cardinality(SlotsBefore(s, n, t)) \in 0 .. n
<1>1. SlotsBefore(s, n, t) \subseteq 0 .. n - 1
    BY DEF SlotsBefore
<1>2. IsFiniteSet(0 .. n - 1) /\ Cardinality(0 .. n - 1) = n
    BY FS_Interval
<1>3. /\ IsFiniteSet(SlotsBefore(s, n, t))
      /\ Cardinality(SlotsBefore(s, n, t)) <= n
    BY <1>1, <1>2, FS_Subset
<1> QED BY <1>3, FS_CardinalityType

\* A batch moves the position of a task set by its number of slots in the batch.
LEMMA NextIndex ==
    ASSUME NEW s, NEW k \in Nat, NEW t, Batch \in Nat
    PROVE  /\ Index(s, k, t) \in Nat /\ Times(IdsAt(s, k), t) \in Nat
           /\ Index(s, k + 1, t) = Index(s, k, t) + Times(IdsAt(s, k), t)
<1> DEFINE n == k * Batch
           Before == SlotsBefore(s, n, t)
           After == SlotsBefore(s, (k + 1) * Batch, t)
           New == {j \in n .. n + Batch - 1 : Slot(s, j) = t}
           Here == {i \in DOMAIN IdsAt(s, k) : IdsAt(s, k)[i] = t}
           f == [i \in Here |-> n + i - 1]
<1>1. n \in Nat /\ (k + 1) * Batch = n + Batch /\ n + Batch \in Nat
    OBVIOUS
<1>2. IsFiniteSet(Before) /\ IsFiniteSet(After)
    BY <1>1, SlotsBeforeIsFinite
<1> HIDE DEF n
<1>3. After = Before \cup New /\ Before \cap New = {}
    BY <1>1 DEF SlotsBefore
<1>4. IsFiniteSet(New)
    BY <1>2, <1>3, FS_Subset
<1>5. Cardinality(After) = Cardinality(Before) + Cardinality(New)
    <2> HIDE DEF Before, After, New
    <2>1. Cardinality(Before \cup New)
            = Cardinality(Before) + Cardinality(New) - Cardinality(Before \cap New)
        BY <1>2, <1>4, FS_Union
    <2>2. Cardinality(Before \cap New) = 0
        BY <1>3, FS_EmptySet
    <2>3. Cardinality(Before) \in Nat /\ Cardinality(New) \in Nat
        BY <1>2, <1>4, FS_CardinalityType
    <2> QED BY <1>3, <2>1, <2>2, <2>3
<1>6. Here = {i \in 1 .. Batch : Slot(s, n + i - 1) = t}
    BY DEF IdsAt, n
<1>7. IsFiniteSet(Here) /\ Cardinality(Here) = Cardinality(New)
    <2>1. IsFiniteSet(1 .. Batch) /\ Here \subseteq 1 .. Batch
        BY <1>6, FS_Interval
    <2>2. IsFiniteSet(Here)
        BY <2>1, FS_Subset
    <2>3. f \in [Here -> New]
        BY <1>1, <1>6
    <2>4. \A i, j \in Here : f[i] = f[j] => i = j
        BY <1>1, <1>6
    <2>5. \A j \in New : \E i \in Here : f[i] = j
        <3> SUFFICES ASSUME NEW j \in New PROVE j - n + 1 \in Here /\ f[j - n + 1] = j
            OBVIOUS
        <3>1. j - n + 1 \in 1 .. Batch /\ n + (j - n + 1) - 1 = j
            BY <1>1
        <3>2. j - n + 1 \in Here
            BY <1>6, <3>1
        <3> QED BY <3>1, <3>2
    <2>6. f \in Bijection(Here, New)
        BY <2>3, <2>4, <2>5 DEF Bijection, Injection, Surjection, IsInjective
    <2> HIDE DEF f, Here, New
    <2> QED BY <2>2, <2>6, FS_Bijection DEF ExistsBijection
<1>8. Cardinality(Before) \in Nat /\ Cardinality(Here) \in Nat
    BY <1>2, <1>7, FS_CardinalityType
<1> QED BY <1>1, <1>5, <1>7, <1>8 DEF Index, Times, n

\* The positions stay below the slots of the run; all slots of a plain reader are its own.
LEMMA IndexBounds ==
    ASSUME NEW s \in Setups, NEW k \in Nat, k * Batch <= Epochs * SlotsOf(s), NEW t
    PROVE  /\ Index(s, k, t) \in 0 .. SlotsOf(s) * Epochs
           /\ s.kinds[1] = "plain" => Index(s, k, 1) = k * Batch
<1>1. Batch \in Nat /\ Epochs \in Nat \ {0} /\ SlotsOf(s) \in Nat \ {0}
    BY SetupFacts, TaskSetsAssumption
<1>2. PICK n \in Nat : n = k * Batch
    BY <1>1
<1>3. PICK m \in Nat : m = Epochs * SlotsOf(s) /\ m = SlotsOf(s) * Epochs
    BY <1>1
<1>4. Index(s, k, t) \in 0 .. m
    <2>1. Cardinality(SlotsBefore(s, n, t)) \in 0 .. n
        BY <1>2, SlotsBeforeIsFinite
    <2> QED BY <1>2, <1>3, <2>1 DEF Index
<1>5. ASSUME s.kinds[1] = "plain"
      PROVE  Index(s, k, 1) = n
    <2>1. ASSUME NEW j \in 0 .. n - 1
          PROVE  Slot(s, j) = 1
        <3>1. j < Epochs * SlotsOf(s) /\ j \in Nat
            BY <1>2, <1>3
        <3>2. Slot(s, j) \in DOMAIN s.sizes
            BY <3>1, SlotIsTaskset
        <3> QED BY <1>5, <3>2, SetupFacts
    <2>2. SlotsBefore(s, n, 1) = 0 .. n - 1
        BY <2>1 DEF SlotsBefore
    <2>3. Cardinality(0 .. n - 1) = n
        BY FS_Interval
    <2> QED BY <1>2, <2>2, <2>3 DEF Index
<1> QED BY <1>2, <1>3, <1>4, <1>5

--------------------------------------------------------------------------------
(* The invariant. *)

\* What the types leave out of the explorer's window.
Shape ==
    /\ setup \in Setups
    /\ DOMAIN reads = Steps
    /\ crashes \in Nat
    /\ pc = "drain" => setup.style = "watched" /\ window # <<>>
    /\ pc = "down" => inflight = {} /\ window = <<>>

\* Every task set is where the step puts it, with the order of its epoch in hand.
Following ==
    \A t \in Tasksets :
        /\ current_index[t] = Index(setup, explore_step_num, t)
        /\ cached[t] = OrderAt(t, current_index[t])

\* A plain reader that found no complete batch is at its end.
AtTheEnd(index) == Plain /\ index = [t \in Tasksets |-> Total * Epochs]

InLine ==
    Alive =>
        /\ epoch = (explore_step_num * Batch) \div SlotsOf(setup)
        /\ orders = setup.plan[epoch]
        /\ Following \/ AtTheEnd(current_index)

FileInLine ==
    \/ \A t \in Tasksets : file.index[t] = Index(setup, file.step, t)
    \/ AtTheEnd(file.index)

ReadInLine == \A k \in Steps : reads[k] \subseteq {ReadAt(setup, k - 1)}

Consistent == TypeOK /\ Shape /\ InLine /\ FileInLine /\ ReadInLine

LEMMA WindowType ==
    ASSUME NEW S, NEW n \in Nat, NEW w
    PROVE  w \in BoundedSeq(S, n) <=> w \in Seq(S) /\ Len(w) <= n
<1>1. ASSUME w \in BoundedSeq(S, n)
      PROVE  w \in Seq(S) /\ Len(w) <= n
    BY <1>1 DEF BoundedSeq, SeqOf
<1>2. ASSUME w \in Seq(S), Len(w) <= n
      PROVE  w \in BoundedSeq(S, n)
    <2>1. w \in [1 .. Len(w) -> S] /\ Len(w) \in 0 .. n
        BY <1>2
    <2> QED BY <2>1 DEF BoundedSeq, SeqOf
<1> QED BY <1>1, <1>2

\* The numbers of a step that the explorer can take.
LEMMA StepFacts ==
    ASSUME setup \in Setups, NEW k \in Nat
    PROVE  /\ Batch \in Nat \ {0} /\ Epochs \in Nat \ {0} /\ MaxInflight \in Nat \ {0}
           /\ Total \in Nat \ {0} /\ Total = SlotsOf(setup) /\ Batch <= Total
           /\ Total * Epochs \in Nat /\ MaxSteps \in Nat
           /\ k <= MaxSteps => /\ k * Batch <= Epochs * SlotsOf(setup)
                               /\ (k * Batch) \div SlotsOf(setup) \in 0 .. Epochs
                               /\ \A t : Index(setup, k, t) \in 0 .. Total * Epochs
           /\ Plain => Tasksets = {1} /\ (k * Batch + Batch <= Total * Epochs => k + 1 <= MaxSteps)
<1>1. /\ Batch \in Nat \ {0} /\ Epochs \in Nat \ {0} /\ MaxInflight \in Nat \ {0}
      /\ SlotsOf(setup) \in Nat \ {0} /\ Batch <= SlotsOf(setup)
    BY SetupFacts, TaskSetsAssumption
<1>2. Total = SlotsOf(setup) /\ MaxSteps = (Epochs * SlotsOf(setup)) \div Batch
    BY DEF Total, MaxSteps, SlotsOf
<1>3. PICK m \in Nat : m = Epochs * SlotsOf(setup) /\ m = SlotsOf(setup) * Epochs
    BY <1>1
<1>4. MaxSteps \in Nat
    BY <1>1, <1>2, <1>3, DivModExists
<1>5. k <= MaxSteps => k * Batch <= Epochs * SlotsOf(setup)
    BY <1>2, StepsFit
<1>6. ASSUME k <= MaxSteps
      PROVE  (k * Batch) \div SlotsOf(setup) \in 0 .. Epochs
    <2>1. k * Batch \in Nat
        BY <1>1
    <2>2. (k * Batch) \div SlotsOf(setup) <= Epochs
        BY <1>1, <1>5, <1>6, <2>1, DivBelow
    <2>3. (k * Batch) \div SlotsOf(setup) \in Nat
        BY <1>1, <2>1, DivModExists
    <2> QED BY <1>1, <2>2, <2>3
<1>7. ASSUME k <= MaxSteps, NEW t
      PROVE  Index(setup, k, t) \in 0 .. Total * Epochs
    BY <1>2, <1>5, <1>7, IndexBounds
<1>8. ASSUME Plain
      PROVE  Tasksets = {1} /\ (k * Batch + Batch <= Total * Epochs => k + 1 <= MaxSteps)
    <2>1. Tasksets = {1}
        BY <1>8, SetupFacts DEF Plain, Tasksets
    <2>2. k + 1 \in Nat /\ (k + 1) * Batch = k * Batch + Batch
        BY <1>1
    <2> QED BY <1>2, <1>3, <2>1, <2>2, StepsFit
<1> QED BY <1>1, <1>2, <1>3, <1>4, <1>5, <1>6, <1>7, <1>8

\* The explorer reads only where the positions follow its step.
LEMMA NotAtTheEnd ==
    ASSUME Consistent, pc = "explore", ~ShouldStop
    PROVE  /\ explore_step_num \in Nat /\ explore_step_num + 1 \in Steps
           /\ epoch = (explore_step_num * Batch) \div SlotsOf(setup)
           /\ orders = setup.plan[epoch]
           /\ Following
<1>1. /\ explore_step_num \in 0 .. MaxSteps /\ setup \in Setups
      /\ current_index \in [Tasksets -> 0 .. Total * Epochs]
    BY DEF Consistent, TypeOK, Shape
<1>2. /\ epoch = (explore_step_num * Batch) \div SlotsOf(setup)
      /\ orders = setup.plan[epoch]
      /\ Following \/ AtTheEnd(current_index)
    BY DEF Consistent, InLine, Alive
<1>3. PICK k \in Nat : k = explore_step_num
    BY <1>1, StepFacts
<1>4. /\ Batch \in Nat \ {0} /\ Total * Epochs \in Nat /\ MaxSteps \in Nat
      /\ Plain => Tasksets = {1}
    BY <1>1, <1>3, StepFacts
<1>5. ~AtTheEnd(current_index)
    <2> SUFFICES ASSUME AtTheEnd(current_index) PROVE ShouldStop
        OBVIOUS
    <2>1. Plain /\ current_index[1] = Total * Epochs
        BY <1>4 DEF AtTheEnd
    <2>2. PICK m \in Nat : m = Total * Epochs
        BY <1>4
    <2>3. m + Batch > m
        BY <1>4
    <2> QED BY <2>1, <2>2, <2>3 DEF ShouldStop
<1>6. k + 1 <= MaxSteps
    <2>1. CASE ~Plain
        BY <1>3, <1>4, <2>1, <1>1 DEF ShouldStop
    <2>2. CASE Plain
        <3>1. k * Batch <= Epochs * SlotsOf(setup)
            BY <1>1, <1>3, StepFacts
        <3>2. Index(setup, k, 1) = k * Batch
            BY <1>1, <2>2, <3>1, IndexBounds DEF Plain
        <3>3. current_index[1] = k * Batch
            BY <1>2, <1>3, <1>4, <1>5, <2>2, <3>2 DEF Following
        <3>4. ~(k * Batch + Batch > Total * Epochs)
            BY <2>2, <3>3 DEF ShouldStop
        <3>5. PICK n \in Nat : n = k * Batch
            BY <1>4
        <3>6. PICK m \in Nat : m = Total * Epochs
            BY <1>4
        <3>7. n + Batch <= m
            BY <1>4, <3>4, <3>5, <3>6
        <3> QED BY <1>1, <1>3, <2>2, <3>5, <3>6, <3>7, StepFacts
    <2> QED BY <2>1, <2>2
<1> QED BY <1>2, <1>3, <1>4, <1>5, <1>6 DEF Steps

\* What the scheduler reads is the batch of its step.
LEMMA SlotsOfTheBatch ==
    ASSUME setup \in Setups, NEW k \in Nat, k = explore_step_num,
           epoch = (k * Batch) \div SlotsOf(setup), orders = setup.plan[epoch]
    PROVE  /\ TasksetIds = IdsAt(setup, k)
           /\ (IF Turns THEN epoch + 1 ELSE epoch) = ((k + 1) * Batch) \div SlotsOf(setup)
<1>1. /\ Batch \in Nat \ {0} /\ Total \in Nat \ {0} /\ Total = SlotsOf(setup)
      /\ Batch <= Total
    BY StepFacts
<1>2. PICK n \in Nat : n = k * Batch
    BY <1>1
<1>3. (k + 1) * Batch = n + Batch
    BY <1>1, <1>2
<1>4. Start = n % Total /\ n % Total \in 0 .. Total - 1 /\ epoch = n \div Total /\ n \div Total \in Nat
    BY <1>1, <1>2, DivModExists DEF Start
<1>5. (IF Turns THEN epoch + 1 ELSE epoch) = (n + Batch) \div Total
    <2>1. PICK N \in Nat \ {0} : N = Total
        BY <1>1
    <2>2. PICK b \in 0 .. N : b = Batch
        BY <1>1, <2>1
    <2>3. /\ (n % N) + b < N => (n + b) \div N = n \div N
          /\ (n % N) + b >= N => (n + b) \div N = (n \div N) + 1
        BY DivModAdd
    <2> QED BY <1>1, <1>4, <2>1, <2>2, <2>3 DEF Turns
<1>6. ASSUME NEW i \in 1 .. Batch
      PROVE  TasksetIds[i] = Slot(setup, n + i - 1)
    <2>1. i - 1 \in 0 .. Total /\ n + (i - 1) = n + i - 1
        BY <1>1
    <2>2. /\ (n % Total) + (i - 1) < Total => /\ (n + (i - 1)) \div Total = n \div Total
                                             /\ (n + (i - 1)) % Total = (n % Total) + (i - 1)
          /\ (n % Total) + (i - 1) >= Total => /\ (n + (i - 1)) \div Total = (n \div Total) + 1
                                              /\ (n + (i - 1)) % Total = (n % Total) + (i - 1) - Total
        <3>1. PICK N \in Nat \ {0} : N = Total
            BY <1>1
        <3>2. PICK d \in 0 .. N : d = i - 1
            BY <2>1, <3>1
        <3>3. /\ (n % N) + d < N => /\ (n + d) \div N = n \div N
                                    /\ (n + d) % N = (n % N) + d
              /\ (n % N) + d >= N => /\ (n + d) \div N = (n \div N) + 1
                                     /\ (n + d) % N = (n % N) + d - N
            BY DivModAdd
        <3> QED BY <3>1, <3>2, <3>3
    <2>3. PICK st \in 0 .. Total - 1 : st = n % Total
        BY <1>4
    <2>4. CASE st + i <= Total
        <3>1. TasksetIds[i] = orders[st + i]
            BY <1>4, <2>3, <2>4 DEF TasksetIds
        <3>2. (n + i - 1) \div Total = epoch /\ (n + i - 1) % Total = st + (i - 1)
            BY <1>1, <1>4, <2>1, <2>2, <2>3, <2>4
        <3>3. st + (i - 1) + 1 = st + i
            BY <2>3
        <3> QED BY <1>1, <3>1, <3>2, <3>3 DEF Slot
    <2>5. CASE st + i > Total
        <3>1. TasksetIds[i] = setup.plan[epoch + 1][st + i - Total]
            BY <1>1, <1>4, <2>3, <2>5 DEF TasksetIds
        <3>2. (n + i - 1) \div Total = epoch + 1 /\ (n + i - 1) % Total = st + (i - 1) - Total
            BY <1>1, <1>4, <2>1, <2>2, <2>3, <2>5
        <3>3. (st + (i - 1) - Total) + 1 = st + i - Total
            BY <1>1, <2>3
        <3> QED BY <1>1, <3>1, <3>2, <3>3 DEF Slot
    <2> QED BY <1>1, <2>3, <2>4, <2>5
<1>7. TasksetIds = IdsAt(setup, k)
    <2>1. TasksetIds = [i \in 1 .. Batch |-> TasksetIds[i]]
        BY DEF TasksetIds
    <2> QED BY <1>2, <1>6, <2>1 DEF IdsAt
<1> QED BY <1>1, <1>3, <1>5, <1>7

LEMMA BatchOfTheStep ==
    ASSUME Consistent, pc = "explore", ~ShouldStop
    PROVE  BatchRead = ReadAt(setup, explore_step_num)
<1>1. /\ explore_step_num \in Nat /\ explore_step_num + 1 \in Steps
      /\ epoch = (explore_step_num * Batch) \div SlotsOf(setup)
      /\ orders = setup.plan[epoch]
      /\ Following /\ setup \in Setups
    BY NotAtTheEnd DEF Consistent, Shape
<1>2. PICK k \in Nat : k = explore_step_num
    BY <1>1
<1>3. TasksetIds = IdsAt(setup, k)
    BY <1>1, <1>2, SlotsOfTheBatch
<1>4. Range(IdsAt(setup, k)) \subseteq Tasksets
    <2>1. /\ Batch \in Nat /\ MaxSteps \in Nat /\ k + 1 \in Nat /\ k + 1 <= MaxSteps
        BY <1>1, <1>2, StepFacts DEF Steps
    <2>2. (k + 1) * Batch <= Epochs * SlotsOf(setup)
        BY <1>1, <2>1, StepFacts
    <2>3. PICK n \in Nat : n = k * Batch /\ (k + 1) * Batch = n + Batch
        BY <2>1
    <2>4. PICK m \in Nat : m = Epochs * SlotsOf(setup)
        BY <1>1, SetupFacts, TaskSetsAssumption
    <2>5. ASSUME NEW i \in 1 .. Batch
          PROVE  Slot(setup, n + i - 1) \in Tasksets
        <3>1. n + i - 1 \in Nat /\ n + i - 1 < m
            BY <2>1, <2>2, <2>3, <2>4
        <3> QED BY <1>1, <2>4, <3>1, SlotIsTaskset DEF Tasksets
    <2> QED BY <2>3, <2>5 DEF Range, IdsAt
<1>5. ASSUME NEW t \in Range(IdsAt(setup, k))
      PROVE  GetIndices(t, Times(TasksetIds, t)) = SamplesAt(setup, k, t)
    <2>1. /\ current_index[t] = Index(setup, k, t)
          /\ cached[t] = OrderOf(setup, t, Index(setup, k, t))
        BY <1>1, <1>2, <1>4 DEF Following, OrderAt, OrderOf
    <2> QED BY <1>3, <2>1 DEF GetIndices, SamplesAt, OrderAt, OrderOf
<1> QED BY <1>2, <1>3, <1>5 DEF BatchRead, ReadAt

--------------------------------------------------------------------------------
(* Every step keeps the invariant. *)

LEMMA ConsistentInit == Init => Consistent
<1> SUFFICES ASSUME Init PROVE Consistent
    OBVIOUS
<1>1. setup \in Setups /\ explore_step_num = 0
    BY DEF Init
<1>2. /\ Batch \in Nat \ {0} /\ Epochs \in Nat \ {0} /\ MaxInflight \in Nat \ {0}
      /\ Total * Epochs \in Nat /\ MaxSteps \in Nat
      /\ SlotsOf(setup) \in Nat \ {0} /\ 0 * Batch = 0
    BY <1>1, StepFacts
<1>3. 0 \div SlotsOf(setup) = 0
    BY <1>2, DivBelow
<1>4. \A t : Index(setup, 0, t) = 0
    <2> SUFFICES ASSUME NEW t PROVE Index(setup, 0, t) = 0
        OBVIOUS
    <2>1. Cardinality(SlotsBefore(setup, 0, t)) \in 0 .. 0
        BY SlotsBeforeIsFinite
    <2> QED BY <1>2, <2>1 DEF Index
<1>5. TypeOK
    <2>1. window \in BoundedSeq(1 .. explore_step_num, MaxInflight)
        <3>1. window \in Seq(1 .. explore_step_num) /\ Len(window) = 0
            BY DEF Init
        <3>2. Len(window) <= MaxInflight /\ MaxInflight \in Nat
            BY <1>2, <3>1
        <3> QED BY <3>1, <3>2, WindowType
    <2>2. current_index \in [Tasksets -> 0 .. Total * Epochs]
        BY <1>2 DEF Init, Empty
    <2> QED BY <1>2, <2>1, <2>2 DEF Init, TypeOK, Empty
<1>6. Shape
    BY DEF Init, Shape
<1>7. InLine
    BY <1>1, <1>2, <1>3, <1>4 DEF InLine, Following, Init, Empty
<1>8. FileInLine /\ ReadInLine
    BY <1>4 DEF FileInLine, ReadInLine, Init, Empty
<1> QED BY <1>5, <1>6, <1>7, <1>8 DEF Consistent

LEMMA ConsistentExploreStep ==
    ASSUME Consistent, ExploreStep
    PROVE  Consistent'
<1>1. /\ TypeOK /\ Shape /\ InLine /\ FileInLine /\ ReadInLine
    BY DEF Consistent
<1>2. pc = "explore" /\ ~ShouldStop /\ ReadTasks /\ UNCHANGED <<setup, file, crashes, finished, last_monitored_step>>
    BY DEF ExploreStep
<1>3. PICK k \in Nat : k = explore_step_num /\ k + 1 \in Steps
    BY <1>2, NotAtTheEnd
<1>4. /\ epoch = (k * Batch) \div SlotsOf(setup) /\ orders = setup.plan[epoch]
      /\ Following /\ setup \in Setups
    BY <1>1, <1>2, <1>3, NotAtTheEnd DEF Shape
<1>5. /\ Batch \in Nat \ {0} /\ MaxInflight \in Nat \ {0} /\ MaxSteps \in Nat
      /\ k + 1 \in 1 .. MaxSteps /\ k + 1 \in Nat /\ k + 1 <= MaxSteps
    BY <1>3, <1>4, StepFacts DEF Steps
<1>6. TasksetIds = IdsAt(setup, k)
    BY <1>3, <1>4, SlotsOfTheBatch
<1>7. epoch' = ((k + 1) * Batch) \div SlotsOf(setup) /\ orders' = setup.plan[epoch']
    BY <1>2, <1>3, <1>4, SlotsOfTheBatch DEF ReadTasks
<1>8. ASSUME NEW t \in Tasksets
      PROVE  /\ current_index'[t] = Index(setup, k + 1, t)
             /\ cached'[t] = OrderAt(t, current_index'[t])
    <2>1. /\ current_index[t] = Index(setup, k, t) /\ cached[t] = OrderAt(t, current_index[t])
        BY <1>3, <1>4 DEF Following
    <2>2. PICK c \in Nat : c = Times(TasksetIds, t)
        BY <1>5, <1>6, NextIndex
    <2>3. PICK i \in Nat : i = current_index[t]
        BY <1>5, <2>1, NextIndex
    <2>4. current_index'[t] = i + c /\ i + c = Index(setup, k + 1, t)
        BY <1>2, <1>5, <1>6, <2>1, <2>2, <2>3, NextIndex DEF ReadTasks
    <2>5. cached'[t] = OrdersAfter(t, c)
        BY <1>2, <2>2 DEF ReadTasks
    <2>6. PICK size \in Nat \ {0} : size = setup.sizes[t]
        BY <1>4, SetupFacts DEF Tasksets
    <2>7. CASE (i % size) + c >= size
        BY <2>3, <2>4, <2>5, <2>6, <2>7 DEF OrdersAfter
    <2>8. CASE ~((i % size) + c >= size)
        <3>1. i % size \in Nat /\ c \in 0 .. size /\ (i % size) + c < size
            BY <2>8, DivModExists
        <3>2. (i + c) \div size = i \div size
            BY <3>1, DivModAdd
        <3>3. cached'[t] = cached[t]
            BY <2>3, <2>5, <2>6, <2>8 DEF OrdersAfter
        <3> QED BY <2>1, <2>3, <2>4, <2>6, <3>2, <3>3 DEF OrderAt
    <2> QED BY <2>4, <2>7, <2>8
<1>9. explore_step_num' = k + 1 /\ pc' # "down"
    BY <1>3 DEF ExploreStep, Submit
<1>10. InLine'
    <2>1. Following'
        BY <1>2, <1>8, <1>9 DEF Following, Tasksets, OrderAt
    <2> QED BY <1>2, <1>7, <1>9, <2>1 DEF InLine
<1>11. Total' = Total /\ Plain' = Plain /\ Tasksets' = Tasksets /\ MaxSteps' = MaxSteps /\ Steps' = Steps
    BY <1>2 DEF Total, Plain, Tasksets, MaxSteps, Steps
<1>12. FileInLine'
    BY <1>1, <1>2, <1>11 DEF FileInLine, AtTheEnd
<1>13. ReadInLine'
    <2>1. BatchRead = ReadAt(setup, k)
        BY <1>2, <1>3, BatchOfTheStep
    <2>2. reads' = [reads EXCEPT ![k + 1] = @ \cup {BatchRead}]
        BY <1>3 DEF ExploreStep
    <2>3. (k + 1) - 1 = k
        OBVIOUS
    <2>4. ASSUME NEW j \in Steps
          PROVE  reads'[j] \subseteq {ReadAt(setup, j - 1)}
        <3>1. reads[j] \subseteq {ReadAt(setup, j - 1)} /\ j \in DOMAIN reads
            BY <1>1 DEF ReadInLine, Shape
        <3> QED BY <2>1, <2>2, <2>3, <3>1
    <2> QED BY <1>2, <1>11, <2>4 DEF ReadInLine
<1>14. window' \in BoundedSeq(1 .. k + 1, MaxInflight) /\ inflight' \subseteq 1 .. k + 1
    <2>1. window \in Seq(1 .. k) /\ Len(window) <= MaxInflight /\ inflight \subseteq 1 .. k
        BY <1>1, <1>3, <1>5, WindowType DEF TypeOK
    <2>2. window \in Seq(1 .. k + 1) /\ k + 1 \in 1 .. k + 1 /\ inflight \subseteq 1 .. k + 1
        <3>1. 1 .. k \subseteq 1 .. k + 1
            OBVIOUS
        <3> QED BY <2>1, <3>1
    <2>3. CASE WindowIsFull
        BY <1>5, <2>1, <2>2, <2>3, WindowType DEF ExploreStep
    <2>4. CASE ~WindowIsFull
        <3>1. inflight' = inflight \cup {k + 1}
            BY <1>3, <2>4 DEF ExploreStep, Submit
        <3>2. window' = IF setup.style = "watched" THEN Append(window, k + 1) ELSE window
            BY <1>3, <2>4 DEF ExploreStep
        <3>3. setup.style = "watched" => Len(window) + 1 <= MaxInflight
            BY <1>5, <2>1, <2>4 DEF WindowIsFull
        <3>4. Append(window, k + 1) \in Seq(1 .. k + 1) /\ Len(Append(window, k + 1)) = Len(window) + 1
            BY <2>2
        <3>5. window' \in Seq(1 .. k + 1) /\ Len(window') <= MaxInflight
            BY <2>1, <2>2, <3>2, <3>3, <3>4
        <3> QED BY <1>5, <2>2, <3>1, <3>5, WindowType
    <2> QED BY <2>3, <2>4
<1>15. TypeOK'
    <2>1. current_index' \in [Tasksets -> 0 .. Total * Epochs]
        <3>1. current_index' = [t \in Tasksets |-> current_index'[t]]
            BY <1>2 DEF ReadTasks
        <3>2. \A t : Index(setup, k + 1, t) \in 0 .. Total * Epochs
            BY <1>4, <1>5, StepFacts
        <3> QED BY <1>8, <3>1, <3>2
    <2>2. epoch' \in 0 .. Epochs
        BY <1>4, <1>5, <1>7, StepFacts
    <2>3. pc' \in {"explore", "drain", "sync"}
        BY DEF ExploreStep, Submit
    <2>4. last_monitored_step' \in 0 .. k + 1 /\ k + 1 \in 0 .. MaxSteps
        BY <1>1, <1>2, <1>3, <1>5 DEF TypeOK
    <2> QED BY <1>1, <1>2, <1>9, <1>11, <1>14, <2>1, <2>2, <2>3, <2>4 DEF TypeOK
<1>16. Shape'
    <2>1. pc' = "drain" => setup.style = "watched" /\ window' # <<>>
        <3> SUFFICES ASSUME pc' = "drain" PROVE setup.style = "watched" /\ window' # <<>>
            OBVIOUS
        <3>1. WindowIsFull /\ window' = window
            BY DEF ExploreStep, Submit
        <3>2. Len(window) >= MaxInflight /\ setup.style = "watched"
            BY <3>1 DEF WindowIsFull
        <3>3. Len(<<>>) = 0
            OBVIOUS
        <3> QED BY <1>5, <3>1, <3>2, <3>3
    <2>2. DOMAIN reads' = Steps
        BY <1>1 DEF ExploreStep, Shape
    <2> QED BY <1>1, <1>2, <1>9, <1>11, <2>1, <2>2 DEF Shape
<1> QED BY <1>10, <1>12, <1>13, <1>15, <1>16 DEF Consistent

\* The steps that leave the setup, the reads and the scheduler alone.
LEMMA SchedulerUnchanged ==
    ASSUME Consistent, UNCHANGED <<setup, schedulerVars, explore_step_num, reads>>,
           pc # "down", \/ file' = file
                        \/ file' = StateOfExplorer
                        \/ file' = Empty
    PROVE  InLine' /\ FileInLine' /\ ReadInLine'
<1>1. TypeOK /\ Shape /\ InLine /\ FileInLine /\ ReadInLine
    BY DEF Consistent
<1>2. /\ Total' = Total /\ Plain' = Plain /\ Tasksets' = Tasksets /\ Steps' = Steps
      /\ UNCHANGED <<setup, epoch, orders, current_index, cached, explore_step_num, reads>>
    BY DEF Total, Plain, Tasksets, MaxSteps, Steps, schedulerVars
<1>3. /\ epoch = (explore_step_num * Batch) \div SlotsOf(setup) /\ orders = setup.plan[epoch]
      /\ Following \/ AtTheEnd(current_index)
    BY <1>1 DEF InLine, Alive
<1>4. InLine'
    <2>1. Following => Following'
        BY <1>2 DEF Following, OrderAt
    <2>2. AtTheEnd(current_index) => AtTheEnd(current_index)'
        BY <1>2 DEF AtTheEnd
    <2> QED BY <1>2, <1>3, <2>1, <2>2 DEF InLine
<1>5. FileInLine'
    <2>1. CASE file' = file
        BY <1>1, <1>2, <2>1 DEF FileInLine, AtTheEnd
    <2>2. CASE file' = StateOfExplorer
        BY <1>2, <1>3, <2>2 DEF FileInLine, AtTheEnd, StateOfExplorer, Following
    <2>3. CASE file' = Empty
        <3>1. ASSUME NEW t \in Tasksets
              PROVE  Index(setup, 0, t) = 0
            <4>1. Cardinality(SlotsBefore(setup, 0, t)) \in 0 .. 0
                BY SlotsBeforeIsFinite
            <4>2. 0 * Batch = 0
                BY TaskSetsAssumption
            <4> QED BY <4>1, <4>2 DEF Index
        <3> QED BY <1>2, <2>3, <3>1 DEF FileInLine, Empty
    <2> QED BY <2>1, <2>2, <2>3
<1>6. ReadInLine'
    BY <1>1, <1>2 DEF ReadInLine
<1> QED BY <1>4, <1>5, <1>6

\* What the state file is given has the type of the file.
LEMMA FileType ==
    ASSUME Consistent, \/ file' = file
                       \/ file' = StateOfExplorer
                       \/ file' = Empty
    PROVE  file' \in [step : 0 .. MaxSteps, index : [Tasksets -> 0 .. Total * Epochs]]
<1>1. TypeOK /\ setup \in Setups
    BY DEF Consistent, Shape
<1>2. MaxSteps \in Nat /\ Total * Epochs \in Nat
    BY <1>1, StepFacts
<1>3. StateOfExplorer \in [step : 0 .. MaxSteps, index : [Tasksets -> 0 .. Total * Epochs]]
    BY <1>1 DEF TypeOK, StateOfExplorer
<1>4. Empty \in [step : 0 .. MaxSteps, index : [Tasksets -> 0 .. Total * Epochs]]
    BY <1>2 DEF Empty
<1> QED BY <1>1, <1>3, <1>4 DEF TypeOK

LEMMA ConsistentDrain ==
    ASSUME Consistent, Drain
    PROVE  Consistent'
<1>1. TypeOK /\ Shape
    BY DEF Consistent
<1>2. UNCHANGED <<setup, schedulerVars, explore_step_num, file, crashes, finished, reads>> /\ pc = "drain"
    BY DEF Drain
<1>3. InLine' /\ FileInLine' /\ ReadInLine'
    BY <1>2, SchedulerUnchanged
<1>4. /\ Total' = Total /\ Tasksets' = Tasksets /\ MaxSteps' = MaxSteps /\ Steps' = Steps
    BY <1>2 DEF Total, Tasksets, MaxSteps, Steps
<1>5. PICK k \in Nat : k = explore_step_num
    BY <1>1, StepFacts DEF TypeOK, Shape
<1>6. /\ window \in Seq(1 .. k) /\ Len(window) <= MaxInflight /\ window # <<>>
      /\ inflight \subseteq 1 .. k /\ MaxInflight \in Nat
    BY <1>1, <1>2, <1>5, WindowType, TaskSetsAssumption DEF TypeOK, Shape
<1>7. Head(window) \in 1 .. k /\ Tail(window) \in Seq(1 .. k) /\ Len(Tail(window)) = Len(window) - 1
    BY <1>6
<1>8. k \in 1 .. k
    BY <1>7
<1>9. window' \in Seq(1 .. k) /\ Len(window') = Len(window)
    <2>1. window' = Append(Tail(window), k)
        BY <1>5 DEF Drain
    <2>2. Len(window) \in Nat
        BY <1>6
    <2> QED BY <1>7, <1>8, <2>1, <2>2
<1>10. inflight' = inflight \cup {k} /\ last_monitored_step' \in 0 .. k
    BY <1>5, <1>7 DEF Drain, Submit
<1>11. pc' \in {"explore", "sync"}
    BY DEF Drain, Submit
<1>12. TypeOK'
    <2>1. window' \in BoundedSeq(1 .. k, MaxInflight)
        BY <1>6, <1>9, WindowType
    <2> QED BY <1>1, <1>2, <1>4, <1>5, <1>6, <1>8, <1>10, <1>11, <2>1 DEF TypeOK, schedulerVars
<1>13. Shape'
    BY <1>1, <1>2, <1>4, <1>11 DEF Shape
<1> QED BY <1>3, <1>12, <1>13 DEF Consistent

LEMMA ConsistentEndOfTasks ==
    ASSUME Consistent, EndOfTasks
    PROVE  Consistent'
<1>1. TypeOK /\ Shape /\ InLine /\ FileInLine /\ ReadInLine
    BY DEF Consistent
<1>2. /\ UNCHANGED <<setup, epoch, orders, cached, explore_step_num, inflight, window,
                      last_monitored_step, file, crashes, finished, reads>>
      /\ pc = "explore" /\ pc' = "ending"
      /\ current_index' = IF Plain THEN <<Total * Epochs>> ELSE current_index
    BY DEF EndOfTasks
<1>3. /\ Total' = Total /\ Plain' = Plain /\ Tasksets' = Tasksets /\ MaxSteps' = MaxSteps /\ Steps' = Steps
    BY <1>2 DEF Total, Plain, Tasksets, MaxSteps, Steps
<1>4. Plain => Tasksets = {1}
    BY <1>1, StepFacts DEF Shape
<1>5. Plain => current_index' = [t \in Tasksets |-> Total * Epochs]
    BY <1>2, <1>4
<1>6. Total * Epochs \in 0 .. Total * Epochs
    BY <1>1, StepFacts DEF Shape
<1>7. current_index' \in [Tasksets -> 0 .. Total * Epochs]
    BY <1>1, <1>2, <1>5, <1>6 DEF TypeOK
<1>8. TypeOK'
    BY <1>1, <1>2, <1>3, <1>7 DEF TypeOK
<1>9. InLine'
    <2>1. /\ epoch = (explore_step_num * Batch) \div SlotsOf(setup) /\ orders = setup.plan[epoch]
          /\ Following \/ AtTheEnd(current_index)
        BY <1>1, <1>2 DEF InLine, Alive
    <2>2. CASE Plain
        BY <1>2, <1>3, <1>5, <2>1, <2>2 DEF InLine, AtTheEnd
    <2>3. CASE ~Plain
        <3>1. Following /\ current_index' = current_index
            BY <1>2, <2>1, <2>3 DEF AtTheEnd
        <3>2. Following'
            BY <1>2, <1>3, <3>1 DEF Following, OrderAt
        <3> QED BY <1>2, <2>1, <3>2 DEF InLine
    <2> QED BY <2>2, <2>3
<1>10. FileInLine'
    BY <1>1, <1>2, <1>3 DEF FileInLine, AtTheEnd
<1>11. ReadInLine'
    BY <1>1, <1>2, <1>3 DEF ReadInLine
<1>12. Shape'
    BY <1>1, <1>2, <1>3 DEF Shape
<1> QED BY <1>8, <1>9, <1>10, <1>11, <1>12 DEF Consistent

\* The steps that only run batches down, save or crash.
LEMMA ConsistentOther ==
    ASSUME Consistent,
           SaveCheckpoint \/ WatcherSaves \/ (\E k \in Steps : FinishBatch(k)) \/ Crash
    PROVE  Consistent'
<1>1. TypeOK /\ Shape
    BY DEF Consistent
<1>2. /\ UNCHANGED <<setup, schedulerVars, explore_step_num, reads>> /\ pc # "down"
      /\ file' = file \/ file' = StateOfExplorer \/ file' = Empty
    <2>1. CASE SaveCheckpoint
        BY <2>1 DEF SaveCheckpoint
    <2>2. CASE WatcherSaves
        BY <2>2 DEF WatcherSaves, loopVars
    <2>3. ASSUME NEW k \in Steps, FinishBatch(k)
          PROVE  <1>2
        BY <1>1, <2>3 DEF FinishBatch, Shape
    <2>4. CASE Crash
        BY <2>4 DEF Crash, Alive
    <2> QED BY <2>1, <2>2, <2>3, <2>4
<1>3. /\ explore_step_num \in 0 .. MaxSteps /\ MaxSteps \in Nat /\ inflight \subseteq 1 .. explore_step_num
    BY <1>1, StepFacts DEF TypeOK, Shape
<1>4. InLine' /\ FileInLine' /\ ReadInLine'
    BY <1>2, SchedulerUnchanged
<1>5. /\ Total' = Total /\ Tasksets' = Tasksets /\ MaxSteps' = MaxSteps /\ Steps' = Steps
    BY <1>2 DEF Total, Tasksets, MaxSteps, Steps
<1>6. file' \in [step : 0 .. MaxSteps, index : [Tasksets -> 0 .. Total * Epochs]]
    BY <1>2, FileType
<1>7. /\ inflight' \subseteq 1 .. explore_step_num /\ finished' \subseteq Steps
      /\ last_monitored_step' \in 0 .. explore_step_num
      /\ pc' \in {"explore", "drain", "sync", "ending", "stopped", "down"}
      /\ crashes' \in Nat
    <2>1. CASE SaveCheckpoint
        BY <1>1, <1>3, <2>1 DEF SaveCheckpoint, TypeOK, Shape
    <2>2. CASE WatcherSaves
        BY <1>1, <2>2 DEF WatcherSaves, TypeOK, Shape, loopVars
    <2>3. ASSUME NEW k \in Steps, FinishBatch(k)
          PROVE  <1>7
        BY <1>1, <2>3 DEF FinishBatch, TypeOK, Shape
    <2>4. CASE Crash
        BY <1>1, <2>4 DEF Crash, TypeOK, Shape
    <2> QED BY <2>1, <2>2, <2>3, <2>4
<1>8. /\ window' = window \/ window' = <<>>
      /\ pc' = "drain" => setup.style = "watched" /\ window' # <<>>
      /\ pc' = "down" => inflight' = {} /\ window' = <<>>
    <2>1. CASE SaveCheckpoint
        BY <2>1 DEF SaveCheckpoint
    <2>2. CASE WatcherSaves
        BY <1>1, <2>2 DEF WatcherSaves, Shape, loopVars
    <2>3. ASSUME NEW k \in Steps, FinishBatch(k)
          PROVE  <1>8
        BY <1>1, <1>2, <2>3 DEF FinishBatch, Shape
    <2>4. CASE Crash
        BY <2>4 DEF Crash
    <2> QED BY <2>1, <2>2, <2>3, <2>4
<1>9. window' \in BoundedSeq(1 .. explore_step_num, MaxInflight)
    <2>1. window \in BoundedSeq(1 .. explore_step_num, MaxInflight) /\ MaxInflight \in Nat
        BY <1>1, TaskSetsAssumption DEF TypeOK
    <2>2. <<>> \in Seq(1 .. explore_step_num) /\ Len(<<>>) <= MaxInflight
        BY <2>1
    <2>3. <<>> \in BoundedSeq(1 .. explore_step_num, MaxInflight)
        BY <2>1, <2>2, WindowType
    <2> QED BY <1>8, <2>1, <2>3
<1>10. TypeOK'
    BY <1>1, <1>2, <1>5, <1>6, <1>7, <1>9 DEF TypeOK, schedulerVars
<1>11. Shape'
    BY <1>1, <1>2, <1>5, <1>7, <1>8 DEF Shape
<1> QED BY <1>4, <1>10, <1>11 DEF Consistent

LEMMA ConsistentRestart ==
    ASSUME Consistent, Restart
    PROVE  Consistent'
<1>1. TypeOK /\ Shape /\ FileInLine /\ ReadInLine
    BY DEF Consistent
<1>2. /\ UNCHANGED <<setup, inflight, window, file, crashes, finished, reads>>
      /\ pc = "down" /\ pc' = "explore" /\ explore_step_num' = file.step
      /\ last_monitored_step' = file.step /\ TasksetScheduler(file.step, file.index)
    BY DEF Restart
<1>3. /\ Total' = Total /\ Plain' = Plain /\ Tasksets' = Tasksets /\ MaxSteps' = MaxSteps /\ Steps' = Steps
    BY <1>2 DEF Total, Plain, Tasksets, MaxSteps, Steps
<1>4. /\ file.step \in 0 .. MaxSteps /\ file.index \in [Tasksets -> 0 .. Total * Epochs]
      /\ MaxSteps \in Nat /\ Total = SlotsOf(setup) /\ MaxInflight \in Nat
    BY <1>1, StepFacts DEF TypeOK, Shape
<1>5. PICK k \in Nat : k = file.step /\ k <= MaxSteps
    BY <1>4
<1>6. epoch' = (k * Batch) \div SlotsOf(setup) /\ orders' = setup.plan[epoch']
    BY <1>2, <1>4, <1>5 DEF TasksetScheduler
<1>7. TypeOK'
    <2>1. epoch' \in 0 .. Epochs
        BY <1>1, <1>5, <1>6, StepFacts DEF Shape
    <2>2. inflight' = {} /\ window' = <<>>
        BY <1>1, <1>2 DEF Shape
    <2>3. <<>> \in Seq(1 .. k) /\ Len(<<>>) <= MaxInflight
        BY <1>4
    <2>4. <<>> \in BoundedSeq(1 .. k, MaxInflight)
        BY <1>4, <2>3, WindowType
    <2>5. current_index' \in [Tasksets -> 0 .. Total * Epochs]
        BY <1>2, <1>4 DEF TasksetScheduler
    <2> QED BY <1>1, <1>2, <1>3, <1>4, <1>5, <2>1, <2>2, <2>4, <2>5 DEF TypeOK
<1>8. Shape'
    BY <1>1, <1>2, <1>3 DEF Shape
<1>9. InLine'
    <2>1. ASSUME NEW t \in Tasksets
          PROVE  cached'[t] = OrderAt(t, current_index'[t]) /\ current_index'[t] = file.index[t]
        BY <1>2, <2>1 DEF TasksetScheduler
    <2>2. CASE \A t \in Tasksets : file.index[t] = Index(setup, file.step, t)
        <3>1. Following'
            BY <1>2, <1>3, <2>1, <2>2 DEF Following, OrderAt
        <3> QED BY <1>2, <1>5, <1>6, <3>1 DEF InLine
    <2>3. CASE AtTheEnd(file.index)
        <3>1. AtTheEnd(current_index)'
            BY <1>2, <1>3, <2>3 DEF AtTheEnd, TasksetScheduler
        <3> QED BY <1>2, <1>5, <1>6, <3>1 DEF InLine
    <2> QED BY <1>1, <2>2, <2>3 DEF FileInLine
<1>10. FileInLine'
    BY <1>1, <1>2, <1>3 DEF FileInLine, AtTheEnd
<1>11. ReadInLine'
    BY <1>1, <1>2, <1>3 DEF ReadInLine
<1> QED BY <1>7, <1>8, <1>9, <1>10, <1>11 DEF Consistent

LEMMA ConsistentStep == Consistent /\ [Next]_vars => Consistent'
<1> SUFFICES ASSUME Consistent, [Next]_vars PROVE Consistent'
    OBVIOUS
<1>1. CASE ExploreStep
    BY <1>1, ConsistentExploreStep
<1>2. CASE Drain
    BY <1>2, ConsistentDrain
<1>3. CASE EndOfTasks
    BY <1>3, ConsistentEndOfTasks
<1>4. CASE SaveCheckpoint \/ WatcherSaves \/ (\E k \in Steps : FinishBatch(k)) \/ Crash
    BY <1>4, ConsistentOther
<1>5. CASE Restart
    BY <1>5, ConsistentRestart
<1>6. CASE UNCHANGED vars
    <2>1. TypeOK' /\ Shape'
        BY <1>6 DEF Consistent, TypeOK, Shape, vars, schedulerVars, loopVars, Total, Tasksets,
            MaxSteps, Steps
    <2>2. InLine'
        BY <1>6 DEF Consistent, InLine, Following, AtTheEnd, OrderAt, vars, schedulerVars,
            loopVars, Total, Plain, Tasksets, Alive
    <2>3. FileInLine' /\ ReadInLine'
        BY <1>6 DEF Consistent, FileInLine, ReadInLine, AtTheEnd, vars, Total, Plain, Tasksets,
            MaxSteps, Steps
    <2> QED BY <2>1, <2>2, <2>3 DEF Consistent
<1> QED BY <1>1, <1>2, <1>3, <1>4, <1>5, <1>6 DEF Next, Stopped

LEMMA ConsistentAlways == Spec => []Consistent
<1>1. Init => Consistent
    BY ConsistentInit
<1>2. Consistent /\ [Next]_vars => Consistent'
    BY ConsistentStep
<1> QED BY <1>1, <1>2, PTL DEF Spec

\* Every variable of the explorer, the scheduler and the state file stays in its range, and
\* no batch reaches past the last epoch (the scheduler reads in task_scheduler.py:184).
THEOREM TypeCorrect == Spec => []TypeOK
<1>1. Consistent => TypeOK
    BY DEF Consistent
<1> QED BY <1>1, ConsistentAlways, PTL

\* After any number of crashes, torn files and saves in the middle of an epoch, a step reads
\* the batch that an earlier life of the explorer read for it.
THEOREM ResumesAlways == Spec => []ResumesExactly
<1>1. Consistent => ResumesExactly
    <2> SUFFICES ASSUME Consistent, NEW k \in Steps
                 PROVE  Cardinality(reads[k]) <= 1
        BY DEF ResumesExactly
    <2>1. PICK batch : reads[k] \subseteq {batch}
        BY DEF Consistent, ReadInLine
    <2>2. IsFiniteSet({batch}) /\ Cardinality({batch}) = 1
        BY FS_Singleton
    <2> QED BY <2>1, <2>2, FS_Subset
<1> QED BY <1>1, ConsistentAlways, PTL

--------------------------------------------------------------------------------
(* What a save can lose. *)

\* With a save only after finish_current_steps, what the file counts is finished.
Stepwise ==
    setup.style = "stepwise" =>
        /\ 1 .. file.step \subseteq finished
        /\ Alive => /\ 1 .. last_monitored_step \subseteq finished
                    /\ 1 .. explore_step_num \subseteq finished \cup inflight

\* The step that was read and waits for the window.
Waiting == IF pc = "drain" THEN {explore_step_num} ELSE {}

\* The steps of earlier lives that nobody explores any more.
Lost == (1 .. explore_step_num) \ (finished \cup inflight \cup Waiting)

\* With a watcher that saves at any time, a life of the explorer loses at most its window
\* and the step that waits.
Watched ==
    setup.style = "watched" =>
        /\ inflight \subseteq Range(window)
        /\ Alive => Cardinality(Lost) <= crashes * (MaxInflight + 1)
        /\ Cardinality((1 .. file.step) \ finished)
              <= (IF Alive THEN crashes + 1 ELSE crashes) * (MaxInflight + 1)

LEMMA CardinalityOfUnion ==
    ASSUME NEW S, NEW T, IsFiniteSet(S), IsFiniteSet(T)
    PROVE  /\ IsFiniteSet(S \cup T)
           /\ Cardinality(S \cup T) <= Cardinality(S) + Cardinality(T)
<1>1. /\ IsFiniteSet(S \cup T)
      /\ Cardinality(S \cup T) = Cardinality(S) + Cardinality(T) - Cardinality(S \cap T)
    BY FS_Union
<1>2. IsFiniteSet(S \cap T)
    BY FS_Subset
<1>3. /\ Cardinality(S) \in Nat /\ Cardinality(T) \in Nat
      /\ Cardinality(S \cap T) \in Nat
    BY <1>2, FS_CardinalityType
<1> QED BY <1>1, <1>3

LEMMA CardinalityOfRange ==
    ASSUME NEW S, NEW w \in Seq(S)
    PROVE  IsFiniteSet(Range(w)) /\ Cardinality(Range(w)) <= Len(w)
<1>1. w \in Surjection(1 .. Len(w), Range(w))
    BY DEF Surjection, Range
<1>2. IsFiniteSet(1 .. Len(w)) /\ Cardinality(1 .. Len(w)) = Len(w)
    <2>1. PICK n \in Nat : n = Len(w)
        OBVIOUS
    <2>2. IsFiniteSet(1 .. n) /\ Cardinality(1 .. n) = n
        BY FS_Interval
    <2> QED BY <2>1, <2>2
<1> QED BY <1>1, <1>2, FS_Surjection

\* What the state file counts and nobody finished, if the watcher saved now.
LEMMA SavedLoss ==
    ASSUME Consistent, Watched, setup.style = "watched", Alive
    PROVE  Cardinality((1 .. explore_step_num) \ finished) <= (crashes + 1) * (MaxInflight + 1)
<1>1. TypeOK /\ Shape
    BY DEF Consistent
<1>2. PICK k \in Nat : k = explore_step_num
    BY <1>1, StepFacts DEF TypeOK, Shape
<1>3. PICK m \in Nat : m = MaxInflight + 1
    BY TaskSetsAssumption
<1>4. PICK c \in Nat : c = crashes
    BY <1>1 DEF Shape
<1>5. /\ IsFiniteSet(Lost) /\ Cardinality(Lost) <= c * m
    <2>1. Lost \subseteq 1 .. k /\ IsFiniteSet(1 .. k)
        BY <1>2, FS_Interval DEF Lost
    <2> QED BY <1>3, <1>4, <2>1, FS_Subset DEF Watched
<1>6. IsFiniteSet(inflight) /\ Cardinality(inflight) <= m - 1
    <2>1. window \in Seq(1 .. k) /\ Len(window) <= MaxInflight /\ MaxInflight \in Nat
        BY <1>1, <1>2, WindowType, TaskSetsAssumption DEF TypeOK
    <2>2. IsFiniteSet(Range(window)) /\ Cardinality(Range(window)) <= Len(window)
        BY <2>1, CardinalityOfRange
    <2>3. inflight \subseteq Range(window)
        BY DEF Watched
    <2>4. IsFiniteSet(inflight) /\ Cardinality(inflight) <= Cardinality(Range(window))
        BY <2>2, <2>3, FS_Subset
    <2>5. Cardinality(inflight) \in Nat /\ Cardinality(Range(window)) \in Nat /\ Len(window) \in Nat
        BY <2>1, <2>2, <2>4, FS_CardinalityType
    <2> QED BY <1>3, <2>1, <2>2, <2>4, <2>5
<1>7. IsFiniteSet(Waiting) /\ Cardinality(Waiting) <= 1
    <2>1. CASE pc = "drain"
        <3>1. Waiting = {explore_step_num}
            BY <2>1 DEF Waiting
        <3>2. IsFiniteSet({explore_step_num}) /\ Cardinality({explore_step_num}) = 1
            BY FS_Singleton
        <3> QED BY <3>1, <3>2
    <2>2. CASE pc # "drain"
        <3>1. Waiting = {}
            BY <2>2 DEF Waiting
        <3>2. IsFiniteSet({}) /\ Cardinality({}) = 0
            BY FS_EmptySet
        <3> QED BY <3>1, <3>2
    <2> QED BY <2>1, <2>2
<1>8. IsFiniteSet(inflight \cup Waiting) /\ Cardinality(inflight \cup Waiting) <= m
    <2>1. /\ IsFiniteSet(inflight \cup Waiting)
          /\ Cardinality(inflight \cup Waiting) <= Cardinality(inflight) + Cardinality(Waiting)
        BY <1>6, <1>7, CardinalityOfUnion
    <2>2. /\ Cardinality(inflight \cup Waiting) \in Nat /\ Cardinality(inflight) \in Nat
          /\ Cardinality(Waiting) \in Nat
        BY <1>6, <1>7, <2>1, FS_CardinalityType
    <2> QED BY <1>6, <1>7, <2>1, <2>2
<1>9. /\ IsFiniteSet(Lost \cup (inflight \cup Waiting))
      /\ Cardinality(Lost \cup (inflight \cup Waiting)) <= c * m + m
    <2>1. /\ IsFiniteSet(Lost \cup (inflight \cup Waiting))
          /\ Cardinality(Lost \cup (inflight \cup Waiting))
               <= Cardinality(Lost) + Cardinality(inflight \cup Waiting)
        BY <1>5, <1>8, CardinalityOfUnion
    <2>2. /\ Cardinality(Lost \cup (inflight \cup Waiting)) \in Nat /\ Cardinality(Lost) \in Nat
          /\ Cardinality(inflight \cup Waiting) \in Nat
        BY <1>5, <1>8, <2>1, FS_CardinalityType
    <2>3. c * m \in Nat
        OBVIOUS
    <2> QED BY <1>5, <1>8, <2>1, <2>2, <2>3
<1>10. (1 .. k) \ finished \subseteq Lost \cup (inflight \cup Waiting)
    BY <1>2 DEF Lost
<1>11. /\ Cardinality((1 .. k) \ finished) <= Cardinality(Lost \cup (inflight \cup Waiting))
       /\ IsFiniteSet((1 .. k) \ finished)
    BY <1>9, <1>10, FS_Subset
<1>12. Cardinality((1 .. k) \ finished) \in Nat
       /\ Cardinality(Lost \cup (inflight \cup Waiting)) \in Nat
    BY <1>9, <1>11, FS_CardinalityType
<1>13. (c + 1) * m = c * m + m /\ c * m \in Nat
    OBVIOUS
<1> QED BY <1>2, <1>3, <1>4, <1>9, <1>11, <1>12, <1>13

LEMMA StepwiseStep ==
    ASSUME Consistent, Stepwise, [Next]_vars
    PROVE  Stepwise'
<1> SUFFICES ASSUME setup.style = "stepwise", setup' = setup
             PROVE  /\ 1 .. file'.step \subseteq finished'
                    /\ pc' # "down" => /\ 1 .. last_monitored_step' \subseteq finished'
                                       /\ 1 .. explore_step_num' \subseteq finished' \cup inflight'
    <2>1. setup' = setup
        BY DEF Next, ExploreStep, Drain, EndOfTasks, SaveCheckpoint, WatcherSaves, FinishBatch,
            Crash, Restart, Stopped, vars
    <2> QED BY <2>1 DEF Stepwise, Alive
<1>1. TypeOK /\ Shape
    BY DEF Consistent
<1>2. 1 .. file.step \subseteq finished
    BY DEF Stepwise
<1>3. PICK k \in Nat : k = explore_step_num
    BY <1>1, StepFacts DEF TypeOK, Shape
<1>4. pc # "down" => 1 .. last_monitored_step \subseteq finished /\ 1 .. k \subseteq finished \cup inflight
    BY <1>3 DEF Stepwise, Alive
<1>5. CASE ExploreStep
    <2>1. /\ pc = "explore" /\ explore_step_num' = k + 1 /\ inflight' = inflight \cup {k + 1}
          /\ UNCHANGED <<file, finished, last_monitored_step>>
        BY <1>3, <1>5 DEF ExploreStep, WindowIsFull, Submit
    <2>2. 1 .. k + 1 = (1 .. k) \cup {k + 1}
        OBVIOUS
    <2> QED BY <1>2, <1>4, <2>1, <2>2
<1>6. CASE Drain
    BY <1>1, <1>6 DEF Drain, Shape
<1>7. CASE EndOfTasks
    BY <1>2, <1>3, <1>4, <1>7 DEF EndOfTasks
<1>8. CASE SaveCheckpoint
    <2>1. /\ pc # "down" /\ FinishCurrentSteps /\ last_monitored_step' = k /\ explore_step_num' = k
          /\ file'.step = k /\ UNCHANGED <<finished, inflight>>
        BY <1>3, <1>8 DEF SaveCheckpoint, StateOfExplorer
    <2>2. PICK l \in 0 .. k : l = last_monitored_step
        BY <1>1, <1>3 DEF TypeOK
    <2>3. ASSUME NEW j \in 1 .. k
          PROVE  j \in finished
        <3>1. CASE j \in 1 .. l
            BY <1>4, <2>1, <2>2, <3>1
        <3>2. CASE j \in l + 1 .. k
            <4>1. j \notin inflight
                BY <1>3, <2>1, <2>2, <3>2 DEF FinishCurrentSteps
            <4> QED BY <1>4, <2>1, <4>1
        <3> QED BY <2>2, <3>1, <3>2
    <2> QED BY <2>1, <2>3
<1>9. CASE WatcherSaves
    BY <1>9 DEF WatcherSaves
<1>10. ASSUME NEW j \in Steps, FinishBatch(j)
       PROVE  /\ 1 .. file'.step \subseteq finished'
              /\ pc' # "down" => /\ 1 .. last_monitored_step' \subseteq finished'
                                 /\ 1 .. explore_step_num' \subseteq finished' \cup inflight'
    BY <1>2, <1>3, <1>4, <1>10 DEF FinishBatch
<1>11. CASE Crash
    <2>1. finished' = finished /\ pc' = "down" /\ (file' = file \/ file' = Empty)
        BY <1>11 DEF Crash
    <2>2. file' = Empty => 1 .. file'.step = {}
        BY DEF Empty
    <2> QED BY <1>2, <2>1, <2>2
<1>12. CASE Restart
    BY <1>2, <1>12 DEF Restart
<1>13. CASE UNCHANGED vars
    BY <1>2, <1>3, <1>4, <1>13 DEF vars, loopVars
<1> QED BY <1>5, <1>6, <1>7, <1>8, <1>9, <1>10, <1>11, <1>12, <1>13 DEF Next, Stopped

\* Sets of steps that lose members stay below a bound.
LEMMA FewerLost ==
    ASSUME NEW n \in Nat, NEW S, NEW T, S \subseteq T, T \subseteq 1 .. n,
           NEW b \in Nat, Cardinality(T) <= b
    PROVE  Cardinality(S) <= b
<1>1. IsFiniteSet(T)
    <2>1. IsFiniteSet(1 .. n)
        BY FS_Interval
    <2> QED BY <2>1, FS_Subset
<1>2. IsFiniteSet(S) /\ Cardinality(S) <= Cardinality(T)
    BY <1>1, FS_Subset
<1>3. Cardinality(S) \in Nat /\ Cardinality(T) \in Nat
    BY <1>1, <1>2, FS_CardinalityType
<1> QED BY <1>2, <1>3

\* What a watched life has in its window, it can lose; what it has lost only shrinks.
LEMMA LostShrinks ==
    ASSUME Consistent, Watched, setup.style = "watched", Alive, Alive',
           crashes' = crashes, Lost' \subseteq Lost
    PROVE  Cardinality(Lost') <= crashes' * (MaxInflight + 1)
<1>1. PICK k \in Nat : k = explore_step_num
    BY StepFacts DEF Consistent, TypeOK, Shape
<1>2. Lost \subseteq 1 .. k
    BY <1>1 DEF Lost
<1>3. crashes * (MaxInflight + 1) \in Nat
    BY TaskSetsAssumption DEF Consistent, Shape
<1>4. Cardinality(Lost) <= crashes * (MaxInflight + 1)
    BY DEF Watched
<1> QED BY <1>1, <1>2, <1>3, <1>4, FewerLost

\* What the file counts and nobody finished, when the file stays.
LEMMA SavedShrinks ==
    ASSUME Consistent, Watched, setup.style = "watched", file' = file, finished \subseteq finished',
           Alive' <=> Alive, crashes' = crashes
    PROVE  Cardinality((1 .. file'.step) \ finished')
              <= (IF Alive' THEN crashes' + 1 ELSE crashes') * (MaxInflight + 1)
<1>1. file.step \in 0 .. MaxSteps /\ MaxSteps \in Nat /\ crashes \in Nat
    BY StepFacts DEF Consistent, TypeOK, Shape
<1>2. PICK n \in Nat : n = file.step
    BY <1>1
<1>3. PICK b \in Nat : b = (IF Alive THEN crashes + 1 ELSE crashes) * (MaxInflight + 1)
    <2>1. (IF Alive THEN crashes + 1 ELSE crashes) \in Nat /\ MaxInflight + 1 \in Nat
        BY <1>1, TaskSetsAssumption
    <2> QED BY <2>1
<1>4. Cardinality((1 .. n) \ finished) <= b
    BY <1>2, <1>3 DEF Watched
<1>5. (1 .. n) \ finished' \subseteq (1 .. n) \ finished
    OBVIOUS
<1>6. Cardinality((1 .. n) \ finished') <= b
    BY <1>4, <1>5, FewerLost
<1> QED BY <1>2, <1>3, <1>6

LEMMA RangeOfAppend ==
    ASSUME NEW S, NEW w \in Seq(S), NEW x \in S
    PROVE  Range(w) \cup {x} \subseteq Range(Append(w, x))
<1>1. Len(w) \in Nat /\ Len(Append(w, x)) = Len(w) + 1 /\ Append(w, x)[Len(w) + 1] = x
    OBVIOUS
<1>2. \A i \in 1 .. Len(w) : Append(w, x)[i] = w[i]
    OBVIOUS
<1>3. DOMAIN w = 1 .. Len(w) /\ DOMAIN Append(w, x) = 1 .. Len(w) + 1
    BY <1>1
<1>4. x \in Range(Append(w, x))
    BY <1>1, <1>3 DEF Range
<1>5. ASSUME NEW i \in DOMAIN w
      PROVE  w[i] \in Range(Append(w, x))
    <2>1. i \in DOMAIN Append(w, x) /\ Append(w, x)[i] = w[i]
        BY <1>1, <1>2, <1>3
    <2> QED BY <2>1 DEF Range
<1> QED BY <1>4, <1>5 DEF Range

LEMMA RangeOfTail ==
    ASSUME NEW S, NEW w \in Seq(S), w # <<>>
    PROVE  Range(w) \subseteq {Head(w)} \cup Range(Tail(w))
<1>1. Len(w) \in Nat \ {0} /\ DOMAIN w = 1 .. Len(w) /\ DOMAIN Tail(w) = 1 .. Len(w) - 1
    OBVIOUS
<1>2. ASSUME NEW i \in 1 .. Len(w)
      PROVE  w[i] \in {Head(w)} \cup Range(Tail(w))
    <2>1. CASE i = 1
        BY <2>1
    <2>2. CASE i # 1
        <3>1. i - 1 \in 1 .. Len(w) - 1
            BY <1>1, <2>2
        <3>2. Tail(w)[i - 1] = w[i]
            BY <1>1, <3>1
        <3> QED BY <1>1, <3>1, <3>2 DEF Range
    <2> QED BY <2>1, <2>2
<1> QED BY <1>1, <1>2 DEF Range

LEMMA WatchedStep ==
    ASSUME Consistent, Watched, [Next]_vars
    PROVE  Watched'
<1> SUFFICES ASSUME setup.style = "watched", setup' = setup
             PROVE  /\ inflight' \subseteq Range(window')
                    /\ Alive' => Cardinality(Lost') <= crashes' * (MaxInflight + 1)
                    /\ Cardinality((1 .. file'.step) \ finished')
                          <= (IF Alive' THEN crashes' + 1 ELSE crashes') * (MaxInflight + 1)
    <2>1. setup' = setup
        BY DEF Next, ExploreStep, Drain, EndOfTasks, SaveCheckpoint, WatcherSaves, FinishBatch,
            Crash, Restart, Stopped, vars
    <2> QED BY <2>1 DEF Watched
<1> DEFINE Goal ==
        /\ inflight' \subseteq Range(window')
        /\ Alive' => Cardinality(Lost') <= crashes' * (MaxInflight + 1)
        /\ Cardinality((1 .. file'.step) \ finished')
              <= (IF Alive' THEN crashes' + 1 ELSE crashes') * (MaxInflight + 1)
<1>1. TypeOK /\ Shape /\ inflight \subseteq Range(window)
    BY DEF Consistent, Watched
<1>2. PICK k \in Nat : k = explore_step_num
    BY <1>1, StepFacts DEF TypeOK, Shape
<1>3. window \in Seq(1 .. k) /\ inflight \subseteq 1 .. k
    BY <1>1, <1>2, WindowType, TaskSetsAssumption DEF TypeOK
<1>4. crashes \in Nat /\ MaxInflight + 1 \in Nat
    BY <1>1, TaskSetsAssumption DEF Shape
<1>5. CASE ExploreStep
    <2>1. /\ pc = "explore" /\ explore_step_num' = k + 1 /\ Alive /\ Alive'
          /\ UNCHANGED <<file, finished, crashes>>
        BY <1>2, <1>5 DEF ExploreStep, Submit, Alive
    <2>2. inflight' \subseteq Range(window') /\ k + 1 \in inflight' \cup Waiting' /\ inflight \subseteq inflight'
        <3>1. CASE WindowIsFull
            BY <1>1, <1>5, <2>1, <3>1 DEF ExploreStep, Waiting
        <3>2. CASE ~WindowIsFull
            <4>1. window' = Append(window, k + 1) /\ inflight' = inflight \cup {k + 1}
                BY <1>2, <1>5, <3>2 DEF ExploreStep, Submit
            <4>2. window \in Seq(1 .. k + 1) /\ k + 1 \in 1 .. k + 1
                <5>1. 1 .. k \subseteq 1 .. k + 1
                    OBVIOUS
                <5> QED BY <1>3, <5>1
            <4> QED BY <1>1, <4>1, <4>2, RangeOfAppend
        <3> QED BY <3>1, <3>2
    <2>3. Lost' \subseteq Lost
        <3>1. Waiting = {}
            BY <2>1 DEF Waiting
        <3>2. 1 .. k + 1 = (1 .. k) \cup {k + 1}
            OBVIOUS
        <3> QED BY <1>2, <2>1, <2>2, <3>1, <3>2 DEF Lost
    <2> QED BY <2>1, <2>2, <2>3, LostShrinks, SavedShrinks
<1>6. CASE Drain
    <2>1. /\ pc = "drain" /\ Alive /\ Alive' /\ UNCHANGED <<explore_step_num, file, finished, crashes>>
          /\ Head(window) \notin inflight /\ window' = Append(Tail(window), k)
          /\ inflight' = inflight \cup {k}
        BY <1>2, <1>6 DEF Drain, Submit, Alive
    <2>2. window # <<>>
        BY <1>1, <2>1 DEF Shape
    <2>3. Tail(window) \in Seq(1 .. k) /\ k \in 1 .. k
        <3>1. Head(window) \in 1 .. k /\ Tail(window) \in Seq(1 .. k)
            BY <1>3, <2>2
        <3> QED BY <3>1
    <2>4. inflight \subseteq Range(Tail(window))
        BY <1>1, <1>3, <2>1, <2>2, RangeOfTail
    <2>5. inflight' \subseteq Range(window')
        BY <2>1, <2>3, <2>4, RangeOfAppend
    <2>6. Lost' \subseteq Lost
        <3>1. Waiting = {k}
            BY <1>2, <2>1 DEF Waiting
        <3> QED BY <2>1, <3>1 DEF Lost
    <2> QED BY <2>1, <2>5, <2>6, LostShrinks, SavedShrinks
<1>7. CASE EndOfTasks
    <2>1. /\ pc = "explore" /\ pc' = "ending" /\ Alive /\ Alive'
          /\ UNCHANGED <<explore_step_num, file, finished, crashes, inflight, window>>
        BY <1>7 DEF EndOfTasks, Alive
    <2>2. Lost' \subseteq Lost
        BY <2>1 DEF Lost, Waiting
    <2> QED BY <1>1, <2>1, <2>2, LostShrinks, SavedShrinks
<1>8. CASE SaveCheckpoint \/ WatcherSaves
    <2>1. /\ Alive /\ Alive' /\ file'.step = k
          /\ UNCHANGED <<explore_step_num, finished, crashes, inflight, window>>
          /\ pc' = pc \/ (pc # "drain" /\ pc' # "drain")
        BY <1>2, <1>8 DEF SaveCheckpoint, WatcherSaves, Alive, StateOfExplorer, loopVars
    <2>2. Lost' \subseteq Lost
        BY <2>1 DEF Lost, Waiting
    <2>3. Cardinality((1 .. k) \ finished) <= (crashes + 1) * (MaxInflight + 1)
        BY <1>2, <2>1, SavedLoss
    <2> QED BY <1>1, <2>1, <2>2, <2>3, LostShrinks
<1>9. ASSUME NEW j \in Steps, FinishBatch(j)
      PROVE  Goal
    <2>1. /\ UNCHANGED <<explore_step_num, file, crashes, window, pc>>
          /\ inflight' = inflight \ {j} /\ finished' = finished \cup {j} /\ j \in inflight
        BY <1>9 DEF FinishBatch
    <2>2. Alive /\ Alive'
        BY <1>1, <2>1 DEF Alive, Shape
    <2>3. Lost' \subseteq Lost
        BY <2>1 DEF Lost, Waiting
    <2> QED BY <1>1, <2>1, <2>2, <2>3, LostShrinks, SavedShrinks
<1>10. CASE Crash
    <2>1. /\ Alive /\ ~Alive' /\ crashes' = crashes + 1 /\ inflight' = {} /\ finished' = finished
          /\ file' = file \/ file' = Empty
        BY <1>10 DEF Crash, Alive
    <2>2. CASE file' = file
        BY <2>1, <2>2 DEF Watched
    <2>3. CASE file' = Empty
        <3>1. (1 .. file'.step) \ finished' = {}
            BY <2>3 DEF Empty
        <3>2. Cardinality({}) = 0 /\ crashes' * (MaxInflight + 1) \in Nat
            BY <1>4, <2>1, FS_EmptySet
        <3> QED BY <2>1, <3>1, <3>2
    <2> QED BY <2>1, <2>2, <2>3
<1>11. CASE Restart
    <2>1. /\ ~Alive /\ Alive' /\ UNCHANGED <<inflight, window, file, crashes, finished>>
          /\ explore_step_num' = file.step /\ inflight = {}
        BY <1>1, <1>11 DEF Restart, Alive, Shape
    <2>2. Cardinality((1 .. file.step) \ finished) <= crashes * (MaxInflight + 1)
        BY <2>1 DEF Watched
    <2>3. Lost' = (1 .. file.step) \ finished
        BY <1>11, <2>1 DEF Lost, Waiting, Restart
    <2>4. PICK n \in Nat : n = Cardinality((1 .. file.step) \ finished)
        <3>1. file.step \in Nat
            BY <1>1, StepFacts DEF TypeOK, Shape
        <3>2. IsFiniteSet(1 .. file.step)
            BY <3>1, FS_Interval
        <3>3. IsFiniteSet((1 .. file.step) \ finished)
            BY <3>2, FS_Subset
        <3> QED BY <3>3, FS_CardinalityType
    <2>5. crashes * (MaxInflight + 1) \in Nat
          /\ (crashes + 1) * (MaxInflight + 1) = crashes * (MaxInflight + 1) + (MaxInflight + 1)
        BY <1>4
    <2>6. n <= (crashes + 1) * (MaxInflight + 1)
        BY <1>4, <2>2, <2>4, <2>5
    <2> QED BY <2>1, <2>2, <2>3, <2>4, <2>6
<1>12. CASE UNCHANGED vars
    BY <1>1, <1>12 DEF vars, loopVars, Watched, Lost, Waiting, Alive
<1> QED BY <1>5, <1>6, <1>7, <1>8, <1>9, <1>10, <1>11, <1>12 DEF Next, Stopped

\* A saved step is finished when only finish_current_steps leads to a save; with a watcher
\* that saves at any time, each life of the explorer can lose its window and one step more,
\* however long the run is (fully_async, explorer.py:336 and :380).
THEOREM LossAlways == Spec => []LossIsBounded
<1>1. Init => Stepwise /\ Watched
    <2> SUFFICES ASSUME Init PROVE Stepwise /\ Watched
        OBVIOUS
    <2>1. 1 .. 0 = {} /\ Cardinality({}) = 0
        BY FS_EmptySet
    <2>2. /\ file.step = 0 /\ explore_step_num = 0 /\ last_monitored_step = 0 /\ inflight = {}
          /\ crashes = 0 /\ Alive
        BY DEF Init, Empty, Alive
    <2>3. Lost = {} /\ (1 .. file.step) \ finished = {}
        BY <2>1, <2>2 DEF Lost
    <2>4. MaxInflight + 1 \in Nat
        BY TaskSetsAssumption
    <2> QED BY <2>1, <2>2, <2>3, <2>4 DEF Stepwise, Watched
<1>2. Consistent /\ Stepwise /\ Watched /\ [Next]_vars => Stepwise' /\ Watched'
    BY StepwiseStep, WatchedStep
<1>3. Consistent /\ Stepwise /\ Watched => LossIsBounded
    <2> SUFFICES ASSUME Consistent, Stepwise, Watched PROVE LossIsBounded
        OBVIOUS
    <2>1. PICK c \in Nat, m \in Nat : c = crashes /\ m = MaxInflight + 1
        BY TaskSetsAssumption DEF Consistent, Shape
    <2>2. CASE setup.style = "stepwise"
        <3>1. (1 .. file.step) \ finished = {}
            BY <2>2 DEF Stepwise
        <3> QED BY <2>2, <3>1, FS_EmptySet DEF LossIsBounded
    <2>3. CASE setup.style = "watched"
        <3>1. Cardinality((1 .. file.step) \ finished) <= (IF Alive THEN c + 1 ELSE c) * m
            BY <2>1, <2>3 DEF Watched
        <3>2. (c + 1) * m = c * m + m /\ c * m \in Nat
            OBVIOUS
        <3>3. PICK n \in Nat : n = file.step
            BY StepFacts DEF Consistent, TypeOK, Shape
        <3>4. Cardinality((1 .. n) \ finished) <= c * m + m
            <4>1. IsFiniteSet(1 .. n)
                BY FS_Interval
            <4>2. IsFiniteSet((1 .. n) \ finished)
                BY <4>1, FS_Subset
            <4>3. Cardinality((1 .. n) \ finished) \in Nat
                BY <4>2, FS_CardinalityType
            <4> QED BY <3>1, <3>2, <3>3, <4>3
        <3> QED BY <2>1, <2>3, <3>2, <3>3, <3>4 DEF LossIsBounded
    <2> QED BY <2>2, <2>3, SetupFacts DEF Consistent, Shape
<1> QED BY <1>1, <1>2, <1>3, ConsistentAlways, PTL DEF Spec
===============================================================================

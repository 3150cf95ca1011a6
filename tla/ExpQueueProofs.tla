--------------------------- MODULE ExpQueueProofs ---------------------------
(***************************************************************************)
(* Proofs about the experience queue, for any number of pipelines, items,  *)
(* reads and sizes, and for every kind of queue.                           *)
(***************************************************************************)
EXTENDS ExpQueue, FiniteSetTheorems, SequenceTheorems, TLAPS

-----------------------------------------------------------------------------
(* Sequences.                                                              *)

\* What SMT is to know of a concatenation.
LEMMA Concat ==
    ASSUME NEW S, NEW s \in Seq(S), NEW t \in Seq(S)
    PROVE  /\ s \o t \in Seq(S) /\ Len(s \o t) = Len(s) + Len(t)
           /\ Len(s) \in Nat /\ Len(t) \in Nat
           /\ DOMAIN (s \o t) = 1 .. Len(s) + Len(t)
           /\ \A n \in 1 .. Len(s) : (s \o t)[n] = s[n]
           /\ \A n \in 1 .. Len(t) : (s \o t)[Len(s) + n] = t[n]
<1>1. Len(s) \in Nat /\ Len(t) \in Nat
    BY LenProperties
<1>2. /\ s \o t \in Seq(S) /\ Len(s \o t) = Len(s) + Len(t)
      /\ \A i \in 1 .. Len(s) + Len(t) : (s \o t)[i] = IF i <= Len(s) THEN s[i] ELSE t[i - Len(s)]
    BY ConcatProperties
<1>3. DOMAIN (s \o t) = 1 .. Len(s) + Len(t)
    BY <1>2, LenProperties
<1> HIDE DEF Seq
<1>4. \A n \in 1 .. Len(s) : (s \o t)[n] = s[n]
    BY <1>1, <1>2
<1>5. ASSUME NEW n \in 1 .. Len(t) PROVE (s \o t)[Len(s) + n] = t[n]
    <2>1. /\ Len(s) + n \in 1 .. Len(s) + Len(t) /\ ~(Len(s) + n <= Len(s))
          /\ (Len(s) + n) - Len(s) = n
        BY <1>1
    <2> QED BY <1>2, <2>1
<1> QED BY <1>1, <1>2, <1>3, <1>4, <1>5

\* s is what is left of t, in order, when some of its elements are taken away.
Drawn(s, t) ==
    \E f \in [1 .. Len(s) -> 1 .. Len(t)] :
        /\ \A m, n \in 1 .. Len(s) : m < n => f[m] < f[n]
        /\ \A n \in 1 .. Len(s) : s[n] = t[f[n]]

\* A sequence is drawn from itself.
LEMMA DrawnSelf == ASSUME NEW S, NEW s \in Seq(S) PROVE Drawn(s, s)
<1> DEFINE f == [n \in 1 .. Len(s) |-> n]
<1>1. f \in [1 .. Len(s) -> 1 .. Len(s)] /\ \A n \in 1 .. Len(s) : f[n] = n
    OBVIOUS
<1> HIDE DEF f
<1> QED BY <1>1 DEF Drawn

\* What is drawn from what is drawn is drawn.
LEMMA DrawnTwice ==
    ASSUME NEW s, NEW t, NEW u, Drawn(s, t), Drawn(t, u)
    PROVE  Drawn(s, u)
<1>1. PICK f \in [1 .. Len(s) -> 1 .. Len(t)] :
          /\ \A m, n \in 1 .. Len(s) : m < n => f[m] < f[n]
          /\ \A n \in 1 .. Len(s) : s[n] = t[f[n]]
    BY DEF Drawn
<1>2. PICK g \in [1 .. Len(t) -> 1 .. Len(u)] :
          /\ \A m, n \in 1 .. Len(t) : m < n => g[m] < g[n]
          /\ \A n \in 1 .. Len(t) : t[n] = u[g[n]]
    BY DEF Drawn
<1> DEFINE h == [n \in 1 .. Len(s) |-> g[f[n]]]
<1>3. /\ h \in [1 .. Len(s) -> 1 .. Len(u)]
      /\ \A n \in 1 .. Len(s) : h[n] = g[f[n]] /\ f[n] \in 1 .. Len(t)
    BY <1>1, <1>2
<1> HIDE DEF h
<1>4. \A m, n \in 1 .. Len(s) : m < n => h[m] < h[n]
    BY <1>1, <1>2, <1>3
<1>5. \A n \in 1 .. Len(s) : s[n] = u[h[n]]
    BY <1>1, <1>2, <1>3
<1> QED BY <1>3, <1>4, <1>5 DEF Drawn

\* The part in front stays.
LEMMA DrawnBehind ==
    ASSUME NEW S, NEW d \in Seq(S), NEW s \in Seq(S), NEW t \in Seq(S), Drawn(s, t)
    PROVE  Drawn(d \o s, d \o t)
<1>1. PICK f \in [1 .. Len(s) -> 1 .. Len(t)] :
          /\ \A m, n \in 1 .. Len(s) : m < n => f[m] < f[n]
          /\ \A n \in 1 .. Len(s) : s[n] = t[f[n]]
    BY DEF Drawn
<1> DEFINE D == Len(d)  L == Len(s)  K == Len(t)
           g == [n \in 1 .. D + L |-> IF n <= D THEN n ELSE D + f[n - D]]
<1>2. /\ Len(d \o s) = D + L /\ Len(d \o t) = D + K
      /\ D \in Nat /\ L \in Nat /\ K \in Nat
      /\ \A n \in 1 .. D : (d \o s)[n] = d[n] /\ (d \o t)[n] = d[n]
      /\ \A n \in 1 .. L : (d \o s)[D + n] = s[n]
      /\ \A n \in 1 .. K : (d \o t)[D + n] = t[n]
    BY Concat
<1> HIDE DEF D, L, K
<1>3. \A n \in 1 .. L : f[n] \in 1 .. K
    BY <1>1 DEF L, K
<1>4. /\ \A n \in 1 .. D : g[n] = n
      /\ \A n \in 1 .. L : g[D + n] = D + f[n]
      /\ g \in [1 .. D + L -> 1 .. D + K]
    <2>1. \A n \in 1 .. D + L : n <= D \/ n - D \in 1 .. L
        BY <1>2
    <2>2. \A n \in 1 .. D + L : g[n] \in 1 .. D + K
        <3> SUFFICES ASSUME NEW n \in 1 .. D + L PROVE g[n] \in 1 .. D + K
            OBVIOUS
        <3>1. CASE n <= D
            <4>1. g[n] = n
                BY <3>1
            <4> QED BY <1>2, <3>1, <4>1
        <3>2. CASE ~(n <= D)
            <4>1. g[n] = D + f[n - D] /\ n - D \in 1 .. L
                BY <2>1, <3>2
            <4>2. f[n - D] \in 1 .. K
                BY <1>3, <4>1
            <4>3. \A k \in 1 .. K : D + k \in 1 .. D + K
                BY <1>2
            <4> QED BY <4>1, <4>2, <4>3
        <3> QED BY <3>1, <3>2
    <2>3. \A n \in 1 .. L : D + n \in 1 .. D + L /\ ~(D + n <= D) /\ (D + n) - D = n
        BY <1>2
    <2>4. \A n \in 1 .. L : g[D + n] = D + f[n]
        BY <2>3
    <2> QED BY <1>2, <2>2, <2>4
<1>5. \A n \in 1 .. D + L : n \in 1 .. D \/ \E k \in 1 .. L : n = D + k
    <2> SUFFICES ASSUME NEW n \in 1 .. D + L, n \notin 1 .. D PROVE \E k \in 1 .. L : n = D + k
        OBVIOUS
    <2>1. n - D \in 1 .. L /\ n = D + (n - D)
        BY <1>2
    <2> QED BY <2>1
<1> HIDE DEF g
<1>6. ASSUME NEW m \in 1 .. D + L, NEW n \in 1 .. D + L, m < n PROVE g[m] < g[n]
    <2>1. CASE n \in 1 .. D
        BY <1>2, <1>4, <1>6, <2>1
    <2>2. ASSUME NEW k \in 1 .. L, n = D + k PROVE g[m] < g[n]
        <3>1. g[n] = D + f[k] /\ f[k] \in 1 .. K
            BY <1>3, <1>4, <2>2
        <3>2. CASE m \in 1 .. D
            <4>1. g[m] = m /\ m <= D /\ m \in Nat /\ D \in Nat
                BY <1>2, <1>4, <3>2
            <4>2. \A i \in 1 .. K : i > 0 /\ i \in Nat
                BY <1>2
            <4>3. f[k] > 0 /\ f[k] \in Nat
                BY <3>1, <4>2
            <4> QED BY <3>1, <4>1, <4>3
        <3>3. ASSUME NEW j \in 1 .. L, m = D + j PROVE g[m] < g[n]
            <4>1. j < k /\ g[m] = D + f[j] /\ f[j] \in 1 .. K
                BY <1>2, <1>3, <1>4, <1>6, <2>2, <3>3
            <4>2. f[j] < f[k]
                BY <1>1, <4>1 DEF L
            <4>3. D \in Nat /\ K \in Nat
                BY <1>2
            <4>4. f[j] \in Nat /\ f[k] \in Nat
                BY <3>1, <4>1, <4>3
            <4> QED BY <3>1, <4>1, <4>2, <4>3, <4>4
        <3> QED BY <1>5, <3>2, <3>3
    <2> QED BY <1>5, <2>1, <2>2
<1>7. ASSUME NEW n \in 1 .. D + L PROVE (d \o s)[n] = (d \o t)[g[n]]
    <2>1. CASE n \in 1 .. D
        BY <1>2, <1>4, <2>1
    <2>2. ASSUME NEW k \in 1 .. L, n = D + k PROVE (d \o s)[n] = (d \o t)[g[n]]
        <3>1. s[k] = t[f[k]]
            BY <1>1 DEF L
        <3>2. (d \o s)[n] = s[k] /\ g[n] = D + f[k] /\ f[k] \in 1 .. K
            BY <1>2, <1>3, <1>4, <2>2
        <3>3. (d \o t)[D + f[k]] = t[f[k]]
            BY <1>2, <3>2
        <3> QED BY <3>1, <3>2, <3>3
    <2> QED BY <1>5, <2>1, <2>2
<1>8. /\ g \in [1 .. Len(d \o s) -> 1 .. Len(d \o t)]
      /\ \A m, n \in 1 .. Len(d \o s) : m < n => g[m] < g[n]
      /\ \A n \in 1 .. Len(d \o s) : (d \o s)[n] = (d \o t)[g[n]]
    BY <1>2, <1>4, <1>6, <1>7
<1> QED BY <1>8, Zenon DEF Drawn

\* The part in front is dropped.
LEMMA DrawnTail ==
    ASSUME NEW S, NEW d \in Seq(S), NEW s \in Seq(S)
    PROVE  Drawn(s, d \o s)
<1> DEFINE f == [n \in 1 .. Len(s) |-> Len(d) + n]
<1>1. /\ Len(d \o s) = Len(d) + Len(s) /\ Len(s) \in Nat /\ Len(d) \in Nat
      /\ \A n \in 1 .. Len(s) : (d \o s)[Len(d) + n] = s[n]
    BY Concat
<1>2. f \in [1 .. Len(s) -> 1 .. Len(d \o s)] /\ \A n \in 1 .. Len(s) : f[n] = Len(d) + n
    BY <1>1
<1> HIDE DEF f
<1> QED BY <1>1, <1>2 DEF Drawn

\* How often an experience stands in a sequence.
Times(s, e) == Cardinality({n \in 1 .. Len(s) : s[n] = e})

\* Times counts.
LEMMA TimesType ==
    ASSUME NEW S, NEW s \in Seq(S), NEW e
    PROVE  /\ Times(s, e) \in Nat
           /\ IsFiniteSet({n \in 1 .. Len(s) : s[n] = e})
<1>1. Len(s) \in Nat
    BY LenProperties
<1>2. IsFiniteSet(1 .. Len(s))
    BY <1>1, FS_Interval
<1>3. IsFiniteSet({n \in 1 .. Len(s) : s[n] = e})
    BY <1>2, FS_Subset
<1> QED BY <1>3, FS_CardinalityType DEF Times

\* What is drawn stands there no more often.
LEMMA TimesDrawn ==
    ASSUME NEW S, NEW s \in Seq(S), NEW t \in Seq(S), NEW e, Drawn(s, t)
    PROVE  Times(s, e) <= Times(t, e)
<1>1. PICK f \in [1 .. Len(s) -> 1 .. Len(t)] :
          /\ \A m, n \in 1 .. Len(s) : m < n => f[m] < f[n]
          /\ \A n \in 1 .. Len(s) : s[n] = t[f[n]]
    BY DEF Drawn
<1> DEFINE A == {n \in 1 .. Len(s) : s[n] = e}
           B == {n \in 1 .. Len(t) : t[n] = e}
           g == [n \in A |-> f[n]]
<1>2. Len(s) \in Nat /\ Len(t) \in Nat
    BY LenProperties
<1>3. \A n \in A : f[n] \in B
    BY <1>1
<1>4. \A m, n \in A : m < n => f[m] # f[n]
    <2>1. \A m \in A : f[m] \in 1 .. Len(t) /\ m \in 1 .. Len(s)
        BY <1>1
    <2>2. \A j, k \in 1 .. Len(t) : j < k => j # k
        BY <1>2
    <2> HIDE DEF A
    <2> QED BY <1>1, <2>1, <2>2
<1>5. g \in Injection(A, B)
    <2>1. g \in [A -> B] /\ \A n \in A : g[n] = f[n]
        BY <1>3
    <2>2. \A m, n \in A : m = n \/ m < n \/ n < m
        BY <1>2
    <2> HIDE DEF g, A, B
    <2>3. \A m, n \in A : g[m] = g[n] => m = n
        BY <1>4, <2>1, <2>2
    <2> QED BY <2>1, <2>3 DEF Injection, IsInjective
<1>6. IsFiniteSet(B)
    BY TimesType
<1> HIDE DEF g
<1> QED BY <1>5, <1>6, FS_Injection DEF Times

\* In a concatenation the numbers add up.
LEMMA TimesConcat ==
    ASSUME NEW S, NEW s \in Seq(S), NEW t \in Seq(S), NEW e
    PROVE  Times(s \o t, e) = Times(s, e) + Times(t, e)
<1> DEFINE L == Len(s)  K == Len(t)
           A == {n \in 1 .. Len(s) : s[n] = e}
           B == {n \in 1 .. Len(t) : t[n] = e}
           C == {n \in L + 1 .. L + K : (s \o t)[n] = e}
           f == [n \in B |-> L + n]
<1>1. /\ Len(s \o t) = L + K /\ L \in Nat /\ K \in Nat
      /\ \A n \in 1 .. L : (s \o t)[n] = s[n]
      /\ \A n \in 1 .. K : (s \o t)[L + n] = t[n]
    BY Concat
<1>2. {n \in 1 .. Len(s \o t) : (s \o t)[n] = e} = A \cup C
    BY <1>1
<1>3. A \cap C = {}
    BY <1>1
<1>4. f \in Bijection(B, C)
    <2>1. \A n \in B : f[n] \in C
        BY <1>1
    <2>2. \A m, n \in B : f[m] = f[n] => m = n
        BY <1>1
    <2>3. ASSUME NEW n \in C PROVE \E m \in B : f[m] = n
        <3>1. n - L \in 1 .. K /\ L + (n - L) = n
            BY <1>1
        <3>2. n - L \in B
            BY <1>1, <3>1
        <3> QED BY <3>1, <3>2
    <2>4. f \in [B -> C]
        BY <2>1
    <2> HIDE DEF f, B, C
    <2>5. f \in Injection(B, C) /\ f \in Surjection(B, C)
        BY <2>2, <2>3, <2>4 DEF Injection, Surjection, IsInjective
    <2> QED BY <2>5 DEF Bijection
<1>5. IsFiniteSet(A) /\ IsFiniteSet(B)
    BY TimesType
<1>6. IsFiniteSet(C) /\ Cardinality(C) = Cardinality(B)
    <2> HIDE DEF f, B, C
    <2> QED BY <1>4, <1>5, FS_Bijection DEF ExistsBijection
<1>7. Cardinality(A \cup C) = Cardinality(A) + Cardinality(C) - Cardinality(A \cap C)
    BY <1>5, <1>6, FS_Union
<1>8. Cardinality(A) \in Nat /\ Cardinality(C) \in Nat
    BY <1>5, <1>6, FS_CardinalityType
<1>9. Cardinality(A \cap C) = 0
    BY <1>3, FS_EmptySet
<1> HIDE DEF A, B, C
<1>10. Times(s \o t, e) = Cardinality(A \cup C)
    BY <1>2 DEF Times
<1>11. Times(s, e) = Cardinality(A) /\ Times(t, e) = Cardinality(B)
    BY DEF Times, A, B
<1> QED BY <1>6, <1>7, <1>8, <1>9, <1>10, <1>11

\* No experience stands twice in an ordered sequence.
LEMMA TimesOnce ==
    ASSUME NEW S, NEW s \in Seq(S), NEW e,
           \A m, n \in 1 .. Len(s) : s[m] = e /\ s[n] = e => m = n
    PROVE  Times(s, e) <= 1
<1> DEFINE A == {n \in 1 .. Len(s) : s[n] = e}
<1>1. CASE A = {}
    <2>1. Times(s, e) = 0
        BY <1>1, FS_EmptySet DEF Times
    <2> QED BY <2>1
<1>2. CASE A # {}
    <2>1. PICK n \in 1 .. Len(s) : A = {n}
        <3>1. PICK n \in A : TRUE
            BY <1>2
        <3>2. \A m \in A : m = n
            BY <3>1
        <3> HIDE DEF A
        <3>3. A = {n}
            BY <3>1, <3>2
        <3>4. n \in 1 .. Len(s)
            BY <3>1 DEF A
        <3> QED BY <3>3, <3>4
    <2>2. Cardinality({n}) = 1
        BY FS_Singleton
    <2>3. Times(s, e) = 1
        BY <2>1, <2>2 DEF Times
    <2> QED BY <2>3
<1> QED BY <1>1, <1>2

\* Nothing stands in the empty sequence.
LEMMA TimesEmpty == \A e : Times(<<>>, e) = 0
<1> SUFFICES ASSUME NEW e PROVE Times(<<>>, e) = 0
    OBVIOUS
<1>1. {n \in 1 .. Len(<<>>) : <<>>[n] = e} = {}
    BY EmptySeq
<1> QED BY <1>1, FS_EmptySet, Zenon DEF Times

\* The experiences of an item.
LEMMA ExpsOfType ==
    ASSUME NEW i \in Item
    PROVE  /\ ExpsOf(i) \in Seq(Exp) /\ Len(ExpsOf(i)) = Size /\ Size \in Nat \ {0}
           /\ \A k \in 1 .. Size : ExpsOf(i)[k] = <<i, k>>
<1>1. Size \in Nat \ {0}
    BY ExpQueueAssumption
<1>2. \A k \in 1 .. Size : <<i, k>> \in Exp
    BY DEF Exp
<1>3. ExpsOf(i) \in Seq(Exp)
    BY <1>1, <1>2 DEF ExpsOf
<1> QED BY <1>1, <1>3 DEF ExpsOf

\* An experience stands once in its item, and not in another.
LEMMA TimesInItem ==
    ASSUME NEW i \in Item, NEW e
    PROVE  Times(ExpsOf(i), e) <= 1 /\ (e[1] # i => Times(ExpsOf(i), e) = 0)
<1>1. /\ ExpsOf(i) \in Seq(Exp) /\ Len(ExpsOf(i)) = Size /\ Size \in Nat
      /\ \A k \in 1 .. Size : ExpsOf(i)[k] = <<i, k>>
    BY ExpsOfType
<1>2. \A m, n \in 1 .. Len(ExpsOf(i)) : ExpsOf(i)[m] = e /\ ExpsOf(i)[n] = e => m = n
    BY <1>1
<1>3. Times(ExpsOf(i), e) <= 1
    BY <1>1, <1>2, TimesOnce
<1>4. ASSUME e[1] # i PROVE Times(ExpsOf(i), e) = 0
    <2>1. {n \in 1 .. Len(ExpsOf(i)) : ExpsOf(i)[n] = e} = {}
        BY <1>1, <1>4
    <2> QED BY <2>1, FS_EmptySet DEF Times
<1> QED BY <1>3, <1>4

\* Whether it stands there at all.
Has(s, e) == \E n \in 1 .. Len(s) : s[n] = e

\* What stands in a concatenation stands in one of its parts.
LEMMA HasConcat ==
    ASSUME NEW S, NEW s \in Seq(S), NEW t \in Seq(S), NEW e
    PROVE  Has(s \o t, e) <=> Has(s, e) \/ Has(t, e)
<1>1. /\ Len(s \o t) = Len(s) + Len(t) /\ Len(s) \in Nat /\ Len(t) \in Nat
      /\ \A n \in 1 .. Len(s) : (s \o t)[n] = s[n]
      /\ \A n \in 1 .. Len(t) : (s \o t)[Len(s) + n] = t[n]
    BY Concat
<1>2. ASSUME Has(s, e) PROVE Has(s \o t, e)
    <2>1. PICK n \in 1 .. Len(s) : s[n] = e
        BY <1>2 DEF Has
    <2>2. n \in 1 .. Len(s \o t) /\ (s \o t)[n] = e
        BY <1>1, <2>1
    <2> QED BY <2>2 DEF Has
<1>3. ASSUME Has(t, e) PROVE Has(s \o t, e)
    <2>1. PICK n \in 1 .. Len(t) : t[n] = e
        BY <1>3 DEF Has
    <2>2. Len(s) + n \in 1 .. Len(s \o t) /\ (s \o t)[Len(s) + n] = e
        BY <1>1, <2>1
    <2> QED BY <2>2 DEF Has
<1>4. ASSUME Has(s \o t, e) PROVE Has(s, e) \/ Has(t, e)
    <2>1. PICK n \in 1 .. Len(s \o t) : (s \o t)[n] = e
        BY <1>4 DEF Has
    <2>2. CASE n <= Len(s)
        <3>1. n \in 1 .. Len(s) /\ s[n] = e
            BY <1>1, <2>1, <2>2
        <3> QED BY <3>1 DEF Has
    <2>3. CASE ~(n <= Len(s))
        <3>1. n - Len(s) \in 1 .. Len(t) /\ Len(s) + (n - Len(s)) = n
            BY <1>1, <2>1, <2>3
        <3>2. t[n - Len(s)] = e
            BY <1>1, <2>1, <3>1
        <3> QED BY <3>1, <3>2 DEF Has
    <2> QED BY <2>2, <2>3
<1> QED BY <1>2, <1>3, <1>4

\* What stands in a sequence is of its type.
LEMMA HasType == ASSUME NEW S, NEW s \in Seq(S), NEW e, Has(s, e) PROVE e \in S
BY ElementOfSeq DEF Has

\* An ascending function runs through all of its set.
LEMMA AscendingPicks ==
    ASSUME NEW S, IsFiniteSet(S), S \subseteq Nat, NEW f \in Ascending(S)
    PROVE  /\ Cardinality(S) \in Nat /\ f \in [1 .. Cardinality(S) -> S]
           /\ \A m, n \in 1 .. Cardinality(S) : m < n => f[m] < f[n]
           /\ \A x \in S : \E n \in 1 .. Cardinality(S) : f[n] = x
<1> DEFINE c == Cardinality(S)
<1>1. c \in Nat
    BY FS_CardinalityType
<1>2. f \in [1 .. c -> S] /\ \A m, n \in 1 .. c : m < n => f[m] < f[n]
    BY DEF Ascending
<1>3. \A m, n \in 1 .. c : f[m] = f[n] => m = n
    <2>1. \A m, n \in 1 .. c : m = n \/ m < n \/ n < m
        BY <1>1
    <2>2. \A m \in 1 .. c : f[m] \in Nat
        BY <1>2
    <2> HIDE DEF c
    <2> QED BY <1>2, <2>1, <2>2
<1>4. f \in Injection(1 .. c, S)
    BY <1>2, <1>3 DEF Injection, IsInjective
<1>5. Cardinality(1 .. c) = c
    BY <1>1, FS_Interval
<1>6. f \in Surjection(1 .. c, S)
    <2> HIDE DEF c
    <2>1. Cardinality(1 .. c) = Cardinality(S)
        BY <1>5 DEF c
    <2> QED BY <1>4, <2>1, FS_Injection
<1> QED BY <1>1, <1>2, <1>6 DEF Surjection

\* What is picked in ascending order is drawn.
LEMMA AtDraws ==
    ASSUME NEW T, NEW s \in Seq(T), NEW S, S \subseteq 1 .. Len(s), NEW f \in Ascending(S)
    PROVE  /\ At(s, f) \in Seq(T) /\ Len(At(s, f)) = Cardinality(S)
           /\ \A n \in 1 .. Cardinality(S) : At(s, f)[n] = s[f[n]]
           /\ Drawn(At(s, f), s)
           /\ \A k \in S : Has(At(s, f), s[k])
<1>1. Len(s) \in Nat /\ s \in [1 .. Len(s) -> T]
    BY LenProperties
<1>2. IsFiniteSet(S) /\ S \subseteq Nat
    <2>1. IsFiniteSet(1 .. Len(s)) /\ 1 .. Len(s) \subseteq Nat
        BY <1>1, FS_Interval
    <2> QED BY <2>1, FS_Subset
<1>3. /\ Cardinality(S) \in Nat /\ f \in [1 .. Cardinality(S) -> S]
      /\ \A m, n \in 1 .. Cardinality(S) : m < n => f[m] < f[n]
      /\ \A x \in S : \E n \in 1 .. Cardinality(S) : f[n] = x
    BY <1>2, AscendingPicks
<1> DEFINE c == Cardinality(S)
<1> HIDE DEF c
<1>4. At(s, f) = [n \in 1 .. c |-> s[f[n]]]
    BY <1>3 DEF At, c
<1>5. \A n \in 1 .. c : f[n] \in 1 .. Len(s) /\ s[f[n]] \in T
    BY <1>1, <1>3 DEF c
<1>6. At(s, f) \in Seq(T) /\ Len(At(s, f)) = c
    BY <1>3, <1>4, <1>5 DEF c
<1>7. \A n \in 1 .. c : At(s, f)[n] = s[f[n]]
    BY <1>4
<1>8. Drawn(At(s, f), s)
    <2>1. f \in [1 .. c -> 1 .. Len(s)]
        BY <1>3, <1>5 DEF c
    <2> QED BY <1>3, <1>6, <1>7, <2>1 DEF Drawn, c
<1>9. ASSUME NEW k \in S PROVE Has(At(s, f), s[k])
    <2>1. PICK n \in 1 .. c : f[n] = k
        BY <1>3 DEF c
    <2> QED BY <1>6, <1>7, <2>1 DEF Has
<1> QED BY <1>6, <1>7, <1>8, <1>9 DEF c

\* A pick from the first n, and all that stands behind these.
LEMMA SplitDraws ==
    ASSUME NEW S, NEW s \in Seq(S), NEW n \in 0 .. Len(s),
           NEW A \in Seq(S), NEW R \in Seq(S), NEW f \in [1 .. Len(A) -> 1 .. n],
           \A j, k \in 1 .. Len(A) : j < k => f[j] < f[k],
           \A k \in 1 .. Len(A) : A[k] = s[f[k]],
           Len(R) = Len(s) - n, \A k \in 1 .. Len(s) - n : R[k] = s[n + k]
    PROVE  Drawn(A \o R, s)
<1>0. Len(s) \in Nat /\ Len(A) \in Nat
    BY LenProperties
<1>1. PICK L \in Nat, c \in Nat : L = Len(s) /\ c = Len(A)
    BY <1>0
<1>2. /\ n \in Nat /\ n <= L /\ f \in [1 .. c -> 1 .. n]
      /\ \A j, k \in 1 .. c : j < k => f[j] < f[k]
      /\ \A k \in 1 .. c : A[k] = s[f[k]]
      /\ \A k \in 1 .. L - n : R[k] = s[n + k]
    BY <1>1
<1> DEFINE g == [k \in 1 .. c + (L - n) |-> IF k <= c THEN f[k] ELSE n + (k - c)]
<1>7. /\ Len(A \o R) = c + (L - n)
      /\ \A k \in 1 .. c : (A \o R)[k] = A[k]
      /\ \A k \in 1 .. L - n : (A \o R)[c + k] = R[k]
    <2>1. Len(A) = c /\ Len(R) = L - n
        BY <1>1
    <2>2. /\ Len(A \o R) = Len(A) + Len(R)
          /\ \A k \in 1 .. Len(A) : (A \o R)[k] = A[k]
          /\ \A k \in 1 .. Len(R) : (A \o R)[Len(A) + k] = R[k]
        <3>1. Len(A \o R) = Len(A) + Len(R)
            BY Concat
        <3>2. \A k \in 1 .. Len(A) : (A \o R)[k] = A[k]
            BY Concat
        <3>3. \A k \in 1 .. Len(R) : (A \o R)[Len(A) + k] = R[k]
            BY Concat
        <3> QED BY <3>1, <3>2, <3>3
    <2> QED BY <2>1, <2>2
<1>8. \A k \in 1 .. c : f[k] \in 1 .. n /\ f[k] \in 1 .. L
    BY <1>2
<1>9. \A k \in 1 .. c + (L - n) : k \in 1 .. c \/ (~(k <= c) /\ k - c \in 1 .. L - n /\ k = c + (k - c))
    BY <1>2
<1>10. \A k \in 1 .. c + (L - n) : g[k] = IF k <= c THEN f[k] ELSE n + (k - c)
    OBVIOUS
<1>11. \A k \in 1 .. c + (L - n) : g[k] \in 1 .. L
    <2> HIDE DEF g
    <2> QED BY <1>2, <1>8, <1>9, <1>10
<1>12. g \in [1 .. c + (L - n) -> 1 .. L]
    BY <1>11
<1> HIDE DEF g
<1>13. ASSUME NEW j \in 1 .. c + (L - n), NEW k \in 1 .. c + (L - n), j < k PROVE g[j] < g[k]
    <2>1. CASE k <= c
        <3>1. j \in 1 .. c /\ k \in 1 .. c /\ j <= c
            BY <1>2, <1>13, <2>1
        <3> QED BY <1>2, <1>10, <1>13, <2>1, <3>1
    <2>2. CASE ~(k <= c) /\ j <= c
        <3>1. j \in 1 .. c
            BY <1>2, <2>2
        <3>2. g[j] = f[j] /\ g[k] = n + (k - c)
            BY <1>10, <2>2
        <3>3. g[j] \in 1 .. n
            BY <1>8, <3>1, <3>2
        <3>4. k - c \in Nat /\ k - c > 0
            BY <1>2, <2>2
        <3> QED BY <1>2, <3>2, <3>3, <3>4
    <2>3. CASE ~(k <= c) /\ ~(j <= c)
        <3>1. g[j] = n + (j - c) /\ g[k] = n + (k - c)
            BY <1>10, <2>3
        <3> QED BY <1>2, <1>13, <3>1
    <2>4. j <= c \/ ~(j <= c)
        OBVIOUS
    <2> QED BY <2>1, <2>2, <2>3, <2>4
<1>14. ASSUME NEW k \in 1 .. c + (L - n) PROVE (A \o R)[k] = s[g[k]]
    <2>1. CASE k \in 1 .. c
        <3>1. g[k] = f[k]
            BY <1>2, <1>10, <2>1
        <3> QED BY <1>2, <1>7, <2>1, <3>1
    <2>2. CASE ~(k <= c) /\ k - c \in 1 .. L - n /\ k = c + (k - c)
        <3>1. (A \o R)[c + (k - c)] = R[k - c] /\ R[k - c] = s[n + (k - c)]
            BY <1>2, <1>7, <2>2
        <3>2. g[k] = n + (k - c)
            BY <1>10, <2>2
        <3> QED BY <2>2, <3>1, <3>2
    <2> QED BY <1>9, <2>1, <2>2
<1>15. /\ g \in [1 .. Len(A \o R) -> 1 .. Len(s)]
       /\ \A j, k \in 1 .. Len(A \o R) : j < k => g[j] < g[k]
       /\ \A k \in 1 .. Len(A \o R) : (A \o R)[k] = s[g[k]]
    BY <1>1, <1>7, <1>12, <1>13, <1>14
<1> QED BY <1>15, Zenon DEF Drawn

\* The rest of a sequence.
LEMMA RestOf ==
    ASSUME NEW S, NEW s \in Seq(S), NEW n \in 0 .. Len(s)
    PROVE  /\ SubSeq(s, n + 1, Len(s)) \in Seq(S)
           /\ Len(SubSeq(s, n + 1, Len(s))) = Len(s) - n
           /\ \A k \in 1 .. Len(s) - n : SubSeq(s, n + 1, Len(s))[k] = s[n + k]
<1>1. Len(s) \in Nat /\ n \in Nat /\ n <= Len(s) /\ \A i \in 1 .. Len(s) : s[i] \in S
    BY LenProperties, ElementOfSeq
<1>2. \A i \in n + 1 .. Len(s) : s[i] \in S
    BY <1>1
<1>3. /\ SubSeq(s, n + 1, Len(s)) \in Seq(S)
      /\ Len(SubSeq(s, n + 1, Len(s))) = IF n + 1 <= Len(s) THEN Len(s) - (n + 1) + 1 ELSE 0
      /\ \A i \in 1 .. Len(s) - (n + 1) + 1 : SubSeq(s, n + 1, Len(s))[i] = s[(n + 1) + i - 1]
    BY <1>1, <1>2, SubSeqProperties
<1>4. ASSUME NEW k \in 1 .. Len(s) - n PROVE SubSeq(s, n + 1, Len(s))[k] = s[n + k]
    <2>1. k \in 1 .. Len(s) - (n + 1) + 1 /\ (n + 1) + k - 1 = n + k
        BY <1>1
    <2> QED BY <1>3, <2>1
<1>5. (IF n + 1 <= Len(s) THEN Len(s) - (n + 1) + 1 ELSE 0) = Len(s) - n
    BY <1>1
<1> QED BY <1>3, <1>4, <1>5

\* The fresh ones of the first n of the pool, and what stands behind these.
LEMMA PoolDraws ==
    ASSUME NEW pool \in Seq(Exp), NEW min, NEW n \in 0 .. Len(pool),
           NEW f \in Ascending({m \in 1 .. n : Fresh(pool[m], min)})
    PROVE  /\ At(pool, f) \in Seq(Exp) /\ SubSeq(pool, n + 1, Len(pool)) \in Seq(Exp)
           /\ Drawn(At(pool, f) \o SubSeq(pool, n + 1, Len(pool)), pool)
           /\ \A e : Has(pool, e) /\ Fresh(e, min)
                        => Has(At(pool, f) \o SubSeq(pool, n + 1, Len(pool)), e)
<1>1. Len(pool) \in Nat /\ n \in Nat /\ n <= Len(pool)
    BY LenProperties
<1>2. PICK K : K = {m \in 1 .. n : Fresh(pool[m], min)}
    OBVIOUS
<1>3. f \in Ascending(K) /\ K \subseteq 1 .. n /\ K \subseteq 1 .. Len(pool) /\ K \subseteq Nat
    BY <1>1, <1>2
<1>4. IsFiniteSet(1 .. n)
    BY <1>1, FS_Interval
<1>5. IsFiniteSet(K)
    BY <1>3, <1>4, FS_Subset
<1>6. /\ f \in [1 .. Cardinality(K) -> K]
      /\ \A j, k \in 1 .. Cardinality(K) : j < k => f[j] < f[k]
    BY <1>3, <1>5, AscendingPicks
<1>7. /\ At(pool, f) \in Seq(Exp) /\ Len(At(pool, f)) = Cardinality(K)
      /\ \A k \in 1 .. Cardinality(K) : At(pool, f)[k] = pool[f[k]]
      /\ \A k \in K : Has(At(pool, f), pool[k])
    <2>1. At(pool, f) \in Seq(Exp)
        BY <1>3, AtDraws
    <2>2. Len(At(pool, f)) = Cardinality(K)
        BY <1>3, AtDraws, ZenonT(40)
    <2>3. \A k \in 1 .. Cardinality(K) : At(pool, f)[k] = pool[f[k]]
        <3>1. DOMAIN f = 1 .. Cardinality(K)
            BY <1>6
        <3> QED BY <3>1, Zenon DEF At
    <2>4. \A k \in K : Has(At(pool, f), pool[k])
        BY <1>3, AtDraws
    <2> QED BY <2>1, <2>2, <2>3, <2>4
<1>8. PICK A : A = At(pool, f)
    OBVIOUS
<1>9. PICK R : R = SubSeq(pool, n + 1, Len(pool))
    OBVIOUS
<1>10. /\ A \in Seq(Exp) /\ f \in [1 .. Len(A) -> 1 .. n]
       /\ \A j, k \in 1 .. Len(A) : j < k => f[j] < f[k]
       /\ \A k \in 1 .. Len(A) : A[k] = pool[f[k]]
       /\ \A k \in K : Has(A, pool[k])
    BY <1>3, <1>6, <1>7, <1>8
<1>11. /\ R \in Seq(Exp) /\ Len(R) = Len(pool) - n
       /\ \A k \in 1 .. Len(pool) - n : R[k] = pool[n + k]
    BY <1>9, RestOf
<1>12. Drawn(A \o R, pool)
    BY <1>10, <1>11, SplitDraws
<1>13. ASSUME NEW e, Has(pool, e), Fresh(e, min) PROVE Has(A \o R, e)
    <2>1. PICK k \in 1 .. Len(pool) : pool[k] = e
        BY <1>13 DEF Has
    <2>2. CASE k <= n
        <3>1. k \in K
            BY <1>1, <1>2, <1>13, <2>1, <2>2
        <3>2. Has(A, e)
            BY <1>10, <2>1, <3>1
        <3> QED BY <1>10, <1>11, <3>2, HasConcat
    <2>3. CASE ~(k <= n)
        <3>1. k - n \in 1 .. Len(pool) - n /\ n + (k - n) = k
            BY <1>1, <2>3
        <3>2. R[k - n] = e
            BY <1>11, <2>1, <3>1
        <3>3. Has(R, e)
            BY <1>11, <3>1, <3>2 DEF Has
        <3> QED BY <1>10, <1>11, <3>3, HasConcat
    <2> QED BY <2>2, <2>3
<1> QED BY <1>8, <1>9, <1>10, <1>11, <1>12, <1>13

\* Moving from the pool to the result keeps the order and drops only what is stale.
LEMMA FillDraws ==
    ASSUME NEW pool \in Seq(Exp), NEW result \in Seq(Exp), NEW min,
           NEW filled \in Fill(pool, result, min)
    PROVE  /\ filled.result \in Seq(Exp) /\ filled.pool \in Seq(Exp)
           /\ Drawn(filled.result \o filled.pool, result \o pool)
           /\ \A e : Has(result, e) \/ (Has(pool, e) /\ Fresh(e, min))
                        => Has(filled.result \o filled.pool, e)
<1>1. PICK n \in 0 .. Len(pool) : \E f \in Ascending({m \in 1 .. n : Fresh(pool[m], min)}) :
          filled = [result |-> result \o At(pool, f), pool |-> SubSeq(pool, n + 1, Len(pool))]
    BY DEF Fill
<1>2. PICK f \in Ascending({m \in 1 .. n : Fresh(pool[m], min)}) :
          filled = [result |-> result \o At(pool, f), pool |-> SubSeq(pool, n + 1, Len(pool))]
    BY <1>1
<1> DEFINE A == At(pool, f)  R == SubSeq(pool, n + 1, Len(pool))
<1>3. /\ A \in Seq(Exp) /\ R \in Seq(Exp) /\ Drawn(A \o R, pool)
      /\ \A e : Has(pool, e) /\ Fresh(e, min) => Has(A \o R, e)
    BY PoolDraws
<1>4. filled.result = result \o A /\ filled.pool = R
    BY <1>2
<1> HIDE DEF A, R
<1>5. result \o A \in Seq(Exp) /\ A \o R \in Seq(Exp)
    BY <1>3, Concat
<1>6. (result \o A) \o R = result \o (A \o R)
    BY <1>3, ConcatAssociative, SMTT(60)
<1>7. Drawn(result \o (A \o R), result \o pool)
    BY <1>3, <1>5, DrawnBehind
<1>8. \A e : Has(result, e) \/ (Has(pool, e) /\ Fresh(e, min)) => Has(result \o (A \o R), e)
    BY <1>3, <1>5, HasConcat
<1> QED BY <1>3, <1>4, <1>5, <1>6, <1>7, <1>8

\* What stands in a drawn sequence stands in the other.
LEMMA HasDrawn ==
    ASSUME NEW s, NEW t, NEW e, Drawn(s, t), Has(s, e)
    PROVE  Has(t, e)
<1>1. PICK f \in [1 .. Len(s) -> 1 .. Len(t)] : \A n \in 1 .. Len(s) : s[n] = t[f[n]]
    BY DEF Drawn
<1>2. PICK n \in 1 .. Len(s) : s[n] = e
    BY DEF Has
<1>3. f[n] \in 1 .. Len(t) /\ t[f[n]] = e
    BY <1>1, <1>2
<1> QED BY <1>3 DEF Has

\* Concatenation of experiences is associative.
LEMMA ConcatAgain == \A s, t, u \in Seq(Exp) : (s \o t) \o u = s \o (t \o u)
BY ConcatAssociative

-----------------------------------------------------------------------------
(* What is handed out or held.                                             *)

\* Experiences handed out, and then those that the reader holds.
Handed == delivered \o (reader.result \o exp_pool)

\* The head of get_batch's loop moves experiences from pool to result to batch: it keeps
\* their order, loses no fresh one, and hands out nothing but a full batch.
LEMMA LoopDraws ==
    ASSUME delivered \in Seq(Exp), NEW pool \in Seq(Exp), NEW result \in Seq(Exp),
           NEW min \in 0 .. MaxVersion, Loop(pool, result, min)
    PROVE  /\ exp_pool' \in Seq(Exp) /\ delivered' \in Seq(Exp)
           /\ reader' \in [pc : {"idle", "get", "stopped", "failed"}, result : Seq(Exp), min : 0 .. MaxVersion]
           /\ reader'.min = min /\ (reader'.pc # "get" => reader'.result = <<>>)
           /\ Drawn(Handed', delivered \o (result \o pool))
           /\ reader'.pc \in {"idle", "get"} =>
                \A e : Has(delivered, e) \/ Has(result, e) \/ (Has(pool, e) /\ Fresh(e, min))
                            => Has(Handed', e)
           /\ \/ delivered' = delivered
              \/ \E b \in Seq(Exp) : /\ delivered' = delivered \o b /\ Len(b) = BatchSize
                                     /\ reader'.pc = "idle"
                                     /\ \A e : Has(b, e) => Has(result, e) \/ Has(pool, e)
<1>1. PICK filled \in Fill(pool, result, min) :
        /\ exp_pool' = filled.pool
        /\ \/ /\ Len(filled.result) = BatchSize
              /\ delivered' = delivered \o filled.result
              /\ reader' = [pc |-> "idle", result |-> <<>>, min |-> min]
           \/ /\ Len(filled.result) < BatchSize
              /\ reader' = IF closed /\ queue' = <<>>
                           THEN [pc |-> "stopped", result |-> <<>>, min |-> min]
                           ELSE [pc |-> "get", result |-> filled.result, min |-> min]
              /\ UNCHANGED delivered
    BY DEF Loop
<1>2. PICK F : F = filled.result
    OBVIOUS
<1>3. PICK P : P = filled.pool
    OBVIOUS
<1>4. /\ F \in Seq(Exp) /\ P \in Seq(Exp) /\ Drawn(F \o P, result \o pool)
      /\ \A e : Has(result, e) \/ (Has(pool, e) /\ Fresh(e, min)) => Has(F \o P, e)
    BY <1>2, <1>3, FillDraws
<1>5. /\ F \o P \in Seq(Exp) /\ result \o pool \in Seq(Exp) /\ <<>> \in Seq(Exp)
      /\ delivered \o F \in Seq(Exp)
    BY <1>4, Concat
<1>6. Drawn(delivered \o (F \o P), delivered \o (result \o pool))
    BY <1>4, <1>5, DrawnBehind
<1>7. \A e : Has(delivered, e) \/ Has(result, e) \/ (Has(pool, e) /\ Fresh(e, min))
                => Has(delivered \o (F \o P), e)
    BY <1>4, <1>5, HasConcat
<1>8. \A e : Has(F, e) => Has(result, e) \/ Has(pool, e)
    <2> SUFFICES ASSUME NEW e, Has(F, e) PROVE Has(result, e) \/ Has(pool, e)
        OBVIOUS
    <2>1. Has(F \o P, e)
        BY <1>4, HasConcat
    <2>2. Has(result \o pool, e)
        BY <1>4, <2>1, HasDrawn
    <2> QED BY <2>2, HasConcat
<1>9. <<>> \o P = P
    BY <1>4, ConcatEmptySeq
<1>10. (delivered \o F) \o P = delivered \o (F \o P)
    BY <1>4, ConcatAgain, SMTT(60)
<1>11. CASE /\ Len(F) = BatchSize /\ delivered' = delivered \o F
            /\ reader' = [pc |-> "idle", result |-> <<>>, min |-> min]
    <2>1. /\ reader'.pc = "idle" /\ reader'.result = <<>> /\ reader'.min = min
          /\ reader' \in [pc : {"idle", "get", "stopped", "failed"}, result : Seq(Exp), min : 0 .. MaxVersion]
        BY <1>5, <1>11
    <2>2. Handed' = delivered \o (F \o P)
        BY <1>1, <1>3, <1>9, <1>10, <1>11, <2>1 DEF Handed
    <2> QED BY <1>1, <1>3, <1>4, <1>5, <1>6, <1>7, <1>8, <1>11, <2>1, <2>2
<1>12. CASE /\ delivered' = delivered
            /\ reader' = [pc |-> "stopped", result |-> <<>>, min |-> min]
    <2>1. /\ reader'.pc = "stopped" /\ reader'.result = <<>> /\ reader'.min = min
          /\ reader' \in [pc : {"idle", "get", "stopped", "failed"}, result : Seq(Exp), min : 0 .. MaxVersion]
        BY <1>5, <1>12
    <2>2. Handed' = delivered \o P
        BY <1>1, <1>3, <1>9, <1>12, <2>1 DEF Handed
    <2>3. Drawn(P, F \o P)
        BY <1>4, DrawnTail
    <2>4. Drawn(delivered \o P, delivered \o (F \o P))
        BY <1>4, <1>5, <2>3, DrawnBehind
    <2>5. Drawn(Handed', delivered \o (result \o pool))
        BY <1>6, <2>2, <2>4, DrawnTwice
    <2> QED BY <1>1, <1>3, <1>4, <1>12, <2>1, <2>5
<1>13. CASE /\ delivered' = delivered
            /\ reader' = [pc |-> "get", result |-> F, min |-> min]
    <2>1. /\ reader'.pc = "get" /\ reader'.result = F /\ reader'.min = min
          /\ reader' \in [pc : {"idle", "get", "stopped", "failed"}, result : Seq(Exp), min : 0 .. MaxVersion]
        BY <1>4, <1>13
    <2>2. Handed' = delivered \o (F \o P)
        BY <1>1, <1>3, <1>13, <2>1 DEF Handed
    <2> QED BY <1>1, <1>3, <1>4, <1>6, <1>7, <1>13, <2>1, <2>2
<1> QED BY <1>1, <1>2, <1>11, <1>12, <1>13

-----------------------------------------------------------------------------
(* Distinct elements, positions and order.                                 *)

\* No element stands twice.
Once(s) == \A m, n \in 1 .. Len(s) : s[m] = s[n] => m = n

\* What is drawn from distinct elements is distinct.
LEMMA OnceDrawn ==
    ASSUME NEW S, NEW s \in Seq(S), NEW t, Drawn(s, t), Once(t)
    PROVE  Once(s)
<1>1. PICK f \in [1 .. Len(s) -> 1 .. Len(t)] :
          /\ \A m, n \in 1 .. Len(s) : m < n => f[m] < f[n]
          /\ \A n \in 1 .. Len(s) : s[n] = t[f[n]]
    BY DEF Drawn
<1>2. Len(s) \in Nat
    BY LenProperties
<1>3. SUFFICES ASSUME NEW m \in 1 .. Len(s), NEW n \in 1 .. Len(s), s[m] = s[n]
               PROVE  m = n
    BY DEF Once
<1>4. f[m] = f[n]
    <2>1. f[m] \in 1 .. Len(t) /\ f[n] \in 1 .. Len(t)
        BY <1>1
    <2>2. t[f[m]] = t[f[n]]
        BY <1>1, <1>3
    <2> QED BY <2>1, <2>2 DEF Once
<1>5. ~(m < n) /\ ~(n < m)
    <2>1. f[m] \in Int
        BY <1>1
    <2>2. ~(f[m] < f[n]) /\ ~(f[n] < f[m])
        BY <1>4, <2>1
    <2> QED BY <1>1, <2>2
<1> QED BY <1>2, <1>5

\* What SMT is to know of Append.
LEMMA AppendIs ==
    ASSUME NEW S, NEW s \in Seq(S), NEW x \in S
    PROVE  /\ Append(s, x) \in Seq(S) /\ Len(Append(s, x)) = Len(s) + 1 /\ Len(s) \in Nat
           /\ \A n \in 1 .. Len(s) : Append(s, x)[n] = s[n]
           /\ Append(s, x)[Len(s) + 1] = x
           /\ \A n \in 1 .. Len(s) + 1 : n \in 1 .. Len(s) \/ n = Len(s) + 1
           /\ 1 .. Len(s) \subseteq 1 .. Len(s) + 1 /\ Len(s) + 1 \in 1 .. Len(s) + 1
<1>1. Len(s) \in Nat
    BY LenProperties
<1> QED BY <1>1, AppendProperties

\* A new element at the end leaves the elements distinct.
LEMMA OnceAppend ==
    ASSUME NEW S, NEW s \in Seq(S), NEW x \in S, Once(s), ~Has(s, x)
    PROVE  Once(Append(s, x))
<1>1. /\ Append(s, x) \in Seq(S) /\ Len(Append(s, x)) = Len(s) + 1 /\ Len(s) \in Nat
      /\ \A n \in 1 .. Len(s) : Append(s, x)[n] = s[n]
      /\ Append(s, x)[Len(s) + 1] = x
      /\ \A n \in 1 .. Len(s) + 1 : n \in 1 .. Len(s) \/ n = Len(s) + 1
    BY AppendIs
<1>2. \A n \in 1 .. Len(s) : s[n] # x
    BY DEF Has
<1>3. \A m, n \in 1 .. Len(s) : s[m] = s[n] => m = n
    BY DEF Once
<1>4. SUFFICES ASSUME NEW m \in 1 .. Len(s) + 1, NEW n \in 1 .. Len(s) + 1,
                      Append(s, x)[m] = Append(s, x)[n]
               PROVE  m = n
    BY <1>1 DEF Once
<1>5. (m \in 1 .. Len(s) \/ m = Len(s) + 1) /\ (n \in 1 .. Len(s) \/ n = Len(s) + 1)
    BY <1>1
<1> QED BY <1>1, <1>2, <1>3, <1>4, <1>5

\* What stands in the sequence after an append.
LEMMA HasAppend ==
    ASSUME NEW S, NEW s \in Seq(S), NEW x \in S, NEW e
    PROVE  Has(Append(s, x), e) <=> Has(s, e) \/ e = x
<1>1. /\ Append(s, x) \in Seq(S) /\ Len(Append(s, x)) = Len(s) + 1 /\ Len(s) \in Nat
      /\ \A n \in 1 .. Len(s) : Append(s, x)[n] = s[n]
      /\ Append(s, x)[Len(s) + 1] = x
      /\ \A n \in 1 .. Len(s) + 1 : n \in 1 .. Len(s) \/ n = Len(s) + 1
      /\ 1 .. Len(s) \subseteq 1 .. Len(s) + 1 /\ Len(s) + 1 \in 1 .. Len(s) + 1
    BY AppendIs
<1>2. ASSUME Has(s, e) PROVE Has(Append(s, x), e)
    <2>1. PICK n \in 1 .. Len(s) : s[n] = e
        BY <1>2 DEF Has
    <2>2. n \in 1 .. Len(Append(s, x)) /\ Append(s, x)[n] = e
        BY <1>1, <2>1
    <2> QED BY <2>2 DEF Has
<1>3. ASSUME e = x PROVE Has(Append(s, x), e)
    <2>1. Len(s) + 1 \in 1 .. Len(Append(s, x)) /\ Append(s, x)[Len(s) + 1] = e
        BY <1>1, <1>3
    <2> QED BY <2>1 DEF Has
<1>4. ASSUME Has(Append(s, x), e) PROVE Has(s, e) \/ e = x
    <2>1. PICK n \in 1 .. Len(s) + 1 : Append(s, x)[n] = e
        BY <1>1, <1>4 DEF Has
    <2>2. n \in 1 .. Len(s) \/ n = Len(s) + 1
        BY <1>1
    <2>3. CASE n \in 1 .. Len(s)
        <3>1. s[n] = e
            BY <1>1, <2>1, <2>3
        <3> QED BY <2>3, <3>1 DEF Has
    <2>4. CASE n = Len(s) + 1
        BY <1>1, <2>1, <2>4
    <2> QED BY <2>2, <2>3, <2>4
<1> QED BY <1>2, <1>3, <1>4

\* Where an item was accepted.
Pos(a, i) == CHOOSE n \in DOMAIN a : a[n] = i

\* The position of an item that was accepted.
LEMMA PosType ==
    ASSUME NEW S, NEW a \in Seq(S), NEW i, Has(a, i)
    PROVE  Pos(a, i) \in 1 .. Len(a) /\ a[Pos(a, i)] = i
<1>1. DOMAIN a = 1 .. Len(a)
    BY LenProperties
<1>2. \E n \in DOMAIN a : a[n] = i
    BY <1>1 DEF Has
<1>3. Pos(a, i) \in DOMAIN a /\ a[Pos(a, i)] = i
    BY <1>2, Zenon DEF Pos
<1> QED BY <1>1, <1>3

\* One more accepted item: the others stay where they are, before it.
LEMMA PosAppend ==
    ASSUME NEW S, NEW a \in Seq(S), NEW x \in S, Once(a), ~Has(a, x)
    PROVE  /\ \A i : Has(a, i) => Pos(Append(a, x), i) = Pos(a, i)
           /\ \A i : Has(a, i) => Pos(a, i) < Pos(Append(a, x), x)
           /\ \A i : Has(a, i) => Pos(a, i) \in Nat
<1> DEFINE b == Append(a, x)
<1>1. /\ b \in Seq(S) /\ Len(b) = Len(a) + 1 /\ Len(a) \in Nat
      /\ \A n \in 1 .. Len(a) : b[n] = a[n]
      /\ b[Len(a) + 1] = x
      /\ 1 .. Len(a) \subseteq 1 .. Len(a) + 1 /\ Len(a) + 1 \in 1 .. Len(a) + 1
    BY AppendIs
<1>2. Once(b)
    BY OnceAppend
<1>3. Has(b, x) /\ \A i : Has(a, i) => Has(b, i)
    BY HasAppend
<1> HIDE DEF b
<1>4. Pos(b, x) = Len(a) + 1
    <2>1. Pos(b, x) \in 1 .. Len(b) /\ b[Pos(b, x)] = x
        BY <1>1, <1>3, PosType
    <2> QED BY <1>1, <1>2, <2>1 DEF Once
<1>5. ASSUME NEW i, Has(a, i)
      PROVE  Pos(b, i) = Pos(a, i) /\ Pos(a, i) \in Nat /\ Pos(a, i) < Pos(b, x)
    <2>1. Pos(a, i) \in 1 .. Len(a) /\ a[Pos(a, i)] = i
        BY <1>5, PosType
    <2>2. Pos(b, i) \in 1 .. Len(b) /\ b[Pos(b, i)] = i
        BY <1>1, <1>3, <1>5, PosType
    <2>3. Pos(a, i) \in 1 .. Len(b) /\ b[Pos(a, i)] = i
        BY <1>1, <2>1
    <2>4. Pos(b, i) = Pos(a, i)
        BY <1>2, <2>2, <2>3 DEF Once
    <2> QED BY <1>1, <1>4, <2>1, <2>4
<1> QED BY <1>5 DEF b

\* An experience before another: of an item that was accepted before, or before it in its item.
Earlier(a, d, e) ==
    \/ Pos(a, d[1]) < Pos(a, e[1])
    \/ Pos(a, d[1]) = Pos(a, e[1]) /\ d[2] < e[2]

Sorted(a, s) == \A m, n \in 1 .. Len(s) : m < n => Earlier(a, s[m], s[n])

\* What is drawn from a sorted sequence is sorted.
LEMMA SortedDrawn ==
    ASSUME NEW a, NEW s, NEW t, Drawn(s, t), Sorted(a, t)
    PROVE  Sorted(a, s)
<1>1. PICK f \in [1 .. Len(s) -> 1 .. Len(t)] :
          /\ \A m, n \in 1 .. Len(s) : m < n => f[m] < f[n]
          /\ \A n \in 1 .. Len(s) : s[n] = t[f[n]]
    BY DEF Drawn
<1>2. SUFFICES ASSUME NEW m \in 1 .. Len(s), NEW n \in 1 .. Len(s), m < n
               PROVE  Earlier(a, s[m], s[n])
    BY DEF Sorted
<1>3. f[m] < f[n] /\ f[m] \in 1 .. Len(t) /\ f[n] \in 1 .. Len(t)
    BY <1>1, <1>2
<1>4. Earlier(a, t[f[m]], t[f[n]])
    BY <1>3 DEF Sorted
<1> QED BY <1>1, <1>4

\* Two sorted sequences, the first before the second.
LEMMA SortedConcat ==
    ASSUME NEW S, NEW a, NEW s \in Seq(S), NEW t \in Seq(S), Sorted(a, s), Sorted(a, t),
           \A m \in 1 .. Len(s), n \in 1 .. Len(t) : Earlier(a, s[m], t[n])
    PROVE  Sorted(a, s \o t)
<1>0. /\ Len(s \o t) = Len(s) + Len(t) /\ Len(s) \in Nat /\ Len(t) \in Nat
      /\ \A n \in 1 .. Len(s) : (s \o t)[n] = s[n]
      /\ \A n \in 1 .. Len(t) : (s \o t)[Len(s) + n] = t[n]
    BY Concat
<1>1. PICK L \in Nat, K \in Nat : L = Len(s) /\ K = Len(t)
    BY <1>0
<1>2. /\ Len(s \o t) = L + K
      /\ \A n \in 1 .. L : (s \o t)[n] = s[n]
      /\ \A n \in 1 .. K : (s \o t)[L + n] = t[n]
    BY <1>0, <1>1
<1>3. SUFFICES ASSUME NEW m \in 1 .. L + K, NEW n \in 1 .. L + K, m < n
               PROVE  Earlier(a, (s \o t)[m], (s \o t)[n])
    BY <1>2 DEF Sorted
<1>4. CASE n \in 1 .. L
    <2>1. m \in 1 .. L
        BY <1>1, <1>3, <1>4
    <2>2. Earlier(a, s[m], s[n])
        BY <1>1, <1>3, <1>4, <2>1 DEF Sorted
    <2> QED BY <1>2, <1>4, <2>1, <2>2
<1>5. CASE ~(n \in 1 .. L) /\ m \in 1 .. L
    <2>1. n - L \in 1 .. K /\ n = L + (n - L)
        BY <1>1, <1>3, <1>5
    <2>2. Earlier(a, s[m], t[n - L])
        BY <1>1, <1>5, <2>1
    <2>3. (s \o t)[L + (n - L)] = t[n - L]
        BY <1>2, <2>1
    <2> QED BY <1>2, <1>5, <2>1, <2>2, <2>3
<1>6. CASE ~(n \in 1 .. L) /\ ~(m \in 1 .. L)
    <2>1. n - L \in 1 .. K /\ n = L + (n - L) /\ m - L \in 1 .. K /\ m = L + (m - L) /\ m - L < n - L
        BY <1>1, <1>3, <1>6
    <2>2. Earlier(a, t[m - L], t[n - L])
        BY <1>1, <2>1 DEF Sorted
    <2>3. (s \o t)[L + (n - L)] = t[n - L] /\ (s \o t)[L + (m - L)] = t[m - L]
        BY <1>2, <2>1
    <2> QED BY <2>1, <2>2, <2>3
<1> QED BY <1>4, <1>5, <1>6

\* The experiences of an item are sorted.
LEMMA SortedItem ==
    ASSUME NEW a, NEW i \in Item
    PROVE  Sorted(a, ExpsOf(i))
<1>1. /\ Len(ExpsOf(i)) = Size /\ \A k \in 1 .. Size : ExpsOf(i)[k] = <<i, k>>
    BY ExpsOfType
<1>2. SUFFICES ASSUME NEW m \in 1 .. Size, NEW n \in 1 .. Size, m < n
               PROVE  Earlier(a, ExpsOf(i)[m], ExpsOf(i)[n])
    BY <1>1 DEF Sorted
<1> QED BY <1>1, <1>2 DEF Earlier

\* More items accepted: what was sorted stays so.
LEMMA SortedAppend ==
    ASSUME NEW S, NEW a \in Seq(S), NEW x \in S, Once(a), ~Has(a, x), NEW s,
           \A n \in 1 .. Len(s) : Has(a, s[n][1]), Sorted(a, s)
    PROVE  Sorted(Append(a, x), s)
<1>1. \A i : Has(a, i) => Pos(Append(a, x), i) = Pos(a, i)
    BY PosAppend
<1>2. \A n \in 1 .. Len(s) : Pos(Append(a, x), s[n][1]) = Pos(a, s[n][1])
    BY <1>1
<1> QED BY <1>2 DEF Sorted, Earlier

\* In a sorted sequence each experience stands once.
LEMMA SortedOnce ==
    ASSUME NEW a \in Seq(Item), NEW s \in Seq(Exp), Sorted(a, s),
           \A n \in 1 .. Len(s) : Has(a, s[n][1])
    PROVE  \A e : Times(s, e) <= 1
<1>1. Len(s) \in Nat
    BY LenProperties
<1>2. \A n \in 1 .. Len(s) : s[n] \in Exp /\ s[n][2] \in Nat /\ Pos(a, s[n][1]) \in Nat
    <2> TAKE n \in 1 .. Len(s)
    <2>1. s[n] \in Exp
        BY ElementOfSeq
    <2>2. s[n][2] \in Nat
        BY <2>1, ExpQueueAssumption DEF Exp
    <2>3. Pos(a, s[n][1]) \in 1 .. Len(a) /\ Len(a) \in Nat
        BY PosType, LenProperties
    <2> QED BY <2>1, <2>2, <2>3
<1>3. ASSUME NEW m \in 1 .. Len(s), NEW n \in 1 .. Len(s), m < n PROVE s[m] # s[n]
    <2>1. Earlier(a, s[m], s[n])
        BY <1>3 DEF Sorted
    <2>2. ASSUME s[m] = s[n] PROVE FALSE
        <3>1. Pos(a, s[m][1]) = Pos(a, s[n][1]) /\ s[m][2] = s[n][2]
            BY <2>2
        <3> QED BY <1>2, <2>1, <3>1 DEF Earlier
    <2> QED BY <2>2
<1>4. \A m, n \in 1 .. Len(s) : m = n \/ m < n \/ n < m
    BY <1>1
<1> SUFFICES ASSUME NEW e PROVE Times(s, e) <= 1
    OBVIOUS
<1>5. \A m, n \in 1 .. Len(s) : s[m] = e /\ s[n] = e => m = n
    BY <1>3, <1>4
<1> QED BY <1>5, TimesOnce

\* RemoveAt keeps the order of the others.
LEMMA RemoveDraws ==
    ASSUME NEW S, NEW s \in Seq(S), NEW n \in 1 .. Len(s)
    PROVE  /\ RemoveAt(s, n) \in Seq(S) /\ Len(RemoveAt(s, n)) = Len(s) - 1
           /\ Drawn(RemoveAt(s, n), s)
<1>1. Len(s) \in Nat /\ n \in Nat /\ n >= 1 /\ n <= Len(s) /\ \A i \in 1 .. Len(s) : s[i] \in S
    BY LenProperties, ElementOfSeq
<1>2. PICK A : A = SubSeq(s, 1, n - 1)
    OBVIOUS
<1>3. PICK R : R = SubSeq(s, n + 1, Len(s))
    OBVIOUS
<1>4. /\ R \in Seq(S) /\ Len(R) = Len(s) - n /\ \A k \in 1 .. Len(s) - n : R[k] = s[n + k]
    <2>1. n \in 0 .. Len(s)
        BY <1>1
    <2> QED BY <1>3, <2>1, RestOf
<1>5. /\ A \in Seq(S) /\ Len(A) = n - 1 /\ \A k \in 1 .. n - 1 : A[k] = s[k]
    <2>1. 1 \in Int /\ n - 1 \in Int /\ \A i \in 1 .. n - 1 : s[i] \in S
        BY <1>1
    <2>2. /\ SubSeq(s, 1, n - 1) \in Seq(S)
          /\ Len(SubSeq(s, 1, n - 1)) = IF 1 <= n - 1 THEN (n - 1) - 1 + 1 ELSE 0
          /\ \A i \in 1 .. (n - 1) - 1 + 1 : SubSeq(s, 1, n - 1)[i] = s[1 + i - 1]
        BY <1>1, <2>1, SubSeqProperties
    <2>3. (IF 1 <= n - 1 THEN (n - 1) - 1 + 1 ELSE 0) = n - 1 /\ (n - 1) - 1 + 1 = n - 1
        BY <1>1
    <2>4. \A k \in 1 .. n - 1 : 1 + k - 1 = k
        BY <1>1
    <2> QED BY <1>2, <2>2, <2>3, <2>4
<1>6. RemoveAt(s, n) = A \o R
    BY <1>2, <1>3 DEF RemoveAt
<1>7. A \o R \in Seq(S) /\ Len(A \o R) = Len(s) - 1
    <2>1. A \o R \in Seq(S)
        BY <1>4, <1>5, Concat
    <2>2. Len(A \o R) = Len(A) + Len(R)
        BY <1>4, <1>5, Concat
    <2>3. Len(A) = n - 1 /\ Len(R) = Len(s) - n
        BY <1>4, <1>5
    <2> QED BY <1>1, <2>1, <2>2, <2>3
<1>8. Drawn(A \o R, s)
    <2>1. PICK f \in [1 .. Len(A) -> 1 .. n] : \A k \in 1 .. Len(A) : f[k] = k
        <3>1. Len(A) = n - 1
            BY <1>5
        <3>2. \A k \in 1 .. Len(A) : k \in 1 .. n
            BY <1>1, <3>1
        <3>3. PICK D : D = 1 .. Len(A)
            OBVIOUS
        <3>4. [k \in D |-> k] \in [D -> 1 .. n]
            BY <3>2, <3>3
        <3>5. [k \in 1 .. Len(A) |-> k] \in [1 .. Len(A) -> 1 .. n]
            BY <3>3, <3>4
        <3> WITNESS [k \in 1 .. Len(A) |-> k] \in [1 .. Len(A) -> 1 .. n]
        <3> QED OBVIOUS
    <2>2. \A j, k \in 1 .. Len(A) : j < k => f[j] < f[k]
        BY <2>1
    <2>3. \A k \in 1 .. Len(A) : A[k] = s[f[k]]
        BY <1>5, <2>1
    <2>4. n \in 0 .. Len(s)
        BY <1>1
    <2> QED BY <1>4, <1>5, <2>1, <2>2, <2>3, <2>4, SplitDraws
<1> QED BY <1>6, <1>7, <1>8

-----------------------------------------------------------------------------
(* The queue and its reader, one step.                                     *)

\* The buffer counts the pipelines that hold it.
Holding == {w \in Writers : writer[w] \in {"open", "late"}}
Refs == ref_count = Cardinality(Holding)

\* The count is one of the number of pipelines.
LEMMA RefsType ==
    ASSUME Refs PROVE ref_count \in 0 .. Cardinality(Writers) /\ IsFiniteSet(Holding)
<1>1. IsFiniteSet(Writers) /\ Holding \subseteq Writers
    BY ExpQueueAssumption DEF Holding
<1>2. IsFiniteSet(Holding) /\ Cardinality(Holding) <= Cardinality(Writers)
    BY <1>1, FS_Subset
<1>3. Cardinality(Holding) \in Nat /\ Cardinality(Writers) \in Nat
    BY <1>1, <1>2, FS_CardinalityType
<1> QED BY <1>2, <1>3 DEF Refs

\* acquire and release keep the count.
LEMMA RefsStep == ASSUME TypeOK, Refs, [Next]_vars PROVE Refs'
<1>0. IsFiniteSet(Holding)
    BY RefsType
<1>1. ASSUME NEW w \in Writers, Acquire(w) PROVE Refs'
    <2>1. writer' = [writer EXCEPT ![w] = IF closed THEN "late" ELSE "open"] /\ writer[w] = "new"
          /\ ref_count' = ref_count + 1 /\ writer \in [Writers -> {"new", "open", "late", "released", "released late"}]
        BY <1>1 DEF Acquire, TypeOK
    <2>2. Holding' = Holding \cup {w} /\ w \notin Holding
        BY <2>1 DEF Holding
    <2> QED BY <1>0, <2>1, <2>2, FS_AddElement DEF Refs
<1>2. ASSUME NEW w \in Writers, Release(w) PROVE Refs'
    <2>1. writer' = [writer EXCEPT ![w] = IF @ = "late" THEN "released late" ELSE "released"]
          /\ writer[w] \in {"open", "late"} /\ ref_count' = ref_count - 1
          /\ writer \in [Writers -> {"new", "open", "late", "released", "released late"}]
        BY <1>2 DEF Release, Idle, TypeOK
    <2>2. Holding' = Holding \ {w} /\ w \in Holding
        BY <2>1 DEF Holding
    <2> QED BY <1>0, <2>1, <2>2, FS_RemoveElement DEF Refs
<1>3. ASSUME UNCHANGED <<writer, ref_count>> PROVE Refs'
    BY <1>3 DEF Refs, Holding
<1>4. CASE UNCHANGED vars
    BY <1>3, <1>4 DEF vars, writerVars
<1>5. ASSUME NEW w \in Writers, PutBatch(w) \/ PutRoom(w) PROVE Refs'
    BY <1>3, <1>5 DEF PutBatch, PutRoom
<1>6. CASE (\E i \in Item : CooldownOver(i)) \/ GetBatch \/ Get \/ SkipStale \/ GetStopped \/ GiveUp \/ Poll
    BY <1>3, <1>6 DEF CooldownOver, GetBatch, Get, SkipStale, GetStopped, GiveUp, Poll, writerVars
<1> QED BY <1>1, <1>2, <1>4, <1>5, <1>6 DEF Next

\* The queue starts with its types.
LEMMA TypeInit == Init => TypeOK /\ Refs
<1> SUFFICES ASSUME Init PROVE TypeOK /\ Refs
    OBVIOUS
<1>1. Holding = {}
    BY DEF Init, Holding
<1>2. Refs
    BY <1>1, FS_EmptySet DEF Init, Refs
<1>3. ref_count \in 0 .. Cardinality(Writers)
    BY <1>2, RefsType
<1>4. mode \in Modes /\ version \in [Item -> ItemVersions] /\ cooling \subseteq Item /\ closed \in BOOLEAN
    BY DEF Init
<1>5. queue \in Seq(Item) /\ Len(queue) <= Capacity /\ exp_pool \in Seq(Exp)
      /\ accepted \in Seq(Item) /\ delivered \in Seq(Exp)
    BY ExpQueueAssumption, EmptySeq DEF Init
<1>6. use_count \in [Item -> Nat] /\ blocked \in [Writers -> 0 .. MaxItems]
      /\ items \in 0 .. MaxItems /\ reads \in 0 .. MaxReads
    BY ExpQueueAssumption DEF Init
<1>7. writer \in [Writers -> {"new", "open", "late", "released", "released late"}]
    BY DEF Init
<1>8. reader \in [pc : {"idle", "get", "stopped", "failed"}, result : Seq(Exp), min : 0 .. MaxVersion]
    <2>1. 0 \in 0 .. MaxVersion /\ <<>> \in Seq(Exp)
        BY ExpQueueAssumption, EmptySeq
    <2> QED BY <2>1 DEF Init
<1> QED BY <1>2, <1>3, <1>4, <1>5, <1>6, <1>7, <1>8 DEF TypeOK

\* What the delayed _put does to the queue.
LEMMA InsertKeeps ==
    ASSUME queue \in Seq(Item), Len(queue) <= Capacity, NEW i \in Item, Insert(i)
    PROVE  /\ queue' \in Seq(Item) /\ Len(queue') <= Capacity
           /\ \A j : Has(queue', j) => Has(queue, j) \/ (j = i /\ MayQueue(i))
           /\ Once(queue) /\ ~Has(queue, i) => Once(queue')
<1>0. Len(queue) \in Nat /\ Capacity \in Nat /\ DOMAIN queue = 1 .. Len(queue)
    BY LenProperties, ExpQueueAssumption
<1>1. CASE queue' = queue
    BY <1>1
<1>2. CASE MayQueue(i) /\ ~Full /\ queue' = Append(queue, i)
    <2>1. queue' \in Seq(Item) /\ Len(queue') = Len(queue) + 1
        BY <1>2, AppendIs
    <2>2. Len(queue') <= Capacity
        <3>1. Len(queue) # Capacity
            BY <1>2 DEF Full
        <3>2. \A L, C \in Nat : L <= C /\ L # C => L + 1 <= C
            OBVIOUS
        <3>3. Len(queue) + 1 <= Capacity
            BY <1>0, <3>1, <3>2
        <3> QED BY <2>1, <3>3
    <2>3. \A j : Has(queue', j) => Has(queue, j) \/ j = i
        BY <1>2, HasAppend
    <2>4. Once(queue) /\ ~Has(queue, i) => Once(queue')
        BY <1>2, OnceAppend
    <2> QED BY <1>2, <2>1, <2>2, <2>3, <2>4
<1>3. ASSUME MayQueue(i), NEW n \in DOMAIN queue, queue' = Append(RemoveAt(queue, n), i)
      PROVE  /\ queue' \in Seq(Item) /\ Len(queue') <= Capacity
             /\ \A j : Has(queue', j) => Has(queue, j) \/ (j = i /\ MayQueue(i))
             /\ Once(queue) /\ ~Has(queue, i) => Once(queue')
    <2>1. PICK R : R = RemoveAt(queue, n)
        OBVIOUS
    <2>2. R \in Seq(Item) /\ Len(R) = Len(queue) - 1 /\ Drawn(R, queue)
        BY <1>0, <1>3, <2>1, RemoveDraws
    <2>3. queue' = Append(R, i) /\ queue' \in Seq(Item) /\ Len(queue') = Len(R) + 1
        BY <1>3, <2>1, <2>2, AppendIs
    <2>4. Len(queue') <= Capacity
        BY <1>0, <2>2, <2>3
    <2>5. \A j : Has(queue', j) => Has(queue, j) \/ j = i
        BY <2>2, <2>3, HasAppend, HasDrawn
    <2>6. ASSUME Once(queue), ~Has(queue, i) PROVE Once(queue')
        <3>1. Once(R)
            BY <2>2, <2>6, OnceDrawn
        <3>2. ~Has(R, i)
            BY <2>2, <2>6, HasDrawn
        <3> QED BY <2>2, <2>3, <3>1, <3>2, OnceAppend
    <2> QED BY <1>3, <2>3, <2>4, <2>5, <2>6
<1> QED BY <1>1, <1>2, <1>3 DEF Insert

\* What a get leaves in the queue.
LEMMA GetKeeps ==
    ASSUME queue \in Seq(Item), Len(queue) <= Capacity, NEW n \in DOMAIN queue,
           NEW left \in Ascending({m \in DOMAIN queue : Before(n, m)}), queue' = At(queue, left)
    PROVE  /\ queue' \in Seq(Item) /\ Len(queue') <= Capacity /\ Drawn(queue', queue)
           /\ \A m \in DOMAIN queue : Before(n, m) => Has(queue', queue[m])
           /\ \A j : Has(queue', j) => \E m \in DOMAIN queue : Before(n, m) /\ queue[m] = j
<1>0. Len(queue) \in Nat /\ DOMAIN queue = 1 .. Len(queue)
    BY LenProperties
<1>1. PICK S : S = {m \in DOMAIN queue : Before(n, m)}
    OBVIOUS
<1>2. S \subseteq 1 .. Len(queue) /\ left \in Ascending(S)
    BY <1>0, <1>1
<1>3. IsFiniteSet(1 .. Len(queue)) /\ Cardinality(1 .. Len(queue)) = Len(queue) /\ 1 .. Len(queue) \subseteq Nat
    <2>1. \A L \in Nat : IsFiniteSet(1 .. L) /\ Cardinality(1 .. L) = L /\ 1 .. L \subseteq Nat
        BY FS_Interval
    <2> QED BY <1>0, <2>1
<1>4. IsFiniteSet(S) /\ Cardinality(S) <= Len(queue) /\ S \subseteq Nat
    BY <1>2, <1>3, FS_Subset
<1>5. queue' \in Seq(Item)
    BY <1>2, AtDraws
<1>6. Len(queue') = Cardinality(S)
    <2>1. Len(At(queue, left)) = Cardinality(S)
        BY <1>2, AtDraws, ZenonT(40)
    <2> QED BY <2>1
<1>7. Drawn(queue', queue)
    BY <1>2, AtDraws
<1>8. \A m \in S : Has(queue', queue[m])
    BY <1>2, AtDraws
<1>9. Cardinality(S) \in Nat /\ left \in [1 .. Cardinality(S) -> S]
    BY <1>2, <1>4, AscendingPicks
<1>10. ASSUME NEW j, Has(queue', j) PROVE \E m \in S : queue[m] = j
    <2>1. PICK k \in 1 .. Len(queue') : queue'[k] = j
        BY <1>10 DEF Has
    <2>2. k \in DOMAIN left /\ left[k] \in S
        BY <1>6, <1>9, <2>1
    <2>3. queue'[k] = queue[left[k]]
        BY <2>2 DEF At
    <2> QED BY <2>1, <2>2, <2>3
<1>11. Capacity \in Nat
    BY ExpQueueAssumption
<1>12. Len(queue') <= Capacity
    BY <1>0, <1>4, <1>6, <1>9, <1>11
<1> QED BY <1>1, <1>5, <1>7, <1>8, <1>10, <1>12

\* Only a call that waits has a result.
Tidy == reader.pc # "get" => reader.result = <<>>

ReaderType ==
    /\ exp_pool \in Seq(Exp) /\ delivered \in Seq(Exp)
    /\ reader \in [pc : {"idle", "get", "stopped", "failed"}, result : Seq(Exp), min : 0 .. MaxVersion]

\* Types of what was handed out or is held.
LEMMA HandedType ==
    ASSUME ReaderType
    PROVE  /\ Handed \in Seq(Exp) /\ reader.result \in Seq(Exp) /\ reader.result \o exp_pool \in Seq(Exp)
           /\ reader.min \in 0 .. MaxVersion
           /\ \A e : Has(Handed, e) <=> Has(delivered, e) \/ Has(reader.result, e) \/ Has(exp_pool, e)
<1>1. reader.result \in Seq(Exp) /\ exp_pool \in Seq(Exp) /\ delivered \in Seq(Exp) /\ reader.min \in 0 .. MaxVersion
    BY DEF ReaderType
<1>2. reader.result \o exp_pool \in Seq(Exp)
    BY <1>1, Concat
<1>3. Handed \in Seq(Exp)
    BY <1>1, <1>2, Concat DEF Handed
<1>4. \A e : Has(reader.result \o exp_pool, e) <=> Has(reader.result, e) \/ Has(exp_pool, e)
    BY <1>1, HasConcat
<1>5. \A e : Has(Handed, e) <=> Has(delivered, e) \/ Has(reader.result \o exp_pool, e)
    <2>1. \A e : Has(delivered \o (reader.result \o exp_pool), e)
                    <=> Has(delivered, e) \/ Has(reader.result \o exp_pool, e)
        <3>1. \A d, x \in Seq(Exp) : \A e : Has(d \o x, e) <=> Has(d, e) \/ Has(x, e)
            BY HasConcat
        <3> QED BY <1>1, <1>2, <3>1
    <2> QED BY <2>1 DEF Handed
<1> QED BY <1>1, <1>2, <1>3, <1>4, <1>5

\* What a step that gets nothing from the queue does to the experiences handed out and held.
Passed ==
    /\ ReaderType' /\ Tidy'
    /\ Drawn(Handed', Handed)
    /\ reader'.pc \in {"idle", "get"} =>
        /\ reader.pc \in {"idle", "get"} /\ reader.min <= reader'.min
        /\ \A e : Has(Handed, e) /\ Fresh(e, reader'.min) => Has(Handed', e)

\* What a get of the item at n does to them.
Gotten(n) ==
    /\ ReaderType' /\ Tidy'
    /\ Drawn(Handed', Handed \o ExpsOf(queue[n]))
    /\ reader'.min = reader.min
    /\ reader'.pc \in {"idle", "get"} =>
        \A e : Has(Handed \o ExpsOf(queue[n]), e) /\ Fresh(e, reader.min) => Has(Handed', e)

\* The reader's part stays as it is.
LEMMA Rests == ASSUME ReaderType, Tidy, UNCHANGED readerVars PROVE Passed
<1>1. UNCHANGED <<exp_pool, reader, delivered>>
    BY DEF readerVars
<1>2. Handed' = Handed
    BY <1>1 DEF Handed
<1>3. ReaderType' /\ Tidy'
    BY <1>1 DEF ReaderType, Tidy
<1>4. Drawn(Handed, Handed)
    BY HandedType, DrawnSelf
<1>5. reader.min \in 0 .. MaxVersion
    BY HandedType
<1> QED BY <1>1, <1>2, <1>3, <1>4, <1>5 DEF Passed

\* Its call ends without a batch.
LEMMA Ends ==
    ASSUME ReaderType, Tidy, UNCHANGED <<exp_pool, delivered>>, NEW pc \in {"stopped", "failed"},
           reader' = [reader EXCEPT !.pc = pc, !.result = <<>>]
    PROVE  Passed
<1>1. exp_pool \in Seq(Exp) /\ delivered \in Seq(Exp) /\ reader.result \in Seq(Exp)
      /\ reader.result \o exp_pool \in Seq(Exp) /\ <<>> \in Seq(Exp)
    BY HandedType, EmptySeq DEF ReaderType
<1>2. /\ reader'.pc = pc /\ reader'.result = <<>>
      /\ reader' \in [pc : {"idle", "get", "stopped", "failed"}, result : Seq(Exp), min : 0 .. MaxVersion]
    BY <1>1 DEF ReaderType
<1>3. Handed' = delivered \o exp_pool
    <2>1. <<>> \o exp_pool = exp_pool
        BY <1>1, ConcatEmptySeq
    <2> QED BY <1>2, <2>1 DEF Handed
<1>4. Drawn(exp_pool, reader.result \o exp_pool)
    BY <1>1, DrawnTail
<1>5. Drawn(delivered \o exp_pool, delivered \o (reader.result \o exp_pool))
    BY <1>1, <1>4, DrawnBehind
<1> QED BY <1>1, <1>2, <1>3, <1>5 DEF Passed, ReaderType, Tidy, Handed

\* A read that gets nothing from the queue, or a poll.
LEMMA Turns ==
    ASSUME ReaderType, Tidy, reader.pc \in {"idle", "get"}, NEW min \in 0 .. MaxVersion, reader.min <= min,
           Loop(exp_pool, reader.result, min)
    PROVE  Passed
<1>1. exp_pool \in Seq(Exp) /\ delivered \in Seq(Exp) /\ reader.result \in Seq(Exp)
      /\ \A e : Has(Handed, e) <=> Has(delivered, e) \/ Has(reader.result, e) \/ Has(exp_pool, e)
    BY HandedType DEF ReaderType
<1>2. /\ exp_pool' \in Seq(Exp) /\ delivered' \in Seq(Exp)
      /\ reader' \in [pc : {"idle", "get", "stopped", "failed"}, result : Seq(Exp), min : 0 .. MaxVersion]
      /\ reader'.min = min /\ (reader'.pc # "get" => reader'.result = <<>>)
      /\ Drawn(Handed', delivered \o (reader.result \o exp_pool))
      /\ reader'.pc \in {"idle", "get"} =>
            \A e : Has(delivered, e) \/ Has(reader.result, e) \/ (Has(exp_pool, e) /\ Fresh(e, min))
                        => Has(Handed', e)
    BY <1>1, LoopDraws
<1>3. Drawn(Handed', Handed)
    BY <1>2 DEF Handed
<1>4. reader'.pc \in {"idle", "get"} => \A e : Has(Handed, e) /\ Fresh(e, min) => Has(Handed', e)
    BY <1>1, <1>2
<1> QED BY <1>2, <1>3, <1>4 DEF Passed, ReaderType, Tidy

\* A read that goes on with the item at n.
LEMMA Gets ==
    ASSUME ReaderType, NEW n, queue[n] \in Item,
           Loop(exp_pool \o ExpsOf(queue[n]), reader.result, reader.min)
    PROVE  Gotten(n)
<1> DEFINE i == queue[n]
<1>1. exp_pool \in Seq(Exp) /\ delivered \in Seq(Exp) /\ reader.result \in Seq(Exp)
      /\ reader.result \o exp_pool \in Seq(Exp) /\ Handed \in Seq(Exp) /\ reader.min \in 0 .. MaxVersion
      /\ \A e : Has(Handed, e) <=> Has(delivered, e) \/ Has(reader.result, e) \/ Has(exp_pool, e)
    BY HandedType DEF ReaderType
<1>2. ExpsOf(i) \in Seq(Exp)
    BY ExpsOfType
<1> HIDE DEF i
<1>3. exp_pool \o ExpsOf(i) \in Seq(Exp)
      /\ \A e : Has(exp_pool \o ExpsOf(i), e) <=> Has(exp_pool, e) \/ Has(ExpsOf(i), e)
    BY <1>1, <1>2, Concat, HasConcat
<1>4. Loop(exp_pool \o ExpsOf(i), reader.result, reader.min)
    BY DEF i
<1>5. /\ exp_pool' \in Seq(Exp) /\ delivered' \in Seq(Exp)
      /\ reader' \in [pc : {"idle", "get", "stopped", "failed"}, result : Seq(Exp), min : 0 .. MaxVersion]
      /\ reader'.min = reader.min /\ (reader'.pc # "get" => reader'.result = <<>>)
      /\ Drawn(Handed', delivered \o (reader.result \o (exp_pool \o ExpsOf(i))))
      /\ reader'.pc \in {"idle", "get"} =>
            \A e : Has(delivered, e) \/ Has(reader.result, e)
                        \/ (Has(exp_pool \o ExpsOf(i), e) /\ Fresh(e, reader.min))
                        => Has(Handed', e)
    BY <1>1, <1>3, <1>4, LoopDraws, ZenonT(40)
<1>6. delivered \o (reader.result \o (exp_pool \o ExpsOf(i))) = Handed \o ExpsOf(i)
    <2>1. PICK r : r = reader.result
        OBVIOUS
    <2>2. PICK y : y = ExpsOf(i)
        OBVIOUS
    <2>3. delivered \in Seq(Exp) /\ r \in Seq(Exp) /\ exp_pool \in Seq(Exp) /\ y \in Seq(Exp)
        BY <1>1, <1>2, <2>1, <2>2
    <2>4. r \o exp_pool \in Seq(Exp)
        BY <2>3, Concat
    <2>5. r \o (exp_pool \o y) = (r \o exp_pool) \o y
        BY <2>3, ConcatAgain, SMTT(60)
    <2>6. delivered \o ((r \o exp_pool) \o y) = (delivered \o (r \o exp_pool)) \o y
        BY <2>3, <2>4, ConcatAgain, SMTT(60)
    <2>7. Handed = delivered \o (r \o exp_pool)
        BY <2>1 DEF Handed
    <2> QED BY <2>1, <2>2, <2>5, <2>6, <2>7
<1>7. \A e : Has(Handed \o ExpsOf(i), e) <=> Has(Handed, e) \/ Has(ExpsOf(i), e)
    BY <1>1, <1>2, HasConcat
<1>8. reader'.pc \in {"idle", "get"} =>
        \A e : Has(Handed \o ExpsOf(i), e) /\ Fresh(e, reader.min) => Has(Handed', e)
    BY <1>1, <1>3, <1>5, <1>7
<1> QED BY <1>5, <1>6, <1>8 DEF Gotten, ReaderType, Tidy, i

\* Every step passes the experiences on, or gets an item.
LEMMA ReaderSteps ==
    ASSUME TypeOK, Tidy, [Next]_vars
    PROVE  Passed \/ (Get /\ \E n \in DOMAIN queue : Gotten(n))
<1>1. ReaderType
    BY DEF TypeOK, ReaderType
<1>2. CASE UNCHANGED vars
    BY <1>1, <1>2, Rests DEF vars
<1>3. ASSUME NEW w \in Writers, Acquire(w) \/ PutBatch(w) \/ PutRoom(w) PROVE Passed
    BY <1>1, <1>3, Rests DEF Acquire, PutBatch, PutRoom
<1>4. ASSUME NEW w \in Writers, Release(w) PROVE Passed
    <2>1. UNCHANGED <<exp_pool, reads, delivered>>
        BY <1>4 DEF Release
    <2>2. reader' = [reader EXCEPT !.pc = "stopped", !.result = <<>>] \/ reader' = reader
        BY <1>4 DEF Release
    <2>3. CASE reader' = reader
        BY <1>1, <2>1, <2>3, Rests DEF readerVars
    <2>4. CASE reader' = [reader EXCEPT !.pc = "stopped", !.result = <<>>]
        BY <1>1, <2>1, <2>4, Ends
    <2> QED BY <2>2, <2>3, <2>4
<1>5. ASSUME NEW i \in Item, CooldownOver(i) PROVE Passed
    BY <1>1, <1>5, Rests DEF CooldownOver
<1>6. CASE GetBatch
    <2>1. PICK min \in reader.min .. MaxVersion : Loop(exp_pool, <<>>, min)
        BY <1>6 DEF GetBatch
    <2>2. reader.pc = "idle" /\ reader.result = <<>>
        BY <1>6 DEF GetBatch, Tidy
    <2>3. min \in 0 .. MaxVersion /\ reader.min <= min
        <3>1. reader.min \in 0 .. MaxVersion /\ MaxVersion \in Nat
            BY <1>1, HandedType, ExpQueueAssumption
        <3> QED BY <3>1
    <2> QED BY <1>1, <2>1, <2>2, <2>3, Turns
<1>7. CASE Get
    <2>1. PICK n \in DOMAIN queue : Loop(exp_pool \o ExpsOf(queue[n]), reader.result, reader.min)
        BY <1>7 DEF Get
    <2>2. queue[n] \in Item
        <3>1. queue \in Seq(Item)
            BY DEF TypeOK
        <3>2. n \in 1 .. Len(queue)
            BY <2>1, <3>1, LenProperties
        <3> QED BY <3>1, <3>2, ElementOfSeq
    <2> QED BY <1>1, <1>7, <2>1, <2>2, Gets
<1>8. CASE SkipStale
    BY <1>1, <1>8, Rests DEF SkipStale
<1>9. CASE GetStopped
    BY <1>1, <1>9, Ends DEF GetStopped
<1>10. CASE GiveUp
    BY <1>1, <1>10, Ends DEF GiveUp
<1>11. CASE Poll
    <2>1. reader.pc = "get" /\ Loop(exp_pool, reader.result, reader.min)
        BY <1>11 DEF Poll
    <2>2. reader.min \in 0 .. MaxVersion /\ reader.min <= reader.min
        BY <1>1, HandedType, ExpQueueAssumption
    <2> QED BY <1>1, <2>1, <2>2, Turns
<1> QED BY <1>2, <1>3, <1>4, <1>5, <1>6, <1>7, <1>8, <1>9, <1>10, <1>11 DEF Next

\* The bounds of the model.
LEMMA Bounds == MaxItems \in Nat /\ MaxReads \in Nat /\ 0 \in 0 .. MaxItems
BY ExpQueueAssumption

\* An item that the queue takes, whatever it does with it afterwards.
Taken(x) == accepted' = Append(accepted, x) /\ UNCHANGED <<mode, version, use_count, cooling, readerVars>>

\* A put that has to wait, and one that the queue takes, at once or after it waited.
Waits(w) ==
    /\ mode = "fifo" /\ items' = items + 1 /\ items' \in Item
    /\ blocked' = [blocked EXCEPT ![w] = items']
    /\ UNCHANGED <<mode, version, queueVars, accepted, readerVars>>

Takes(w, x) ==
    /\ Taken(x)
    /\ \/ ~Full /\ queue' = Append(queue, x)
       \/ mode # "fifo" /\ Insert(x)
    /\ \/ x = items + 1 /\ items' = items + 1 /\ UNCHANGED blocked
       \/ x = blocked[w] /\ blocked[w] # 0 /\ UNCHANGED items /\ blocked' = [blocked EXCEPT ![w] = 0]

\* put_batch waits, or the queue takes the item; a woken putter has its item taken.
LEMMA PutTakes ==
    ASSUME TypeOK, NEW w \in Writers, PutBatch(w) \/ PutRoom(w)
    PROVE  Waits(w) \/ \E x \in Item : Takes(w, x)
<1>1. items \in 0 .. MaxItems /\ MaxItems \in Nat /\ blocked \in [Writers -> 0 .. MaxItems]
    BY ExpQueueAssumption DEF TypeOK
<1>2. CASE PutBatch(w)
    <2>1. items' = items + 1 /\ items < MaxItems
        BY <1>2 DEF PutBatch
    <2>2. items' \in Item
        BY <1>1, <2>1 DEF Item
    <2>3. UNCHANGED <<mode, version, use_count, cooling, readerVars>>
        BY <1>2 DEF PutBatch
    <2>4. CASE mode = "fifo" /\ Full
        <3>1. blocked' = [blocked EXCEPT ![w] = items'] /\ UNCHANGED <<queue, accepted>>
            BY <1>2, <2>4 DEF PutBatch
        <3> QED BY <2>1, <2>2, <2>3, <2>4, <3>1 DEF Waits, queueVars
    <2>5. CASE ~(mode = "fifo" /\ Full)
        <3>1. /\ IF mode = "fifo" THEN queue' = Append(queue, items') ELSE Insert(items')
              /\ accepted' = Append(accepted, items') /\ UNCHANGED blocked
            BY <1>2, <2>5 DEF PutBatch
        <3>2. Taken(items')
            BY <2>3, <3>1 DEF Taken
        <3>3. (~Full /\ queue' = Append(queue, items')) \/ (mode # "fifo" /\ Insert(items'))
            BY <2>5, <3>1
        <3>5. Takes(w, items')
            BY <2>1, <3>1, <3>2, <3>3 DEF Takes
        <3> QED BY <2>2, <3>5
    <2> QED BY <2>4, <2>5
<1>3. CASE PutRoom(w)
    <2>1. blocked[w] \in 0 .. MaxItems /\ blocked[w] # 0
        BY <1>1, <1>3 DEF PutRoom
    <2>2. blocked[w] \in Item
        BY <1>1, <2>1 DEF Item
    <2>3. /\ ~Full /\ queue' = Append(queue, blocked[w]) /\ accepted' = Append(accepted, blocked[w])
          /\ blocked' = [blocked EXCEPT ![w] = 0] /\ UNCHANGED items
          /\ UNCHANGED <<mode, version, use_count, cooling, readerVars>>
        BY <1>3 DEF PutRoom
    <2>4. Takes(w, blocked[w])
        BY <2>1, <2>3 DEF Takes, Taken
    <2> QED BY <2>2, <2>4
<1> QED BY <1>2, <1>3

\* The queue after it took an item.
LEMMA TakenQueue ==
    ASSUME TypeOK, NEW x \in Item, (~Full /\ queue' = Append(queue, x)) \/ Insert(x)
    PROVE  /\ queue' \in Seq(Item) /\ Len(queue') <= Capacity
           /\ \A j : Has(queue', j) => Has(queue, j) \/ j = x
           /\ Once(queue) /\ ~Has(queue, x) => Once(queue')
<1>1. queue \in Seq(Item) /\ Len(queue) <= Capacity /\ Len(queue) \in Nat /\ Capacity \in Nat
    BY ExpQueueAssumption, LenProperties DEF TypeOK
<1>2. CASE Insert(x)
    BY <1>1, <1>2, InsertKeeps
<1>3. CASE ~Full /\ queue' = Append(queue, x)
    <2>1. queue' \in Seq(Item) /\ Len(queue') = Len(queue) + 1
        BY <1>1, <1>3, AppendIs
    <2>2. \A L, C \in Nat : L <= C /\ L # C => L + 1 <= C
        OBVIOUS
    <2>3. Len(queue) # Capacity
        BY <1>3 DEF Full
    <2>4. Len(queue) + 1 <= Capacity
        BY <1>1, <2>2, <2>3
    <2>5. \A j : Has(queue', j) => Has(queue, j) \/ j = x
        BY <1>1, <1>3, HasAppend
    <2>6. Once(queue) /\ ~Has(queue, x) => Once(queue')
        BY <1>1, <1>3, OnceAppend
    <2> QED BY <2>1, <2>4, <2>5, <2>6
<1> QED BY <1>2, <1>3

\* What Get does besides the loop.
Got(n) ==
    /\ FreshItem(queue[n]) /\ queue[n] \in Item
    /\ \A m \in DOMAIN queue : Before(m, n) => ~FreshItem(queue[m])
    /\ queue' \in Seq(Item) /\ Len(queue') <= Capacity /\ Drawn(queue', queue)
    /\ \A m \in DOMAIN queue : Before(n, m) => Has(queue', queue[m])
    /\ \A j : Has(queue', j) => \E m \in DOMAIN queue : Before(n, m) /\ queue[m] = j
    /\ use_count' = IF mode = "fifo" THEN use_count ELSE [use_count EXCEPT ![queue[n]] = @ + 1]
    /\ cooling' = IF mode = "reuse" /\ ~closed THEN cooling \cup {queue[n]} ELSE cooling
    /\ Gotten(n)
    /\ UNCHANGED <<mode, version, closed, ref_count, writerVars, reads>>

\* Get is what Got says.
LEMMA GetGot == ASSUME TypeOK, Get PROVE \E n \in DOMAIN queue : Got(n) /\ reader.pc = "get"
<1>0. queue \in Seq(Item) /\ Len(queue) <= Capacity /\ ReaderType
    BY DEF TypeOK, ReaderType
<1>1. PICK n \in DOMAIN queue :
        /\ FreshItem(queue[n])
        /\ \A m \in DOMAIN queue : Before(m, n) => ~FreshItem(queue[m])
        /\ \E left \in Ascending({m \in DOMAIN queue : Before(n, m)}) : queue' = At(queue, left)
        /\ use_count' = IF mode = "fifo" THEN use_count ELSE [use_count EXCEPT ![queue[n]] = @ + 1]
        /\ cooling' = IF mode = "reuse" /\ ~closed THEN cooling \cup {queue[n]} ELSE cooling
        /\ Loop(exp_pool \o ExpsOf(queue[n]), reader.result, reader.min)
    BY DEF Get
<1>2. PICK left \in Ascending({m \in DOMAIN queue : Before(n, m)}) : queue' = At(queue, left)
    BY <1>1
<1>3. /\ queue' \in Seq(Item) /\ Len(queue') <= Capacity /\ Drawn(queue', queue)
      /\ \A m \in DOMAIN queue : Before(n, m) => Has(queue', queue[m])
      /\ \A j : Has(queue', j) => \E m \in DOMAIN queue : Before(n, m) /\ queue[m] = j
    BY <1>0, <1>2, GetKeeps
<1>4. queue[n] \in Item
    <2>1. n \in 1 .. Len(queue)
        BY <1>0, <1>1, LenProperties
    <2> QED BY <1>0, <2>1, ElementOfSeq
<1>5. Gotten(n)
    BY <1>0, <1>1, <1>4, Gets
<1>6. UNCHANGED <<mode, version, closed, ref_count, writerVars, reads>> /\ reader.pc = "get"
    BY DEF Get
<1>7. Got(n)
    BY <1>1, <1>3, <1>4, <1>5, <1>6 DEF Got
<1> QED BY <1>1, <1>6, <1>7

-----------------------------------------------------------------------------
(* Types.                                                                  *)

QueueType ==
    /\ queue \in Seq(Item) /\ Len(queue) <= Capacity
    /\ use_count \in [Item -> Nat]
    /\ cooling \subseteq Item
    /\ accepted \in Seq(Item)

WriterType ==
    /\ mode \in Modes
    /\ version \in [Item -> ItemVersions]
    /\ closed \in BOOLEAN
    /\ writer \in [Writers -> {"new", "open", "late", "released", "released late"}]
    /\ blocked \in [Writers -> 0 .. MaxItems]
    /\ items \in 0 .. MaxItems /\ reads \in 0 .. MaxReads

\* A step keeps the types of the queue.
LEMMA QueueTypeStep == ASSUME TypeOK, [Next]_vars PROVE QueueType'
<1>0. QueueType
    BY DEF TypeOK, QueueType
<1>1. ASSUME UNCHANGED <<queue, use_count, cooling, accepted>> PROVE QueueType'
    BY <1>0, <1>1 DEF QueueType
<1>2. CASE UNCHANGED vars
    BY <1>1, <1>2 DEF vars, queueVars, writerVars
<1>3. ASSUME NEW w \in Writers, Acquire(w) \/ Release(w) PROVE QueueType'
    BY <1>1, <1>3 DEF Acquire, Release, queueVars
<1>4. ASSUME NEW w \in Writers, PutBatch(w) \/ PutRoom(w) PROVE QueueType'
    <2>1. CASE Waits(w)
        BY <1>1, <2>1 DEF Waits, queueVars
    <2>2. ASSUME NEW x \in Item, Takes(w, x) PROVE QueueType'
        <3>1. queue' \in Seq(Item) /\ Len(queue') <= Capacity
            BY <2>2, TakenQueue DEF Takes
        <3>2. accepted' \in Seq(Item)
            BY <1>0, <2>2, AppendIs DEF Takes, Taken, QueueType
        <3>3. use_count' = use_count /\ cooling' = cooling
            BY <2>2 DEF Takes, Taken
        <3> QED BY <1>0, <3>1, <3>2, <3>3 DEF QueueType
    <2> QED BY <1>4, <2>1, <2>2, PutTakes
<1>5. ASSUME NEW i \in Item, CooldownOver(i) PROVE QueueType'
    <2>1. Insert(i) /\ cooling' \subseteq cooling /\ UNCHANGED <<use_count, accepted>>
        BY <1>5 DEF CooldownOver, writerVars
    <2>2. queue' \in Seq(Item) /\ Len(queue') <= Capacity
        BY <1>0, <2>1, InsertKeeps DEF QueueType
    <2> QED BY <1>0, <2>1, <2>2 DEF QueueType
<1>6. CASE GetBatch \/ GetStopped \/ GiveUp \/ Poll
    BY <1>1, <1>6 DEF GetBatch, GetStopped, GiveUp, Poll, queueVars, writerVars
<1>7. CASE Get
    <2>1. PICK n \in DOMAIN queue : Got(n)
        BY <1>7, GetGot
    <2>2. queue[n] \in Item /\ queue' \in Seq(Item) /\ Len(queue') <= Capacity /\ accepted' = accepted
        BY <2>1 DEF Got, writerVars
    <2>3. use_count' \in [Item -> Nat]
        BY <1>0, <2>1, <2>2 DEF Got, QueueType
    <2>4. cooling' \subseteq Item
        BY <1>0, <2>1, <2>2 DEF Got, QueueType
    <2> QED BY <1>0, <2>2, <2>3, <2>4 DEF QueueType
<1>8. CASE SkipStale
    <2>1. queue' = <<>> /\ UNCHANGED <<use_count, cooling, accepted>>
        BY <1>8 DEF SkipStale, writerVars
    <2>2. queue' \in Seq(Item) /\ Len(queue') <= Capacity
        BY <2>1, EmptySeq, ExpQueueAssumption
    <2> QED BY <1>0, <2>1, <2>2 DEF QueueType
<1> QED BY <1>2, <1>3, <1>4, <1>5, <1>6, <1>7, <1>8 DEF Next

\* A step keeps the types of the writers.
LEMMA WriterTypeStep == ASSUME TypeOK, [Next]_vars PROVE WriterType'
<1>0. WriterType
    BY DEF TypeOK, WriterType
<1>1. ASSUME UNCHANGED <<mode, version, closed, writerVars, reads>> PROVE WriterType'
    BY <1>0, <1>1 DEF WriterType, writerVars
<1>2. CASE UNCHANGED vars
    BY <1>1, <1>2 DEF vars, readerVars
<1>3. ASSUME NEW w \in Writers, Acquire(w) PROVE WriterType'
    <2>1. writer' \in [Writers -> {"new", "open", "late", "released", "released late"}]
        BY <1>0, <1>3 DEF Acquire, WriterType
    <2>2. UNCHANGED <<mode, version, closed, blocked, items, reads>>
        BY <1>3 DEF Acquire, readerVars
    <2> QED BY <1>0, <2>1, <2>2 DEF WriterType
<1>4. ASSUME NEW w \in Writers, Release(w) PROVE WriterType'
    <2>1. writer' \in [Writers -> {"new", "open", "late", "released", "released late"}]
        BY <1>0, <1>4 DEF Release, WriterType
    <2>2. UNCHANGED <<mode, version, blocked, items, reads>> /\ closed' \in BOOLEAN
        BY <1>4 DEF Release
    <2> QED BY <1>0, <2>1, <2>2 DEF WriterType
<1>5. ASSUME NEW w \in Writers, PutBatch(w) PROVE WriterType'
    <2>1. UNCHANGED <<mode, version, closed, writer, reads>> /\ items' = items + 1 /\ items < MaxItems
        BY <1>5 DEF PutBatch, readerVars
    <2>2. items' \in 0 .. MaxItems
        <3>1. \A n, m \in Nat : n \in 0 .. m /\ n < m => n + 1 \in 0 .. m
            OBVIOUS
        <3>2. items \in 0 .. MaxItems
            BY <1>0 DEF WriterType
        <3>3. items \in Nat /\ MaxItems \in Nat
            BY <3>2, Bounds
        <3> QED BY <2>1, <3>1, <3>2, <3>3
    <2>3. blocked' = blocked \/ blocked' = [blocked EXCEPT ![w] = items']
        BY <1>5 DEF PutBatch
    <2>4. blocked' \in [Writers -> 0 .. MaxItems]
        BY <1>0, <2>2, <2>3 DEF WriterType
    <2> QED BY <1>0, <2>1, <2>2, <2>4 DEF WriterType
<1>6. ASSUME NEW w \in Writers, PutRoom(w) PROVE WriterType'
    <2>1. UNCHANGED <<mode, version, closed, writer, items, reads>> /\ blocked' = [blocked EXCEPT ![w] = 0]
        BY <1>6 DEF PutRoom, readerVars
    <2>2. blocked' \in [Writers -> 0 .. MaxItems]
        <3>1. blocked \in [Writers -> 0 .. MaxItems] /\ 0 \in 0 .. MaxItems
            BY <1>0, Bounds DEF WriterType
        <3> QED BY <2>1, <3>1
    <2> QED BY <1>0, <2>1, <2>2 DEF WriterType
<1>7. CASE GetBatch
    <2>1. UNCHANGED <<mode, version, closed, writerVars>> /\ reads' = reads + 1 /\ reads < MaxReads
        BY <1>7 DEF GetBatch
    <2>2. reads' \in 0 .. MaxReads
        <3>1. \A n, m \in Nat : n \in 0 .. m /\ n < m => n + 1 \in 0 .. m
            OBVIOUS
        <3>2. reads \in 0 .. MaxReads
            BY <1>0 DEF WriterType
        <3>3. reads \in Nat /\ MaxReads \in Nat
            BY <3>2, Bounds
        <3> QED BY <2>1, <3>1, <3>2, <3>3
    <2> QED BY <1>0, <2>1, <2>2 DEF WriterType, writerVars
<1>8. CASE (\E i \in Item : CooldownOver(i)) \/ Get \/ SkipStale \/ GetStopped \/ GiveUp \/ Poll
    BY <1>1, <1>8 DEF CooldownOver, Get, SkipStale, GetStopped, GiveUp, Poll, readerVars
<1> QED BY <1>2, <1>3, <1>4, <1>5, <1>6, <1>7, <1>8 DEF Next

\* A step keeps the types of the reader.
LEMMA ReaderTypeStep == ASSUME TypeOK, Tidy, [Next]_vars PROVE ReaderType' /\ Tidy'
BY ReaderSteps DEF Passed, Gotten

\* A step keeps all types.
LEMMA TypeStep == ASSUME TypeOK, Refs, Tidy, [Next]_vars PROVE (TypeOK /\ Refs /\ Tidy)'
<1>1. Refs'
    BY RefsStep
<1>2. ref_count' \in 0 .. Cardinality(Writers)
    <2>1. Refs => ref_count \in 0 .. Cardinality(Writers)
        BY RefsType
    <2>2. IsFiniteSet(Writers) /\ Holding' \subseteq Writers
        BY ExpQueueAssumption DEF Holding
    <2>3. IsFiniteSet(Holding') /\ Cardinality(Holding') <= Cardinality(Writers)
        BY <2>2, FS_Subset
    <2>4. Cardinality(Holding') \in Nat /\ Cardinality(Writers) \in Nat
        BY <2>2, <2>3, FS_CardinalityType
    <2>5. ref_count' = Cardinality(Holding')
        BY <1>1 DEF Refs
    <2> QED BY <2>3, <2>4, <2>5
<1> QED BY <1>1, <1>2, QueueTypeStep, WriterTypeStep, ReaderTypeStep
        DEF TypeOK, QueueType, WriterType, ReaderType

\* The variables of the queue keep their types: the queue never holds more than its capacity,
\* and the buffer never counts more pipelines than there are (QueueStorage.acquire, release).
THEOREM TypeCorrect == Spec => []TypeOK
<1>1. Init => TypeOK /\ Refs /\ Tidy
    <2>1. Init => Tidy
        BY DEF Init, Tidy
    <2> QED BY <2>1, TypeInit
<1>2. TypeOK /\ Refs /\ Tidy /\ [Next]_vars => (TypeOK /\ Refs /\ Tidy)'
    BY TypeStep
<1> QED BY <1>1, <1>2, PTL DEF Spec

-----------------------------------------------------------------------------
(* Puts.                                                                   *)

Puts ==
    /\ Once(accepted)
    /\ \A i \in Item : Has(accepted, i) => i <= items
    /\ \A w \in Writers : blocked[w] # 0 =>
            mode = "fifo" /\ blocked[w] <= items /\ ~Has(accepted, blocked[w])
    /\ \A v, w \in Writers : v # w /\ blocked[v] # 0 => blocked[v] # blocked[w]

\* Nothing stands in the empty sequence.
LEMMA EmptyHas == (\A e : ~Has(<<>>, e)) /\ Once(<<>>)
<1>1. Len(<<>>) = 0
    BY EmptySeq
<1>2. 1 .. Len(<<>>) = {}
    BY <1>1
<1> QED BY <1>2, Zenon DEF Has, Once

\* Nothing was put.
LEMMA PutsInit == Init => Puts
BY EmptyHas DEF Init, Puts

\* The queue takes no item twice.
LEMMA TakesNew ==
    ASSUME TypeOK, Puts, NEW w \in Writers, NEW x \in Item, Takes(w, x)
    PROVE  ~Has(accepted, x) /\ items \in Nat /\ items' \in Nat /\ items <= items' /\ x <= items'
<1>1. items \in Nat
    <2>1. items \in 0 .. MaxItems
        BY DEF TypeOK
    <2> QED BY <2>1, Bounds
<1>2. CASE x = items + 1 /\ items' = items + 1
    <2>1. ~(x <= items)
        BY <1>1, <1>2
    <2>2. ~Has(accepted, x)
        BY <2>1 DEF Puts
    <2> QED BY <1>1, <1>2, <2>2
<1>3. CASE x = blocked[w] /\ blocked[w] # 0 /\ items' = items
    <2>1. ~Has(accepted, x) /\ x <= items
        BY <1>3 DEF Puts
    <2> QED BY <1>1, <1>3, <2>1
<1> QED BY <1>2, <1>3 DEF Takes

\* A step keeps what is known of the puts.
LEMMA PutsStep == ASSUME TypeOK, Puts, [Next]_vars PROVE Puts'
<1>0. /\ accepted \in Seq(Item) /\ blocked \in [Writers -> 0 .. MaxItems]
    BY DEF TypeOK
<1>1. items \in Nat
    <2>1. items \in 0 .. MaxItems
        BY DEF TypeOK
    <2> QED BY <2>1, Bounds
<1>2. ASSUME UNCHANGED <<mode, accepted, blocked, items>> PROVE Puts'
    BY <1>2 DEF Puts
<1>3. ASSUME NEW w \in Writers, NEW x \in Item, Takes(w, x) PROVE Puts'
    <2>1. ~Has(accepted, x) /\ items' \in Nat /\ items <= items' /\ x <= items'
        BY <1>3, TakesNew
    <2>2. accepted' = Append(accepted, x) /\ mode' = mode
        BY <1>3 DEF Takes, Taken
    <2>3. Once(accepted')
        BY <1>0, <2>1, <2>2, OnceAppend DEF Puts
    <2>4. \A i : Has(accepted', i) <=> Has(accepted, i) \/ i = x
        BY <1>0, <2>2, HasAppend
    <2>5. ASSUME NEW i \in Item, Has(accepted', i) PROVE i <= items'
        <3>1. i \in Int
            BY DEF Item
        <3>2. CASE Has(accepted, i)
            <4>1. i <= items
                BY <3>2 DEF Puts
            <4> QED BY <1>1, <2>1, <3>1, <4>1
        <3>3. CASE i = x
            BY <2>1, <3>3
        <3> QED BY <2>4, <2>5, <3>2, <3>3
    <2>6. ASSUME NEW v \in Writers, blocked'[v] # 0
          PROVE  blocked'[v] = blocked[v] /\ blocked[v] # x
        <3>1. CASE x = items + 1 /\ blocked' = blocked
            <4>1. blocked[v] <= items /\ blocked[v] \in 0 .. MaxItems
                BY <1>0, <2>6, <3>1 DEF Puts
            <4> QED BY <1>1, <3>1, <4>1
        <3>2. CASE x = blocked[w] /\ blocked[w] # 0 /\ blocked' = [blocked EXCEPT ![w] = 0]
            <4>1. v # w /\ blocked'[v] = blocked[v]
                BY <1>0, <2>6, <3>2
            <4> QED BY <3>2, <4>1 DEF Puts
        <3> QED BY <1>3, <3>1, <3>2 DEF Takes
    <2>7. ASSUME NEW v \in Writers, blocked'[v] # 0
          PROVE  mode' = "fifo" /\ blocked'[v] <= items' /\ ~Has(accepted', blocked'[v])
        <3>1. blocked'[v] = blocked[v] /\ blocked[v] # x /\ blocked[v] # 0
            BY <2>6, <2>7
        <3>2. mode = "fifo" /\ blocked[v] <= items /\ ~Has(accepted, blocked[v])
            BY <3>1 DEF Puts
        <3>3. blocked[v] \in 0 .. MaxItems
            BY <1>0
        <3>4. blocked[v] <= items'
            BY <1>1, <2>1, <3>2, <3>3
        <3> QED BY <2>2, <2>4, <3>1, <3>2, <3>4
    <2>8. ASSUME NEW u \in Writers, NEW v \in Writers, u # v, blocked'[u] # 0
          PROVE  blocked'[u] # blocked'[v]
        <3>1. blocked'[u] = blocked[u] /\ blocked[u] # 0 /\ blocked[u] # blocked[v]
            BY <2>6, <2>8 DEF Puts
        <3>2. CASE blocked'[v] = 0
            BY <2>8, <3>2
        <3>3. CASE blocked'[v] # 0
            BY <2>6, <3>1, <3>3
        <3> QED BY <3>2, <3>3
    <2> QED BY <2>3, <2>5, <2>7, <2>8 DEF Puts
<1>4. ASSUME NEW w \in Writers, Waits(w) PROVE Puts'
    <2>1. /\ mode = "fifo" /\ mode' = mode /\ items' = items + 1 /\ items' \in Item
          /\ blocked' = [blocked EXCEPT ![w] = items'] /\ accepted' = accepted
        BY <1>4 DEF Waits
    <2>2. ~Has(accepted, items')
        <3>1. ~(items' <= items)
            BY <1>1, <2>1
        <3> QED BY <2>1, <3>1 DEF Puts
    <2>3. blocked'[w] = items' /\ \A v \in Writers \ {w} : blocked'[v] = blocked[v]
        BY <1>0, <2>1
    <2>4. \A v \in Writers : blocked[v] # 0 => blocked[v] <= items' /\ blocked[v] # items'
        <3> TAKE v \in Writers
        <3>1. blocked[v] # 0 => blocked[v] <= items
            BY DEF Puts
        <3>2. blocked[v] \in 0 .. MaxItems
            BY <1>0
        <3> QED BY <1>1, <2>1, <3>1, <3>2
    <2>5. \A i \in Item : Has(accepted, i) => i <= items'
        <3> SUFFICES ASSUME NEW i \in Item, Has(accepted, i) PROVE i <= items'
            OBVIOUS
        <3>1. i <= items /\ i \in Int
            BY DEF Puts, Item
        <3> QED BY <1>1, <2>1, <3>1
    <2>6. ASSUME NEW v \in Writers, blocked'[v] # 0
          PROVE  mode' = "fifo" /\ blocked'[v] <= items' /\ ~Has(accepted', blocked'[v])
        <3>1. CASE v = w
            <4>1. items' \in Int
                BY <2>1 DEF Item
            <4> QED BY <2>1, <2>2, <2>3, <3>1, <4>1
        <3>2. CASE v # w
            BY <2>1, <2>3, <2>4, <2>6, <3>2 DEF Puts
        <3> QED BY <3>1, <3>2
    <2>7. ASSUME NEW u \in Writers, NEW v \in Writers, u # v, blocked'[u] # 0
          PROVE  blocked'[u] # blocked'[v]
        <3>0. items' # 0
            BY <1>1, <2>1
        <3>1. CASE u = w
            <4>1. blocked'[u] = items' /\ blocked'[v] = blocked[v]
                BY <2>3, <2>7, <3>1
            <4> QED BY <2>4, <3>0, <4>1
        <3>2. CASE v = w
            <4>1. blocked'[v] = items' /\ blocked'[u] = blocked[u]
                BY <2>3, <2>7, <3>2
            <4> QED BY <2>4, <2>7, <4>1
        <3>3. CASE u # w /\ v # w
            BY <2>3, <2>7, <3>3 DEF Puts
        <3> QED BY <3>1, <3>2, <3>3
    <2>8. Once(accepted')
        BY <2>1 DEF Puts
    <2> QED BY <2>1, <2>5, <2>6, <2>7, <2>8 DEF Puts
<1>5. CASE UNCHANGED vars
    BY <1>2, <1>5 DEF vars, writerVars
<1>6. ASSUME NEW w \in Writers, Acquire(w) \/ Release(w) PROVE Puts'
    BY <1>2, <1>6 DEF Acquire, Release
<1>7. ASSUME NEW w \in Writers, PutBatch(w) \/ PutRoom(w) PROVE Puts'
    BY <1>3, <1>4, <1>7, PutTakes
<1>8. CASE (\E i \in Item : CooldownOver(i)) \/ GetBatch \/ Get \/ SkipStale \/ GetStopped \/ GiveUp \/ Poll
    BY <1>2, <1>8 DEF CooldownOver, GetBatch, Get, SkipStale, GetStopped, GiveUp, Poll, writerVars
<1> QED BY <1>5, <1>6, <1>7, <1>8 DEF Next

-----------------------------------------------------------------------------
(* The steps as the queue and its reader see them.                         *)

Quiet == UNCHANGED <<mode, version, queueVars, accepted>> /\ Passed

Cools(i) ==
    /\ i \in cooling /\ cooling' = cooling \ {i} /\ Insert(i)
    /\ UNCHANGED <<mode, version, use_count, accepted, readerVars>>

Skips ==
    /\ queue' = <<>> /\ \A n \in DOMAIN queue : ~FreshItem(queue[n])
    /\ UNCHANGED <<mode, version, use_count, cooling, accepted, readerVars>>

\* The cases of a step.
LEMMA Steps ==
    ASSUME TypeOK, Tidy, [Next]_vars
    PROVE  \/ Quiet
           \/ \E w \in Writers, x \in Item : Takes(w, x)
           \/ \E i \in Item : Cools(i)
           \/ \E n \in DOMAIN queue : Got(n) /\ reader.pc = "get"
           \/ Skips
<1>0. ReaderType
    BY DEF TypeOK, ReaderType
<1>1. CASE Get
    BY <1>1, GetGot
<1>2. CASE ~Get
    <2>1. Passed
        BY <1>2, ReaderSteps
    <2>2. CASE UNCHANGED vars
        BY <2>1, <2>2 DEF vars, Quiet, writerVars
    <2>3. ASSUME NEW w \in Writers, Acquire(w) \/ Release(w) PROVE Quiet
        BY <2>1, <2>3 DEF Acquire, Release, Quiet
    <2>4. ASSUME NEW w \in Writers, PutBatch(w) \/ PutRoom(w) PROVE Quiet \/ \E x \in Item : Takes(w, x)
        BY <2>1, <2>4, PutTakes DEF Waits, Quiet
    <2>5. ASSUME NEW i \in Item, CooldownOver(i) PROVE Cools(i)
        BY <2>5 DEF CooldownOver, Cools, writerVars
    <2>6. CASE GetBatch \/ GetStopped \/ GiveUp \/ Poll
        BY <2>1, <2>6 DEF GetBatch, GetStopped, GiveUp, Poll, Quiet, writerVars
    <2>7. CASE SkipStale
        BY <2>7 DEF SkipStale, Skips, writerVars
    <2> QED BY <1>2, <2>2, <2>3, <2>4, <2>5, <2>6, <2>7 DEF Next
<1> QED BY <1>1, <1>2

-----------------------------------------------------------------------------
(* What is held was accepted.                                              *)

Held ==
    /\ Once(queue)
    /\ \A i \in Item : Has(queue, i) => Has(accepted, i)
    /\ \A i \in cooling : Has(accepted, i) /\ ~Has(queue, i) /\ mode = "reuse"
    /\ \A e \in Exp : Has(Handed, e) => Has(accepted, e[1])

\* Nothing was handed out or is held.
LEMMA HandedInit == Init => Handed = <<>>
<1>1. <<>> \o <<>> = <<>>
    BY EmptySeq, ConcatEmptySeq
<1> QED BY <1>1 DEF Init, Handed

\* Nothing is held.
LEMMA HeldInit == Init => Held
<1> SUFFICES ASSUME Init PROVE Held
    OBVIOUS
<1>1. Handed = <<>>
    BY HandedInit
<1> QED BY <1>1, EmptyHas DEF Init, Held

\* What stands in the queue.
LEMMA QueueHas ==
    ASSUME queue \in Seq(Item)
    PROVE  /\ DOMAIN queue = 1 .. Len(queue) /\ Len(queue) \in Nat
           /\ \A n \in DOMAIN queue : queue[n] \in Item /\ Has(queue, queue[n])
           /\ \A j : Has(queue, j) => \E n \in DOMAIN queue : queue[n] = j
<1>1. DOMAIN queue = 1 .. Len(queue) /\ Len(queue) \in Nat
    BY LenProperties
<1>2. \A n \in 1 .. Len(queue) : queue[n] \in Item
    BY ElementOfSeq
<1> QED BY <1>1, <1>2 DEF Has

\* An item leaves the queue with the others behind it; it is not before itself.
LEMMA NotBeforeItself ==
    ASSUME TypeOK, NEW n \in DOMAIN queue
    PROVE  ~Before(n, n)
<1>1. n \in Int /\ queue[n] \in Item
    <2>1. queue \in Seq(Item)
        BY DEF TypeOK
    <2> QED BY <2>1, QueueHas
<1>2. Priority(queue[n]) \in Int
    <2>1. version[queue[n]] \in [1 .. Size -> 0 .. MaxVersion] /\ use_count[queue[n]] \in Nat
        <3>1. version[queue[n]] \in ItemVersions /\ use_count[queue[n]] \in Nat
            BY <1>1 DEF TypeOK
        <3> QED BY <3>1, ExpQueueAssumption
    <2>2. 1 \in 1 .. Size /\ Decay \in Nat /\ MaxVersion \in Nat
        BY ExpQueueAssumption
    <2>3. version[queue[n]][1] \in Int
        <3>1. \A v \in [1 .. Size -> 0 .. MaxVersion] : v[1] \in Int
            BY <2>2
        <3> QED BY <2>1, <3>1
    <2>4. Decay * use_count[queue[n]] \in Int
        BY <2>1, <2>2
    <2> QED BY <2>3, <2>4 DEF Priority
<1> QED BY <1>1, <1>2 DEF Before

\* The item that a get takes is gone from the queue.
LEMMA GotLeaves ==
    ASSUME TypeOK, Once(queue), NEW n \in DOMAIN queue, Got(n)
    PROVE  ~Has(queue', queue[n])
<1>0. queue \in Seq(Item)
    BY DEF TypeOK
<1>1. SUFFICES ASSUME Has(queue', queue[n]) PROVE FALSE
    OBVIOUS
<1>2. PICK m \in DOMAIN queue : Before(n, m) /\ queue[m] = queue[n]
    BY <1>1 DEF Got
<1>3. m = n
    BY <1>0, <1>2, QueueHas DEF Once
<1> QED BY <1>2, <1>3, NotBeforeItself

\* What stands in an item.
LEMMA ItemHas ==
    ASSUME NEW i \in Item
    PROVE  /\ \A k \in 1 .. Size : Has(ExpsOf(i), <<i, k>>)
           /\ \A e : Has(ExpsOf(i), e) => e[1] = i
<1>1. /\ Len(ExpsOf(i)) = Size /\ \A k \in 1 .. Size : ExpsOf(i)[k] = <<i, k>>
    BY ExpsOfType
<1>2. \A k \in 1 .. Size : Has(ExpsOf(i), <<i, k>>)
    BY <1>1 DEF Has
<1>3. ASSUME NEW e, Has(ExpsOf(i), e) PROVE e[1] = i
    <2>1. PICK k \in 1 .. Size : ExpsOf(i)[k] = e
        BY <1>1, <1>3 DEF Has
    <2>2. e = <<i, k>>
        BY <1>1, <2>1
    <2> QED BY <2>2
<1> QED BY <1>2, <1>3

\* The experiences handed out or held after a get.
LEMMA GottenHas ==
    ASSUME TypeOK, NEW n \in DOMAIN queue, Gotten(n)
    PROVE  /\ Handed \in Seq(Exp) /\ ExpsOf(queue[n]) \in Seq(Exp)
           /\ Handed \o ExpsOf(queue[n]) \in Seq(Exp)
           /\ \A e : Has(Handed', e) => Has(Handed, e) \/ e[1] = queue[n]
           /\ Handed' \in Seq(Exp) /\ queue[n] \in Item
<1>1. queue[n] \in Item
    BY QueueHas DEF TypeOK
<1>2. Handed \in Seq(Exp) /\ ExpsOf(queue[n]) \in Seq(Exp)
    BY <1>1, HandedType, ExpsOfType DEF TypeOK, ReaderType
<1>3. Handed \o ExpsOf(queue[n]) \in Seq(Exp)
    BY <1>2, Concat
<1>4. \A e : Has(Handed \o ExpsOf(queue[n]), e) <=> Has(Handed, e) \/ Has(ExpsOf(queue[n]), e)
    BY <1>2, HasConcat
<1>5. Drawn(Handed', Handed \o ExpsOf(queue[n])) /\ ReaderType'
    BY DEF Gotten
<1>6. ASSUME NEW e, Has(Handed', e) PROVE Has(Handed, e) \/ e[1] = queue[n]
    <2>1. Has(Handed \o ExpsOf(queue[n]), e)
        BY <1>5, <1>6, HasDrawn
    <2> QED BY <1>1, <1>4, <2>1, ItemHas
<1>7. Handed' \in Seq(Exp)
    <2>1. reader'.result \o exp_pool' \in Seq(Exp) /\ delivered' \in Seq(Exp)
        <3>1. reader'.result \in Seq(Exp) /\ exp_pool' \in Seq(Exp) /\ delivered' \in Seq(Exp)
            BY <1>5 DEF ReaderType
        <3> QED BY <3>1, Concat
    <2> QED BY <2>1, Concat DEF Handed
<1> QED BY <1>1, <1>2, <1>3, <1>6, <1>7

\* Nothing new is handed out or held without a get.
LEMMA PassedHas ==
    ASSUME TypeOK, Passed
    PROVE  /\ Handed \in Seq(Exp) /\ Handed' \in Seq(Exp)
           /\ \A e : Has(Handed', e) => Has(Handed, e)
<1>1. ReaderType' /\ Drawn(Handed', Handed)
    BY DEF Passed
<1>2. Handed \in Seq(Exp)
    BY HandedType DEF TypeOK, ReaderType
<1>3. Handed' \in Seq(Exp)
    <2>1. reader'.result \o exp_pool' \in Seq(Exp) /\ delivered' \in Seq(Exp)
        <3>1. reader'.result \in Seq(Exp) /\ exp_pool' \in Seq(Exp) /\ delivered' \in Seq(Exp)
            BY <1>1 DEF ReaderType
        <3> QED BY <3>1, Concat
    <2> QED BY <2>1, Concat DEF Handed
<1> QED BY <1>1, <1>2, <1>3, HasDrawn

\* Steps that leave the reader alone.
LEMMA SameHanded == ASSUME UNCHANGED readerVars PROVE Handed' = Handed /\ reader' = reader
BY DEF readerVars, Handed

\* A step keeps: what is held was accepted.
LEMMA HeldStep == ASSUME TypeOK, Tidy, Puts, Held, [Next]_vars PROVE Held'
<1>0. queue \in Seq(Item) /\ accepted \in Seq(Item) /\ cooling \subseteq Item
    BY DEF TypeOK
<1>1. CASE Quiet
    <2>1. UNCHANGED <<mode, queue, cooling, accepted>> /\ Passed
        BY <1>1 DEF Quiet, queueVars
    <2>2. \A e : Has(Handed', e) => Has(Handed, e)
        BY <2>1, PassedHas
    <2> QED BY <2>1, <2>2 DEF Held
<1>2. ASSUME NEW w \in Writers, NEW x \in Item, Takes(w, x) PROVE Held'
    <2>1. ~Has(accepted, x)
        BY <1>2, TakesNew
    <2>2. accepted' = Append(accepted, x) /\ UNCHANGED <<mode, cooling, readerVars>>
        BY <1>2 DEF Takes, Taken
    <2>3. \A i : Has(accepted', i) <=> Has(accepted, i) \/ i = x
        BY <1>0, <2>2, HasAppend
    <2>4. /\ \A j : Has(queue', j) => Has(queue, j) \/ j = x
          /\ Once(queue) /\ ~Has(queue, x) => Once(queue')
        BY <1>2, TakenQueue DEF Takes
    <2>5. ~Has(queue, x)
        BY <2>1 DEF Held
    <2>6. Once(queue') /\ \A i \in Item : Has(queue', i) => Has(accepted', i)
        BY <2>3, <2>4, <2>5 DEF Held
    <2>7. \A i \in cooling' : Has(accepted', i) /\ ~Has(queue', i) /\ mode' = "reuse"
        BY <2>1, <2>2, <2>3, <2>4 DEF Held
    <2>8. \A e \in Exp : Has(Handed', e) => Has(accepted', e[1])
        BY <2>2, <2>3, SameHanded DEF Held
    <2> QED BY <2>6, <2>7, <2>8 DEF Held
<1>3. ASSUME NEW i \in Item, Cools(i) PROVE Held'
    <2>1. i \in cooling /\ cooling' = cooling \ {i} /\ Insert(i) /\ UNCHANGED <<mode, accepted, readerVars>>
        BY <1>3 DEF Cools
    <2>2. Has(accepted, i) /\ ~Has(queue, i)
        BY <2>1 DEF Held
    <2>3. Once(queue') /\ \A j : Has(queue', j) => Has(queue, j) \/ j = i
        BY <2>1, <2>2, TakenQueue DEF Held
    <2>4. \A j \in Item : Has(queue', j) => Has(accepted', j)
        BY <2>1, <2>2, <2>3 DEF Held
    <2>5. \A j \in cooling' : Has(accepted', j) /\ ~Has(queue', j) /\ mode' = "reuse"
        BY <2>1, <2>3 DEF Held
    <2>6. \A e \in Exp : Has(Handed', e) => Has(accepted', e[1])
        BY <2>1, SameHanded DEF Held
    <2> QED BY <2>3, <2>4, <2>5, <2>6 DEF Held
<1>4. ASSUME NEW n \in DOMAIN queue, Got(n) PROVE Held'
    <2>1. /\ Drawn(queue', queue) /\ queue' \in Seq(Item) /\ Gotten(n)
          /\ UNCHANGED <<mode, accepted>>
          /\ cooling' = IF mode = "reuse" /\ ~closed THEN cooling \cup {queue[n]} ELSE cooling
        BY <1>4 DEF Got, writerVars
    <2>2. ~Has(queue', queue[n])
        BY <1>4, GotLeaves DEF Held
    <2>3. Once(queue') /\ \A j : Has(queue', j) => Has(queue, j)
        BY <2>1, OnceDrawn, HasDrawn DEF Held
    <2>4. queue[n] \in Item /\ Has(accepted, queue[n])
        BY <1>0, QueueHas DEF Held
    <2>5. \A i \in Item : Has(queue', i) => Has(accepted', i)
        BY <2>1, <2>3 DEF Held
    <2>6. \A i \in cooling' : Has(accepted', i) /\ ~Has(queue', i) /\ mode' = "reuse"
        <3> SUFFICES ASSUME NEW i \in cooling' PROVE Has(accepted', i) /\ ~Has(queue', i) /\ mode' = "reuse"
            OBVIOUS
        <3>1. CASE i \in cooling
            BY <2>1, <2>3, <3>1 DEF Held
        <3>2. CASE i \notin cooling
            <4>1. i = queue[n] /\ mode = "reuse"
                BY <2>1, <3>2
            <4> QED BY <2>1, <2>2, <2>4, <4>1
        <3> QED BY <3>1, <3>2
    <2>7. \A e \in Exp : Has(Handed', e) => Has(accepted', e[1])
        <3>1. \A e : Has(Handed', e) => Has(Handed, e) \/ e[1] = queue[n]
            BY <2>1, GottenHas
        <3> QED BY <2>1, <2>4, <3>1 DEF Held
    <2> QED BY <2>3, <2>5, <2>6, <2>7 DEF Held
<1>5. CASE Skips
    <2>1. queue' = <<>> /\ UNCHANGED <<mode, cooling, accepted, readerVars>>
        BY <1>5 DEF Skips
    <2>2. Once(queue') /\ \A j : ~Has(queue', j)
        BY <2>1, EmptyHas
    <2>3. \A e \in Exp : Has(Handed', e) => Has(accepted', e[1])
        BY <2>1, SameHanded DEF Held
    <2> QED BY <2>1, <2>2, <2>3 DEF Held
<1> QED BY <1>1, <1>2, <1>3, <1>4, <1>5, Steps

-----------------------------------------------------------------------------
(* Uses of an item.                                                        *)

Limit == IF mode = "reuse" THEN UseLimit ELSE 1

Uses ==
    mode # "fifo" =>
        /\ \A i \in Item : use_count[i] <= Limit /\ (~Has(accepted, i) => use_count[i] = 0)
        /\ \A i \in Item : Has(queue, i) => use_count[i] < Limit
        /\ \A e \in Exp : Times(Handed, e) <= use_count[e[1]]

\* An experience may be used at least once.
LEMMA LimitType == Limit \in Nat /\ Limit > 0
BY ExpQueueAssumption DEF Limit

\* Nothing was used.
LEMMA UsesInit == Init => Uses
<1> SUFFICES ASSUME Init PROVE Uses
    OBVIOUS
<1>1. Handed = <<>> /\ queue = <<>> /\ \A i \in Item : use_count[i] = 0
    BY HandedInit DEF Init
<1>2. \A e \in Exp : Times(Handed, e) = 0 /\ e[1] \in Item
    BY <1>1, TimesEmpty DEF Exp
<1>3. \A i : ~Has(queue, i)
    BY <1>1, EmptyHas
<1>4. \A i \in Item : use_count[i] <= Limit
    BY <1>1, LimitType
<1> QED BY <1>1, <1>2, <1>3, <1>4 DEF Uses

\* A step keeps the bound of uses.
LEMMA UsesStep == ASSUME TypeOK, Tidy, Puts, Held, Uses, [Next]_vars PROVE Uses'
<1>0. queue \in Seq(Item) /\ accepted \in Seq(Item) /\ use_count \in [Item -> Nat]
    BY DEF TypeOK
<1>a. \A e \in Exp : e[1] \in Item
    BY DEF Exp
<1>1. CASE Quiet
    <2>1. UNCHANGED <<mode, queue, use_count, accepted>> /\ Passed
        BY <1>1 DEF Quiet, queueVars
    <2>2. Handed \in Seq(Exp) /\ Handed' \in Seq(Exp) /\ Drawn(Handed', Handed)
        BY <2>1, PassedHas DEF Passed
    <2>3. ASSUME mode # "fifo", NEW e \in Exp PROVE Times(Handed', e) <= use_count'[e[1]]
        <3>1. Times(Handed', e) <= Times(Handed, e) /\ Times(Handed', e) \in Nat /\ Times(Handed, e) \in Nat
            BY <2>2, TimesDrawn, TimesType
        <3>2. Times(Handed, e) <= use_count[e[1]] /\ use_count[e[1]] \in Nat
            BY <1>0, <1>a, <2>3 DEF Uses
        <3> QED BY <2>1, <3>1, <3>2
    <2> QED BY <2>1, <2>3 DEF Uses, Limit
<1>2. ASSUME NEW w \in Writers, NEW x \in Item, Takes(w, x) PROVE Uses'
    <2>1. ~Has(accepted, x)
        BY <1>2, TakesNew
    <2>2. accepted' = Append(accepted, x) /\ UNCHANGED <<mode, use_count, readerVars>>
        BY <1>2 DEF Takes, Taken
    <2>3. \A i : Has(accepted', i) <=> Has(accepted, i) \/ i = x
        BY <1>0, <2>2, HasAppend
    <2>4. \A j : Has(queue', j) => Has(queue, j) \/ j = x
        BY <1>2, TakenQueue DEF Takes
    <2>5. Handed' = Handed
        BY <2>2, SameHanded
    <2>6. mode # "fifo" => use_count[x] = 0 /\ use_count[x] < Limit
        BY <2>1, LimitType DEF Uses
    <2>7. Limit' = Limit
        BY <2>2 DEF Limit
    <2> QED BY <2>2, <2>3, <2>4, <2>5, <2>6, <2>7 DEF Uses
<1>3. ASSUME NEW i \in Item, Cools(i) PROVE Uses'
    <2>1. i \in cooling /\ Insert(i) /\ UNCHANGED <<mode, use_count, accepted, readerVars>>
        BY <1>3 DEF Cools
    <2>2. Handed' = Handed /\ Limit' = Limit /\ mode = "reuse"
        BY <2>1, SameHanded DEF Limit, Held
    <2>3. \A j : Has(queue', j) => Has(queue, j) \/ (j = i /\ MayQueue(i))
        BY <2>1, InsertKeeps DEF TypeOK
    <2>4. MayQueue(i) => use_count[i] < Limit
        BY <2>2 DEF MayQueue, Limit
    <2> QED BY <2>1, <2>2, <2>3, <2>4 DEF Uses
<1>4. ASSUME NEW n \in DOMAIN queue, Got(n) PROVE Uses'
    <2>1. /\ Drawn(queue', queue) /\ Gotten(n) /\ UNCHANGED <<mode, accepted>>
          /\ use_count' = IF mode = "fifo" THEN use_count ELSE [use_count EXCEPT ![queue[n]] = @ + 1]
        BY <1>4 DEF Got, writerVars
    <2>2. SUFFICES ASSUME mode # "fifo" PROVE Uses'
        BY <2>1 DEF Uses
    <2>3. PICK i \in Item : i = queue[n] /\ Has(queue, i) /\ Has(accepted, i)
        BY <1>0, QueueHas DEF Held
    <2>4. /\ use_count'[i] = use_count[i] + 1
          /\ \A j \in Item \ {i} : use_count'[j] = use_count[j]
        BY <1>0, <2>1, <2>2, <2>3
    <2>5. use_count[i] < Limit /\ use_count[i] \in Nat /\ Limit \in Nat
        BY <1>0, <2>2, <2>3, LimitType DEF Uses
    <2>6. \A j \in Item : use_count'[j] <= Limit /\ (~Has(accepted, j) => use_count'[j] = 0)
        <3> TAKE j \in Item
        <3>1. CASE j = i
            <4>1. use_count[i] + 1 <= Limit
                BY <2>5
            <4> QED BY <2>3, <2>4, <3>1, <4>1
        <3>2. CASE j # i
            BY <2>2, <2>4, <3>2 DEF Uses
        <3> QED BY <3>1, <3>2
    <2>7. \A j \in Item : Has(queue', j) => use_count'[j] < Limit
        <3> SUFFICES ASSUME NEW j \in Item, Has(queue', j) PROVE use_count'[j] < Limit
            OBVIOUS
        <3>1. Has(queue, j) /\ j # i
            BY <1>4, <2>1, <2>3, GotLeaves, HasDrawn DEF Held
        <3> QED BY <2>2, <2>4, <3>1 DEF Uses
    <2>8. \A e \in Exp : Times(Handed', e) <= use_count'[e[1]]
        <3> TAKE e \in Exp
        <3>1. /\ Handed \in Seq(Exp) /\ ExpsOf(i) \in Seq(Exp) /\ Handed' \in Seq(Exp)
              /\ Handed \o ExpsOf(i) \in Seq(Exp) /\ Drawn(Handed', Handed \o ExpsOf(i))
            BY <2>1, <2>3, GottenHas DEF Gotten
        <3>2. Times(Handed', e) <= Times(Handed \o ExpsOf(i), e)
            BY <3>1, TimesDrawn
        <3>3. Times(Handed \o ExpsOf(i), e) = Times(Handed, e) + Times(ExpsOf(i), e)
            BY <3>1, TimesConcat
        <3>4. Times(ExpsOf(i), e) <= 1 /\ (e[1] # i => Times(ExpsOf(i), e) = 0)
            BY TimesInItem
        <3>5. Times(Handed', e) \in Nat /\ Times(Handed, e) \in Nat /\ Times(ExpsOf(i), e) \in Nat
            BY <3>1, TimesType
        <3>6. Times(Handed, e) <= use_count[e[1]] /\ use_count[e[1]] \in Nat /\ e[1] \in Item
            BY <1>0, <1>a, <2>2 DEF Uses
        <3>7. CASE e[1] = i
            BY <2>4, <3>2, <3>3, <3>4, <3>5, <3>6, <3>7
        <3>8. CASE e[1] # i
            BY <2>4, <3>2, <3>3, <3>4, <3>5, <3>6, <3>8
        <3> QED BY <3>7, <3>8
    <2>9. Limit' = Limit
        BY <2>1 DEF Limit
    <2> QED BY <2>1, <2>6, <2>7, <2>8, <2>9 DEF Uses
<1>5. CASE Skips
    <2>1. queue' = <<>> /\ UNCHANGED <<mode, use_count, accepted, readerVars>>
        BY <1>5 DEF Skips
    <2>2. Handed' = Handed /\ Limit' = Limit /\ \A j : ~Has(queue', j)
        BY <2>1, SameHanded, EmptyHas DEF Limit
    <2> QED BY <2>1, <2>2 DEF Uses
<1> QED BY <1>1, <1>2, <1>3, <1>4, <1>5, Steps

-----------------------------------------------------------------------------
(* Order: without a replay buffer all keep the order of acceptance.        *)

Order ==
    mode = "fifo" =>
        /\ \A m, n \in 1 .. Len(queue) : m < n => Pos(accepted, queue[m]) < Pos(accepted, queue[n])
        /\ Sorted(accepted, Handed)
        /\ \A e \in Exp, i \in Item :
                Has(Handed, e) /\ Has(queue, i) => Pos(accepted, e[1]) < Pos(accepted, i)
        /\ reader.pc \in {"idle", "get"} =>
                \A i \in Item, k \in 1 .. Size :
                    Has(accepted, i) /\ ~Has(queue, i) /\ FreshItem(i) /\ Fresh(<<i, k>>, reader.min)
                        => Has(Handed, <<i, k>>)

\* Nothing is in disorder.
LEMMA OrderInit == Init => Order
<1> SUFFICES ASSUME Init PROVE Order
    OBVIOUS
<1>1. Handed = <<>> /\ queue = <<>> /\ accepted = <<>>
    BY HandedInit DEF Init
<1>2. Len(<<>>) = 0
    BY EmptySeq
<1>3. 1 .. Len(<<>>) = {}
    BY <1>2
<1> QED BY <1>1, <1>3, EmptyHas DEF Order, Sorted

\* Versions are numbers.
LEMMA FreshType ==
    ASSUME TypeOK
    PROVE  /\ \A i \in Item, k \in 1 .. Size : version[i][k] \in Nat
           /\ reader.min \in Nat /\ Size \in Nat /\ 1 \in 1 .. Size
<1>1. Size \in Nat /\ 1 \in 1 .. Size /\ MaxVersion \in Nat
    BY ExpQueueAssumption
<1>2. \A i \in Item : version[i] \in [1 .. Size -> 0 .. MaxVersion]
    BY ExpQueueAssumption DEF TypeOK
<1>3. \A v \in [1 .. Size -> 0 .. MaxVersion], k \in 1 .. Size : v[k] \in Nat
    BY <1>1
<1>4. reader.min \in 0 .. MaxVersion
    BY DEF TypeOK
<1> QED BY <1>1, <1>2, <1>3, <1>4

\* What an older model may write is fresh no longer, and stays so.
LEMMA FreshStays ==
    ASSUME TypeOK, NEW i \in Item, NEW k \in 1 .. Size, NEW min \in Nat, reader.min <= min,
           Fresh(<<i, k>>, min)
    PROVE  Fresh(<<i, k>>, reader.min)
<1>1. version[i][k] >= min
    BY DEF Fresh
<1>2. version[i][k] \in Nat /\ reader.min \in Nat
    BY FreshType
<1>3. version[i][k] >= reader.min
    BY <1>1, <1>2
<1> QED BY <1>3 DEF Fresh

\* What is fresh stays so while no call of get_batch starts.
LEMMA SameFresh ==
    ASSUME version' = version
    PROVE  /\ \A e, min : Fresh(e, min)' <=> Fresh(e, min)
           /\ reader'.min = reader.min => \A i : FreshItem(i)' <=> FreshItem(i)
BY DEF Fresh, FreshItem

\* Experiences handed out or held are of accepted items.
LEMMA HeldHas ==
    ASSUME Held, Handed \in Seq(Exp)
    PROVE  \A n \in 1 .. Len(Handed) : Has(accepted, Handed[n][1])
<1> TAKE n \in 1 .. Len(Handed)
<1>1. Handed[n] \in Exp
    BY ElementOfSeq
<1>2. Has(Handed, Handed[n])
    BY DEF Has
<1> QED BY <1>1, <1>2 DEF Held

\* An accepted item goes to the end.
LEMMA OrderTakes ==
    ASSUME TypeOK, Puts, Held, Order, NEW w \in Writers, NEW x \in Item, Takes(w, x)
    PROVE  Order'
<1>0. queue \in Seq(Item) /\ accepted \in Seq(Item) /\ Handed \in Seq(Exp)
    BY HandedType DEF TypeOK, ReaderType
<1>1. SUFFICES ASSUME mode' = "fifo" PROVE Order'
    BY DEF Order
<1>2. /\ accepted' = Append(accepted, x) /\ UNCHANGED <<mode, version, readerVars>>
      /\ mode = "fifo" /\ queue' = Append(queue, x)
    BY <1>1 DEF Takes, Taken
<1>3. ~Has(accepted, x)
    BY TakesNew
<1>4. Handed' = Handed /\ reader' = reader
    BY <1>2, SameHanded
<1>5. /\ \A i : Has(accepted, i) => Pos(accepted', i) = Pos(accepted, i)
      /\ \A i : Has(accepted, i) => Pos(accepted, i) < Pos(accepted', x)
    BY <1>0, <1>2, <1>3, PosAppend DEF Puts
<1>6. \A i : Has(accepted', i) <=> Has(accepted, i) \/ i = x
    BY <1>0, <1>2, HasAppend
<1>7. \A i : Has(queue', i) <=> Has(queue, i) \/ i = x
    BY <1>0, <1>2, HasAppend
<1>8. \A m, n \in 1 .. Len(queue') : m < n => Pos(accepted', queue'[m]) < Pos(accepted', queue'[n])
    <2>1. /\ Len(queue') = Len(queue) + 1 /\ Len(queue) \in Nat
          /\ \A n \in 1 .. Len(queue) : queue'[n] = queue[n]
          /\ queue'[Len(queue) + 1] = x
          /\ \A n \in 1 .. Len(queue) + 1 : n \in 1 .. Len(queue) \/ n = Len(queue) + 1
        BY <1>0, <1>2, AppendIs
    <2>2. \A n \in 1 .. Len(queue) : Has(accepted, queue[n])
        BY <1>0, QueueHas DEF Held
    <2> SUFFICES ASSUME NEW m \in 1 .. Len(queue'), NEW n \in 1 .. Len(queue'), m < n
                 PROVE  Pos(accepted', queue'[m]) < Pos(accepted', queue'[n])
        OBVIOUS
    <2>3. CASE n \in 1 .. Len(queue)
        <3>1. m \in 1 .. Len(queue)
            BY <2>1, <2>3
        <3>2. Pos(accepted, queue[m]) < Pos(accepted, queue[n])
            BY <1>2, <2>3, <3>1 DEF Order
        <3> QED BY <1>5, <2>1, <2>2, <2>3, <3>1, <3>2
    <2>4. CASE n = Len(queue) + 1
        <3>1. m \in 1 .. Len(queue)
            BY <2>1, <2>4
        <3> QED BY <1>5, <2>1, <2>2, <2>4, <3>1
    <2> QED BY <2>1, <2>3, <2>4
<1>9. Sorted(accepted', Handed')
    <2>1. Sorted(accepted, Handed) /\ Once(accepted) /\ \A n \in 1 .. Len(Handed) : Has(accepted, Handed[n][1])
        BY <1>0, <1>2, HeldHas DEF Order, Puts
    <2>2. Sorted(Append(accepted, x), Handed)
        BY <1>0, <1>3, <2>1, SortedAppend
    <2> QED BY <1>2, <1>4, <2>2
<1>10. \A e \in Exp, i \in Item :
            Has(Handed', e) /\ Has(queue', i) => Pos(accepted', e[1]) < Pos(accepted', i)
    <2> SUFFICES ASSUME NEW e \in Exp, NEW i \in Item, Has(Handed, e), Has(queue', i)
                 PROVE  Pos(accepted', e[1]) < Pos(accepted', i)
        BY <1>4
    <2>1. Has(accepted, e[1])
        BY DEF Held
    <2>2. CASE Has(queue, i)
        <3>1. Pos(accepted, e[1]) < Pos(accepted, i) /\ Has(accepted, i)
            BY <1>2, <2>2 DEF Order, Held
        <3> QED BY <1>5, <2>1, <3>1
    <2>3. CASE i = x
        BY <1>5, <2>1, <2>3
    <2> QED BY <1>7, <2>2, <2>3
<1>11. ASSUME reader'.pc \in {"idle", "get"}, NEW i \in Item, NEW k \in 1 .. Size,
              Has(accepted', i), ~Has(queue', i), FreshItem(i)', Fresh(<<i, k>>, reader.min)'
       PROVE  Has(Handed', <<i, k>>)
    <2>1. Has(accepted, i) /\ ~Has(queue, i)
        BY <1>6, <1>7, <1>11
    <2>2. FreshItem(i) /\ Fresh(<<i, k>>, reader.min)
        BY <1>2, <1>4, <1>11 DEF Fresh, FreshItem
    <2> QED BY <1>2, <1>4, <1>11, <2>1, <2>2 DEF Order
<1> QED BY <1>8, <1>9, <1>10, <1>11 DEF Order

\* The rest of the order: what a step may do to it that accepts nothing.
LEMMA OrderGot ==
    ASSUME TypeOK, Puts, Held, Order, NEW n \in DOMAIN queue, Got(n), reader.pc = "get"
    PROVE  Order'
<1>0. queue \in Seq(Item) /\ accepted \in Seq(Item) /\ Handed \in Seq(Exp)
    BY HandedType DEF TypeOK, ReaderType
<1>1. /\ Drawn(queue', queue) /\ queue' \in Seq(Item) /\ Gotten(n) /\ UNCHANGED <<mode, version, accepted>>
      /\ FreshItem(queue[n]) /\ queue[n] \in Item
      /\ \A m \in DOMAIN queue : Before(m, n) => ~FreshItem(queue[m])
      /\ \A m \in DOMAIN queue : Before(n, m) => Has(queue', queue[m])
      /\ \A j : Has(queue', j) => \E m \in DOMAIN queue : Before(n, m) /\ queue[m] = j
    BY DEF Got, writerVars
<1>2. SUFFICES ASSUME mode = "fifo" PROVE Order'
    BY <1>1 DEF Order
<1>3. PICK i : i = queue[n]
    OBVIOUS
<1>4. i \in Item /\ Has(queue, i) /\ Has(accepted, i) /\ n \in 1 .. Len(queue) /\ Len(queue) \in Nat
    BY <1>0, <1>3, QueueHas DEF Held
<1>5. /\ \A l, m \in 1 .. Len(queue) : l < m => Pos(accepted, queue[l]) < Pos(accepted, queue[m])
      /\ Sorted(accepted, Handed)
      /\ \A e \in Exp, j \in Item :
                Has(Handed, e) /\ Has(queue, j) => Pos(accepted, e[1]) < Pos(accepted, j)
    BY <1>2 DEF Order
<1>6. \A l, m \in 1 .. Len(queue') : l < m => Pos(accepted, queue'[l]) < Pos(accepted, queue'[m])
    <2>1. PICK f \in [1 .. Len(queue') -> 1 .. Len(queue)] :
              /\ \A l, m \in 1 .. Len(queue') : l < m => f[l] < f[m]
              /\ \A l \in 1 .. Len(queue') : queue'[l] = queue[f[l]]
        BY <1>1 DEF Drawn
    <2> SUFFICES ASSUME NEW l \in 1 .. Len(queue'), NEW m \in 1 .. Len(queue'), l < m
                 PROVE  Pos(accepted, queue'[l]) < Pos(accepted, queue'[m])
        OBVIOUS
    <2>2. f[l] < f[m] /\ f[l] \in 1 .. Len(queue) /\ f[m] \in 1 .. Len(queue)
        BY <2>1
    <2> QED BY <1>5, <2>1, <2>2
<1>7. /\ ExpsOf(i) \in Seq(Exp) /\ Handed \o ExpsOf(i) \in Seq(Exp)
      /\ Drawn(Handed', Handed \o ExpsOf(i))
      /\ \A e : Has(Handed', e) => Has(Handed, e) \/ e[1] = i
    BY <1>1, <1>3, GottenHas DEF Gotten
<1>8. Sorted(accepted, Handed \o ExpsOf(i))
    <2>1. /\ Len(ExpsOf(i)) = Size /\ \A k \in 1 .. Size : ExpsOf(i)[k] = <<i, k>>
        BY <1>4, ExpsOfType
    <2>2. ASSUME NEW l \in 1 .. Len(Handed), NEW k \in 1 .. Len(ExpsOf(i))
          PROVE  Earlier(accepted, Handed[l], ExpsOf(i)[k])
        <3>1. Handed[l] \in Exp /\ Has(Handed, Handed[l])
            BY <1>0, ElementOfSeq DEF Has
        <3>2. Pos(accepted, Handed[l][1]) < Pos(accepted, i)
            BY <1>4, <1>5, <3>1
        <3>3. ExpsOf(i)[k][1] = i
            BY <2>1
        <3> QED BY <3>2, <3>3 DEF Earlier
    <2>3. Sorted(accepted, ExpsOf(i))
        BY <1>4, SortedItem
    <2> QED BY <1>0, <1>5, <1>7, <2>2, <2>3, SortedConcat
<1>9. Sorted(accepted, Handed')
    BY <1>7, <1>8, SortedDrawn
<1>10. ASSUME NEW j \in Item, Has(queue', j) PROVE Has(queue, j) /\ Pos(accepted, i) < Pos(accepted, j)
    <2>1. PICK m \in DOMAIN queue : Before(n, m) /\ queue[m] = j
        BY <1>1, <1>10
    <2>2. n < m /\ m \in 1 .. Len(queue)
        BY <1>0, <1>2, <2>1, QueueHas DEF Before
    <2> QED BY <1>3, <1>4, <1>5, <2>1, <2>2 DEF Has
<1>11. \A e \in Exp, j \in Item :
            Has(Handed', e) /\ Has(queue', j) => Pos(accepted, e[1]) < Pos(accepted, j)
    BY <1>5, <1>7, <1>10
<1>12. reader'.min = reader.min
    BY <1>1 DEF Gotten
<1>13. ASSUME reader'.pc \in {"idle", "get"}, NEW j \in Item, NEW k \in 1 .. Size,
              Has(accepted', j), ~Has(queue', j), FreshItem(j)', Fresh(<<j, k>>, reader.min)'
       PROVE  Has(Handed', <<j, k>>)
    <2>1. FreshItem(j) /\ Fresh(<<j, k>>, reader.min)
        BY <1>1, <1>12, <1>13 DEF Fresh, FreshItem
    <2>2. Has(Handed \o ExpsOf(i), <<j, k>>) <=> Has(Handed, <<j, k>>) \/ Has(ExpsOf(i), <<j, k>>)
        BY <1>0, <1>7, HasConcat
    <2>3. CASE ~Has(queue, j)
        <3>1. Has(Handed, <<j, k>>)
            BY <1>1, <1>2, <1>13, <2>1, <2>3 DEF Order
        <3> QED BY <1>1, <1>3, <1>13, <2>1, <2>2, <3>1 DEF Gotten
    <2>4. CASE Has(queue, j)
        <3>1. PICK m \in DOMAIN queue : queue[m] = j
            BY <1>0, <2>4, QueueHas
        <3>2. m \in 1 .. Len(queue) /\ n \in 1 .. Len(queue)
            BY <1>0, QueueHas
        <3>3. ~(n < m)
            BY <1>1, <1>2, <1>13, <3>1 DEF Before
        <3>4. ~(m < n)
            BY <1>1, <1>2, <2>1, <3>1 DEF Before
        <3>5. m = n
            BY <3>2, <3>3, <3>4
        <3>6. Has(ExpsOf(i), <<j, k>>)
            BY <1>3, <1>4, <3>1, <3>5, ItemHas
        <3> QED BY <1>1, <1>3, <1>13, <2>1, <2>2, <3>6 DEF Gotten
    <2> QED BY <2>3, <2>4
<1> QED BY <1>1, <1>6, <1>9, <1>11, <1>13 DEF Order

\* A step keeps the order.
LEMMA OrderStep == ASSUME TypeOK, Tidy, Puts, Held, Order, [Next]_vars PROVE Order'
<1>0. queue \in Seq(Item) /\ accepted \in Seq(Item) /\ cooling \subseteq Item
    BY DEF TypeOK
<1>1. CASE Quiet
    <2>1. UNCHANGED <<mode, version, queue, accepted>> /\ Passed
        BY <1>1 DEF Quiet, queueVars
    <2>2. Drawn(Handed', Handed) /\ \A e : Has(Handed', e) => Has(Handed, e)
        BY <2>1, PassedHas DEF Passed
    <2>3. SUFFICES ASSUME mode = "fifo" PROVE Order'
        BY <2>1 DEF Order
    <2>4. Sorted(accepted', Handed')
        BY <2>1, <2>2, <2>3, SortedDrawn DEF Order
    <2>5. /\ \A m, n \in 1 .. Len(queue') : m < n => Pos(accepted', queue'[m]) < Pos(accepted', queue'[n])
          /\ \A e \in Exp, i \in Item :
                Has(Handed', e) /\ Has(queue', i) => Pos(accepted', e[1]) < Pos(accepted', i)
        BY <2>1, <2>2, <2>3 DEF Order
    <2>6. ASSUME reader'.pc \in {"idle", "get"}, NEW i \in Item, NEW k \in 1 .. Size,
                 Has(accepted', i), ~Has(queue', i), FreshItem(i)', Fresh(<<i, k>>, reader.min)'
          PROVE  Has(Handed', <<i, k>>)
        <3>1. reader.pc \in {"idle", "get"} /\ reader.min <= reader'.min
              /\ \A e : Has(Handed, e) /\ Fresh(e, reader'.min) => Has(Handed', e)
            BY <2>1, <2>6 DEF Passed
        <3>2. reader'.min \in Nat
            <4>1. reader'.min \in 0 .. MaxVersion
                BY <2>1 DEF Passed, ReaderType
            <4> QED BY <4>1, ExpQueueAssumption
        <3>3. Fresh(<<i, 1>>, reader'.min) /\ Fresh(<<i, k>>, reader'.min)
            BY <2>1, <2>6 DEF Fresh, FreshItem
        <3>4. FreshItem(i) /\ Fresh(<<i, k>>, reader.min)
            BY <3>1, <3>2, <3>3, FreshStays, FreshType DEF FreshItem
        <3>5. Has(Handed, <<i, k>>)
            BY <2>1, <2>3, <2>6, <3>1, <3>4 DEF Order
        <3> QED BY <3>1, <3>3, <3>5
    <2> QED BY <2>4, <2>5, <2>6 DEF Order
<1>2. ASSUME NEW i \in Item, Cools(i) PROVE Order'
    <2>1. mode' = "reuse"
        BY <1>2 DEF Cools, Held
    <2> QED BY <2>1 DEF Order
<1>3. CASE Skips
    <2>1. queue' = <<>> /\ UNCHANGED <<mode, version, accepted, readerVars>>
          /\ \A n \in DOMAIN queue : ~FreshItem(queue[n])
        BY <1>3 DEF Skips
    <2>2. Handed' = Handed /\ reader' = reader /\ \A j : ~Has(queue', j)
        BY <2>1, SameHanded, EmptyHas
    <2>3. SUFFICES ASSUME mode = "fifo" PROVE Order'
        BY <2>1 DEF Order
    <2>4. \A m, n \in 1 .. Len(queue') : m < n => Pos(accepted', queue'[m]) < Pos(accepted', queue'[n])
        <3>1. Len(<<>>) = 0
            BY EmptySeq
        <3>2. 1 .. Len(queue') = {}
            BY <2>1, <3>1
        <3> QED BY <3>2
    <2>5. ASSUME reader'.pc \in {"idle", "get"}, NEW i \in Item, NEW k \in 1 .. Size,
                 Has(accepted', i), FreshItem(i)', Fresh(<<i, k>>, reader.min)'
          PROVE  Has(Handed', <<i, k>>)
        <3>1. FreshItem(i) /\ Fresh(<<i, k>>, reader.min)
            BY <2>1, <2>2, <2>5 DEF Fresh, FreshItem
        <3>2. ~Has(queue, i)
            BY <1>0, <2>1, <3>1, QueueHas
        <3> QED BY <2>1, <2>2, <2>3, <2>5, <3>1, <3>2 DEF Order
    <2> QED BY <2>1, <2>2, <2>3, <2>4, <2>5 DEF Order
<1> QED BY <1>1, <1>2, <1>3, OrderTakes, OrderGot, Steps

-----------------------------------------------------------------------------
(* The inductive invariant and what follows from it.                       *)

IInv == TypeOK /\ Refs /\ Tidy /\ Puts /\ Held /\ Uses /\ Order

\* The invariant is inductive.
LEMMA IInvHolds == Spec => []IInv
<1>1. Init => IInv
    <2>1. Init => Tidy
        BY DEF Init, Tidy
    <2> QED BY <2>1, TypeInit, PutsInit, HeldInit, UsesInit, OrderInit DEF IInv
<1>2. IInv /\ [Next]_vars => IInv'
    BY TypeStep, PutsStep, HeldStep, UsesStep, OrderStep DEF IInv
<1> QED BY <1>1, <1>2, PTL DEF Spec

\* Numbering by a major and a minor number keeps their order.
LEMMA Multiples ==
    ASSUME NEW p \in Nat, NEW q \in Nat, NEW s \in Nat \ {0}, p < q,
           NEW a \in 1 .. s, NEW b \in 1 .. s
    PROVE  p * s + a < q * s + b
<1>1. PICK d \in Nat : q = p + 1 + d
    <2>1. q - p - 1 \in Nat /\ q = p + 1 + (q - p - 1)
        OBVIOUS
    <2> QED BY <2>1
<1>2. q * s = p * s + s + d * s
    BY <1>1
<1>3. d * s \in Nat /\ p * s \in Nat
    OBVIOUS
<1>4. a <= s /\ b >= 1 /\ a \in Nat /\ b \in Nat
    OBVIOUS
<1>5. PICK x \in Nat, y \in Nat, z \in Nat : x = p * s /\ y = d * s /\ z = q * s
    <2>1. q * s \in Nat
        OBVIOUS
    <2> QED BY <1>3, <2>1
<1>6. z = x + s + y
    BY <1>2, <1>5
<1>7. x + a < z + b
    BY <1>4, <1>6
<1> QED BY <1>5, <1>7

\* What was delivered stands at the front of what was handed out or is held.
LEMMA DeliveredIn ==
    ASSUME TypeOK
    PROVE  /\ DOMAIN delivered = 1 .. Len(delivered) /\ Len(delivered) \in Nat
           /\ \A n \in 1 .. Len(delivered) : n \in 1 .. Len(Handed) /\ Handed[n] = delivered[n]
           /\ \A e : Times(delivered, e) \in Nat /\ Times(Handed, e) \in Nat
                        /\ Times(delivered, e) <= Times(Handed, e)
<1>1. PICK r : r = reader.result \o exp_pool
    OBVIOUS
<1>2. delivered \in Seq(Exp) /\ r \in Seq(Exp) /\ Handed \in Seq(Exp)
    BY <1>1, HandedType DEF TypeOK, ReaderType
<1>3. Handed = delivered \o r
    BY <1>1 DEF Handed
<1>4. /\ Len(delivered \o r) = Len(delivered) + Len(r)
      /\ Len(delivered) \in Nat /\ Len(r) \in Nat
      /\ \A n \in 1 .. Len(delivered) : (delivered \o r)[n] = delivered[n]
    BY <1>2, Concat
<1>5. DOMAIN delivered = 1 .. Len(delivered)
    BY <1>2, LenProperties
<1>6. \A n \in 1 .. Len(delivered) : n \in 1 .. Len(Handed) /\ Handed[n] = delivered[n]
    BY <1>3, <1>4
<1>7. ASSUME NEW e
      PROVE  Times(delivered, e) \in Nat /\ Times(Handed, e) \in Nat
                /\ Times(delivered, e) <= Times(Handed, e)
    <2>1. Times(delivered \o r, e) = Times(delivered, e) + Times(r, e)
        BY <1>2, TimesConcat
    <2>2. Times(delivered, e) \in Nat /\ Times(r, e) \in Nat
        BY <1>2, TimesType
    <2> QED BY <1>3, <2>1, <2>2
<1> QED BY <1>4, <1>5, <1>6, <1>7

\* The order of all that was handed out or is held is the order of what was delivered.
LEMMA OrderShows == IInv => FifoOrder
<1> SUFFICES ASSUME IInv, mode = "fifo" PROVE FifoOrder
    BY DEF FifoOrder
<1> DEFINE Place(e) == (CHOOSE n \in DOMAIN accepted : accepted[n] = e[1]) * Size + e[2]
<1>0. accepted \in Seq(Item) /\ delivered \in Seq(Exp) /\ Handed \in Seq(Exp) /\ TypeOK /\ Held /\ Order
    BY HandedType DEF IInv, TypeOK, ReaderType
<1>1. \A e : Place(e) = Pos(accepted, e[1]) * Size + e[2]
    BY DEF Pos
<1> HIDE DEF Place
<1>2. SUFFICES ASSUME NEW m \in DOMAIN delivered, NEW n \in DOMAIN delivered, m < n
               PROVE  Place(delivered[m]) < Place(delivered[n])
    BY DEF FifoOrder, Place
<1>3. /\ m \in 1 .. Len(delivered) /\ n \in 1 .. Len(delivered)
      /\ m \in 1 .. Len(Handed) /\ n \in 1 .. Len(Handed)
      /\ Handed[m] = delivered[m] /\ Handed[n] = delivered[n]
    BY <1>0, DeliveredIn
<1>4. PICK d \in Exp, e \in Exp : d = delivered[m] /\ e = delivered[n]
    BY <1>0, <1>3, ElementOfSeq
<1>5. Earlier(accepted, d, e)
    BY <1>0, <1>2, <1>3, <1>4 DEF Order, Sorted
<1>6. Has(accepted, d[1]) /\ Has(accepted, e[1])
    BY <1>0, <1>3, <1>4, HeldHas
<1>7. PICK p \in Nat, q \in Nat : p = Pos(accepted, d[1]) /\ q = Pos(accepted, e[1])
    <2>1. Pos(accepted, d[1]) \in 1 .. Len(accepted) /\ Pos(accepted, e[1]) \in 1 .. Len(accepted)
        BY <1>0, <1>6, PosType
    <2>2. Len(accepted) \in Nat
        BY <1>0, LenProperties
    <2> QED BY <2>1, <2>2
<1>8. PICK a \in 1 .. Size, b \in 1 .. Size : a = d[2] /\ b = e[2]
    BY DEF Exp
<1>9. p < q \/ (p = q /\ a < b)
    BY <1>5, <1>7, <1>8 DEF Earlier
<1>10. Size \in Nat \ {0}
    BY ExpQueueAssumption
<1>11. p * Size + a < q * Size + b
    <2>1. CASE p < q
        BY <1>10, <2>1, Multiples
    <2>2. CASE p = q /\ a < b
        <3>1. PICK x \in Nat : x = p * Size
            BY <1>10
        <3>2. a \in Nat /\ b \in Nat
            BY <1>10
        <3>3. x + a < x + b
            BY <2>2, <3>1, <3>2
        <3> QED BY <2>2, <3>1, <3>3
    <2> QED BY <1>9, <2>1, <2>2
<1> QED BY <1>1, <1>4, <1>7, <1>8, <1>11

\* Nothing fresh is lost, said with sets.
LEMMA LossShows == IInv => NoFreshExperienceLost
<1> SUFFICES ASSUME IInv, mode = "fifo", reader.pc \in {"idle", "get"},
                    NEW i \in ToSet(accepted), FreshItem(i), i \notin ToSet(queue),
                    NEW e \in ToSet(ExpsOf(i)), Fresh(e, reader.min)
             PROVE  e \in ToSet(exp_pool) \cup ToSet(reader.result) \cup ToSet(delivered)
    BY DEF NoFreshExperienceLost
<1>0. accepted \in Seq(Item) /\ queue \in Seq(Item) /\ exp_pool \in Seq(Exp) /\ delivered \in Seq(Exp)
      /\ reader.result \in Seq(Exp) /\ TypeOK /\ Order
      /\ \A d : Has(Handed, d) <=> Has(delivered, d) \/ Has(reader.result, d) \/ Has(exp_pool, d)
    BY HandedType DEF IInv, TypeOK, ReaderType
<1>1. \A s \in Seq(Item) \cup Seq(Exp) : \A x : x \in ToSet(s) <=> Has(s, x)
    <2> TAKE s \in Seq(Item) \cup Seq(Exp)
    <2>1. DOMAIN s = 1 .. Len(s)
        BY LenProperties
    <2> QED BY <2>1 DEF ToSet, Has
<1>2. i \in Item /\ Has(accepted, i) /\ ~Has(queue, i)
    BY <1>0, <1>1, HasType
<1>3. PICK k \in 1 .. Size : e = <<i, k>>
    <2>1. ExpsOf(i) \in Seq(Exp) /\ Len(ExpsOf(i)) = Size /\ \A k \in 1 .. Size : ExpsOf(i)[k] = <<i, k>>
        BY <1>2, ExpsOfType
    <2>2. Has(ExpsOf(i), e)
        BY <1>1, <2>1
    <2> QED BY <2>1, <2>2 DEF Has
<1>4. Has(Handed, e)
    BY <1>0, <1>2, <1>3 DEF Order
<1> QED BY <1>0, <1>1, <1>4

\* Without a replay buffer experiences reach the trainer in the order in which their items
\* were accepted, and none twice, however writers wait and wake and whatever is stale
\* (QueueStorage.get_batch over AsyncQueue).
THEOREM FifoKept == Spec => []FifoOrder
BY IInvHolds, OrderShows, PTL

\* Without a replay buffer no fresh experience of an accepted item is lost while the trainer
\* reads, although get throws away stale items and get_batch stale experiences
\* (AsyncQueue.get, QueueStorage.get_batch).
THEOREM FreshKept == Spec => []NoFreshExperienceLost
BY IInvHolds, LossShows, PTL

-----------------------------------------------------------------------------
(* The queue is an ExpBuffer.                                              *)

written == {e \in Exp : e[1] \in ToSet(accepted)}
taken == [e \in Exp |-> Cardinality({n \in DOMAIN delivered : delivered[n] = e})]
over == reader.pc = "stopped"

\* What a step hands to the trainer: nothing, or a full batch of what it held or got.
Hands ==
    \/ delivered' = delivered /\ (over => over')
    \/ \E b \in Seq(Exp) :
        /\ delivered' = delivered \o b /\ Len(b) = BatchSize /\ ~over /\ ~over'
        /\ UNCHANGED <<mode, accepted>>
        /\ \A e : Has(b, e) => Has(Handed, e) \/ Has(queue, e[1])

\* What the head of the loop hands to the trainer.
LEMMA LoopHands ==
    ASSUME ReaderType, NEW pool \in Seq(Exp), NEW min \in 0 .. MaxVersion,
           Loop(pool, reader.result, min), ~over, UNCHANGED <<mode, accepted>>,
           \A e : Has(pool, e) => Has(exp_pool, e) \/ Has(queue, e[1])
    PROVE  Hands
<1>1. delivered \in Seq(Exp) /\ reader.result \in Seq(Exp)
      /\ \A e : Has(Handed, e) <=> Has(delivered, e) \/ Has(reader.result, e) \/ Has(exp_pool, e)
    BY HandedType DEF ReaderType
<1>2. \/ delivered' = delivered
      \/ \E b \in Seq(Exp) : /\ delivered' = delivered \o b /\ Len(b) = BatchSize
                             /\ reader'.pc = "idle"
                             /\ \A e : Has(b, e) => Has(reader.result, e) \/ Has(pool, e)
    BY <1>1, LoopDraws
<1>3. ASSUME NEW b \in Seq(Exp), delivered' = delivered \o b, Len(b) = BatchSize,
             reader'.pc = "idle", \A e : Has(b, e) => Has(reader.result, e) \/ Has(pool, e)
      PROVE  Hands
    <2>1. ~over'
        BY <1>3 DEF over
    <2>2. \A e : Has(b, e) => Has(Handed, e) \/ Has(queue, e[1])
        BY <1>1, <1>3
    <2> QED BY <1>3, <2>1, <2>2 DEF Hands
<1> QED BY <1>2, <1>3 DEF Hands

\* A step hands out nothing or a full batch.
LEMMA HandsStep == ASSUME TypeOK, Tidy, [Next]_vars PROVE Hands
<1>0. ReaderType /\ exp_pool \in Seq(Exp) /\ reader.min \in 0 .. MaxVersion /\ queue \in Seq(Item)
    BY DEF TypeOK, ReaderType
<1>1. ASSUME UNCHANGED <<delivered, reader>> PROVE Hands
    BY <1>1 DEF Hands, over
<1>2. ASSUME delivered' = delivered, ~over PROVE Hands
    BY <1>2 DEF Hands
<1>3. CASE UNCHANGED vars
    BY <1>1, <1>3 DEF vars, readerVars
<1>4. ASSUME NEW w \in Writers, Acquire(w) \/ PutBatch(w) \/ PutRoom(w) PROVE Hands
    BY <1>1, <1>4 DEF Acquire, PutBatch, PutRoom, readerVars
<1>5. ASSUME NEW w \in Writers, Release(w) PROVE Hands
    <2>1. delivered' = delivered /\ (reader' = reader \/ reader.pc = "get")
        BY <1>5 DEF Release
    <2> QED BY <1>1, <1>2, <2>1 DEF over
<1>6. ASSUME NEW i \in Item, CooldownOver(i) PROVE Hands
    BY <1>1, <1>6 DEF CooldownOver, readerVars
<1>7. CASE GetBatch
    <2>1. PICK min \in reader.min .. MaxVersion : Loop(exp_pool, <<>>, min)
        BY <1>7 DEF GetBatch
    <2>2. reader.pc = "idle" /\ reader.result = <<>> /\ UNCHANGED <<mode, accepted>>
        BY <1>7 DEF GetBatch, Tidy, writerVars
    <2>3. min \in 0 .. MaxVersion
        BY <1>0, <2>1, ExpQueueAssumption
    <2> QED BY <1>0, <2>1, <2>2, <2>3, LoopHands DEF over
<1>8. CASE Get
    <2>1. PICK n \in DOMAIN queue : Loop(exp_pool \o ExpsOf(queue[n]), reader.result, reader.min)
        BY <1>8 DEF Get
    <2>2. reader.pc = "get" /\ UNCHANGED <<mode, accepted>>
        BY <1>8 DEF Get, writerVars
    <2>3. queue[n] \in Item /\ Has(queue, queue[n])
        BY <1>0, QueueHas
    <2>4. ExpsOf(queue[n]) \in Seq(Exp) /\ \A e : Has(ExpsOf(queue[n]), e) => e[1] = queue[n]
        BY <2>3, ExpsOfType, ItemHas
    <2>5. exp_pool \o ExpsOf(queue[n]) \in Seq(Exp)
        BY <1>0, <2>4, Concat
    <2>6. \A e : Has(exp_pool \o ExpsOf(queue[n]), e) => Has(exp_pool, e) \/ Has(queue, e[1])
        BY <1>0, <2>3, <2>4, HasConcat
    <2> QED BY <1>0, <2>1, <2>2, <2>5, <2>6, LoopHands DEF over
<1>9. CASE SkipStale
    BY <1>1, <1>9 DEF SkipStale, readerVars
<1>10. CASE GetStopped \/ GiveUp
    BY <1>2, <1>10 DEF GetStopped, GiveUp, over
<1>11. CASE Poll
    <2>1. reader.pc = "get" /\ Loop(exp_pool, reader.result, reader.min) /\ UNCHANGED <<mode, accepted>>
        BY <1>11 DEF Poll, writerVars
    <2> QED BY <1>0, <2>1, LoopHands DEF over
<1> QED BY <1>3, <1>4, <1>5, <1>6, <1>7, <1>8, <1>9, <1>10, <1>11 DEF Next

\* No experience is handed out more often than it may be used.
LEMMA LimitHolds == IInv => \A e \in Exp : Times(delivered, e) <= Limit
<1> SUFFICES ASSUME IInv, NEW e \in Exp PROVE Times(delivered, e) <= Limit
    OBVIOUS
<1>0. accepted \in Seq(Item) /\ Handed \in Seq(Exp) /\ TypeOK /\ Held /\ Order /\ Uses
    BY HandedType DEF IInv, TypeOK, ReaderType
<1>1. Times(delivered, e) \in Nat /\ Times(Handed, e) \in Nat /\ Times(delivered, e) <= Times(Handed, e)
    BY <1>0, DeliveredIn
<1>2. Limit \in Nat /\ Limit > 0
    BY LimitType
<1>3. CASE mode = "fifo"
    <2>1. Times(Handed, e) <= 1
        BY <1>0, <1>3, HeldHas, SortedOnce DEF Order
    <2> QED BY <1>1, <1>2, <2>1
<1>4. CASE mode # "fifo"
    <2>1. e[1] \in Item
        BY DEF Exp
    <2>2. Times(Handed, e) <= use_count[e[1]] /\ use_count[e[1]] <= Limit
        BY <1>0, <1>4, <2>1 DEF Uses
    <2>3. use_count[e[1]] \in Nat
        BY <1>0, <2>1 DEF TypeOK
    <2> QED BY <1>1, <1>2, <2>2, <2>3
<1> QED BY <1>3, <1>4

\* How often experiences were handed out.
LEMMA TakenIs == ASSUME TypeOK PROVE taken = [e \in Exp |-> Times(delivered, e)]
<1>1. DOMAIN delivered = 1 .. Len(delivered)
    BY DeliveredIn
<1> QED BY <1>1, Zenon DEF taken, Times

\* Experiences that were written.
LEMMA WrittenIs ==
    ASSUME accepted \in Seq(Item)
    PROVE  written \subseteq Exp /\ \A e \in Exp : e \in written <=> Has(accepted, e[1])
<1>1. DOMAIN accepted = 1 .. Len(accepted)
    BY LenProperties
<1>2. \A i : i \in ToSet(accepted) <=> Has(accepted, i)
    BY <1>1 DEF ToSet, Has
<1> QED BY <1>2 DEF written

\* The instance has a Cardinality of its own.
LEMMA SameCardinality == \A S : Buffer!Cardinality(S) = Cardinality(S)
BY DEF Cardinality, Buffer!Cardinality

\* The queue starts as an ExpBuffer does.
LEMMA BufferStarts == Init => Buffer!Init
<1> SUFFICES ASSUME Init PROVE Buffer!Init
    OBVIOUS
<1>1. Limit \in 1 .. UseLimit
    BY ExpQueueAssumption DEF Limit
<1>2. written = {}
    <2>1. accepted \in Seq(Item) /\ \A i : ~Has(accepted, i)
        BY EmptySeq, EmptyHas DEF Init
    <2> QED BY <2>1, WrittenIs
<1>3. taken = [e \in Exp |-> 0]
    <2>1. delivered = <<>> /\ TypeOK
        BY TypeInit DEF Init
    <2>2. \A e \in Exp : Times(delivered, e) = 0
        BY <2>1, TimesEmpty
    <2> QED BY <2>1, <2>2, TakenIs
<1>4. over = FALSE
    BY DEF Init, over
<1> QED BY <1>1, <1>2, <1>3, <1>4 DEF Buffer!Init, Limit, written, taken, over

\* Every step of the queue is one of the ExpBuffer, or nothing to it.
LEMMA BufferSteps == ASSUME IInv, IInv', [Next]_vars PROVE [Buffer!Next]_(Buffer!vars)
<1>0. TypeOK /\ Tidy /\ accepted \in Seq(Item) /\ TypeOK' /\ accepted' \in Seq(Item)
    BY DEF IInv, TypeOK
<1>1. CASE \E w \in Writers, x \in Item : Takes(w, x)
    <2>1. PICK x \in Item : accepted' = Append(accepted, x) /\ UNCHANGED <<mode, readerVars>>
        BY <1>1 DEF Takes, Taken
    <2>2. \A i : Has(accepted', i) <=> Has(accepted, i) \/ i = x
        BY <1>0, <2>1, HasAppend
    <2>3. written' \subseteq Exp /\ \A e \in Exp : e \in written' <=> Has(accepted', e[1])
        <3>1. DOMAIN accepted' = 1 .. Len(accepted')
            BY <1>0, LenProperties
        <3>2. \A i : i \in ToSet(accepted)' <=> Has(accepted', i)
            BY <3>1 DEF ToSet, Has
        <3> QED BY <3>2 DEF written
    <2>4. written \subseteq written'
        BY <1>0, <2>2, <2>3, WrittenIs
    <2>5. UNCHANGED <<Limit, taken, over>>
        BY <2>1 DEF Limit, taken, over, readerVars
    <2>6. Buffer!Write
        BY <2>3, <2>4, <2>5 DEF Buffer!Write, Limit, written, taken, over
    <2> QED BY <2>6 DEF Buffer!Next
<1>2. CASE ~\E w \in Writers, x \in Item : Takes(w, x)
    <2>1. UNCHANGED <<mode, accepted>>
        BY <1>0, <1>2, Steps DEF Quiet, Cools, Got, Skips, writerVars
    <2>2. UNCHANGED <<Limit, written>>
        BY <2>1 DEF Limit, written
    <2>3. CASE delivered' = delivered /\ (over => over')
        <3>1. taken' = taken
            BY <2>3 DEF taken
        <3>2. CASE over' = over
            BY <2>2, <3>1, <3>2 DEF Buffer!vars, Limit, written, taken, over
        <3>3. CASE over' # over
            <4>1. over' = TRUE
                BY <2>3, <3>3 DEF over
            <4>2. Buffer!End
                BY <2>2, <3>1, <4>1 DEF Buffer!End, Limit, written, taken, over
            <4> QED BY <4>2 DEF Buffer!Next
        <3> QED BY <3>2, <3>3
    <2>4. ASSUME NEW b \in Seq(Exp), delivered' = delivered \o b, Len(b) = BatchSize, ~over, ~over',
                 \A e : Has(b, e) => Has(Handed, e) \/ Has(queue, e[1])
          PROVE  Buffer!Read
        <3>1. b \in [1 .. BatchSize -> written]
            <4>1. b \in [1 .. BatchSize -> Exp]
                BY <2>4, LenProperties
            <4>2. ASSUME NEW n \in 1 .. BatchSize PROVE b[n] \in written
                <5>1. b[n] \in Exp /\ Has(b, b[n])
                    BY <2>4, <4>1 DEF Has
                <5>2. Has(Handed, b[n]) \/ Has(queue, b[n][1])
                    BY <2>4, <5>1
                <5>3. b[n][1] \in Item
                    BY <5>1 DEF Exp
                <5>4. Has(accepted, b[n][1])
                    BY <5>1, <5>2, <5>3 DEF IInv, Held
                <5> QED BY <1>0, <5>1, <5>4, WrittenIs
            <4> QED BY <4>1, <4>2
        <3>2. delivered \in Seq(Exp)
            BY <1>0 DEF TypeOK
        <3>3. \A e : Times(delivered \o b, e) = Times(delivered, e) + Times(b, e)
            BY <3>2, TimesConcat
        <3>4. \A e : Times(b, e) = Cardinality({n \in 1 .. BatchSize : b[n] = e})
            BY <2>4 DEF Times
        <3>5. taken' = [e \in Exp |-> Times(delivered', e)]
            <4>1. DOMAIN delivered' = 1 .. Len(delivered')
                BY <1>0, LenProperties DEF TypeOK
            <4> QED BY <4>1, Zenon DEF taken, Times
        <3>6. \A e \in Exp : taken[e] = Times(delivered, e)
            BY <1>0, TakenIs
        <3>7. taken' = [e \in Exp |-> taken[e] + Cardinality({n \in 1 .. BatchSize : b[n] = e})]
            <4>1. \A e \in Exp : Times(delivered', e)
                        = taken[e] + Cardinality({n \in 1 .. BatchSize : b[n] = e})
                BY <2>4, <3>3, <3>4, <3>6
            <4> QED BY <3>5, <4>1
        <3>8. \A e \in Exp : taken'[e] <= Limit
            <4>1. (\A e \in Exp : Times(delivered, e) <= Limit)'
                BY LimitHolds, PTL
            <4> QED BY <2>2, <3>5, <4>1
        <3>9. ~over /\ over' = over
            BY <2>4 DEF over
        <3>10. \E batch \in [1 .. BatchSize -> written] :
                taken' = [e \in Exp |-> taken[e] + Buffer!Cardinality({n \in 1 .. BatchSize : batch[n] = e})]
            <4>1. taken' = [e \in Exp |-> taken[e] + Buffer!Cardinality({n \in 1 .. BatchSize : b[n] = e})]
                BY <3>7, SameCardinality
            <4> QED BY <3>1, <4>1
        <3> QED BY <2>2, <3>8, <3>9, <3>10, Zenon DEF Buffer!Read, Limit, written, taken, over
    <2>5. Hands
        BY <1>0, HandsStep
    <2> QED BY <2>3, <2>4, <2>5 DEF Hands, Buffer!Next
<1> QED BY <1>1, <1>2

\* The queue, of every kind, is an ExpBuffer: full batches of experiences that were put, each
\* handed out once, or use_count_limit times when it is reused, and none after the end
\* (QueueStorage, AsyncQueue, AsyncPriorityQueue).
THEOREM QueueIsBuffer == Spec => BufferSpec
<1>1. Init => Buffer!Init
    BY BufferStarts
<1>2. IInv /\ IInv' /\ [Next]_vars => [Buffer!Next]_(Buffer!vars)
    BY BufferSteps
<1> QED BY <1>1, <1>2, IInvHolds, PTL DEF Spec, BufferSpec, Buffer!Spec

=============================================================================

------------------------- MODULE TrainingWindowsProofs -------------------------
(***************************************************************************)
(* Proofs about TrainingWindows, for every table of flights, window        *)
(* length, batch size, split and number of epochs.                         *)
(***************************************************************************)
EXTENDS TrainingWindows, FiniteSetTheorems, SequenceTheorems, WellFoundedInduction, TLAPS

-------------------------------------------------------------------------------
(* Induction, for sets of natural numbers.                                 *)

\* Every non-empty set of natural numbers has a least element.
LEMMA LeastNatural ==
    ASSUME NEW T \in SUBSET Nat, T # {}
    PROVE  \E x \in T : \A y \in T : x <= y
  <1>1. PICK x \in T : \A y \in T : ~(<<y, x>> \in OpToRel(<, Nat))
    BY WFMin, NatLessThanWellFounded
  <1>2. x \in Nat /\ \A y \in T : y \in Nat
    OBVIOUS
  <1>3. \A y \in T : ~(y < x)
    BY <1>1, <1>2 DEF OpToRel
  <1> QED  BY <1>2, <1>3

LEMMA NatSetInduction ==
    ASSUME NEW T, 0 \in T, \A n \in Nat : n \in T => n + 1 \in T
    PROVE  \A n \in Nat : n \in T
  <1> DEFINE U == {n \in Nat : n \notin T}
  <1> SUFFICES ASSUME U # {} PROVE FALSE
    OBVIOUS
  <1>1. PICK x \in U : \A y \in U : x <= y
    <2>1. U \in SUBSET Nat
      OBVIOUS
    <2> HIDE DEF U
    <2> QED  BY <2>1, LeastNatural
  <1>2. x - 1 \in Nat /\ x - 1 \notin U
    BY <1>1
  <1> QED  BY <1>1, <1>2

-------------------------------------------------------------------------------
(* Cumulative sums.                                                        *)

SumBy(f, counts, n) ==
    f = [k \in 0 .. n |-> IF k = 0 THEN 0 ELSE f[k - 1] + counts[k]]

\* The recursion of cumsum has a solution.
LEMMA SumExists ==
    ASSUME NEW counts
    PROVE  \A n \in Nat : \E f : SumBy(f, counts, n)
  <1> DEFINE T == {n \in Nat : \E f : SumBy(f, counts, n)}
  <1>1. 0 \in T
    <2> DEFINE f == [k \in 0 .. 0 |-> 0]
    <2>1. SumBy(f, counts, 0)
      <3>1. \A k \in 0 .. 0 : k = 0
        OBVIOUS
      <3> QED  BY <3>1 DEF SumBy
    <2> QED  BY <2>1
  <1>2. ASSUME NEW n \in Nat, n \in T PROVE n + 1 \in T
    <2>1. PICK f : SumBy(f, counts, n)
      BY <1>2
    <2> DEFINE g == [k \in 0 .. n + 1 |-> IF k = n + 1 THEN f[n] + counts[n + 1] ELSE f[k]]
    <2>2. ASSUME NEW k \in 0 .. n + 1
          PROVE  g[k] = IF k = 0 THEN 0 ELSE g[k - 1] + counts[k]
      <3>1. CASE k = n + 1
        <4>1. k # 0 /\ k - 1 = n /\ n \in 0 .. n + 1 /\ n # n + 1
          BY <3>1
        <4>2. g[k] = f[n] + counts[n + 1] /\ g[k - 1] = f[n]
          BY <3>1, <4>1
        <4> QED  BY <3>1, <4>1, <4>2
      <3>2. CASE k # n + 1
        <4>1. k \in 0 .. n /\ g[k] = f[k]
          BY <3>2
        <4>2. k # 0 => k - 1 \in 0 .. n + 1 /\ k - 1 # n + 1
          BY <4>1
        <4>3. k # 0 => g[k - 1] = f[k - 1]
          BY <4>2
        <4>4. f[k] = IF k = 0 THEN 0 ELSE f[k - 1] + counts[k]
          BY <2>1, <4>1 DEF SumBy
        <4> QED  BY <4>1, <4>3, <4>4
      <3> QED  BY <3>1, <3>2
    <2>3. SumBy(g, counts, n + 1)
      BY <2>2 DEF SumBy
    <2> QED  BY <2>3
  <1> HIDE DEF T
  <1>3. \A n \in Nat : n \in T
    BY <1>1, <1>2, NatSetInduction
  <1> QED  BY <1>3 DEF T

\* A cumulative sum starts at 0, adds one count at a time and never falls.
LEMMA CumsumFacts ==
    ASSUME NEW counts \in Seq(Nat)
    PROVE  /\ cumsum(counts)[0] = 0
           /\ \A k \in 1 .. Len(counts) : cumsum(counts)[k] = cumsum(counts)[k - 1] + counts[k]
           /\ \A k \in 0 .. Len(counts) : cumsum(counts)[k] \in Nat
           /\ \A j, k \in 0 .. Len(counts) : j <= k => cumsum(counts)[j] <= cumsum(counts)[k]
  <1>0. PICK n \in Nat : n = Len(counts)
    OBVIOUS
  <1>1. PICK c : SumBy(c, counts, n) /\ c = cumsum(counts)
    <2>1. \E f : SumBy(f, counts, n)
      BY SumExists
    <2> QED  BY <1>0, <2>1 DEF SumBy, cumsum
  <1>2. c[0] = 0 /\ \A k \in 1 .. n : c[k] = c[k - 1] + counts[k]
    <2>1. 0 \in 0 .. n /\ \A k \in 1 .. n : k \in 0 .. n /\ k # 0
      OBVIOUS
    <2> QED  BY <1>1, <2>1 DEF SumBy
  <1> DEFINE T == {k \in Nat : k <= n => /\ c[k] \in Nat
                                         /\ \A j \in 0 .. k : c[j] \in Nat /\ c[j] <= c[k]}
  <1>3. 0 \in T
    BY <1>2
  <1>4. ASSUME NEW k \in Nat, k \in T PROVE k + 1 \in T
    <2> SUFFICES ASSUME k + 1 <= n
                 PROVE  /\ c[k + 1] \in Nat
                        /\ \A j \in 0 .. k + 1 : c[j] \in Nat /\ c[j] <= c[k + 1]
      OBVIOUS
    <2>1. c[k] \in Nat /\ \A j \in 0 .. k : c[j] \in Nat /\ c[j] <= c[k]
      BY <1>4
    <2>2. k + 1 \in 1 .. n /\ counts[k + 1] \in Nat
      BY <1>0
    <2>3. c[k + 1] = c[k] + counts[k + 1]
      BY <1>2, <2>2
    <2>4. \A j \in 0 .. k + 1 : j \in 0 .. k \/ j = k + 1
      OBVIOUS
    <2> QED  BY <2>1, <2>2, <2>3, <2>4
  <1> HIDE DEF T
  <1>5. \A k \in Nat : k \in T
    BY <1>3, <1>4, NatSetInduction
  <1>6. \A k \in 0 .. n : c[k] \in Nat /\ \A j \in 0 .. k : c[j] <= c[k]
    BY <1>5 DEF T
  <1>7. \A j, k \in 0 .. n : j <= k => c[j] <= c[k]
    BY <1>6
  <1> QED  BY <1>0, <1>1, <1>2, <1>6, <1>7

\* Every number up to the total is in the share of one count.
LEMMA CumsumLocate ==
    ASSUME NEW counts \in Seq(Nat), NEW m \in Nat, m >= 1, m <= Total(counts)
    PROVE  \E g \in 1 .. Len(counts) : cumsum(counts)[g - 1] < m /\ m <= cumsum(counts)[g]
  <1>0. PICK n \in Nat : n = Len(counts)
    OBVIOUS
  <1>1. PICK c : c = cumsum(counts)
    OBVIOUS
  <1>2. c[0] = 0 /\ (\A k \in 0 .. n : c[k] \in Nat) /\ m <= c[n]
    BY <1>0, <1>1, CumsumFacts DEF Total
  <1> DEFINE T == {k \in Nat : k <= n /\ m <= c[k]}
  <1>3. n \in T /\ T \in SUBSET Nat
    BY <1>2
  <1>4. PICK g \in T : \A k \in T : g <= k
    <2> HIDE DEF T
    <2> QED  BY <1>3, LeastNatural
  <1>5. g \in 1 .. n
    BY <1>2, <1>4
  <1>6. g - 1 \in Nat /\ g - 1 \notin T /\ g - 1 \in 0 .. n
    BY <1>4, <1>5
  <1>7. c[g - 1] < m
    BY <1>2, <1>6
  <1> QED  BY <1>0, <1>1, <1>4, <1>5, <1>7

-------------------------------------------------------------------------------
(* FlattenSeq.                                                             *)

Lengths(ss) == [g \in 1 .. Len(ss) |-> Len(ss[g])]

\* flat holds the elements of the first n sequences, each at its place.
IsFlat(flat, S, ss, n) ==
    /\ flat \in Seq(S) /\ Len(flat) = cumsum(Lengths(ss))[n]
    /\ \A g \in 1 .. n : \A i \in 1 .. Len(ss[g]) :
          flat[cumsum(Lengths(ss))[g - 1] + i] = ss[g][i]

LEMMA LengthsFacts ==
    ASSUME NEW S, NEW ss \in Seq(Seq(S))
    PROVE  /\ Lengths(ss) \in Seq(Nat) /\ Len(Lengths(ss)) = Len(ss)
           /\ \A g \in 1 .. Len(ss) : Lengths(ss)[g] = Len(ss[g]) /\ ss[g] \in Seq(S)
  <1>1. \A g \in 1 .. Len(ss) : ss[g] \in Seq(S) /\ Len(ss[g]) \in Nat
    OBVIOUS
  <1> QED  BY <1>1 DEF Lengths

\* One more sequence.
LEMMA FlattenOne ==
    ASSUME NEW S, NEW ss \in Seq(Seq(S)), NEW n \in Nat, n + 1 <= Len(ss),
           NEW flat, IsFlat(flat, S, ss, n)
    PROVE  IsFlat(flat \o ss[n + 1], S, ss, n + 1)
  <1>1. PICK c : c = cumsum(Lengths(ss))
    OBVIOUS
  <1>2. PICK t \in Seq(S) : t = ss[n + 1]
    OBVIOUS
  <1>3. Len(ss) \in Nat /\ n + 1 \in 1 .. Len(ss) /\ n \in 0 .. Len(ss) /\ (n + 1) - 1 = n
    OBVIOUS
  <1>4. /\ \A k \in 0 .. Len(ss) : c[k] \in Nat
        /\ \A j, k \in 0 .. Len(ss) : j <= k => c[j] <= c[k]
        /\ \A k \in 1 .. Len(ss) : c[k] = c[k - 1] + Len(ss[k])
    BY <1>1, LengthsFacts, CumsumFacts
  <1>5. c[n + 1] = c[n] + Len(t) /\ c[n] \in Nat /\ Len(t) \in Nat
    BY <1>2, <1>3, <1>4
  <1>6. /\ flat \in Seq(S) /\ Len(flat) = c[n]
        /\ \A g \in 1 .. n : \A i \in 1 .. Len(ss[g]) : flat[c[g - 1] + i] = ss[g][i]
    BY <1>1 DEF IsFlat
  <1>7. PICK q : q = flat \o t
    OBVIOUS
  <1>8. /\ q \in Seq(S) /\ Len(q) = c[n] + Len(t)
        /\ \A m \in 1 .. c[n] : q[m] = flat[m]
        /\ \A i \in 1 .. Len(t) : q[c[n] + i] = t[i]
    <2>1. q \in Seq(S) /\ Len(q) = Len(flat) + Len(t)
      BY <1>6, <1>7
    <2>2. \A m \in 1 .. Len(flat) + Len(t) :
             q[m] = IF m <= Len(flat) THEN flat[m] ELSE t[m - Len(flat)]
      BY <1>6, <1>7, ConcatProperties
    <2>3. \A m \in 1 .. c[n] : q[m] = flat[m]
      <3>1. PICK k \in Nat, l \in Nat : k = c[n] /\ k = Len(flat) /\ l = Len(t)
        BY <1>5, <1>6
      <3>2. \A m \in 1 .. k : m \in 1 .. k + l /\ m <= k
        OBVIOUS
      <3>3. ASSUME NEW m \in 1 .. k PROVE q[m] = flat[m]
        <4>1. m \in 1 .. Len(flat) + Len(t) /\ m <= Len(flat)
          BY <3>1, <3>2
        <4> QED  BY <2>2, <4>1, Zenon
      <3> QED  BY <3>1, <3>3
    <2>4. ASSUME NEW i \in 1 .. Len(t) PROVE q[c[n] + i] = t[i]
      <3>1. /\ c[n] + i \in 1 .. c[n] + Len(t) /\ ~(c[n] + i <= c[n])
            /\ (c[n] + i) - c[n] = i
        BY <1>5
      <3> QED  BY <1>6, <2>2, <3>1
    <2> QED  BY <1>6, <2>1, <2>3, <2>4
  <1>9. ASSUME NEW g \in 1 .. n + 1, NEW i \in 1 .. Len(ss[g])
        PROVE  q[c[g - 1] + i] = ss[g][i]
    <2>1. CASE g = n + 1
      BY <1>2, <1>3, <1>8, <2>1
    <2>2. CASE g # n + 1
      <3>1. g \in 1 .. n /\ g \in 0 .. Len(ss) /\ g - 1 \in 0 .. Len(ss) /\ g \in 1 .. Len(ss)
        BY <1>3, <2>2
      <3>2. c[g] <= c[n] /\ c[g] = c[g - 1] + Len(ss[g]) /\ c[g - 1] \in Nat /\ c[g] \in Nat
        BY <1>3, <1>4, <3>1
      <3>3. Len(ss[g]) \in Nat
        BY <3>1
      <3>4. c[g - 1] + i \in 1 .. c[n]
        <4>1. i \in Nat /\ i >= 1 /\ i <= Len(ss[g])
          BY <3>3
        <4>2. c[g - 1] + i <= c[g] /\ c[g - 1] + i >= 1 /\ c[g - 1] + i \in Nat
          BY <3>2, <3>3, <4>1
        <4>3. PICK u \in Nat, v \in Nat, w \in Nat : u = c[g - 1] + i /\ v = c[g] /\ w = c[n]
          BY <1>5, <3>2, <4>2
        <4>4. 1 <= u /\ u <= v /\ v <= w
          BY <3>2, <4>2, <4>3
        <4>5. u \in 1 .. w
          BY <4>4
        <4> QED  BY <4>3, <4>5
      <3> QED  BY <1>6, <1>8, <3>1, <3>4
    <2> QED  BY <2>1, <2>2
  <1>10. IsFlat(q, S, ss, n + 1)
    BY <1>1, <1>5, <1>8, <1>9 DEF IsFlat
  <1> QED  BY <1>2, <1>7, <1>10

FlattenBy(f, ss, n) ==
    f = [i \in 1 .. n |-> IF i = 1 THEN ss[i] ELSE f[i - 1] \o ss[i]]

\* The recursion of FlattenSeq has a solution.
LEMMA FlattenExists ==
    ASSUME NEW ss
    PROVE  \A n \in Nat : \E f : FlattenBy(f, ss, n)
  <1> DEFINE T == {n \in Nat : \E f : FlattenBy(f, ss, n)}
  <1>1. 0 \in T
    <2> DEFINE f == [k \in 1 .. 0 |-> <<>>]
    <2>1. FlattenBy(f, ss, 0)
      <3>1. \A k \in 1 .. 0 : FALSE
        OBVIOUS
      <3> QED  BY <3>1 DEF FlattenBy
    <2> QED  BY <2>1
  <1>2. ASSUME NEW n \in Nat, n \in T PROVE n + 1 \in T
    <2>1. PICK f : FlattenBy(f, ss, n)
      BY <1>2
    <2> DEFINE last == IF n + 1 = 1 THEN ss[n + 1] ELSE f[n] \o ss[n + 1]
               g == [k \in 1 .. n + 1 |-> IF k = n + 1 THEN last ELSE f[k]]
    <2>2. ASSUME NEW k \in 1 .. n + 1
          PROVE  g[k] = IF k = 1 THEN ss[k] ELSE g[k - 1] \o ss[k]
      <3>1. CASE k = n + 1
        <4>1. k # 1 => k - 1 = n /\ n \in 1 .. n + 1 /\ n # n + 1
          BY <3>1
        <4>2. g[k] = last /\ (k # 1 => g[k - 1] = f[n])
          BY <3>1, <4>1
        <4> QED  BY <3>1, <4>1, <4>2
      <3>2. CASE k # n + 1
        <4>1. k \in 1 .. n /\ g[k] = f[k]
          BY <3>2
        <4>2. k # 1 => k - 1 \in 1 .. n + 1 /\ k - 1 # n + 1
          BY <4>1
        <4>3. k # 1 => g[k - 1] = f[k - 1]
          BY <4>2
        <4>4. f[k] = IF k = 1 THEN ss[k] ELSE f[k - 1] \o ss[k]
          BY <2>1, <4>1 DEF FlattenBy
        <4> QED  BY <4>1, <4>3, <4>4
      <3> QED  BY <3>1, <3>2
    <2>3. FlattenBy(g, ss, n + 1)
      BY <2>2 DEF FlattenBy
    <2> QED  BY <2>3
  <1> HIDE DEF T
  <1>3. \A n \in Nat : n \in T
    BY <1>1, <1>2, NatSetInduction
  <1> QED  BY <1>3 DEF T

\* Every element of the flattened sequence is at the place its sequence and its
\* place in it give.
LEMMA FlattenFacts ==
    ASSUME NEW S, NEW ss \in Seq(Seq(S))
    PROVE  IsFlat(FlattenSeq(ss), S, ss, Len(ss))
  <1>0. PICK n \in Nat : n = Len(ss)
    OBVIOUS
  <1>1. PICK c : c = cumsum(Lengths(ss))
    OBVIOUS
  <1>2. c[0] = 0 /\ \A k \in 1 .. n : c[k] = c[k - 1] + Len(ss[k])
    BY <1>0, <1>1, LengthsFacts, CumsumFacts
  <1>3. CASE n = 0
    <2>0. Len(ss) = 0 /\ ss = <<>>
      BY <1>0, <1>3, EmptySeq
    <2>1. ss = <<>> /\ FlattenSeq(ss) = ss
      BY <2>0 DEF FlattenSeq
    <2>2. <<>> \in Seq(S) /\ Len(<<>>) = 0 /\ \A g \in 1 .. 0 : FALSE
      OBVIOUS
    <2> QED  BY <1>1, <1>2, <2>1, <2>2 DEF IsFlat
  <1>4. CASE n # 0
    <2>1. PICK f : FlattenBy(f, ss, n) /\ FlattenSeq(ss) = f[n]
      <3>1. \E f : FlattenBy(f, ss, n)
        BY FlattenExists
      <3> QED  BY <1>0, <1>4, <3>1 DEF FlattenBy, FlattenSeq
    <2> DEFINE T == {k \in Nat : k + 1 <= n => IsFlat(f[k + 1], S, ss, k + 1)}
    <2>2. 0 \in T
      <3>1. f[1] = ss[1] /\ ss[1] \in Seq(S) /\ c[1] = c[0] + Len(ss[1])
        BY <1>0, <1>2, <1>4, <2>1 DEF FlattenBy
      <3>2. c[1] = Len(ss[1]) /\ Len(ss[1]) \in Nat
        BY <1>2, <3>1
      <3>3. ASSUME NEW g \in 1 .. 1, NEW i \in 1 .. Len(ss[g])
            PROVE  f[1][c[g - 1] + i] = ss[g][i]
        <4>1. g = 1 /\ g - 1 = 0 /\ 0 + i = i
          BY <3>2
        <4> QED  BY <1>2, <3>1, <4>1
      <3>4. IsFlat(f[1], S, ss, 1)
        BY <1>1, <3>1, <3>2, <3>3 DEF IsFlat
      <3> QED  BY <3>4
    <2>3. ASSUME NEW k \in Nat, k \in T PROVE k + 1 \in T
      <3> SUFFICES ASSUME (k + 1) + 1 <= n
                   PROVE  IsFlat(f[(k + 1) + 1], S, ss, (k + 1) + 1)
        OBVIOUS
      <3>1. /\ (k + 1) + 1 \in 1 .. n /\ (k + 1) + 1 # 1 /\ ((k + 1) + 1) - 1 = k + 1
            /\ k + 1 <= n /\ k + 1 \in Nat
        OBVIOUS
      <3>2. f[(k + 1) + 1] = f[k + 1] \o ss[(k + 1) + 1]
        BY <2>1, <3>1 DEF FlattenBy
      <3>3. IsFlat(f[k + 1], S, ss, k + 1)
        BY <2>3, <3>1
      <3> QED  BY <1>0, <3>1, <3>2, <3>3, FlattenOne
    <2> HIDE DEF T
    <2>4. n - 1 \in T /\ n - 1 \in Nat /\ (n - 1) + 1 = n
      BY <1>4, <2>2, <2>3, NatSetInduction
    <2> QED  BY <1>0, <2>1, <2>4 DEF T
  <1> QED  BY <1>3, <1>4

\* Every element of the flattened sequence comes from one of the sequences.
LEMMA FlattenOrigin ==
    ASSUME NEW S, NEW ss \in Seq(Seq(S)), NEW m \in 1 .. Len(FlattenSeq(ss))
    PROVE  \E g \in 1 .. Len(ss) : \E i \in 1 .. Len(ss[g]) :
              m = cumsum(Lengths(ss))[g - 1] + i /\ FlattenSeq(ss)[m] = ss[g][i]
  <1>1. PICK c : c = cumsum(Lengths(ss))
    OBVIOUS
  <1>2. PICK flat : flat = FlattenSeq(ss)
    OBVIOUS
  <1>3. /\ flat \in Seq(S) /\ Len(flat) = c[Len(ss)]
        /\ \A g \in 1 .. Len(ss) : \A i \in 1 .. Len(ss[g]) : flat[c[g - 1] + i] = ss[g][i]
    BY <1>1, <1>2, FlattenFacts DEF IsFlat
  <1>4. m \in Nat /\ m >= 1 /\ m <= Total(Lengths(ss))
    BY <1>1, <1>2, <1>3, LengthsFacts DEF Total
  <1>5. PICK g \in 1 .. Len(ss) : c[g - 1] < m /\ m <= c[g]
    BY <1>1, <1>4, LengthsFacts, CumsumLocate
  <1>6. c[g] = c[g - 1] + Len(ss[g]) /\ c[g - 1] \in Nat /\ Len(ss[g]) \in Nat
    <2>1. g - 1 \in 0 .. Len(ss)
      OBVIOUS
    <2> QED  BY <1>1, <2>1, LengthsFacts, CumsumFacts
  <1>7. PICK i \in 1 .. Len(ss[g]) : m = c[g - 1] + i
    <2>1. m - c[g - 1] \in 1 .. Len(ss[g]) /\ m = c[g - 1] + (m - c[g - 1])
      BY <1>4, <1>5, <1>6
    <2> QED  BY <2>1
  <1> QED  BY <1>1, <1>2, <1>3, <1>5, <1>7

-------------------------------------------------------------------------------
(* Groups and windows.                                                     *)

Row == Nat \X Nat

GoodGroups(gs) ==
    gs \in Seq(Seq(Row)) /\ \A g \in 1 .. Len(gs) : Len(gs[g]) >= sequence_length

\* The window that starts at the i-th row of the g-th group.
WindowAt(gs, g, i) ==
    [x |-> [k \in 1 .. sequence_length |-> gs[g][i + k - 1]],
     y |-> gs[g][i + sequence_length - 1]]

LEMMA CountsFacts ==
    ASSUME NEW gs, GoodGroups(gs)
    PROVE  /\ window_counts(gs) \in Seq(Nat) /\ Len(window_counts(gs)) = Len(gs)
           /\ \A g \in 1 .. Len(gs) :
                /\ window_counts(gs)[g] = Len(gs[g]) - sequence_length + 1
                /\ gs[g] \in Seq(Row) /\ Len(gs[g]) \in Nat
  <1>1. sequence_length \in Nat
    BY TrainingAssumption
  <1>2. \A g \in 1 .. Len(gs) :
            /\ gs[g] \in Seq(Row) /\ Len(gs[g]) \in Nat
            /\ Len(gs[g]) - sequence_length + 1 \in Nat
    BY <1>1 DEF GoodGroups
  <1>3. DOMAIN gs = 1 .. Len(gs) /\ Len(gs) \in Nat
    BY DEF GoodGroups
  <1> QED  BY <1>2, <1>3 DEF window_counts

\* __getitem__ finds the group and the place of a window from its number.
LEMMA SampleFacts ==
    ASSUME NEW gs, GoodGroups(gs), NEW g \in 1 .. Len(gs),
           NEW i \in 1 .. window_counts(gs)[g]
    PROVE  Sample(gs, cumsum(window_counts(gs))[g - 1] + i - 1) = WindowAt(gs, g, i)
  <1>1. PICK c : c = cumsum(window_counts(gs))
    OBVIOUS
  <1>2. PICK n \in Nat : n = Len(gs)
    BY DEF GoodGroups
  <1>3. PICK sl \in Nat : sl = sequence_length /\ sl >= 2
    BY TrainingAssumption
  <1>4. PICK L \in Nat : L = Len(gs[g]) /\ window_counts(gs)[g] = L - sl + 1 /\ L >= sl
    BY <1>3, CountsFacts DEF GoodGroups
  <1>5. PICK b \in Nat : b = c[g - 1]
    <2>1. g - 1 \in 0 .. Len(gs)
      BY <1>2
    <2> QED  BY <1>1, <2>1, CountsFacts, CumsumFacts
  <1>6. i \in Nat /\ i >= 1 /\ i <= L - sl + 1
    BY <1>3, <1>4
  <1>7. PICK m \in Nat : m = b + i - 1
    BY <1>6
  <1>8. c[g] = b + (L - sl + 1)
    BY <1>1, <1>2, <1>4, <1>5, CountsFacts, CumsumFacts
  <1>9. DOMAIN gs = 1 .. n /\ group_starts(gs) = [h \in 1 .. n |-> c[h - 1]]
    BY <1>1, <1>2 DEF group_starts, GoodGroups
  <1>10. {h \in DOMAIN gs : group_starts(gs)[h] <= m} = 1 .. g
    <2>1. ASSUME NEW h \in 1 .. n PROVE c[h - 1] <= m <=> h \in 1 .. g
      <3>1. h - 1 \in 0 .. n /\ g - 1 \in 0 .. n /\ g \in 0 .. n
        BY <1>2
      <3>2. /\ \A k \in 0 .. n : c[k] \in Nat
            /\ \A j, k \in 0 .. n : j <= k => c[j] <= c[k]
        BY <1>1, <1>2, CountsFacts, CumsumFacts
      <3>3. PICK v \in Nat : v = c[h - 1]
        BY <3>1, <3>2
      <3>4. h <= g => v <= b
        BY <1>5, <3>1, <3>2, <3>3
      <3>5. h > g => b + (L - sl + 1) <= v
        BY <1>8, <3>1, <3>2, <3>3
      <3> QED  BY <1>6, <1>7, <3>3, <3>4, <3>5
    <2> QED  BY <1>2, <1>9, <2>1
  <1>11. Cardinality(1 .. g) = g
    BY <1>2, FS_Interval
  <1>12. group_starts(gs)[g] = b /\ m - b + 1 = i /\ m - b + sl = i + sl - 1
    BY <1>2, <1>5, <1>6, <1>7, <1>9
  <1>13. Sample(gs, m) = [x |-> SubSeq(gs[g], i, i + sl - 1), y |-> gs[g][i + sl - 1]]
    BY <1>3, <1>10, <1>11, <1>12 DEF Sample
  <1>14. SubSeq(gs[g], i, i + sl - 1) = [k \in 1 .. sl |-> gs[g][i + k - 1]]
    <2>1. \A j \in i .. i + sl - 1 : gs[g][j] \in Row
      BY <1>3, <1>4, <1>6, CountsFacts
    <2>2. PICK u : u = SubSeq(gs[g], i, i + sl - 1)
      OBVIOUS
    <2>3. /\ u \in Seq(Row) /\ Len(u) = sl
          /\ \A k \in 1 .. sl : u[k] = gs[g][i + k - 1]
      <3>1. i \in Int /\ i + sl - 1 \in Int /\ i <= i + sl - 1 /\ (i + sl - 1) - i + 1 = sl
        BY <1>3, <1>6
      <3>2. /\ u \in Seq(Row)
            /\ Len(u) = IF i <= i + sl - 1 THEN (i + sl - 1) - i + 1 ELSE 0
            /\ \A k \in 1 .. (i + sl - 1) - i + 1 : u[k] = gs[g][i + k - 1]
        BY <2>1, <2>2, <3>1, SubSeqProperties
      <3> QED  BY <3>1, <3>2
    <2> QED  BY <2>2, <2>3
  <1> QED  BY <1>1, <1>3, <1>5, <1>7, <1>13, <1>14 DEF WindowAt

\* Every number of a window belongs to one place of one group.
LEMMA WindowPlace ==
    ASSUME NEW gs, GoodGroups(gs), NEW m \in 1 .. total_windows(gs)
    PROVE  \E g \in 1 .. Len(gs) : \E i \in 1 .. window_counts(gs)[g] :
              /\ m = cumsum(window_counts(gs))[g - 1] + i
              /\ Sample(gs, m - 1) = WindowAt(gs, g, i)
  <1>1. PICK c : c = cumsum(window_counts(gs))
    OBVIOUS
  <1>2. Len(gs) \in Nat /\ total_windows(gs) = c[Len(gs)] /\ c[Len(gs)] \in Nat
    <2>1. Len(gs) \in Nat /\ Len(gs) \in 0 .. Len(gs)
      BY DEF GoodGroups
    <2> QED  BY <1>1, <2>1, CountsFacts, CumsumFacts DEF total_windows, Total
  <1>3. m \in Nat /\ m >= 1 /\ m <= Total(window_counts(gs))
    BY <1>2 DEF total_windows
  <1>4. PICK g \in 1 .. Len(gs) : c[g - 1] < m /\ m <= c[g]
    BY <1>1, <1>3, CountsFacts, CumsumLocate
  <1>5. c[g] = c[g - 1] + window_counts(gs)[g] /\ c[g - 1] \in Nat /\ window_counts(gs)[g] \in Nat
    <2>1. g - 1 \in 0 .. Len(gs)
      BY <1>2
    <2> QED  BY <1>1, <2>1, CountsFacts, CumsumFacts
  <1>6. PICK i \in 1 .. window_counts(gs)[g] : m = c[g - 1] + i
    <2>1. m - c[g - 1] \in 1 .. window_counts(gs)[g] /\ m = c[g - 1] + (m - c[g - 1])
      BY <1>3, <1>4, <1>5
    <2> QED  BY <2>1
  <1>7. Sample(gs, c[g - 1] + i - 1) = WindowAt(gs, g, i)
    BY <1>1, SampleFacts
  <1>8. m - 1 = c[g - 1] + i - 1
    BY <1>5, <1>6
  <1>9. Sample(gs, m - 1) = WindowAt(gs, g, i)
    BY <1>7, <1>8
  <1> QED  BY <1>1, <1>6, <1>9

\* Parts that are all long enough are their own groups.
LEMMA GroupsFixed ==
    ASSUME NEW gs, GoodGroups(gs)
    PROVE  groups(gs) = gs
  <1>1. PICK n \in Nat : n = Len(gs) /\ DOMAIN gs = 1 .. n /\ gs \in Seq(Seq(Row))
    BY DEF GoodGroups
  <1>2. PICK ss : ss = [f \in DOMAIN gs |->
                          IF Len(gs[f]) >= sequence_length THEN <<gs[f]>> ELSE <<>>]
    OBVIOUS
  <1>3. /\ ss \in Seq(Seq(Seq(Row))) /\ Len(ss) = n
        /\ \A f \in 1 .. n : ss[f] = <<gs[f]>> /\ Len(ss[f]) = 1 /\ ss[f][1] = gs[f]
    <2>1. ss = [f \in 1 .. n |-> <<gs[f]>>]
      BY <1>1, <1>2 DEF GoodGroups
    <2>2. \A f \in 1 .. n : gs[f] \in Seq(Row)
      BY <1>1
    <2>3. \A f \in 1 .. n : <<gs[f]>> \in Seq(Seq(Row)) /\ Len(<<gs[f]>>) = 1 /\ <<gs[f]>>[1] = gs[f]
      BY <2>2
    <2> QED  BY <2>1, <2>3
  <1>s. PICK S : S = Seq(Row)
    OBVIOUS
  <1>ss. ss \in Seq(Seq(S)) /\ gs \in Seq(S)
    BY <1>1, <1>3, <1>s
  <1>4. PICK c : c = cumsum(Lengths(ss))
    OBVIOUS
  <1>5. c[0] = 0 /\ \A k \in 1 .. n : c[k] = c[k - 1] + 1
    <2>1. /\ Lengths(ss) \in Seq(Nat) /\ Len(Lengths(ss)) = n
          /\ \A k \in 1 .. n : Lengths(ss)[k] = 1
      BY <1>3, <1>ss, LengthsFacts
    <2>2. c[0] = 0 /\ \A k \in 1 .. n : c[k] = c[k - 1] + Lengths(ss)[k]
      BY <1>4, <2>1, CumsumFacts
    <2> QED  BY <2>1, <2>2
  <1> DEFINE T == {k \in Nat : k <= n => c[k] = k}
  <1>6. 0 \in T
    BY <1>5
  <1>7. ASSUME NEW k \in Nat, k \in T PROVE k + 1 \in T
    <2> SUFFICES ASSUME k + 1 <= n PROVE c[k + 1] = k + 1
      OBVIOUS
    <2>1. k + 1 \in 1 .. n /\ (k + 1) - 1 = k /\ c[k] = k
      BY <1>7
    <2> QED  BY <1>5, <2>1
  <1> HIDE DEF T
  <1>8. \A k \in 0 .. n : c[k] = k
    <2>1. \A k \in Nat : k \in T
      BY <1>6, <1>7, NatSetInduction
    <2> QED  BY <2>1 DEF T
  <1>9. PICK flat : flat = groups(gs) /\ flat = FlattenSeq(ss)
    BY <1>2 DEF groups
  <1>10. /\ flat \in Seq(S) /\ Len(flat) = c[n]
         /\ \A f \in 1 .. n : \A i \in 1 .. Len(ss[f]) : flat[c[f - 1] + i] = ss[f][i]
    <2>1. IsFlat(flat, S, ss, n)
      BY <1>3, <1>9, <1>ss, FlattenFacts
    <2> QED  BY <1>4, <2>1 DEF IsFlat
  <1>11. Len(flat) = n
    BY <1>8, <1>10
  <1>12. ASSUME NEW f \in 1 .. n PROVE flat[f] = gs[f]
    <2>1. f - 1 \in 0 .. n /\ 1 \in 1 .. 1 /\ (f - 1) + 1 = f
      OBVIOUS
    <2>2. c[f - 1] = f - 1
      BY <1>8, <2>1
    <2>3. flat[c[f - 1] + 1] = ss[f][1]
      BY <1>3, <1>10, <2>1
    <2> QED  BY <1>3, <2>1, <2>2, <2>3
  <1>13. flat = gs
    BY <1>1, <1>10, <1>11, <1>12, <1>ss, SeqEqual
  <1> QED  BY <1>9, <1>13

\* Every group is one of the parts, and long enough.
LEMMA GroupsOrigin ==
    ASSUME NEW parts \in Seq(Seq(Row))
    PROVE  /\ GoodGroups(groups(parts))
           /\ \A g \in 1 .. Len(groups(parts)) : \E f \in 1 .. Len(parts) :
                 groups(parts)[g] = parts[f]
  <1>1. PICK n \in Nat : n = Len(parts) /\ DOMAIN parts = 1 .. n
    OBVIOUS
  <1>2. PICK ss : ss = [f \in 1 .. n |->
                          IF Len(parts[f]) >= sequence_length THEN <<parts[f]>> ELSE <<>>]
    OBVIOUS
  <1>3. ASSUME NEW f \in 1 .. n
        PROVE  /\ ss[f] \in Seq(Seq(Row))
               /\ \A i \in 1 .. Len(ss[f]) : Len(parts[f]) >= sequence_length /\ ss[f][i] = parts[f]
    <2>1. parts[f] \in Seq(Row)
      BY <1>1
    <2>2. CASE Len(parts[f]) >= sequence_length
      <3>1. ss[f] = <<parts[f]>>
        BY <1>2, <2>2
      <3>2. <<parts[f]>> \in Seq(Seq(Row)) /\ Len(<<parts[f]>>) = 1 /\ <<parts[f]>>[1] = parts[f]
        BY <2>1
      <3>3. \A i \in 1 .. 1 : i = 1
        OBVIOUS
      <3> QED  BY <2>2, <3>1, <3>2, <3>3
    <2>3. CASE ~(Len(parts[f]) >= sequence_length)
      <3>1. ss[f] = <<>>
        BY <1>2, <2>3
      <3>2. Len(<<>>) = 0 /\ <<>> \in Seq(Seq(Row)) /\ \A i \in 1 .. 0 : FALSE
        OBVIOUS
      <3> QED  BY <3>1, <3>2
    <2> QED  BY <2>2, <2>3
  <1>4. ss \in Seq(Seq(Seq(Row))) /\ Len(ss) = n
    BY <1>2, <1>3
  <1>5. PICK flat : flat = groups(parts) /\ flat = FlattenSeq(ss)
    BY <1>1, <1>2 DEF groups
  <1>6. flat \in Seq(Seq(Row))
    BY <1>4, <1>5, FlattenFacts DEF IsFlat
  <1>7. ASSUME NEW g \in 1 .. Len(flat)
        PROVE  Len(flat[g]) >= sequence_length /\ \E f \in 1 .. n : flat[g] = parts[f]
    <2>1. PICK f \in 1 .. n : \E i \in 1 .. Len(ss[f]) : flat[g] = ss[f][i]
      <3>1. g \in 1 .. Len(FlattenSeq(ss))
        BY <1>5
      <3>2. PICK S : S = Seq(Row)
        OBVIOUS
      <3>3. ss \in Seq(Seq(S))
        BY <1>4, <3>2
      <3>4. \E f \in 1 .. Len(ss) : \E i \in 1 .. Len(ss[f]) :
               g = cumsum(Lengths(ss))[f - 1] + i /\ FlattenSeq(ss)[g] = ss[f][i]
        BY <3>1, <3>3, FlattenOrigin
      <3>5. PICK f \in 1 .. Len(ss) : \E i \in 1 .. Len(ss[f]) : FlattenSeq(ss)[g] = ss[f][i]
        BY <3>4
      <3> QED  BY <1>4, <1>5, <3>5
    <2> QED  BY <1>3, <2>1
  <1> QED  BY <1>1, <1>5, <1>6, <1>7 DEF GoodGroups

\* All windows, cut in one go, are the samples in the order of their numbers.
LEMMA WindowsFlat ==
    ASSUME NEW gs, GoodGroups(gs)
    PROVE  /\ Len(make_lstm_windows(gs)) = total_windows(gs) /\ total_windows(gs) \in Nat
           /\ DOMAIN make_lstm_windows(gs) = 1 .. total_windows(gs)
           /\ \A m \in 1 .. total_windows(gs) : make_lstm_windows(gs)[m] = Sample(gs, m - 1)
  <1> DEFINE Window == [x : Seq(Row), y : Row]
  <1>1. PICK n \in Nat : n = Len(gs) /\ DOMAIN gs = 1 .. n
    BY DEF GoodGroups
  <1>2. PICK w : w = window_counts(gs) /\ w \in Seq(Nat) /\ Len(w) = n
    BY <1>1, CountsFacts
  <1>3. PICK ss : ss = [g \in 1 .. n |-> [i \in 1 .. w[g] |-> WindowAt(gs, g, i)]]
    OBVIOUS
  <1>4. ASSUME NEW g \in 1 .. n, NEW i \in 1 .. w[g] PROVE WindowAt(gs, g, i) \in Window
    <2>1. PICK sl \in Nat : sl = sequence_length /\ sl >= 2
      BY TrainingAssumption
    <2>2. PICK L \in Nat : L = Len(gs[g]) /\ w[g] = L - sl + 1 /\ gs[g] \in Seq(Row)
      BY <1>1, <1>2, <2>1, CountsFacts
    <2>3. \A k \in 1 .. sl : i + k - 1 \in 1 .. L
      BY <2>2
    <2>4. \A k \in 1 .. sl : gs[g][i + k - 1] \in Row
      BY <2>2, <2>3
    <2>5. i + sl - 1 \in 1 .. L
      BY <2>1, <2>2
    <2>6. gs[g][i + sl - 1] \in Row
      BY <2>2, <2>5
    <2>7. [k \in 1 .. sl |-> gs[g][i + k - 1]] \in Seq(Row)
      BY <2>4
    <2> QED  BY <2>1, <2>6, <2>7 DEF WindowAt
  <1>5. \A g \in 1 .. n : /\ w[g] \in Nat /\ ss[g] = [i \in 1 .. w[g] |-> WindowAt(gs, g, i)]
                          /\ ss[g] \in Seq(Window) /\ Len(ss[g]) = w[g]
    <2> TAKE g \in 1 .. n
    <2>1. w[g] \in Nat /\ ss[g] = [i \in 1 .. w[g] |-> WindowAt(gs, g, i)]
      BY <1>2, <1>3
    <2> HIDE DEF Window
    <2> QED  BY <1>4, <2>1
  <1>6. ss \in Seq(Seq(Window)) /\ Len(ss) = n
    <2> HIDE DEF Window
    <2> QED  BY <1>3, <1>5
  <1>7. Lengths(ss) = w
    BY <1>2, <1>5, <1>6 DEF Lengths
  <1>8. make_lstm_windows(gs) = FlattenSeq(ss)
    BY <1>1, <1>2, <1>3, GroupsFixed DEF make_lstm_windows, WindowAt
  <1>9. PICK flat : flat = make_lstm_windows(gs)
    OBVIOUS
  <1>10. /\ flat \in Seq(Window) /\ Len(flat) = cumsum(w)[n]
         /\ \A g \in 1 .. n : \A i \in 1 .. w[g] : flat[cumsum(w)[g - 1] + i] = WindowAt(gs, g, i)
    <2> HIDE DEF Window
    <2>1. IsFlat(flat, Window, ss, n)
      BY <1>6, <1>8, <1>9, FlattenFacts
    <2>2. /\ flat \in Seq(Window) /\ Len(flat) = cumsum(w)[n]
          /\ \A g \in 1 .. n : \A i \in 1 .. Len(ss[g]) : flat[cumsum(w)[g - 1] + i] = ss[g][i]
      BY <1>7, <2>1 DEF IsFlat
    <2>3. ASSUME NEW g \in 1 .. n, NEW i \in 1 .. w[g]
          PROVE  flat[cumsum(w)[g - 1] + i] = WindowAt(gs, g, i)
      <3>1. Len(ss[g]) = w[g] /\ ss[g][i] = WindowAt(gs, g, i)
        BY <1>5
      <3> QED  BY <2>2, <3>1
    <2> QED  BY <2>2, <2>3
  <1>11. Len(flat) = total_windows(gs) /\ Len(flat) \in Nat /\ DOMAIN flat = 1 .. Len(flat)
    <2> HIDE DEF Window
    <2> QED  BY <1>2, <1>10 DEF total_windows, Total
  <1>12. ASSUME NEW m \in 1 .. total_windows(gs) PROVE flat[m] = Sample(gs, m - 1)
    <2>1. PICK g \in 1 .. n : \E i \in 1 .. w[g] :
              m = cumsum(w)[g - 1] + i /\ Sample(gs, m - 1) = WindowAt(gs, g, i)
      BY <1>1, <1>2, WindowPlace
    <2> QED  BY <1>10, <2>1
  <1> QED  BY <1>9, <1>11, <1>12

\* The rows in endpoints are the targets of the samples, in the same order.
LEMMA EndpointsFlat ==
    ASSUME NEW gs, GoodGroups(gs)
    PROVE  /\ endpoints(gs) \in Seq(Row) /\ Len(endpoints(gs)) = total_windows(gs)
           /\ \A m \in 1 .. total_windows(gs) : endpoints(gs)[m] = Sample(gs, m - 1).y
  <1>1. PICK n \in Nat : n = Len(gs) /\ DOMAIN gs = 1 .. n
    BY DEF GoodGroups
  <1>2. PICK w : w = window_counts(gs) /\ w \in Seq(Nat) /\ Len(w) = n
    BY <1>1, CountsFacts
  <1>3. PICK sl \in Nat : sl = sequence_length /\ sl >= 2
    BY TrainingAssumption
  <1>4. PICK ss : ss = [g \in 1 .. n |-> SubSeq(gs[g], sl, Len(gs[g]))]
    OBVIOUS
  <1>5. ASSUME NEW g \in 1 .. n
        PROVE  /\ w[g] \in Nat /\ ss[g] \in Seq(Row) /\ Len(ss[g]) = w[g]
               /\ \A i \in 1 .. w[g] : ss[g][i] = gs[g][i + sl - 1]
    <2>1. PICK L \in Nat : L = Len(gs[g]) /\ w[g] = L - sl + 1 /\ gs[g] \in Seq(Row) /\ L >= sl
      BY <1>1, <1>2, <1>3, CountsFacts DEF GoodGroups
    <2>2. ss[g] = SubSeq(gs[g], sl, L)
      BY <1>4, <2>1
    <2>3. \A i \in sl .. L : gs[g][i] \in Row
      BY <1>3, <2>1
    <2>4. /\ ss[g] \in Seq(Row) /\ Len(ss[g]) = IF sl <= L THEN L - sl + 1 ELSE 0
          /\ \A i \in 1 .. L - sl + 1 : ss[g][i] = gs[g][sl + i - 1]
      BY <2>2, <2>3, SubSeqProperties
    <2>5. \A i \in 1 .. w[g] : sl + i - 1 = i + sl - 1
      BY <1>3, <2>1
    <2> QED  BY <1>3, <2>1, <2>4, <2>5
  <1>6. ss \in Seq(Seq(Row)) /\ Len(ss) = n
    BY <1>4, <1>5
  <1>7. Lengths(ss) = w
    BY <1>2, <1>5, <1>6 DEF Lengths
  <1>8. PICK flat : flat = endpoints(gs) /\ flat = FlattenSeq(ss)
    BY <1>1, <1>3, <1>4 DEF endpoints
  <1>9. /\ flat \in Seq(Row) /\ Len(flat) = cumsum(w)[n]
        /\ \A g \in 1 .. n : \A i \in 1 .. w[g] : flat[cumsum(w)[g - 1] + i] = gs[g][i + sl - 1]
    <2>1. IsFlat(flat, Row, ss, n)
      BY <1>6, <1>8, FlattenFacts
    <2> QED  BY <1>5, <1>7, <2>1 DEF IsFlat
  <1>10. Len(flat) = total_windows(gs)
    BY <1>2, <1>9 DEF total_windows, Total
  <1>11. ASSUME NEW m \in 1 .. total_windows(gs) PROVE flat[m] = Sample(gs, m - 1).y
    <2>0. PICK g \in 1 .. n : \E i \in 1 .. w[g] :
              m = cumsum(w)[g - 1] + i /\ Sample(gs, m - 1) = WindowAt(gs, g, i)
      BY <1>1, <1>2, WindowPlace
    <2>1. PICK i \in 1 .. w[g] :
              m = cumsum(w)[g - 1] + i /\ Sample(gs, m - 1) = WindowAt(gs, g, i)
      BY <2>0
    <2>2. WindowAt(gs, g, i).y = gs[g][i + sl - 1]
      BY <1>3 DEF WindowAt
    <2> QED  BY <1>2, <1>9, <2>1, <2>2
  <1> QED  BY <1>8, <1>9, <1>10, <1>11

-------------------------------------------------------------------------------
(* Batches.                                                                *)

LEMMA Multiples ==
    ASSUME NEW a \in Nat, NEW b \in Nat, NEW d \in Nat
    PROVE  /\ a * d \in Nat /\ (a + 1) * d = a * d + d /\ 0 * d = 0
           /\ a < b => a * d + d <= b * d
           /\ a * d < b * d => a < b
  OBVIOUS

LEMMA Quotient ==
    ASSUME NEW a \in Nat, NEW d \in Nat \ {0}
    PROVE  a \div d \in Nat /\ (a \div d) * d <= a /\ a < (a \div d) * d + d
  OBVIOUS

Batch(index, N) == {k \in 1 .. N : index * batch_size < k /\ k <= index * batch_size + batch_size}

\* The batches that __len__ counts hold every place of the order once, and only
\* the last may be short.
LEMMA BatchFacts ==
    ASSUME NEW N \in Nat, NEW L, L = (N + batch_size - 1) \div batch_size
    PROVE  /\ L \in Nat /\ N <= L * batch_size
           /\ \A n \in 0 .. L - 1 : n * batch_size < N
           /\ \A k \in 1 .. N : \E index \in 0 .. L - 1 : k \in Batch(index, N)
           /\ \A i, j \in Nat : i # j => Batch(i, N) \cap Batch(j, N) = {}
  <1>1. PICK d \in Nat \ {0} : d = batch_size
    BY TrainingAssumption
  <1>2. N + d - 1 \in Nat /\ L = (N + d - 1) \div d
    BY <1>1
  <1>3. L \in Nat /\ L * d <= N + d - 1 /\ N + d - 1 < L * d + d
    BY <1>2, Quotient
  <1>4. PICK Ld \in Nat : Ld = L * d
    BY <1>1, <1>3, Multiples
  <1>5. N <= Ld
    BY <1>1, <1>3, <1>4
  <1>6. ASSUME NEW n \in 0 .. L - 1 PROVE n * d < N
    <2>1. n \in Nat /\ n < L
      BY <1>3
    <2>2. PICK nd \in Nat : nd = n * d
      BY <1>1, <2>1, Multiples
    <2>3. nd + d <= Ld
      BY <1>1, <1>3, <1>4, <2>1, <2>2, Multiples
    <2> QED  BY <1>1, <1>3, <1>4, <2>2, <2>3
  <1>7. ASSUME NEW k \in 1 .. N PROVE \E index \in 0 .. L - 1 : k \in Batch(index, N)
    <2>1. PICK q \in Nat : q * d <= k - 1 /\ k - 1 < q * d + d
      <3>1. k - 1 \in Nat
        OBVIOUS
      <3> QED  BY <1>1, <3>1, Quotient
    <2>2. PICK qd \in Nat : qd = q * d
      BY <1>1, Multiples
    <2>3. qd < Ld /\ qd < k /\ k <= qd + d
      BY <1>1, <1>5, <2>1, <2>2
    <2>4. q < L
      BY <1>1, <1>3, <1>4, <2>2, <2>3, Multiples
    <2> QED  BY <1>1, <1>3, <2>2, <2>3, <2>4 DEF Batch
  <1>8. ASSUME NEW i \in Nat, NEW j \in Nat, i < j PROVE Batch(i, N) \cap Batch(j, N) = {}
    <2>1. PICK id \in Nat, jd \in Nat : id = i * d /\ jd = j * d
      BY <1>1, Multiples
    <2>2. id + d <= jd
      BY <1>1, <1>8, <2>1, Multiples
    <2>3. \A k \in 1 .. N : ~(k <= id + d /\ jd < k)
      BY <1>1, <2>2
    <2> QED  BY <1>1, <2>1, <2>3 DEF Batch
  <1>9. ASSUME NEW i \in Nat, NEW j \in Nat, i # j PROVE Batch(i, N) \cap Batch(j, N) = {}
    <2>1. i < j \/ j < i
      BY <1>9
    <2> QED  BY <1>8, <2>1
  <1> QED  BY <1>1, <1>3, <1>4, <1>5, <1>6, <1>7, <1>9

-------------------------------------------------------------------------------
(* Bags of the values of a function.                                       *)

CountBag(W, D) == [w \in {W[k] : k \in D} |-> Cardinality({k \in D : W[k] = w})]

\* Counting over two disjoint sets of places adds up.
LEMMA CountBagUnion ==
    ASSUME NEW W, NEW D, NEW B, IsFiniteSet(D), IsFiniteSet(B), D \cap B = {}
    PROVE  CountBag(W, D) (+) CountBag(W, B) = CountBag(W, D \cup B)
  <1>1. PICK P, Q, R : P = CountBag(W, D) /\ Q = CountBag(W, B) /\ R = CountBag(W, D \cup B)
    OBVIOUS
  <1>2. /\ DOMAIN P = {W[k] : k \in D} /\ DOMAIN Q = {W[k] : k \in B}
        /\ DOMAIN R = (DOMAIN P) \cup (DOMAIN Q)
    BY <1>1 DEF CountBag
  <1>3. ASSUME NEW w \in DOMAIN R
        PROVE  R[w] = (IF w \in DOMAIN P THEN P[w] ELSE 0) + (IF w \in DOMAIN Q THEN Q[w] ELSE 0)
    <2>1. PICK X, Y, Z : /\ X = {k \in D : W[k] = w} /\ Y = {k \in B : W[k] = w}
                         /\ Z = {k \in D \cup B : W[k] = w}
      OBVIOUS
    <2>2. Z = X \cup Y /\ X \cap Y = {}
      BY <2>1
    <2>3. IsFiniteSet(X) /\ IsFiniteSet(Y)
      BY <2>1, FS_Subset
    <2>4. Cardinality(X) \in Nat /\ Cardinality(Y) \in Nat
      BY <2>3, FS_CardinalityType
    <2>5. Cardinality(Z) = Cardinality(X) + Cardinality(Y)
      <3>1. Cardinality(Z) = Cardinality(X) + Cardinality(Y) - Cardinality(X \cap Y)
        BY <2>2, <2>3, FS_Union
      <3>2. Cardinality(X \cap Y) = 0
        BY <2>2, FS_EmptySet
      <3> QED  BY <2>4, <3>1, <3>2
    <2>6. Cardinality({}) = 0
      BY FS_EmptySet
    <2>7. R[w] = Cardinality(Z)
      BY <1>1, <1>2, <2>1 DEF CountBag
    <2>8. w \in DOMAIN P => P[w] = Cardinality(X)
      BY <1>1, <1>2, <2>1 DEF CountBag
    <2>9. w \in DOMAIN Q => Q[w] = Cardinality(Y)
      BY <1>1, <1>2, <2>1 DEF CountBag
    <2>10. w \notin DOMAIN P => X = {}
      BY <1>2, <2>1
    <2>11. w \notin DOMAIN Q => Y = {}
      BY <1>2, <2>1
    <2> QED  BY <2>4, <2>5, <2>6, <2>7, <2>8, <2>9, <2>10, <2>11
  <1>4. P (+) Q = [w \in DOMAIN R |-> (IF w \in DOMAIN P THEN P[w] ELSE 0)
                                     + (IF w \in DOMAIN Q THEN Q[w] ELSE 0)]
    BY <1>2 DEF (+)
  <1>5. R = [w \in DOMAIN R |-> R[w]]
    BY <1>1 DEF CountBag
  <1>6. P (+) Q = R
    BY <1>3, <1>4, <1>5
  <1> QED  BY <1>1, <1>6

\* Counting is the same after the places are renamed one to one.
LEMMA CountBagMove ==
    ASSUME NEW W, NEW V, NEW D, NEW E, IsFiniteSet(D), NEW p \in [D -> E],
           \A i, j \in D : p[i] = p[j] => i = j,
           \A e \in E : \E k \in D : p[k] = e,
           \A k \in D : W[k] = V[p[k]]
    PROVE  CountBag(W, D) = CountBag(V, E)
  <1>1. {W[k] : k \in D} = {V[e] : e \in E}
    OBVIOUS
  <1>2. ASSUME NEW w PROVE Cardinality({k \in D : W[k] = w}) = Cardinality({e \in E : V[e] = w})
    <2>1. PICK X, Y : X = {k \in D : W[k] = w} /\ Y = {e \in E : V[e] = w}
      OBVIOUS
    <2>2. IsFiniteSet(X)
      BY <2>1, FS_Subset
    <2>3. PICK h : h = [k \in X |-> p[k]]
      OBVIOUS
    <2>4. h \in [X -> Y] /\ (\A i, j \in X : h[i] = h[j] => i = j)
      BY <2>1, <2>3
    <2>5. \A e \in Y : \E k \in X : h[k] = e
      BY <2>1, <2>3
    <2>6. ExistsBijection(X, Y)
      <3>1. h \in Injection(X, Y)
        BY <2>4 DEF Injection, IsInjective
      <3>2. h \in Surjection(X, Y)
        BY <2>4, <2>5 DEF Surjection
      <3> QED  BY <3>1, <3>2 DEF ExistsBijection, Bijection
    <2> QED  BY <2>1, <2>2, <2>6, FS_Bijection
  <1> QED  BY <1>1, <1>2 DEF CountBag

-------------------------------------------------------------------------------
(* The inductive invariant.                                                *)

\* The rows of a group follow each other in one flight.
OneFlight(rows) ==
    \A i \in 1 .. Len(rows) - 1 : rows[i + 1] = <<rows[i][1], rows[i][2] + 1>>

\* Every number below N, once.
Numbering(o, N) ==
    /\ o \in Seq(Nat) /\ Len(o) = N
    /\ \A k \in 1 .. N : o[k] < N
    /\ \A j, k \in 1 .. N : o[j] = o[k] => j = k

SequenceInv(q) ==
    /\ q \in [groups : Seq(Seq(Row)), shuffle : BOOLEAN, order : Seq(Nat)]
    /\ GoodGroups(q.groups)
    /\ \A g \in 1 .. Len(q.groups) : OneFlight(q.groups[g])
    /\ Numbering(q.order, total_windows(q.groups))
    /\ ~q.shuffle => \A k \in 1 .. Len(q.order) : q.order[k] = k - 1

Windows(q) == [k \in 1 .. Len(q.order) |-> Sample(q.groups, q.order[k])]

\* The places of the order that are in no batch of a set.
Outside(q, batches) ==
    {k \in 1 .. Len(q.order) : \A index \in batches : k \notin Batch(index, Len(q.order))}

UnseenInv ==
    (scaled \cup Range(FlattenSeq(train_sequence.groups)))
        \cap Range(FlattenSeq(val_sequence.groups)) = {}

\* The samples of an epoch are the windows at the places outside the batches
\* that Keras has yet to fetch.
FitInv ==
    /\ pc # "fit" => fitted = EmptyBag
    /\ pc = "fit" =>
        /\ todo \subseteq Batches(train_sequence)
        /\ fitted = CountBag(Windows(train_sequence), Outside(train_sequence, todo))

\* The predictions are the windows of the first batches, in order.
PredictInv ==
    /\ pc \in {"split", "fit", "raised"} => predicted = <<>>
    /\ pc = "predict" => \E n \in 0 .. __len__(val_sequence) :
        /\ todo = n .. __len__(val_sequence) - 1
        /\ Len(predicted) = IF n * batch_size <= Len(val_sequence.order)
                            THEN n * batch_size ELSE Len(val_sequence.order)
    /\ pc = "done" => Len(predicted) = Len(val_sequence.order)
    /\ Len(predicted) \in Nat
    /\ predicted = [k \in 1 .. Len(predicted) |-> Sample(val_sequence.groups, k - 1)]

WindowsInv ==
    /\ table \in Seq(Nat \ {0}) /\ pc \in {"split", "raised", "fit", "predict", "done"}
    /\ SequenceInv(train_sequence) /\ SequenceInv(val_sequence) /\ ~val_sequence.shuffle
    /\ UnseenInv /\ FitInv /\ PredictInv

-------------------------------------------------------------------------------
(* The sequences.                                                          *)

LEMMA TotalIsNat ==
    ASSUME NEW gs, GoodGroups(gs)
    PROVE  total_windows(gs) \in Nat
  BY WindowsFlat

\* A shuffle is another numbering, with as many numbers.
LEMMA ShuffleFacts ==
    ASSUME NEW N \in Nat, NEW o, Numbering(o, N), NEW p \in SetToSeqs(Range(o))
    PROVE  Numbering(p, N)
  <1>1. /\ o \in [1 .. N -> Nat] /\ DOMAIN o = 1 .. N
        /\ \A k \in 1 .. N : o[k] < N
        /\ \A j, k \in 1 .. N : o[j] = o[k] => j = k
    BY DEF Numbering
  <1>2. PICK R : R = Range(o) /\ R = {o[k] : k \in 1 .. N}
    BY <1>1 DEF Range
  <1>3. Cardinality(R) = N
    <2>1. o \in [1 .. N -> R] /\ \A r \in R : \E k \in 1 .. N : o[k] = r
      BY <1>1, <1>2
    <2>2. o \in Injection(1 .. N, R)
      BY <1>1, <2>1 DEF Injection, IsInjective
    <2>3. o \in Surjection(1 .. N, R)
      BY <2>1 DEF Surjection
    <2>4. ExistsBijection(1 .. N, R)
      BY <2>2, <2>3 DEF ExistsBijection, Bijection
    <2> QED  BY <2>4, FS_CountingElements
  <1>4. p \in [1 .. N -> R] /\ \A i, j \in 1 .. N : i # j => p[i] # p[j]
    BY <1>2, <1>3 DEF SetToSeqs
  <1>5. \A r \in R : r \in Nat /\ r < N
    BY <1>1, <1>2
  <1>6. p \in [1 .. N -> Nat] /\ p \in Seq(Nat) /\ Len(p) = N
    BY <1>4, <1>5
  <1> QED  BY <1>4, <1>5, <1>6 DEF Numbering

\* on_epoch_end leaves the sequence as good as it was, with as many windows.
LEMMA EpochEndFacts ==
    ASSUME NEW q, SequenceInv(q), NEW o \in on_epoch_end(q)
    PROVE  /\ SequenceInv([q EXCEPT !.order = o])
           /\ [q EXCEPT !.order = o].groups = q.groups
           /\ [q EXCEPT !.order = o].shuffle = q.shuffle
           /\ [q EXCEPT !.order = o].order = o /\ Len(o) = Len(q.order)
  <1>1. PICK N \in Nat : N = total_windows(q.groups)
    BY TotalIsNat DEF SequenceInv
  <1>2. Numbering(q.order, N) /\ q.order \in Seq(Nat) /\ Len(q.order) = N
    BY <1>1 DEF SequenceInv, Numbering
  <1>3. Numbering(o, N) /\ (~q.shuffle => o = q.order)
    BY <1>2, ShuffleFacts DEF on_epoch_end
  <1>4. o \in Seq(Nat) /\ Len(o) = N
    BY <1>3 DEF Numbering
  <1>5. PICK r : r = [q EXCEPT !.order = o]
    OBVIOUS
  <1>6. /\ r \in [groups : Seq(Seq(Row)), shuffle : BOOLEAN, order : Seq(Nat)]
        /\ r.groups = q.groups /\ r.shuffle = q.shuffle /\ r.order = o
    BY <1>4, <1>5 DEF SequenceInv
  <1>7. SequenceInv(r)
    BY <1>1, <1>2, <1>3, <1>4, <1>6 DEF SequenceInv
  <1> QED  BY <1>2, <1>4, <1>5, <1>6, <1>7

\* A new sequence has the groups of its part of the table.
LEMMA NewSequenceFacts ==
    ASSUME NEW parts \in Seq(Seq(Row)), \A f \in 1 .. Len(parts) : OneFlight(parts[f]),
           NEW shuffle \in BOOLEAN, NEW q \in LstmWindowSequence(parts, shuffle)
    PROVE  SequenceInv(q) /\ q.groups = groups(parts) /\ q.shuffle = shuffle
  <1>1. PICK gs : gs = groups(parts)
    OBVIOUS
  <1>2. GoodGroups(gs) /\ \A g \in 1 .. Len(gs) : \E f \in 1 .. Len(parts) : gs[g] = parts[f]
    BY <1>1, GroupsOrigin
  <1>3. PICK N \in Nat : N = total_windows(gs)
    BY <1>2, TotalIsNat
  <1>4. PICK o : o = [k \in 1 .. N |-> k - 1]
    OBVIOUS
  <1>5. Numbering(o, N) /\ o \in Seq(Nat) /\ Len(o) = N /\ \A k \in 1 .. N : o[k] = k - 1
    <2>1. \A k \in 1 .. N : k - 1 \in Nat /\ k - 1 < N
      OBVIOUS
    <2>2. o \in Seq(Nat) /\ Len(o) = N /\ \A k \in 1 .. N : o[k] = k - 1
      BY <1>4, <2>1
    <2>3. \A j, k \in 1 .. N : j - 1 = k - 1 => j = k
      OBVIOUS
    <2> QED  BY <2>1, <2>2, <2>3 DEF Numbering
  <1>6. PICK new : new = [groups |-> gs, shuffle |-> shuffle, order |-> o]
    OBVIOUS
  <1>7. new.groups = gs /\ new.shuffle = shuffle /\ new.order = o
    BY <1>6
  <1>8. SequenceInv(new)
    <2>1. new \in [groups : Seq(Seq(Row)), shuffle : BOOLEAN, order : Seq(Nat)]
      BY <1>2, <1>5, <1>6 DEF GoodGroups
    <2>2. \A g \in 1 .. Len(gs) : OneFlight(gs[g])
      BY <1>2
    <2> QED  BY <1>2, <1>3, <1>5, <1>7, <2>1, <2>2 DEF SequenceInv
  <1>9. PICK p \in on_epoch_end(new) : q = [new EXCEPT !.order = p]
    BY <1>1, <1>3, <1>4, <1>6 DEF LstmWindowSequence
  <1> QED  BY <1>1, <1>7, <1>8, <1>9, EpochEndFacts

\* The rows of the flattened groups are the rows of the groups.
LEMMA FlatRange ==
    ASSUME NEW S, NEW ss \in Seq(Seq(S)), NEW r
    PROVE  r \in Range(FlattenSeq(ss)) <=> \E g \in 1 .. Len(ss) : \E i \in 1 .. Len(ss[g]) : r = ss[g][i]
  <1>1. PICK flat : flat = FlattenSeq(ss)
    OBVIOUS
  <1>2. PICK c : c = cumsum(Lengths(ss))
    OBVIOUS
  <1>3. /\ flat \in Seq(S) /\ Len(flat) = c[Len(ss)] /\ Len(ss) \in Nat
        /\ \A g \in 1 .. Len(ss) : \A i \in 1 .. Len(ss[g]) : flat[c[g - 1] + i] = ss[g][i]
    BY <1>1, <1>2, FlattenFacts DEF IsFlat
  <1>4. Len(flat) \in Nat /\ DOMAIN flat = 1 .. Len(flat)
    BY <1>3
  <1>5. ASSUME NEW m \in 1 .. Len(flat)
        PROVE  \E g \in 1 .. Len(ss) : \E i \in 1 .. Len(ss[g]) : flat[m] = ss[g][i]
    <2>1. \E g \in 1 .. Len(ss) : \E i \in 1 .. Len(ss[g]) :
              m = cumsum(Lengths(ss))[g - 1] + i /\ FlattenSeq(ss)[m] = ss[g][i]
      BY <1>1, FlattenOrigin
    <2> QED  BY <1>1, <2>1
  <1>6. ASSUME NEW g \in 1 .. Len(ss), NEW i \in 1 .. Len(ss[g])
        PROVE  \E m \in 1 .. Len(flat) : flat[m] = ss[g][i]
    <2>1. g \in 0 .. Len(ss) /\ g - 1 \in 0 .. Len(ss) /\ Len(ss) \in 0 .. Len(ss)
      BY <1>3
    <2>2. /\ c[g] = c[g - 1] + Len(ss[g]) /\ c[g] <= c[Len(ss)]
          /\ c[g - 1] \in Nat /\ c[g] \in Nat /\ c[Len(ss)] \in Nat
      <3>1. Lengths(ss) \in Seq(Nat) /\ Len(Lengths(ss)) = Len(ss) /\ Lengths(ss)[g] = Len(ss[g])
        BY LengthsFacts
      <3>2. c[g] = c[g - 1] + Lengths(ss)[g]
        BY <1>2, <3>1, CumsumFacts
      <3>3. c[g - 1] \in Nat /\ c[g] \in Nat /\ c[Len(ss)] \in Nat
        BY <1>2, <2>1, <3>1, CumsumFacts
      <3>4. g <= Len(ss)
        BY <1>3
      <3>5. c[g] <= c[Len(ss)]
        BY <1>2, <2>1, <3>1, <3>4, CumsumFacts
      <3> QED  BY <3>1, <3>2, <3>3, <3>5
    <2>3. PICK u \in Nat, v \in Nat, w \in Nat : u = c[g - 1] /\ v = Len(ss[g]) /\ w = Len(flat)
      <3>1. Len(ss[g]) \in Nat
        BY LengthsFacts
      <3> QED  BY <1>4, <2>2, <3>1
    <2>4. u + v <= w /\ i \in 1 .. v
      BY <1>3, <2>2, <2>3
    <2>5. u + i \in 1 .. w
      BY <2>4
    <2> QED  BY <1>3, <2>3, <2>5
  <1>7. Range(flat) = {flat[m] : m \in 1 .. Len(flat)}
    BY <1>4 DEF Range
  <1>8. ASSUME r \in Range(flat)
        PROVE  \E g \in 1 .. Len(ss) : \E i \in 1 .. Len(ss[g]) : r = ss[g][i]
    <2>1. PICK m \in 1 .. Len(flat) : r = flat[m]
      BY <1>7, <1>8
    <2> QED  BY <1>5, <2>1
  <1>9. ASSUME NEW g \in 1 .. Len(ss), NEW i \in 1 .. Len(ss[g]), r = ss[g][i]
        PROVE  r \in Range(flat)
    BY <1>6, <1>7, <1>9
  <1> QED  BY <1>1, <1>8, <1>9

LEMMA FlatMember ==
    ASSUME NEW S, NEW ss \in Seq(Seq(S)), NEW r \in Range(FlattenSeq(ss))
    PROVE  \E g \in 1 .. Len(ss) : \E i \in 1 .. Len(ss[g]) : r = ss[g][i]
  <1>1. r \in Range(FlattenSeq(ss)) <=>
            \E g \in 1 .. Len(ss) : \E i \in 1 .. Len(ss[g]) : r = ss[g][i]
    BY FlatRange
  <1> QED  BY <1>1

LEMMA FlatHas ==
    ASSUME NEW S, NEW ss \in Seq(Seq(S)), NEW g \in 1 .. Len(ss), NEW i \in 1 .. Len(ss[g])
    PROVE  ss[g][i] \in Range(FlattenSeq(ss))
  <1>1. PICK r : r = ss[g][i]
    OBVIOUS
  <1>2. r \in Range(FlattenSeq(ss)) <=>
            \E h \in 1 .. Len(ss) : \E j \in 1 .. Len(ss[h]) : r = ss[h][j]
    BY FlatRange
  <1> QED  BY <1>1, <1>2

\* A row of a group is a row of one of the parts.
LEMMA GroupsMember ==
    ASSUME NEW parts \in Seq(Seq(Row)), NEW r \in Range(FlattenSeq(groups(parts)))
    PROVE  \E f \in 1 .. Len(parts) : \E i \in 1 .. Len(parts[f]) : r = parts[f][i]
  <1>1. PICK gs : gs = groups(parts)
    OBVIOUS
  <1>2. gs \in Seq(Seq(Row))
    BY <1>1, GroupsOrigin DEF GoodGroups
  <1>3. \A g \in 1 .. Len(gs) : \E f \in 1 .. Len(parts) : gs[g] = parts[f]
    BY <1>1, GroupsOrigin
  <1>4. r \in Range(FlattenSeq(gs))
    BY <1>1
  <1>5. PICK g \in 1 .. Len(gs) : \E i \in 1 .. Len(gs[g]) : r = gs[g][i]
    BY <1>2, <1>4, FlatMember, Zenon
  <1> QED  BY <1>3, <1>5

LEMMA MinOfTwo ==
    ASSUME NEW a \in Int, NEW b \in Int
    PROVE  Min({a, b}) = IF a <= b THEN a ELSE b
  BY DEF Min

LEMMA MaxOfTwo ==
    ASSUME NEW a \in Int, NEW b \in Int
    PROVE  Max({a, b}) = IF a >= b THEN a ELSE b
  BY DEF Max

\* Both parts of a flight get a row, whatever the rounding.
LEMMA SplitFacts ==
    ASSUME NEW n \in Nat, n >= 2, NEW at \in SplitIndices(n)
    PROVE  at \in 1 .. n - 1
  <1>1. PICK t \in Int : at = Min({Max({t, 1}), n - 1})
    <2>1. PICK p \in Nat : p = (Parts - ValParts) * n
      <3>1. Parts - ValParts \in Nat
        BY TrainingAssumption
      <3> QED  BY <3>1, Multiples
    <2>2. p \div Parts \in Nat
      <3>1. Parts \in Nat \ {0}
        BY TrainingAssumption
      <3> QED  BY <3>1, Quotient
    <2>3. PICK raw : raw = {p \div Parts} \cup (IF p % Parts = 0 THEN {p \div Parts - 1} ELSE {})
      OBVIOUS
    <2>4. PICK t \in raw : at = Min({Max({t, 1}), n - 1})
      BY <2>1, <2>3 DEF SplitIndices
    <2>5. t = p \div Parts \/ t = p \div Parts - 1
      BY <2>3, <2>4
    <2>6. t \in Int
      <3>1. PICK q \in Nat : q = p \div Parts
        BY <2>2
      <3>2. t = q \/ t = q - 1
        BY <2>5, <3>1
      <3> QED  BY <3>2
    <2> QED  BY <2>4, <2>6
  <1>2. PICK u \in Int : u = Max({t, 1}) /\ u >= 1
    BY MaxOfTwo
  <1> QED  BY <1>1, <1>2, MinOfTwo

\* The rows of both parts of every flight: up to its index, and after it.
SplitParts(d, at, n) ==
    /\ d.train \in Seq(Seq(Row)) /\ Len(d.train) = n
    /\ d.val \in Seq(Seq(Row)) /\ Len(d.val) = n
    /\ \A f \in 1 .. n : OneFlight(d.train[f]) /\ OneFlight(d.val[f])
    /\ \A f \in 1 .. n : \A i \in 1 .. Len(d.train[f]) : d.train[f][i] = <<f, i>> /\ i <= at[f]
    /\ \A f \in 1 .. n : \A i \in 1 .. Len(d.val[f]) : \E j \in Nat :
          d.val[f][i] = <<f, j>> /\ j > at[f]

LEMMA PartsFacts ==
    ASSUME NEW n \in Nat, n = Len(table), table \in Seq(Nat \ {0}),
           NEW at, \A f \in 1 .. n : at[f] \in 1 .. table[f] - 1,
           NEW d, d = split_gate_dataframe(at)
    PROVE  SplitParts(d, at, n)
  <1>1. DOMAIN table = 1 .. n
    OBVIOUS
  <1>2. /\ d.train = [f \in 1 .. n |-> SubSeq(Rows(f), 1, at[f])]
        /\ d.val = [f \in 1 .. n |-> SubSeq(Rows(f), at[f] + 1, Len(Rows(f)))]
    BY <1>1 DEF split_gate_dataframe, time_split
  <1>3. ASSUME NEW f \in 1 .. n
        PROVE  /\ d.train[f] \in Seq(Row) /\ OneFlight(d.train[f])
               /\ \A i \in 1 .. Len(d.train[f]) : d.train[f][i] = <<f, i>> /\ i <= at[f]
               /\ d.val[f] \in Seq(Row) /\ OneFlight(d.val[f])
               /\ \A i \in 1 .. Len(d.val[f]) : \E j \in Nat : d.val[f][i] = <<f, j>> /\ j > at[f]
    <2>1. PICK t \in Nat, s \in Nat : t = table[f] /\ s = at[f] /\ 1 <= s /\ s < t
      OBVIOUS
    <2>2. PICK r : r = Rows(f) /\ r = [i \in 1 .. t |-> <<f, i>>]
      BY <2>1 DEF Rows
    <2>3. (\A i \in 1 .. t : r[i] \in Row /\ r[i] = <<f, i>>) /\ Len(r) = t
      BY <2>2 DEF Row
    <2>4. PICK a : a = d.train[f] /\ a = SubSeq(r, 1, s)
      BY <1>2, <2>1, <2>2
    <2>5. PICK b : b = d.val[f] /\ b = SubSeq(r, s + 1, t)
      <3>1. d.val[f] = SubSeq(Rows(f), at[f] + 1, Len(Rows(f)))
        BY <1>2
      <3> QED  BY <2>1, <2>2, <2>3, <3>1
    <2>6. a \in Seq(Row) /\ Len(a) = s /\ \A i \in 1 .. s : a[i] = <<f, i>>
      <3>1. \A i \in 1 .. s : r[i] \in Row /\ 1 + i - 1 = i /\ r[1 + i - 1] = <<f, i>>
        BY <2>1, <2>3
      <3>2. /\ a \in Seq(Row) /\ Len(a) = IF 1 <= s THEN s - 1 + 1 ELSE 0
            /\ \A i \in 1 .. s - 1 + 1 : a[i] = r[1 + i - 1]
        BY <2>4, <3>1, SubSeqProperties
      <3>3. s - 1 + 1 = s
        BY <2>1
      <3>4. \A i \in 1 .. s : a[i] = r[1 + i - 1]
        BY <3>2, <3>3
      <3> QED  BY <2>1, <3>1, <3>2, <3>3, <3>4
    <2>7. b \in Seq(Row) /\ Len(b) = t - s /\ \A i \in 1 .. t - s : b[i] = <<f, s + i>>
      <3>1. \A i \in s + 1 .. t : r[i] \in Row
        BY <2>1, <2>3
      <3>2. /\ b \in Seq(Row) /\ Len(b) = IF s + 1 <= t THEN t - (s + 1) + 1 ELSE 0
            /\ \A i \in 1 .. t - (s + 1) + 1 : b[i] = r[(s + 1) + i - 1]
        <4>1. s + 1 \in Int /\ t \in Int
          BY <2>1
        <4> QED  BY <2>5, <3>1, <4>1, SubSeqProperties
      <3>3. t - (s + 1) + 1 = t - s /\ s + 1 <= t
        BY <2>1
      <3>4. \A i \in 1 .. t - s : (s + 1) + i - 1 = s + i /\ s + i \in 1 .. t
        BY <2>1
      <3> QED  BY <2>3, <3>2, <3>3, <3>4
    <2>8. OneFlight(a)
      <3>1. ASSUME NEW i \in 1 .. Len(a) - 1 PROVE a[i + 1] = <<a[i][1], a[i][2] + 1>>
        <4>1. i \in 1 .. s /\ i + 1 \in 1 .. s
          BY <2>6
        <4> QED  BY <2>6, <4>1
      <3> QED  BY <3>1 DEF OneFlight
    <2>9. OneFlight(b)
      <3>1. ASSUME NEW i \in 1 .. Len(b) - 1 PROVE b[i + 1] = <<b[i][1], b[i][2] + 1>>
        <4>1. i \in 1 .. t - s /\ i + 1 \in 1 .. t - s /\ s + (i + 1) = (s + i) + 1
          <5>1. PICK m \in Nat : m = t - s /\ Len(b) = m
            BY <2>1, <2>7
          <5>2. i \in 1 .. m - 1
            BY <5>1
          <5>3. i \in 1 .. m /\ i + 1 \in 1 .. m /\ s + (i + 1) = (s + i) + 1
            <6>1. i \in Nat /\ i >= 1 /\ i + 1 <= m
              BY <5>1, <5>2
            <6>2. i \in 1 .. m /\ i + 1 \in 1 .. m
              BY <5>1, <6>1
            <6>3. s + (i + 1) = (s + i) + 1
              <7>1. \A u, v \in Nat : u + (v + 1) = (u + v) + 1
                OBVIOUS
              <7>2. s \in Nat /\ i \in Nat
                BY <2>1, <6>1
              <7> QED  BY <7>1, <7>2, Zenon
            <6> QED  BY <6>2, <6>3
          <5> QED  BY <5>1, <5>3
        <4> QED  BY <2>7, <4>1
      <3> QED  BY <3>1 DEF OneFlight
    <2>10. \A i \in 1 .. Len(b) : s + i \in Nat /\ s + i > s /\ b[i] = <<f, s + i>>
      <3>1. PICK m \in Nat : m = t - s /\ Len(b) = m
        BY <2>1, <2>7
      <3>2. \A i \in 1 .. m : s + i \in Nat /\ s + i > s
        BY <2>1
      <3>3. \A i \in 1 .. m : b[i] = <<f, s + i>>
        BY <2>7, <3>1
      <3> QED  BY <3>1, <3>2, <3>3
    <2>11. \A i \in 1 .. Len(a) : i <= s
      BY <2>6
    <2>12. /\ d.train[f] \in Seq(Row) /\ OneFlight(d.train[f])
           /\ \A i \in 1 .. Len(d.train[f]) : d.train[f][i] = <<f, i>> /\ i <= at[f]
      BY <2>1, <2>4, <2>6, <2>8, <2>11
    <2>13. /\ d.val[f] \in Seq(Row) /\ OneFlight(d.val[f])
           /\ \A i \in 1 .. Len(d.val[f]) : \E j \in Nat : d.val[f][i] = <<f, j>> /\ j > at[f]
      BY <2>1, <2>5, <2>7, <2>9, <2>10
    <2> QED  BY <2>12, <2>13
  <1>4. d.train \in Seq(Seq(Row)) /\ Len(d.train) = n
    <2>1. \A f \in 1 .. n : SubSeq(Rows(f), 1, at[f]) \in Seq(Row)
      BY <1>2, <1>3
    <2> QED  BY <1>2, <2>1
  <1>5. d.val \in Seq(Seq(Row)) /\ Len(d.val) = n
    <2>1. \A f \in 1 .. n : SubSeq(Rows(f), at[f] + 1, Len(Rows(f))) \in Seq(Row)
      BY <1>2, <1>3
    <2> QED  BY <1>2, <2>1
  <1> QED  BY <1>3, <1>4, <1>5 DEF SplitParts

-------------------------------------------------------------------------------
(* Batches of a sequence.                                                  *)

LEMMA LenFacts ==
    ASSUME NEW q, SequenceInv(q)
    PROVE  /\ Len(q.order) \in Nat /\ Len(q.order) = total_windows(q.groups)
           /\ __len__(q) \in Nat /\ Len(q.order) <= __len__(q) * batch_size
           /\ \A n \in 0 .. __len__(q) - 1 : n * batch_size < Len(q.order)
           /\ \A k \in 1 .. Len(q.order) :
                 \E index \in Batches(q) : k \in Batch(index, Len(q.order))
           /\ \A i, j \in Nat : i # j => Batch(i, Len(q.order)) \cap Batch(j, Len(q.order)) = {}
           /\ \A k \in 1 .. Len(q.order) : q.order[k] \in 0 .. Len(q.order) - 1
  <1>1. PICK N \in Nat : N = Len(q.order) /\ N = total_windows(q.groups)
    BY TotalIsNat DEF SequenceInv, Numbering
  <1>2. PICK L : L = __len__(q) /\ L = (N + batch_size - 1) \div batch_size
    BY <1>1 DEF __len__
  <1>3. \A k \in 1 .. N : q.order[k] \in Nat /\ q.order[k] < N
    BY <1>1 DEF SequenceInv, Numbering
  <1>4. \A k \in 1 .. N : q.order[k] \in 0 .. N - 1
    BY <1>3
  <1> QED  BY <1>1, <1>2, <1>4, BatchFacts DEF Batches

\* A batch is the windows at its places of the order.
LEMMA GetitemFacts ==
    ASSUME NEW q, SequenceInv(q), NEW index \in Batches(q)
    PROVE  \E start, size \in Nat :
              /\ start = index * batch_size
              /\ start + size = IF start + batch_size <= Len(q.order)
                                THEN start + batch_size ELSE Len(q.order)
              /\ __getitem__(q, index) =
                    [k \in 1 .. size |-> Sample(q.groups, q.order[start + k])]
              /\ \A k \in 1 .. size : start + k \in 1 .. Len(q.order)
              /\ Batch(index, Len(q.order)) = {start + k : k \in 1 .. size}
  <1>1. PICK N \in Nat : N = Len(q.order)
    BY LenFacts
  <1>2. PICK d \in Nat \ {0} : d = batch_size
    BY TrainingAssumption
  <1>3. index \in Nat /\ index \in 0 .. __len__(q) - 1
    BY LenFacts DEF Batches
  <1>4. PICK start \in Nat : start = index * batch_size /\ start < N
    <2>1. index * batch_size \in Nat
      BY <1>2, <1>3, Multiples
    <2> QED  BY <1>1, <1>3, <2>1, LenFacts
  <1>5. PICK end \in Nat : end = (IF start + d <= N THEN start + d ELSE N) /\ start <= end
    BY <1>4
  <1>6. end = Min({start + batch_size, N})
    BY <1>2, <1>5, MinOfTwo
  <1>7. PICK size \in Nat : size = end - start
    BY <1>5
  <1>8. __getitem__(q, index) = [k \in 1 .. size |-> Sample(q.groups, q.order[start + k])]
    BY <1>1, <1>4, <1>6, <1>7 DEF __getitem__
  <1>9. start + size = end /\ end <= N /\ end <= start + d
    BY <1>5, <1>7
  <1>10. \A k \in 1 .. size : start + k \in 1 .. N
    BY <1>9
  <1>11. Batch(index, N) = {start + k : k \in 1 .. size}
    <2>1. ASSUME NEW m \in 1 .. N, start < m, m <= start + d
          PROVE  \E k \in 1 .. size : m = start + k
      <3>1. m <= end
        BY <1>5, <2>1
      <3>2. m - start \in 1 .. size /\ m = start + (m - start)
        BY <1>9, <2>1, <3>1
      <3> QED  BY <3>2
    <2>2. ASSUME NEW k \in 1 .. size PROVE start < start + k /\ start + k <= start + d
      BY <1>9
    <2> QED  BY <1>2, <1>4, <1>10, <2>1, <2>2 DEF Batch
  <1> QED  BY <1>1, <1>2, <1>4, <1>5, <1>7, <1>8, <1>9, <1>10, <1>11

\* The samples of a batch are counted at its places.
LEMMA GetitemBag ==
    ASSUME NEW q, SequenceInv(q), NEW index \in Batches(q)
    PROVE  ToBag(__getitem__(q, index)) = CountBag(Windows(q), Batch(index, Len(q.order)))
  <1>1. PICK start \in Nat, size \in Nat :
            /\ __getitem__(q, index) = [k \in 1 .. size |-> Sample(q.groups, q.order[start + k])]
            /\ \A k \in 1 .. size : start + k \in 1 .. Len(q.order)
            /\ Batch(index, Len(q.order)) = {start + k : k \in 1 .. size}
    BY GetitemFacts
  <1>2. PICK item : item = __getitem__(q, index)
    OBVIOUS
  <1>3. ToBag(item) = CountBag(item, 1 .. size)
    <2>1. DOMAIN item = 1 .. size
      BY <1>1, <1>2
    <2> QED  BY <2>1 DEF ToBag, Range, CountBag
  <1>4. PICK E : E = Batch(index, Len(q.order))
    OBVIOUS
  <1>5. PICK p : p = [k \in 1 .. size |-> start + k]
    OBVIOUS
  <1>6. /\ p \in [1 .. size -> E]
        /\ \A e \in E : \E k \in 1 .. size : p[k] = e
    BY <1>1, <1>4, <1>5
  <1>7. ASSUME NEW i \in 1 .. size, NEW j \in 1 .. size, p[i] = p[j] PROVE i = j
    <2>1. start + i = start + j /\ i \in Nat /\ j \in Nat
      BY <1>5, <1>7
    <2> QED  BY <2>1
  <1>8. \A k \in 1 .. size : item[k] = Windows(q)[p[k]]
    BY <1>1, <1>2, <1>5 DEF Windows
  <1>9. IsFiniteSet(1 .. size)
    BY FS_Interval
  <1>10. CountBag(item, 1 .. size) = CountBag(Windows(q), E)
    BY <1>6, <1>7, <1>8, <1>9, CountBagMove
  <1> QED  BY <1>2, <1>3, <1>4, <1>10

\* Before the first batch of an epoch nothing has been fitted.
LEMMA FreshEpoch ==
    ASSUME NEW q, SequenceInv(q)
    PROVE  CountBag(Windows(q), Outside(q, Batches(q))) = EmptyBag
  <1>1. Outside(q, Batches(q)) = {}
    BY LenFacts DEF Outside
  <1>2. {Windows(q)[k] : k \in {}} = {}
    OBVIOUS
  <1> QED  BY <1>1, <1>2 DEF CountBag, EmptyBag, SetToBag

\* Fetching one more batch.
LEMMA FetchBatch ==
    ASSUME NEW q, SequenceInv(q), NEW batches \in SUBSET Batches(q), NEW index \in batches
    PROVE  CountBag(Windows(q), Outside(q, batches)) (+) ToBag(__getitem__(q, index))
              = CountBag(Windows(q), Outside(q, batches \ {index}))
  <1>1. PICK N \in Nat : N = Len(q.order)
    BY LenFacts
  <1>2. PICK D, B : D = Outside(q, batches) /\ B = Batch(index, N)
    OBVIOUS
  <1>3. D \subseteq 1 .. N /\ B \subseteq 1 .. N /\ D \cap B = {}
    BY <1>1, <1>2 DEF Outside, Batch
  <1>4. IsFiniteSet(D) /\ IsFiniteSet(B)
    <2>1. IsFiniteSet(1 .. N)
      BY FS_Interval
    <2> QED  BY <1>3, <2>1, FS_Subset
  <1>5. Outside(q, batches \ {index}) = D \cup B
    <2>1. \A i \in batches : i \in Nat
      BY LenFacts DEF Batches
    <2>2. \A i \in batches : i # index => Batch(i, N) \cap B = {}
      BY <1>1, <1>2, <2>1, LenFacts
    <2> QED  BY <1>1, <1>2, <1>3, <2>2 DEF Outside
  <1>6. ToBag(__getitem__(q, index)) = CountBag(Windows(q), B)
    BY <1>1, <1>2, GetitemBag
  <1> QED  BY <1>2, <1>3, <1>4, <1>5, <1>6, CountBagUnion

-------------------------------------------------------------------------------
(* The steps.                                                              *)

LEMMA NothingPredicted ==
    ASSUME NEW gs
    PROVE  Len(<<>>) = 0 /\ <<>> = [k \in 1 .. Len(<<>>) |-> Sample(gs, k - 1)]
  <1>1. Len(<<>>) = 0 /\ \A k \in 1 .. 0 : FALSE
    OBVIOUS
  <1> QED  BY <1>1

LEMMA InitWindows == Init => WindowsInv
  <1> SUFFICES ASSUME Init PROVE WindowsInv
    OBVIOUS
  <1> USE DEF Init
  <1>1. GoodGroups(<<>>)
    <2>1. <<>> \in Seq(Seq(Row)) /\ Len(<<>>) = 0 /\ \A g \in 1 .. 0 : FALSE
      OBVIOUS
    <2> QED  BY <2>1 DEF GoodGroups
  <1>2. total_windows(<<>>) = 0
    <2>1. window_counts(<<>>) \in Seq(Nat) /\ Len(window_counts(<<>>)) = 0
      BY <1>1, CountsFacts
    <2> QED  BY <2>1, CumsumFacts DEF total_windows, Total
  <1>3. Empty.groups = <<>> /\ Empty.order = <<>> /\ Empty.shuffle = FALSE
    BY DEF Empty
  <1>4. SequenceInv(Empty)
    <2>1. Empty \in [groups : Seq(Seq(Row)), shuffle : BOOLEAN, order : Seq(Nat)]
      BY DEF Empty
    <2>2. Len(<<>>) = 0 /\ (\A g \in 1 .. 0 : FALSE) /\ <<>> \in Seq(Nat)
      OBVIOUS
    <2>3. Numbering(<<>>, 0)
      BY <2>2 DEF Numbering
    <2> QED  BY <1>1, <1>2, <1>3, <2>1, <2>2, <2>3 DEF SequenceInv
  <1>5. UnseenInv
    <2>1. \A r : r \notin Range(FlattenSeq(<<>>))
      <3>1. <<>> \in Seq(Seq(Row)) /\ Len(<<>>) = 0 /\ \A g \in 1 .. 0 : FALSE
        OBVIOUS
      <3> QED  BY <3>1, FlatRange
    <2> QED  BY <1>3, <2>1 DEF UnseenInv
  <1>6. FitInv
    BY DEF FitInv
  <1>7. PredictInv
    BY NothingPredicted DEF PredictInv
  <1> QED  BY <1>3, <1>4, <1>5, <1>6, <1>7, TrainingAssumption DEF WindowsInv

LEMMA SplitFailsStep == WindowsInv /\ SplitFails => WindowsInv'
  <1> SUFFICES ASSUME WindowsInv, SplitFails PROVE WindowsInv'
    OBVIOUS
  <1>1. /\ pc = "split" /\ pc' = "raised" /\ table' = table /\ scaled' = scaled
        /\ train_sequence' = train_sequence /\ val_sequence' = val_sequence
        /\ todo' = todo /\ fitted' = fitted /\ predicted' = predicted
    BY DEF SplitFails
  <1>2. FitInv'
    BY <1>1 DEF WindowsInv, FitInv
  <1>3. PredictInv'
    BY <1>1 DEF WindowsInv, PredictInv
  <1>4. UnseenInv'
    BY <1>1 DEF WindowsInv, UnseenInv
  <1> QED  BY <1>1, <1>2, <1>3, <1>4 DEF WindowsInv

LEMMA PrepareStep == WindowsInv /\ Prepare => WindowsInv'
  <1> SUFFICES ASSUME WindowsInv, Prepare PROVE WindowsInv'
    OBVIOUS
  <1>1. /\ pc = "split" /\ pc' \in {"raised", "fit"} /\ todo' = Batches(train_sequence')
        /\ table' = table /\ fitted' = fitted /\ predicted' = predicted
    BY DEF Prepare
  <1>2. PICK n \in Nat : n = Len(table) /\ DOMAIN table = 1 .. n
    BY DEF WindowsInv
  <1>3. PICK at, d :
            /\ \A f \in 1 .. n : at[f] \in SplitIndices(table[f])
            /\ d = split_gate_dataframe(at)
            /\ scaled' = Range(FlattenSeq(d.train))
            /\ train_sequence' \in LstmWindowSequence(d.train, TRUE)
            /\ val_sequence' \in LstmWindowSequence(d.val, FALSE)
    BY <1>2 DEF Prepare
  <1>4. \A f \in 1 .. n : at[f] \in 1 .. table[f] - 1
    <2> TAKE f \in 1 .. n
    <2>1. table[f] \in Nat
      BY <1>2 DEF WindowsInv
    <2>2. table[f] >= MinGroup /\ MinGroup \in Nat /\ MinGroup >= 2
      BY <1>2, TrainingAssumption DEF Prepare, Splits
    <2>3. table[f] >= 2
      BY <2>1, <2>2
    <2> QED  BY <1>3, <2>1, <2>3, SplitFacts
  <1>5. /\ d.train \in Seq(Seq(Row)) /\ Len(d.train) = n
        /\ d.val \in Seq(Seq(Row)) /\ Len(d.val) = n
        /\ \A f \in 1 .. n : OneFlight(d.train[f]) /\ OneFlight(d.val[f])
        /\ \A f \in 1 .. n : \A i \in 1 .. Len(d.train[f]) : d.train[f][i] = <<f, i>> /\ i <= at[f]
        /\ \A f \in 1 .. n : \A i \in 1 .. Len(d.val[f]) : \E j \in Nat :
              d.val[f][i] = <<f, j>> /\ j > at[f]
    <2>1. table \in Seq(Nat \ {0})
      BY DEF WindowsInv
    <2>2. d = split_gate_dataframe(at)
      BY <1>3
    <2>3. n = Len(table)
      BY <1>2
    <2>4. SplitParts(d, at, n)
      BY <1>4, <2>1, <2>2, <2>3, PartsFacts
    <2> QED  BY <2>4 DEF SplitParts
  <1>6. PICK t, v : t = train_sequence' /\ v = val_sequence'
    OBVIOUS
  <1>7. SequenceInv(t) /\ t.groups = groups(d.train)
    BY <1>3, <1>5, <1>6, NewSequenceFacts
  <1>8. SequenceInv(v) /\ v.groups = groups(d.val) /\ v.shuffle = FALSE
    BY <1>3, <1>5, <1>6, NewSequenceFacts
  <1>10. UnseenInv'
    <2>1. ASSUME NEW r, r \in Range(FlattenSeq(d.train)) \/ r \in Range(FlattenSeq(groups(d.train)))
          PROVE  \E f \in 1 .. n : \E i \in Nat : r = <<f, i>> /\ i <= at[f]
      <3>1. PICK f \in 1 .. n : \E i \in 1 .. Len(d.train[f]) : r = d.train[f][i]
        <4>1. CASE r \in Range(FlattenSeq(d.train))
          <5>1. d.train \in Seq(Seq(Row))
            BY <1>5
          <5>2. \E f \in 1 .. Len(d.train) : \E i \in 1 .. Len(d.train[f]) : r = d.train[f][i]
            BY <4>1, <5>1, FlatMember, Zenon
          <5> QED  BY <1>5, <5>2
        <4>2. CASE r \in Range(FlattenSeq(groups(d.train)))
          <5>1. \E f \in 1 .. Len(d.train) : \E i \in 1 .. Len(d.train[f]) : r = d.train[f][i]
            <6>1. d.train \in Seq(Seq(Row))
              BY <1>5
            <6> QED  BY <4>2, <6>1, GroupsMember, Zenon
          <5> QED  BY <1>5, <5>1
        <4> QED  BY <2>1, <4>1, <4>2
      <3>2. PICK i \in 1 .. Len(d.train[f]) : r = d.train[f][i]
        BY <3>1
      <3>3. i \in Nat
        BY <1>5
      <3> QED  BY <1>5, <3>2, <3>3
    <2>2. ASSUME NEW r, r \in Range(FlattenSeq(groups(d.val)))
          PROVE  \E f \in 1 .. n : \E j \in Nat : r = <<f, j>> /\ j > at[f]
      <3>1. PICK f \in 1 .. n : \E i \in 1 .. Len(d.val[f]) : r = d.val[f][i]
        <4>1. \E f \in 1 .. Len(d.val) : \E i \in 1 .. Len(d.val[f]) : r = d.val[f][i]
          <5>1. d.val \in Seq(Seq(Row))
            BY <1>5
          <5> QED  BY <2>2, <5>1, GroupsMember, Zenon
        <4> QED  BY <1>5, <4>1
      <3>2. PICK i \in 1 .. Len(d.val[f]) : r = d.val[f][i]
        BY <3>1
      <3>3. \E j \in Nat : d.val[f][i] = <<f, j>> /\ j > at[f]
        BY <1>5
      <3> QED  BY <3>2, <3>3
    <2>3. ASSUME NEW r, NEW f \in 1 .. n, NEW i \in Nat, r = <<f, i>>, i <= at[f],
                 NEW h \in 1 .. n, NEW j \in Nat, r = <<h, j>>, j > at[h]
          PROVE  FALSE
      <3>1. f = h /\ i = j
        BY <2>3
      <3>2. at[f] \in Nat
        <4>1. table[f] \in Nat
          BY <1>2 DEF WindowsInv
        <4> QED  BY <1>4, <4>1
      <3> QED  BY <2>3, <3>1, <3>2
    <2>4. \A r : ~( (r \in Range(FlattenSeq(d.train)) \/ r \in Range(FlattenSeq(groups(d.train))))
                    /\ r \in Range(FlattenSeq(groups(d.val))) )
      BY <2>1, <2>2, <2>3
    <2> QED  BY <1>3, <1>6, <1>7, <1>8, <2>4 DEF UnseenInv
  <1>11. FitInv'
    <2>1. fitted = EmptyBag
      BY <1>1 DEF WindowsInv, FitInv
    <2>2. CountBag(Windows(t), Outside(t, Batches(t))) = EmptyBag
      BY <1>7, FreshEpoch
    <2>3. (CountBag(Windows(train_sequence), Outside(train_sequence, todo)))' = EmptyBag
      BY <1>1, <1>6, <2>2 DEF CountBag, Windows, Outside
    <2> QED  BY <1>1, <2>1, <2>3 DEF FitInv
  <1>12. PredictInv'
    <2>1. predicted' = <<>>
      BY <1>1 DEF WindowsInv, PredictInv
    <2> QED  BY <1>1, <2>1, NothingPredicted DEF PredictInv
  <1>13. SequenceInv(train_sequence)' /\ SequenceInv(val_sequence)' /\ ~val_sequence.shuffle'
    BY <1>6, <1>7, <1>8
  <1> QED  BY <1>1, <1>10, <1>11, <1>12, <1>13 DEF WindowsInv

LEMMA FitStep == WindowsInv /\ Fit => WindowsInv'
  <1> SUFFICES ASSUME WindowsInv, Fit PROVE WindowsInv'
    OBVIOUS
  <1>1. /\ pc = "fit" /\ pc' = pc /\ table' = table /\ scaled' = scaled
        /\ train_sequence' = train_sequence /\ val_sequence' = val_sequence /\ predicted' = predicted
    BY DEF Fit
  <1>2. PICK index \in todo :
            todo' = todo \ {index} /\ fitted' = fitted (+) ToBag(__getitem__(train_sequence, index))
    BY DEF Fit
  <1>3. FitInv'
    <2>1. /\ todo \subseteq Batches(train_sequence)
          /\ fitted = CountBag(Windows(train_sequence), Outside(train_sequence, todo))
      BY <1>1 DEF WindowsInv, FitInv
    <2>2. fitted' = CountBag(Windows(train_sequence), Outside(train_sequence, todo \ {index}))
      BY <1>2, <2>1, FetchBatch DEF WindowsInv
    <2>3. fitted' = (CountBag(Windows(train_sequence), Outside(train_sequence, todo)))'
      BY <1>1, <1>2, <2>2
    <2>4. todo' \subseteq Batches(train_sequence)'
      BY <1>1, <1>2, <2>1
    <2> QED  BY <1>1, <2>3, <2>4 DEF FitInv
  <1>4. PredictInv'
    BY <1>1 DEF WindowsInv, PredictInv
  <1>5. UnseenInv'
    BY <1>1 DEF WindowsInv, UnseenInv
  <1> QED  BY <1>1, <1>3, <1>4, <1>5 DEF WindowsInv

LEMMA EndEpochStep == WindowsInv /\ EndEpoch => WindowsInv'
  <1> SUFFICES ASSUME WindowsInv, EndEpoch PROVE WindowsInv'
    OBVIOUS
  <1>1. /\ pc = "fit" /\ fitted' = EmptyBag /\ table' = table /\ scaled' = scaled
        /\ predicted' = predicted
        /\ \/ pc' = "fit" /\ todo' = Batches(train_sequence)
           \/ pc' = "predict" /\ todo' = Batches(val_sequence)
    BY DEF EndEpoch
  <1>2. PICK t, v : t = train_sequence' /\ v = val_sequence'
    OBVIOUS
  <1>3. SequenceInv(t) /\ t.groups = train_sequence.groups /\ Len(t.order) = Len(train_sequence.order)
    BY <1>2, EpochEndFacts DEF WindowsInv, EndEpoch
  <1>4. /\ SequenceInv(v) /\ v.groups = val_sequence.groups /\ Len(v.order) = Len(val_sequence.order)
        /\ v.shuffle = FALSE
    BY <1>2, EpochEndFacts DEF WindowsInv, EndEpoch
  <1>5. Batches(t) = Batches(train_sequence) /\ __len__(v) = __len__(val_sequence)
    BY <1>3, <1>4 DEF Batches, __len__
  <1>6. UnseenInv'
    BY <1>1, <1>2, <1>3, <1>4 DEF WindowsInv, UnseenInv
  <1>7. FitInv'
    <2>1. ASSUME pc' = "fit"
          PROVE  todo' = Batches(t) /\ CountBag(Windows(t), Outside(t, Batches(t))) = EmptyBag
      BY <1>1, <1>3, <1>5, <2>1, FreshEpoch
    <2>2. ASSUME pc' = "fit"
          PROVE  /\ todo' \subseteq Batches(train_sequence)'
                 /\ (CountBag(Windows(train_sequence), Outside(train_sequence, todo)))' = EmptyBag
      BY <1>2, <2>1, <2>2 DEF CountBag, Windows, Outside
    <2> QED  BY <1>1, <2>2 DEF FitInv
  <1>8. PredictInv'
    <2>1. predicted' = <<>>
      BY <1>1 DEF WindowsInv, PredictInv
    <2>2. CASE pc' = "fit"
      BY <2>1, <2>2, NothingPredicted DEF PredictInv
    <2>3. CASE pc' = "predict"
      <3>1. __len__(v) \in Nat /\ Len(v.order) \in Nat
        BY <1>4, LenFacts
      <3>2. 0 * batch_size = 0
        BY TrainingAssumption, Multiples
      <3>3. todo' = 0 .. __len__(v) - 1 /\ 0 \in 0 .. __len__(v)
        BY <1>1, <1>5, <2>3, <3>1 DEF Batches
      <3>4. Len(predicted') = IF 0 * batch_size <= Len(v.order) THEN 0 * batch_size ELSE Len(v.order)
        BY <2>1, <3>1, <3>2, NothingPredicted
      <3> QED  BY <1>2, <2>1, <2>3, <3>3, <3>4, NothingPredicted DEF PredictInv
    <2> QED  BY <1>1, <2>2, <2>3
  <1>9. SequenceInv(train_sequence)' /\ SequenceInv(val_sequence)' /\ ~val_sequence.shuffle'
    BY <1>2, <1>3, <1>4
  <1> QED  BY <1>1, <1>6, <1>7, <1>8, <1>9 DEF WindowsInv

LEMMA PredictStep == WindowsInv /\ Predict => WindowsInv'
  <1> SUFFICES ASSUME WindowsInv, Predict PROVE WindowsInv'
    OBVIOUS
  <1>1. /\ pc = "predict" /\ todo # {} /\ pc' = pc /\ table' = table /\ scaled' = scaled
        /\ train_sequence' = train_sequence /\ val_sequence' = val_sequence /\ fitted' = fitted
        /\ todo' = todo \ {Min(todo)}
        /\ predicted' = predicted \o __getitem__(val_sequence, Min(todo))
    BY DEF Predict
  <1>2. PICK q : q = val_sequence /\ SequenceInv(q) /\ ~q.shuffle
    BY DEF WindowsInv
  <1>3. PICK N \in Nat, L \in Nat : N = Len(q.order) /\ L = __len__(q)
    BY <1>2, LenFacts
  <1>4. PICK n \in 0 .. L : /\ todo = n .. L - 1
                            /\ Len(predicted) = IF n * batch_size <= N THEN n * batch_size ELSE N
    BY <1>1, <1>2, <1>3 DEF WindowsInv, PredictInv
  <1>5. n \in Nat /\ n < L /\ n \in 0 .. L - 1
    BY <1>1, <1>4
  <1>6. Min(todo) = n /\ todo \ {n} = n + 1 .. L - 1
    BY <1>4, <1>5 DEF Min
  <1>7. PICK start \in Nat, size \in Nat :
            /\ start = n * batch_size
            /\ start + size = IF start + batch_size <= N THEN start + batch_size ELSE N
            /\ __getitem__(q, n) = [k \in 1 .. size |-> Sample(q.groups, q.order[start + k])]
            /\ \A k \in 1 .. size : start + k \in 1 .. N
    <2>1. n \in Batches(q)
      BY <1>3, <1>5 DEF Batches
    <2>2. \E start, size \in Nat :
              /\ start = n * batch_size
              /\ start + size = IF start + batch_size <= Len(q.order)
                                THEN start + batch_size ELSE Len(q.order)
              /\ __getitem__(q, n) = [k \in 1 .. size |-> Sample(q.groups, q.order[start + k])]
              /\ \A k \in 1 .. size : start + k \in 1 .. Len(q.order)
              /\ Batch(n, Len(q.order)) = {start + k : k \in 1 .. size}
      <3>1. SequenceInv(q)
        BY <1>2
      <3> QED  BY <2>1, <3>1, GetitemFacts
    <2> QED  BY <1>3, <2>2
  <1>8. start <= N /\ Len(predicted) = start
    <2>1. start < N
      BY <1>2, <1>3, <1>5, <1>7, LenFacts
    <2> QED  BY <1>4, <1>7, <2>1
  <1>9. predicted = [k \in 1 .. start |-> Sample(q.groups, k - 1)]
    BY <1>2, <1>8 DEF WindowsInv, PredictInv
  <1>10. PICK item : item = __getitem__(q, n)
    OBVIOUS
  <1>11. item = [k \in 1 .. size |-> Sample(q.groups, start + k - 1)]
    <2>1. \A k \in 1 .. N : q.order[k] = k - 1
      BY <1>2, <1>3 DEF SequenceInv
    <2>2. \A k \in 1 .. size : q.order[start + k] = start + k - 1
      BY <1>7, <2>1
    <2> QED  BY <1>7, <1>10, <2>2
  <1>12. PICK m \in Nat : m = start + size
    OBVIOUS
  <1>13. predicted \o item = [k \in 1 .. m |-> Sample(q.groups, k - 1)]
    <2>1. PICK S : S = {Sample(q.groups, j) : j \in Nat}
      OBVIOUS
    <2>2. predicted \in Seq(S)
      <3>1. \A k \in 1 .. start : k - 1 \in Nat
        OBVIOUS
      <3>2. \A k \in 1 .. start : Sample(q.groups, k - 1) \in S
        BY <2>1, <3>1
      <3> QED  BY <1>9, <3>2
    <2>3. item \in Seq(S) /\ Len(item) = size
      <3>1. \A k \in 1 .. size : start + k - 1 \in Nat
        OBVIOUS
      <3>2. \A k \in 1 .. size : Sample(q.groups, start + k - 1) \in S
        BY <2>1, <3>1
      <3> QED  BY <1>11, <3>2
    <2>4. PICK all : all = predicted \o item
      OBVIOUS
    <2>5. /\ all \in Seq(S) /\ Len(all) = m
          /\ \A k \in 1 .. m : all[k] = IF k <= start THEN predicted[k] ELSE item[k - start]
      BY <1>8, <1>12, <2>2, <2>3, <2>4, ConcatProperties
    <2>6. ASSUME NEW k \in 1 .. m PROVE all[k] = Sample(q.groups, k - 1)
      <3>1. CASE k <= start
        <4>1. k \in 1 .. start
          BY <3>1
        <4> QED  BY <1>9, <2>5, <3>1, <4>1
      <3>2. CASE ~(k <= start)
        <4>1. k - start \in 1 .. size /\ start + (k - start) - 1 = k - 1
          BY <1>12, <3>2
        <4> QED  BY <1>11, <2>5, <3>2, <4>1
      <3> QED  BY <3>1, <3>2
    <2>7. all = [k \in 1 .. m |-> all[k]]
      BY <2>5
    <2> QED  BY <2>4, <2>6, <2>7
  <1>14. Len(predicted') = m /\ predicted' = [k \in 1 .. m |-> Sample(q.groups, k - 1)]
    BY <1>1, <1>2, <1>6, <1>10, <1>13
  <1>15. m = IF (n + 1) * batch_size <= N THEN (n + 1) * batch_size ELSE N
    <2>1. (n + 1) * batch_size = start + batch_size
      BY <1>5, <1>7, Multiples, TrainingAssumption
    <2> QED  BY <1>7, <1>12, <2>1
  <1>16. PredictInv'
    <2>1. n + 1 \in 0 .. L /\ todo' = n + 1 .. L - 1
      BY <1>1, <1>5, <1>6
    <2>2. __len__(val_sequence)' = L /\ Len(val_sequence'.order) = N /\ val_sequence'.groups = q.groups
      BY <1>1, <1>2, <1>3
    <2>3. pc' = "predict"
      BY <1>1
    <2> QED  BY <1>14, <1>15, <2>1, <2>2, <2>3 DEF PredictInv
  <1>17. FitInv'
    BY <1>1 DEF WindowsInv, FitInv
  <1>18. UnseenInv'
    BY <1>1 DEF WindowsInv, UnseenInv
  <1> QED  BY <1>1, <1>16, <1>17, <1>18 DEF WindowsInv

LEMMA EvaluateStep == WindowsInv /\ Evaluate => WindowsInv'
  <1> SUFFICES ASSUME WindowsInv, Evaluate PROVE WindowsInv'
    OBVIOUS
  <1>1. /\ pc = "predict" /\ todo = {} /\ pc' = "done" /\ table' = table /\ scaled' = scaled
        /\ train_sequence' = train_sequence /\ val_sequence' = val_sequence
        /\ fitted' = fitted /\ predicted' = predicted /\ todo' = todo
    BY DEF Evaluate
  <1>2. PICK N \in Nat, L \in Nat : /\ N = Len(val_sequence.order) /\ L = __len__(val_sequence)
                                    /\ N <= L * batch_size
    BY LenFacts DEF WindowsInv
  <1>3. PICK n \in 0 .. L : /\ todo = n .. L - 1
                            /\ Len(predicted) = IF n * batch_size <= N THEN n * batch_size ELSE N
    BY <1>1, <1>2 DEF WindowsInv, PredictInv
  <1>4. n = L
    BY <1>1, <1>3
  <1>5. Len(predicted) = N
    <2>1. PICK e \in Nat : e = L * batch_size
      BY Multiples, TrainingAssumption
    <2> QED  BY <1>2, <1>3, <1>4, <2>1
  <1>6. PredictInv'
    BY <1>1, <1>2, <1>5 DEF WindowsInv, PredictInv
  <1>7. FitInv'
    BY <1>1 DEF WindowsInv, FitInv
  <1>8. UnseenInv'
    BY <1>1 DEF WindowsInv, UnseenInv
  <1> QED  BY <1>1, <1>6, <1>7, <1>8 DEF WindowsInv

\* The steps of train_for_angle, from the split to the evaluation, keep the
\* invariant.
THEOREM TrainingInductive == Spec => []WindowsInv
  <1>1. WindowsInv /\ UNCHANGED vars => WindowsInv'
    <2> SUFFICES ASSUME WindowsInv, UNCHANGED vars PROVE WindowsInv'
      OBVIOUS
    <2>1. /\ pc' = pc /\ table' = table /\ scaled' = scaled
          /\ train_sequence' = train_sequence /\ val_sequence' = val_sequence
          /\ fitted' = fitted /\ predicted' = predicted /\ todo' = todo
      BY DEF vars
    <2>2. FitInv'
      BY <2>1 DEF WindowsInv, FitInv
    <2>3. PredictInv'
      BY <2>1 DEF WindowsInv, PredictInv
    <2>4. UnseenInv'
      BY <2>1 DEF WindowsInv, UnseenInv
    <2> QED  BY <2>1, <2>2, <2>3, <2>4 DEF WindowsInv
  <1>2. WindowsInv /\ [Next]_vars => WindowsInv'
    BY <1>1, SplitFailsStep, PrepareStep, FitStep, EndEpochStep, PredictStep, EvaluateStep DEF Next
  <1> QED  BY <1>2, InitWindows, PTL DEF Spec

-------------------------------------------------------------------------------
(* The properties.                                                         *)

\* The windows of a sequence, in whatever order, are all windows of its groups.
LEMMA WindowsBag ==
    ASSUME NEW q, SequenceInv(q)
    PROVE  CountBag(Windows(q), 1 .. Len(q.order)) = ToBag(make_lstm_windows(q.groups))
  <1>1. PICK N \in Nat : N = Len(q.order) /\ N = total_windows(q.groups)
    BY LenFacts
  <1>2. PICK flat : flat = make_lstm_windows(q.groups)
    OBVIOUS
  <1>3. GoodGroups(q.groups)
    BY DEF SequenceInv
  <1>4. DOMAIN flat = 1 .. N /\ \A m \in 1 .. N : flat[m] = Sample(q.groups, m - 1)
    BY <1>1, <1>2, <1>3, WindowsFlat
  <1>5. ToBag(flat) = CountBag(flat, 1 .. N)
    BY <1>4 DEF ToBag, Range, CountBag
  <1>6. PICK p : p = [k \in 1 .. N |-> q.order[k] + 1]
    OBVIOUS
  <1>7. \A k \in 1 .. N : q.order[k] \in Nat /\ q.order[k] < N
    BY <1>1 DEF SequenceInv, Numbering
  <1>8. p \in [1 .. N -> 1 .. N]
    <2>1. \A k \in 1 .. N : q.order[k] + 1 \in 1 .. N
      BY <1>7
    <2> QED  BY <1>6, <2>1
  <1>9. ASSUME NEW i \in 1 .. N, NEW j \in 1 .. N, p[i] = p[j] PROVE i = j
    <2>1. q.order[i] + 1 = q.order[j] + 1
      BY <1>6, <1>9
    <2>2. q.order[i] = q.order[j]
      BY <1>7, <2>1
    <2> QED  BY <1>1, <2>2 DEF SequenceInv, Numbering
  <1>10. IsFiniteSet(1 .. N)
    BY FS_Interval
  <1>11. p \in Surjection(1 .. N, 1 .. N)
    <2>1. p \in Injection(1 .. N, 1 .. N)
      BY <1>8, <1>9 DEF Injection, IsInjective
    <2> QED  BY <1>10, <2>1, FS_Injection
  <1>12. \A e \in 1 .. N : \E k \in 1 .. N : p[k] = e
    BY <1>11 DEF Surjection
  <1>13. \A k \in 1 .. N : Windows(q)[k] = flat[p[k]]
    <2> TAKE k \in 1 .. N
    <2>1. Windows(q)[k] = Sample(q.groups, q.order[k])
      BY <1>1 DEF Windows
    <2>2. p[k] = q.order[k] + 1 /\ p[k] \in 1 .. N
      BY <1>6, <1>8
    <2>3. p[k] - 1 = q.order[k]
      BY <1>7, <2>2
    <2>4. flat[p[k]] = Sample(q.groups, p[k] - 1)
      BY <1>4, <2>2
    <2> QED  BY <2>1, <2>3, <2>4
  <1>14. CountBag(Windows(q), 1 .. N) = CountBag(flat, 1 .. N)
    <2>1. PICK D, W : D = 1 .. N /\ W = Windows(q)
      OBVIOUS
    <2>2. /\ IsFiniteSet(D) /\ p \in [D -> D]
          /\ \A i, j \in D : p[i] = p[j] => i = j
          /\ \A e \in D : \E k \in D : p[k] = e
          /\ \A k \in D : W[k] = flat[p[k]]
      BY <1>8, <1>9, <1>10, <1>12, <1>13, <2>1
    <2>3. CountBag(W, D) = CountBag(flat, D)
      BY <2>2, CountBagMove
    <2> QED  BY <2>1, <2>3
  <1> QED  BY <1>1, <1>2, <1>5, <1>14

\* Every epoch trains on every window of the training part exactly once: the
\* batches that __len__ counts and __getitem__ cuts share no place of the
\* shuffled order and leave none out.
THEOREM EveryEpochIsComplete == Spec => []EpochIsAllWindows
  <1>1. WindowsInv => EpochIsAllWindows
    <2> SUFFICES ASSUME WindowsInv, pc = "fit", todo = {}
                 PROVE  fitted = ToBag(make_lstm_windows(train_sequence.groups))
      BY DEF EpochIsAllWindows
    <2>1. fitted = CountBag(Windows(train_sequence), Outside(train_sequence, {}))
      BY DEF WindowsInv, FitInv
    <2>2. Outside(train_sequence, {}) = 1 .. Len(train_sequence.order)
      BY DEF Outside
    <2> QED  BY <2>1, <2>2, WindowsBag DEF WindowsInv
  <1> QED  BY <1>1, TrainingInductive, PTL

\* A window of a sequence is the rows from one place of one of its groups.
LEMMA WindowOrigin ==
    ASSUME NEW gs, GoodGroups(gs), NEW m \in 0 .. total_windows(gs) - 1
    PROVE  \E g \in 1 .. Len(gs) : \E i \in 1 .. window_counts(gs)[g] :
              Sample(gs, m) = WindowAt(gs, g, i)
  <1>1. total_windows(gs) \in Nat
    BY TotalIsNat
  <1>2. m + 1 \in 1 .. total_windows(gs) /\ (m + 1) - 1 = m
    BY <1>1
  <1>3. \E g \in 1 .. Len(gs) : \E i \in 1 .. window_counts(gs)[g] :
            /\ m + 1 = cumsum(window_counts(gs))[g - 1] + i
            /\ Sample(gs, (m + 1) - 1) = WindowAt(gs, g, i)
    BY <1>2, WindowPlace
  <1> QED  BY <1>2, <1>3

\* The places of the rows of a window.
LEMMA WindowRows ==
    ASSUME NEW gs, GoodGroups(gs), NEW g \in 1 .. Len(gs), NEW i \in 1 .. window_counts(gs)[g],
           NEW w, w = WindowAt(gs, g, i)
    PROVE  /\ w.y = w.x[sequence_length]
           /\ DOMAIN w.x = 1 .. sequence_length
           /\ \A k \in 1 .. sequence_length : i + k - 1 \in 1 .. Len(gs[g]) /\ w.x[k] = gs[g][i + k - 1]
  <1>1. PICK sl \in Nat : sl = sequence_length /\ sl >= 2
    BY TrainingAssumption
  <1>2. PICK L \in Nat : L = Len(gs[g]) /\ window_counts(gs)[g] = L - sl + 1
    BY <1>1, CountsFacts
  <1>3. i \in Nat /\ i >= 1 /\ i <= L - sl + 1
    BY <1>1, <1>2
  <1>4. w.x = [k \in 1 .. sl |-> gs[g][i + k - 1]] /\ w.y = gs[g][i + sl - 1]
    BY <1>1 DEF WindowAt
  <1>5. sl \in 1 .. sl
    BY <1>1
  <1>6. \A k \in 1 .. sl : i + k - 1 \in 1 .. L
    BY <1>1, <1>3
  <1> QED  BY <1>1, <1>2, <1>4, <1>5, <1>6

\* What the gate is trained on are windows of the training part, what it is
\* evaluated on are windows of the validation part.
LEMMA UsedWindows ==
    ASSUME WindowsInv
    PROVE  /\ \A w \in BagToSet(fitted) :
                 \E m \in 0 .. total_windows(train_sequence.groups) - 1 :
                    w = Sample(train_sequence.groups, m)
           /\ \A w \in Range(predicted) :
                 \E m \in 0 .. total_windows(val_sequence.groups) - 1 :
                    w = Sample(val_sequence.groups, m)
  <1>1. ASSUME NEW w \in BagToSet(fitted)
        PROVE  \E m \in 0 .. total_windows(train_sequence.groups) - 1 :
                  w = Sample(train_sequence.groups, m)
    <2>1. DOMAIN EmptyBag = {}
      BY DEF EmptyBag, SetToBag
    <2>2. fitted # EmptyBag
      BY <2>1 DEF BagToSet
    <2>3. fitted = CountBag(Windows(train_sequence), Outside(train_sequence, todo))
      BY <2>2 DEF WindowsInv, FitInv
    <2>4. PICK k \in Outside(train_sequence, todo) : w = Windows(train_sequence)[k]
      BY <2>3 DEF BagToSet, CountBag
    <2>5. k \in 1 .. Len(train_sequence.order)
      BY <2>4 DEF Outside
    <2>6. w = Sample(train_sequence.groups, train_sequence.order[k])
      BY <2>4, <2>5 DEF Windows
    <2>7. train_sequence.order[k] \in 0 .. total_windows(train_sequence.groups) - 1
      BY <2>5, LenFacts DEF WindowsInv
    <2> QED  BY <2>6, <2>7
  <1>2. ASSUME NEW w \in Range(predicted)
        PROVE  \E m \in 0 .. total_windows(val_sequence.groups) - 1 :
                  w = Sample(val_sequence.groups, m)
    <2>1. PICK P \in Nat : /\ P = Len(predicted)
                           /\ predicted = [k \in 1 .. P |-> Sample(val_sequence.groups, k - 1)]
      BY DEF WindowsInv, PredictInv
    <2>2. PICK k \in 1 .. P : w = Sample(val_sequence.groups, k - 1)
      BY <2>1 DEF Range
    <2>3. PICK N \in Nat : N = total_windows(val_sequence.groups) /\ N = Len(val_sequence.order)
      BY LenFacts DEF WindowsInv
    <2>4. P <= N
      <3>1. CASE pc = "predict"
        <4>1. PICK n \in 0 .. __len__(val_sequence) :
                  P = IF n * batch_size <= N THEN n * batch_size ELSE N
          BY <2>1, <2>3, <3>1 DEF WindowsInv, PredictInv
        <4> QED  BY <4>1, <2>3
      <3>2. CASE pc = "done"
        BY <2>1, <2>3, <3>2 DEF WindowsInv, PredictInv
      <3>3. CASE pc \in {"split", "fit", "raised"}
        BY <2>1, <2>3, <3>3, NothingPredicted DEF WindowsInv, PredictInv
      <3> QED  BY <3>1, <3>2, <3>3 DEF WindowsInv
    <2>5. k - 1 \in 0 .. N - 1
      BY <2>3, <2>4
    <2> QED  BY <2>2, <2>3, <2>5
  <1> QED  BY <1>1, <1>2

\* No window the gate is trained or evaluated on mixes two flights or skips a
\* row, and its target belongs to its last row (__getitem__).
THEOREM NoMixedWindow == Spec => []WindowsStayInFlight
  <1>1. ASSUME NEW q, SequenceInv(q), NEW m \in 0 .. total_windows(q.groups) - 1,
               NEW w, w = Sample(q.groups, m)
        PROVE  /\ w.y = w.x[sequence_length]
               /\ \A k \in 1 .. sequence_length - 1 :
                     w.x[k + 1] = <<w.x[k][1], w.x[k][2] + 1>>
    <2>1. PICK gs : gs = q.groups /\ GoodGroups(gs) /\ \A g \in 1 .. Len(gs) : OneFlight(gs[g])
      BY <1>1 DEF SequenceInv
    <2>2. PICK g \in 1 .. Len(gs) : \E i \in 1 .. window_counts(gs)[g] : w = WindowAt(gs, g, i)
      BY <1>1, <2>1, WindowOrigin
    <2>3. PICK i \in 1 .. window_counts(gs)[g] : w = WindowAt(gs, g, i)
      BY <2>2
    <2>4. PICK sl \in Nat : sl = sequence_length
      BY TrainingAssumption
    <2>5. /\ w.y = w.x[sl]
          /\ \A k \in 1 .. sl : i + k - 1 \in 1 .. Len(gs[g]) /\ w.x[k] = gs[g][i + k - 1]
      <3>1. /\ w.y = w.x[sequence_length]
            /\ DOMAIN w.x = 1 .. sequence_length
            /\ \A k \in 1 .. sequence_length :
                  i + k - 1 \in 1 .. Len(gs[g]) /\ w.x[k] = gs[g][i + k - 1]
        <4>1. GoodGroups(gs)
          BY <2>1
        <4> QED  BY <2>3, <4>1, WindowRows
      <3> QED  BY <2>4, <3>1
    <2>6. ASSUME NEW k \in 1 .. sl - 1 PROVE w.x[k + 1] = <<w.x[k][1], w.x[k][2] + 1>>
      <3>1. k \in 1 .. sl /\ k + 1 \in 1 .. sl
        BY <2>4
      <3>2. window_counts(gs)[g] \in Nat /\ Len(gs[g]) \in Nat
        <4>1. window_counts(gs) \in Seq(Nat) /\ Len(window_counts(gs)) = Len(gs) /\ Len(gs[g]) \in Nat
          BY <2>1, CountsFacts
        <4> QED  BY <4>1
      <3>3. PICK j \in Nat : j = i + k - 1 /\ i + (k + 1) - 1 = j + 1
        BY <3>1, <3>2
      <3>4. j \in 1 .. Len(gs[g]) /\ j + 1 \in 1 .. Len(gs[g])
        BY <2>5, <3>1, <3>3
      <3>5. j \in 1 .. Len(gs[g]) - 1
        BY <3>2, <3>4
      <3>6. gs[g][j + 1] = <<gs[g][j][1], gs[g][j][2] + 1>>
        BY <2>1, <3>5 DEF OneFlight
      <3>7. w.x[k] = gs[g][j] /\ w.x[k + 1] = gs[g][j + 1]
        BY <2>5, <3>1, <3>3
      <3> QED  BY <3>6, <3>7
    <2> QED  BY <2>4, <2>5, <2>6
  <1>2. WindowsInv => WindowsStayInFlight
    <2> SUFFICES ASSUME WindowsInv, NEW w \in BagToSet(fitted) \cup Range(predicted)
                 PROVE  /\ w.y = w.x[sequence_length]
                        /\ \A k \in 1 .. sequence_length - 1 :
                              w.x[k + 1] = <<w.x[k][1], w.x[k][2] + 1>>
      BY DEF WindowsStayInFlight
    <2>1. SequenceInv(train_sequence) /\ SequenceInv(val_sequence)
      BY DEF WindowsInv
    <2>2. CASE w \in BagToSet(fitted)
      <3>1. PICK m \in 0 .. total_windows(train_sequence.groups) - 1 :
                w = Sample(train_sequence.groups, m)
        BY <2>2, UsedWindows
      <3> QED  BY <1>1, <2>1, <3>1
    <2>3. CASE w \in Range(predicted)
      <3>1. PICK m \in 0 .. total_windows(val_sequence.groups) - 1 :
                w = Sample(val_sequence.groups, m)
        BY <2>3, UsedWindows
      <3> QED  BY <1>1, <2>1, <3>1
    <2> QED  BY <2>2, <2>3
  <1> QED  BY <1>2, TrainingInductive, PTL

\* No row the gate is evaluated on has been seen by the scaler or by a training
\* window, wherever the rounding puts the split (split_gate_dataframe).
THEOREM NoLeak == Spec => []ValidationUnseen
  <1>1. WindowsInv => ValidationUnseen
    <2> SUFFICES ASSUME WindowsInv PROVE ValidationUnseen
      OBVIOUS
    <2>1. PICK gs, val : /\ gs = train_sequence.groups /\ GoodGroups(gs)
                         /\ val = Range(FlattenSeq(val_sequence.groups))
      BY DEF WindowsInv, SequenceInv
    <2>2. scaled \cap val = {} /\ Range(FlattenSeq(gs)) \cap val = {}
      BY <2>1 DEF WindowsInv, UnseenInv
    <2>3. ASSUME NEW w \in BagToSet(fitted) PROVE Range(w.x) \subseteq Range(FlattenSeq(gs))
      <3>1. PICK m \in 0 .. total_windows(gs) - 1 : w = Sample(gs, m)
        BY <2>1, UsedWindows
      <3>2. PICK g \in 1 .. Len(gs) : \E i \in 1 .. window_counts(gs)[g] : w = WindowAt(gs, g, i)
        BY <2>1, <3>1, WindowOrigin
      <3>3. PICK i \in 1 .. window_counts(gs)[g] : w = WindowAt(gs, g, i)
        BY <3>2
      <3>4. /\ DOMAIN w.x = 1 .. sequence_length
            /\ \A k \in 1 .. sequence_length : i + k - 1 \in 1 .. Len(gs[g]) /\ w.x[k] = gs[g][i + k - 1]
        BY <2>1, <3>3, WindowRows
      <3>5. ASSUME NEW r \in Range(w.x) PROVE r \in Range(FlattenSeq(gs))
        <4>1. PICK k \in 1 .. sequence_length : r = w.x[k]
          BY <3>4 DEF Range
        <4>2. PICK j \in 1 .. Len(gs[g]) : r = gs[g][j]
          BY <3>4, <4>1
        <4>3. gs \in Seq(Seq(Row))
          BY <2>1 DEF GoodGroups
        <4>4. gs[g][j] \in Range(FlattenSeq(gs))
          BY <4>3, FlatHas, Zenon
        <4> QED  BY <4>2, <4>4
      <3> QED  BY <3>5
    <2> QED  BY <2>1, <2>2, <2>3 DEF ValidationUnseen
  <1> QED  BY <1>1, TrainingInductive, PTL

\* The predictions line up with the rows of endpoints, one for one, when
\* train_for_angle combines them: the validation windows keep their order through
\* every epoch and no batch is missing.
THEOREM PredictionsLineUp == Spec => []PredictionsMatchEndpoints
  <1>1. WindowsInv => PredictionsMatchEndpoints
    <2> SUFFICES ASSUME WindowsInv, pc = "done"
                 PROVE  [k \in DOMAIN predicted |-> predicted[k].y] = endpoints(val_sequence.groups)
      BY DEF PredictionsMatchEndpoints
    <2>1. PICK gs : gs = val_sequence.groups /\ GoodGroups(gs)
      BY DEF WindowsInv, SequenceInv
    <2>2. PICK N \in Nat : N = total_windows(gs) /\ Len(predicted) = N
      BY <2>1, LenFacts DEF WindowsInv, PredictInv
    <2>3. predicted = [k \in 1 .. N |-> Sample(gs, k - 1)]
      BY <2>1, <2>2 DEF WindowsInv, PredictInv
    <2>4. PICK ep : /\ ep = endpoints(gs) /\ ep \in Seq(Row) /\ Len(ep) = N
                    /\ \A k \in 1 .. N : ep[k] = Sample(gs, k - 1).y
      BY <2>1, <2>2, EndpointsFlat
    <2>5. ep = [k \in 1 .. N |-> ep[k]]
      BY <2>4
    <2>6. DOMAIN predicted = 1 .. N /\ \A k \in 1 .. N : predicted[k].y = ep[k]
      BY <2>3, <2>4
    <2>7. [k \in DOMAIN predicted |-> predicted[k].y] = ep
      BY <2>5, <2>6
    <2> QED  BY <2>1, <2>4, <2>7
  <1> QED  BY <1>1, TrainingInductive, PTL
===============================================================================

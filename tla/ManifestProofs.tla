---------------------------- MODULE ManifestProofs ----------------------------
(***************************************************************************)
(* Proofs about Manifest, for every set of conditions and plans, every     *)
(* number of flights at a time and every naming of run directories: rows   *)
(* share no directory, --append-missing completes its plan, keeps what was *)
(* completed and never gets a second result for a condition.               *)
(***************************************************************************)
EXTENDS Manifest, FiniteSetTheorems, WellFoundedInduction, TLAPS

Row == [index : 0 .. MaxIndex, cond : Conditions]
Results == {NoResult, Retryable} \cup [level : {"attempt", "root"}, cond : Conditions]
Dir == [meta : {"torn", "doc"}, cond : Conditions, result : Results]

InFlightPhases == {"meta1", "launch", "meta2", "flight", "saving"}
Phases == {"todo", "ended", "retry", "error"} \cup InFlightPhases

\* A directory is named after its index and its condition, and what it holds
\* is of a condition with that name.
DirsInv ==
    /\ dirs \in [DOMAIN dirs -> Dir]
    /\ \A d \in DOMAIN dirs :
          /\ d[1] \in 0 .. MaxIndex /\ d = <<d[1], Stem[dirs[d].cond]>>
          /\ HasResult(d) => Stem[dirs[d].result.cond] = d[2]

\* The rows of an invocation have conditions of their own; the directory of a
\* row in flight is there, readable but while its run_meta.json is written.
RowsInv ==
    /\ pending \in Seq(Row) /\ phase \in [DOMAIN pending -> Phases]
    /\ \A j, k \in DOMAIN pending : pending[j].cond = pending[k].cond => j = k
    /\ \A k \in DOMAIN pending :
          /\ phase[k] \in InFlightPhases =>
                /\ run_dir(pending[k]) \in DOMAIN dirs
                /\ dirs[run_dir(pending[k])].cond = pending[k].cond
          /\ phase[k] \in {"launch", "flight", "saving"} => Readable(run_dir(pending[k]))
          /\ phase[k] = "ended" =>
                /\ run_dir(pending[k]) \in DOMAIN dirs /\ HasResult(run_dir(pending[k]))
                /\ dirs[run_dir(pending[k])].result.cond = pending[k].cond

\* A row that is yet to start goes to no completed run that the scan has seen,
\* with --append-missing or in an output directory without reruns.
StartInv ==
    inv.append \/ ~rerun =>
        \A k \in DOMAIN pending :
            LET d == run_dir(pending[k])
            IN  phase[k] = "todo" /\ d \in DOMAIN dirs => ~(HasResult(d) /\ Readable(d))

\* Without reruns the scan sees every result, under the condition it is of, and
\* a row that is flown has no result elsewhere.
OnceInv ==
    ~rerun =>
        /\ \A d \in DOMAIN dirs :
              HasResult(d) => Readable(d) /\ dirs[d].result.cond = dirs[d].cond
        /\ \A k \in DOMAIN pending, d \in DOMAIN dirs :
              HasResult(d) /\ dirs[d].cond = pending[k].cond =>
                  phase[k] \in {"saving", "ended", "error"} /\ d = run_dir(pending[k])

\* Every condition of the plan has a row, or a result that no row can touch.
PlanInv ==
    running /\ inv.append /\ inv.all =>
        \A c \in Range(inv.plan) :
            \/ rerun /\ ~OwnStem(c)
            \/ \E k \in DOMAIN pending : pending[k].cond = c
            \/ \E d \in DOMAIN dirs :
                  /\ HasResult(d) /\ dirs[d].result.cond = c
                  /\ \A k \in DOMAIN pending : run_dir(pending[k]) # d

\* The inductive invariant.
ManifestInv ==
    /\ running \in BOOLEAN /\ rerun \in BOOLEAN
    /\ DirsInv /\ RowsInv /\ RowsShareNoDirectory /\ StartInv /\ OnceInv
    /\ OneResultPerCondition /\ PlanInv

-------------------------------------------------------------------------------
(* Numbers and sequences.                                                  *)

\* Every non-empty set of natural numbers has a least element.
LEMMA LeastNatural ==
    ASSUME NEW T \in SUBSET Nat, T # {}
    PROVE  \E x \in T : \A y \in T : x <= y
  <1>1. PICK x \in T : \A y \in T : ~(<<y, x>> \in OpToRel(<, Nat))
    BY WFMin, NatLessThanWellFounded
  <1>2. x \in Nat /\ \A y \in T : y \in Nat
    OBVIOUS
  <1>3. \A y \in T : ~(y < x)
    BY <1>1, <1>2 DEF OpToRel
  <1> QED  BY <1>2, <1>3

\* Induction, for sets of natural numbers.
LEMMA NatSetInduction ==
    ASSUME NEW T, 0 \in T, \A n \in Nat : n \in T => n + 1 \in T
    PROVE  \A n \in Nat : n \in T
  <1> DEFINE U == {n \in Nat : n \notin T}
  <1> SUFFICES ASSUME U # {} PROVE FALSE
    OBVIOUS
  <1>1. PICK x \in U : \A y \in U : x <= y
    <2>1. U \in SUBSET Nat
      OBVIOUS
    <2> HIDE DEF U
    <2> QED  BY <2>1, LeastNatural
  <1>2. x - 1 \in Nat /\ x - 1 \notin U
    BY <1>1
  <1> QED  BY <1>1, <1>2

\* The greatest of some numbers below a bound.
LEMMA MaxOfBounded ==
    ASSUME NEW b \in Nat, NEW S \in SUBSET (0 .. b), S # {}
    PROVE  Max(S) \in S /\ \A x \in S : x <= Max(S)
  <1> DEFINE T == {y \in Nat : \E x \in S : y = b - x}
  <1>1. T # {} /\ T \in SUBSET Nat
    <2>1. PICK x \in S : TRUE
      OBVIOUS
    <2>2. b - x \in T
      BY <2>1
    <2> QED  BY <2>2
  <1>2. PICK y \in T : \A z \in T : y <= z
    <2> HIDE DEF T
    <2> QED  BY <1>1, LeastNatural
  <1>3. PICK x \in S : y = b - x
    BY <1>2
  <1>4. ASSUME NEW z \in S PROVE x >= z
    <2>1. b - z \in T
      OBVIOUS
    <2>2. y <= b - z
      BY <1>2, <2>1
    <2>3. x \in 0 .. b /\ z \in 0 .. b
      OBVIOUS
    <2> QED  BY <1>3, <2>2, <2>3
  <1>5. \E m \in S : \A z \in S : m >= z
    BY <1>4
  <1>6. Max(S) \in S /\ \A z \in S : Max(S) >= z
    BY <1>5 DEF Max
  <1>7. \A z \in S : z \in Int
    OBVIOUS
  <1> QED  BY <1>6, <1>7

\* r holds the first n rows that are at a place of K, each one once.
IsKept(r, S, rows, K, n) ==
    /\ r \in Seq(S) /\ Len(r) <= n
    /\ \E at \in [1 .. Len(r) -> K \cap (1 .. n)] :
          /\ \A m \in 1 .. Len(r) : r[m] = rows[at[m]]
          /\ \A l, m \in 1 .. Len(r) : at[l] = at[m] => l = m
          /\ \A k \in K \cap (1 .. n) : \E m \in 1 .. Len(r) : at[m] = k

\* One more row.
LEMMA KeepOne ==
    ASSUME NEW S, NEW rows \in Seq(S), NEW K, NEW n \in Nat, n + 1 <= Len(rows),
           NEW r, IsKept(r, S, rows, K, n)
    PROVE  IsKept(IF n + 1 \in K THEN Append(r, rows[n + 1]) ELSE r, S, rows, K, n + 1)
  <1>1. /\ r \in Seq(S) /\ Len(r) \in Nat /\ Len(r) <= n
        /\ rows[n + 1] \in S
    BY DEF IsKept
  <1>2. PICK at \in [1 .. Len(r) -> K \cap (1 .. n)] :
          /\ \A m \in 1 .. Len(r) : r[m] = rows[at[m]]
          /\ \A l, m \in 1 .. Len(r) : at[l] = at[m] => l = m
          /\ \A k \in K \cap (1 .. n) : \E m \in 1 .. Len(r) : at[m] = k
    BY DEF IsKept
  <1>3. CASE n + 1 \in K
    <2>1. PICK q : q = Append(r, rows[n + 1])
      OBVIOUS
    <2>2. PICK l \in Nat : l = Len(r)
      BY <1>1
    <2>3. /\ q \in Seq(S) /\ Len(q) = l + 1 /\ Len(q) <= n + 1
          /\ \A m \in 1 .. l : q[m] = r[m]
          /\ q[l + 1] = rows[n + 1]
      BY <1>1, <2>1, <2>2
    <2> DEFINE new == [m \in 1 .. l + 1 |-> IF m = l + 1 THEN n + 1 ELSE at[m]]
    <2>4. \A m \in 1 .. l + 1 : m # l + 1 => m \in 1 .. l
      OBVIOUS
    <2>5. \A k \in 1 .. n + 1 : k # n + 1 => k \in 1 .. n
      OBVIOUS
    <2>6. /\ new[l + 1] = n + 1 /\ l + 1 \in 1 .. l + 1
          /\ \A m \in 1 .. l : new[m] = at[m] /\ m \in 1 .. l + 1
      OBVIOUS
    <2>7. n + 1 \in 1 .. n + 1 /\ n + 1 \notin 1 .. n /\ 1 .. n \subseteq 1 .. n + 1
      OBVIOUS
    <2>8. new \in [1 .. l + 1 -> K \cap (1 .. n + 1)]
      <3>1. \A m \in 1 .. l + 1 :
               (IF m = l + 1 THEN n + 1 ELSE at[m]) \in K \cap (1 .. n + 1)
        BY <1>2, <1>3, <2>2, <2>4, <2>7
      <3> QED  BY <3>1
    <2> HIDE DEF new
    <2>9. \A m \in 1 .. l + 1 : q[m] = rows[new[m]]
      BY <1>2, <2>2, <2>3, <2>4, <2>6
    <2>10. \A i, m \in 1 .. l + 1 : new[i] = new[m] => i = m
      <3> SUFFICES ASSUME NEW i \in 1 .. l + 1, NEW m \in 1 .. l + 1, new[i] = new[m]
                   PROVE  i = m
        OBVIOUS
      <3>1. \A j \in 1 .. l : at[j] \in 1 .. n /\ new[j] # n + 1
        BY <1>2, <2>2, <2>6, <2>7
      <3>2. CASE i = l + 1 \/ m = l + 1
        BY <2>4, <2>6, <3>1, <3>2
      <3>3. CASE i # l + 1 /\ m # l + 1
        BY <1>2, <2>2, <2>4, <2>6, <3>3
      <3> QED  BY <3>2, <3>3
    <2>11. \A k \in K \cap (1 .. n + 1) : \E m \in 1 .. l + 1 : new[m] = k
      BY <1>2, <2>2, <2>5, <2>6
    <2>12. IsKept(q, S, rows, K, n + 1)
      <3>1. Len(q) = l + 1
        BY <2>3
      <3>2. /\ new \in [1 .. Len(q) -> K \cap (1 .. n + 1)]
            /\ \A m \in 1 .. Len(q) : q[m] = rows[new[m]]
            /\ \A i, m \in 1 .. Len(q) : new[i] = new[m] => i = m
            /\ \A k \in K \cap (1 .. n + 1) : \E m \in 1 .. Len(q) : new[m] = k
        BY <2>8, <2>9, <2>10, <2>11, <3>1
      <3> QED  BY <2>3, <3>2, Zenon DEF IsKept
    <2> QED  BY <1>3, <2>1, <2>12
  <1>4. CASE n + 1 \notin K
    <2>1. K \cap (1 .. n + 1) = K \cap (1 .. n)
      BY <1>4
    <2>2. Len(r) <= n + 1
      BY <1>1
    <2>3. IsKept(r, S, rows, K, n + 1)
      BY <1>1, <1>2, <2>1, <2>2 DEF IsKept
    <2> QED  BY <1>4, <2>3
  <1> QED  BY <1>3, <1>4

\* The recursion of RowsAt, up to a place.
KeptBy(f, rows, K, n) ==
    f = [k \in 0 .. n |-> IF k = 0 THEN <<>>
                          ELSE IF k \in K THEN Append(f[k - 1], rows[k]) ELSE f[k - 1]]

LEMMA KeptExists ==
    ASSUME NEW rows, NEW K
    PROVE  \A n \in Nat : \E f : KeptBy(f, rows, K, n)
  <1> DEFINE T == {n \in Nat : \E f : KeptBy(f, rows, K, n)}
  <1>1. 0 \in T
    <2> DEFINE f == [k \in 0 .. 0 |-> <<>>]
    <2>1. KeptBy(f, rows, K, 0)
      <3>1. \A k \in 0 .. 0 : k = 0
        OBVIOUS
      <3> QED  BY <3>1 DEF KeptBy
    <2> QED  BY <2>1
  <1>2. ASSUME NEW n \in Nat, n \in T PROVE n + 1 \in T
    <2>1. PICK f : KeptBy(f, rows, K, n)
      BY <1>2
    <2> DEFINE last == IF n + 1 \in K THEN Append(f[n], rows[n + 1]) ELSE f[n]
               g == [k \in 0 .. n + 1 |-> IF k = n + 1 THEN last ELSE f[k]]
    <2>2. ASSUME NEW k \in 0 .. n + 1
          PROVE  g[k] = IF k = 0 THEN <<>>
                        ELSE IF k \in K THEN Append(g[k - 1], rows[k]) ELSE g[k - 1]
      <3>1. CASE k = n + 1
        <4>1. k # 0 /\ k - 1 = n /\ n \in 0 .. n + 1 /\ n # n + 1
          BY <3>1
        <4>2. g[k] = last /\ g[k - 1] = f[n]
          BY <3>1, <4>1
        <4> QED  BY <3>1, <4>1, <4>2
      <3>2. CASE k # n + 1
        <4>1. k \in 0 .. n /\ g[k] = f[k]
          BY <3>2
        <4>2. k # 0 => k - 1 \in 0 .. n + 1 /\ k - 1 # n + 1
          BY <4>1
        <4>3. k # 0 => g[k - 1] = f[k - 1]
          BY <4>2
        <4>4. f[k] = IF k = 0 THEN <<>>
                     ELSE IF k \in K THEN Append(f[k - 1], rows[k]) ELSE f[k - 1]
          BY <2>1, <4>1 DEF KeptBy
        <4> QED  BY <4>1, <4>3, <4>4
      <3> QED  BY <3>1, <3>2
    <2>3. KeptBy(g, rows, K, n + 1)
      BY <2>2 DEF KeptBy
    <2> QED  BY <2>3
  <1> HIDE DEF T
  <1>3. \A n \in Nat : n \in T
    BY <1>1, <1>2, NatSetInduction
  <1> QED  BY <1>3 DEF T

\* RowsAt keeps the rows at the places of K, each one once, and no other.
LEMMA RowsAtFacts ==
    ASSUME NEW S, NEW rows \in Seq(S), NEW K
    PROVE  IsKept(RowsAt(rows, K), S, rows, K, Len(rows))
  <1>0. PICK n \in Nat : n = Len(rows)
    OBVIOUS
  <1>1. PICK f : KeptBy(f, rows, K, n) /\ RowsAt(rows, K) = f[n]
    <2>1. \E f : KeptBy(f, rows, K, n)
      BY KeptExists
    <2> QED  BY <1>0, <2>1 DEF KeptBy, RowsAt
  <1> DEFINE T == {k \in Nat : k <= n => IsKept(f[k], S, rows, K, k)}
  <1>2. 0 \in T
    <2>1. f[0] = <<>>
      BY <1>1 DEF KeptBy
    <2>2. 1 .. 0 = {} /\ <<>> \in Seq(S) /\ Len(<<>>) = 0
      OBVIOUS
    <2>3. <<>> \in [1 .. 0 -> K \cap (1 .. 0)]
      BY <2>2
    <2>4. IsKept(<<>>, S, rows, K, 0)
      <3>1. \A k \in K \cap (1 .. 0) : FALSE
        BY <2>2
      <3>2. \A k \in 1 .. Len(<<>>) : FALSE
        BY <2>2
      <3>3. Len(<<>>) <= 0
        BY <2>2
      <3> QED  BY <2>2, <2>3, <3>1, <3>2, <3>3, Zenon DEF IsKept
    <2> QED  BY <2>1, <2>4
  <1>3. ASSUME NEW k \in Nat, k \in T PROVE k + 1 \in T
    <2> SUFFICES ASSUME k + 1 <= n PROVE IsKept(f[k + 1], S, rows, K, k + 1)
      OBVIOUS
    <2>1. k + 1 \in 0 .. n /\ k + 1 # 0 /\ (k + 1) - 1 = k
      OBVIOUS
    <2>2. f[k + 1] = IF k + 1 \in K THEN Append(f[k], rows[k + 1]) ELSE f[k]
      BY <1>1, <2>1 DEF KeptBy
    <2>3. IsKept(f[k], S, rows, K, k)
      BY <1>3
    <2> QED  BY <1>0, <2>2, <2>3, KeepOne
  <1> HIDE DEF T
  <1>4. n \in T
    BY <1>2, <1>3, NatSetInduction
  <1> QED  BY <1>0, <1>1, <1>4 DEF T

-------------------------------------------------------------------------------
(* The rows of a manifest.                                                 *)

NatRow == [index : Nat, cond : Conditions]

\* The rows have directories and conditions of their own.
Distinct(rows) ==
    \A j, k \in 1 .. Len(rows) :
        run_dir(rows[j]) = run_dir(rows[k]) \/ rows[j].cond = rows[k].cond => j = k

\* Passing over rows keeps them distinct.
LEMMA KeptDistinct ==
    ASSUME NEW S, NEW rows \in Seq(S), NEW K, Distinct(rows)
    PROVE  Distinct(RowsAt(rows, K))
  <1>1. PICK r : r = RowsAt(rows, K)
    OBVIOUS
  <1>2. IsKept(r, S, rows, K, Len(rows))
    BY <1>1, RowsAtFacts
  <1>3. PICK at \in [1 .. Len(r) -> K \cap (1 .. Len(rows))] :
          /\ \A m \in 1 .. Len(r) : r[m] = rows[at[m]]
          /\ \A l, m \in 1 .. Len(r) : at[l] = at[m] => l = m
    BY <1>2 DEF IsKept
  <1>4. Distinct(r)
    <2> SUFFICES ASSUME NEW j \in 1 .. Len(r), NEW k \in 1 .. Len(r),
                        run_dir(r[j]) = run_dir(r[k]) \/ r[j].cond = r[k].cond
                 PROVE  j = k
      BY DEF Distinct
    <2>1. /\ at[j] \in 1 .. Len(rows) /\ at[k] \in 1 .. Len(rows)
          /\ r[j] = rows[at[j]] /\ r[k] = rows[at[k]]
      BY <1>3
    <2>2. at[j] = at[k]
      BY <2>1 DEF Distinct
    <2> QED  BY <1>3, <2>2
  <1> QED  BY <1>1, <1>4

\* --max-runs keeps them distinct.
LEMMA PrefixFacts ==
    ASSUME NEW rows \in Seq(NatRow), NEW n \in Nat
    PROVE  LET p == SubSeq(rows, 1, Min({n, Len(rows)}))
           IN  /\ p \in Seq(NatRow)
               /\ \A k \in 1 .. Len(p) : k \in 1 .. Len(rows) /\ p[k] = rows[k]
               /\ n >= Len(rows) => p = rows
               /\ Distinct(rows) => Distinct(p)
  <1>1. PICK l \in Nat : l = Len(rows)
    OBVIOUS
  <1>2. PICK m \in 0 .. l : m = Min({n, Len(rows)}) /\ (n >= l => m = l)
    <2>1. \E x \in {n, l} : \A y \in {n, l} : x <= y
      OBVIOUS
    <2>2. Min({n, l}) \in {n, l} /\ \A y \in {n, l} : Min({n, l}) <= y
      BY <2>1 DEF Min
    <2>3. Min({n, l}) <= n /\ Min({n, l}) <= l
      BY <2>2
    <2> QED  BY <1>1, <2>2, <2>3
  <1>3. PICK p : p = SubSeq(rows, 1, m)
    OBVIOUS
  <1>4. /\ p \in Seq(NatRow) /\ Len(p) = m
        /\ \A k \in 1 .. m : p[k] = rows[k] /\ k \in 1 .. l
    BY <1>1, <1>3
  <1>5. m = l => p = rows
    BY <1>1, <1>3
  <1>6. Distinct(rows) => Distinct(p)
    BY <1>1, <1>4 DEF Distinct
  <1> QED  BY <1>1, <1>2, <1>3, <1>4, <1>5, <1>6

\* The plans of an invocation.
LEMMA PlanType ==
    ASSUME NEW plan \in AppendPlans \cup {BasePlan}
    PROVE  /\ plan \in Seq(Conditions) /\ DOMAIN plan = 1 .. Len(plan)
           /\ \A j, k \in 1 .. Len(plan) : plan[j] = plan[k] => j = k
  <1>1. plan \in Plans
    BY ManifestAssumption
  <1>2. PICK n \in 0 .. Cardinality(Conditions) : plan \in [1 .. n -> Conditions]
    BY <1>1 DEF Plans
  <1>3. plan \in Seq(Conditions) /\ DOMAIN plan = 1 .. Len(plan)
    BY <1>2
  <1>4. IsInjective(plan)
    BY <1>1 DEF Plans
  <1> QED  BY <1>3, <1>4 DEF IsInjective

\* The index the scan has found last.
LEMMA MaxIndexFacts ==
    ASSUME DirsInv
    PROVE  max_index \in Nat /\ \A d \in all_existing : d[1] \in Nat /\ d[1] <= max_index
  <1> DEFINE S == {0} \cup {d[1] : d \in all_existing}
  <1>1. \A d \in all_existing : d[1] \in 0 .. MaxIndex
    BY DEF DirsInv, all_existing
  <1>2. MaxIndex \in Nat
    BY ManifestAssumption
  <1>3. S \in SUBSET (0 .. MaxIndex) /\ 0 \in S /\ \A d \in all_existing : d[1] \in S
    BY <1>1, <1>2
  <1>4. max_index = Max(S)
    BY DEF max_index
  <1> HIDE DEF S
  <1>5. Max(S) \in S /\ \A x \in S : x <= Max(S)
    BY <1>2, <1>3, MaxOfBounded
  <1>6. \A x \in S : x \in Nat
    BY <1>2, <1>3
  <1> QED  BY <1>3, <1>4, <1>5, <1>6

\* A new index passes all that the scan has found, and those of earlier rows.
LEMMA FreshIndexFacts ==
    ASSUME DirsInv, NEW plan \in AppendPlans \cup {BasePlan}, NEW k \in 1 .. Len(plan),
           plan[k] \notin Keys(all_existing)
    PROVE  /\ FreshIndex(plan, k) \in Nat /\ FreshIndex(plan, k) > max_index
           /\ \A j \in 1 .. Len(plan) : j < k => FreshIndex(plan, j) < FreshIndex(plan, k)
  <1> DEFINE New(j) == {i \in 1 .. j : plan[i] \notin Keys(all_existing)}
  <1>0. max_index \in Nat /\ Len(plan) \in Nat
    BY MaxIndexFacts, PlanType
  <1>1. ASSUME NEW j \in 1 .. Len(plan)
        PROVE  IsFiniteSet(New(j)) /\ Cardinality(New(j)) \in Nat
    <2>1. IsFiniteSet(1 .. j)
      BY FS_Interval
    <2>2. New(j) \subseteq 1 .. j
      OBVIOUS
    <2> HIDE DEF New
    <2>3. IsFiniteSet(New(j))
      BY <2>1, <2>2, FS_Subset
    <2> QED  BY <2>3, FS_CardinalityType
  <1>2. ASSUME NEW j \in 0 .. Len(plan), j < k, IsFiniteSet(New(j))
        PROVE  Cardinality(New(j)) < Cardinality(New(k))
    <2>1. New(j) \subseteq New(k) /\ k \in New(k) /\ k \notin New(j)
      BY <1>0, <1>2
    <2> HIDE DEF New
    <2>2. /\ Cardinality(New(j)) <= Cardinality(New(k))
          /\ Cardinality(New(j)) = Cardinality(New(k)) => New(j) = New(k)
      BY <1>1, <2>1, FS_Subset
    <2>3. Cardinality(New(j)) \in Nat /\ Cardinality(New(k)) \in Nat
      BY <1>1, <1>2, FS_CardinalityType
    <2> QED  BY <2>1, <2>2, <2>3
  <1>3. Cardinality(New(k)) > 0
    <2>1. New(0) = {}
      OBVIOUS
    <2>2. IsFiniteSet(New(0)) /\ Cardinality(New(0)) = 0
      BY <2>1, FS_EmptySet
    <2>3. 0 \in 0 .. Len(plan) /\ 0 < k
      BY <1>0
    <2> HIDE DEF New
    <2> QED  BY <1>1, <1>2, <2>2, <2>3
  <1>4. \A j \in 1 .. Len(plan) : FreshIndex(plan, j) = max_index + Cardinality(New(j))
    BY DEF FreshIndex
  <1> HIDE DEF New
  <1>5. \A j \in 1 .. Len(plan) : j < k => Cardinality(New(j)) < Cardinality(New(k))
    <2>1. \A j \in 1 .. Len(plan) : j \in 0 .. Len(plan)
      BY <1>0
    <2> QED  BY <1>1, <1>2, <2>1
  <1> QED  BY <1>0, <1>1, <1>3, <1>4, <1>5

\* A row of --append-missing is that of a directory the scan has found under its
\* condition, or has a new index.
LEMMA AppendRowFacts ==
    ASSUME DirsInv, NEW plan \in AppendPlans \cup {BasePlan}, NEW k \in 1 .. Len(plan)
    PROVE  /\ AppendRow(plan, k) \in NatRow /\ AppendRow(plan, k).cond = plan[k]
           /\ plan[k] \in Keys(all_existing) =>
                 /\ run_dir(AppendRow(plan, k)) \in all_existing
                 /\ dirs[run_dir(AppendRow(plan, k))].cond = plan[k]
                 /\ AppendRow(plan, k).index <= max_index
           /\ plan[k] \notin Keys(all_existing) =>
                 AppendRow(plan, k).index = FreshIndex(plan, k)
  <1>0. plan[k] \in Conditions
    BY PlanType
  <1>1. CASE plan[k] \in Keys(all_existing)
    <2> DEFINE c == plan[k]
               E == {e \in all_existing : dirs[e].cond = c}
               S == {d[1] : d \in E}
    <2>1. PICK e \in all_existing : dirs[e].cond = c
      BY <1>1 DEF Keys
    <2>2. MaxIndex \in Nat
      BY ManifestAssumption
    <2>3. S \in SUBSET (0 .. MaxIndex) /\ e[1] \in S
      BY <2>1 DEF DirsInv, all_existing
    <2>4. Max(S) \in S
      <3> HIDE DEF S
      <3> QED  BY <2>2, <2>3, MaxOfBounded
    <2>5. PICK d \in E : d[1] = Max(S)
      BY <2>4
    <2>6. PICK row : row = AppendRow(plan, k)
      OBVIOUS
    <2>7. row = [index |-> Max(S), cond |-> c]
      BY <1>1, <2>6 DEF AppendRow, ExistingRow
    <2>8. d \in all_existing /\ dirs[d].cond = c /\ d = <<d[1], Stem[c]>> /\ d[1] \in 0 .. MaxIndex
      BY <2>5 DEF DirsInv, all_existing
    <2> HIDE DEF S, E
    <2>9. row.index = d[1] /\ row.cond = c /\ row \in NatRow
      BY <1>0, <2>2, <2>5, <2>7, <2>8 DEF NatRow
    <2>10. run_dir(row) = d
      BY <2>8, <2>9 DEF run_dir
    <2>11. d[1] <= max_index
      BY <2>8, MaxIndexFacts
    <2> QED  BY <1>1, <2>6, <2>8, <2>9, <2>10, <2>11
  <1>2. CASE plan[k] \notin Keys(all_existing)
    <2>1. AppendRow(plan, k) = [index |-> FreshIndex(plan, k), cond |-> plan[k]]
      BY <1>2 DEF AppendRow
    <2> QED  BY <1>0, <1>2, <2>1, FreshIndexFacts DEF NatRow
  <1> QED  BY <1>1, <1>2

\* The rows of --append-missing have directories of their own.
LEMMA AppendRowsDiffer ==
    ASSUME DirsInv, NEW plan \in AppendPlans \cup {BasePlan},
           NEW j \in 1 .. Len(plan), NEW k \in 1 .. Len(plan), j < k
    PROVE  run_dir(AppendRow(plan, j)) # run_dir(AppendRow(plan, k))
  <1>1. AppendRow(plan, j) \in NatRow /\ AppendRow(plan, k) \in NatRow
    BY AppendRowFacts
  <1>2. SUFFICES ASSUME run_dir(AppendRow(plan, j)) = run_dir(AppendRow(plan, k)) PROVE FALSE
    OBVIOUS
  <1>3. AppendRow(plan, j).index = AppendRow(plan, k).index
    BY <1>2 DEF run_dir
  <1>4. max_index \in Nat /\ AppendRow(plan, k).index \in Nat
    BY <1>1, MaxIndexFacts DEF NatRow
  <1>5. plan[j] # plan[k]
    BY PlanType
  <1>6. CASE plan[j] \in Keys(all_existing) /\ plan[k] \in Keys(all_existing)
    BY <1>2, <1>5, <1>6, AppendRowFacts
  <1>7. CASE plan[j] \in Keys(all_existing) /\ plan[k] \notin Keys(all_existing)
    BY <1>3, <1>4, <1>7, AppendRowFacts, FreshIndexFacts
  <1>8. CASE plan[j] \notin Keys(all_existing) /\ plan[k] \in Keys(all_existing)
    BY <1>3, <1>4, <1>8, AppendRowFacts, FreshIndexFacts
  <1>9. CASE plan[j] \notin Keys(all_existing) /\ plan[k] \notin Keys(all_existing)
    <2>1. FreshIndex(plan, j) < FreshIndex(plan, k) /\ FreshIndex(plan, k) \in Nat
      BY <1>9, FreshIndexFacts
    <2>2. FreshIndex(plan, j) = FreshIndex(plan, k)
      BY <1>3, <1>9, AppendRowFacts
    <2> QED  BY <2>1, <2>2
  <1> QED  BY <1>6, <1>7, <1>8, <1>9

\* The rows of a plain invocation.
LEMMA BuildManifestFacts ==
    ASSUME NEW plan \in AppendPlans \cup {BasePlan}
    PROVE  build_manifest(plan) \in Seq(NatRow) /\ Distinct(build_manifest(plan))
  <1>1. /\ Len(plan) \in Nat /\ plan \in Seq(Conditions) /\ DOMAIN plan = 1 .. Len(plan)
        /\ \A j, k \in 1 .. Len(plan) : plan[j] = plan[k] => j = k
    BY PlanType
  <1>2. PICK rows : rows = build_manifest(plan)
    OBVIOUS
  <1>3. rows = [k \in 1 .. Len(plan) |-> [index |-> k, cond |-> plan[k]]]
    BY <1>1, <1>2 DEF build_manifest
  <1>4. rows \in Seq(NatRow) /\ Len(rows) = Len(plan)
    <2>1. \A k \in 1 .. Len(plan) : [index |-> k, cond |-> plan[k]] \in NatRow
      BY <1>1 DEF NatRow
    <2> QED  BY <1>1, <1>3, <2>1
  <1>5. \A k \in 1 .. Len(plan) : rows[k].index = k /\ rows[k].cond = plan[k]
    BY <1>3
  <1>6. Distinct(rows)
    BY <1>1, <1>4, <1>5 DEF Distinct, run_dir
  <1> QED  BY <1>2, <1>4, <1>6

\* A directory with a completed result that the scan has seen.
Seen(d) == d \in DOMAIN dirs /\ HasResult(d) /\ Readable(d)

\* The rows of --append-missing: none is for a condition whose result the scan
\* has seen or goes to such a directory, and no other condition is left out.
LEMMA AppendManifestFacts ==
    ASSUME DirsInv, NEW plan \in AppendPlans \cup {BasePlan},
           NEW rows, rows = build_append_missing_manifest(plan)
    PROVE  /\ rows \in Seq(NatRow) /\ Distinct(rows) /\ Len(rows) <= Len(plan)
           /\ \A k \in 1 .. Len(rows) : /\ ~Seen(run_dir(rows[k]))
                                        /\ rows[k].cond \notin Keys(completed_existing)
           /\ \A c \in Range(plan) : \/ c \in Keys(completed_existing)
                                     \/ \E k \in 1 .. Len(rows) : rows[k].cond = c
  <1> DEFINE K == {k \in DOMAIN plan : plan[k] \notin Keys(completed_existing)}
  <1>1. /\ Len(plan) \in Nat /\ DOMAIN plan = 1 .. Len(plan)
        /\ \A j, k \in 1 .. Len(plan) : plan[j] = plan[k] => j = k
    BY PlanType
  <1>2. PICK every : every = [k \in 1 .. Len(plan) |-> AppendRow(plan, k)]
    OBVIOUS
  <1>3. /\ every \in Seq(NatRow) /\ Len(every) = Len(plan)
        /\ \A k \in 1 .. Len(plan) : every[k] = AppendRow(plan, k) /\ every[k].cond = plan[k]
    <2>1. \A k \in 1 .. Len(plan) : /\ AppendRow(plan, k) \in NatRow
                                    /\ AppendRow(plan, k).cond = plan[k]
      BY AppendRowFacts
    <2> QED  BY <1>1, <1>2, <2>1
  <1>4. Distinct(every)
    <2> SUFFICES ASSUME NEW j \in 1 .. Len(plan), NEW k \in 1 .. Len(plan), j # k
                 PROVE  /\ run_dir(every[j]) # run_dir(every[k])
                        /\ every[j].cond # every[k].cond
      BY <1>3 DEF Distinct
    <2>1. j < k \/ k < j
      BY <1>1
    <2> QED  BY <1>1, <1>3, <2>1, AppendRowsDiffer
  <1>5. rows = RowsAt(every, K)
    BY <1>1, <1>2 DEF build_append_missing_manifest
  <1>6. \A k \in 1 .. Len(plan) :
           k \in K <=> plan[k] \notin Keys(completed_existing)
    BY <1>1
  <1> HIDE DEF K
  <1>7. IsKept(rows, NatRow, every, K, Len(every))
    BY <1>3, <1>5, RowsAtFacts
  <1>8. rows \in Seq(NatRow) /\ Distinct(rows) /\ Len(rows) <= Len(plan)
    BY <1>3, <1>4, <1>5, <1>7, KeptDistinct DEF IsKept
  <1>9. PICK at \in [1 .. Len(rows) -> K \cap (1 .. Len(plan))] :
          /\ \A m \in 1 .. Len(rows) : rows[m] = every[at[m]]
          /\ \A k \in K \cap (1 .. Len(plan)) : \E m \in 1 .. Len(rows) : at[m] = k
    BY <1>3, <1>7 DEF IsKept
  <1>10. ASSUME NEW m \in 1 .. Len(rows)
         PROVE  /\ ~Seen(run_dir(rows[m]))
                /\ rows[m].cond \notin Keys(completed_existing)
    <2>1. PICK k \in 1 .. Len(plan) :
             /\ k \in K /\ rows[m] = AppendRow(plan, k) /\ rows[m].cond = plan[k]
             /\ plan[k] \notin Keys(completed_existing)
      BY <1>3, <1>6, <1>9
    <2>2. PICK d : d = run_dir(rows[m])
      OBVIOUS
    <2>3. Seen(d) => d \in completed_existing /\ d \in all_existing
      BY DEF Seen, completed_existing, all_existing, run_dir_has_completed_result
    <2>4. CASE plan[k] \in Keys(all_existing)
      BY <2>1, <2>2, <2>3, <2>4, AppendRowFacts DEF Keys
    <2>5. CASE plan[k] \notin Keys(all_existing)
      <3>1. d[1] = FreshIndex(plan, k)
        BY <2>1, <2>2, <2>5, AppendRowFacts DEF run_dir
      <3>2. FreshIndex(plan, k) \in Nat /\ FreshIndex(plan, k) > max_index /\ max_index \in Nat
        BY <2>5, FreshIndexFacts, MaxIndexFacts
      <3>3. Seen(d) => d[1] \in Nat /\ d[1] <= max_index
        BY <2>3, MaxIndexFacts
      <3> QED  BY <2>1, <2>2, <3>1, <3>2, <3>3
    <2> QED  BY <2>4, <2>5
  <1>11. ASSUME NEW c \in Range(plan), c \notin Keys(completed_existing)
         PROVE  \E m \in 1 .. Len(rows) : rows[m].cond = c
    <2>1. PICK k \in 1 .. Len(plan) : plan[k] = c
      BY <1>1 DEF Range
    <2>2. k \in K \cap (1 .. Len(plan))
      BY <1>6, <1>11, <2>1
    <2>3. PICK m \in 1 .. Len(rows) : at[m] = k
      BY <1>9, <2>2
    <2> QED  BY <1>3, <1>9, <2>1, <2>3
  <1> QED  BY <1>8, <1>10, <1>11

-------------------------------------------------------------------------------
(* An invocation.                                                          *)

LEMMA ManifestInvoke ==
    ASSUME ManifestInv, Invoke
    PROVE  ManifestInv'
  <1>1. /\ running \in BOOLEAN /\ rerun \in BOOLEAN
        /\ DirsInv /\ RowsInv /\ RowsShareNoDirectory /\ StartInv /\ OnceInv
        /\ OneResultPerCondition /\ PlanInv
    BY DEF ManifestInv
  <1>2. PICK f \in Flags, plan \in AppendPlans \cup {BasePlan} : \E max_runs \in 0 .. Len(plan) :
        /\ inv' = [append |-> f.append, resume |-> f.resume, plan |-> plan,
                   all |-> max_runs >= Len(plan)]
        /\ LET manifest == IF f.append THEN build_append_missing_manifest(plan)
                                       ELSE build_manifest(plan)
               rows == SubSeq(manifest, 1, Min({max_runs, Len(manifest)}))
           IN  /\ \A k \in DOMAIN rows : rows[k].index <= MaxIndex
               /\ pending' = RowsAt(rows, {k \in DOMAIN rows : ~should_skip_run(rows[k])})
               /\ rerun' = (rerun \/ (~f.append /\ DOMAIN dirs # {}))
    BY DEF Invoke
  <1>2a. PICK max_runs \in 0 .. Len(plan) :
        /\ inv' = [append |-> f.append, resume |-> f.resume, plan |-> plan,
                   all |-> max_runs >= Len(plan)]
        /\ LET manifest == IF f.append THEN build_append_missing_manifest(plan)
                                       ELSE build_manifest(plan)
               rows == SubSeq(manifest, 1, Min({max_runs, Len(manifest)}))
           IN  /\ \A k \in DOMAIN rows : rows[k].index <= MaxIndex
               /\ pending' = RowsAt(rows, {k \in DOMAIN rows : ~should_skip_run(rows[k])})
               /\ rerun' = (rerun \/ (~f.append /\ DOMAIN dirs # {}))
    BY <1>2
  <1>3. PICK manifest :
           manifest = IF f.append THEN build_append_missing_manifest(plan)
                                  ELSE build_manifest(plan)
    OBVIOUS
  <1>4. PICK rows : rows = SubSeq(manifest, 1, Min({max_runs, Len(manifest)}))
    OBVIOUS
  <1>5. PICK K : K = {k \in DOMAIN rows : ~should_skip_run(rows[k])}
    OBVIOUS
  <1>6. /\ \A k \in DOMAIN rows : rows[k].index <= MaxIndex
        /\ pending' = RowsAt(rows, K)
        /\ rerun' = (rerun \/ (~f.append /\ DOMAIN dirs # {}))
        /\ phase' = [k \in DOMAIN pending' |-> "todo"]
        /\ running' = TRUE /\ dirs' = dirs
    BY <1>2a, <1>3, <1>4, <1>5 DEF Invoke
  <1>7. manifest \in Seq(NatRow) /\ Distinct(manifest)
    BY <1>1, <1>3, AppendManifestFacts, BuildManifestFacts
  <1>8. /\ rows \in Seq(NatRow) /\ Distinct(rows)
        /\ \A k \in 1 .. Len(rows) : k \in 1 .. Len(manifest) /\ rows[k] = manifest[k]
        /\ max_runs >= Len(manifest) => rows = manifest
    <2>1. max_runs \in Nat
      BY PlanType
    <2> QED  BY <1>4, <1>7, <2>1, PrefixFacts
  <1>9. rows \in Seq(Row)
    <2>1. \A k \in 1 .. Len(rows) : rows[k] \in NatRow /\ rows[k].index <= MaxIndex
      BY <1>6, <1>8
    <2>2. \A k \in 1 .. Len(rows) : rows[k] \in Row
      BY <2>1, ManifestAssumption DEF NatRow, Row
    <2> QED  BY <1>8, <2>2
  <1>10. IsKept(pending', Row, rows, K, Len(rows)) /\ Distinct(pending')
    BY <1>6, <1>8, <1>9, RowsAtFacts, KeptDistinct
  <1>11. pending' \in Seq(Row) /\ DOMAIN pending' = 1 .. Len(pending')
    BY <1>10 DEF IsKept
  <1>12. PICK at \in [1 .. Len(pending') -> K \cap (1 .. Len(rows))] :
          /\ \A m \in 1 .. Len(pending') : pending'[m] = rows[at[m]]
          /\ \A k \in K \cap (1 .. Len(rows)) : \E m \in 1 .. Len(pending') : at[m] = k
    BY <1>10 DEF IsKept
  <1>13. DirsInv' /\ running' \in BOOLEAN /\ rerun' \in BOOLEAN
    BY <1>1, <1>6 DEF DirsInv, HasResult
  <1>14. RowsInv' /\ RowsShareNoDirectory'
    <2>1. /\ phase' \in [DOMAIN pending' -> Phases]
          /\ \A k \in DOMAIN pending' : phase'[k] = "todo"
      BY <1>6 DEF Phases
    <2>2. \A j, k \in DOMAIN pending' :
             run_dir(pending'[j]) = run_dir(pending'[k]) \/ pending'[j].cond = pending'[k].cond
                 => j = k
      BY <1>10, <1>11 DEF Distinct
    <2> QED  BY <1>11, <2>1, <2>2 DEF RowsInv, RowsShareNoDirectory, run_dir, InFlightPhases
  <1>15. inv'.append = f.append /\ inv'.resume = f.resume /\ inv'.plan = plan
         /\ (inv'.all <=> max_runs >= Len(plan))
    BY <1>2a
  <1>16. f.append =>
           \A k \in 1 .. Len(manifest) : /\ ~Seen(run_dir(manifest[k]))
                                         /\ manifest[k].cond \notin Keys(completed_existing)
    BY <1>1, <1>3, AppendManifestFacts
  <1>17. f.append =>
           \A m \in 1 .. Len(pending') : /\ ~Seen(run_dir(pending'[m]))
                                         /\ pending'[m].cond \notin Keys(completed_existing)
    BY <1>8, <1>12, <1>16
  <1>18. \/ f.append /\ (rerun' <=> rerun)
         \/ rerun' = TRUE
         \/ ~f.append /\ (rerun' <=> rerun) /\ DOMAIN dirs = {}
    BY <1>1, <1>6
  <1>19. StartInv'
    BY <1>6, <1>11, <1>15, <1>17, <1>18 DEF StartInv, Seen, HasResult, Readable, run_dir
  <1>20. OnceInv'
    <2> SUFFICES ASSUME ~rerun', NEW d \in DOMAIN dirs, HasResult(d)
                 PROVE  /\ Readable(d) /\ dirs[d].result.cond = dirs[d].cond
                        /\ \A k \in DOMAIN pending' : dirs[d].cond # pending'[k].cond
      BY <1>6 DEF OnceInv, HasResult, Readable
    <2>1. f.append /\ ~rerun
      BY <1>18
    <2>2. Readable(d) /\ dirs[d].result.cond = dirs[d].cond
      BY <1>1, <2>1 DEF OnceInv
    <2>3. d \in completed_existing
      BY <2>2 DEF completed_existing, all_existing, run_dir_has_completed_result
    <2> QED  BY <1>11, <1>17, <2>1, <2>2, <2>3 DEF Keys
  <1>21. OneResultPerCondition'
    BY <1>1, <1>6, <1>18 DEF OneResultPerCondition, HasResult
  <1>22. PlanInv'
    <2> SUFFICES ASSUME f.append, max_runs >= Len(plan), NEW c \in Range(plan),
                        ~(rerun /\ ~OwnStem(c)),
                        \A k \in DOMAIN pending' : pending'[k].cond # c
                 PROVE  \E d \in DOMAIN dirs :
                           /\ HasResult(d) /\ dirs[d].result.cond = c
                           /\ \A k \in DOMAIN pending' : run_dir(pending'[k]) # d
      BY <1>6, <1>15, <1>18 DEF PlanInv, HasResult, OwnStem, run_dir
    <2>0. c \in Conditions
      BY PlanType DEF Range
    <2>1. /\ rows = manifest /\ manifest = build_append_missing_manifest(plan)
          /\ Len(manifest) <= Len(plan)
      <3>1. manifest = build_append_missing_manifest(plan)
        BY <1>3
      <3>2. Len(manifest) <= Len(plan) /\ Len(manifest) \in Nat /\ Len(plan) \in Nat
        BY <1>1, <1>7, <3>1, AppendManifestFacts, PlanType
      <3>3. max_runs \in Int
        OBVIOUS
      <3> QED  BY <1>8, <3>1, <3>2, <3>3
    \* A result under the name of c is of c.
    <2>2. ASSUME NEW d \in DOMAIN dirs, HasResult(d), d[2] = Stem[c],
                 ~rerun => dirs[d].cond = c
          PROVE  dirs[d].result.cond = c
      <3>1. CASE ~rerun
        BY <1>1, <2>2, <3>1 DEF OnceInv
      <3>2. CASE rerun
        <4>1. Stem[dirs[d].result.cond] = Stem[c]
          BY <1>1, <2>2 DEF DirsInv
        <4>2. dirs[d] \in Dir /\ dirs[d].result \in Results
          BY <1>1 DEF DirsInv, Dir
        <4>3. dirs[d].result.cond \in Conditions
          BY <2>2, <4>2 DEF HasResult, Results, NoResult, Retryable
        <4> QED  BY <3>2, <4>1, <4>3 DEF OwnStem
      <3> QED  BY <3>1, <3>2
    <2>3. CASE c \in Keys(completed_existing)
      <3>1. PICK d \in completed_existing : dirs[d].cond = c
        BY <2>3 DEF Keys
      <3>2. d \in DOMAIN dirs /\ HasResult(d) /\ Readable(d) /\ d[2] = Stem[c]
        BY <1>1, <3>1
           DEF completed_existing, all_existing, run_dir_has_completed_result, DirsInv
      <3>3. dirs[d].result.cond = c
        BY <2>2, <3>1, <3>2
      <3>4. \A k \in DOMAIN pending' : run_dir(pending'[k]) # d
        BY <1>11, <1>17, <3>2 DEF Seen
      <3> QED  BY <3>2, <3>3, <3>4
    <2>4. CASE c \notin Keys(completed_existing)
      <3>1. PICK k \in 1 .. Len(rows) : rows[k].cond = c
        BY <1>1, <2>1, <2>4, AppendManifestFacts
      <3>2. k \notin K
        BY <1>11, <1>12, <3>1
      <3>3. PICK d : d = run_dir(rows[k])
        OBVIOUS
      <3>4. d \in DOMAIN dirs /\ dirs[d].result.level = "root" /\ d[2] = Stem[c]
        BY <1>5, <1>9, <3>1, <3>2, <3>3 DEF should_skip_run, run_dir
      <3>5. HasResult(d)
        BY <3>4 DEF HasResult
      <3>6. rerun
        <4>1. ~Readable(d)
          BY <1>16, <2>1, <3>3, <3>4, <3>5 DEF Seen
        <4> QED  BY <1>1, <3>4, <3>5, <4>1 DEF OnceInv
      <3>7. dirs[d].result.cond = c
        BY <2>2, <3>4, <3>5, <3>6
      <3>8. \A m \in DOMAIN pending' : run_dir(pending'[m]) # d
        <4> SUFFICES ASSUME NEW m \in 1 .. Len(pending'), run_dir(pending'[m]) = d
                     PROVE  FALSE
          BY <1>11
        <4>1. at[m] \in K /\ at[m] \in 1 .. Len(rows) /\ pending'[m] = rows[at[m]]
          BY <1>12
        <4>2. at[m] = k
          BY <1>8, <3>3, <4>1 DEF Distinct
        <4> QED  BY <3>2, <4>1, <4>2
      <3> QED  BY <3>4, <3>5, <3>7, <3>8
    <2> QED  BY <2>3, <2>4
  <1> QED  BY <1>13, <1>14, <1>19, <1>20, <1>21, <1>22 DEF ManifestInv

-------------------------------------------------------------------------------
(* The flight of a row.                                                    *)

\* The parts of the invariant, and the row of a step.
LEMMA RowFacts ==
    ASSUME ManifestInv, NEW k \in DOMAIN phase
    PROVE  /\ k \in DOMAIN pending /\ DOMAIN phase = DOMAIN pending
           /\ pending[k] \in Row /\ phase[k] \in Phases
           /\ run_dir(pending[k])[1] \in 0 .. MaxIndex
           /\ run_dir(pending[k]) = <<run_dir(pending[k])[1], Stem[pending[k].cond]>>
           /\ \A j \in DOMAIN pending : run_dir(pending[j]) = run_dir(pending[k]) => j = k
  <1>1. pending \in Seq(Row) /\ phase \in [DOMAIN pending -> Phases] /\ RowsShareNoDirectory
    BY DEF ManifestInv, RowsInv
  <1>2. k \in DOMAIN pending /\ DOMAIN phase = DOMAIN pending /\ phase[k] \in Phases
    BY <1>1
  <1>3. pending[k] \in Row
    BY <1>1, <1>2
  <1>4. pending[k].index \in 0 .. MaxIndex
    BY <1>3 DEF Row
  <1> QED  BY <1>1, <1>2, <1>3, <1>4 DEF RowsShareNoDirectory, run_dir

\* Without reruns, the directory of a row has no result before its flight ends.
LEMMA NoResultYet ==
    ASSUME ManifestInv, NEW k \in DOMAIN phase, ~rerun,
           phase[k] \in {"todo", "meta1", "launch", "meta2", "flight"},
           run_dir(pending[k]) \in DOMAIN dirs
    PROVE  ~HasResult(run_dir(pending[k]))
  <1>1. k \in DOMAIN pending /\ RowsInv /\ StartInv /\ OnceInv
    BY RowFacts DEF ManifestInv
  <1>2. CASE phase[k] = "todo"
    BY <1>1, <1>2 DEF StartInv, OnceInv
  <1>3. CASE phase[k] # "todo"
    <2>1. dirs[run_dir(pending[k])].cond = pending[k].cond
      BY <1>1, <1>3 DEF RowsInv, InFlightPhases
    <2> QED  BY <1>1, <2>1 DEF OnceInv
  <1> QED  BY <1>2, <1>3

\* run_meta.json is opened or closed.
LEMMA ManifestMeta ==
    ASSUME ManifestInv, NEW k \in DOMAIN phase, NEW meta \in {"torn", "doc"},
           phase[k] \in {"todo", "meta1", "launch", "meta2"},
           NEW p \in {"meta1", "launch", "meta2", "flight"},
           p \in {"launch", "flight"} => meta = "doc",
           phase' = [phase EXCEPT ![k] = p], RowStep,
           dirs' = WithMeta(run_dir(pending[k]), meta, pending[k].cond)
    PROVE  ManifestInv'
  <1>1. /\ running \in BOOLEAN /\ rerun \in BOOLEAN
        /\ DirsInv /\ RowsInv /\ RowsShareNoDirectory /\ StartInv /\ OnceInv
        /\ OneResultPerCondition /\ PlanInv
    BY DEF ManifestInv
  <1>2. PICK x : x = run_dir(pending[k])
    OBVIOUS
  <1>3. /\ k \in DOMAIN pending /\ DOMAIN phase = DOMAIN pending
        /\ pending[k] \in Row /\ pending[k].cond \in Conditions
        /\ x[1] \in 0 .. MaxIndex /\ x = <<x[1], Stem[pending[k].cond]>>
        /\ \A j \in DOMAIN pending : run_dir(pending[j]) = x => j = k
    BY <1>2, RowFacts DEF Row
  <1>4. UNCHANGED <<pending, inv, running, rerun>>
    BY DEF RowStep
  <1>5. PICK old \in Results : old = IF x \in DOMAIN dirs THEN dirs[x].result ELSE NoResult
    BY <1>1 DEF DirsInv, Dir, Results
  <1>6. /\ DOMAIN dirs' = DOMAIN dirs \cup {x}
        /\ dirs'[x] = [meta |-> meta, cond |-> pending[k].cond, result |-> old]
        /\ \A d \in DOMAIN dirs : d # x => dirs'[d] = dirs[d]
        /\ dirs' = [d \in DOMAIN dirs' |-> dirs'[d]]
    BY <1>2, <1>5 DEF WithMeta
  <1>7. /\ dirs'[x].meta = meta /\ dirs'[x].cond = pending[k].cond /\ dirs'[x].result = old
        /\ dirs'[x] \in Dir
    BY <1>3, <1>6 DEF Dir
  <1>8. HasResult(x)' => x \in DOMAIN dirs /\ HasResult(x) /\ dirs[x].result = old
    BY <1>5, <1>7 DEF HasResult, NoResult
  <1>9. \A d \in DOMAIN dirs : d # x => (HasResult(d)' <=> HasResult(d))
    BY <1>6 DEF HasResult
  <1>10. ~rerun => ~HasResult(x)'
    BY <1>2, <1>8, NoResultYet
  <1>11. /\ phase' \in [DOMAIN pending -> Phases] /\ phase'[k] = p
         /\ \A j \in DOMAIN pending : j # k => phase'[j] = phase[j]
    BY <1>1, <1>3 DEF RowsInv, Phases, InFlightPhases
  <1>12. \A j \in DOMAIN pending : j # k => run_dir(pending[j]) # x
    BY <1>3
  <1>13. DirsInv'
    <2>1. \A d \in DOMAIN dirs' : dirs'[d] \in Dir
      BY <1>1, <1>6, <1>7 DEF DirsInv
    <2>2. ASSUME NEW d \in DOMAIN dirs'
          PROVE  /\ d[1] \in 0 .. MaxIndex /\ d = <<d[1], Stem[dirs'[d].cond]>>
                 /\ HasResult(d)' => Stem[dirs'[d].result.cond] = d[2]
      <3>1. CASE d = x
        BY <1>1, <1>3, <1>7, <1>8, <3>1 DEF DirsInv
      <3>2. CASE d # x
        BY <1>1, <1>6, <1>9, <3>2 DEF DirsInv
      <3> QED  BY <3>1, <3>2
    <2> QED  BY <1>6, <2>1, <2>2 DEF DirsInv
  <1>14. RowsInv'
    <2>1. ASSUME NEW j \in DOMAIN pending
          PROVE  /\ phase'[j] \in InFlightPhases =>
                       /\ run_dir(pending[j]) \in DOMAIN dirs'
                       /\ dirs'[run_dir(pending[j])].cond = pending[j].cond
                 /\ phase'[j] \in {"launch", "flight", "saving"} =>
                       dirs'[run_dir(pending[j])].meta = "doc"
                 /\ phase'[j] = "ended" =>
                       /\ run_dir(pending[j]) \in DOMAIN dirs'
                       /\ dirs'[run_dir(pending[j])].result.level \in {"attempt", "root"}
                       /\ dirs'[run_dir(pending[j])].result.cond = pending[j].cond
      <3>1. CASE j = k
        BY <1>2, <1>6, <1>7, <1>11, <3>1
      <3>2. CASE j # k
        <4>1. PICK d : d = run_dir(pending[j])
          OBVIOUS
        <4>2. d # x /\ phase'[j] = phase[j]
          BY <1>11, <1>12, <3>2, <4>1
        <4>3. phase[j] \in InFlightPhases \/ phase[j] \in {"launch", "flight", "saving"}
                \/ phase[j] = "ended" => d \in DOMAIN dirs
          BY <1>1, <4>1 DEF RowsInv, InFlightPhases
        <4>4. /\ phase[j] \in InFlightPhases => dirs[d].cond = pending[j].cond
              /\ phase[j] \in {"launch", "flight", "saving"} => dirs[d].meta = "doc"
              /\ phase[j] = "ended" =>
                    /\ dirs[d].result.level \in {"attempt", "root"}
                    /\ dirs[d].result.cond = pending[j].cond
          BY <1>1, <4>1 DEF RowsInv, Readable, HasResult
        <4> QED  BY <1>6, <4>1, <4>2, <4>3, <4>4
      <3> QED  BY <3>1, <3>2
    <2> QED  BY <1>1, <1>4, <1>11, <2>1 DEF RowsInv, Readable, run_dir, HasResult
  <1>15. RowsShareNoDirectory'
    BY <1>1, <1>4 DEF RowsShareNoDirectory, run_dir
  <1>16. StartInv'
    BY <1>1, <1>4, <1>6, <1>9, <1>11, <1>12 DEF StartInv, run_dir, HasResult, Readable
  <1>17. OnceInv'
    BY <1>1, <1>4, <1>6, <1>9, <1>10, <1>11, <1>12 DEF OnceInv, run_dir, HasResult, Readable
  <1>18. OneResultPerCondition'
    BY <1>1, <1>4, <1>6, <1>9, <1>10 DEF OneResultPerCondition, HasResult
  <1>19. PlanInv'
    BY <1>1, <1>2, <1>3, <1>4, <1>6, <1>9 DEF PlanInv, run_dir, HasResult, OwnStem
  <1> QED
    BY <1>1, <1>4, <1>13, <1>14, <1>15, <1>16, <1>17, <1>18, <1>19 DEF ManifestInv

\* The result of a row is written: a retryable one, or one of its condition.
LEMMA ManifestResult ==
    ASSUME ManifestInv, NEW k \in DOMAIN phase, NEW result \in Results, NEW p \in Phases,
           phase[k] \in {"launch", "meta2", "flight", "saving"},
           \/ result = Retryable /\ p = "retry"
           \/ /\ result.level \in {"attempt", "root"} /\ result.cond = pending[k].cond
              /\ p \in {"saving", "ended"} /\ phase[k] # "meta2",
           phase' = [phase EXCEPT ![k] = p], RowStep, SetResult(k, result)
    PROVE  ManifestInv'
  <1>1. /\ running \in BOOLEAN /\ rerun \in BOOLEAN
        /\ DirsInv /\ RowsInv /\ RowsShareNoDirectory /\ StartInv /\ OnceInv
        /\ OneResultPerCondition /\ PlanInv
    BY DEF ManifestInv
  <1>2. PICK x : x = run_dir(pending[k])
    OBVIOUS
  <1>3. /\ k \in DOMAIN pending /\ DOMAIN phase = DOMAIN pending
        /\ x = <<x[1], Stem[pending[k].cond]>>
        /\ \A j \in DOMAIN pending : run_dir(pending[j]) = x => j = k
    BY <1>2, RowFacts
  <1>4. UNCHANGED <<pending, inv, running, rerun>>
    BY DEF RowStep
  <1>5. /\ x \in DOMAIN dirs /\ dirs[x].cond = pending[k].cond
        /\ phase[k] # "meta2" => dirs[x].meta = "doc"
    BY <1>1, <1>2, <1>3 DEF RowsInv, InFlightPhases, Readable
  <1>6. PICK new : new = [dirs[x] EXCEPT !.result = result]
    OBVIOUS
  <1>7. dirs' = [dirs EXCEPT ![x] = new]
    BY <1>2, <1>6 DEF SetResult
  <1>8. /\ new \in Dir /\ new.cond = pending[k].cond /\ new.result = result
        /\ phase[k] # "meta2" => new.meta = "doc"
    BY <1>1, <1>5, <1>6 DEF DirsInv, Dir
  <1>9. /\ DOMAIN dirs' = DOMAIN dirs /\ dirs'[x] = new
        /\ \A d \in DOMAIN dirs : d # x => dirs'[d] = dirs[d]
        /\ dirs' \in [DOMAIN dirs -> Dir]
    BY <1>1, <1>5, <1>7, <1>8 DEF DirsInv
  <1>10. HasResult(x)' => /\ result.cond = pending[k].cond /\ p \in {"saving", "ended"}
                          /\ phase[k] # "meta2"
    BY <1>8, <1>9 DEF HasResult, Retryable
  <1>11. p \in {"saving", "ended"} => HasResult(x)'
    BY <1>8, <1>9 DEF HasResult
  <1>12. \A d \in DOMAIN dirs : d # x => (HasResult(d)' <=> HasResult(d))
    BY <1>9 DEF HasResult
  <1>13. /\ phase' \in [DOMAIN pending -> Phases] /\ phase'[k] = p
         /\ \A j \in DOMAIN pending : j # k => phase'[j] = phase[j]
    BY <1>1, <1>3 DEF RowsInv
  <1>14. \A j \in DOMAIN pending : j # k => run_dir(pending[j]) # x
    BY <1>3
  <1>15. DirsInv'
    <2>1. ASSUME NEW d \in DOMAIN dirs
          PROVE  /\ d[1] \in 0 .. MaxIndex /\ d = <<d[1], Stem[dirs'[d].cond]>>
                 /\ HasResult(d)' => Stem[dirs'[d].result.cond] = d[2]
      <3>1. CASE d = x
        BY <1>1, <1>3, <1>5, <1>8, <1>9, <1>10, <3>1 DEF DirsInv
      <3>2. CASE d # x
        BY <1>1, <1>9, <1>12, <3>2 DEF DirsInv
      <3> QED  BY <3>1, <3>2
    <2> QED  BY <1>9, <2>1 DEF DirsInv
  <1>16. RowsInv'
    <2>1. ASSUME NEW j \in DOMAIN pending
          PROVE  /\ phase'[j] \in InFlightPhases =>
                       /\ run_dir(pending[j]) \in DOMAIN dirs'
                       /\ dirs'[run_dir(pending[j])].cond = pending[j].cond
                 /\ phase'[j] \in {"launch", "flight", "saving"} =>
                       dirs'[run_dir(pending[j])].meta = "doc"
                 /\ phase'[j] = "ended" =>
                       /\ run_dir(pending[j]) \in DOMAIN dirs'
                       /\ dirs'[run_dir(pending[j])].result.level \in {"attempt", "root"}
                       /\ dirs'[run_dir(pending[j])].result.cond = pending[j].cond
      <3>1. CASE j = k
        BY <1>2, <1>5, <1>8, <1>9, <1>10, <1>11, <1>13, <3>1 DEF HasResult
      <3>2. CASE j # k
        <4>1. PICK d : d = run_dir(pending[j])
          OBVIOUS
        <4>2. d # x /\ phase'[j] = phase[j]
          BY <1>13, <1>14, <3>2, <4>1
        <4>3. phase[j] \in InFlightPhases \/ phase[j] \in {"launch", "flight", "saving"}
                \/ phase[j] = "ended" => d \in DOMAIN dirs
          BY <1>1, <4>1 DEF RowsInv, InFlightPhases
        <4>4. /\ phase[j] \in InFlightPhases => dirs[d].cond = pending[j].cond
              /\ phase[j] \in {"launch", "flight", "saving"} => dirs[d].meta = "doc"
              /\ phase[j] = "ended" =>
                    /\ dirs[d].result.level \in {"attempt", "root"}
                    /\ dirs[d].result.cond = pending[j].cond
          BY <1>1, <4>1 DEF RowsInv, Readable, HasResult
        <4> QED  BY <1>9, <4>1, <4>2, <4>3, <4>4
      <3> QED  BY <3>1, <3>2
    <2> QED  BY <1>1, <1>4, <1>13, <2>1 DEF RowsInv, Readable, run_dir, HasResult
  <1>17. RowsShareNoDirectory'
    BY <1>1, <1>4 DEF RowsShareNoDirectory, run_dir
  <1>18. StartInv'
    <2>1. p # "todo"
      OBVIOUS
    <2> QED
      BY <1>1, <1>4, <1>9, <1>12, <1>13, <1>14, <2>1 DEF StartInv, run_dir, HasResult, Readable
  <1>19. ~rerun => \A d \in DOMAIN dirs :
                      HasResult(d) /\ dirs[d].result.cond = pending[k].cond => d = x
    BY <1>1, <1>2, <1>3 DEF OnceInv
  <1>20. OnceInv'
    <2> SUFFICES ASSUME ~rerun, NEW d \in DOMAIN dirs, HasResult(d)'
                 PROVE  /\ dirs'[d].meta = "doc" /\ dirs'[d].result.cond = dirs'[d].cond
                        /\ \A j \in DOMAIN pending : dirs'[d].cond = pending[j].cond =>
                              phase'[j] \in {"saving", "ended", "error"} /\ d = run_dir(pending[j])
      BY <1>4, <1>9 DEF OnceInv, run_dir, Readable, HasResult
    <2>1. CASE d = x
      <3>1. \A j \in DOMAIN pending : pending[j].cond = pending[k].cond => j = k
        BY <1>1, <1>3 DEF RowsInv
      <3> QED  BY <1>2, <1>8, <1>9, <1>10, <1>13, <2>1, <3>1
    <2>2. CASE d # x
      <3>1. HasResult(d) /\ dirs'[d] = dirs[d]
        BY <1>9, <1>12, <2>2
      <3>2. /\ dirs[d].meta = "doc" /\ dirs[d].result.cond = dirs[d].cond
            /\ \A j \in DOMAIN pending : dirs[d].cond = pending[j].cond =>
                  phase[j] \in {"saving", "ended", "error"} /\ d = run_dir(pending[j])
        BY <1>1, <3>1 DEF OnceInv, Readable
      <3> QED  BY <1>2, <1>13, <2>2, <3>1, <3>2
    <2> QED  BY <2>1, <2>2
  <1>21. OneResultPerCondition'
    <2> SUFFICES ASSUME ~rerun, NEW d \in DOMAIN dirs, NEW e \in DOMAIN dirs,
                        HasResult(d)', HasResult(e)',
                        dirs'[d].result.cond = dirs'[e].result.cond
                 PROVE  d = e
      BY <1>4, <1>9 DEF OneResultPerCondition, HasResult
    <2>1. CASE d = x \/ e = x
      BY <1>8, <1>9, <1>10, <1>12, <1>19, <2>1
    <2>2. CASE d # x /\ e # x
      BY <1>1, <1>9, <1>12, <2>2 DEF OneResultPerCondition
    <2> QED  BY <2>1, <2>2
  <1>22. PlanInv'
    BY <1>1, <1>2, <1>3, <1>4, <1>9, <1>12 DEF PlanInv, run_dir, HasResult, OwnStem
  <1> QED
    BY <1>1, <1>4, <1>15, <1>16, <1>17, <1>18, <1>20, <1>21, <1>22 DEF ManifestInv

\* A row goes on and no directory changes: an attempt is complete, with an
\* earlier analysis.json still in place, or run_one raises.
LEMMA ManifestAdvance ==
    ASSUME ManifestInv, NEW k \in DOMAIN phase, NEW p \in {"saving", "error"},
           p = "saving" => phase[k] = "flight",
           phase' = [phase EXCEPT ![k] = p], RowStep, UNCHANGED dirs
    PROVE  ManifestInv'
  <1>1. /\ running \in BOOLEAN /\ rerun \in BOOLEAN
        /\ DirsInv /\ RowsInv /\ RowsShareNoDirectory /\ StartInv /\ OnceInv
        /\ OneResultPerCondition /\ PlanInv
    BY DEF ManifestInv
  <1>2. k \in DOMAIN pending /\ DOMAIN phase = DOMAIN pending
    BY RowFacts
  <1>3. UNCHANGED <<dirs, pending, inv, running, rerun>>
    BY DEF RowStep
  <1>4. /\ phase' \in [DOMAIN pending -> Phases] /\ phase'[k] = p
        /\ \A j \in DOMAIN pending : j # k => phase'[j] = phase[j]
    BY <1>1, <1>2 DEF RowsInv, Phases, InFlightPhases
  <1>5. DirsInv' /\ RowsShareNoDirectory' /\ OneResultPerCondition' /\ PlanInv'
    BY <1>1, <1>3
       DEF DirsInv, RowsShareNoDirectory, OneResultPerCondition, PlanInv, run_dir, HasResult,
           OwnStem
  <1>6. RowsInv'
    BY <1>1, <1>2, <1>3, <1>4 DEF RowsInv, run_dir, HasResult, Readable, InFlightPhases
  <1>7. StartInv'
    BY <1>1, <1>2, <1>3, <1>4 DEF StartInv, run_dir, HasResult, Readable
  <1>8. OnceInv'
    BY <1>1, <1>2, <1>3, <1>4 DEF OnceInv, run_dir, HasResult, Readable
  <1> QED  BY <1>1, <1>3, <1>5, <1>6, <1>7, <1>8 DEF ManifestInv

-------------------------------------------------------------------------------
(* The end of an invocation.                                               *)

\* aggregate_analysis leaves run_meta.json, and completes results only.
LEMMA AggregateFacts ==
    ASSUME DirsInv, aggregate_analysis
    PROVE  /\ DOMAIN dirs' = DOMAIN dirs /\ dirs' \in [DOMAIN dirs -> Dir]
           /\ \A d \in DOMAIN dirs :
                 /\ dirs'[d].meta = dirs[d].meta /\ dirs'[d].cond = dirs[d].cond
                 /\ HasResult(d)' <=> HasResult(d)
                 /\ HasResult(d) => dirs'[d].result.cond = dirs[d].result.cond
  <1>1. PICK ds \in SUBSET {d \in DOMAIN dirs : dirs[d].result.level = "attempt"} :
          dirs' = [d \in DOMAIN dirs |->
                      IF d \in ds THEN [dirs[d] EXCEPT !.result.level = "root"]
                                  ELSE dirs[d]]
    BY DEF aggregate_analysis
  <1>2. DOMAIN dirs' = DOMAIN dirs /\ dirs' = [d \in DOMAIN dirs |-> dirs'[d]]
    BY <1>1
  <1>3. ASSUME NEW d \in DOMAIN dirs
        PROVE  /\ dirs'[d] \in Dir
               /\ dirs'[d].meta = dirs[d].meta /\ dirs'[d].cond = dirs[d].cond
               /\ dirs'[d].result.level \in {"attempt", "root"}
                     <=> dirs[d].result.level \in {"attempt", "root"}
               /\ dirs[d].result.level \in {"attempt", "root"} =>
                     dirs'[d].result.cond = dirs[d].result.cond
    <2>1. dirs[d] \in Dir
      BY DEF DirsInv
    <2>2. CASE d \notin ds
      BY <1>1, <2>1, <2>2
    <2>3. CASE d \in ds
      <3>1. /\ dirs[d].result \in Results /\ dirs[d].result.level = "attempt"
            /\ dirs[d].meta \in {"torn", "doc"} /\ dirs[d].cond \in Conditions
        BY <2>1, <2>3 DEF Dir
      <3>2. dirs[d].result \in [level : {"attempt", "root"}, cond : Conditions]
        BY <3>1 DEF Results, NoResult, Retryable
      <3>3. PICK new : new = [dirs[d].result EXCEPT !.level = "root"]
        OBVIOUS
      <3>4. /\ new \in Results /\ new.level = "root" /\ new.cond = dirs[d].result.cond
        BY <3>2, <3>3 DEF Results
      <3>5. dirs'[d] = [dirs[d] EXCEPT !.result = new]
        BY <1>1, <2>3, <3>3
      <3> QED  BY <2>1, <3>1, <3>4, <3>5 DEF Dir
    <2> QED  BY <2>2, <2>3
  <1> QED  BY <1>2, <1>3 DEF HasResult

\* The runner gets to its end, is interrupted or killed: no rows are left.
LEMMA ManifestEnd ==
    ASSUME ManifestInv, Finish \/ Interrupt \/ Kill
    PROVE  ManifestInv'
  <1>1. DirsInv /\ OnceInv /\ OneResultPerCondition /\ rerun \in BOOLEAN
    BY DEF ManifestInv
  <1>2. /\ pending' = <<>> /\ phase' = <<>> /\ running' = FALSE
        /\ inv' = inv /\ rerun' = rerun
    BY DEF Finish, Interrupt, Kill, EndInvocation
  <1>3. /\ DOMAIN dirs' = DOMAIN dirs /\ dirs' \in [DOMAIN dirs -> Dir]
        /\ \A d \in DOMAIN dirs :
              /\ dirs'[d].meta = dirs[d].meta /\ dirs'[d].cond = dirs[d].cond
              /\ HasResult(d)' <=> HasResult(d)
              /\ HasResult(d) => dirs'[d].result.cond = dirs[d].result.cond
    <2>1. CASE Finish \/ Interrupt
      BY <1>1, <2>1, AggregateFacts DEF Finish, Interrupt
    <2>2. CASE Kill
      BY <1>1, <2>2 DEF Kill, DirsInv, HasResult
    <2> QED  BY <2>1, <2>2
  <1>4. DOMAIN pending' = {} /\ pending' \in Seq(Row) /\ phase' \in [DOMAIN pending' -> Phases]
    BY <1>2
  <1>5. DirsInv'
    BY <1>1, <1>3 DEF DirsInv
  <1>6. RowsInv' /\ RowsShareNoDirectory' /\ StartInv'
    BY <1>4 DEF RowsInv, RowsShareNoDirectory, StartInv
  <1>7. OnceInv' /\ OneResultPerCondition'
    BY <1>1, <1>2, <1>3, <1>4 DEF OnceInv, OneResultPerCondition, Readable
  <1>8. PlanInv'
    BY <1>2 DEF PlanInv
  <1> QED  BY <1>1, <1>2, <1>5, <1>6, <1>7, <1>8 DEF ManifestInv

LEMMA ManifestInit == Init => ManifestInv
  <1> SUFFICES ASSUME Init PROVE ManifestInv
    OBVIOUS
  <1>1. /\ DOMAIN dirs = {} /\ dirs \in [DOMAIN dirs -> Dir] /\ DOMAIN pending = {}
        /\ pending \in Seq(Row) /\ phase \in [DOMAIN pending -> Phases]
        /\ running = FALSE /\ rerun = FALSE
    BY DEF Init
  <1>2. DirsInv /\ RowsInv /\ RowsShareNoDirectory /\ StartInv /\ OnceInv
    BY <1>1 DEF DirsInv, RowsInv, RowsShareNoDirectory, StartInv, OnceInv
  <1>3. OneResultPerCondition /\ PlanInv
    BY <1>1 DEF OneResultPerCondition, PlanInv
  <1> QED  BY <1>1, <1>2, <1>3 DEF ManifestInv

\* A step that changes nothing.
LEMMA ManifestStutter ==
    ASSUME ManifestInv, UNCHANGED vars
    PROVE  ManifestInv'
  <1>1. UNCHANGED <<dirs, pending, phase, inv, running, rerun>>
    BY DEF vars
  <1>2. DirsInv' /\ RowsInv' /\ RowsShareNoDirectory' /\ StartInv'
    BY <1>1
       DEF ManifestInv, DirsInv, RowsInv, RowsShareNoDirectory, StartInv, run_dir, HasResult,
           Readable
  <1>3. OnceInv' /\ OneResultPerCondition' /\ PlanInv'
    BY <1>1
       DEF ManifestInv, OnceInv, OneResultPerCondition, PlanInv, run_dir, HasResult, Readable,
           OwnStem
  <1> QED  BY <1>1, <1>2, <1>3 DEF ManifestInv

-------------------------------------------------------------------------------
(* The theorems.                                                           *)

\* The inductive invariant.
THEOREM ManifestInductive == Spec => []ManifestInv
  <1>1. ManifestInv /\ [Next]_vars => ManifestInv'
    <2> SUFFICES ASSUME ManifestInv, [Next]_vars PROVE ManifestInv'
      OBVIOUS
    <2>1. CASE Invoke
      BY <2>1, ManifestInvoke
    <2>2. CASE Finish \/ Interrupt \/ Kill
      BY <2>2, ManifestEnd
    <2>3. ASSUME NEW k \in DOMAIN phase, OpenMeta(k) PROVE ManifestInv'
      BY <2>3, ManifestMeta DEF OpenMeta, NextRow, Advance
    <2>4. ASSUME NEW k \in DOMAIN phase, CloseMeta(k) PROVE ManifestInv'
      BY <2>4, ManifestMeta DEF CloseMeta, Advance
    <2>5. ASSUME NEW k \in DOMAIN phase, EndRetryable(k) PROVE ManifestInv'
      BY <2>5, ManifestResult DEF EndRetryable, Advance, Results, Phases
    <2>6. ASSUME NEW k \in DOMAIN phase,
                 \/ EndAttempt(k) /\ SetResult(k, ResultOf("attempt", pending[k].cond))
                 \/ SaveRoot(k)
          PROVE  ManifestInv'
      <3>1. pending[k].cond \in Conditions
        BY <2>6, RowFacts DEF Row
      <3>2. PICK level \in {"attempt", "root"}, p \in {"saving", "ended"} :
               /\ phase[k] \in {"flight", "saving"}
               /\ SetResult(k, ResultOf(level, pending[k].cond))
               /\ phase' = [phase EXCEPT ![k] = p] /\ RowStep
        BY <2>6 DEF EndAttempt, SaveRoot, Advance
      <3>3. PICK result : result = ResultOf(level, pending[k].cond)
        OBVIOUS
      <3>4. /\ result \in Results /\ result.level \in {"attempt", "root"}
            /\ result.cond = pending[k].cond /\ p \in Phases
        BY <3>1, <3>3 DEF ResultOf, Results, Phases, InFlightPhases
      <3> QED  BY <3>2, <3>3, <3>4, ManifestResult
    <2>7. ASSUME NEW k \in DOMAIN phase, EndAttempt(k), UNCHANGED dirs PROVE ManifestInv'
      BY <2>7, ManifestAdvance DEF EndAttempt, Advance
    <2>8. ASSUME NEW k \in DOMAIN phase, RunOneRaises(k) PROVE ManifestInv'
      BY <2>8, ManifestAdvance DEF RunOneRaises, Advance
    <2>9. CASE UNCHANGED vars
      BY <2>9, ManifestStutter
    <2>10. ASSUME NEW k \in DOMAIN phase, EndAttempt(k) PROVE ManifestInv'
      BY <2>6, <2>7, <2>10 DEF EndAttempt
    <2> QED  BY <2>1, <2>2, <2>3, <2>4, <2>5, <2>6, <2>8, <2>9, <2>10 DEF Next
  <1> QED  BY ManifestInit, <1>1, PTL DEF Spec

\* Two rows of a manifest never have the same run directory: what run_id_for
\* leaves out of the mission is made up for by the index.
THEOREM NoSharedDirectory == Spec => []RowsShareNoDirectory
  <1>1. ManifestInv => RowsShareNoDirectory
    BY DEF ManifestInv
  <1> QED  BY <1>1, ManifestInductive, PTL

\* No condition gets completed results in two directories that are only extended
\* with --append-missing.
THEOREM NoSecondResult == Spec => []OneResultPerCondition
  <1>1. ManifestInv => OneResultPerCondition
    BY DEF ManifestInv
  <1> QED  BY <1>1, ManifestInductive, PTL

\* An --append-missing invocation that gets to its end leaves no condition of its
\* plan without a result, but those whose flight was retryable, those whose run_one
\* raised and those whose directory a rerun may have taken over.
THEOREM AppendLeavesNothing == Spec => []AppendCompletesPlan
  <1>1. ManifestInv => AppendCompletesPlan
    <2> SUFFICES ASSUME ManifestInv, running, inv.append, inv.all,
                        \A k \in DOMAIN phase : phase[k] \in {"ended", "retry", "error"},
                        NEW c \in Range(inv.plan)
                 PROVE  \/ rerun /\ ~OwnStem(c)
                        \/ \E d \in DOMAIN dirs : HasResult(d) /\ dirs[d].result.cond = c
                        \/ \E k \in DOMAIN phase :
                              phase[k] \in {"retry", "error"} /\ pending[k].cond = c
      BY DEF AppendCompletesPlan, AllCounted
    <2>1. RowsInv /\ PlanInv /\ DOMAIN phase = DOMAIN pending
      BY DEF ManifestInv, RowsInv
    <2>2. \/ rerun /\ ~OwnStem(c)
          \/ \E k \in DOMAIN pending : pending[k].cond = c
          \/ \E d \in DOMAIN dirs : HasResult(d) /\ dirs[d].result.cond = c
      BY <2>1 DEF PlanInv
    <2>3. ASSUME NEW k \in DOMAIN pending, pending[k].cond = c, phase[k] = "ended"
          PROVE  \E d \in DOMAIN dirs : HasResult(d) /\ dirs[d].result.cond = c
      BY <2>1, <2>3 DEF RowsInv
    <2> QED  BY <2>1, <2>2, <2>3
  <1> QED  BY <1>1, ManifestInductive, PTL

\* --append-missing takes no row to the directory of a completed run that its
\* scan has seen: run_meta.json of such a run stays as it is.
THEOREM AppendTakesNoResult == Spec => AppendKeepsResults
  <1>1. ASSUME ManifestInv, [Next]_vars, NEW d \in DOMAIN dirs,
               running, inv.append, HasResult(d), Readable(d),
               \A k \in InFlight : run_dir(pending[k]) # d
        PROVE  dirs'[d].meta = "doc"
    <2>1. DirsInv /\ StartInv /\ dirs[d].meta = "doc"
      BY <1>1 DEF ManifestInv, Readable
    <2>2. CASE UNCHANGED dirs
      BY <2>1, <2>2
    <2>3. CASE aggregate_analysis
      BY <2>1, <2>3, AggregateFacts
    <2>4. ASSUME NEW k \in DOMAIN phase, OpenMeta(k) PROVE dirs'[d].meta = "doc"
      <3>1. phase[k] \in {"todo", "launch"} /\ k \in DOMAIN pending
        BY <1>1, <2>4, RowFacts DEF OpenMeta, NextRow
      <3>2. d # run_dir(pending[k])
        BY <1>1, <2>1, <3>1 DEF StartInv, InFlight
      <3> QED  BY <2>1, <2>4, <3>2 DEF OpenMeta, WithMeta
    <2>5. ASSUME NEW k \in DOMAIN phase, CloseMeta(k) PROVE dirs'[d].meta = "doc"
      <3>1. dirs' = WithMeta(run_dir(pending[k]), "doc", pending[k].cond)
        BY <2>5 DEF CloseMeta
      <3> QED  BY <2>1, <3>1 DEF WithMeta
    <2>6. ASSUME NEW k \in DOMAIN phase, NEW r, SetResult(k, r)
          PROVE  dirs'[d].meta = "doc"
      <3>1. PICK x : dirs' = [dirs EXCEPT ![x].result = r]
        BY <2>6 DEF SetResult
      <3>2. PICK new : new = [dirs[x] EXCEPT !.result = r]
        OBVIOUS
      <3>3. dirs' = [dirs EXCEPT ![x] = new]
        BY <3>1, <3>2
      <3>4. dirs[d] \in Dir
        BY <2>1 DEF DirsInv
      <3>5. d = x => new.meta = "doc"
        BY <2>1, <3>2, <3>4 DEF Dir
      <3> QED  BY <2>1, <3>3, <3>5
    <2>7. ASSUME NEW k \in DOMAIN phase,
                 EndRetryable(k) \/ EndAttempt(k) \/ SaveRoot(k) \/ RunOneRaises(k)
          PROVE  dirs'[d].meta = "doc"
      BY <2>2, <2>6, <2>7 DEF EndRetryable, EndAttempt, SaveRoot, RunOneRaises
    <2>8. CASE Invoke \/ Finish \/ Interrupt \/ Kill \/ UNCHANGED vars
      BY <2>2, <2>3, <2>8 DEF Invoke, Finish, Interrupt, Kill, vars
    <2> QED  BY <1>1, <2>4, <2>5, <2>7, <2>8 DEF Next
  <1>2. ManifestInv /\ [Next]_vars =>
          [\A d \in DOMAIN dirs :
             /\ running /\ inv.append
             /\ HasResult(d) /\ Readable(d)
             /\ \A k \in InFlight : run_dir(pending[k]) # d
             => Readable(d)']_vars
    BY <1>1 DEF Readable
  <1> QED  BY <1>2, ManifestInductive, PTL DEF Spec, AppendKeepsResults
===============================================================================

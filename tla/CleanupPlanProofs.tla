-------------------------- MODULE CleanupPlanProofs --------------------------
(***************************************************************************)
(* TLAPS proofs about CleanupPlan and the sets of Retention, for any       *)
(* number of directories, any sizes and any limits.  The sums of sizes are *)
(* folds, so the first part shows what they compute: each induction is on  *)
(* a smallest counterexample, which the library finds in any well-founded  *)
(* order (theorem WFMin) without an operator as a parameter.               *)
(***************************************************************************)
EXTENDS CleanupPlan, FiniteSetTheorems, TLAPS

-----------------------------------------------------------------------------
\* A nonempty set of numbers has a smallest element.
LEMMA SmallestNumber ==
  ASSUME NEW B, B \subseteq Nat, B # {}
  PROVE  \E n \in B : \A m \in B : n <= m
  <1> DEFINE R == OpToRel(<, Nat)
  <1>1. IsWellFoundedOn(R, Nat)
    BY NatLessThanWellFounded
  <1>2. \A m, n \in Nat : <<m, n>> \in R <=> m < n
    BY DEF OpToRel
  <1> HIDE DEF R
  <1>3. PICK n \in B : \A m \in B : ~(<<m, n>> \in R)
    BY <1>1, WFMin
  <1>4. \A m \in B : m \in Nat /\ n \in Nat /\ ~(m < n)
    BY <1>2, <1>3
  <1> QED
    BY <1>4

\* A nonempty set of subsets of a finite set has a smallest element.
LEMMA SmallestSet ==
  ASSUME NEW S, IsFiniteSet(S), NEW B, B \subseteq SUBSET S, B # {}
  PROVE  \E T \in B : \A U \in B : U \subseteq T => U = T
  <1> DEFINE R == StrictSubsetOrdering(S)
             Subs == FiniteSubsetsOf(S)
  <1>1. IsWellFoundedOn(R, Subs)
    BY FS_StrictSubsetOrderingWellFounded
  <1>2. Subs = SUBSET S
    BY FS_FiniteSubsetsOfFinite
  <1>3. \A U, T \in SUBSET S : <<U, T>> \in R <=> U \subseteq T /\ U # T
    BY DEF StrictSubsetOrdering
  <1> HIDE DEF R, Subs
  <1>4. B \subseteq Subs
    BY <1>2
  <1>5. \E T \in B : \A U \in B : ~(<<U, T>> \in R)
    BY <1>1, <1>4, WFMin
  <1> QED
    BY <1>3, <1>5

-----------------------------------------------------------------------------
\* Sums over finite sets.

Chosen(s) == CHOOSE x \in s : TRUE

\* What a sum over s is made of: sums over smaller sets, given by g.
SumFrom(f, g, s) == IF s = {} THEN 0 ELSE f[Chosen(s)] + g[s \ {Chosen(s)}]

Solution(f, S, g) == g = [s \in SUBSET S |-> SumFrom(f, g, s)]

\* The element a fold takes next is one of the set.
LEMMA ChosenIn == ASSUME NEW s, s # {} PROVE Chosen(s) \in s
  BY DEF Chosen

\* The recursion that defines sums has a solution: of sets with n elements at
\* most, for every n, and so of all subsets of a finite set.
LEMMA SumsExist ==
  ASSUME NEW f, NEW S, IsFiniteSet(S)
  PROVE  \E g : Solution(f, S, g)
  <1> DEFINE Small(n) == {s \in SUBSET S : Cardinality(s) <= n}
             Solved(n) == \E g : g = [s \in Small(n) |-> SumFrom(f, g, s)]
             B == {n \in Nat : ~Solved(n)}
  <1>1. \A s \in SUBSET S : IsFiniteSet(s) /\ Cardinality(s) \in Nat
    BY FS_Subset, FS_CardinalityType
  <1>2. \A s \in SUBSET S : s # {} =>
            /\ s \ {Chosen(s)} \in SUBSET S
            /\ Cardinality(s \ {Chosen(s)}) = Cardinality(s) - 1
    BY <1>1, FS_RemoveElement, ChosenIn
  <1>3. \A s \in SUBSET S : Cardinality(s) = 0 => s = {}
    BY <1>1, FS_EmptySet
  <1>4. Solved(0)
    <2> DEFINE g == [s \in Small(0) |-> 0]
    <2>1. \A s \in Small(0) : SumFrom(f, g, s) = 0
      BY <1>1, <1>3 DEF SumFrom
    <2>2. g = [s \in Small(0) |-> SumFrom(f, g, s)]
      BY <2>1
    <2> QED
      BY <2>2
  <1>5. ASSUME NEW n \in Nat, Solved(n)
        PROVE  Solved(n + 1)
    <2>1. PICK g : g = [s \in Small(n) |-> SumFrom(f, g, s)]
      BY <1>5
    <2> DEFINE h == [s \in Small(n + 1) |-> SumFrom(f, g, s)]
    <2>2. ASSUME NEW s \in Small(n + 1), s # {}
          PROVE  h[s \ {Chosen(s)}] = g[s \ {Chosen(s)}]
      <3>1. s \ {Chosen(s)} \in Small(n)
        BY <1>1, <1>2, <2>2
      <3>2. s \ {Chosen(s)} \in Small(n + 1)
        BY <1>1, <3>1
      <3> QED
        BY <2>1, <3>1, <3>2
    <2>3. \A s \in Small(n + 1) : SumFrom(f, g, s) = SumFrom(f, h, s)
      BY <2>2 DEF SumFrom
    <2>4. h = [s \in Small(n + 1) |-> SumFrom(f, h, s)]
      BY <2>3
    <2> QED
      BY <2>4
  <1> HIDE DEF Solved
  <1>6. B = {}
    <2> SUFFICES ASSUME B # {} PROVE FALSE
      OBVIOUS
    <2>1. PICK n \in B : \A m \in B : n <= m
      BY SmallestNumber
    <2>2. n # 0 /\ n \in Nat
      BY <1>4
    <2>3. n - 1 \in Nat /\ n - 1 \notin B
      BY <2>1, <2>2
    <2>4. Solved(n - 1)
      BY <2>3
    <2>5. Solved((n - 1) + 1)
      BY <1>5, <2>3, <2>4
    <2> QED
      BY <2>1, <2>2, <2>5
  <1>7. Solved(Cardinality(S))
    BY <1>1, <1>6
  <1>8. Small(Cardinality(S)) = SUBSET S
    BY FS_Subset
  <1> QED
    BY <1>7, <1>8 DEF Solved, Solution

\* Solutions agree where both are defined.
LEMMA SumsAgree ==
  ASSUME NEW f, NEW S, IsFiniteSet(S), NEW T, T \subseteq S,
         NEW g, Solution(f, S, g), NEW h, Solution(f, T, h)
  PROVE  h[T] = g[T]
  <1> USE DEF Solution
  <1> DEFINE B == {s \in SUBSET T : h[s] # g[s]}
  <1>1. B = {}
    <2> SUFFICES ASSUME B # {} PROVE FALSE
      OBVIOUS
    <2>1. IsFiniteSet(T)
      BY FS_Subset
    <2>2. PICK s \in B : \A u \in B : u \subseteq s => u = s
      <3>1. B \subseteq SUBSET T
        OBVIOUS
      <3> HIDE DEF B
      <3> QED
        BY <2>1, <3>1, SmallestSet
    <2>3. s \in SUBSET T /\ s \in SUBSET S
      OBVIOUS
    <2>4. g[s] = SumFrom(f, g, s) /\ h[s] = SumFrom(f, h, s)
      BY <2>3
    <2>5. CASE s = {}
      BY <2>4, <2>5 DEF SumFrom
    <2>6. CASE s # {}
      <3>1. s \ {Chosen(s)} \notin B
        BY <2>2, <2>6, ChosenIn
      <3>2. h[s \ {Chosen(s)}] = g[s \ {Chosen(s)}]
        BY <2>3, <3>1
      <3> QED
        BY <2>4, <2>6, <3>2 DEF SumFrom
    <2> QED
      BY <2>5, <2>6
  <1> QED
    BY <1>1

\* SumFunctionOnSet is a solution's value.
LEMMA SumIsSolution ==
  ASSUME NEW f, NEW S, IsFiniteSet(S)
  PROVE  \E g : Solution(f, S, g) /\ SumFunctionOnSet(f, S) = g[S]
  <1>1. PICK g : Solution(f, S, g)
    BY SumsExist
  <1>2. g = [s \in SUBSET S |->
               IF s = {} THEN 0
               ELSE f[CHOOSE x \in s : TRUE] + g[s \ {CHOOSE x \in s : TRUE}]]
    BY <1>1, Zenon DEF Solution, SumFrom, Chosen
  <1>3. \E h : /\ h = [s \in SUBSET S |->
                         IF s = {} THEN 0
                         ELSE f[CHOOSE x \in s : TRUE] + h[s \ {CHOOSE x \in s : TRUE}]]
               /\ SumFunctionOnSet(f, S) = h[S]
    BY <1>2, Zenon DEF SumFunctionOnSet, FoldFunctionOnSet, MapThenFoldSet
  <1> QED
    BY <1>3, Zenon DEF Solution, SumFrom, Chosen

\* The empty sum, and the recursion of the others.
LEMMA SumUnfolds ==
  ASSUME NEW f, NEW S, IsFiniteSet(S)
  PROVE  /\ SumFunctionOnSet(f, {}) = 0
         /\ S # {} => SumFunctionOnSet(f, S) =
                         f[Chosen(S)] + SumFunctionOnSet(f, S \ {Chosen(S)})
  <1>1. PICK g : Solution(f, S, g) /\ SumFunctionOnSet(f, S) = g[S]
    BY SumIsSolution
  <1>2. ASSUME NEW T, T \subseteq S
        PROVE  SumFunctionOnSet(f, T) = g[T]
    <2>1. IsFiniteSet(T)
      BY <1>2, FS_Subset
    <2>2. PICK h : Solution(f, T, h) /\ SumFunctionOnSet(f, T) = h[T]
      BY <2>1, SumIsSolution
    <2> QED
      BY <1>1, <1>2, <2>2, SumsAgree
  <1>3. \A T \in SUBSET S : g[T] = SumFrom(f, g, T)
    BY <1>1 DEF Solution
  <1>4. SumFunctionOnSet(f, {}) = 0
    BY <1>2, <1>3 DEF SumFrom
  <1>5. S # {} => SumFunctionOnSet(f, S) = f[Chosen(S)] + g[S \ {Chosen(S)}]
    BY <1>1, <1>3 DEF SumFrom
  <1> QED
    BY <1>2, <1>4, <1>5

\* Sums of natural numbers are natural numbers.
LEMMA SumType ==
  ASSUME NEW f, NEW S, IsFiniteSet(S), \A x \in S : f[x] \in Nat
  PROVE  SumFunctionOnSet(f, S) \in Nat
  <1> DEFINE B == {T \in SUBSET S : SumFunctionOnSet(f, T) \notin Nat}
  <1>1. B = {}
    <2> SUFFICES ASSUME B # {} PROVE FALSE
      OBVIOUS
    <2>1. PICK T \in B : \A U \in B : U \subseteq T => U = T
      <3>1. B \subseteq SUBSET S
        OBVIOUS
      <3> HIDE DEF B
      <3> QED
        BY <3>1, SmallestSet
    <2>2. IsFiniteSet(T) /\ T \subseteq S /\ SumFunctionOnSet(f, T) \notin Nat
      BY FS_Subset
    <2>3. T # {}
      <3>1. SumFunctionOnSet(f, {}) = 0
        BY SumUnfolds
      <3> QED
        BY <2>2, <3>1
    <2>4. Chosen(T) \in T /\ T \ {Chosen(T)} # T
      BY <2>3, ChosenIn
    <2>5. SumFunctionOnSet(f, T \ {Chosen(T)}) \in Nat
      BY <2>1, <2>2, <2>4
    <2>6. f[Chosen(T)] \in Nat
      BY <2>2, <2>4
    <2>7. SumFunctionOnSet(f, T) = f[Chosen(T)] + SumFunctionOnSet(f, T \ {Chosen(T)})
      BY <2>2, <2>3, SumUnfolds
    <2> QED
      BY <2>2, <2>5, <2>6, <2>7
  <1> QED
    BY <1>1

\* Any element may be taken out of a sum.
LEMMA SumRemove ==
  ASSUME NEW f, NEW S, IsFiniteSet(S), \A x \in S : f[x] \in Nat, NEW x \in S
  PROVE  SumFunctionOnSet(f, S) = f[x] + SumFunctionOnSet(f, S \ {x})
  <1> DEFINE Sum(T) == SumFunctionOnSet(f, T)
             B == {T \in SUBSET S : \E y \in T : Sum(T) # f[y] + Sum(T \ {y})}
  <1>1. B = {}
    <2> SUFFICES ASSUME B # {} PROVE FALSE
      OBVIOUS
    <2>1. PICK T \in B : \A U \in B : U \subseteq T => U = T
      <3>1. B \subseteq SUBSET S
        OBVIOUS
      <3> HIDE DEF B
      <3> QED
        BY <3>1, SmallestSet
    <2>2. PICK y \in T : Sum(T) # f[y] + Sum(T \ {y})
      OBVIOUS
    <2>3. IsFiniteSet(T) /\ T \subseteq S
      BY FS_Subset
    <2> DEFINE c == Chosen(T)
    <2>4. c \in T /\ Sum(T) = f[c] + Sum(T \ {c})
      BY <2>2, <2>3, SumUnfolds, ChosenIn
    <2> HIDE DEF c
    <2>5. c # y
      BY <2>2, <2>4
    <2>6. /\ T \ {c} \notin B /\ y \in T \ {c}
          /\ T \ {y} \notin B /\ c \in T \ {y}
      BY <2>1, <2>2, <2>4, <2>5
    <2>7. /\ Sum(T \ {c}) = f[y] + Sum((T \ {c}) \ {y})
          /\ Sum(T \ {y}) = f[c] + Sum((T \ {y}) \ {c})
      BY <2>3, <2>6
    <2>8. (T \ {c}) \ {y} = (T \ {y}) \ {c}
      OBVIOUS
    <2>9. /\ f[c] \in Nat /\ f[y] \in Nat
          /\ Sum((T \ {y}) \ {c}) \in Nat
      <3>1. (T \ {y}) \ {c} \subseteq S /\ IsFiniteSet((T \ {y}) \ {c})
        BY <2>3, FS_Subset
      <3>2. \A z \in (T \ {y}) \ {c} : f[z] \in Nat
        BY <3>1
      <3>3. Sum((T \ {y}) \ {c}) \in Nat
        BY <3>1, <3>2, SumType
      <3> QED
        BY <2>3, <2>4, <3>3
    <2> HIDE DEF Sum
    <2>10. Sum(T) = f[y] + Sum(T \ {y})
      <3> DEFINE rest == Sum((T \ {y}) \ {c})
      <3>1. Sum((T \ {c}) \ {y}) = rest
        BY <2>8, Zenon
      <3>2. Sum(T \ {c}) = f[y] + rest /\ Sum(T \ {y}) = f[c] + rest
        BY <2>7, <3>1, Zenon
      <3> HIDE DEF rest
      <3>3. rest \in Nat
        BY <2>9 DEF rest
      <3>4. Sum(T) = f[c] + (f[y] + rest) /\ f[y] + Sum(T \ {y}) = f[y] + (f[c] + rest)
        BY <2>4, <3>2, Zenon
      <3> QED
        BY <2>9, <3>3, <3>4
    <2> QED
      BY <2>2, <2>10
  <1> QED
    BY <1>1

\* A part of a set has no larger sum.
LEMMA SumMonotone ==
  ASSUME NEW f, NEW S, IsFiniteSet(S), \A x \in S : f[x] \in Nat, NEW T, T \subseteq S
  PROVE  SumFunctionOnSet(f, T) <= SumFunctionOnSet(f, S)
  <1> DEFINE Sum(U) == SumFunctionOnSet(f, U)
             B == {U \in SUBSET S : T \subseteq U /\ ~(Sum(T) <= Sum(U))}
  <1>0. ASSUME NEW U, U \subseteq S
        PROVE  IsFiniteSet(U) /\ (\A x \in U : f[x] \in Nat) /\ Sum(U) \in Nat
    <2>1. IsFiniteSet(U) /\ \A x \in U : f[x] \in Nat
      BY <1>0, FS_Subset
    <2>2. Sum(U) \in Nat
      BY <2>1, SumType
    <2> QED
      BY <2>1, <2>2
  <1>1. B = {}
    <2> SUFFICES ASSUME B # {} PROVE FALSE
      OBVIOUS
    <2>1. PICK U \in B : \A V \in B : V \subseteq U => V = U
      <3>1. B \subseteq SUBSET S
        OBVIOUS
      <3> HIDE DEF B
      <3> QED
        BY <3>1, SmallestSet
    <2>2. U \subseteq S /\ T \subseteq U /\ ~(Sum(T) <= Sum(U))
      OBVIOUS
    <2>3. U # T
      BY <1>0, <2>2
    <2>4. PICK x \in U : x \notin T
      BY <2>2, <2>3
    <2>5. U \ {x} \notin B
      BY <2>1, <2>4
    <2>6. Sum(T) <= Sum(U \ {x})
      BY <2>2, <2>4, <2>5
    <2>7. Sum(U) = f[x] + Sum(U \ {x})
      BY <1>0, <2>2, <2>4, SumRemove
    <2>8. f[x] \in Nat /\ Sum(U \ {x}) \in Nat /\ Sum(T) \in Nat
      BY <1>0, <2>2, <2>4
    <2> HIDE DEF Sum
    <2> QED
      BY <2>2, <2>6, <2>7, <2>8
  <1> QED
    BY <1>1

-----------------------------------------------------------------------------
\* The sets of Retention.

Sizes == [Dirs -> Nat]

\* Sets of directories are finite sets of numbers.
LEMMA DirsFinite ==
  /\ Dirs \subseteq Nat \ {0}
  /\ \A S \in SUBSET Dirs : IsFiniteSet(S) /\ Cardinality(S) \in Nat
  /\ \A S, T \in SUBSET Dirs : S \subseteq T => Cardinality(S) <= Cardinality(T)
  <1>1. IsFiniteSet(Dirs)
    BY PlanAssumption, FS_Interval DEF Dirs
  <1>2. Dirs \subseteq Nat \ {0}
    BY PlanAssumption DEF Dirs
  <1>3. \A S \in SUBSET Dirs : IsFiniteSet(S) /\ Cardinality(S) \in Nat
    BY <1>1, FS_Subset, FS_CardinalityType
  <1>4. \A S, T \in SUBSET Dirs : S \subseteq T => Cardinality(S) <= Cardinality(T)
    BY <1>3, FS_Subset
  <1> QED
    BY <1>2, <1>3, <1>4

\* Sums of sizes are numbers, and fewer directories have no more bytes.
LEMMA SizeMonotone ==
  ASSUME NEW sz \in Sizes, NEW S \in SUBSET Dirs, NEW T \in SUBSET Dirs, T \subseteq S
  PROVE  /\ SumFunctionOnSet(sz, S) \in Nat /\ SumFunctionOnSet(sz, T) \in Nat
         /\ SumFunctionOnSet(sz, T) <= SumFunctionOnSet(sz, S)
  <1>1. IsFiniteSet(S) /\ IsFiniteSet(T)
    BY DirsFinite
  <1>2. (\A x \in S : sz[x] \in Nat) /\ (\A x \in T : sz[x] \in Nat)
    BY DEF Sizes
  <1>3. SumFunctionOnSet(sz, S) \in Nat
    BY <1>1, <1>2, SumType
  <1>4. SumFunctionOnSet(sz, T) \in Nat
    BY <1>1, <1>2, SumType
  <1>5. SumFunctionOnSet(sz, T) <= SumFunctionOnSet(sz, S)
    BY <1>1, <1>2, SumMonotone
  <1> QED
    BY <1>3, <1>4, <1>5

\* How the three rules divide the directories.
LEMMA Division ==
  ASSUME NEW L \in SUBSET Dirs, NEW P, NEW c \in Nat, NEW sz \in Sizes
  PROVE  /\ TooOld(L, P, c) \subseteq L \ P
         /\ OverCount(L, P, c) \subseteq L \ P
         /\ OverBytes(L, P, c, sz) \subseteq L \ P
         /\ LeftByCount(L, P, c) = L \ (TooOld(L, P, c) \union OverCount(L, P, c))
         /\ L \ Doomed(L, P, c, sz) = LeftByCount(L, P, c) \ OverBytes(L, P, c, sz)
         /\ OverBytes(L, P, c, sz) \subseteq LeftByCount(L, P, c) \ P
  BY DEF TooOld, OverCount, OverBytes, LeftByCount, Doomed

\* What is deleted is older than what is kept, protected directories apart:
\* the three rules, each of them by age, agree.
LEMMA DoomedOldestFirst ==
  ASSUME NEW L \in SUBSET Dirs, NEW P, NEW c \in Nat, NEW sz \in Sizes,
         NEW j \in Doomed(L, P, c, sz), NEW k \in (L \ Doomed(L, P, c, sz)) \ P
  PROVE  j < k
  <1> DEFINE old == TooOld(L, P, c)
             notOld == L \ old
             left == LeftByCount(L, P, c)
  <1>1. /\ j \in Nat /\ k \in Nat /\ j # k /\ j \in L /\ k \in L \ P /\ j \notin P
        /\ k \notin old /\ k \notin OverCount(L, P, c)
        /\ k \notin OverBytes(L, P, c, sz) /\ k \in left
    <2>1. L \subseteq Nat /\ Doomed(L, P, c, sz) \subseteq L \ P
      BY DirsFinite, Division DEF Doomed
    <2>2. k \in left
      BY Division DEF Doomed
    <2> QED
      BY <2>1, <2>2 DEF Doomed
  <1>2. c <= k
    BY <1>1 DEF TooOld
  <1> SUFFICES ASSUME k < j PROVE FALSE
    BY <1>1
  <1>3. CASE j \in old
    BY <1>1, <1>2, <1>3 DEF TooOld
  <1>4. CASE j \in OverCount(L, P, c)
    <2>1. MaxJobsRetained > 0 /\ Cardinality({i \in notOld : i > j}) >= MaxJobsRetained
      BY <1>4 DEF OverCount
    <2>2. {i \in notOld : i > j} \subseteq {i \in notOld : i > k}
      <3>1. j \in Nat /\ k \in Nat /\ k < j /\ \A i \in notOld : i \in Nat
        BY <1>1, DirsFinite
      <3> HIDE DEF notOld
      <3>2. \A i \in notOld : i > j => i > k
        BY <3>1
      <3> QED
        BY <3>2
    <2>3. Cardinality({i \in notOld : i > j}) <= Cardinality({i \in notOld : i > k})
      BY <2>2, DirsFinite
    <2>4. /\ Cardinality({i \in notOld : i > j}) \in Nat
          /\ Cardinality({i \in notOld : i > k}) \in Nat
      BY DirsFinite
    <2>5. Cardinality({i \in notOld : i > k}) >= MaxJobsRetained
      BY <2>1, <2>3, <2>4, RetentionAssumption
    <2> QED
      BY <1>1, <2>1, <2>5 DEF OverCount
  <1>5. CASE j \in OverBytes(L, P, c, sz)
    <2> DEFINE From(n) == left \ {i \in left \ P : i < n}
    <2>1. MaxTotalJobBytes > 0 /\ SumFunctionOnSet(sz, From(j)) > MaxTotalJobBytes
      BY <1>5 DEF OverBytes
    <2>2. From(j) \subseteq From(k) /\ From(k) \in SUBSET Dirs
      <3>1. left \in SUBSET Dirs /\ \A i \in left : i \in Nat
        BY DirsFinite DEF LeftByCount
      <3>2. j \in Nat /\ k \in Nat /\ k < j
        BY <1>1
      <3> HIDE DEF left
      <3>3. \A i \in left : i < k => i < j
        BY <3>1, <3>2
      <3> QED
        BY <3>1, <3>3
    <2>3. /\ SumFunctionOnSet(sz, From(j)) <= SumFunctionOnSet(sz, From(k))
          /\ SumFunctionOnSet(sz, From(j)) \in Nat /\ SumFunctionOnSet(sz, From(k)) \in Nat
      <3> HIDE DEF From
      <3>1. From(j) \in SUBSET Dirs
        BY <2>2
      <3> QED
        BY <2>2, <3>1, SizeMonotone
    <2>4. SumFunctionOnSet(sz, From(k)) > MaxTotalJobBytes
      BY <2>1, <2>3, RetentionAssumption
    <2> QED
      BY <1>1, <2>1, <2>4 DEF OverBytes
  <1> QED
    BY <1>3, <1>4, <1>5 DEF Doomed

\* What is kept meets the limit on the number of directories, protected ones
\* apart.
LEMMA KeptMeetsCount ==
  ASSUME NEW L \in SUBSET Dirs, NEW P, NEW c \in Nat, NEW sz \in Sizes,
         MaxJobsRetained > 0, NEW j \in (L \ Doomed(L, P, c, sz)) \ P
  PROVE  Cardinality({k \in L \ Doomed(L, P, c, sz) : k > j}) < MaxJobsRetained
  <1> DEFINE notOld == L \ TooOld(L, P, c)
             kept1 == {k \in L \ Doomed(L, P, c, sz) : k > j}
             all == {k \in notOld : k > j}
  <1>1. j \in notOld \ P /\ j \notin OverCount(L, P, c)
    BY Division DEF Doomed
  <1>2. ~(Cardinality(all) >= MaxJobsRetained)
    BY <1>1 DEF OverCount
  <1>3. kept1 \subseteq all /\ all \in SUBSET Dirs /\ kept1 \in SUBSET Dirs
    BY DEF Doomed
  <1> HIDE DEF kept1, all
  <1>4. /\ Cardinality(kept1) <= Cardinality(all)
        /\ Cardinality(kept1) \in Nat /\ Cardinality(all) \in Nat
    BY <1>3, DirsFinite
  <1> QED
    BY <1>2, <1>4, RetentionAssumption DEF kept1

\* And the limit on bytes, unless only protected directories are left.
LEMMA KeptMeetsBytes ==
  ASSUME NEW L \in SUBSET Dirs, NEW P, NEW c \in Nat, NEW sz \in Sizes,
         MaxTotalJobBytes > 0
  PROVE  \/ SumFunctionOnSet(sz, L \ Doomed(L, P, c, sz)) <= MaxTotalJobBytes
         \/ L \ Doomed(L, P, c, sz) \subseteq P
  <1> DEFINE kept1 == L \ Doomed(L, P, c, sz)
             left == LeftByCount(L, P, c)
             From(n) == left \ {i \in left \ P : i < n}
  <1> SUFFICES ASSUME kept1 \ P # {}
               PROVE  SumFunctionOnSet(sz, kept1) <= MaxTotalJobBytes
    OBVIOUS
  <1>1. PICK m \in kept1 \ P : \A k \in kept1 \ P : m <= k
    <2>1. kept1 \ P \subseteq Nat
      BY DirsFinite
    <2> HIDE DEF kept1
    <2> QED
      BY <2>1, SmallestNumber
  <1>2. m \in left \ P /\ m \notin OverBytes(L, P, c, sz)
    BY Division DEF Doomed
  <1>3. ~(SumFunctionOnSet(sz, From(m)) > MaxTotalJobBytes)
    BY <1>2 DEF OverBytes
  <1>4. kept1 \subseteq From(m) /\ kept1 \in SUBSET Dirs /\ From(m) \in SUBSET Dirs
    <2>1. kept1 \subseteq left /\ left \in SUBSET Dirs
      <3>1. kept1 = left \ OverBytes(L, P, c, sz)
        BY DEF Doomed, LeftByCount
      <3>2. left \subseteq L
        BY DEF LeftByCount
      <3> QED
        BY <3>1, <3>2
    <2>2. \A k \in kept1 \ P : ~(k < m)
      BY <1>1, DirsFinite
    <2> QED
      BY <2>1, <2>2
  <1> HIDE DEF kept1, From
  <1>5. /\ SumFunctionOnSet(sz, kept1) <= SumFunctionOnSet(sz, From(m))
        /\ SumFunctionOnSet(sz, kept1) \in Nat /\ SumFunctionOnSet(sz, From(m)) \in Nat
    BY <1>4, SizeMonotone
  <1> QED
    BY <1>3, <1>5, RetentionAssumption

\* No more is deleted than has to be: with the newest deleted directory still
\* there, a limit would be exceeded.
LEMMA NothingNeedless ==
  ASSUME NEW L \in SUBSET Dirs, NEW P, NEW c \in Nat, NEW sz \in Sizes,
         NEW j \in Doomed(L, P, c, sz), ~(j < c),
         \A k \in Doomed(L, P, c, sz) : ~(k > j)
  PROVE  LET kept1 == L \ Doomed(L, P, c, sz) IN
         \/ MaxJobsRetained > 0 /\ Cardinality(kept1) >= MaxJobsRetained
         \/ /\ MaxTotalJobBytes > 0
            /\ SumFunctionOnSet(sz, kept1 \union {j}) > MaxTotalJobBytes
  <1> DEFINE kept1 == L \ Doomed(L, P, c, sz)
             left == LeftByCount(L, P, c)
             notOld == L \ TooOld(L, P, c)
             newer == {k \in notOld : k > j}
             From == left \ {k \in left \ P : k < j}
  <1>0. j \in Dirs /\ Doomed(L, P, c, sz) \subseteq L \ P
    BY Division DEF Doomed
  <1>1. CASE j \in OverCount(L, P, c)
    <2>1. MaxJobsRetained > 0 /\ Cardinality(newer) >= MaxJobsRetained
      BY <1>1 DEF OverCount
    <2>2. newer \subseteq kept1 /\ kept1 \in SUBSET Dirs /\ newer \in SUBSET Dirs
      OBVIOUS
    <2> HIDE DEF newer, kept1
    <2>3. /\ Cardinality(newer) <= Cardinality(kept1)
          /\ Cardinality(newer) \in Nat /\ Cardinality(kept1) \in Nat
      BY <2>2, DirsFinite
    <2>4. Cardinality(kept1) >= MaxJobsRetained
      BY <2>1, <2>3, RetentionAssumption
    <2> QED
      BY <2>1, <2>4 DEF kept1
  <1>2. CASE j \in OverBytes(L, P, c, sz)
    <2>1. MaxTotalJobBytes > 0 /\ SumFunctionOnSet(sz, From) > MaxTotalJobBytes
      BY <1>2 DEF OverBytes
    <2>2. /\ From \subseteq kept1 \union {j}
          /\ kept1 \union {j} \in SUBSET Dirs /\ From \in SUBSET Dirs
      <3>1. left \subseteq L
        BY DEF LeftByCount
      <3>2. ASSUME NEW k \in From PROVE k \in kept1 \union {j}
        <4>1. k \in L /\ k \in Nat /\ j \in Nat /\ (k \in P \/ ~(k < j))
          BY <1>0, <3>1, DirsFinite
        <4>2. k \in Doomed(L, P, c, sz) => k \notin P /\ ~(k > j)
          BY <1>0
        <4> QED
          BY <4>1, <4>2
      <3> QED
        BY <1>0, <3>1, <3>2
    <2> HIDE DEF From, kept1
    <2>3. /\ SumFunctionOnSet(sz, From) <= SumFunctionOnSet(sz, kept1 \union {j})
          /\ SumFunctionOnSet(sz, From) \in Nat
          /\ SumFunctionOnSet(sz, kept1 \union {j}) \in Nat
      BY <2>2, SizeMonotone
    <2>4. SumFunctionOnSet(sz, kept1 \union {j}) > MaxTotalJobBytes
      BY <2>1, <2>3, RetentionAssumption
    <2> QED
      BY <2>1, <2>4 DEF kept1
  <1>3. j \notin TooOld(L, P, c)
    BY DEF TooOld
  <1> QED
    BY <1>1, <1>2, <1>3 DEF Doomed

-----------------------------------------------------------------------------
\* The loops.

Old == TooOld(listed, protected, cutoff)
Over == OverCount(listed, protected, cutoff)
Heavy == OverBytes(listed, protected, cutoff, size)

\* What the count loop has passed of what the age rule leaves.
Ahead == {k \in listed \ Old : k > at}

AgeInv ==
    /\ at \in 1..NumDirs + 1
    /\ deleteSet = {j \in Old : j < at}
    /\ kept = 0

\* kept counts the directories that stay; it stands still at the limit, from
\* where on every unprotected directory has enough newer ones.
CountInv ==
    /\ at \in 0..NumDirs
    /\ deleteSet = Old \union {j \in Over : j > at}
    /\ kept <= NumDirs - at
    /\ IF Cardinality(Ahead) < MaxJobsRetained
       THEN kept = Cardinality(Ahead)
       ELSE kept >= MaxJobsRetained
    /\ at = NumDirs \/ MaxJobsRetained > 0

\* The oldest go until the total is within the limit.
OldestGone ==
    /\ at \in 1..NumDirs + 1
    /\ deleteSet = Old \union Over \union {j \in Heavy : j < at}
    /\ \A j \in LeftByCount(listed, protected, cutoff) \ protected :
          j < at => j \in Heavy
    /\ totalAfterDeletes = SumFunctionOnSet(size, listed \ deleteSet)

LoopTypes ==
    /\ listed \subseteq Dirs
    /\ size \in [Dirs -> 0..MaxSize]
    /\ protected \subseteq Dirs
    /\ cutoff \in 1..NumDirs + 1
    /\ loop \in {"age", "count", "bytes", "remove", "failed", "done"}
    /\ at \in 0..NumDirs + 1
    /\ kept \in 0..NumDirs
    /\ totalAfterDeletes \in Nat
    /\ deletedIDs \subseteq deleteSet

LoopInv ==
    /\ LoopTypes
    /\ loop = "age" => AgeInv
    /\ loop = "count" => CountInv
    /\ loop = "bytes" => OldestGone
    /\ Planned => deleteSet = Doomed(listed, protected, cutoff, size)

-----------------------------------------------------------------------------
\* The sizes and the sets of a state.
LEMMA StateShape ==
  ASSUME LoopTypes
  PROVE  /\ size \in Sizes /\ cutoff \in Nat /\ listed \in SUBSET Dirs
         /\ \A j \in listed : j \in Nat \ {0} /\ j <= NumDirs
         /\ NumDirs \in Nat
         /\ Old \subseteq listed \ protected
         /\ Over \subseteq (listed \ protected) \ Old
         /\ Heavy \subseteq (listed \ protected) \ (Old \union Over)
         /\ LeftByCount(listed, protected, cutoff) = listed \ (Old \union Over)
         /\ Doomed(listed, protected, cutoff, size) = Old \union Over \union Heavy
  <1>1. size \in Sizes /\ cutoff \in Nat /\ listed \in SUBSET Dirs /\ NumDirs \in Nat
    BY PlanAssumption DEF LoopTypes, Sizes
  <1>2. \A j \in listed : j \in Nat \ {0} /\ j <= NumDirs
    BY PlanAssumption DEF LoopTypes, Dirs
  <1>3. Old \subseteq listed \ protected
    BY DEF Old, TooOld
  <1>4. Over \subseteq (listed \ protected) \ Old
    BY DEF Old, Over, OverCount
  <1>5. LeftByCount(listed, protected, cutoff) = listed \ (Old \union Over)
    BY DEF Old, Over, LeftByCount
  <1>6. Heavy \subseteq LeftByCount(listed, protected, cutoff) \ protected
    BY DEF Heavy, OverBytes
  <1>7. Heavy \subseteq (listed \ protected) \ (Old \union Over)
    BY <1>5, <1>6
  <1>8. Doomed(listed, protected, cutoff, size) = Old \union Over \union Heavy
    BY DEF Old, Over, Heavy, Doomed
  <1> QED
    BY <1>1, <1>2, <1>3, <1>4, <1>5, <1>7, <1>8

\* The arguments stay, and with them what the rules say of them.
LEMMA InputsStay ==
  ASSUME UNCHANGED inputs
  PROVE  /\ Old' = Old /\ Over' = Over /\ Heavy' = Heavy
         /\ UNCHANGED <<listed, size, protected, cutoff>>
         /\ LeftByCount(listed, protected, cutoff)'
               = LeftByCount(listed, protected, cutoff)
         /\ Doomed(listed, protected, cutoff, size)'
               = Doomed(listed, protected, cutoff, size)
  BY DEF inputs, Old, Over, Heavy

\* The byte rule at the cursor is the test of the byte loop: what is left there
\* is what the rule adds up.
LEMMA ByteTest ==
  ASSUME LoopTypes, OldestGone, MaxTotalJobBytes > 0,
         NEW j \in LeftByCount(listed, protected, cutoff) \ protected, ~(j < at)
  PROVE  /\ j = at => (j \in Heavy <=> totalAfterDeletes > MaxTotalJobBytes)
         /\ totalAfterDeletes <= MaxTotalJobBytes => j \notin Heavy
  <1> DEFINE left == LeftByCount(listed, protected, cutoff)
             From(n) == left \ {k \in left \ protected : k < n}
  <1>1. left = listed \ (Old \union Over) /\ left \in SUBSET Dirs
        /\ Heavy \subseteq left \ protected
        /\ size \in Sizes
        /\ \A k \in left : k \in Nat
    BY StateShape
  <1>2. j \in Heavy <=> SumFunctionOnSet(size, From(j)) > MaxTotalJobBytes
    BY DEF Heavy, OverBytes
  <1>3. listed \ deleteSet = From(at)
    <2>1. deleteSet = Old \union Over \union {k \in Heavy : k < at}
      BY DEF OldestGone
    <2>2. {k \in Heavy : k < at} = {k \in left \ protected : k < at}
      BY <1>1 DEF OldestGone
    <2> HIDE DEF left
    <2> QED
      BY <1>1, <2>1, <2>2
  <1>4. totalAfterDeletes = SumFunctionOnSet(size, From(at))
    BY <1>3 DEF OldestGone
  <1>5. From(j) \subseteq From(at) /\ From(at) \in SUBSET Dirs /\ From(j) \in SUBSET Dirs
    <2>1. at \in Nat /\ j \in Nat /\ at <= j
      BY <1>1, PlanAssumption DEF OldestGone
    <2> HIDE DEF left
    <2>2. \A k \in left : k < at => k < j
      BY <1>1, <2>1
    <2> QED
      BY <1>1, <2>2
  <1> HIDE DEF From
  <1>6. /\ SumFunctionOnSet(size, From(j)) <= SumFunctionOnSet(size, From(at))
        /\ SumFunctionOnSet(size, From(j)) \in Nat
        /\ SumFunctionOnSet(size, From(at)) \in Nat
    BY <1>1, <1>5, SizeMonotone
  <1>7. j = at => (j \in Heavy <=> totalAfterDeletes > MaxTotalJobBytes)
    BY <1>2, <1>4
  <1>8. totalAfterDeletes <= MaxTotalJobBytes => j \notin Heavy
    BY <1>2, <1>4, <1>6, RetentionAssumption
  <1> QED
    BY <1>7, <1>8

-----------------------------------------------------------------------------
\* The age loop starts with nothing marked.
LEMMA InitLoop == ASSUME Init PROVE LoopInv
  <1>1. LoopTypes /\ loop = "age" /\ AgeInv
    <2>1. NumDirs \in Nat /\ 1 \in 1..NumDirs + 1
      BY PlanAssumption
    <2>2. LoopTypes
      BY <2>1 DEF Init, LoopTypes
    <2>3. {j \in Old : j < 1} = {}
      BY <2>2, StateShape
    <2> QED
      BY <2>1, <2>2, <2>3 DEF Init, AgeInv
  <1> QED
    BY <1>1 DEF LoopInv, Planned

\* The age loop, which ends with what the age rule deletes.
LEMMA AgeLoop ==
  ASSUME LoopInv, AgeStep \/ AgeEnd
  PROVE  LoopInv'
  <1>1. LoopTypes /\ AgeInv /\ loop = "age"
    BY DEF LoopInv, AgeStep, AgeEnd
  <1>2. /\ Old' = Old /\ Over' = Over
        /\ UNCHANGED <<listed, size, protected, cutoff, kept, totalAfterDeletes, deletedIDs>>
    BY InputsStay DEF AgeStep, AgeEnd
  <1>3. /\ \A j \in listed : j \in Nat \ {0} /\ j <= NumDirs
        /\ NumDirs \in Nat /\ cutoff \in Nat
        /\ Old \subseteq listed \ protected /\ Over \subseteq listed \ protected
    BY <1>1, StateShape
  <1>4. CASE AgeStep
    <2>1. at \in Dirs /\ at' = at + 1 /\ loop' = loop
      BY <1>4 DEF AgeStep
    <2>2. at \in Nat /\ at' \in 1..NumDirs + 1
      BY <2>1, PlanAssumption DEF Dirs
    <2>3. deleteSet' = {j \in Old : j < at + 1}
      <3>1. at \in Old <=> at \in listed \ protected /\ at < cutoff
        BY DEF Old, TooOld
      <3>2. {j \in Old : j < at + 1} = {j \in Old : j < at} \union ({at} \intersect Old)
        BY <1>3, <2>2
      <3>3. deleteSet = {j \in Old : j < at}
        BY <1>1 DEF AgeInv
      <3>4. deleteSet' = deleteSet \union ({at} \intersect Old)
        BY <1>4, <3>1 DEF AgeStep, MarkDelete
      <3> QED
        BY <3>2, <3>3, <3>4
    <2>4. AgeInv'
      BY <1>1, <1>2, <2>1, <2>2, <2>3 DEF AgeInv
    <2>5. deleteSet \subseteq deleteSet'
      BY <1>4 DEF AgeStep, MarkDelete
    <2>6. LoopTypes'
      BY <1>1, <1>2, <2>1, <2>2, <2>5, <1>3 DEF LoopTypes
    <2> QED
      BY <1>1, <2>1, <2>4, <2>6 DEF LoopInv, Planned
  <1>5. CASE AgeEnd
    <2>1. at \notin Dirs /\ at' = NumDirs /\ loop' = "count" /\ deleteSet' = deleteSet
      BY <1>5 DEF AgeEnd
    <2>2. at = NumDirs + 1
      BY <1>1, <1>3, <2>1 DEF AgeInv, Dirs
    <2>3. deleteSet = Old
      BY <1>1, <1>3, <2>2 DEF AgeInv
    <2>4. {j \in Over : j > NumDirs} = {} /\ {k \in listed \ Old : k > NumDirs} = {}
      BY <1>3
    <2>5. Ahead' = {}
      BY <1>2, <2>1, <2>4 DEF Ahead
    <2>6. Cardinality(Ahead)' = 0
      BY <2>5, FS_EmptySet
    <2>7. CountInv'
      BY <1>1, <1>2, <1>3, <2>1, <2>3, <2>4, <2>6, RetentionAssumption DEF CountInv,
         AgeInv
    <2>8. LoopTypes'
      BY <1>1, <1>2, <1>3, <2>1 DEF LoopTypes
    <2> QED
      BY <2>1, <2>7, <2>8 DEF LoopInv, Planned
  <1> QED
    BY <1>4, <1>5

\* The next directory of the count loop: what it adds to those it has passed.
LEMMA OneFurther ==
  ASSUME LoopTypes, CountInv, at \in Dirs, at' = at - 1, UNCHANGED inputs
  PROVE  /\ at' \in 0..NumDirs /\ at' # NumDirs /\ at \in Nat
         /\ IsFiniteSet(Ahead) /\ Cardinality(Ahead) \in Nat
         /\ {j \in Over : j > at'} = {j \in Over : j > at} \union ({at} \intersect Over)
         /\ at \notin deleteSet \ Old
         /\ at \in listed \ Old => Cardinality(Ahead)' = Cardinality(Ahead) + 1
         /\ at \notin listed \ Old => Cardinality(Ahead)' = Cardinality(Ahead)
  <1>1. /\ \A j \in listed : j \in Nat \ {0} /\ j <= NumDirs
        /\ NumDirs \in Nat
        /\ listed \in SUBSET Dirs /\ Over \subseteq listed
    BY StateShape
  <1>2. at \in Nat /\ at \in 1..NumDirs /\ at' \in 0..NumDirs /\ at' # NumDirs
    BY <1>1 DEF Dirs
  <1>3. Ahead \in SUBSET Dirs /\ Ahead' \in SUBSET Dirs /\ at \notin Ahead
    <2>1. Ahead = {k \in listed \ Old : k > at} /\ Ahead' = {k \in listed \ Old : k > at'}
      BY InputsStay DEF Ahead
    <2>2. ~(at > at)
      BY <1>2
    <2> QED
      BY <1>1, <2>1, <2>2
  <1>4. IsFiniteSet(Ahead) /\ Cardinality(Ahead) \in Nat
    BY <1>3, DirsFinite
  <1>5. \A j \in listed : j > at' <=> j > at \/ j = at
    BY <1>1, <1>2
  <1>6. {j \in Over : j > at'} = {j \in Over : j > at} \union ({at} \intersect Over)
    BY <1>1, <1>5, <1>2
  <1>7. Ahead' = Ahead \union ({at} \intersect (listed \ Old))
    <2>1. Ahead' = {k \in listed \ Old : k > at'}
      BY InputsStay DEF Ahead
    <2> QED
      BY <1>5, <2>1 DEF Ahead
  <1>8. at \notin deleteSet \ Old
    BY <1>2 DEF CountInv
  <1>9. ASSUME at \in listed \ Old PROVE Cardinality(Ahead)' = Cardinality(Ahead) + 1
    <2>1. Ahead' = Ahead \union {at}
      BY <1>7, <1>9
    <2>2. Cardinality(Ahead \union {at}) = Cardinality(Ahead) + 1
      BY <1>3, <1>4, FS_AddElement
    <2> QED
      BY <2>1, <2>2
  <1>10. ASSUME at \notin listed \ Old PROVE Cardinality(Ahead)' = Cardinality(Ahead)
    <2>1. Ahead' = Ahead
      BY <1>7, <1>10
    <2> QED
      BY <2>1
  <1> QED
    BY <1>2, <1>4, <1>6, <1>8, <1>9, <1>10

\* The count loop, which ends with what the age and the count rule delete.
LEMMA CountLoop ==
  ASSUME LoopInv, CountStep \/ CountEnd
  PROVE  LoopInv'
  <1>1. LoopTypes /\ CountInv /\ loop = "count"
    BY DEF LoopInv, CountStep, CountEnd
  <1>2. /\ UNCHANGED inputs
        /\ Old' = Old /\ Over' = Over /\ Heavy' = Heavy
        /\ UNCHANGED <<listed, size, protected, cutoff, deletedIDs>>
        /\ LeftByCount(listed, protected, cutoff)'
              = LeftByCount(listed, protected, cutoff)
    BY InputsStay DEF CountStep, CountEnd
  <1>3. /\ size \in Sizes /\ listed \in SUBSET Dirs
        /\ \A j \in listed : j \in Nat \ {0} /\ j <= NumDirs
        /\ NumDirs \in Nat
        /\ Old \subseteq listed \ protected
        /\ Over \subseteq (listed \ protected) \ Old
        /\ Heavy \subseteq (listed \ protected) \ (Old \union Over)
        /\ LeftByCount(listed, protected, cutoff) = listed \ (Old \union Over)
    BY <1>1, StateShape
  <1>4. CASE CountStep
    <2>1. at \in Dirs /\ at' = at - 1 /\ loop' = loop /\ MaxJobsRetained > 0
          /\ UNCHANGED totalAfterDeletes
      BY <1>4 DEF CountStep
    <2>2. /\ at' \in 0..NumDirs /\ at' # NumDirs /\ at \in Nat
          /\ IsFiniteSet(Ahead) /\ Cardinality(Ahead) \in Nat
          /\ {j \in Over : j > at'} = {j \in Over : j > at} \union ({at} \intersect Over)
          /\ at \notin deleteSet \ Old
          /\ at \in listed \ Old => Cardinality(Ahead)' = Cardinality(Ahead) + 1
          /\ at \notin listed \ Old => Cardinality(Ahead)' = Cardinality(Ahead)
      BY <1>1, <1>2, <2>1, OneFurther
    <2> DEFINE n == Cardinality(Ahead)
    <2>3. /\ deleteSet = Old \union {j \in Over : j > at}
          /\ kept \in Nat /\ kept <= NumDirs - at
          /\ IF n < MaxJobsRetained THEN kept = n ELSE kept >= MaxJobsRetained
      BY <1>1, <1>3 DEF CountInv, LoopTypes
    <2>4. at \in Over <=> /\ at \in (listed \ protected) \ Old
                          /\ n >= MaxJobsRetained
      BY <2>1 DEF Over, OverCount, Ahead, Old
    <2> HIDE DEF n
    <2>5. /\ deleteSet' = deleteSet \union ({at} \intersect Over)
          /\ kept' \in Nat /\ kept' <= NumDirs - at'
          /\ IF n' < MaxJobsRetained THEN kept' = n' ELSE kept' >= MaxJobsRetained
      <3>1. n \in Nat /\ (at \in listed \ Old => n' = n + 1) /\ (at \notin listed \ Old => n' = n)
        BY <2>2 DEF n
      <3>2. CASE at \notin listed
        <4>1. UNCHANGED <<kept, deleteSet>> /\ n' = n /\ at \notin Over
          BY <1>3, <1>4, <3>1, <3>2 DEF CountStep
        <4> QED
          BY <1>3, <2>1, <2>2, <2>3, <4>1
      <3>3. CASE at \in listed \intersect protected
        <4>1. kept' = kept + 1 /\ deleteSet' = deleteSet
          BY <1>4, <3>3 DEF CountStep
        <4>2. n' = n + 1 /\ at \notin Over
          BY <1>3, <3>1, <3>3
        <4> QED
          BY <1>3, <2>1, <2>2, <2>3, <3>1, <4>1, <4>2, RetentionAssumption
      <3>4. CASE at \in (listed \ protected) \intersect deleteSet
        <4>1. UNCHANGED <<kept, deleteSet>>
          BY <1>4, <3>4 DEF CountStep
        <4>2. n' = n /\ at \notin Over
          BY <1>3, <2>2, <3>1, <3>4
        <4> QED
          BY <1>3, <2>1, <2>2, <2>3, <4>1, <4>2
      <3>5. CASE at \in (listed \ protected) \ deleteSet
        <4>1. IF kept >= MaxJobsRetained
              THEN deleteSet' = deleteSet \union ({at} \ protected) /\ kept' = kept
              ELSE kept' = kept + 1 /\ deleteSet' = deleteSet
          BY <1>4, <3>5 DEF CountStep, MarkDelete
        <4>2. n' = n + 1 /\ (at \in Over <=> n >= MaxJobsRetained) /\ at \notin protected
          BY <2>3, <2>4, <3>1, <3>5
        <4>3. CASE kept >= MaxJobsRetained
          <5>1. n >= MaxJobsRetained
            BY <2>3, <3>1, <4>3, RetentionAssumption
          <5>2. n' >= MaxJobsRetained /\ ~(n' < MaxJobsRetained)
            BY <3>1, <4>2, <5>1, RetentionAssumption
          <5>3. kept' = kept /\ kept <= NumDirs - at'
            BY <1>3, <2>1, <2>2, <2>3, <4>1, <4>3
          <5> QED
            BY <2>3, <4>1, <4>2, <4>3, <5>1, <5>2, <5>3
        <4>4. CASE ~(kept >= MaxJobsRetained)
          <5>1. n < MaxJobsRetained /\ kept = n
            BY <2>3, <4>4
          <5>2. at \notin Over
            BY <3>1, <4>2, <5>1, RetentionAssumption
          <5> QED
            BY <1>3, <2>1, <2>2, <2>3, <3>1, <4>1, <4>2, <4>4, <5>1, <5>2,
               RetentionAssumption
        <4> QED
          BY <4>3, <4>4
      <3> QED
        BY <3>2, <3>3, <3>4, <3>5
    <2>6. deleteSet' = Old \union {j \in Over : j > at'}
      BY <2>2, <2>3, <2>5
    <2>7. CountInv'
      BY <1>2, <2>1, <2>2, <2>5, <2>6 DEF CountInv, n
    <2>8. kept' \in 0..NumDirs
      <3>1. at' \in 0..NumDirs /\ NumDirs \in Nat
        BY <1>3, <2>2
      <3>2. kept' \in Nat /\ kept' <= NumDirs - at'
        BY <2>5
      <3>3. \A k \in Nat, i \in 0..NumDirs : k <= NumDirs - i => k \in 0..NumDirs
        BY <3>1
      <3> QED
        BY <3>1, <3>2, <3>3
    <2>9. LoopTypes'
      BY <1>1, <1>2, <1>3, <2>1, <2>2, <2>5, <2>8 DEF LoopTypes
    <2> QED
      BY <1>1, <2>1, <2>7, <2>9 DEF LoopInv, Planned
  <1>5. CASE CountEnd
    <2>1. /\ MaxJobsRetained = 0 \/ at \notin Dirs
          /\ at' = 1 /\ loop' = "bytes" /\ deleteSet' = deleteSet /\ kept' = kept
          /\ totalAfterDeletes' = SumFunctionOnSet(size, listed \ deleteSet)
      BY <1>5 DEF CountEnd
    <2>2. deleteSet = Old \union Over
      <3>1. CASE MaxJobsRetained = 0
        <4>1. Over = {}
          BY <3>1 DEF Over, OverCount
        <4> QED
          BY <1>1, <4>1 DEF CountInv
      <3>2. CASE at \notin Dirs
        <4>1. at = 0 \/ (at = NumDirs /\ NumDirs = 0)
          BY <1>1, <1>3, <3>2 DEF CountInv, Dirs
        <4>2. {j \in Over : j > 0} = Over
          BY <1>3
        <4> QED
          BY <1>1, <4>1, <4>2 DEF CountInv
      <3> QED
        BY <2>1, <3>1, <3>2
    <2>3. totalAfterDeletes' \in Nat
      BY <1>3, <2>1, SizeMonotone
    <2>4. {j \in Heavy : j < 1} = {}
      BY <1>3
    <2>5. \A j \in LeftByCount(listed, protected, cutoff) \ protected : ~(j < 1)
      BY <1>3
    <2>6. OldestGone'
      BY <1>2, <1>3, <2>1, <2>2, <2>4, <2>5 DEF OldestGone
    <2>7. LoopTypes'
      BY <1>1, <1>2, <1>3, <2>1, <2>3 DEF LoopTypes
    <2> QED
      BY <2>1, <2>6, <2>7 DEF LoopInv, Planned
  <1> QED
    BY <1>4, <1>5

\* The byte loop, which ends with everything the rules delete.
LEMMA BytesLoop ==
  ASSUME LoopInv, BytesStep \/ BytesEnd
  PROVE  LoopInv'
  <1> DEFINE left == LeftByCount(listed, protected, cutoff)
  <1>1. LoopTypes /\ OldestGone /\ loop = "bytes"
    BY DEF LoopInv, BytesStep, BytesEnd
  <1>2. /\ Old' = Old /\ Over' = Over /\ Heavy' = Heavy /\ left' = left
        /\ Doomed(listed, protected, cutoff, size)'
              = Doomed(listed, protected, cutoff, size)
        /\ UNCHANGED <<listed, size, protected, cutoff, kept, deletedIDs>>
    BY InputsStay DEF BytesStep, BytesEnd
  <1>3. /\ size \in Sizes /\ listed \in SUBSET Dirs
        /\ \A j \in listed : j \in Nat \ {0} /\ j <= NumDirs
        /\ NumDirs \in Nat
        /\ Old \subseteq listed \ protected
        /\ Over \subseteq (listed \ protected) \ Old
        /\ Heavy \subseteq (listed \ protected) \ (Old \union Over)
        /\ left = listed \ (Old \union Over)
        /\ Doomed(listed, protected, cutoff, size) = Old \union Over \union Heavy
    BY <1>1, StateShape
  <1>4. deleteSet = Old \union Over \union {j \in Heavy : j < at}
    BY <1>1 DEF OldestGone
  <1>5. \A j \in left \ protected : j < at => j \in Heavy
    BY <1>1 DEF OldestGone
  <1>6. ASSUME MaxTotalJobBytes > 0, NEW j \in left \ protected, ~(j < at)
        PROVE  /\ j = at => (j \in Heavy <=> totalAfterDeletes > MaxTotalJobBytes)
               /\ totalAfterDeletes <= MaxTotalJobBytes => j \notin Heavy
    BY <1>1, <1>6, ByteTest
  <1>7. Heavy \subseteq left \ protected /\ at \in Nat \ {0} /\ at <= NumDirs + 1
    BY <1>1, <1>3 DEF OldestGone
  <1> HIDE DEF left
  <1>8. CASE BytesStep
    <2>1. /\ MaxTotalJobBytes > 0 /\ totalAfterDeletes > MaxTotalJobBytes
          /\ at \in Dirs /\ at' = at + 1 /\ loop' = loop
      BY <1>8 DEF BytesStep
    <2>2. at' \in 1..NumDirs + 1
      BY <1>3, <2>1 DEF Dirs
    <2>3. \A j \in listed : j < at' <=> j < at \/ j = at
      BY <1>3, <1>7, <2>1
    <2>4. at \in listed \ (protected \union deleteSet) <=> at \in left \ protected
      <3>1. ~(at < at)
        BY <1>7
      <3> QED
        BY <1>3, <1>4, <3>1
    <2>5. at \in left \ protected <=> at \in Heavy
      BY <1>6, <1>7, <2>1
    <2>6. deleteSet' = deleteSet \union ({at} \intersect Heavy)
      BY <1>8, <2>4, <2>5 DEF BytesStep, MarkDelete
    <2>7. deleteSet' = Old \union Over \union {j \in Heavy : j < at'}
      BY <1>3, <1>4, <2>3, <2>6
    <2>8. \A j \in left \ protected : j < at' => j \in Heavy
      BY <1>3, <1>5, <2>3, <2>5
    <2>9. totalAfterDeletes' = SumFunctionOnSet(size, listed \ deleteSet')
          /\ totalAfterDeletes' \in Nat
      <3>1. totalAfterDeletes = SumFunctionOnSet(size, listed \ deleteSet)
        BY <1>1 DEF OldestGone
      <3>2. CASE at \in listed \ (protected \union deleteSet)
        <4>1. totalAfterDeletes' = totalAfterDeletes - size[at]
          BY <1>8, <3>2 DEF BytesStep
        <4>2. listed \ deleteSet' = (listed \ deleteSet) \ {at}
          BY <2>4, <2>5, <2>6, <3>2
        <4>3. at \in listed \ deleteSet /\ listed \ deleteSet \in SUBSET Dirs
          BY <1>3, <3>2
        <4>4. /\ IsFiniteSet(listed \ deleteSet)
              /\ \A j \in listed \ deleteSet : size[j] \in Nat
          BY <1>3, <4>3, DirsFinite DEF Sizes
        <4> DEFINE rest == SumFunctionOnSet(size, (listed \ deleteSet) \ {at})
        <4>5. SumFunctionOnSet(size, listed \ deleteSet) = size[at] + rest
          BY <4>3, <4>4, SumRemove
        <4>6. rest \in Nat /\ size[at] \in Nat
          <5>1. (listed \ deleteSet) \ {at} \in SUBSET Dirs
            BY <4>3
          <5> QED
            BY <1>3, <4>3, <4>4, <5>1, SizeMonotone
        <4>7. SumFunctionOnSet(size, listed \ deleteSet') = rest
          BY <4>2
        <4> HIDE DEF rest
        <4> QED
          BY <3>1, <4>1, <4>5, <4>6, <4>7
      <3>3. CASE at \notin listed \ (protected \union deleteSet)
        <4>1. UNCHANGED <<deleteSet, totalAfterDeletes>>
          BY <1>8, <3>3 DEF BytesStep
        <4> QED
          BY <1>1, <3>1, <4>1 DEF LoopTypes
      <3> QED
        BY <3>2, <3>3
    <2>10. OldestGone'
      BY <1>2, <2>2, <2>7, <2>8, <2>9 DEF OldestGone, left
    <2>11. LoopTypes'
      BY <1>1, <1>2, <1>3, <2>1, <2>2, <2>6, <2>9 DEF LoopTypes
    <2> QED
      BY <1>1, <2>1, <2>10, <2>11 DEF LoopInv, Planned
  <1>9. CASE BytesEnd
    <2>1. /\ \/ MaxTotalJobBytes = 0
             \/ totalAfterDeletes <= MaxTotalJobBytes
             \/ at \notin Dirs
          /\ loop' = "remove" /\ deleteSet' = deleteSet
          /\ UNCHANGED <<at, totalAfterDeletes>>
      BY <1>9 DEF BytesEnd
    <2>2. ASSUME NEW j \in Heavy PROVE j < at
      <3> SUFFICES ASSUME ~(j < at) PROVE FALSE
        OBVIOUS
      <3>1. MaxTotalJobBytes > 0
        BY DEF Heavy, OverBytes
      <3>2. j \in left \ protected /\ j \in listed
        BY <1>3, <1>7
      <3>3. ~(totalAfterDeletes <= MaxTotalJobBytes)
        BY <1>6, <3>1, <3>2
      <3>4. at \in Dirs
        BY <1>3, <1>7, <3>2 DEF Dirs
      <3> QED
        BY <2>1, <3>1, <3>3, <3>4, RetentionAssumption
    <2>3. deleteSet = Doomed(listed, protected, cutoff, size)
      BY <1>3, <1>4, <2>2
    <2>4. LoopTypes'
      BY <1>1, <1>2, <2>1 DEF LoopTypes
    <2> QED
      BY <1>2, <2>1, <2>3, <2>4 DEF LoopInv, Planned
  <1> QED
    BY <1>8, <1>9

\* Removing the directories changes none of it.
LEMMA RemoveLoop ==
  ASSUME LoopInv, RemoveStep \/ RemoveFails \/ RemoveEnd
  PROVE  LoopInv'
  <1>1. LoopTypes /\ Planned /\ deleteSet = Doomed(listed, protected, cutoff, size)
    BY DEF LoopInv, Planned, RemoveStep, RemoveFails, RemoveEnd
  <1>2. /\ UNCHANGED <<listed, size, protected, cutoff, at, kept, deleteSet,
                       totalAfterDeletes>>
        /\ loop' \in {"remove", "failed", "done"}
        /\ deletedIDs' \subseteq deleteSet
    BY <1>1 DEF LoopTypes, RemoveStep, RemoveFails, RemoveEnd, inputs
  <1>3. LoopTypes'
    BY <1>1, <1>2 DEF LoopTypes
  <1> QED
    BY <1>1, <1>2, <1>3 DEF LoopInv, Planned

\* LoopInv is an inductive invariant of Cleanup.
THEOREM LoopInvariance == Spec => []LoopInv
  <1>1. Init => LoopInv
    BY InitLoop
  <1>2. LoopInv /\ [Next]_vars => LoopInv'
    <2> SUFFICES ASSUME LoopInv, [Next]_vars PROVE LoopInv'
      OBVIOUS
    <2>1. CASE AgeStep \/ AgeEnd
      BY <2>1, AgeLoop
    <2>2. CASE CountStep \/ CountEnd
      BY <2>2, CountLoop
    <2>3. CASE BytesStep \/ BytesEnd
      BY <2>3, BytesLoop
    <2>4. CASE RemoveStep \/ RemoveFails \/ RemoveEnd
      BY <2>4, RemoveLoop
    <2>5. CASE UNCHANGED vars
      BY <2>5 DEF vars, inputs, LoopInv, LoopTypes, AgeInv, CountInv, OldestGone,
                  Planned, Old, Over, Heavy, Ahead
    <2> QED
      BY <2>1, <2>2, <2>3, <2>4, <2>5 DEF Next
  <1> QED
    BY <1>1, <1>2, PTL DEF Spec

\* The state keeps its shape: in every loop only unprotected directories of the
\* list are marked, and only marked ones are removed (markDelete, jobstore.go
\* 191-199).
THEOREM PlanTypes == Spec => []TypeOK
  <1>1. LoopInv => TypeOK
    <2> SUFFICES ASSUME LoopInv PROVE TypeOK
      OBVIOUS
    <2>1. LoopTypes
      BY DEF LoopInv
    <2>2. deleteSet \subseteq listed \ protected
      <3>1. /\ Old \subseteq listed \ protected
            /\ Over \subseteq listed \ protected
            /\ Heavy \subseteq listed \ protected
            /\ Doomed(listed, protected, cutoff, size) = Old \union Over \union Heavy
        BY <2>1, StateShape
      <3>2. \/ loop = "age" /\ AgeInv
            \/ loop = "count" /\ CountInv
            \/ loop = "bytes" /\ OldestGone
            \/ deleteSet = Doomed(listed, protected, cutoff, size)
        BY <2>1 DEF LoopInv, LoopTypes, Planned
      <3> QED
        BY <3>1, <3>2 DEF AgeInv, CountInv, OldestGone
    <2> QED
      BY <2>1, <2>2 DEF TypeOK, LoopTypes
  <1> QED
    BY <1>1, LoopInvariance, PTL

\* The three loops together compute the set that Retention defines, which the
\* model of the daemon uses for them (jobstore.go 179-241).
THEOREM PlanComputesDoomed == Spec => []PlanIsDoomed
  <1>1. LoopInv => PlanIsDoomed
    BY DEF LoopInv, PlanIsDoomed
  <1> QED
    BY <1>1, LoopInvariance, PTL

\* Cleanup never deletes a directory and keeps an older one, protected ones
\* apart, although the three rules are applied one after the other.
THEOREM OldestGoFirst == Spec => []OldestFirst
  <1>1. LoopInv => OldestFirst
    <2> SUFFICES ASSUME LoopInv, Planned,
                        NEW j \in deleteSet, NEW k \in Left \ protected
                 PROVE  j < k
      BY DEF OldestFirst
    <2>1. deleteSet = Doomed(listed, protected, cutoff, size)
      BY DEF LoopInv
    <2>2. size \in Sizes /\ cutoff \in Nat /\ listed \in SUBSET Dirs
      BY StateShape DEF LoopInv
    <2>3. k \in (listed \ Doomed(listed, protected, cutoff, size)) \ protected
      BY <2>1 DEF Left
    <2> QED
      BY <2>1, <2>2, <2>3, DoomedOldestFirst
  <1> QED
    BY <1>1, LoopInvariance, PTL

\* After Cleanup each limit is met, unless only protected directories are over
\* it (jobstore.go 201-241).
THEOREM LimitsHold == Spec => []LimitsMet
  <1>1. LoopInv => LimitsMet
    <2> SUFFICES ASSUME LoopInv, Planned PROVE LimitsMet
      BY DEF LimitsMet
    <2>1. Left = listed \ Doomed(listed, protected, cutoff, size)
      BY DEF LoopInv, Left
    <2>2. size \in Sizes /\ cutoff \in Nat /\ listed \in SUBSET Dirs
      BY StateShape DEF LoopInv
    <2>3. ASSUME MaxJobsRetained > 0, NEW j \in Left \ protected
          PROVE  Cardinality({k \in Left : k > j}) < MaxJobsRetained
      BY <2>1, <2>2, <2>3, KeptMeetsCount
    <2>4. ASSUME MaxTotalJobBytes > 0
          PROVE  \/ SumFunctionOnSet(size, Left) <= MaxTotalJobBytes
                 \/ Left \subseteq protected
      BY <2>1, <2>2, <2>4, KeptMeetsBytes
    <2> QED
      BY <2>3, <2>4 DEF LimitsMet
  <1> QED
    BY <1>1, LoopInvariance, PTL

\* Cleanup deletes no more than it has to: with the newest deleted directory
\* still there, a limit would be exceeded.
THEOREM NoneNeedless == Spec => []NoNeedlessDelete
  <1>1. LoopInv => NoNeedlessDelete
    <2> SUFFICES ASSUME LoopInv, Planned, NEW j \in deleteSet,
                        ~(j < cutoff), \A k \in deleteSet : ~(k > j)
                 PROVE  \/ MaxJobsRetained > 0 /\ Cardinality(Left) >= MaxJobsRetained
                        \/ /\ MaxTotalJobBytes > 0
                           /\ SumFunctionOnSet(size, Left \union {j}) > MaxTotalJobBytes
      BY DEF NoNeedlessDelete
    <2>1. deleteSet = Doomed(listed, protected, cutoff, size)
      BY DEF LoopInv
    <2>2. Left = listed \ Doomed(listed, protected, cutoff, size)
      BY <2>1 DEF Left
    <2>3. size \in Sizes /\ cutoff \in Nat /\ listed \in SUBSET Dirs
      BY StateShape DEF LoopInv
    <2> QED
      BY <2>1, <2>2, <2>3, NothingNeedless
  <1> QED
    BY <1>1, LoopInvariance, PTL
=============================================================================

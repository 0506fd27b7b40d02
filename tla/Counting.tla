------------------------------ MODULE Counting ------------------------------
(***************************************************************************)
(* What the counters and the boards are counted with: induction over       *)
(* finite sets and over Nat with the sets for which a claim holds, highest *)
(* and lowest elements, sorted sequences, and SumFunctionOnSet.            *)
(***************************************************************************)
EXTENDS FiniteSetsExt, Functions, FiniteSetTheorems, FunctionTheorems, TLAPS

\* A family that holds a set whenever it holds all its strict subsets holds
\* every finite set.
LEMMA StrongInduction ==
  ASSUME NEW S, IsFiniteSet(S), NEW G \in SUBSET (SUBSET S),
         \A T \in SUBSET S : (\A U \in SUBSET T : U # T => U \in G) => T \in G
  PROVE  S \in G
<1> SUFFICES ASSUME S \notin G PROVE FALSE
  OBVIOUS
<1> DEFINE Bad == (SUBSET S) \ G
<1>1. IsWellFoundedOn(StrictSubsetOrdering(S), SUBSET S)
  <2>1. IsWellFoundedOn(StrictSubsetOrdering(S), FiniteSubsetsOf(S))
    BY FS_StrictSubsetOrderingWellFounded
  <2>2. FiniteSubsetsOf(S) = SUBSET S
    BY FS_FiniteSubsetsOfFinite
  <2> QED
    BY <2>1, <2>2
<1>2. Bad \subseteq SUBSET S /\ Bad # {}
  OBVIOUS
<1> HIDE DEF Bad
<1>3. PICK T \in Bad : \A U \in Bad : <<U, T>> \notin StrictSubsetOrdering(S)
  BY <1>1, <1>2, WFMin
<1> USE DEF Bad
<1>4. \A U \in SUBSET T : U # T => U \in G
  BY <1>3 DEF StrictSubsetOrdering
<1> QED
  BY <1>3, <1>4

\* A family that holds {} and grows by one element at a time holds them too.
LEMMA FiniteInduction ==
  ASSUME NEW S, IsFiniteSet(S), NEW G \in SUBSET (SUBSET S), {} \in G,
         \A T \in G, x \in S : x \notin T => T \cup {x} \in G
  PROVE  S \in G
<1>1. ASSUME NEW T \in SUBSET S, \A U \in SUBSET T : U # T => U \in G
      PROVE  T \in G
  <2>1. CASE T = {}
    BY <2>1
  <2>2. CASE T # {}
    <3>1. PICK x \in T : TRUE
      BY <2>2
    <3>2. T \ {x} \in G /\ x \in S /\ x \notin T \ {x} /\ (T \ {x}) \cup {x} = T
      BY <1>1, <3>1
    <3> QED
      BY <3>2
  <2> QED
    BY <2>1, <2>2
<1> QED
  BY <1>1, StrongInduction

\* The same over Nat.
LEMMA NumberInduction ==
  ASSUME NEW G \in SUBSET Nat, 0 \in G, \A n \in G : n + 1 \in G
  PROVE  G = Nat
<1> SUFFICES ASSUME G # Nat PROVE FALSE
  OBVIOUS
<1> DEFINE Bad == Nat \ G
<1>1. Bad \subseteq Nat /\ Bad # {}
  OBVIOUS
<1> HIDE DEF Bad
<1>2. PICK n \in Bad : \A m \in Bad : <<m, n>> \notin OpToRel(<, Nat)
  BY <1>1, NatLessThanWellFounded, WFMin
<1> USE DEF Bad
<1>3. \A m \in Bad : ~ (m < n)
  BY <1>2 DEF OpToRel
<1>4. n \in Nat /\ n # 0 /\ n - 1 \in Nat /\ n - 1 < n /\ (n - 1) + 1 = n
  OBVIOUS
<1>5. n - 1 \in G
  BY <1>3, <1>4
<1> QED
  BY <1>4, <1>5

-----------------------------------------------------------------------------
(* Highest and lowest *)

\* A finite set has an element f puts highest,
LEMMA HighestExists ==
  ASSUME NEW S, IsFiniteSet(S), S # {}, NEW f \in [S -> Int]
  PROVE  \E x \in S : \A y \in S : f[y] <= f[x]
<1> DEFINE G == {T \in SUBSET S : T # {} => \E x \in T : \A y \in T : f[y] <= f[x]}
<1>1. {} \in G
  OBVIOUS
<1>2. ASSUME NEW T \in G, NEW x \in S, x \notin T PROVE T \cup {x} \in G
  <2>1. CASE T = {}
    BY <2>1
  <2>2. CASE T # {}
    <3>1. PICK z \in T : \A y \in T : f[y] <= f[z]
      BY <2>2
    <3>2. CASE f[x] <= f[z]
      BY <3>1, <3>2
    <3>3. CASE f[z] <= f[x]
      <4>1. \A y \in T \cup {x} : f[y] <= f[x]
        BY <3>1, <3>3
      <4> QED
        BY <4>1
    <3> QED
      BY <3>1, <3>2, <3>3
  <2> QED
    BY <2>1, <2>2
<1> HIDE DEF G
<1>3. S \in G
  <2>1. G \in SUBSET (SUBSET S)
    BY DEF G
  <2> QED
    BY <1>1, <1>2, <2>1, FiniteInduction
<1> QED
  BY <1>3 DEF G

\* and one it puts lowest.
LEMMA LowestExists ==
  ASSUME NEW S, IsFiniteSet(S), S # {}, NEW f \in [S -> Int]
  PROVE  \E x \in S : \A y \in S : f[x] <= f[y]
<1> DEFINE g == [x \in S |-> - f[x]]
<1>1. g \in [S -> Int]
  OBVIOUS
<1>2. \A x \in S : g[x] = - f[x]
  OBVIOUS
<1> HIDE DEF g
<1>3. PICK x \in S : \A y \in S : g[y] <= g[x]
  BY <1>1, HighestExists
<1> QED
  BY <1>2, <1>3

\* Max and Min of what f says of a finite set.
LEMMA MaxOfImage ==
  ASSUME NEW S, IsFiniteSet(S), S # {}, NEW f \in [S -> Int]
  PROVE  /\ \E x \in S : Max({f[y] : y \in S}) = f[x]
         /\ \A x \in S : f[x] <= Max({f[y] : y \in S})
<1>1. PICK x \in S : \A y \in S : f[y] <= f[x]
  BY HighestExists
<1>2. \E m \in {f[y] : y \in S} : \A n \in {f[y] : y \in S} : m >= n
  BY <1>1
<1> QED
  BY <1>2 DEF Max

LEMMA MinOfImage ==
  ASSUME NEW S, IsFiniteSet(S), S # {}, NEW f \in [S -> Int]
  PROVE  /\ \E x \in S : Min({f[y] : y \in S}) = f[x]
         /\ \A x \in S : Min({f[y] : y \in S}) <= f[x]
<1>1. PICK x \in S : \A y \in S : f[x] <= f[y]
  BY LowestExists
<1>2. \E m \in {f[y] : y \in S} : \A n \in {f[y] : y \in S} : m =< n
  BY <1>1
<1> QED
  BY <1>2 DEF Min

\* The lesser of two numbers.
LEMMA MinOfTwo ==
  ASSUME NEW a \in Int, NEW b \in Int
  PROVE  Min({a, b}) = IF a <= b THEN a ELSE b
  BY DEF Min

-----------------------------------------------------------------------------
(* SumFunctionOnSet *)

Picked(s) == CHOOSE x \in s : TRUE

\* What one step of the fold says of the sums over the subsets of S.
Unfolded(it, f, s) == IF s = {} THEN 0 ELSE f[Picked(s)] + it[s \ {Picked(s)}]

Unfolds(it, f, S) == it = [s \in SUBSET S |-> Unfolded(it, f, s)]

\* There are such sums, built up by the size of the subset.
LEMMA SumsExist ==
  ASSUME NEW S, IsFiniteSet(S), NEW f
  PROVE  \E it : Unfolds(it, f, S)
<1> DEFINE Upto(n) == {s \in SUBSET S : Cardinality(s) <= n}
           G == {n \in Nat : \E it : it = [s \in Upto(n) |-> Unfolded(it, f, s)]}
<1>1. \A s \in SUBSET S : IsFiniteSet(s) /\ Cardinality(s) \in Nat /\ Cardinality(s) <= Cardinality(S)
  BY FS_Subset, FS_CardinalityType
<1>2. \A s \in SUBSET S : s # {} => /\ Picked(s) \in s
                                    /\ Cardinality(s \ {Picked(s)}) = Cardinality(s) - 1
  BY <1>1, FS_RemoveElement DEF Picked
<1>3. 0 \in G
  <2> DEFINE it == [s \in Upto(0) |-> 0]
  <2>1. \A s \in Upto(0) : s = {}
    BY <1>1, FS_EmptySet
  <2>2. it = [s \in Upto(0) |-> Unfolded(it, f, s)]
    BY <2>1 DEF Unfolded
  <2> QED
    BY <2>2
<1>4. ASSUME NEW n \in G PROVE n + 1 \in G
  <2>1. PICK it : it = [s \in Upto(n) |-> Unfolded(it, f, s)]
    OBVIOUS
  <2> DEFINE jt == [s \in Upto(n + 1) |-> Unfolded(it, f, s)]
  <2>2. ASSUME NEW s \in Upto(n + 1) PROVE Unfolded(it, f, s) = Unfolded(jt, f, s)
    <3>1. CASE s = {}
      BY <3>1 DEF Unfolded
    <3>2. CASE s # {}
      <4> DEFINE r == s \ {Picked(s)}
      <4>1. r \in Upto(n) /\ r \in Upto(n + 1)
        BY <1>1, <1>2, <3>2
      <4>2. it[r] = Unfolded(it, f, r) /\ jt[r] = Unfolded(it, f, r)
        BY <2>1, <4>1
      <4> QED
        BY <3>2, <4>2 DEF Unfolded
    <3> QED
      BY <3>1, <3>2
  <2>3. jt = [s \in Upto(n + 1) |-> Unfolded(jt, f, s)]
    BY <2>2
  <2> HIDE DEF jt
  <2>4. \E kt : kt = [s \in Upto(n + 1) |-> Unfolded(kt, f, s)]
    BY <2>3
  <2>5. n + 1 \in Nat
    OBVIOUS
  <2> QED
    BY <2>4, <2>5
<1>5. G = Nat
  <2> HIDE DEF G
  <2>1. G \in SUBSET Nat
    BY DEF G
  <2> QED
    BY <1>3, <1>4, <2>1, NumberInduction
<1>6. Upto(Cardinality(S)) = SUBSET S /\ Cardinality(S) \in G
  BY <1>1, <1>5
<1> QED
  BY <1>6 DEF Unfolds

\* Sums over a smaller set say the same of its subsets.
LEMMA SumsAgree ==
  ASSUME NEW S, NEW T \in SUBSET S, IsFiniteSet(T), NEW f, NEW it, NEW jt,
         Unfolds(it, f, S), Unfolds(jt, f, T)
  PROVE  it[T] = jt[T]
<1> DEFINE G == {U \in SUBSET T : it[U] = jt[U]}
<1>1. ASSUME NEW U \in SUBSET T, \A V \in SUBSET U : V # U => V \in G
      PROVE  U \in G
  <2>1. it[U] = Unfolded(it, f, U) /\ jt[U] = Unfolded(jt, f, U)
    BY DEF Unfolds
  <2>2. CASE U = {}
    BY <2>1, <2>2 DEF Unfolded
  <2>3. CASE U # {}
    <3>1. U \ {Picked(U)} \in SUBSET U /\ U \ {Picked(U)} # U
      BY <2>3 DEF Picked
    <3>2. it[U \ {Picked(U)}] = jt[U \ {Picked(U)}]
      BY <1>1, <3>1
    <3> QED
      BY <2>1, <2>3, <3>2 DEF Unfolded
  <2> QED
    BY <2>2, <2>3
<1>2. G \in SUBSET (SUBSET T)
  OBVIOUS
<1>3. T \in G
  <2> HIDE DEF G
  <2> QED
    BY <1>1, <1>2, StrongInduction
<1> QED
  BY <1>3

\* SumFunctionOnSet is one of those sums.
LEMMA SumUnfolds ==
  ASSUME NEW S, IsFiniteSet(S), NEW f
  PROVE  \E it : Unfolds(it, f, S) /\ SumFunctionOnSet(f, S) = it[S]
<1>1. SumFunctionOnSet(f, S) = (CHOOSE it : Unfolds(it, f, S))[S]
  BY Zenon DEF SumFunctionOnSet, FoldFunctionOnSet, MapThenFoldSet, Unfolds, Unfolded, Picked
<1> QED
  BY <1>1, SumsExist

\* The sum over nothing, and one step of any other.
LEMMA SumStep ==
  ASSUME NEW S, IsFiniteSet(S), NEW f
  PROVE  SumFunctionOnSet(f, S) =
           IF S = {} THEN 0 ELSE f[Picked(S)] + SumFunctionOnSet(f, S \ {Picked(S)})
<1>1. PICK it : Unfolds(it, f, S) /\ SumFunctionOnSet(f, S) = it[S]
  BY SumUnfolds
<1>2. it[S] = Unfolded(it, f, S)
  BY <1>1 DEF Unfolds
<1>3. CASE S = {}
  BY <1>1, <1>2, <1>3 DEF Unfolded
<1>4. CASE S # {}
  <2> DEFINE T == S \ {Picked(S)}
  <2>1. IsFiniteSet(T) /\ T \in SUBSET S
    BY FS_Subset
  <2>2. PICK jt : Unfolds(jt, f, T) /\ SumFunctionOnSet(f, T) = jt[T]
    BY <2>1, SumUnfolds
  <2>3. it[T] = jt[T]
    BY <1>1, <2>1, <2>2, SumsAgree
  <2> QED
    BY <1>1, <1>2, <1>4, <2>2, <2>3 DEF Unfolded
<1> QED
  BY <1>3, <1>4

\* Whatever the fold picks first, any element can be taken out of a sum.
LEMMA SumTake ==
  ASSUME NEW S, IsFiniteSet(S), NEW f, \A x \in S : f[x] \in Nat
  PROVE  /\ SumFunctionOnSet(f, S) \in Nat
         /\ \A x \in S : SumFunctionOnSet(f, S) = f[x] + SumFunctionOnSet(f, S \ {x})
<1> DEFINE Sum(T) == SumFunctionOnSet(f, T)
           G == {T \in SUBSET S : Sum(T) \in Nat /\ \A x \in T : Sum(T) = f[x] + Sum(T \ {x})}
<1>1. \A T \in SUBSET S : IsFiniteSet(T)
  BY FS_Subset
<1>2. \A T \in SUBSET S :
        Sum(T) = IF T = {} THEN 0 ELSE f[Picked(T)] + Sum(T \ {Picked(T)})
  BY <1>1, SumStep
<1> HIDE DEF Sum
<1>3. ASSUME NEW T \in SUBSET S, \A U \in SUBSET T : U # T => U \in G
      PROVE  T \in G
  <2>1. CASE T = {}
    <3>1. Sum(T) = 0
      BY <1>2, <2>1
    <3> QED
      BY <2>1, <3>1
  <2>2. CASE T # {}
    <3> DEFINE p == Picked(T)
    <3>1. p \in T /\ Sum(T) = f[p] + Sum(T \ {p})
      BY <1>2, <2>2 DEF Picked
    <3> HIDE DEF p
    <3>2. T \ {p} \in G
      BY <1>3, <3>1
    <3>3. Sum(T) \in Nat
      BY <3>1, <3>2
    <3>4. ASSUME NEW x \in T, x # p PROVE Sum(T) = f[x] + Sum(T \ {x})
      <4>1. (T \ {p}) \ {x} = (T \ {x}) \ {p}
        OBVIOUS
      <4>2. Sum(T \ {p}) = f[x] + Sum((T \ {p}) \ {x})
        BY <3>2, <3>4
      <4>3. T \ {x} \in G /\ p \in T \ {x}
        BY <1>3, <3>1, <3>4
      <4>4. Sum(T \ {x}) = f[p] + Sum((T \ {x}) \ {p})
        BY <4>3
      <4>5. (T \ {p}) \ {x} \in G
        <5>1. (T \ {p}) \ {x} \in SUBSET T /\ (T \ {p}) \ {x} # T
          BY <3>1
        <5> QED
          BY <1>3, <5>1
      <4>6. f[x] \in Nat /\ f[p] \in Nat /\ Sum((T \ {p}) \ {x}) \in Nat
        BY <3>1, <4>5
      <4> QED
        BY <3>1, <4>1, <4>2, <4>4, <4>6
    <3> QED
      BY <3>1, <3>3, <3>4
  <2> QED
    BY <2>1, <2>2
<1>4. S \in G
  <2>1. G \in SUBSET (SUBSET S)
    OBVIOUS
  <2> HIDE DEF G
  <2> QED
    BY <1>3, <2>1, StrongInduction
<1> QED
  BY <1>4 DEF Sum

\* A sum grows by the element that is added.
LEMMA SumAdd ==
  ASSUME NEW S, IsFiniteSet(S), NEW x, x \notin S, NEW f,
         f[x] \in Nat, \A y \in S : f[y] \in Nat
  PROVE  SumFunctionOnSet(f, S \cup {x}) = f[x] + SumFunctionOnSet(f, S)
<1>1. IsFiniteSet(S \cup {x}) /\ (S \cup {x}) \ {x} = S
  BY FS_AddElement
<1> QED
  BY <1>1, SumTake

\* Nothing adds up to nothing.
LEMMA SumEmpty == ASSUME NEW f PROVE SumFunctionOnSet(f, {}) = 0
  BY FS_EmptySet, SumStep

\* Greater summands make no smaller sum.
LEMMA SumMonotone ==
  ASSUME NEW S, IsFiniteSet(S), NEW f, NEW g,
         \A x \in S : f[x] \in Nat /\ g[x] \in Nat /\ f[x] <= g[x]
  PROVE  SumFunctionOnSet(f, S) <= SumFunctionOnSet(g, S)
<1> DEFINE F(T) == SumFunctionOnSet(f, T)
           H(T) == SumFunctionOnSet(g, T)
           G == {T \in SUBSET S : F(T) \in Nat /\ H(T) \in Nat /\ F(T) <= H(T)}
<1>1. {} \in G
  BY SumEmpty
<1>2. ASSUME NEW T \in G, NEW x \in S, x \notin T PROVE T \cup {x} \in G
  <2>1. IsFiniteSet(T)
    BY FS_Subset
  <2>2. F(T \cup {x}) = f[x] + F(T) /\ H(T \cup {x}) = g[x] + H(T)
    BY <1>2, <2>1, SumAdd
  <2> HIDE DEF F, H
  <2> QED
    BY <2>2
<1>3. S \in G
  <2>1. G \in SUBSET (SUBSET S)
    OBVIOUS
  <2> HIDE DEF G
  <2> QED
    BY <1>1, <1>2, <2>1, FiniteInduction
<1> QED
  BY <1>3

\* Counted class by class, every element is counted once.
LEMMA SumOfCounts ==
  ASSUME NEW X, IsFiniteSet(X), NEW I, IsFiniteSet(I), NEW g \in [X -> I],
         NEW h, \A i \in I : h[i] = Cardinality({x \in X : g[x] = i})
  PROVE  SumFunctionOnSet(h, I) = Cardinality(X)
<1> DEFINE Sum(T) == SumFunctionOnSet(h, T)
           In(T) == {x \in X : g[x] \in T}
           G == {T \in SUBSET I : Sum(T) = Cardinality(In(T))}
<1>1. \A i \in I : h[i] \in Nat
  <2> SUFFICES ASSUME NEW i \in I PROVE Cardinality({x \in X : g[x] = i}) \in Nat
    OBVIOUS
  <2> QED
    BY FS_Subset, FS_CardinalityType
<1>2. {} \in G
  <2>1. In({}) = {}
    OBVIOUS
  <2> QED
    BY <2>1, SumEmpty, FS_EmptySet
<1>3. ASSUME NEW T \in G, NEW i \in I, i \notin T PROVE T \cup {i} \in G
  <2> DEFINE New == {x \in X : g[x] = i}
  <2>1. IsFiniteSet(T)
    BY FS_Subset
  <2>2. Sum(T \cup {i}) = h[i] + Sum(T)
    BY <1>1, <1>3, <2>1, SumAdd
  <2>3. In(T \cup {i}) = In(T) \cup New /\ In(T) \cap New = {}
    BY <1>3
  <2>4. IsFiniteSet(In(T)) /\ IsFiniteSet(New)
    BY FS_Subset
  <2>5. Cardinality(In(T)) \in Nat /\ Cardinality(New) \in Nat
    BY <2>4, FS_CardinalityType
  <2>6. Cardinality(In(T) \cup New) = Cardinality(In(T)) + Cardinality(New) - Cardinality({})
    BY <2>3, <2>4, FS_Union
  <2>7. Cardinality({}) = 0
    BY FS_EmptySet
  <2>8. h[i] = Cardinality(New) /\ Sum(T) = Cardinality(In(T))
    OBVIOUS
  <2>9. Cardinality(In(T \cup {i})) = Cardinality(In(T)) + Cardinality(New)
    <3>1. Cardinality(In(T \cup {i})) = Cardinality(In(T) \cup New)
      BY <2>3
    <3> HIDE DEF In, New
    <3> QED
      BY <2>5, <2>6, <2>7, <3>1
  <2>10. Sum(T \cup {i}) = Cardinality(In(T \cup {i}))
    <3> HIDE DEF Sum, In, New
    <3> QED
      BY <2>2, <2>5, <2>8, <2>9
  <2> QED
    BY <2>10
<1>4. I \in G
  <2>1. G \in SUBSET (SUBSET I)
    OBVIOUS
  <2> HIDE DEF G
  <2> QED
    BY <1>2, <1>3, <2>1, FiniteInduction
<1>5. In(I) = X
  OBVIOUS
<1> QED
  BY <1>4, <1>5

-----------------------------------------------------------------------------
(* Sorted sequences *)

\* s lists S, every element once.
Lists(s, S) ==
  /\ Cardinality(S) \in Nat
  /\ s \in [1..Cardinality(S) -> S]
  /\ \A i, j \in 1..Cardinality(S) : s[i] = s[j] => i = j
  /\ \A x \in S : \E i \in 1..Cardinality(S) : s[i] = x

\* Distinct entries, as many as the set has elements, are all of them.
LEMMA Enumeration ==
  ASSUME NEW S, IsFiniteSet(S), NEW s \in [1..Cardinality(S) -> S],
         \A i, j \in DOMAIN s : i < j => s[i] # s[j]
  PROVE  Lists(s, S)
<1> DEFINE N == Cardinality(S)
<1>1. N \in Nat
  BY FS_CardinalityType
<1> HIDE DEF N
<1>2. \A i, j \in 1..N : s[i] = s[j] => i = j
  BY <1>1 DEF N
<1>3. s \in Injection(1..N, S)
  BY <1>2, Fun_IsInj DEF N
<1>4. Cardinality(1..N) = N
  BY <1>1, FS_Interval
<1>5. s \in Surjection(1..N, S)
  BY <1>3, <1>4, FS_Injection DEF N
<1> QED
  BY <1>1, <1>2, <1>5, Fun_SurjectionProperties DEF N, Lists

\* No more places than values, if no value is taken twice.
LEMMA Pigeons ==
  ASSUME NEW n \in Nat, NEW m \in Nat, NEW f, \A i \in 1..n : f[i] \in 1..m,
         \A i, j \in 1..n : f[i] = f[j] => i = j
  PROVE  n <= m
<1> SUFFICES ASSUME m < n PROVE FALSE
  OBVIOUS
<1> DEFINE g == [i \in 1..n |-> f[i]]
<1>1. IsFiniteSet(1..n) /\ Cardinality(1..n) = n
  BY FS_Interval
<1>2. IsFiniteSet(1..m) /\ Cardinality(1..m) = m
  BY FS_Interval
<1>3. Cardinality(1..m) < Cardinality(1..n)
  BY <1>1, <1>2
<1>4. g \in [1..n -> 1..m]
  OBVIOUS
<1>5. \E x, y \in 1..n : x # y /\ g[x] = g[y]
  <2> HIDE DEF g
  <2> QED
    BY <1>1, <1>2, <1>3, <1>4, FS_PigeonHole
<1> QED
  BY <1>5

\* Two descending sequences, one a rearrangement of part of the other: place by
\* place the part is the lower one.
LEMMA DescendingBelow ==
  ASSUME NEW N \in Nat, NEW M \in Nat,
         NEW a \in [1..N -> Int], NEW b \in [1..M -> Int],
         \A i, j \in 1..N : i < j => a[i] >= a[j],
         \A i, j \in 1..M : i < j => b[i] >= b[j],
         NEW h \in [1..N -> 1..M], \A i, j \in 1..N : h[i] = h[j] => i = j,
         \A i \in 1..N : a[i] = b[h[i]],
         NEW k \in 1..N
  PROVE  k \in 1..M /\ a[k] <= b[k]
<1>1. k \in Nat /\ k - 1 \in Nat /\ k - 1 < k
  OBVIOUS
<1>2. k \in 1..M
  <2> SUFFICES ASSUME M < k PROVE FALSE
    OBVIOUS
  <2>1. \A i \in 1..k : h[i] \in 1..M
    OBVIOUS
  <2>2. \A i, j \in 1..k : h[i] = h[j] => i = j
    OBVIOUS
  <2>3. k <= M
    BY <1>1, <2>1, <2>2, Pigeons
  <2> QED
    BY <2>3
<1>3. a[k] <= b[k]
  <2> SUFFICES ASSUME b[k] < a[k] PROVE FALSE
    BY <1>2
  <2>1. ASSUME NEW i \in 1..k PROVE h[i] \in 1..(k - 1)
    <3>1. i \in 1..N /\ h[i] \in 1..M /\ a[i] \in Int /\ a[k] \in Int /\ b[k] \in Int
      BY <1>2
    <3>2. a[i] >= a[k]
      BY <3>1
    <3>3. b[h[i]] > b[k]
      BY <3>1, <3>2
    <3>4. h[i] # k
      BY <3>1, <3>3
    <3>5. ~ (k < h[i])
      BY <1>2, <3>1, <3>3
    <3> QED
      BY <3>1, <3>4, <3>5
  <2>2. \A i, j \in 1..k : h[i] = h[j] => i = j
    OBVIOUS
  <2>3. k <= k - 1
    BY <1>1, <2>1, <2>2, Pigeons
  <2> QED
    BY <1>1, <2>3
<1> QED
  BY <1>2, <1>3

Descends(a, N) == a \in [1..N -> Int] /\ \A i, j \in 1..N : i < j => a[i] >= a[j]

Embeds(h, a, N, b, M) ==
  /\ h \in [1..N -> 1..M]
  /\ \A i, j \in 1..N : h[i] = h[j] => i = j
  /\ \A i \in 1..N : a[i] = b[h[i]]

\* DescendingBelow, for every place at once.
LEMMA EmbeddedBelow ==
  ASSUME NEW N \in Nat, NEW M \in Nat, NEW a, Descends(a, N), NEW b, Descends(b, M),
         NEW h, Embeds(h, a, N, b, M)
  PROVE  \A k \in 1..N : k \in 1..M /\ a[k] <= b[k]
BY DescendingBelow, Zenon DEF Descends, Embeds
=============================================================================

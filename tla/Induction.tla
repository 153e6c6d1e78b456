------------------------------ MODULE Induction ------------------------------
(***************************************************************************)
(* Facts by induction that the proofs about the components need: the       *)
(* greatest element of a set of numbers, what a function defined by        *)
(* recursion along 1..n computes, and what a sum over a finite set is.     *)
(*                                                                         *)
(* Induction is stated over sets, whose elements are those for which the   *)
(* statement holds: it then follows from the fact that every set of        *)
(* natural numbers has a least element.                                    *)
(***************************************************************************)
EXTENDS Integers, FiniteSets, Sequences, Functions, FiniteSetTheorems,
        WellFoundedInduction, TLAPS

\* A set that holds 0 and the successors of its elements is Nat.
LEMMA SetInduction ==
  ASSUME NEW S \in SUBSET Nat, 0 \in S, \A n \in S : n + 1 \in S
  PROVE  S = Nat
<1> DEFINE T == Nat \ S
<1>1. SUFFICES ASSUME T # {} PROVE FALSE
  OBVIOUS
<1>2. IsWellFoundedOn(OpToRel(<, Nat), Nat)
  BY NatLessThanWellFounded
<1>3. PICK x \in T : \A y \in T : ~ (<<y, x>> \in OpToRel(<, Nat))
  BY <1>1, <1>2, WFMin
<1>4. x # 0 /\ x - 1 \in Nat
  OBVIOUS
<1>5. <<x - 1, x>> \in OpToRel(<, Nat)
  BY <1>4 DEF OpToRel
<1>6. x - 1 \in S
  BY <1>3, <1>4, <1>5
<1>7. x \in S
  BY <1>6
<1> QED BY <1>7

\* A non-empty set of numbers has a least element.
LEMMA Least ==
  ASSUME NEW S \in SUBSET Nat, S # {}
  PROVE  \E m \in S : \A k \in S : m <= k
<1>1. IsWellFoundedOn(OpToRel(<, Nat), Nat)
  BY NatLessThanWellFounded
<1>2. PICK m \in S : \A k \in S : ~ (<<k, m>> \in OpToRel(<, Nat))
  BY <1>1, WFMin
<1>3. \A k \in S : ~ (k < m)
  BY <1>2 DEF OpToRel
<1> QED BY <1>3

\* A non-empty set of numbers up to n has a greatest element.
LEMMA Greatest ==
  ASSUME NEW n \in Nat, NEW S \in SUBSET (0..n), S # {}
  PROVE  \E m \in S : \A k \in S : k <= m
<1> DEFINE Holds == {m \in Nat : \A T \in SUBSET (0..m) : T # {} => \E x \in T : \A k \in T : k <= x}
<1>1. 0 \in Holds
  <2>1. \A k \in 0..0 : k = 0
    OBVIOUS
  <2>2. ASSUME NEW T \in SUBSET (0..0), T # {} PROVE 0 \in T /\ \A k \in T : k <= 0
    <3>1. PICK k \in T : TRUE
      BY <2>2
    <3>2. \A j \in T : j = 0
      BY <2>1
    <3> QED BY <3>1, <3>2
  <2> QED BY <2>2
<1>2. ASSUME NEW m \in Holds PROVE m + 1 \in Holds
  <2>1. SUFFICES ASSUME NEW T \in SUBSET (0..m + 1), T # {}
                 PROVE  \E x \in T : \A k \in T : k <= x
    OBVIOUS
  <2>2. CASE m + 1 \in T
    BY <2>2
  <2>3. CASE m + 1 \notin T
    <3>1. T \in SUBSET (0..m)
      BY <2>3
    <3> QED BY <2>1, <3>1
  <2> QED BY <2>2, <2>3
<1> HIDE DEF Holds
<1>3. Holds = Nat
  BY <1>1, <1>2, SetInduction DEF Holds
<1> QED BY <1>3 DEF Holds

-----------------------------------------------------------------------------
(* Recursion along 1..n                                                     *)

\* f begins with base and takes step[i] at i.
Recurs(f, n, base, step) ==
  f = [i \in 0..n |-> IF i = 0 THEN base ELSE step[i][f[i - 1]]]

\* There is such a function.
LEMMA RecursionExists ==
  ASSUME NEW n \in Nat, NEW V, NEW base \in V, NEW step \in [1..n -> [V -> V]]
  PROVE  \E f \in [0..n -> V] : Recurs(f, n, base, step)
<1> DEFINE Upto(f, m) == \A i \in 0..m : f[i] = IF i = 0 THEN base ELSE step[i][f[i - 1]]
<1> DEFINE Holds == {m \in Nat : m <= n => \E f \in [0..m -> V] : Upto(f, m)}
<1>1. 0 \in Holds
  <2>1. Upto([i \in 0..0 |-> base], 0)
    OBVIOUS
  <2>2. [i \in 0..0 |-> base] \in [0..0 -> V]
    OBVIOUS
  <2> QED BY <2>1, <2>2
<1>2. ASSUME NEW m \in Holds PROVE m + 1 \in Holds
  <2>1. SUFFICES ASSUME m + 1 <= n PROVE \E f \in [0..m + 1 -> V] : Upto(f, m + 1)
    OBVIOUS
  <2>2. PICK g \in [0..m -> V] : Upto(g, m)
    BY <2>1
  <2> DEFINE h == [i \in 0..m + 1 |-> IF i = m + 1 THEN step[m + 1][g[m]] ELSE g[i]]
  <2>3. step[m + 1][g[m]] \in V
    BY <2>1
  <2>4. h \in [0..m + 1 -> V]
    BY <2>3
  <2>5. ASSUME NEW i \in 0..m + 1
        PROVE  h[i] = IF i = 0 THEN base ELSE step[i][h[i - 1]]
    <3>1. CASE i = m + 1
      <4>1. h[i - 1] = g[m] /\ i # 0
        BY <3>1
      <4> QED BY <3>1, <4>1
    <3>2. CASE i # m + 1
      <4>1. i \in 0..m /\ h[i] = g[i]
        BY <3>2
      <4>2. i # 0 => h[i - 1] = g[i - 1]
        BY <4>1
      <4> QED BY <2>2, <4>1, <4>2
    <3> QED BY <3>1, <3>2
  <2> QED BY <2>4, <2>5
<1> HIDE DEF Holds
<1>3. n \in Holds
  BY <1>1, <1>2, SetInduction DEF Holds
<1>4. PICK f \in [0..n -> V] : Upto(f, n)
  BY <1>3 DEF Holds
<1>5. f = [i \in 0..n |-> IF i = 0 THEN base ELSE step[i][f[i - 1]]]
  BY <1>4
<1> QED BY <1>5 DEF Recurs

\* What holds at 0 and is handed on from i - 1 to i holds along 0..n.
LEMMA AlongInduction ==
  ASSUME NEW n \in Nat, NEW S, 0 \in S, \A i \in 1..n : i - 1 \in S => i \in S
  PROVE  \A i \in 0..n : i \in S
<1> DEFINE Holds == {m \in Nat : m <= n => m \in S}
<1>1. 0 \in Holds
  OBVIOUS
<1>2. ASSUME NEW m \in Holds PROVE m + 1 \in Holds
  <2>1. m + 1 <= n => m + 1 \in 1..n /\ (m + 1) - 1 = m /\ m \in S
    OBVIOUS
  <2> QED BY <2>1
<1> HIDE DEF Holds
<1>3. Holds = Nat
  BY <1>1, <1>2, SetInduction DEF Holds
<1> QED BY <1>3 DEF Holds

-----------------------------------------------------------------------------
(* Finite sets                                                               *)

\* P holds the empty set, and a set when it holds those with one element less.
Inherits(P, U) ==
  /\ P \subseteq SUBSET U /\ {} \in P
  /\ \A T \in SUBSET U : T # {} /\ (\A x \in T : T \ {x} \in P) => T \in P

\* Such a P holds every subset of a finite U.
LEMMA SubsetInduction ==
  ASSUME NEW U, IsFiniteSet(U), NEW P, Inherits(P, U)
  PROVE  P = SUBSET U
<1> DEFINE Holds == {k \in Nat : \A T \in SUBSET U : Cardinality(T) = k => T \in P}
<1>1. \A T \in SUBSET U : IsFiniteSet(T) /\ Cardinality(T) \in Nat
  BY FS_Subset, FS_CardinalityType
<1>2. 0 \in Holds
  BY <1>1, FS_EmptySet DEF Inherits
<1>3. ASSUME NEW k \in Holds PROVE k + 1 \in Holds
  <2>1. SUFFICES ASSUME NEW T \in SUBSET U, Cardinality(T) = k + 1 PROVE T \in P
    OBVIOUS
  <2>2. T # {}
    <3>1. Cardinality({}) = 0
      BY FS_EmptySet
    <3> QED BY <2>1, <3>1
  <2>3. ASSUME NEW x \in T PROVE T \ {x} \in P
    <3>1. Cardinality(T \ {x}) = k
      BY <1>1, <2>1, FS_RemoveElement
    <3> QED BY <3>1
  <2> QED BY <2>2, <2>3 DEF Inherits
<1> HIDE DEF Holds
<1>4. Holds = Nat
  BY <1>2, <1>3, SetInduction DEF Holds
<1> QED BY <1>1, <1>4 DEF Holds, Inherits

-----------------------------------------------------------------------------
(* Folds over finite sets: MapThenFoldSet of the community modules           *)

\* h begins with base and takes step[x] at the element x picked from a set.
Folds(h, S, base, step, pick) ==
  \A s \in SUBSET S : h[s] = IF s = {} THEN base ELSE step[pick[s]][h[s \ {pick[s]}]]

Small(S, k) == {s \in SUBSET S : Cardinality(s) <= k}

\* There is such a function, whose values stay in V when the steps do.
LEMMA FoldExists ==
  ASSUME NEW S, NEW V, NEW base \in V, NEW step, NEW pick, IsFiniteSet(S),
         \A s \in SUBSET S : s # {} => pick[s] \in s,
         \A x \in S : \A v \in V : step[x][v] \in V
  PROVE  \E h \in [SUBSET S -> V] : Folds(h, S, base, step, pick)
<1> DEFINE Right(h, k) ==
      \A s \in Small(S, k) : h[s] = IF s = {} THEN base ELSE step[pick[s]][h[s \ {pick[s]}]]
<1> DEFINE Holds == {k \in Nat : \E h \in [Small(S, k) -> V] : Right(h, k)}
<1>1. \A s \in SUBSET S : IsFiniteSet(s) /\ Cardinality(s) \in Nat
  BY FS_Subset, FS_CardinalityType
<1>2. \A s \in SUBSET S : s # {} => Cardinality(s \ {pick[s]}) = Cardinality(s) - 1
  BY <1>1, FS_RemoveElement
<1>3. 0 \in Holds
  <2>1. \A s \in Small(S, 0) : s = {}
    BY <1>1, FS_EmptySet DEF Small
  <2>2. [s \in Small(S, 0) |-> base] \in [Small(S, 0) -> V] /\ Right([s \in Small(S, 0) |-> base], 0)
    BY <2>1
  <2> QED BY <2>2
<1>4. ASSUME NEW k \in Holds PROVE k + 1 \in Holds
  <2>1. PICK g \in [Small(S, k) -> V] : Right(g, k)
    OBVIOUS
  <2> DEFINE h == [s \in Small(S, k + 1) |->
                     IF s = {} THEN base ELSE step[pick[s]][g[s \ {pick[s]}]]]
  <2>2. ASSUME NEW s \in Small(S, k + 1), s # {}
        PROVE  s \ {pick[s]} \in Small(S, k) \cap Small(S, k + 1)
    BY <1>1, <1>2, <2>2 DEF Small
  <2>3. h \in [Small(S, k + 1) -> V]
    <3>1. ASSUME NEW s \in Small(S, k + 1), s # {} PROVE step[pick[s]][g[s \ {pick[s]}]] \in V
      <4>1. pick[s] \in S
        BY <3>1 DEF Small
      <4>2. g[s \ {pick[s]}] \in V
        BY <2>2, <3>1
      <4> QED BY <4>1, <4>2
    <3> QED BY <3>1
  <2>4. \A s \in Small(S, k) : s \in Small(S, k + 1) /\ h[s] = g[s]
    <3>1. \A s \in Small(S, k) : s \in Small(S, k + 1)
      BY <1>1 DEF Small
    <3> QED BY <2>1, <3>1
  <2>5. Right(h, k + 1)
    <3>1. SUFFICES ASSUME NEW s \in Small(S, k + 1), s # {}
                   PROVE  h[s] = step[pick[s]][h[s \ {pick[s]}]]
      OBVIOUS
    <3>2. h[s \ {pick[s]}] = g[s \ {pick[s]}]
      BY <2>2, <2>4, <3>1
    <3> QED BY <3>1, <3>2
  <2>6. \E j \in [Small(S, k + 1) -> V] : Right(j, k + 1)
    <3> HIDE DEF h, Right
    <3> QED BY <2>3, <2>5
  <2>7. k + 1 \in Nat
    OBVIOUS
  <2> HIDE DEF h, Right
  <2> QED BY <2>6, <2>7
<1> HIDE DEF Holds
<1>5. Holds = Nat
  <2>1. Holds \in SUBSET Nat
    BY DEF Holds
  <2> QED BY <1>3, <1>4, <2>1, SetInduction
<1>6. Small(S, Cardinality(S)) = SUBSET S
  BY <1>1, FS_Subset DEF Small
<1>7. PICK h \in [SUBSET S -> V] : Right(h, Cardinality(S))
  BY <1>1, <1>5, <1>6 DEF Holds
<1> QED BY <1>6, <1>7 DEF Folds

-----------------------------------------------------------------------------
(* Sums over finite sets: SumFunctionOnSet of the community modules          *)

Pick(s) == CHOOSE x \in s : TRUE

\* f gives a number to each element of S.
Weighs(f, S) == \A x \in S : f[x] \in Nat

\* h is the recursive function that the sum of f over S is defined by.
Sums(h, f, S) ==
  h = [s \in SUBSET S |-> IF s = {} THEN 0 ELSE f[Pick(s)] + h[s \ {Pick(s)}]]

LEMMA SumIsChosen ==
  ASSUME NEW f, NEW S
  PROVE  SumFunctionOnSet(f, S) = (CHOOSE h : Sums(h, f, S))[S]
BY DEF SumFunctionOnSet, FoldFunctionOnSet, MapThenFoldSet, Sums, Pick

\* There is such a function.
LEMMA SumsExists ==
  ASSUME NEW f, NEW S, IsFiniteSet(S), Weighs(f, S)
  PROVE  \E h \in [SUBSET S -> Nat] : Sums(h, f, S)
<1> DEFINE pick == [s \in SUBSET S |-> Pick(s)]
<1> DEFINE step == [x \in S |-> [v \in Nat |-> f[x] + v]]
<1>1. \A s \in SUBSET S : s # {} => pick[s] \in s /\ pick[s] = Pick(s)
  BY DEF Pick
<1>2. \A x \in S : \A v \in Nat : step[x][v] \in Nat
  BY DEF Weighs
<1> HIDE DEF pick
<1>3. PICK h \in [SUBSET S -> Nat] : Folds(h, S, 0, step, pick)
  <2> HIDE DEF step
  <2> QED BY <1>1, <1>2, FoldExists
<1>4. ASSUME NEW s \in SUBSET S, s # {}
      PROVE  h[s] = f[Pick(s)] + h[s \ {Pick(s)}]
  BY <1>1, <1>3, <1>4 DEF Folds
<1>5. h = [s \in SUBSET S |-> IF s = {} THEN 0 ELSE f[Pick(s)] + h[s \ {Pick(s)}]]
  <2>1. h[{}] = 0
    BY <1>3 DEF Folds
  <2> QED BY <1>4, <2>1
<1> QED BY <1>5 DEF Sums

\* Two such functions agree on the sets they have in common.
LEMMA SumsAgree ==
  ASSUME NEW f, NEW g, NEW S, NEW T, NEW h, NEW j, IsFiniteSet(S), T \subseteq S,
         \A x \in T : f[x] = g[x], Sums(h, f, S), Sums(j, g, T)
  PROVE  \A s \in SUBSET T : h[s] = j[s]
<1> DEFINE P == {s \in SUBSET T : h[s] = j[s]}
<1>0. IsFiniteSet(T)
  BY FS_Subset
<1>1. {} \in P
  BY DEF Sums
<1>2. ASSUME NEW s \in SUBSET T, s # {}, \A x \in s : s \ {x} \in P
      PROVE  s \in P
  <2>1. Pick(s) \in s
    BY <1>2 DEF Pick
  <2>2. h[s] = f[Pick(s)] + h[s \ {Pick(s)}] /\ j[s] = g[Pick(s)] + j[s \ {Pick(s)}]
    BY <1>2 DEF Sums
  <2>3. h[s \ {Pick(s)}] = j[s \ {Pick(s)}]
    BY <1>2, <2>1
  <2> QED BY <2>1, <2>2, <2>3
<1> HIDE DEF P
<1>3. Inherits(P, T)
  BY <1>1, <1>2 DEF P, Inherits
<1>4. P = SUBSET T
  BY <1>0, <1>3, SubsetInduction
<1> QED BY <1>4 DEF P

\* The sum is what such a function gives.
LEMMA SumIsGiven ==
  ASSUME NEW f, NEW g, NEW S, NEW T, NEW h, IsFiniteSet(S), T \subseteq S,
         Weighs(f, T), \A x \in T : f[x] = g[x], Sums(h, f, S)
  PROVE  SumFunctionOnSet(g, T) = h[T]
<1> DEFINE j == CHOOSE k : Sums(k, g, T)
<1>1. IsFiniteSet(T) /\ Weighs(g, T)
  BY FS_Subset DEF Weighs
<1>2. Sums(j, g, T)
  BY <1>1, SumsExists
<1> HIDE DEF j
<1>3. h[T] = j[T]
  BY <1>2, SumsAgree
<1> QED BY <1>3, SumIsChosen DEF j

\* The order of the elements does not matter.
LEMMA SumsRemove ==
  ASSUME NEW f, NEW S, NEW h, h \in [SUBSET S -> Nat], IsFiniteSet(S),
         Weighs(f, S), Sums(h, f, S), NEW z \in S
  PROVE  h[S] = f[z] + h[S \ {z}]
<1> DEFINE P == {s \in SUBSET S : \A x \in s : h[s] = f[x] + h[s \ {x}]}
<1>1. {} \in P
  OBVIOUS
<1>2. ASSUME NEW s \in SUBSET S, s # {}, \A x \in s : s \ {x} \in P
      PROVE  s \in P
  <2> DEFINE y == Pick(s)
  <2>1. y \in s
    BY <1>2 DEF Pick
  <2>2. h[s] = f[y] + h[s \ {y}]
    BY <1>2 DEF Sums
  <2> HIDE DEF y
  <2>3. ASSUME NEW x \in s, x # y PROVE h[s] = f[x] + h[s \ {x}]
    <3>1. h[s \ {y}] = f[x] + h[(s \ {y}) \ {x}]
      BY <1>2, <2>1, <2>3
    <3>2. h[s \ {x}] = f[y] + h[(s \ {x}) \ {y}]
      BY <1>2, <2>1, <2>3
    <3>3. (s \ {y}) \ {x} = (s \ {x}) \ {y}
      OBVIOUS
    <3> DEFINE r == h[(s \ {y}) \ {x}]
    <3>4. f[x] \in Nat /\ f[y] \in Nat /\ r \in Nat
      BY <2>1 DEF Weighs
    <3>5. h[s] = f[y] + (f[x] + r)
      BY <2>2, <3>1
    <3>6. h[s \ {x}] = f[y] + r
      BY <3>2, <3>3
    <3> HIDE DEF r
    <3>7. f[y] + (f[x] + r) = f[x] + (f[y] + r)
      BY <3>4
    <3> QED BY <3>5, <3>6, <3>7
  <2> QED BY <2>2, <2>3
<1> HIDE DEF P
<1>3. Inherits(P, S)
  BY <1>1, <1>2 DEF P, Inherits
<1>4. P = SUBSET S
  BY <1>3, SubsetInduction
<1>5. S \in P
  BY <1>4
<1> QED BY <1>5 DEF P

\* The sum over a finite set: of nothing, its type, one element, and that it
\* depends on the values in the set alone.
LEMMA SumOfNothing ==
  ASSUME NEW f
  PROVE  SumFunctionOnSet(f, {}) = 0
<1>0. IsFiniteSet({}) /\ Weighs(f, {})
  BY FS_EmptySet DEF Weighs
<1>1. PICK h \in [SUBSET {} -> Nat] : Sums(h, f, {})
  BY <1>0, SumsExists
<1>2. h[{}] = 0
  BY <1>1 DEF Sums
<1> QED BY <1>0, <1>1, <1>2, SumIsGiven

LEMMA SumType ==
  ASSUME NEW f, NEW S, IsFiniteSet(S), Weighs(f, S)
  PROVE  SumFunctionOnSet(f, S) \in Nat
<1>1. PICK h \in [SUBSET S -> Nat] : Sums(h, f, S)
  BY SumsExists
<1>2. SumFunctionOnSet(f, S) = h[S]
  BY <1>1, SumIsGiven
<1> QED BY <1>2

LEMMA SumOfOneLess ==
  ASSUME NEW f, NEW S, NEW x \in S, IsFiniteSet(S), Weighs(f, S)
  PROVE  SumFunctionOnSet(f, S) = f[x] + SumFunctionOnSet(f, S \ {x})
<1>1. PICK h \in [SUBSET S -> Nat] : Sums(h, f, S)
  BY SumsExists
<1>2. SumFunctionOnSet(f, S) = h[S]
  BY <1>1, SumIsGiven
<1>3. SumFunctionOnSet(f, S \ {x}) = h[S \ {x}]
  <2>1. Weighs(f, S \ {x})
    BY DEF Weighs
  <2> QED BY <1>1, <2>1, SumIsGiven
<1>4. h[S] = f[x] + h[S \ {x}]
  BY <1>1, SumsRemove
<1> QED BY <1>2, <1>3, <1>4

LEMMA SumSame ==
  ASSUME NEW f, NEW g, NEW S, IsFiniteSet(S), Weighs(f, S), \A x \in S : f[x] = g[x]
  PROVE  SumFunctionOnSet(f, S) = SumFunctionOnSet(g, S)
<1>1. PICK h \in [SUBSET S -> Nat] : Sums(h, f, S)
  BY SumsExists
<1> QED BY <1>1, SumIsGiven

\* A subset sums to no more.
LEMMA SumOfSubset ==
  ASSUME NEW f, NEW S, NEW T \in SUBSET S, IsFiniteSet(S), Weighs(f, S)
  PROVE  SumFunctionOnSet(f, T) <= SumFunctionOnSet(f, S)
<1> DEFINE P == {U \in SUBSET S : SumFunctionOnSet(f, U \cap T) <= SumFunctionOnSet(f, U)}
<1>1. {} \in P
  BY SumOfNothing
<1>2. ASSUME NEW U \in SUBSET S, U # {}, \A x \in U : U \ {x} \in P
      PROVE  U \in P
  <2>1. PICK x \in U : TRUE
    BY <1>2
  <2>2. /\ IsFiniteSet(U) /\ IsFiniteSet(U \cap T)
        /\ IsFiniteSet((U \ {x}) \cap T) /\ IsFiniteSet(U \ {x})
    BY FS_Subset
  <2>3. /\ Weighs(f, U) /\ Weighs(f, U \cap T)
        /\ Weighs(f, (U \ {x}) \cap T) /\ Weighs(f, U \ {x})
    BY DEF Weighs
  <2>4. SumFunctionOnSet(f, U) = f[x] + SumFunctionOnSet(f, U \ {x})
    BY <2>2, <2>3, SumOfOneLess
  <2>5. x \in T => SumFunctionOnSet(f, U \cap T) = f[x] + SumFunctionOnSet(f, (U \ {x}) \cap T)
    <3>1. (U \cap T) \ {x} = (U \ {x}) \cap T
      OBVIOUS
    <3>2. SUFFICES ASSUME x \in U \cap T
                   PROVE  SumFunctionOnSet(f, U \cap T)
                            = f[x] + SumFunctionOnSet(f, (U \cap T) \ {x})
      BY <3>1
    <3> QED BY <2>2, <2>3, <3>2, SumOfOneLess
  <2>6. x \notin T => U \cap T = (U \ {x}) \cap T
    OBVIOUS
  <2>7. /\ f[x] \in Nat
        /\ SumFunctionOnSet(f, U \ {x}) \in Nat
        /\ SumFunctionOnSet(f, (U \ {x}) \cap T) \in Nat
    BY <2>2, <2>3, SumType DEF Weighs
  <2>8. SumFunctionOnSet(f, U \cap T) <= SumFunctionOnSet(f, U)
    <3>1. SumFunctionOnSet(f, (U \ {x}) \cap T) <= SumFunctionOnSet(f, U \ {x})
      BY <1>2
    <3> QED BY <2>4, <2>5, <2>6, <2>7, <3>1
  <2> QED BY <2>8
<1> HIDE DEF P
<1>3. Inherits(P, S)
  BY <1>1, <1>2 DEF P, Inherits
<1>4. P = SUBSET S
  BY <1>3, SubsetInduction
<1>5. S \in P /\ S \cap T = T
  BY <1>4
<1> QED BY <1>5 DEF P

LEMMA SumOfOne ==
  ASSUME NEW f, NEW x, f[x] \in Nat
  PROVE  SumFunctionOnSet(f, {x}) = f[x]
<1>1. IsFiniteSet({x}) /\ Weighs(f, {x}) /\ x \in {x} /\ {x} \ {x} = {}
  BY FS_Singleton DEF Weighs
<1>2. SumFunctionOnSet(f, {x}) = f[x] + SumFunctionOnSet(f, {x} \ {x})
  BY <1>1, SumOfOneLess
<1> QED BY <1>1, <1>2, SumOfNothing

LEMMA SumOfAnother ==
  ASSUME NEW f, NEW S, NEW T, NEW x \in S, S \ {x} = T, IsFiniteSet(S), Weighs(f, S)
  PROVE  SumFunctionOnSet(f, S) = f[x] + SumFunctionOnSet(f, T)
BY SumOfOneLess

\* Two sets together sum to no more than each on its own.
LEMMA SumOfUnion ==
  ASSUME NEW f, NEW S, NEW T, IsFiniteSet(S), IsFiniteSet(T), Weighs(f, S \cup T)
  PROVE  SumFunctionOnSet(f, S \cup T) <= SumFunctionOnSet(f, S) + SumFunctionOnSet(f, T)
<1> DEFINE P == {U \in SUBSET S :
                   SumFunctionOnSet(f, U \cup T) <= SumFunctionOnSet(f, U) + SumFunctionOnSet(f, T)}
<1>1. IsFiniteSet(T) /\ Weighs(f, T)
  BY DEF Weighs
<1>2. SumFunctionOnSet(f, T) \in Nat
  BY <1>1, SumType
<1>3. {} \in P
  <2>1. {} \cup T = T
    OBVIOUS
  <2> QED BY <1>2, <2>1, SumOfNothing
<1>4. ASSUME NEW U \in SUBSET S, U # {}, \A x \in U : U \ {x} \in P
      PROVE  U \in P
  <2>1. PICK x \in U : TRUE
    BY <1>4
  <2> DEFINE V == U \ {x}
  <2>2. /\ IsFiniteSet(U) /\ IsFiniteSet(V) /\ IsFiniteSet(V \cup T) /\ IsFiniteSet(U \cup T)
    <3>1. IsFiniteSet(U) /\ IsFiniteSet(V)
      BY FS_Subset
    <3> QED BY <3>1, FS_Union
  <2>3. Weighs(f, U) /\ Weighs(f, V) /\ Weighs(f, V \cup T) /\ Weighs(f, U \cup T)
    BY DEF Weighs
  <2>4. SumFunctionOnSet(f, U) = f[x] + SumFunctionOnSet(f, V)
    BY <2>2, <2>3, SumOfOneLess
  <2>5. SumFunctionOnSet(f, U \cup T) <= f[x] + SumFunctionOnSet(f, V \cup T)
    <3>0. SumFunctionOnSet(f, V \cup T) \in Nat /\ f[x] \in Nat
      BY <2>2, <2>3, SumType DEF Weighs
    <3>1. CASE x \in T
      <4>1. U \cup T = V \cup T
        BY <3>1
      <4>2. SumFunctionOnSet(f, U \cup T) = SumFunctionOnSet(f, V \cup T)
        BY <4>1
      <4> HIDE DEF V
      <4> QED BY <3>0, <4>2
    <3>2. CASE x \notin T
      <4>1. (U \cup T) \ {x} = V \cup T /\ x \in U \cup T
        BY <3>2
      <4> DEFINE W == U \cup T
      <4>3. x \in W /\ W \ {x} = V \cup T /\ IsFiniteSet(W) /\ Weighs(f, W)
        BY <2>2, <2>3, <4>1
      <4> HIDE DEF W, V
      <4>4. SumFunctionOnSet(f, W) = f[x] + SumFunctionOnSet(f, V \cup T)
        BY <4>3, SumOfAnother
      <4>2. SumFunctionOnSet(f, U \cup T) = f[x] + SumFunctionOnSet(f, V \cup T)
        BY <4>4 DEF W
      <4> HIDE DEF V
      <4> QED BY <3>0, <4>2
    <3> QED BY <3>1, <3>2
  <2>6. /\ f[x] \in Nat /\ SumFunctionOnSet(f, V) \in Nat
        /\ SumFunctionOnSet(f, V \cup T) \in Nat /\ SumFunctionOnSet(f, U \cup T) \in Nat
    BY <2>2, <2>3, SumType DEF Weighs
  <2>7. SumFunctionOnSet(f, V \cup T) <= SumFunctionOnSet(f, V) + SumFunctionOnSet(f, T)
    BY <1>4
  <2> HIDE DEF V
  <2> QED BY <1>2, <2>4, <2>5, <2>6, <2>7
<1> HIDE DEF P
<1>5. Inherits(P, S)
  BY <1>3, <1>4 DEF P, Inherits
<1>6. P = SUBSET S
  BY <1>5, SubsetInduction
<1>7. S \in P
  BY <1>6
<1> QED BY <1>7 DEF P

\* What each element is at most bounds the sum.
LEMMA SumIsBounded ==
  ASSUME NEW f, NEW S, NEW most \in Nat, IsFiniteSet(S), Weighs(f, S), \A x \in S : f[x] <= most
  PROVE  SumFunctionOnSet(f, S) <= Cardinality(S) * most
<1> DEFINE P == {U \in SUBSET S : SumFunctionOnSet(f, U) <= Cardinality(U) * most}
<1>1. {} \in P
  BY SumOfNothing, FS_EmptySet
<1>2. ASSUME NEW U \in SUBSET S, U # {}, \A x \in U : U \ {x} \in P
      PROVE  U \in P
  <2>1. PICK x \in U : TRUE
    BY <1>2
  <2> DEFINE V == U \ {x}
  <2>2. IsFiniteSet(U) /\ IsFiniteSet(V) /\ Weighs(f, U) /\ Weighs(f, V)
    BY FS_Subset DEF Weighs
  <2>3. /\ SumFunctionOnSet(f, U) = f[x] + SumFunctionOnSet(f, V)
        /\ f[x] \in Nat /\ f[x] <= most /\ SumFunctionOnSet(f, V) \in Nat
    <3>1. SumFunctionOnSet(f, U) = f[x] + SumFunctionOnSet(f, V)
      BY <2>2, SumOfOneLess
    <3>2. SumFunctionOnSet(f, V) \in Nat
      BY <2>2, SumType
    <3>3. f[x] \in Nat /\ f[x] <= most
      BY DEF Weighs
    <3> QED BY <3>1, <3>2, <3>3
  <2>4. Cardinality(U) = Cardinality(V) + 1 /\ Cardinality(V) \in Nat
    BY <2>1, <2>2, FS_RemoveElement, FS_CardinalityType
  <2>5. SumFunctionOnSet(f, V) <= Cardinality(V) * most
    BY <1>2
  <2>6. \A n \in Nat : (n + 1) * most = n * most + most /\ n * most \in Nat
    OBVIOUS
  <2>7. Cardinality(U) * most = Cardinality(V) * most + most /\ Cardinality(V) * most \in Nat
    BY <2>4, <2>6
  <2> DEFINE c == Cardinality(V) * most
  <2> HIDE DEF V, c
  <2>8. SumFunctionOnSet(f, U) <= Cardinality(U) * most
    BY <2>3, <2>5, <2>7 DEF c
  <2> QED BY <2>8
<1> HIDE DEF P
<1>3. Inherits(P, S)
  BY <1>1, <1>2 DEF P, Inherits
<1>4. P = SUBSET S
  BY <1>3, SubsetInduction
<1>5. S \in P
  BY <1>4
<1> QED BY <1>5 DEF P

-----------------------------------------------------------------------------
\* A finite set of numbers that is not empty has a greatest element.
LEMMA GreatestOfFinite ==
  ASSUME NEW S \in SUBSET Nat, IsFiniteSet(S), S # {}
  PROVE  \E m \in S : \A k \in S : m >= k
<1> DEFINE P == {U \in SUBSET S : U # {} => \E m \in U : \A k \in U : m >= k}
<1>1. {} \in P
  OBVIOUS
<1>2. ASSUME NEW U \in SUBSET S, U # {}, \A x \in U : U \ {x} \in P
      PROVE  U \in P
  <2>1. PICK x \in U : TRUE
    BY <1>2
  <2>2. CASE U \ {x} = {}
    BY <2>1, <2>2
  <2>3. CASE U \ {x} # {}
    <3>1. PICK m \in U \ {x} : \A k \in U \ {x} : m >= k
      BY <1>2, <2>3
    <3>2. CASE m >= x
      BY <3>1, <3>2
    <3>3. CASE ~ (m >= x)
      BY <3>1, <3>3
    <3> QED BY <3>2, <3>3
  <2> QED BY <2>2, <2>3
<1> HIDE DEF P
<1>3. Inherits(P, S)
  BY <1>1, <1>2 DEF P, Inherits
<1>4. P = SUBSET S
  BY <1>3, SubsetInduction
<1>5. S \in P
  BY <1>4
<1> QED BY <1>5 DEF P
=============================================================================

----------------------------- MODULE DataLemmas -----------------------------
(***************************************************************************)
(* Facts about the data the models are built from, for the proofs of       *)
(* several components: induction on the natural numbers and on finite      *)
(* sets, the functions a recursive definition defines, sums, and sequences *)
(* of numbered records.                                                    *)
(*                                                                         *)
(* The induction theorems of the library have an operator as a parameter.  *)
(* Here a property is the set of the values that have it.                  *)
(***************************************************************************)
EXTENDS OrderedRecords, SequencesExt, FiniteSetTheorems, SequenceTheorems, TLAPS

(* Induction *)

LEMMA Induction ==
  ASSUME NEW S, 0 \in S, \A n \in Nat : n \in S => n + 1 \in S
  PROVE  Nat \subseteq S
<1> DEFINE T == Nat \ S
           R == OpToRel(<, Nat)
<1> SUFFICES ASSUME T # {} PROVE FALSE
  OBVIOUS
<1>1. IsWellFoundedOn(R, Nat)
  BY NatLessThanWellFounded
<1>2. T \subseteq Nat
  OBVIOUS
<1> HIDE DEF R
<1>3. PICK x \in T : \A y \in T : ~(<<y, x>> \in R)
  <2> HIDE DEF T
  <2>1. QED BY <1>1, <1>2, WFMin
<1>4. x # 0 /\ x - 1 \in Nat /\ x - 1 < x
  BY <1>3
<1>5. <<x - 1, x>> \in R
  BY <1>3, <1>4 DEF R, OpToRel
<1>6. x - 1 \in S
  BY <1>3, <1>4, <1>5
<1>7. x - 1 + 1 \in S
  BY <1>4, <1>6
<1>8. x - 1 + 1 = x
  BY <1>3
<1>9. QED BY <1>3, <1>7, <1>8

\* A set of subsets that has the empty one and, with a set, that set and one
\* more element, has every finite one.
LEMMA InductionOnSets ==
  ASSUME NEW T, IsFiniteSet(T), NEW S, {} \in S,
         \A s \in SUBSET T : \A x \in T : s \in S /\ x \notin s => s \union {x} \in S
  PROVE  SUBSET T \subseteq S
<1> DEFINE N == {n \in Nat : \A s \in SUBSET T : Cardinality(s) = n => s \in S}
<1>1. \A s \in SUBSET T : IsFiniteSet(s) /\ Cardinality(s) \in Nat
  BY FS_Subset, FS_CardinalityType
<1>2. 0 \in N
  BY <1>1, FS_EmptySet
<1>3. ASSUME NEW n \in Nat, n \in N PROVE n + 1 \in N
  <2> SUFFICES ASSUME NEW s \in SUBSET T, Cardinality(s) = n + 1 PROVE s \in S
    OBVIOUS
  <2>1. s # {}
    BY <1>1, FS_EmptySet
  <2>2. PICK x : x \in s
    BY <2>1
  <2>3. Cardinality(s \ {x}) = n
    <3>1. IsFiniteSet(s)
      BY <1>1
    <3>2. Cardinality(s \ {x}) = Cardinality(s) - 1
      BY <2>2, <3>1, FS_RemoveElement
    <3>3. QED BY <3>2
  <2>4. s \ {x} \in S
    BY <1>3, <2>3
  <2>5. (s \ {x}) \union {x} \in S
    BY <2>2, <2>4
  <2>6. (s \ {x}) \union {x} = s
    BY <2>2
  <2>7. QED BY <2>5, <2>6
<1>4. Nat \subseteq N
  <2> HIDE DEF N
  <2>1. QED BY <1>2, <1>3, Induction
<1>5. QED BY <1>1, <1>4

\* The places before one of them are among them: the first ones.
LEMMA InitialSegments ==
  ASSUME NEW n \in Nat, NEW D \in SUBSET (1..n),
         \A i \in D : \A j \in 1..i : j \in D
  PROVE  \E k \in 0..n : D = 1..k
<1> DEFINE Closed(d) == \A i \in d : \A j \in 1..i : j \in d
           N == {m \in Nat : \A d \in SUBSET (1..m) :
                               Closed(d) => \E k \in 0..m : d = 1..k}
<1>1. 0 \in N
  <2>1. \A d \in SUBSET (1..0) : d = 1..0
    OBVIOUS
  <2>2. 0 \in 0..0
    OBVIOUS
  <2>3. QED BY <2>1, <2>2
<1>2. ASSUME NEW m \in Nat, m \in N PROVE m + 1 \in N
  <2> SUFFICES ASSUME NEW d \in SUBSET (1..m + 1), Closed(d)
               PROVE  \E k \in 0..m + 1 : d = 1..k
    OBVIOUS
  <2>1. CASE m + 1 \in d
    <3>1. \A j \in 1..m + 1 : j \in d
      BY <2>1
    <3>2. d = 1..m + 1
      BY <3>1
    <3>3. m + 1 \in 0..m + 1
      OBVIOUS
    <3>4. QED BY <3>2, <3>3
  <2>2. CASE m + 1 \notin d
    <3>1. d \in SUBSET (1..m)
      BY <2>2
    <3>2. \E k \in 0..m : d = 1..k
      BY <1>2, <3>1
    <3>3. QED BY <3>2
  <2>3. QED BY <2>1, <2>2
<1>3. Nat \subseteq N
  <2> HIDE DEF N
  <2>1. QED BY <1>1, <1>2, Induction
<1>4. QED BY <1>3

\* A set of natural numbers has a least one.
LEMMA Least ==
  ASSUME NEW S \in SUBSET Nat, S # {}
  PROVE  \E x \in S : \A y \in S : x <= y
<1> SUFFICES ASSUME \A x \in S : \E y \in S : y < x PROVE FALSE
  OBVIOUS
<1> DEFINE N == {n \in Nat : \A x \in S : n < x}
<1>1. ASSUME NEW x \in S PROVE x # 0
  BY <1>1
<1>2. 0 \in N
  BY <1>1
<1>3. ASSUME NEW n \in Nat, n \in N PROVE n + 1 \in N
  <2>1. \A x \in S : n + 1 <= x
    BY <1>3
  <2>2. n + 1 \notin S
    BY <2>1
  <2>3. QED BY <2>1, <2>2
<1>4. Nat \subseteq N
  <2> HIDE DEF N
  <2>1. QED BY <1>2, <1>3, Induction
<1>5. PICK x \in S : x \in N
  BY <1>4
<1>6. QED BY <1>5
-----------------------------------------------------------------------------
(* Functions defined by recursion *)

Looped(f, n, base, step) ==
  \A i \in 0..n : f[i] = IF i = 0 THEN base ELSE step[<<f[i - 1], i>>]

\* The results of a loop over 1..n exist.
LEMMA LoopExists ==
  ASSUME NEW n \in Nat, NEW A, NEW base \in A,
         NEW step, \A a \in A : \A i \in 1..n : step[<<a, i>>] \in A
  PROVE  \E f \in [0..n -> A] : Looped(f, n, base, step)
<1> USE DEF Looped
<1> DEFINE N == {m \in Nat : m <= n => \E f \in [0..m -> A] :
                   \A i \in 0..m : f[i] = IF i = 0 THEN base
                                          ELSE step[<<f[i - 1], i>>]}
<1>1. 0 \in N
  <2> DEFINE g == [i \in 0..0 |-> base]
  <2>1. g \in [0..0 -> A] /\ \A i \in 0..0 : g[i] = base /\ i = 0
    OBVIOUS
  <2> HIDE DEF g
  <2>2. QED BY <2>1
<1>2. ASSUME NEW m \in Nat, m \in N PROVE m + 1 \in N
  <2> SUFFICES ASSUME m + 1 <= n
               PROVE  \E f \in [0..m + 1 -> A] :
                        \A i \in 0..m + 1 : f[i] = IF i = 0 THEN base
                                                   ELSE step[<<f[i - 1], i>>]
    OBVIOUS
  <2>1. PICK f \in [0..m -> A] :
          \A i \in 0..m : f[i] = IF i = 0 THEN base ELSE step[<<f[i - 1], i>>]
    BY <1>2
  <2> DEFINE last == step[<<f[m], m + 1>>]
             g == [i \in 0..m + 1 |-> IF i = m + 1 THEN last ELSE f[i]]
  <2>2. last \in A
    <3>1. f[m] \in A /\ m + 1 \in 1..n
      BY <2>1
    <3>2. QED BY <3>1
  <2>3. \A i \in 0..m + 1 : i = m + 1 \/ i \in 0..m
    OBVIOUS
  <2>4. g[m + 1] = last /\ \A i \in 0..m : g[i] = f[i]
    <3> HIDE DEF last
    <3>1. QED OBVIOUS
  <2>5. g \in [0..m + 1 -> A]
    <3> HIDE DEF last
    <3>1. QED BY <2>1, <2>2, <2>3
  <2> HIDE DEF g
  <2>6. ASSUME NEW i \in 0..m + 1
        PROVE  g[i] = IF i = 0 THEN base ELSE step[<<g[i - 1], i>>]
    <3>1. CASE i = m + 1
      <4>1. g[i - 1] = f[m] /\ i # 0
        BY <2>4, <3>1
      <4>2. QED BY <2>4, <3>1, <4>1
    <3>2. CASE i \in 0..m /\ i # 0
      <4>1. i - 1 \in 0..m
        BY <3>2
      <4>2. QED BY <2>1, <2>4, <3>2, <4>1
    <3>3. CASE i = 0
      <4>1. 0 \in 0..m
        OBVIOUS
      <4>2. QED BY <2>1, <2>4, <3>3, <4>1
    <3>4. QED BY <2>3, <3>1, <3>2, <3>3
  <2>7. QED BY <2>5, <2>6
<1>3. Nat \subseteq N
  <2> HIDE DEF N
  <2>1. QED BY <1>1, <1>2, Induction
<1>4. QED BY <1>3

\* What every turn of a loop keeps holds after the last.
LEMMA LoopKeeps ==
  ASSUME NEW n \in Nat, NEW A, NEW f, f[0] \in A,
         \A i \in 1..n : f[i - 1] \in A => f[i] \in A
  PROVE  f[n] \in A
<1> DEFINE N == {m \in Nat : m <= n => f[m] \in A}
<1>1. 0 \in N
  OBVIOUS
<1>2. ASSUME NEW m \in Nat, m \in N PROVE m + 1 \in N
  <2> SUFFICES ASSUME m + 1 <= n PROVE f[m + 1] \in A
    OBVIOUS
  <2>1. PICK k \in 1..n : k = m + 1 /\ k - 1 = m
    OBVIOUS
  <2>2. f[m] \in A
    BY <1>2
  <2>3. QED BY <2>1, <2>2
<1>3. Nat \subseteq N
  <2> HIDE DEF N
  <2>1. QED BY <1>1, <1>2, Induction
<1>4. QED BY <1>3
-----------------------------------------------------------------------------
(* Sums *)

\* As many pairs as f adds up to over S.
Units(f, S) == {u \in S \X Nat : u[2] < f[u[1]]}

LEMMA UnitsOfOneMore ==
  ASSUME NEW T, NEW f \in [T -> Nat], NEW S \in SUBSET T, IsFiniteSet(Units(f, S)),
         NEW x \in T, x \notin S
  PROVE  /\ IsFiniteSet(Units(f, S \union {x}))
         /\ Cardinality(Units(f, S \union {x})) = Cardinality(Units(f, S)) + f[x]
<1> DEFINE new == {x} \X (0..f[x] - 1)
<1>1. Units(f, S \union {x}) = Units(f, S) \union new
  <2>1. f[x] \in Nat
    OBVIOUS
  <2>2. \A k \in Nat : k < f[x] <=> k \in 0..f[x] - 1
    BY <2>1
  <2>3. 0..f[x] - 1 \subseteq Nat
    OBVIOUS
  <2>4. QED BY <2>2, <2>3 DEF Units
<1>2. Units(f, S) \intersect new = {}
  BY DEF Units
<1>3. IsFiniteSet(new) /\ Cardinality(new) = f[x]
  <2>1. f[x] \in Nat
    OBVIOUS
  <2>2. IsFiniteSet(0..f[x] - 1) /\ Cardinality(0..f[x] - 1) = f[x]
    <3>1. /\ IsFiniteSet(0..f[x] - 1)
          /\ Cardinality(0..f[x] - 1)
               = IF 0 > f[x] - 1 THEN 0 ELSE (f[x] - 1) - 0 + 1
      BY <2>1, FS_Interval
    <3>2. QED BY <2>1, <3>1
  <2>3. IsFiniteSet({x}) /\ Cardinality({x}) = 1
    BY FS_Singleton
  <2>4. /\ IsFiniteSet(new)
        /\ Cardinality(new) = Cardinality({x}) * Cardinality(0..f[x] - 1)
    BY <2>2, <2>3, FS_Product
  <2>5. QED BY <2>1, <2>2, <2>3, <2>4
<1>4. /\ Cardinality(Units(f, S)) \in Nat
      /\ Cardinality(Units(f, S) \intersect new) = 0
  BY <1>2, FS_CardinalityType, FS_EmptySet
<1>5. /\ IsFiniteSet(Units(f, S) \union new)
      /\ Cardinality(Units(f, S) \union new)
           = Cardinality(Units(f, S)) + Cardinality(new)
               - Cardinality(Units(f, S) \intersect new)
  <2> HIDE DEF new
  <2>1. QED BY <1>3, FS_Union
<1> HIDE DEF new
<1>6. Cardinality(Units(f, S) \union new) = Cardinality(Units(f, S)) + f[x]
  <2>1. f[x] \in Nat
    OBVIOUS
  <2>2. QED BY <1>3, <1>4, <1>5, <2>1
<1>7. QED BY <1>1, <1>5, <1>6

LEMMA UnitsFinite ==
  ASSUME NEW T, IsFiniteSet(T), NEW f \in [T -> Nat]
  PROVE  /\ Units(f, {}) = {}
         /\ \A S \in SUBSET T : IsFiniteSet(Units(f, S))
<1> DEFINE G == {S \in SUBSET T : IsFiniteSet(Units(f, S))}
<1>1. Units(f, {}) = {}
  BY DEF Units
<1>2. {} \in G
  BY <1>1, FS_EmptySet
<1>3. ASSUME NEW S \in SUBSET T, NEW x \in T, S \in G, x \notin S
      PROVE  S \union {x} \in G
  BY <1>3, UnitsOfOneMore
<1>4. SUBSET T \subseteq G
  <2> HIDE DEF G
  <2>1. QED BY <1>2, <1>3, InductionOnSets
<1>5. QED BY <1>1, <1>4

\* The fold that SumFunction is defined by counts those pairs.
LEMMA SumIsCount ==
  ASSUME NEW T, IsFiniteSet(T), NEW f \in [T -> Nat]
  PROVE  SumFunction(f) = Cardinality(Units(f, T))
<1> DEFINE Chosen(s) == CHOOSE x \in s : TRUE
           Is(iter) == iter = [s \in SUBSET T |->
                                 IF s = {} THEN 0 ELSE f[Chosen(s)] + iter[s \ {Chosen(s)}]]
           Sum == CHOOSE iter : Is(iter)
           g == [s \in SUBSET T |-> Cardinality(Units(f, s))]
<1>1. SumFunction(f) = Sum[T]
  BY Zenon DEF SumFunction, SumFunctionOnSet, FoldFunctionOnSet, MapThenFoldSet
<1>2. \A s \in SUBSET T : IsFiniteSet(Units(f, s))
                          /\ Cardinality(Units(f, s)) \in Nat
  BY UnitsFinite, FS_CardinalityType
<1>3. Units(f, {}) = {} /\ Cardinality(Units(f, {})) = 0
  BY UnitsFinite, FS_EmptySet
<1>4. ASSUME NEW s \in SUBSET T, NEW x \in T, x \notin s
      PROVE  Cardinality(Units(f, s \union {x})) = Cardinality(Units(f, s)) + f[x]
  BY <1>2, <1>4, UnitsOfOneMore
<1>5. \A s \in SUBSET T : s # {} => Chosen(s) \in s
  OBVIOUS
<1> HIDE DEF Any
<1>6. ASSUME NEW s \in SUBSET T, s # {}
      PROVE  Cardinality(Units(f, s)) = f[Chosen(s)] + Cardinality(Units(f, s \ {Chosen(s)}))
  <2>1. /\ Chosen(s) \in T /\ s \ {Chosen(s)} \in SUBSET T
        /\ (s \ {Chosen(s)}) \union {Chosen(s)} = s
    BY <1>5, <1>6
  <2>2. Cardinality(Units(f, s)) = Cardinality(Units(f, s \ {Chosen(s)})) + f[Chosen(s)]
    BY <1>4, <2>1
  <2>3. Cardinality(Units(f, s \ {Chosen(s)})) \in Nat /\ f[Chosen(s)] \in Nat
    BY <1>2, <2>1
  <2>4. QED BY <2>2, <2>3
<1>7. Is(g)
  <2>1. ASSUME NEW s \in SUBSET T
        PROVE  g[s] = IF s = {} THEN 0 ELSE f[Chosen(s)] + g[s \ {Chosen(s)}]
    BY <1>3, <1>6
  <2>2. g = [s \in SUBSET T |-> g[s]]
    OBVIOUS
  <2> HIDE DEF g
  <2>3. QED BY <2>1, <2>2
<1>8. Is(Sum)
  <2>1. \E iter : Is(iter)
    BY <1>7, Zenon
  <2> HIDE DEF Is
  <2>2. QED BY <2>1, Zenon
<1> HIDE DEF Sum
<1>9. \A s \in SUBSET T :
        Sum[s] = IF s = {} THEN 0 ELSE f[Chosen(s)] + Sum[s \ {Chosen(s)}]
  <2>1. Sum = [s \in SUBSET T |->
                 IF s = {} THEN 0 ELSE f[Chosen(s)] + Sum[s \ {Chosen(s)}]]
    BY <1>8
  <2>2. QED BY <2>1
<1> DEFINE N == {n \in Nat : \A s \in SUBSET T :
                   Cardinality(s) = n => Sum[s] = Cardinality(Units(f, s))}
<1>10. \A s \in SUBSET T : IsFiniteSet(s) /\ Cardinality(s) \in Nat
  BY FS_Subset, FS_CardinalityType
<1>11. 0 \in N
  <2>1. \A s \in SUBSET T : Cardinality(s) = 0 => s = {}
    BY <1>10, FS_EmptySet
  <2>2. QED BY <1>3, <1>9, <2>1
<1>12. ASSUME NEW n \in Nat, n \in N PROVE n + 1 \in N
  <2> SUFFICES ASSUME NEW s \in SUBSET T, Cardinality(s) = n + 1
               PROVE  Sum[s] = Cardinality(Units(f, s))
    OBVIOUS
  <2>1. s # {}
    BY FS_EmptySet
  <2>2. Chosen(s) \in s /\ s \ {Chosen(s)} \in SUBSET T /\ IsFiniteSet(s)
    BY <1>5, <1>10, <2>1
  <2>3. Cardinality(s \ {Chosen(s)}) = Cardinality(s) - 1
    BY <2>2, FS_RemoveElement
  <2>4. Cardinality(s \ {Chosen(s)}) = n
    BY <2>3
  <2>5. Sum[s \ {Chosen(s)}] = Cardinality(Units(f, s \ {Chosen(s)}))
    BY <1>12, <2>2, <2>4
  <2>6. QED BY <1>6, <1>9, <2>1, <2>5
<1>13. Nat \subseteq N
  <2> HIDE DEF N
  <2>1. QED BY <1>11, <1>12, Induction
<1>14. QED BY <1>1, <1>10, <1>13

LEMMA SumIsNatural ==
  ASSUME NEW T, IsFiniteSet(T), NEW f \in [T -> Nat]
  PROVE  SumFunction(f) \in Nat
<1>1. IsFiniteSet(Units(f, T))
  BY UnitsFinite
<1>2. QED BY <1>1, SumIsCount, FS_CardinalityType

LEMMA SumOfZeros ==
  ASSUME NEW T, IsFiniteSet(T), NEW f \in [T -> Nat], \A x \in T : f[x] = 0
  PROVE  SumFunction(f) = 0
<1>1. Units(f, T) = {}
  BY DEF Units
<1>2. QED BY <1>1, SumIsCount, FS_EmptySet

\* A function with one more argument.
LEMMA SumOfOneMore ==
  ASSUME NEW T, IsFiniteSet(T), NEW f \in [T -> Nat], NEW x, x \notin T,
         NEW g \in [T \union {x} -> Nat], \A y \in T : g[y] = f[y]
  PROVE  SumFunction(g) = SumFunction(f) + g[x]
<1>1. IsFiniteSet(T \union {x}) /\ T \in SUBSET (T \union {x})
  BY FS_AddElement
<1>2. Units(g, T) = Units(f, T)
  BY DEF Units
<1>3. IsFiniteSet(Units(g, T))
  BY <1>2, UnitsFinite
<1>4. Cardinality(Units(g, T \union {x})) = Cardinality(Units(g, T)) + g[x]
  BY <1>1, <1>3, UnitsOfOneMore
<1>5. SumFunction(f) = Cardinality(Units(f, T))
  BY SumIsCount
<1>6. SumFunction(g) = Cardinality(Units(g, T \union {x}))
  BY <1>1, SumIsCount
<1>7. QED BY <1>2, <1>4, <1>5, <1>6

\* A function changed at one argument.
LEMMA SumOfOneChange ==
  ASSUME NEW T, IsFiniteSet(T), NEW f \in [T -> Nat], NEW g \in [T -> Nat],
         NEW x \in T, \A y \in T \ {x} : g[y] = f[y]
  PROVE  SumFunction(g) + f[x] = SumFunction(f) + g[x]
<1> DEFINE S == T \ {x}
<1>1. S \in SUBSET T /\ x \notin S /\ S \union {x} = T
  OBVIOUS
<1>2. IsFiniteSet(Units(f, S)) /\ IsFiniteSet(Units(g, S))
  BY <1>1, UnitsFinite
<1>3. Cardinality(Units(f, T)) = Cardinality(Units(f, S)) + f[x]
  BY <1>1, <1>2, UnitsOfOneMore
<1>4. Cardinality(Units(g, T)) = Cardinality(Units(g, S)) + g[x]
  BY <1>1, <1>2, UnitsOfOneMore
<1>5. Units(g, S) = Units(f, S)
  BY DEF Units
<1>6. Cardinality(Units(f, S)) \in Nat
  BY <1>2, FS_CardinalityType
<1>7. /\ SumFunction(f) = Cardinality(Units(f, T))
      /\ SumFunction(g) = Cardinality(Units(g, T))
  BY SumIsCount
<1> HIDE DEF S
<1>8. f[x] \in Nat /\ g[x] \in Nat
  OBVIOUS
<1>9. QED BY <1>3, <1>4, <1>5, <1>6, <1>7, <1>8

\* The sizes of the parts of a finite set add up to its size.
Part(U, g, x) == {u \in U : g[u] = x}

LEMMA SumOfSizes ==
  ASSUME NEW U, IsFiniteSet(U), NEW T, IsFiniteSet(T), NEW g \in [U -> T],
         NEW f \in [T -> Nat],
         \A x \in T : f[x] = Cardinality(Part(U, g, x))
  PROVE  SumFunction(f) = Cardinality(U)
<1> DEFINE In(S) == {u \in U : g[u] \in S}
           G == {S \in SUBSET T : Cardinality(Units(f, S)) = Cardinality(In(S))}
<1>1. \A S \in SUBSET T : IsFiniteSet(Units(f, S)) /\ IsFiniteSet(In(S))
  <2>1. \A S \in SUBSET T : In(S) \in SUBSET U
    OBVIOUS
  <2> HIDE DEF In
  <2>2. QED BY <2>1, UnitsFinite, FS_Subset
<1>2. {} \in G
  <2>1. Units(f, {}) = {} /\ In({}) = {}
    BY UnitsFinite
  <2>2. QED BY <2>1
<1>3. ASSUME NEW S \in SUBSET T, NEW x \in T, S \in G, x \notin S
      PROVE  S \union {x} \in G
  <2> DEFINE new == Part(U, g, x)
  <2>1. Cardinality(Units(f, S \union {x})) = Cardinality(Units(f, S)) + f[x]
    <3>1. IsFiniteSet(Units(f, S))
      BY <1>1
    <3>2. QED BY <1>3, <3>1, UnitsOfOneMore
  <2>2. In(S \union {x}) = In(S) \union new /\ In(S) \intersect new = {}
    BY <1>3 DEF Part
  <2>3. IsFiniteSet(new) /\ Cardinality(new) = f[x]
    <3>1. new \in SUBSET U
      BY DEF Part
    <3>2. QED BY <3>1, FS_Subset
  <2>4. IsFiniteSet(In(S)) /\ Cardinality(In(S)) \in Nat /\ f[x] \in Nat
    BY <1>1, FS_CardinalityType
  <2>5. Cardinality(In(S)) = Cardinality(Units(f, S))
    BY <1>3
  <2>6. S \union {x} \in SUBSET T
    OBVIOUS
  <2> HIDE DEF new, In
  <2>7. Cardinality(In(S) \union new)
          = Cardinality(In(S)) + Cardinality(new) - Cardinality(In(S) \intersect new)
    BY <2>3, <2>4, FS_Union
  <2>8. Cardinality(In(S) \union new) = Cardinality(In(S)) + f[x]
    <3>1. Cardinality(In(S) \intersect new) = 0
      BY <2>2, FS_EmptySet
    <3>2. PICK a \in Nat, c \in Nat : a = Cardinality(In(S)) /\ c = f[x]
      BY <2>4
    <3>3. Cardinality(new) = c
      BY <2>3, <3>2
    <3>4. QED BY <2>7, <3>1, <3>2, <3>3
  <2>9. Cardinality(Units(f, S \union {x})) = Cardinality(In(S \union {x}))
    BY <2>1, <2>2, <2>5, <2>8
  <2>10. QED BY <2>6, <2>9
<1>4. SUBSET T \subseteq G
  <2> HIDE DEF G
  <2>1. QED BY <1>2, <1>3, InductionOnSets
<1>5. Cardinality(Units(f, T)) = Cardinality(In(T)) /\ In(T) = U
  BY <1>4
<1>6. QED BY <1>5, SumIsCount
-----------------------------------------------------------------------------
(* Sequences and the sets of their elements *)

LEMMA ToSetOfAppend ==
  ASSUME NEW S, NEW s \in Seq(S), NEW e \in S
  PROVE  ToSet(Append(s, e)) = ToSet(s) \union {e}
<1>1. Append(s, e) \in Seq(S) /\ Len(Append(s, e)) = Len(s) + 1
  OBVIOUS
<1>2. \A i \in 1..Len(s) : Append(s, e)[i] = s[i]
  OBVIOUS
<1>3. Append(s, e)[Len(s) + 1] = e
  OBVIOUS
<1>4. DOMAIN Append(s, e) = (1..Len(s)) \union {Len(s) + 1}
  OBVIOUS
<1>5. DOMAIN s = 1..Len(s)
  OBVIOUS
<1> HIDE <1>1
<1>6. QED BY <1>2, <1>3, <1>4, <1>5, Zenon DEF ToSet

LEMMA ToSetOfConcat ==
  ASSUME NEW S, NEW s \in Seq(S), NEW t \in Seq(S)
  PROVE  ToSet(s \o t) = ToSet(s) \union ToSet(t)
<1>1. /\ s \o t \in Seq(S) /\ Len(s \o t) = Len(s) + Len(t)
      /\ \A i \in 1..Len(s) + Len(t) :
           (s \o t)[i] = IF i <= Len(s) THEN s[i] ELSE t[i - Len(s)]
  BY ConcatProperties
<1>2. ASSUME NEW r, r \in ToSet(s \o t) PROVE r \in ToSet(s) \union ToSet(t)
  <2>1. PICK i \in 1..Len(s) + Len(t) : r = (s \o t)[i]
    BY <1>1, <1>2 DEF ToSet
  <2>2. CASE i <= Len(s)
    BY <1>1, <2>1, <2>2 DEF ToSet
  <2>3. CASE ~(i <= Len(s))
    <3>1. i - Len(s) \in 1..Len(t) /\ r = t[i - Len(s)]
      BY <1>1, <2>1, <2>3
    <3>2. QED BY <3>1 DEF ToSet
  <2>4. QED BY <2>2, <2>3
<1>3. ASSUME NEW r, r \in ToSet(s) PROVE r \in ToSet(s \o t)
  <2>1. PICK i \in 1..Len(s) : r = s[i]
    BY <1>3 DEF ToSet
  <2>2. i \in 1..Len(s) + Len(t) /\ (s \o t)[i] = r
    BY <1>1, <2>1
  <2>3. QED BY <1>1, <2>2 DEF ToSet
<1>4. ASSUME NEW r, r \in ToSet(t) PROVE r \in ToSet(s \o t)
  <2>1. PICK i \in 1..Len(t) : r = t[i]
    BY <1>4 DEF ToSet
  <2>2. Len(s) + i \in 1..Len(s) + Len(t) /\ (s \o t)[Len(s) + i] = r
    BY <1>1, <2>1
  <2>3. QED BY <1>1, <2>2 DEF ToSet
<1>5. QED BY <1>2, <1>3, <1>4

LEMMA ToSetOfHeadTail ==
  ASSUME NEW S, NEW s \in Seq(S), s # <<>>
  PROVE  ToSet(s) = {Head(s)} \union ToSet(Tail(s))
<1>1. /\ Tail(s) \in Seq(S) /\ Len(Tail(s)) = Len(s) - 1 /\ Head(s) = s[1]
      /\ Len(s) \in Nat \ {0}
      /\ \A i \in 1..Len(s) - 1 : Tail(s)[i] = s[i + 1]
  BY HeadTailProperties, EmptySeq
<1>2. ASSUME NEW r, r \in ToSet(s) PROVE r \in {Head(s)} \union ToSet(Tail(s))
  <2>1. PICK i \in 1..Len(s) : r = s[i]
    BY <1>2 DEF ToSet
  <2>2. CASE i = 1
    BY <1>1, <2>1, <2>2
  <2>3. CASE i # 1
    <3>1. i - 1 \in 1..Len(s) - 1 /\ Tail(s)[i - 1] = s[i]
      BY <1>1, <2>1, <2>3
    <3>2. DOMAIN Tail(s) = 1..Len(s) - 1
      BY <1>1
    <3>3. r \in ToSet(Tail(s))
      BY <2>1, <3>1, <3>2, Zenon DEF ToSet
    <3>4. QED BY <3>3
  <2>4. QED BY <2>2, <2>3
<1>3. ASSUME NEW r, r \in ToSet(Tail(s)) PROVE r \in ToSet(s)
  <2>1. PICK i \in 1..Len(s) - 1 : r = Tail(s)[i]
    BY <1>1, <1>3 DEF ToSet
  <2>2. i + 1 \in 1..Len(s) /\ s[i + 1] = r
    BY <1>1, <2>1
  <2>3. QED BY <2>2 DEF ToSet
<1>4. Head(s) \in ToSet(s)
  BY <1>1 DEF ToSet
<1>5. QED BY <1>2, <1>3, <1>4

\* An increasing sequence has as many elements as places.
LEMMA IncreasingIsCounted ==
  ASSUME NEW s \in Seq(Nat), Increasing(s)
  PROVE  IsFiniteSet(ToSet(s)) /\ Cardinality(ToSet(s)) = Len(s)
<1> DEFINE f == [i \in 1..Len(s) |-> s[i]]
<1>1. f \in [1..Len(s) -> ToSet(s)]
  BY DEF ToSet
<1>2. \A r \in ToSet(s) : \E i \in 1..Len(s) : f[i] = r
  BY DEF ToSet
<1>3. \A i, j \in 1..Len(s) : f[i] = f[j] => i = j
  <2> SUFFICES ASSUME NEW i \in 1..Len(s), NEW j \in 1..Len(s), i # j
               PROVE  s[i] # s[j]
    OBVIOUS
  <2>1. s[i] \in Nat /\ s[j] \in Nat
    OBVIOUS
  <2>2. i < j \/ j < i
    OBVIOUS
  <2>3. QED BY <2>1, <2>2 DEF Increasing
<1>4. f \in Bijection(1..Len(s), ToSet(s))
  BY <1>1, <1>2, <1>3 DEF Bijection, Injection, Surjection, IsInjective
<1>5. ExistsBijection(1..Len(s), ToSet(s))
  BY <1>4 DEF ExistsBijection
<1>6. /\ IsFiniteSet(1..Len(s))
      /\ Cardinality(1..Len(s)) = IF 1 > Len(s) THEN 0 ELSE Len(s) - 1 + 1
  BY FS_Interval
<1>7. Cardinality(1..Len(s)) = Len(s)
  BY <1>6
<1>8. QED BY <1>5, <1>6, <1>7, FS_Bijection

LEMMA RunIsIncreasing ==
  ASSUME NEW s \in Seq(Nat), NEW n \in Nat, IsRun(s, n)
  PROVE  /\ Increasing(s)
         /\ ToSet(s) = (n - Len(s) + 1) .. n
<1>1. Increasing(s)
  BY DEF IsRun, Increasing
<1>2. ASSUME NEW r \in (n - Len(s) + 1) .. n PROVE r \in ToSet(s)
  <2>1. r - n + Len(s) \in 1..Len(s) /\ s[r - n + Len(s)] = r
    BY DEF IsRun
  <2>2. QED BY <2>1 DEF ToSet
<1>3. ASSUME NEW r \in ToSet(s) PROVE r \in (n - Len(s) + 1) .. n
  <2>1. PICK i \in 1..Len(s) : r = s[i]
    BY DEF ToSet
  <2>2. QED BY <2>1 DEF IsRun
<1>4. QED BY <1>1, <1>2, <1>3

\* The last elements of a run are a run with the same end.
LEMMA LastOfRun ==
  ASSUME NEW s \in Seq(Nat), NEW n \in Nat, IsRun(s, n), NEW most \in Nat
  PROVE  /\ LastOf(s, most) \in Seq(Nat)
         /\ Len(LastOf(s, most)) <= Len(s)
         /\ IsRun(LastOf(s, most), n)
<1>1. CASE Len(s) <= most
  BY <1>1 DEF LastOf
<1>2. CASE ~(Len(s) <= most)
  <2> DEFINE a == Len(s) - most + 1
             l == SubSeq(s, a, Len(s))
  <2>1. a \in 1..Len(s) + 1 /\ Len(s) \in Nat
    BY <1>2
  <2>2. \A i \in a..Len(s) : s[i] \in Nat
    BY <1>2
  <2>3. /\ l \in Seq(Nat) /\ Len(l) = most
        /\ \A i \in 1..most : l[i] = s[a + i - 1]
    BY <1>2, <2>1, <2>2, SubSeqProperties
  <2>4. LastOf(s, most) = l
    BY <1>2 DEF LastOf
  <2> HIDE DEF l
  <2>5. ASSUME NEW i \in 1..most PROVE l[i] = n - most + i
    <3>1. a + i - 1 \in 1..Len(s)
      BY <1>2, <2>1
    <3>2. s[a + i - 1] = n - Len(s) + (a + i - 1)
      BY <3>1 DEF IsRun
    <3>3. QED BY <1>2, <2>1, <2>3, <3>2
  <2>6. IsRun(l, n)
    BY <2>3, <2>5 DEF IsRun
  <2>7. QED BY <1>2, <2>3, <2>4, <2>6
<1>3. QED BY <1>1, <1>2

\* Appending the next numbers makes a longer run.
LEMMA RunGrows ==
  ASSUME NEW s \in Seq(Nat), NEW m \in Nat, IsRun(s, m), NEW n \in Nat,
         NEW new, new = [i \in 1..n |-> m + i]
  PROVE  /\ new \in Seq(Nat) /\ Len(new) = n /\ ToSet(new) = (m + 1)..(m + n)
         /\ s \o new \in Seq(Nat) /\ Len(s \o new) = Len(s) + n
         /\ IsRun(s \o new, m + n)
<1>1. new \in Seq(Nat) /\ Len(new) = n
  <2>1. \A i \in 1..n : m + i \in Nat
    OBVIOUS
  <2>2. QED BY <2>1, IsASeq
<1>2. IsRun(new, m + n)
  BY <1>1 DEF IsRun
<1>3. ToSet(new) = (m + n - n + 1)..(m + n)
  <2> DEFINE e == m + n
  <2>1. e \in Nat /\ new \in Seq(Nat) /\ IsRun(new, e)
    BY <1>1, <1>2
  <2> HIDE DEF e
  <2>2. ToSet(new) = (e - Len(new) + 1)..e
    BY <2>1, RunIsIncreasing
  <2>3. QED BY <1>1, <2>2 DEF e
<1>4. /\ s \o new \in Seq(Nat) /\ Len(s \o new) = Len(s) + n
      /\ \A i \in 1..Len(s) + n :
           (s \o new)[i] = IF i <= Len(s) THEN s[i] ELSE new[i - Len(s)]
  BY <1>1, ConcatProperties
<1>5. ASSUME NEW i \in 1..Len(s) + n
      PROVE  (s \o new)[i] = (m + n) - (Len(s) + n) + i
  <2>1. CASE i <= Len(s)
    BY <1>4, <2>1 DEF IsRun
  <2>2. CASE ~(i <= Len(s))
    <3>1. i - Len(s) \in 1..n
      BY <2>2
    <3>2. new[i - Len(s)] = m + (i - Len(s))
      BY <1>1, <1>2, <3>1 DEF IsRun
    <3>3. QED BY <1>4, <2>2, <3>2
  <2>3. QED BY <2>1, <2>2
<1>6. IsRun(s \o new, m + n)
  BY <1>4, <1>5 DEF IsRun
<1>7. (m + n - n + 1)..(m + n) = (m + 1)..(m + n)
  OBVIOUS
<1>8. QED BY <1>1, <1>3, <1>4, <1>6, <1>7

LEMMA AppendIsIncreasing ==
  ASSUME NEW t \in Seq(Nat), Increasing(t), NEW x \in Nat, \A r \in ToSet(t) : r < x
  PROVE  Increasing(Append(t, x))
<1>1. /\ Len(Append(t, x)) = Len(t) + 1 /\ Len(t) \in Nat
      /\ \A k \in 1..Len(t) : Append(t, x)[k] = t[k]
      /\ Append(t, x)[Len(t) + 1] = x
  OBVIOUS
<1>2. \A k \in 1..Len(t) : t[k] < x
  BY DEF ToSet
<1>3. ASSUME NEW j \in 1..Len(t) + 1, NEW k \in 1..Len(t) + 1, j < k
      PROVE  Append(t, x)[j] < Append(t, x)[k]
  <2>1. j \in 1..Len(t)
    BY <1>1, <1>3
  <2>2. CASE k \in 1..Len(t)
    BY <1>1, <1>3, <2>1, <2>2 DEF Increasing
  <2>3. CASE k = Len(t) + 1
    BY <1>1, <1>2, <2>1, <2>3
  <2>4. QED BY <1>1, <2>2, <2>3
<1>4. QED BY <1>1, <1>3 DEF Increasing

LEMMA ConcatIsIncreasing ==
  ASSUME NEW s \in Seq(Nat), Increasing(s), NEW t \in Seq(Nat), Increasing(t),
         \A r \in ToSet(s), u \in ToSet(t) : r < u
  PROVE  s \o t \in Seq(Nat) /\ Increasing(s \o t)
<1>1. /\ s \o t \in Seq(Nat) /\ Len(s \o t) = Len(s) + Len(t)
      /\ \A i \in 1..Len(s) + Len(t) :
           (s \o t)[i] = IF i <= Len(s) THEN s[i] ELSE t[i - Len(s)]
  BY ConcatProperties
<1>2. \A i \in 1..Len(s) : s[i] \in ToSet(s)
  BY DEF ToSet
<1>3. \A i \in 1..Len(t) : t[i] \in ToSet(t)
  BY DEF ToSet
<1> SUFFICES ASSUME NEW i \in 1..Len(s) + Len(t), NEW j \in 1..Len(s) + Len(t), i < j
             PROVE  (s \o t)[i] < (s \o t)[j]
  BY <1>1 DEF Increasing
<1>4. CASE j <= Len(s)
  BY <1>1, <1>4 DEF Increasing
<1>5. CASE i <= Len(s) /\ ~(j <= Len(s))
  <2>1. i \in 1..Len(s) /\ j - Len(s) \in 1..Len(t)
    BY <1>5
  <2>2. s[i] < t[j - Len(s)]
    BY <1>2, <1>3, <2>1
  <2>3. QED BY <1>1, <1>5, <2>2
<1>6. CASE ~(i <= Len(s))
  <2>1. /\ i - Len(s) \in 1..Len(t) /\ j - Len(s) \in 1..Len(t)
        /\ i - Len(s) < j - Len(s) /\ ~(j <= Len(s))
    BY <1>6
  <2>2. t[i - Len(s)] < t[j - Len(s)]
    BY <2>1 DEF Increasing
  <2>3. QED BY <1>1, <1>6, <2>1, <2>2
<1>7. QED BY <1>4, <1>5, <1>6

\* What is cut off an increasing sequence is smaller than what is kept.
LEMMA LastOfIncreasing ==
  ASSUME NEW s \in Seq(Nat), Increasing(s), NEW most \in Nat \ {0},
         NEW l, l = LastOf(s, most)
  PROVE  /\ l \in Seq(Nat) /\ Increasing(l) /\ Len(l) <= most
         /\ ToSet(l) \subseteq ToSet(s)
         /\ \A r \in ToSet(s) : r \in ToSet(l) \/ (Len(l) = most /\ r < l[1])
<1>1. CASE Len(s) <= most
  BY <1>1 DEF LastOf
<1>2. CASE ~(Len(s) <= most)
  <2> DEFINE a == Len(s) - most + 1
  <2>1. a \in 1..Len(s) + 1 /\ Len(s) \in Nat
    BY <1>2
  <2>2. \A i \in a..Len(s) : s[i] \in Nat
    BY <1>2
  <2>3. l = SubSeq(s, a, Len(s))
    BY <1>2 DEF LastOf
  <2>4. /\ l \in Seq(Nat) /\ Len(l) = most
        /\ \A i \in 1..most : l[i] = s[a + i - 1]
    BY <1>2, <2>1, <2>2, <2>3, SubSeqProperties
  <2>5. \A i \in 1..most : a + i - 1 \in 1..Len(s)
    BY <1>2, <2>1
  <2>6. Increasing(l)
    <3> SUFFICES ASSUME NEW i \in 1..most, NEW j \in 1..most, i < j
                 PROVE  l[i] < l[j]
      BY <2>4 DEF Increasing
    <3>1. a + i - 1 \in 1..Len(s) /\ a + j - 1 \in 1..Len(s) /\ a + i - 1 < a + j - 1
      BY <2>1, <2>5
    <3>2. s[a + i - 1] < s[a + j - 1]
      BY <3>1 DEF Increasing
    <3>3. QED BY <2>4, <3>2
  <2>7. ASSUME NEW r \in ToSet(l) PROVE r \in ToSet(s)
    <3>1. PICK i \in 1..most : r = l[i]
      BY <2>4 DEF ToSet
    <3>2. PICK k \in 1..Len(s) : k = a + i - 1
      BY <2>5
    <3>3. l[i] = s[k]
      BY <2>4, <3>2
    <3>4. k \in DOMAIN s /\ s[k] = r
      BY <3>1, <3>2, <3>3
    <3>5. QED BY <3>4, Zenon DEF ToSet
  <2>8. ASSUME NEW r \in ToSet(s) PROVE r \in ToSet(l) \/ r < l[1]
    <3>1. PICK k \in 1..Len(s) : r = s[k]
      BY DEF ToSet
    <3>2. CASE k < a
      <4>1. l[1] = s[a] /\ a \in 1..Len(s)
        BY <1>2, <2>1, <2>4
      <4>2. QED BY <3>1, <3>2, <4>1 DEF Increasing
    <3>3. CASE ~(k < a)
      <4>1. k - a + 1 \in 1..most /\ a + (k - a + 1) - 1 = k
        BY <1>2, <2>1, <3>3
      <4>2. l[k - a + 1] = r
        BY <2>4, <3>1, <4>1
      <4>3. DOMAIN l = 1..most
        BY <2>4
      <4>4. QED BY <4>1, <4>2, <4>3, Zenon DEF ToSet
    <3>4. QED BY <3>2, <3>3
  <2>9. QED BY <2>4, <2>6, <2>7, <2>8
<1>3. QED BY <1>1, <1>2

\* A filter keeps the order and lets through what is in the set.
LEMMA ThoseIs ==
  ASSUME NEW s \in Seq(Nat), Increasing(s), NEW set
  PROVE  /\ Those(s, set) \in Seq(Nat) /\ Increasing(Those(s, set))
         /\ ToSet(Those(s, set)) = ToSet(s) \intersect set
<1> DEFINE n == Len(s)
           Longer(t, i) == IF s[i] \in set THEN Append(t, s[i]) ELSE t
           Is(f) == f = [i \in 0..Len(s) |->
                           IF i = 0 THEN <<>>
                           ELSE IF s[i] \in set THEN Append(f[i - 1], s[i])
                                ELSE f[i - 1]]
           those == CHOOSE f : Is(f)
<1>1. Those(s, set) = those[n]
  BY Zenon DEF Those
<1>2. n \in Nat /\ \A i \in 1..n : s[i] \in Nat
  OBVIOUS
<1>3. \A t \in Seq(Nat), i \in 1..n : Longer(t, i) \in Seq(Nat)
  BY <1>2
<1>4. \E f \in [0..n -> Seq(Nat)] :
        \A i \in 0..n : f[i] = IF i = 0 THEN <<>> ELSE Longer(f[i - 1], i)
  <2> DEFINE step == [p \in Seq(Nat) \X (1..n) |-> Longer(p[1], p[2])]
  <2>1. \A t \in Seq(Nat), i \in 1..n : step[<<t, i>>] = Longer(t, i)
    OBVIOUS
  <2>2. <<>> \in Seq(Nat)
    OBVIOUS
  <2> HIDE DEF step, Longer
  <2>3. \A t \in Seq(Nat), i \in 1..n : step[<<t, i>>] \in Seq(Nat)
    BY <1>3, <2>1
  <2>4. PICK f \in [0..n -> Seq(Nat)] :
          \A i \in 0..n : f[i] = IF i = 0 THEN <<>> ELSE step[<<f[i - 1], i>>]
    <3> DEFINE A == Seq(Nat)
               base == <<>>
    <3>1. base \in A /\ \A t \in A : \A i \in 1..n : step[<<t, i>>] \in A
      BY <2>2, <2>3
    <3> HIDE DEF n, A, base
    <3>2. \E f \in [0..n -> A] : Looped(f, n, base, step)
      BY <1>2, <3>1, LoopExists, Zenon
    <3>3. QED BY <3>2 DEF A, base, Looped
  <2>5. \A i \in 1..n : f[i - 1] \in Seq(Nat)
    <3> HIDE DEF n
    <3>1. \A i \in 1..n : i - 1 \in 0..n
      BY <1>2
    <3>2. QED BY <2>4, <3>1
  <2>6. \A i \in 0..n : f[i] = IF i = 0 THEN <<>> ELSE Longer(f[i - 1], i)
    <3>1. \A i \in 0..n : i # 0 => i \in 1..n
      BY <1>2
    <3>2. QED BY <2>1, <2>4, <2>5, <3>1
  <2>7. QED BY <2>6
<1>5. PICK f \in [0..n -> Seq(Nat)] :
        \A i \in 0..n : f[i] = IF i = 0 THEN <<>> ELSE Longer(f[i - 1], i)
  BY <1>4
<1>6. Is(f)
  <2>1. f = [i \in 0..n |-> f[i]]
    BY <1>5
  <2>2. QED BY <1>5, <2>1
<1>7. Is(those)
  <2> HIDE DEF Is
  <2>1. QED BY <1>6, Zenon
<1> HIDE DEF those
<1>8. those[0] = <<>> /\ \A i \in 1..n : those[i] = Longer(those[i - 1], i)
  <2>1. \A i \in 0..n : those[i] = IF i = 0 THEN <<>> ELSE Longer(those[i - 1], i)
    BY <1>7
  <2>2. 0 \in 0..n /\ \A i \in 1..n : i \in 0..n /\ i # 0
    BY <1>2
  <2> HIDE DEF n, Longer
  <2>3. QED BY <2>1, <2>2
<1> DEFINE First(i) == {s[k] : k \in 1..i}
           Good(i) == /\ those[i] \in Seq(Nat) /\ Increasing(those[i])
                      /\ ToSet(those[i]) = First(i) \intersect set
           N == {i \in Nat : i <= n => Good(i)}
<1> HIDE DEF n, Longer
<1>9. 0 \in N
  <2>1. Increasing(<<>>) /\ ToSet(<<>>) = {} /\ First(0) = {} /\ <<>> \in Seq(Nat)
    BY DEF Increasing, ToSet
  <2> HIDE DEF First
  <2>2. QED BY <1>8, <2>1
<1>10. ASSUME NEW i \in Nat, i \in N PROVE i + 1 \in N
  <2> SUFFICES ASSUME i + 1 <= n PROVE Good(i + 1)
    OBVIOUS
  <2>1. i + 1 \in 1..n /\ s[i + 1] \in Nat /\ i + 1 - 1 = i /\ i <= n
    BY <1>2
  <2>2. those[i + 1] = Longer(those[i], i + 1)
    BY <1>8, <2>1
  <2>3. Good(i)
    BY <1>10, <2>1
  <2>4. First(i + 1) = First(i) \union {s[i + 1]}
    <3>1. 1..i + 1 = (1..i) \union {i + 1}
      OBVIOUS
    <3>2. QED BY <3>1
  <2>5. CASE s[i + 1] \notin set
    <3>1. those[i + 1] = those[i]
      BY <2>2, <2>5 DEF Longer
    <3>2. First(i + 1) \intersect set = First(i) \intersect set
      <4> HIDE DEF First
      <4>1. QED BY <2>4, <2>5
    <3>3. QED BY <2>3, <3>1, <3>2
  <2>6. CASE s[i + 1] \in set
    <3> DEFINE t == those[i]
               x == s[i + 1]
    <3>1. those[i + 1] = Append(t, x)
      BY <2>2, <2>6 DEF Longer
    <3>2. t \in Seq(Nat) /\ x \in Nat
      BY <2>1, <2>3
    <3>3. \A r \in ToSet(t) : r < x
      <4>1. \A r \in ToSet(t) : \E k \in 1..i : r = s[k]
        BY <2>3
      <4>2. \A k \in 1..i : s[k] < s[i + 1]
        BY <1>2, <2>1, SMTT(30) DEF Increasing, n
      <4>3. QED BY <4>1, <4>2
    <3>4. ToSet(Append(t, x)) = (First(i) \intersect set) \union {x}
      <4>1. ToSet(t) = First(i) \intersect set
        BY <2>3
      <4> HIDE DEF t, x, First
      <4>2. ToSet(Append(t, x)) = ToSet(t) \union {x}
        BY <3>2, ToSetOfAppend
      <4>3. QED BY <4>1, <4>2
    <3>5. ToSet(Append(t, x)) = First(i + 1) \intersect set
      <4> HIDE DEF First
      <4>1. QED BY <2>4, <2>6, <3>4
    <3>6. Increasing(Append(t, x))
      <4>1. Increasing(t)
        BY <2>3
      <4> HIDE DEF t, x
      <4>2. QED BY <3>2, <3>3, <4>1, AppendIsIncreasing
    <3>7. Append(t, x) \in Seq(Nat)
      BY <3>2
    <3>8. QED BY <3>1, <3>5, <3>6, <3>7
  <2>7. QED BY <2>5, <2>6
<1>11. Nat \subseteq N
  <2> HIDE DEF N
  <2>1. QED BY <1>9, <1>10, Induction
<1>12. Good(n)
  <2>1. n \in N /\ n <= n
    <3> HIDE DEF N
    <3>1. QED BY <1>2, <1>11
  <2>2. QED BY <2>1
<1>13. First(n) = ToSet(s)
  BY DEF n, ToSet
<1>14. QED BY <1>1, <1>12, <1>13
-----------------------------------------------------------------------------
(* Sequences, of whatever elements, and the elements of a set in a sequence *)

IsSequence(s) == s \in Seq(ToSet(s))

LEMMA SequenceIs ==
  ASSUME NEW S, NEW s \in Seq(S) PROVE IsSequence(s)
<1>1. Len(s) \in Nat /\ s = [i \in 1..Len(s) |-> s[i]]
  OBVIOUS
<1>2. \A i \in 1..Len(s) : s[i] \in ToSet(s)
  BY DEF ToSet
<1> DEFINE T == ToSet(s)
<1> HIDE DEF T
<1>3. \A i \in 1..Len(s) : s[i] \in T
  BY <1>2 DEF T
<1>4. s \in Seq(T)
  BY <1>1, <1>3
<1>5. QED BY <1>4 DEF IsSequence, T

LEMMA SequenceGrows ==
  ASSUME NEW s, IsSequence(s), NEW e
  PROVE  /\ IsSequence(Append(s, e)) /\ Len(s) \in Nat /\ Append(s, e) # <<>>
         /\ Len(Append(s, e)) = Len(s) + 1 /\ Append(s, e)[Len(s) + 1] = e
         /\ \A i \in 1..Len(s) : Append(s, e)[i] = s[i]
<1>1. PICK S : S = ToSet(s) \union {e}
  OBVIOUS
<1>2. s \in Seq(S) /\ e \in S
  BY <1>1 DEF IsSequence
<1>3. Append(s, e) \in Seq(S)
  BY <1>2
<1>4. IsSequence(Append(s, e))
  BY <1>3, SequenceIs
<1>5. QED BY <1>2, <1>4

IsJoined(st, s, t) ==
  /\ IsSequence(st) /\ Len(s) \in Nat /\ Len(t) \in Nat /\ Len(st) = Len(s) + Len(t)
  /\ \A i \in 1..Len(s) : i \in 1..Len(st) /\ st[i] = s[i]
  /\ \A i \in 1..Len(t) : Len(s) + i \in 1..Len(st) /\ st[Len(s) + i] = t[i]
  /\ \A k \in 1..Len(st) : k \in 1..Len(s) \/ \E i \in 1..Len(t) : k = Len(s) + i

LEMMA SequencesJoined ==
  ASSUME NEW s, IsSequence(s), NEW t, IsSequence(t) PROVE IsJoined(s \o t, s, t)
<1>1. PICK S : S = ToSet(s) \union ToSet(t)
  OBVIOUS
<1>2. s \in Seq(S) /\ t \in Seq(S)
  BY <1>1 DEF IsSequence
<1>3. /\ s \o t \in Seq(S) /\ Len(s \o t) = Len(s) + Len(t)
      /\ \A i \in 1..Len(s) + Len(t) :
           (s \o t)[i] = IF i <= Len(s) THEN s[i] ELSE t[i - Len(s)]
  BY <1>2, ConcatProperties
<1>4. IsSequence(s \o t)
  BY <1>3, SequenceIs
<1>5. PICK m \in Nat, n \in Nat : m = Len(s) /\ n = Len(t)
  BY <1>2
<1> DEFINE st == s \o t
<1> HIDE DEF st
<1>6. Len(st) = m + n /\ \A i \in 1..m + n : st[i] = IF i <= m THEN s[i] ELSE t[i - m]
  BY <1>3, <1>5 DEF st
<1>7. \A i \in 1..m : i \in 1..m + n /\ st[i] = s[i]
  BY <1>6
<1>8. \A i \in 1..n : m + i \in 1..m + n /\ m + i - m = i /\ ~(m + i <= m)
  OBVIOUS
<1>9. \A i \in 1..n : st[m + i] = t[i]
  BY <1>6, <1>8
<1>10. \A k \in 1..m + n : k \in 1..m \/ \E i \in 1..n : k = m + i
  <2> SUFFICES ASSUME NEW k \in 1..m + n, k \notin 1..m PROVE \E i \in 1..n : k = m + i
    OBVIOUS
  <2>1. k - m \in 1..n /\ k = m + (k - m)
    OBVIOUS
  <2>2. QED BY <2>1
<1>11. QED BY <1>4, <1>5, <1>6, <1>7, <1>8, <1>9, <1>10 DEF st, IsJoined

LEMMA LastReplaced ==
  ASSUME NEW s, IsSequence(s), s # <<>>, NEW f
  PROVE  LET t == [s EXCEPT ![Len(s)] = f]
         IN  /\ IsSequence(t) /\ t # <<>> /\ Len(s) \in Nat \ {0} /\ Len(t) = Len(s)
             /\ t[Len(s)] = f
             /\ \A i \in 1..Len(s) : i # Len(s) => t[i] = s[i]
<1>1. PICK S : S = ToSet(s) \union {f}
  OBVIOUS
<1>2. s \in Seq(S) /\ f \in S
  BY <1>1 DEF IsSequence
<1>3. Len(s) \in Nat \ {0}
  BY <1>2
<1>4. PICK t : t = [s EXCEPT ![Len(s)] = f]
  OBVIOUS
<1>5. t \in Seq(S) /\ Len(t) = Len(s) /\ t # <<>>
  BY <1>2, <1>3, <1>4
<1>6. t[Len(s)] = f /\ \A i \in 1..Len(s) : i # Len(s) => t[i] = s[i]
  BY <1>2, <1>3, <1>4
<1>7. IsSequence(t)
  BY <1>5, SequenceIs
<1>8. QED BY <1>3, <1>4, <1>5, <1>6, <1>7

LEMMA FrontOf ==
  ASSUME NEW s, IsSequence(s), s # <<>>
  PROVE  /\ IsSequence(Front(s)) /\ Len(s) \in Nat \ {0} /\ Len(Front(s)) = Len(s) - 1
         /\ \A i \in 1..Len(s) - 1 : Front(s)[i] = s[i]
<1>1. PICK S : S = ToSet(s)
  OBVIOUS
<1>2. s \in Seq(S)
  BY <1>1 DEF IsSequence
<1>3. Len(s) \in Nat \ {0}
  BY <1>2
<1>4. /\ Front(s) \in Seq(S) /\ Len(Front(s)) = Len(s) - 1
      /\ \A i \in 1..Len(s) - 1 : Front(s)[i] = s[i]
  <2>1. \A i \in 1..Len(s) - 1 : s[i] \in S
    BY <1>2
  <2>2. Front(s) = SubSeq(s, 1, Len(s) - 1)
    BY DEF Front
  <2>3. PICK k \in Nat : k = Len(s) - 1
    BY <1>3
  <2>4. /\ SubSeq(s, 1, k) \in Seq(S) /\ Len(SubSeq(s, 1, k)) = IF 1 <= k THEN k - 1 + 1 ELSE 0
        /\ \A i \in 1..k - 1 + 1 : SubSeq(s, 1, k)[i] = s[1 + i - 1]
    <3> 1 \in Int /\ k \in Int /\ \A i \in 1..k : s[i] \in S
      BY <2>1, <2>3
    <3> QED BY SubSeqProperties
  <2>5. Len(SubSeq(s, 1, k)) = k /\ \A i \in 1..k : SubSeq(s, 1, k)[i] = s[i]
    BY <2>3, <2>4
  <2>6. QED BY <2>2, <2>3, <2>4, <2>5
<1>5. QED BY <1>3, <1>4, SequenceIs

LEMMA TailOf ==
  ASSUME NEW s, IsSequence(s), s # <<>>
  PROVE  IsSequence(Tail(s))
<1>1. PICK S : S = ToSet(s)
  OBVIOUS
<1>2. s \in Seq(S)
  BY <1>1 DEF IsSequence
<1>3. Tail(s) \in Seq(S)
  BY <1>2
<1>4. QED BY <1>3, SequenceIs

\* SetToSeq lists the elements of a finite set, each once.
LEMMA SetToSeqIs ==
  ASSUME NEW S, IsFiniteSet(S)
  PROVE  /\ Cardinality(S) \in Nat
         /\ SetToSeq(S) \in [1..Cardinality(S) -> S] /\ IsInjective(SetToSeq(S))
<1> DEFINE T == 1..Cardinality(S)
<1>1. Cardinality(S) \in Nat /\ ExistsBijection(T, S)
  BY FS_CardinalityType
<1>2. \E g \in [T -> S] : IsInjective(g)
  <2>1. PICK g \in Bijection(T, S) : TRUE
    BY <1>1 DEF ExistsBijection
  <2>2. g \in [T -> S] /\ \A a, b \in T : g[a] = g[b] => a = b
    BY <2>1 DEF Bijection, Injection, IsInjective
  <2>3. QED BY <2>2 DEF IsInjective
<1>3. QED BY <1>1, <1>2, Zenon DEF SetToSeq

LEMMA SetToSeqLists ==
  ASSUME NEW S, IsFiniteSet(S)
  PROVE  /\ Cardinality(S) \in Nat
         /\ \A i \in 1..Cardinality(S) : SetToSeq(S)[i] \in S
         /\ \A i, j \in 1..Cardinality(S) : SetToSeq(S)[i] = SetToSeq(S)[j] => i = j
         /\ \A x \in S : \E i \in 1..Cardinality(S) : SetToSeq(S)[i] = x
<1> DEFINE n == Cardinality(S)
           T == 1..n
           f == SetToSeq(S)
<1>1. n \in Nat
  BY SetToSeqIs
<1>3. f \in [T -> S] /\ IsInjective(f)
  BY SetToSeqIs
<1> HIDE DEF f
<1>4. \A i, j \in T : f[i] = f[j] => i = j
  BY <1>3 DEF IsInjective
<1>5. f \in Surjection(T, S)
  <2>1. f \in Injection(T, S)
    BY <1>3, <1>4 DEF Injection, IsInjective
  <2>2. Cardinality(T) = n
    BY <1>1, FS_Interval
  <2>3. QED BY <2>1, <2>2, FS_Injection
<1>6. \A x \in S : \E i \in T : f[i] = x
  BY <1>5 DEF Surjection
<1>7. QED BY <1>1, <1>3, <1>4, <1>6 DEF f
-----------------------------------------------------------------------------
(* Queues that drop their oldest *)

\* t is s and e, without the oldest if something is dropped.
PushedOut(s, t, e, d) ==
  /\ Len(s) \in Nat /\ d \in {0, 1} /\ d <= Len(s) /\ Len(t) = Len(s) + 1 - d
  /\ \A i \in 1..Len(t) : IF i + d <= Len(s) THEN t[i] = s[i + d] ELSE t[i] = e

LEMMA PushAndDrop ==
  ASSUME NEW S, NEW s \in Seq(S), NEW e \in S, NEW most \in Nat \ {0}
  PROVE  LET all == Append(s, e)
             t == IF Len(all) > most THEN Tail(all) ELSE all
         IN  /\ t \in Seq(S)
             /\ PushedOut(s, t, e, IF Len(all) > most THEN 1 ELSE 0)
<1> DEFINE all == Append(s, e)
<1>1. PICK n \in Nat : n = Len(s)
  OBVIOUS
<1>2. /\ all \in Seq(S) /\ Len(all) = n + 1 /\ all # <<>>
      /\ \A i \in 1..n + 1 : IF i <= n THEN all[i] = s[i] ELSE all[i] = e
  <2>1. all \in Seq(S) /\ Len(all) = n + 1 /\ all[n + 1] = e
    BY <1>1
  <2>2. \A i \in 1..n : all[i] = s[i]
    BY <1>1
  <2>3. all # <<>>
    BY <2>1
  <2> HIDE DEF all
  <2>4. \A i \in 1..n + 1 : i \in 1..n \/ i = n + 1
    OBVIOUS
  <2>5. ~(n + 1 <= n) /\ \A i \in 1..n : i <= n
    OBVIOUS
  <2>6. QED BY <2>1, <2>2, <2>3, <2>4, <2>5
<1> HIDE DEF all
<1>3. CASE ~(Len(all) > most)
  <2>1. \A i \in 1..n + 1 : i + 0 = i
    OBVIOUS
  <2>2. PushedOut(s, all, e, 0)
    BY <1>1, <1>2, <2>1 DEF PushedOut
  <2>3. QED BY <1>2, <1>3, <2>2 DEF all
<1>4. CASE Len(all) > most
  <2>1. 1 <= n
    BY <1>2, <1>4
  <2>2. /\ Tail(all) \in Seq(S) /\ Len(Tail(all)) = n
        /\ \A i \in 1..n : Tail(all)[i] = all[i + 1]
    BY <1>2
  <2>3. \A i \in 1..n : i + 1 \in 1..n + 1
    OBVIOUS
  <2>4. \A i \in 1..n : IF i + 1 <= n THEN Tail(all)[i] = s[i + 1] ELSE Tail(all)[i] = e
    BY <1>2, <2>2, <2>3
  <2>5. PushedOut(s, Tail(all), e, 1)
    <3>1. PICK t : t = Tail(all)
      OBVIOUS
    <3>2. /\ Len(t) = n /\ n + 1 - 1 = n /\ 1 \in {0, 1}
          /\ \A i \in 1..n : IF i + 1 <= n THEN t[i] = s[i + 1] ELSE t[i] = e
      BY <2>2, <2>4, <3>1
    <3>3. QED BY <1>1, <2>1, <3>1, <3>2 DEF PushedOut
  <2>6. QED BY <1>4, <2>2, <2>5 DEF all
<1>5. QED BY <1>3, <1>4
=============================================================================

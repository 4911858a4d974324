------------------------------ MODULE SumLemmas ------------------------------
(***************************************************************************)
(* Facts about SumFunctionOnSet of the community modules, by which the     *)
(* other modules add up seats, payments and installments.  The library     *)
(* defines it by recursion over the set; what is proved here needs no      *)
(* induction theorem with an operator as its parameter: a set that a fact  *)
(* fails for contains a smallest one (SmallestSubset).                     *)
(***************************************************************************)
EXTENDS FiniteSetTheorems, TLAPS

(* Of the subsets of a finite set that a family has, one has no smaller    *)
(* one in it.                                                              *)
LEMMA SmallestSubset ==
  ASSUME NEW S, IsFiniteSet(S), NEW F, F \subseteq SUBSET S, F # {}
  PROVE  \E T \in F : \A U \in F : U \subseteq T => U = T
<1>1. IsWellFoundedOn(StrictSubsetOrdering(S), FiniteSubsetsOf(S)) /\ FiniteSubsetsOf(S) = SUBSET S
  BY FS_StrictSubsetOrderingWellFounded, FS_FiniteSubsetsOfFinite
<1>2. PICK T \in F : \A U \in F : ~(<<U, T>> \in StrictSubsetOrdering(S))
  BY <1>1, WFMin
<1>3. \A U \in F : U \subseteq T => U = T
  BY <1>2 DEF StrictSubsetOrdering
<1> QED BY <1>3

(* A set of natural numbers has a least one.                               *)
LEMMA LeastNatural ==
  ASSUME NEW F, F \subseteq Nat, F # {}
  PROVE  \E n \in F : \A m \in F : n <= m
<1> DEFINE Less == {ss \in Nat \X Nat : ss[1] < ss[2]}
<1>1. IsWellFoundedOn(Less, Nat)
  BY NatLessThanWellFounded DEF OpToRel
<1>2. \A m, n \in Nat : m < n => <<m, n>> \in Less
  OBVIOUS
<1> HIDE DEF Less
<1>3. PICK n \in F : \A m \in F : ~(<<m, n>> \in Less)
  BY <1>1, WFMin
<1>4. \A m \in F : m \in Nat /\ n \in Nat /\ ~(m < n)
  BY <1>2, <1>3
<1> QED BY <1>4

(* A finite set of numbers has a least and a greatest one.                 *)
LEMMA LeastAndGreatest ==
  ASSUME NEW S, IsFiniteSet(S)
  PROVE  S # {} /\ S \subseteq Int =>
           (\E a \in S : \A x \in S : a <= x) /\ (\E b \in S : \A x \in S : b >= x)
<1> DEFINE Bad == {T \in SUBSET S : T # {} /\ T \subseteq Int /\ ~\E a, b \in T : \A x \in T : a <= x /\ b >= x}
<1>1. ASSUME Bad # {} PROVE FALSE
  <2>1. Bad \subseteq SUBSET S
    OBVIOUS
  <2> HIDE DEF Bad
  <2>2. PICK T \in Bad : \A U \in Bad : U \subseteq T => U = T
    BY <1>1, <2>1, SmallestSubset
  <2>3. T \subseteq Int /\ T \in SUBSET S /\ T # {} /\ ~\E a, b \in T : \A x \in T : a <= x /\ b >= x
    BY <2>2 DEF Bad
  <2>4. PICK y \in T : TRUE
    BY <2>3
  <2>5. T # {y}
    BY <2>3
  <2>6. T \ {y} # {} /\ T \ {y} \in SUBSET S /\ T \ {y} \notin Bad
    <3>1. T \ {y} \subseteq T /\ T \ {y} # T /\ T \ {y} # {} /\ T \ {y} \in SUBSET S
      BY <2>3, <2>4, <2>5
    <3>2. QED
      BY <2>2, <3>1
  <2>7. PICK a, b \in T \ {y} : \A x \in T \ {y} : a <= x /\ b >= x
    BY <2>6 DEF Bad
  <2>8. a \in Int /\ b \in Int /\ y \in Int /\ \A x \in T : x \in Int
    BY <2>3, <2>4, <2>7
  <2>9. PICK c \in T : c <= a /\ c <= y /\ c \in Int
    BY <2>4, <2>7, <2>8
  <2>10. PICK d \in T : d >= b /\ d >= y /\ d \in Int
    BY <2>4, <2>7, <2>8
  <2>11. \A x \in T : c <= x /\ d >= x
    BY <2>7, <2>8, <2>9, <2>10
  <2>12. QED
    BY <2>3, <2>11
<1>2. S \notin Bad
  BY <1>1
<1>3. QED
  BY <1>2

-----------------------------------------------------------------------------
(* The recursive function behind the sum of f over S.                      *)
Chosen(s) == CHOOSE x \in s : TRUE
AddsUp(g, f, D) == g = [s \in D |-> IF s = {} THEN 0 ELSE f[Chosen(s)] + g[s \ {Chosen(s)}]]

LEMMA ChosenIn == \A s : s # {} => Chosen(s) \in s
  BY DEF Chosen

(* It exists: on the sets of up to n elements, for every n.                *)
LEMMA SumExists ==
  ASSUME NEW S, IsFiniteSet(S), NEW f
  PROVE  \E g : AddsUp(g, f, SUBSET S)
<1> DEFINE Upto(n) == {s \in SUBSET S : Cardinality(s) <= n}
           Good == {n \in Nat : \E g : AddsUp(g, f, Upto(n))}
<1>1. \A s \in SUBSET S : IsFiniteSet(s) /\ Cardinality(s) \in Nat
  BY FS_Subset, FS_CardinalityType
<1>2. 0 \in Good
  <2>1. Upto(0) = {{}}
    BY <1>1, FS_EmptySet
  <2>2. AddsUp([s \in Upto(0) |-> 0], f, Upto(0))
    BY <2>1 DEF AddsUp
  <2> QED BY <2>2
<1>3. ASSUME NEW n \in Good PROVE n + 1 \in Good
  <2>1. PICK g : AddsUp(g, f, Upto(n))
    OBVIOUS
  <2> DEFINE h == [s \in Upto(n + 1) |-> IF s = {} THEN 0 ELSE f[Chosen(s)] + g[s \ {Chosen(s)}]]
  <2>2. \A s \in Upto(n) : h[s] = g[s]
    <3>1. \A s \in Upto(n) : s \in Upto(n + 1)
      BY <1>1
    <3> QED BY <2>1, <3>1 DEF AddsUp
  <2>3. \A s \in Upto(n + 1) : s # {} => s \ {Chosen(s)} \in Upto(n)
    <3> SUFFICES ASSUME NEW s \in Upto(n + 1), s # {} PROVE s \ {Chosen(s)} \in Upto(n)
      OBVIOUS
    <3>1. Cardinality(s \ {Chosen(s)}) = Cardinality(s) - 1
      BY <1>1, ChosenIn, FS_RemoveElement
    <3> QED BY <1>1, <3>1
  <2>4. h = [s \in Upto(n + 1) |-> IF s = {} THEN 0 ELSE f[Chosen(s)] + h[s \ {Chosen(s)}]]
    BY <2>2, <2>3
  <2>5. AddsUp(h, f, Upto(n + 1))
    BY <2>4 DEF AddsUp
  <2> HIDE DEF h, Upto
  <2>6. n + 1 \in Nat /\ \E k : AddsUp(k, f, Upto(n + 1))
    BY <2>5
  <2> QED BY <2>6
<1>4. Good = Nat
  <2> SUFFICES ASSUME Nat \ Good # {} PROVE FALSE
    OBVIOUS
  <2> HIDE DEF Good
  <2>0. Good \subseteq Nat
    BY DEF Good
  <2>1. PICK n \in Nat \ Good : \A m \in Nat \ Good : n <= m
    BY LeastNatural
  <2>2. n # 0 /\ n - 1 \in Nat /\ (n - 1) + 1 = n
    BY <1>2
  <2>3. n - 1 \in Good
    BY <2>1, <2>2
  <2> QED BY <1>3, <2>2, <2>3
<1>5. Upto(Cardinality(S)) = SUBSET S
  BY <1>1, FS_Subset
<1>6. Cardinality(S) \in Good
  BY <1>1, <1>4
<1> QED BY <1>5, <1>6

(* It is the only one, on whatever set of sets.                            *)
LEMMA SumUnique ==
  ASSUME NEW S, NEW T, NEW f, NEW g, NEW h, IsFiniteSet(S), T \subseteq S,
         AddsUp(g, f, SUBSET S), AddsUp(h, f, SUBSET T)
  PROVE  g[T] = h[T]
<1> DEFINE Bad == {s \in SUBSET T : g[s] # h[s]}
<1> SUFFICES ASSUME Bad # {} PROVE FALSE
  OBVIOUS
<1>1. IsFiniteSet(T) /\ Bad \subseteq SUBSET T
  BY FS_Subset
<1> HIDE DEF Bad
<1>2. PICK s \in Bad : \A u \in Bad : u \subseteq s => u = s
  BY <1>1, SmallestSubset
<1>3. s \in SUBSET T /\ g[s] # h[s]
  BY DEF Bad
<1>4. s # {}
  BY <1>3 DEF AddsUp
<1>5. s \ {Chosen(s)} \notin Bad
  BY <1>2, <1>4, ChosenIn
<1>6. g[s \ {Chosen(s)}] = h[s \ {Chosen(s)}]
  BY <1>3, <1>5 DEF Bad
<1>7. /\ g[s] = f[Chosen(s)] + g[s \ {Chosen(s)}]
      /\ h[s] = f[Chosen(s)] + h[s \ {Chosen(s)}]
  BY <1>3, <1>4 DEF AddsUp
<1> QED BY <1>3, <1>6, <1>7

(* The sum, one element of the set at a time.                              *)
LEMMA SumUnfolds ==
  ASSUME NEW f, NEW S, IsFiniteSet(S)
  PROVE  SumFunctionOnSet(f, S) =
           IF S = {} THEN 0 ELSE f[Chosen(S)] + SumFunctionOnSet(f, S \ {Chosen(S)})
<1> DEFINE Sum(T) == CHOOSE g : AddsUp(g, f, SUBSET T)
<1>1. \A T : SumFunctionOnSet(f, T) = Sum(T)[T]
  BY DEF SumFunctionOnSet, FoldFunctionOnSet, MapThenFoldSet, AddsUp, Chosen
<1>2. \A T \in SUBSET S : AddsUp(Sum(T), f, SUBSET T)
  BY SumExists, FS_Subset
<1> HIDE DEF Sum
<1>3. CASE S = {}
  <2>1. AddsUp(Sum(S), f, SUBSET S) /\ S \in SUBSET S
    BY <1>2
  <2>2. Sum(S)[S] = 0
    BY <1>3, <2>1 DEF AddsUp
  <2> QED BY <1>1, <1>3, <2>2
<1>4. CASE S # {}
  <2> DEFINE T == S \ {Chosen(S)}
  <2>3. AddsUp(Sum(S), f, SUBSET S) /\ AddsUp(Sum(T), f, SUBSET T) /\ T \in SUBSET S
    BY <1>2
  <2>1. Sum(S)[S] = f[Chosen(S)] + Sum(S)[T]
    BY <1>4, <2>3 DEF AddsUp
  <2>2. Sum(S)[T] = Sum(T)[T]
    <3> HIDE DEF T
    <3> QED BY <2>3, SumUnique
  <2> QED BY <1>1, <1>4, <2>1, <2>2
<1> QED BY <1>3, <1>4
-----------------------------------------------------------------------------
(* The sum of nothing.                                                     *)
LEMMA SumOfNone == \A f : SumFunctionOnSet(f, {}) = 0
  BY SumUnfolds, FS_EmptySet

(* A sum of integers is one.                                               *)
LEMMA SumType ==
  ASSUME NEW f, NEW S, IsFiniteSet(S), \A x \in S : f[x] \in Int
  PROVE  SumFunctionOnSet(f, S) \in Int
<1> DEFINE Bad == {T \in SUBSET S : SumFunctionOnSet(f, T) \notin Int}
<1> SUFFICES ASSUME Bad # {} PROVE FALSE
  OBVIOUS
<1>0. Bad \subseteq SUBSET S
  OBVIOUS
<1> HIDE DEF Bad
<1>1. PICK T \in Bad : \A U \in Bad : U \subseteq T => U = T
  BY <1>0, SmallestSubset
<1>2. T \in SUBSET S /\ IsFiniteSet(T) /\ SumFunctionOnSet(f, T) \notin Int
  BY FS_Subset DEF Bad
<1>3. T # {}
  BY <1>2, SumOfNone
<1>4. T \ {Chosen(T)} \notin Bad /\ T \ {Chosen(T)} \in SUBSET S
  BY <1>1, <1>2, <1>3, ChosenIn
<1>5. SumFunctionOnSet(f, T \ {Chosen(T)}) \in Int /\ f[Chosen(T)] \in Int
  BY <1>2, <1>3, <1>4, ChosenIn DEF Bad
<1> QED BY <1>2, <1>3, <1>5, SumUnfolds

(* Any element may be taken out first.                                     *)
LEMMA SumWithout ==
  ASSUME NEW f, NEW S, IsFiniteSet(S), \A x \in S : f[x] \in Int, NEW y \in S
  PROVE  SumFunctionOnSet(f, S) = f[y] + SumFunctionOnSet(f, S \ {y})
<1> DEFINE Sum(T) == SumFunctionOnSet(f, T)
           Bad == {T \in SUBSET S : \E x \in T : Sum(T) # f[x] + Sum(T \ {x})}
<1> SUFFICES ASSUME Bad # {} PROVE FALSE
  OBVIOUS
<1>0. /\ \A T \in SUBSET S : Sum(T) \in Int
      /\ \A T \in SUBSET S : T # {} => Sum(T) = f[Chosen(T)] + Sum(T \ {Chosen(T)})
  BY FS_Subset, SumType, SumUnfolds
<1>9. Bad \subseteq SUBSET S
  OBVIOUS
<1> HIDE DEF Bad, Sum
<1>1. PICK T \in Bad : \A U \in Bad : U \subseteq T => U = T
  BY <1>9, SmallestSubset
<1>2. T \in SUBSET S
  BY DEF Bad
<1>3. PICK x \in T : Sum(T) # f[x] + Sum(T \ {x})
  BY DEF Bad
<1> DEFINE c == Chosen(T)
           T1 == T \ {c}
           T2 == T \ {x}
           T3 == T1 \ {x}
<1>4. c \in T /\ Sum(T) = f[c] + Sum(T1)
  BY <1>0, <1>2, ChosenIn
<1>5. c # x
  BY <1>3, <1>4
<1>6. T1 \notin Bad /\ T2 \notin Bad /\ {T1, T2, T3} \subseteq SUBSET S /\ x \in T1 /\ c \in T2 /\ T2 \ {c} = T3
  BY <1>1, <1>2, <1>4, <1>5
<1>7. Sum(T1) = f[x] + Sum(T3) /\ Sum(T2) = f[c] + Sum(T3)
  BY <1>6 DEF Bad
<1>8. {f[c], f[x], Sum(T3)} \subseteq Int
  BY <1>0, <1>2, <1>4, <1>6
<1> HIDE DEF c, T1, T3
<1> QED BY <1>3, <1>4, <1>7, <1>8

(* Functions that agree on the set have the same sum; a greater one has    *)
(* not a smaller sum.                                                      *)
LEMMA SumAtMost ==
  ASSUME NEW f, NEW g, NEW S, IsFiniteSet(S),
         \A x \in S : f[x] \in Int /\ g[x] \in Int /\ f[x] <= g[x]
  PROVE  SumFunctionOnSet(f, S) <= SumFunctionOnSet(g, S)
<1> DEFINE Bad == {T \in SUBSET S : ~(SumFunctionOnSet(f, T) <= SumFunctionOnSet(g, T))}
<1> SUFFICES ASSUME Bad # {} PROVE FALSE
  OBVIOUS
<1>0. Bad \subseteq SUBSET S
  OBVIOUS
<1> HIDE DEF Bad
<1>1. PICK T \in Bad : \A U \in Bad : U \subseteq T => U = T
  BY <1>0, SmallestSubset
<1>2. T \in SUBSET S /\ IsFiniteSet(T) /\ ~(SumFunctionOnSet(f, T) <= SumFunctionOnSet(g, T))
  BY FS_Subset DEF Bad
<1>3. T # {}
  BY <1>2, SumOfNone
<1> DEFINE U == T \ {Chosen(T)}
<1>4. Chosen(T) \in T /\ U \notin Bad /\ U \in SUBSET S /\ IsFiniteSet(U)
  BY <1>1, <1>2, <1>3, ChosenIn, FS_Subset
<1>5. SumFunctionOnSet(f, U) <= SumFunctionOnSet(g, U)
  BY <1>4 DEF Bad
<1>6. SumFunctionOnSet(f, U) \in Int /\ SumFunctionOnSet(g, U) \in Int
  BY <1>4, SumType
<1>7. /\ SumFunctionOnSet(f, T) = f[Chosen(T)] + SumFunctionOnSet(f, U)
      /\ SumFunctionOnSet(g, T) = g[Chosen(T)] + SumFunctionOnSet(g, U)
  BY <1>2, <1>3, SumUnfolds
<1>8. f[Chosen(T)] \in Int /\ g[Chosen(T)] \in Int /\ f[Chosen(T)] <= g[Chosen(T)]
  BY <1>2, <1>4
<1> HIDE DEF U
<1> QED BY <1>2, <1>5, <1>6, <1>7, <1>8

LEMMA SumEqual ==
  ASSUME NEW f, NEW g, NEW S, IsFiniteSet(S), \A x \in S : f[x] \in Int /\ f[x] = g[x]
  PROVE  SumFunctionOnSet(f, S) = SumFunctionOnSet(g, S)
<1>1. /\ SumFunctionOnSet(f, S) <= SumFunctionOnSet(g, S)
      /\ SumFunctionOnSet(g, S) <= SumFunctionOnSet(f, S)
  BY SumAtMost
<1>2. SumFunctionOnSet(f, S) \in Int /\ SumFunctionOnSet(g, S) \in Int
  BY SumType
<1> QED BY <1>1, <1>2

(* The sum of natural numbers is one.                                      *)
LEMMA SumNatural ==
  ASSUME NEW f, NEW S, IsFiniteSet(S), \A x \in S : f[x] \in Nat
  PROVE  SumFunctionOnSet(f, S) \in Nat
<1> DEFINE Bad == {T \in SUBSET S : SumFunctionOnSet(f, T) \notin Nat}
<1> SUFFICES ASSUME Bad # {} PROVE FALSE
  OBVIOUS
<1>0. Bad \subseteq SUBSET S
  OBVIOUS
<1> HIDE DEF Bad
<1>2. PICK T \in Bad : \A U \in Bad : U \subseteq T => U = T
  BY <1>0, SmallestSubset
<1>3. T \in SUBSET S /\ IsFiniteSet(T) /\ SumFunctionOnSet(f, T) \notin Nat
  BY FS_Subset DEF Bad
<1>4. T # {}
  BY <1>3, SumOfNone
<1>5. T \ {Chosen(T)} \notin Bad /\ T \ {Chosen(T)} \in SUBSET S
  BY <1>2, <1>3, <1>4, ChosenIn
<1>6. SumFunctionOnSet(f, T \ {Chosen(T)}) \in Nat /\ f[Chosen(T)] \in Nat
  BY <1>3, <1>4, <1>5, ChosenIn DEF Bad
<1> QED BY <1>3, <1>4, <1>6, SumUnfolds

(* The sum of zeros.                                                       *)
LEMMA SumOfZeros ==
  ASSUME NEW f, NEW S, IsFiniteSet(S), \A x \in S : f[x] = 0
  PROVE  SumFunctionOnSet(f, S) = 0
<1> DEFINE Bad == {T \in SUBSET S : SumFunctionOnSet(f, T) # 0}
<1> SUFFICES ASSUME Bad # {} PROVE FALSE
  OBVIOUS
<1>0. Bad \subseteq SUBSET S
  OBVIOUS
<1> HIDE DEF Bad
<1>2. PICK T \in Bad : \A U \in Bad : U \subseteq T => U = T
  BY <1>0, SmallestSubset
<1>3. T \in SUBSET S /\ IsFiniteSet(T) /\ SumFunctionOnSet(f, T) # 0
  BY FS_Subset DEF Bad
<1>4. T # {}
  BY <1>3, SumOfNone
<1>5. T \ {Chosen(T)} \notin Bad /\ T \ {Chosen(T)} \in SUBSET S
  BY <1>2, <1>3, <1>4, ChosenIn
<1>6. SumFunctionOnSet(f, T \ {Chosen(T)}) = 0 /\ f[Chosen(T)] = 0
  BY <1>3, <1>4, <1>5, ChosenIn DEF Bad
<1> QED BY <1>3, <1>4, <1>6, SumUnfolds

LEMMA SumOfMoreZeros ==
  ASSUME NEW f, NEW S, IsFiniteSet(S), \A x \in S : f[x] \in Int,
         NEW T, T \subseteq S, \A x \in S \ T : f[x] = 0
  PROVE  SumFunctionOnSet(f, S) = SumFunctionOnSet(f, T)
<1> DEFINE Bad == {U \in SUBSET S : T \subseteq U /\ SumFunctionOnSet(f, U) # SumFunctionOnSet(f, T)}
<1> SUFFICES ASSUME Bad # {} PROVE FALSE
  OBVIOUS
<1>0. Bad \subseteq SUBSET S
  OBVIOUS
<1> HIDE DEF Bad
<1>1. PICK U \in Bad : \A V \in Bad : V \subseteq U => V = U
  BY <1>0, SmallestSubset
<1>2. U \in SUBSET S /\ T \subseteq U /\ SumFunctionOnSet(f, U) # SumFunctionOnSet(f, T)
  BY DEF Bad
<1>3. \A V \in SUBSET S : IsFiniteSet(V) /\ SumFunctionOnSet(f, V) \in Int
  BY FS_Subset, SumType
<1>4. PICK y \in U : y \notin T
  BY <1>2
<1> DEFINE V == U \ {y}
<1>5. V \in SUBSET S /\ T \subseteq V /\ V \notin Bad
  BY <1>1, <1>2, <1>4
<1>6. SumFunctionOnSet(f, V) = SumFunctionOnSet(f, T)
  BY <1>5 DEF Bad
<1>7. SumFunctionOnSet(f, U) = f[y] + SumFunctionOnSet(f, V) /\ f[y] = 0
  BY <1>2, <1>3, <1>4, SumWithout
<1> HIDE DEF V
<1> QED BY <1>2, <1>3, <1>5, <1>6, <1>7

(* One more element.                                                       *)
LEMMA SumAdded ==
  ASSUME NEW f, NEW S, IsFiniteSet(S), NEW y, y \notin S, f[y] \in Int, \A x \in S : f[x] \in Int
  PROVE  SumFunctionOnSet(f, S \cup {y}) = f[y] + SumFunctionOnSet(f, S)
<1>1. IsFiniteSet(S \cup {y}) /\ (S \cup {y}) \ {y} = S
  BY FS_AddElement
<1> QED BY <1>1, SumWithout

(* The value of one element changes.                                       *)
LEMMA SumChanged ==
  ASSUME NEW f, NEW g, NEW S, IsFiniteSet(S), NEW y \in S,
         \A x \in S : f[x] \in Int /\ g[x] \in Int /\ (x # y => g[x] = f[x])
  PROVE  SumFunctionOnSet(g, S) = SumFunctionOnSet(f, S) - f[y] + g[y]
<1> DEFINE rest == S \ {y}
<1>1. IsFiniteSet(rest)
  BY FS_Subset
<1>2. SumFunctionOnSet(g, rest) = SumFunctionOnSet(f, rest)
  BY <1>1, SumEqual
<1>3. SumFunctionOnSet(f, rest) \in Int
  BY <1>1, SumType
<1>4. /\ SumFunctionOnSet(f, S) = f[y] + SumFunctionOnSet(f, rest)
      /\ SumFunctionOnSet(g, S) = g[y] + SumFunctionOnSet(g, rest)
  BY SumWithout
<1> HIDE DEF rest
<1> QED BY <1>2, <1>3, <1>4

(* Part of a set has not a greater sum.                                    *)
LEMMA SumOfPart ==
  ASSUME NEW f, NEW S, IsFiniteSet(S), \A x \in S : f[x] \in Nat, NEW T, T \subseteq S
  PROVE  SumFunctionOnSet(f, T) <= SumFunctionOnSet(f, S)
<1> DEFINE Bad == {U \in SUBSET S : T \subseteq U /\ ~(SumFunctionOnSet(f, T) <= SumFunctionOnSet(f, U))}
<1> SUFFICES ASSUME Bad # {} PROVE FALSE
  OBVIOUS
<1>0. Bad \subseteq SUBSET S
  OBVIOUS
<1> HIDE DEF Bad
<1>1. PICK U \in Bad : \A V \in Bad : V \subseteq U => V = U
  BY <1>0, SmallestSubset
<1>2. U \in SUBSET S /\ T \subseteq U /\ ~(SumFunctionOnSet(f, T) <= SumFunctionOnSet(f, U))
  BY DEF Bad
<1>3. \A V \in SUBSET S : IsFiniteSet(V) /\ SumFunctionOnSet(f, V) \in Nat
  BY FS_Subset, SumNatural
<1>4. PICK y \in U : y \notin T
  BY <1>2, <1>3
<1> DEFINE V == U \ {y}
<1>5. V \in SUBSET S /\ T \subseteq V /\ V \notin Bad
  BY <1>1, <1>2, <1>4
<1>6. SumFunctionOnSet(f, T) <= SumFunctionOnSet(f, V)
  BY <1>5 DEF Bad
<1>7. SumFunctionOnSet(f, U) = f[y] + SumFunctionOnSet(f, V) /\ f[y] \in Nat
  BY <1>2, <1>3, SumWithout
<1> HIDE DEF V
<1> QED BY <1>2, <1>3, <1>5, <1>6, <1>7

(* Elements that are worth one or more are not more than they are worth.   *)
LEMMA CountAtMostSum ==
  ASSUME NEW f, NEW S, IsFiniteSet(S), \A x \in S : f[x] \in Nat \ {0}
  PROVE  Cardinality(S) <= SumFunctionOnSet(f, S)
<1> DEFINE Bad == {T \in SUBSET S : ~(Cardinality(T) <= SumFunctionOnSet(f, T))}
<1> SUFFICES ASSUME Bad # {} PROVE FALSE
  OBVIOUS
<1>0. Bad \subseteq SUBSET S
  OBVIOUS
<1> HIDE DEF Bad
<1>1. PICK T \in Bad : \A U \in Bad : U \subseteq T => U = T
  BY <1>0, SmallestSubset
<1>2. T \in SUBSET S /\ ~(Cardinality(T) <= SumFunctionOnSet(f, T))
  BY DEF Bad
<1>3. \A U \in SUBSET S : IsFiniteSet(U) /\ SumFunctionOnSet(f, U) \in Nat /\ Cardinality(U) \in Nat
  BY FS_Subset, FS_CardinalityType, SumNatural
<1>4. T # {}
  BY <1>2, SumOfNone, FS_EmptySet
<1>5. PICK y \in T : TRUE
  BY <1>4
<1> DEFINE U == T \ {y}
<1>6. U \in SUBSET S /\ U \notin Bad
  BY <1>1, <1>2
<1>7. Cardinality(U) <= SumFunctionOnSet(f, U)
  BY <1>6 DEF Bad
<1>8. Cardinality(T) = Cardinality(U) + 1
  BY <1>2, <1>3, FS_RemoveElement
<1>9. SumFunctionOnSet(f, T) = f[y] + SumFunctionOnSet(f, U) /\ f[y] \in Nat \ {0}
  BY <1>2, <1>3, SumWithout
<1> HIDE DEF U
<1> QED BY <1>2, <1>3, <1>6, <1>7, <1>8, <1>9
=============================================================================

--------------------------------- MODULE Sums ---------------------------------
(***************************************************************************)
(* Facts about sums over finite sets, for any set and any integers.        *)
(*                                                                         *)
(* The modules of the model add with the folds of the community modules,   *)
(* which are recursive functions on the subsets of a set.  Here a sum is   *)
(* described by its recursion alone, and the facts that induction would    *)
(* give are found at a smallest counterexample.                            *)
(***************************************************************************)
EXTENDS Integers, Sequences, FiniteSets, Functions, FiniteSetTheorems, WellFoundedInduction, TLAPS

(* h adds up f over every subset of S. *)
Adds(h, f, S) ==
  /\ h[{}] = 0
  /\ \A T \in SUBSET S : T # {} => \E x \in T : h[T] = f[x] + h[T \ {x}]

SumOf(f, S) == (CHOOSE h : Adds(h, f, S))[S]

IntOn(f, S) == \A x \in S : f[x] \in Int

-----------------------------------------------------------------------------
(* A nonempty set of natural numbers has a least one.                      *)
LEMMA LeastNumber ==
  ASSUME NEW N \in SUBSET Nat, N # {}
  PROVE  \E n \in N : \A m \in N : n <= m
  <1> DEFINE R == OpToRel(<, Nat)
  <1>1. PICK n \in N : \A m \in N : <<m, n>> \notin R
    <2> HIDE DEF R
    <2>1. IsWellFoundedOn(R, Nat)
      BY NatLessThanWellFounded DEF R
    <2> QED
      BY <2>1, WFMin
  <1>2. \A m \in N : ~(m < n)
    BY <1>1 DEF OpToRel
  <1>3. \A m \in N : n \in Nat /\ m \in Nat
    OBVIOUS
  <1> QED
    BY <1>2, <1>3

(* Of a nonempty collection of subsets of a finite set, one is smallest.   *)
LEMMA SmallestSubset ==
  ASSUME NEW S, IsFiniteSet(S), NEW C \in SUBSET SUBSET S, C # {}
  PROVE  \E T \in C : \A x \in T : T \ {x} \notin C
  <1> DEFINE N == {Cardinality(T) : T \in C}
  <1>1. \A T \in C : IsFiniteSet(T) /\ Cardinality(T) \in Nat
    BY FS_Subset, FS_CardinalityType
  <1>2. N \in SUBSET Nat /\ N # {}
    BY <1>1
  <1>3. PICK n \in N : \A m \in N : n <= m
    <2> HIDE DEF N
    <2> QED
      BY <1>2, LeastNumber
  <1>4. PICK T \in C : n = Cardinality(T)
    OBVIOUS
  <1>5. ASSUME NEW x \in T, T \ {x} \in C PROVE FALSE
    <2>1. Cardinality(T \ {x}) = Cardinality(T) - 1
      BY <1>1, FS_RemoveElement
    <2>2. Cardinality(T) <= Cardinality(T \ {x})
      BY <1>3, <1>4, <1>5
    <2> QED
      BY <1>1, <2>1, <2>2
  <1> QED
    BY <1>5

LEMMA AddsInt ==
  ASSUME NEW S, IsFiniteSet(S), NEW f, IntOn(f, S), NEW h, Adds(h, f, S)
  PROVE  \A T \in SUBSET S : h[T] \in Int
  <1> DEFINE Bad == {T \in SUBSET S : h[T] \notin Int}
  <1>1. SUFFICES ASSUME Bad # {} PROVE FALSE
    OBVIOUS
  <1>2. PICK T \in Bad : \A x \in T : T \ {x} \notin Bad
    <2>1. Bad \in SUBSET SUBSET S
      OBVIOUS
    <2> HIDE DEF Bad
    <2> QED
      BY <1>1, <2>1, SmallestSubset
  <1>3. T # {}
    <2>1. h[{}] \in Int
      BY DEF Adds
    <2> QED
      BY <2>1
  <1>4. PICK x \in T : h[T] = f[x] + h[T \ {x}]
    BY <1>3 DEF Adds
  <1> DEFINE a == f[x]
             b == h[T \ {x}]
  <1>5. a \in Int /\ b \in Int
    BY <1>2 DEF IntOn
  <1>6. h[T] = a + b /\ h[T] \notin Int
    BY <1>4
  <1> HIDE DEF a, b
  <1> QED
    BY <1>5, <1>6

(* The order in which the elements are added does not matter.              *)
LEMMA AddsInAnyOrder ==
  ASSUME NEW S, IsFiniteSet(S), NEW f, IntOn(f, S), NEW h, Adds(h, f, S)
  PROVE  \A T \in SUBSET S : \A x \in T : h[T] = f[x] + h[T \ {x}]
  <1> DEFINE Bad == {T \in SUBSET S : \E x \in T : h[T] # f[x] + h[T \ {x}]}
  <1>1. SUFFICES ASSUME Bad # {} PROVE FALSE
    OBVIOUS
  <1>2. PICK T \in Bad : \A x \in T : T \ {x} \notin Bad
    <2>1. Bad \in SUBSET SUBSET S
      OBVIOUS
    <2> HIDE DEF Bad
    <2> QED
      BY <1>1, <2>1, SmallestSubset
  <1>3. PICK x \in T : h[T] # f[x] + h[T \ {x}]
    OBVIOUS
  <1>4. PICK y \in T : h[T] = f[y] + h[T \ {y}]
    BY <1>3 DEF Adds
  <1>5. x # y
    BY <1>3, <1>4
  <1>6. /\ h[T \ {y}] = f[x] + h[(T \ {y}) \ {x}]
        /\ h[T \ {x}] = f[y] + h[(T \ {x}) \ {y}]
    BY <1>2, <1>5
  <1>7. (T \ {y}) \ {x} = (T \ {x}) \ {y}
    OBVIOUS
  <1> DEFINE a == f[x]
             b == f[y]
             c == h[(T \ {x}) \ {y}]
  <1>8. a \in Int /\ b \in Int /\ c \in Int
    BY AddsInt DEF IntOn
  <1>9. h[T] = b + (a + c) /\ h[T] # a + (b + c)
    BY <1>3, <1>4, <1>6, <1>7
  <1> HIDE DEF a, b, c
  <1> QED
    BY <1>8, <1>9

(* Sums of functions that agree on the set are equal, so there is one.     *)
LEMMA AddsAgree ==
  ASSUME NEW S, IsFiniteSet(S), NEW f, NEW g, IntOn(f, S), \A x \in S : f[x] = g[x],
         NEW h, NEW k, Adds(h, f, S), Adds(k, g, S)
  PROVE  \A T \in SUBSET S : h[T] = k[T]
  <1> DEFINE Bad == {T \in SUBSET S : h[T] # k[T]}
  <1>1. SUFFICES ASSUME Bad # {} PROVE FALSE
    OBVIOUS
  <1>2. PICK T \in Bad : \A x \in T : T \ {x} \notin Bad
    <2>1. Bad \in SUBSET SUBSET S
      OBVIOUS
    <2> HIDE DEF Bad
    <2> QED
      BY <1>1, <2>1, SmallestSubset
  <1>3. T # {}
    BY DEF Adds
  <1>4. PICK x \in T : TRUE
    BY <1>3
  <1>5. IntOn(g, S)
    BY DEF IntOn
  <1>6. h[T] = f[x] + h[T \ {x}] /\ k[T] = g[x] + k[T \ {x}]
    BY <1>5, AddsInAnyOrder
  <1>7. h[T \ {x}] = k[T \ {x}]
    BY <1>2
  <1> QED
    BY <1>6, <1>7

(* There is a sum.                                                         *)
LEMMA AddsExists ==
  ASSUME NEW S, IsFiniteSet(S), NEW f, IntOn(f, S)
  PROVE  \E h : Adds(h, f, S)
  <1> DEFINE Bad == {T \in SUBSET S : ~\E h : Adds(h, f, T)}
  <1>1. SUFFICES ASSUME Bad # {} PROVE FALSE
    OBVIOUS
  <1>2. PICK T \in Bad : \A x \in T : T \ {x} \notin Bad
    <2>1. Bad \in SUBSET SUBSET S
      OBVIOUS
    <2> HIDE DEF Bad
    <2> QED
      BY <1>1, <2>1, SmallestSubset
  <1>3. CASE T = {}
    <2>1. Adds([R \in SUBSET T |-> 0], f, T)
      BY <1>3 DEF Adds
    <2> QED
      BY <2>1
  <1>4. CASE T # {}
    <2>1. PICK x \in T : TRUE
      BY <1>4
    <2>2. PICK k : Adds(k, f, T \ {x})
      BY <1>2, <2>1
    <2> DEFINE h == [R \in SUBSET T |-> IF x \in R THEN f[x] + k[R \ {x}] ELSE k[R]]
    <2>3. \A R \in SUBSET T : R \ {x} \in SUBSET (T \ {x}) /\ (x \notin R => R \in SUBSET (T \ {x}))
      OBVIOUS
    <2>6. h[{}] = 0
      BY <2>2 DEF Adds
    <2>7. ASSUME NEW R \in SUBSET T, R # {} PROVE \E y \in R : h[R] = f[y] + h[R \ {y}]
      <3>1. CASE x \in R
        <4>1. h[R] = f[x] + h[R \ {x}]
          BY <3>1
        <4> QED
          BY <3>1, <4>1
      <3>2. CASE x \notin R
        <4>1. PICK y \in R : k[R] = f[y] + k[R \ {y}]
          BY <2>2, <2>3, <2>7, <3>2 DEF Adds
        <4>2. h[R] = k[R] /\ h[R \ {y}] = k[R \ {y}]
          BY <3>2
        <4> QED
          BY <4>1, <4>2
      <3> QED
        BY <3>1, <3>2
    <2> HIDE DEF h
    <2>8. Adds(h, f, T)
      BY <2>6, <2>7 DEF Adds
    <2> QED
      BY <2>8
  <1> QED
    BY <1>3, <1>4

LEMMA SumAdds ==
  ASSUME NEW S, IsFiniteSet(S), NEW f, IntOn(f, S)
  PROVE  \E h : Adds(h, f, S) /\ SumOf(f, S) = h[S]
  <1>1. PICK h : Adds(h, f, S)
    BY AddsExists
  <1>2. Adds(CHOOSE k : Adds(k, f, S), f, S)
    BY <1>1
  <1> QED
    BY <1>2 DEF SumOf

(* What adds up f as the folds do is the sum of f.                         *)
LEMMA SumIs ==
  ASSUME NEW S, IsFiniteSet(S), NEW f, IntOn(f, S), NEW h, Adds(h, f, S)
  PROVE  SumOf(f, S) = h[S]
  <1>1. PICK k : Adds(k, f, S) /\ SumOf(f, S) = k[S]
    BY SumAdds
  <1>2. k[S] = h[S]
    BY <1>1, AddsAgree
  <1> QED
    BY <1>1, <1>2

-----------------------------------------------------------------------------
LEMMA SumEmpty ==
  ASSUME NEW f
  PROVE  SumOf(f, {}) = 0
  <1>1. IsFiniteSet({}) /\ IntOn(f, {})
    BY FS_EmptySet DEF IntOn
  <1>2. PICK h : Adds(h, f, {}) /\ SumOf(f, {}) = h[{}]
    BY <1>1, SumAdds
  <1> QED
    BY <1>2 DEF Adds

LEMMA SumInt ==
  ASSUME NEW S, IsFiniteSet(S), NEW f, IntOn(f, S)
  PROVE  SumOf(f, S) \in Int
  <1>1. PICK h : Adds(h, f, S) /\ SumOf(f, S) = h[S]
    BY SumAdds
  <1> QED
    BY <1>1, AddsInt

LEMMA SumAgree ==
  ASSUME NEW S, IsFiniteSet(S), NEW f, NEW g, IntOn(f, S), \A x \in S : f[x] = g[x]
  PROVE  SumOf(f, S) = SumOf(g, S)
  <1>1. IntOn(g, S)
    BY DEF IntOn
  <1>2. PICK h : Adds(h, f, S) /\ SumOf(f, S) = h[S]
    BY SumAdds
  <1>3. PICK k : Adds(k, g, S) /\ SumOf(g, S) = k[S]
    BY <1>1, SumAdds
  <1>4. h[S] = k[S]
    BY <1>2, <1>3, AddsAgree
  <1> QED
    BY <1>2, <1>3, <1>4

(* Any element can be taken out.                                           *)
LEMMA SumTake ==
  ASSUME NEW S, IsFiniteSet(S), NEW f, IntOn(f, S), NEW x \in S
  PROVE  SumOf(f, S) = f[x] + SumOf(f, S \ {x})
  <1> DEFINE R == S \ {x}
  <1>1. PICK h : Adds(h, f, S) /\ SumOf(f, S) = h[S]
    BY SumAdds
  <1>2. h[S] = f[x] + h[R]
    BY <1>1, AddsInAnyOrder
  <1>3. IsFiniteSet(R) /\ IntOn(f, R)
    BY FS_RemoveElement DEF IntOn
  <1> DEFINE k == [T \in SUBSET R |-> h[T]]
  <1>4. Adds(k, f, R)
    <2>1. k[{}] = 0
      BY <1>1 DEF Adds
    <2>2. ASSUME NEW T \in SUBSET R, T # {} PROVE \E y \in T : k[T] = f[y] + k[T \ {y}]
      <3>1. PICK y \in T : h[T] = f[y] + h[T \ {y}]
        BY <1>1, <2>2 DEF Adds
      <3>2. k[T] = h[T] /\ k[T \ {y}] = h[T \ {y}]
        OBVIOUS
      <3> QED
        BY <3>1, <3>2
    <2> HIDE DEF k, R
    <2> QED
      BY <2>1, <2>2 DEF Adds
  <1>5. SumOf(f, R) = k[R]
    <2> HIDE DEF k, R
    <2> QED
      BY <1>3, <1>4, SumIs
  <1> QED
    BY <1>1, <1>2, <1>5

LEMMA SumOfOne ==
  ASSUME NEW f, NEW x, f[x] \in Int
  PROVE  SumOf(f, {x}) = f[x]
  <1>1. IsFiniteSet({x}) /\ IntOn(f, {x})
    BY FS_Singleton DEF IntOn
  <1>2. SumOf(f, {x}) = f[x] + SumOf(f, {x} \ {x})
    BY <1>1, SumTake
  <1>3. {x} \ {x} = {}
    OBVIOUS
  <1> QED
    BY <1>2, <1>3, SumEmpty

(* A function changed at one place changes its sum by as much.             *)
LEMMA SumChange ==
  ASSUME NEW S, IsFiniteSet(S), NEW f, NEW g, IntOn(f, S), IntOn(g, S),
         NEW x \in S, \A y \in S \ {x} : f[y] = g[y]
  PROVE  SumOf(g, S) - SumOf(f, S) = g[x] - f[x]
  <1> DEFINE R == S \ {x}
  <1>1. IsFiniteSet(R) /\ IntOn(f, R) /\ IntOn(g, R)
    BY FS_RemoveElement DEF IntOn
  <1>2. SumOf(f, S) = f[x] + SumOf(f, R) /\ SumOf(g, S) = g[x] + SumOf(g, R)
    BY SumTake
  <1>3. SumOf(f, R) = SumOf(g, R)
    BY <1>1, SumAgree
  <1> DEFINE a == f[x]
             b == g[x]
             c == SumOf(f, R)
  <1>4. a \in Int /\ b \in Int /\ c \in Int
    BY <1>1, SumInt DEF IntOn
  <1>5. SumOf(f, S) = a + c /\ SumOf(g, S) = b + c
    BY <1>2, <1>3
  <1> HIDE DEF a, b, c
  <1>6. (b + c) - (a + c) = b - a
    BY <1>4
  <1> QED
    BY <1>5, <1>6 DEF a, b

LEMMA IntOnSubset ==
  ASSUME NEW S, IsFiniteSet(S), NEW f, IntOn(f, S), NEW T \in SUBSET S
  PROVE  IsFiniteSet(T) /\ IntOn(f, T)
  BY FS_Subset DEF IntOn

(* A part of a set and the rest of it have the sum of the set.             *)
LEMMA SumSplit ==
  ASSUME NEW S, IsFiniteSet(S), NEW f, IntOn(f, S), NEW R \in SUBSET S
  PROVE  SumOf(f, S) = SumOf(f, R) + SumOf(f, S \ R)
  <1> DEFINE Bad == {T \in SUBSET R : SumOf(f, T \cup (S \ R)) # SumOf(f, T) + SumOf(f, S \ R)}
  <1>1. SUFFICES ASSUME Bad # {} PROVE FALSE
    <2>1. R \cup (S \ R) = S
      OBVIOUS
    <2> QED
      BY <2>1
  <1>2. PICK T \in Bad : \A x \in T : T \ {x} \notin Bad
    <2>1. Bad \in SUBSET SUBSET R /\ IsFiniteSet(R)
      BY FS_Subset
    <2> HIDE DEF Bad
    <2> QED
      BY <1>1, <2>1, SmallestSubset
  <1>3. IsFiniteSet(S \ R) /\ IntOn(f, S \ R) /\ SumOf(f, S \ R) \in Int
    <2>1. S \ R \in SUBSET S
      OBVIOUS
    <2> QED
      BY <2>1, IntOnSubset, SumInt
  <1>4. T # {}
    <2>1. SumOf(f, {} \cup (S \ R)) = SumOf(f, {}) + SumOf(f, S \ R)
      <3>1. {} \cup (S \ R) = S \ R
        OBVIOUS
      <3> QED
        BY <1>3, <3>1, SumEmpty
    <2> QED
      BY <2>1
  <1>5. PICK x \in T : TRUE
    BY <1>4
  <1> DEFINE U == T \cup (S \ R)
             V == T \ {x}
  <1>6. /\ IsFiniteSet(U) /\ IntOn(f, U)
        /\ IsFiniteSet(T) /\ IntOn(f, T)
        /\ IsFiniteSet(V) /\ IntOn(f, V)
    <2>1. U \in SUBSET S /\ T \in SUBSET S /\ V \in SUBSET S
      OBVIOUS
    <2> HIDE DEF U, V
    <2> QED
      BY <2>1, IntOnSubset
  <1>7. SumOf(f, U) = f[x] + SumOf(f, U \ {x})
    BY <1>6, SumTake
  <1>8. SumOf(f, T) = f[x] + SumOf(f, V)
    BY <1>6, SumTake
  <1>9. U \ {x} = V \cup (S \ R)
    BY <1>5
  <1>10. SumOf(f, V \cup (S \ R)) = SumOf(f, V) + SumOf(f, S \ R)
    BY <1>2
  <1>11. SumOf(f, U) # SumOf(f, T) + SumOf(f, S \ R)
    OBVIOUS
  <1> DEFINE a == f[x]
             b == SumOf(f, V)
             c == SumOf(f, S \ R)
  <1>12. a \in Int /\ b \in Int /\ c \in Int
    BY <1>3, <1>6, SumInt DEF IntOn
  <1>13. a + (b + c) # (a + b) + c
    BY <1>7, <1>8, <1>9, <1>10, <1>11
  <1> HIDE DEF a, b, c
  <1> QED
    BY <1>12, <1>13

(* What is nowhere larger has no larger sum.                               *)
LEMMA SumMonotone ==
  ASSUME NEW S, IsFiniteSet(S), NEW f, NEW g, IntOn(f, S), IntOn(g, S),
         \A x \in S : f[x] <= g[x]
  PROVE  SumOf(f, S) <= SumOf(g, S)
  <1> DEFINE Bad == {T \in SUBSET S : ~(SumOf(f, T) <= SumOf(g, T))}
  <1>1. SUFFICES ASSUME Bad # {} PROVE FALSE
    OBVIOUS
  <1>2. PICK T \in Bad : \A x \in T : T \ {x} \notin Bad
    <2>1. Bad \in SUBSET SUBSET S
      OBVIOUS
    <2> HIDE DEF Bad
    <2> QED
      BY <1>1, <2>1, SmallestSubset
  <1>3. T # {}
    <2>1. SumOf(f, {}) <= SumOf(g, {})
      BY SumEmpty
    <2> QED
      BY <2>1
  <1>4. PICK x \in T : TRUE
    BY <1>3
  <1> DEFINE V == T \ {x}
  <1>5. /\ IsFiniteSet(T) /\ IntOn(f, T) /\ IntOn(g, T)
        /\ IsFiniteSet(V) /\ IntOn(f, V) /\ IntOn(g, V)
    <2>1. T \in SUBSET S /\ V \in SUBSET S
      OBVIOUS
    <2> HIDE DEF V
    <2> QED
      BY <2>1, IntOnSubset
  <1>6. SumOf(f, T) = f[x] + SumOf(f, V) /\ SumOf(g, T) = g[x] + SumOf(g, V)
    BY <1>5, SumTake
  <1>7. SumOf(f, V) <= SumOf(g, V)
    BY <1>2
  <1> DEFINE a == f[x]
             b == SumOf(f, V)
             c == g[x]
             d == SumOf(g, V)
  <1>8. a \in Int /\ b \in Int /\ c \in Int /\ d \in Int /\ a <= c /\ b <= d
    BY <1>5, <1>7, SumInt DEF IntOn
  <1>9. ~(a + b <= c + d)
    BY <1>6
  <1> HIDE DEF a, b, c, d
  <1> QED
    BY <1>8, <1>9

LEMMA SumOfZeros ==
  ASSUME NEW S, IsFiniteSet(S), NEW f, \A x \in S : f[x] = 0
  PROVE  SumOf(f, S) = 0
  <1> DEFINE z == [T \in SUBSET S |-> 0]
  <1>1. IntOn(f, S)
    BY DEF IntOn
  <1>2. Adds(z, f, S)
    BY DEF Adds
  <1>3. SumOf(f, S) = z[S]
    <2> HIDE DEF z
    <2> QED
      BY <1>1, <1>2, SumIs
  <1> QED
    BY <1>3

LEMMA SumNat ==
  ASSUME NEW S, IsFiniteSet(S), NEW f, \A x \in S : f[x] \in Nat
  PROVE  SumOf(f, S) \in Nat
  <1> DEFINE z == [x \in S |-> 0]
  <1>1. IntOn(f, S) /\ IntOn(z, S) /\ \A x \in S : z[x] <= f[x]
    BY DEF IntOn
  <1>2. SumOf(z, S) = 0
    BY SumOfZeros
  <1>3. SumOf(z, S) <= SumOf(f, S) /\ SumOf(f, S) \in Int
    <2> HIDE DEF z
    <2> QED
      BY <1>1, SumMonotone, SumInt
  <1> QED
    BY <1>2, <1>3

(* The sum of two functions added up, and of one turned over.              *)
LEMMA SumPlus ==
  ASSUME NEW S, IsFiniteSet(S), NEW f, NEW g, NEW s, IntOn(f, S), IntOn(g, S),
         \A x \in S : s[x] = f[x] + g[x]
  PROVE  SumOf(s, S) = SumOf(f, S) + SumOf(g, S)
  <1> DEFINE Bad == {T \in SUBSET S : SumOf(s, T) # SumOf(f, T) + SumOf(g, T)}
  <1>1. SUFFICES ASSUME Bad # {} PROVE FALSE
    OBVIOUS
  <1>2. PICK T \in Bad : \A x \in T : T \ {x} \notin Bad
    <2>1. Bad \in SUBSET SUBSET S
      OBVIOUS
    <2> HIDE DEF Bad
    <2> QED
      BY <1>1, <2>1, SmallestSubset
  <1>3. T # {}
    <2>1. SumOf(s, {}) = SumOf(f, {}) + SumOf(g, {})
      BY SumEmpty
    <2> QED
      BY <2>1
  <1>4. PICK x \in T : TRUE
    BY <1>3
  <1> DEFINE V == T \ {x}
  <1>5. IntOn(s, S)
    BY DEF IntOn
  <1>6. /\ IsFiniteSet(T) /\ IntOn(f, T) /\ IntOn(g, T) /\ IntOn(s, T)
        /\ IsFiniteSet(V) /\ IntOn(f, V) /\ IntOn(g, V)
    <2>1. T \in SUBSET S /\ V \in SUBSET S
      OBVIOUS
    <2> HIDE DEF V
    <2> QED
      BY <1>5, <2>1, IntOnSubset
  <1>7. /\ SumOf(f, T) = f[x] + SumOf(f, V) /\ SumOf(g, T) = g[x] + SumOf(g, V)
        /\ SumOf(s, T) = s[x] + SumOf(s, V)
    BY <1>6, SumTake
  <1>8. SumOf(s, V) = SumOf(f, V) + SumOf(g, V) /\ s[x] = f[x] + g[x]
    BY <1>2
  <1> DEFINE a == f[x]
             b == SumOf(f, V)
             c == g[x]
             d == SumOf(g, V)
  <1>9. a \in Int /\ b \in Int /\ c \in Int /\ d \in Int
    BY <1>6, SumInt DEF IntOn
  <1>10. (a + c) + (b + d) # (a + b) + (c + d)
    BY <1>7, <1>8
  <1> HIDE DEF a, b, c, d
  <1> QED
    BY <1>9, <1>10

LEMMA SumTurned ==
  ASSUME NEW S, IsFiniteSet(S), NEW f, NEW g, IntOn(f, S), \A x \in S : g[x] = 0 - f[x]
  PROVE  SumOf(g, S) = 0 - SumOf(f, S)
  <1> DEFINE z == [x \in S |-> 0]
  <1>1. IntOn(g, S) /\ (\A x \in S : z[x] = f[x] + g[x]) /\ \A x \in S : z[x] = 0
    BY DEF IntOn
  <1> HIDE DEF z
  <1>2. SumOf(z, S) = SumOf(f, S) + SumOf(g, S) /\ SumOf(z, S) = 0
    BY <1>1, SumPlus, SumOfZeros
  <1>3. SumOf(f, S) \in Int /\ SumOf(g, S) \in Int
    BY <1>1, SumInt
  <1> QED
    BY <1>2, <1>3

-----------------------------------------------------------------------------
(* The sums of the community modules. *)
LEMMA SumFunctionIs ==
  ASSUME NEW S, IsFiniteSet(S), NEW f, IntOn(f, S)
  PROVE  /\ SumFunctionOnSet(f, S) = SumOf(f, S)
         /\ DOMAIN f = S => SumFunction(f) = SumOf(f, S)
  <1> DEFINE Eq(h) == h = [T \in SUBSET S |->
                             IF T = {} THEN 0
                             ELSE LET x == CHOOSE x \in T : TRUE
                                  IN  f[x] + h[T \ {x}]]
  <1>1. \E h : Eq(h)
    <2> DEFINE g == [T \in SUBSET S |-> SumOf(f, T)]
    <2>1. ASSUME NEW T \in SUBSET S, T # {}
          PROVE  SumOf(f, T) = LET x == CHOOSE x \in T : TRUE IN f[x] + g[T \ {x}]
      <3>1. (CHOOSE x \in T : TRUE) \in T
        BY <2>1
      <3>2. IsFiniteSet(T) /\ IntOn(f, T)
        BY FS_Subset DEF IntOn
      <3>3. PICK x \in T : x = CHOOSE y \in T : TRUE
        BY <3>1
      <3>4. SumOf(f, T) = f[x] + SumOf(f, T \ {x})
        BY <3>2, SumTake
      <3> QED
        BY <3>3, <3>4
    <2>2. g[{}] = 0
      BY SumEmpty
    <2>3. Eq(g)
      BY <2>1, <2>2, SumEmpty
    <2> QED
      BY <2>3
  <1>2. SumFunctionOnSet(f, S) = (CHOOSE h : Eq(h))[S]
    BY DEF SumFunctionOnSet, FoldFunctionOnSet, MapThenFoldSet
  <1>3. PICK h : h = CHOOSE k : Eq(k)
    OBVIOUS
  <1>4. Eq(h)
    <2> HIDE DEF Eq
    <2> QED
      BY <1>1, <1>3
  <1>5. h[{}] = 0 /\ \A T \in SUBSET S : T # {} => \E x \in T : h[T] = f[x] + h[T \ {x}]
    <2>1. ASSUME NEW T \in SUBSET S, T # {} PROVE \E x \in T : h[T] = f[x] + h[T \ {x}]
      <3>1. PICK x \in T : x = CHOOSE y \in T : TRUE
        BY <2>1
      <3>2. h[T] = f[x] + h[T \ {x}]
        BY <1>4, <2>1, <3>1
      <3> QED
        BY <3>2
    <2>2. h[{}] = 0
      BY <1>4
    <2> QED
      BY <2>1, <2>2
  <1>6. h[S] = SumOf(f, S)
    <2>1. Adds(h, f, S)
      BY <1>5 DEF Adds
    <2> QED
      BY <2>1, SumIs
  <1>7. SumFunctionOnSet(f, S) = SumOf(f, S)
    BY <1>2, <1>3, <1>6
  <1> QED
    BY <1>7 DEF SumFunction

(* The sum of a sequence, and of one with another element.                 *)
LEMMA SumOfSequence ==
  ASSUME NEW s \in Seq(Int)
  PROVE  /\ IsFiniteSet(1..Len(s)) /\ IntOn(s, 1..Len(s))
         /\ SumFunction(s) = SumOf(s, 1..Len(s)) /\ SumFunction(s) \in Int
  <1>1. Len(s) \in Nat /\ DOMAIN s = 1..Len(s) /\ \A i \in 1..Len(s) : s[i] \in Int
    OBVIOUS
  <1>2. IsFiniteSet(1..Len(s)) /\ IntOn(s, 1..Len(s))
    BY <1>1, FS_Interval DEF IntOn
  <1>3. SumFunction(s) = SumOf(s, 1..Len(s))
    BY <1>1, <1>2, SumFunctionIs
  <1> QED
    BY <1>2, <1>3, SumInt

LEMMA SumAppend ==
  ASSUME NEW s \in Seq(Int), NEW a \in Int
  PROVE  SumFunction(Append(s, a)) = SumFunction(s) + a
  <1> DEFINE t == Append(s, a)  n == Len(s) + 1
  <1>1. /\ t \in Seq(Int) /\ Len(t) = n /\ n \in Nat /\ t[n] = a
        /\ \A i \in 1..Len(s) : t[i] = s[i]
    OBVIOUS
  <1>2. n \in 1..Len(t) /\ (1..Len(t)) \ {n} = 1..Len(s)
    BY <1>1
  <1>3. /\ IsFiniteSet(1..Len(t)) /\ IntOn(t, 1..Len(t)) /\ SumFunction(t) = SumOf(t, 1..Len(t))
        /\ IsFiniteSet(1..Len(s)) /\ IntOn(s, 1..Len(s)) /\ SumFunction(s) = SumOf(s, 1..Len(s))
        /\ SumFunction(s) \in Int
    BY <1>1, SumOfSequence
  <1> HIDE DEF t, n
  <1>4. SumOf(t, 1..Len(t)) = t[n] + SumOf(t, (1..Len(t)) \ {n})
    BY <1>2, <1>3, SumTake
  <1>5. IntOn(t, 1..Len(s))
    BY <1>2, <1>3 DEF IntOn
  <1>6. SumOf(t, 1..Len(s)) = SumOf(s, 1..Len(s))
    BY <1>1, <1>3, <1>5, SumAgree
  <1>7. SumFunction(t) = a + SumFunction(s)
    BY <1>1, <1>2, <1>3, <1>4, <1>6
  <1> QED
    BY <1>3, <1>7 DEF t

LEMMA SumOfNothing == SumFunction(<<>>) = 0
  <1>1. <<>> \in Seq(Int) /\ 1..Len(<<>>) = {}
    OBVIOUS
  <1>2. SumFunction(<<>>) = SumOf(<<>>, {})
    BY <1>1, SumOfSequence
  <1> QED
    BY <1>2, SumEmpty

(* Of finitely many numbers one is the greatest.                           *)
LEMMA GreatestOf ==
  ASSUME NEW S, IsFiniteSet(S), S # {}, NEW f, IntOn(f, S)
  PROVE  \E m \in S : \A n \in S : f[n] <= f[m]
  <1> DEFINE C == {T \in SUBSET S : \A n \in S : \E m \in T : f[n] <= f[m]}
  <1>1. S \in C /\ C \in SUBSET SUBSET S  BY DEF IntOn
  <1>2. PICK T \in C : \A x \in T : T \ {x} \notin C
    BY <1>1, SmallestSubset
  <1>3. T \subseteq S /\ \A n \in S : \E m \in T : f[n] <= f[m]  OBVIOUS
  <1>4. PICK m \in T : TRUE  BY <1>3
  <1>5. ASSUME NEW x \in T, NEW y \in T, x # y, f[x] <= f[y]
        PROVE  FALSE
    <2>1. \A n \in S : \E k \in T \ {x} : f[n] <= f[k]
      <3> SUFFICES ASSUME NEW n \in S  PROVE \E k \in T \ {x} : f[n] <= f[k]
        OBVIOUS
      <3>1. PICK k \in T : f[n] <= f[k]  BY <1>3
      <3>2. f[n] \in Int /\ f[k] \in Int /\ f[x] \in Int /\ f[y] \in Int  BY <1>3 DEF IntOn
      <3> QED  BY <1>5, <3>1, <3>2
    <2> QED  BY <1>2, <1>3, <2>1
  <1>6. ASSUME NEW x \in T, x # m
        PROVE  FALSE
    <2>1. f[x] \in Int /\ f[m] \in Int  BY <1>3 DEF IntOn
    <2>2. f[x] <= f[m] \/ f[m] <= f[x]  BY <2>1
    <2> QED  BY <1>5, <1>6, <2>2
  <1> QED  BY <1>3, <1>4, <1>6
=============================================================================

------------------------------ MODULE Induction ------------------------------
(***************************************************************************)
(* Induction over natural numbers, said with sets, and what it gives for    *)
(* functions that are defined by recursion over an interval and for sums    *)
(* over finite sets.                                                        *)
(***************************************************************************)
EXTENDS Integers, WellFoundedInduction, FiniteSets, FiniteSetTheorems, Functions, TLAPS

\* A set that has 0, and with every natural number the next, has them all.
LEMMA FromZero ==
  ASSUME NEW S, 0 \in S, \A n \in Nat : n \in S => n + 1 \in S
  PROVE  \A n \in Nat : n \in S
<1> DEFINE T == {n \in Nat : n \notin S}
<1>1. ASSUME T # {} PROVE FALSE
  <2>1. PICK x \in T : \A y \in T : ~ (<<y, x>> \in OpToRel(<, Nat))
    <3>1. T \subseteq Nat
      OBVIOUS
    <3> HIDE DEF T
    <3> QED
      BY <1>1, <3>1, NatLessThanWellFounded, WFMin
  <2>2. x \in Nat /\ x # 0
    OBVIOUS
  <2>3. x - 1 \in Nat /\ x - 1 < x
    BY <2>2
  <2>4. <<x - 1, x>> \in OpToRel(<, Nat)
    BY <2>2, <2>3 DEF OpToRel
  <2>5. x - 1 \in S
    BY <2>1, <2>3, <2>4
  <2> QED
    BY <2>2, <2>3, <2>5
<1> QED
  BY <1>1

\* A set of natural numbers that is not empty has a least member.
LEMMA LeastMember ==
  ASSUME NEW S \in SUBSET Nat, S # {}
  PROVE  \E x \in S : \A y \in S : x <= y
<1> SUFFICES ASSUME \A x \in S : \E y \in S : ~(x <= y) PROVE FALSE
  OBVIOUS
<1> DEFINE T == {k \in Nat : \A x \in S : ~(x <= k)}
<1>1. 0 \in T
  <2>1. ASSUME NEW x \in S, x <= 0 PROVE FALSE
    <3>1. PICK y \in S : ~(x <= y)
      OBVIOUS
    <3> QED
      BY <2>1, <3>1
  <2> QED
    BY <2>1
<1>2. ASSUME NEW k \in Nat, k \in T PROVE k + 1 \in T
  <2>1. ASSUME NEW x \in S, x <= k + 1 PROVE FALSE
    <3>1. PICK y \in S : ~(x <= y)
      OBVIOUS
    <3>2. x \in Nat /\ y \in Nat /\ y <= k
      BY <2>1, <3>1
    <3> QED
      BY <1>2, <3>2
  <2> QED
    BY <2>1
<1>3. \A k \in Nat : k \in T
  <2> HIDE DEF T
  <2> QED
    BY <1>1, <1>2, FromZero
<1>4. PICK x \in S : TRUE
  OBVIOUS
<1>5. x \in T
  BY <1>3
<1> QED
  BY <1>5

\* f steps from base by G, n times.
Iterates(f, R, n, base, G) ==
  f \in [0 .. n -> R] /\ f[0] = base /\ \A i \in 1 .. n : f[i] = G[<<f[i - 1], i>>]

\* A recursion over 0..n in which a value depends on the one before has a solution.
LEMMA Recursion ==
  ASSUME NEW R, NEW n \in Nat, NEW base \in R, NEW G \in [R \X (1 .. n) -> R]
  PROVE  \E f : Iterates(f, R, n, base, G)
<1> DEFINE Solves(f, k) == f[0] = base /\ \A i \in 1 .. k : f[i] = G[<<f[i - 1], i>>]
           S == {k \in Nat : k <= n => \E f \in [0 .. k -> R] : Solves(f, k)}
<1>1. 0 \in S
  <2>1. [i \in 0 .. 0 |-> base] \in [0 .. 0 -> R] /\ Solves([i \in 0 .. 0 |-> base], 0)
    OBVIOUS
  <2> QED
    BY <2>1
<1>2. ASSUME NEW k \in Nat, k \in S PROVE k + 1 \in S
  <2> SUFFICES ASSUME k + 1 <= n PROVE \E f \in [0 .. k + 1 -> R] : Solves(f, k + 1)
    OBVIOUS
  <2>1. PICK f \in [0 .. k -> R] : Solves(f, k)
    BY <1>2
  <2> DEFINE g == [i \in 0 .. k + 1 |-> IF i = k + 1 THEN G[<<f[k], k + 1>>] ELSE f[i]]
  <2>2. <<f[k], k + 1>> \in R \X (1 .. n)
    OBVIOUS
  <2>3. g \in [0 .. k + 1 -> R]
    BY <2>2
  <2>4. g[0] = base
    BY <2>1
  <2>5. ASSUME NEW i \in 1 .. k + 1 PROVE g[i] = G[<<g[i - 1], i>>]
    <3>1. CASE i = k + 1
      <4>1. g[k + 1] = G[<<f[k], k + 1>>] /\ g[k] = f[k] /\ i - 1 = k
        BY <3>1
      <4> HIDE DEF g
      <4> QED
        BY <3>1, <4>1
    <3>2. CASE i \in 1 .. k
      <4>1. g[i] = f[i] /\ g[i - 1] = f[i - 1]
        BY <3>2
      <4> QED
        BY <3>2, <4>1, <2>1
    <3> QED
      BY <3>1, <3>2
  <2> HIDE DEF g
  <2> QED
    BY <2>3, <2>4, <2>5
<1>3. n \in S
  <2> HIDE DEF S
  <2> QED
    BY <1>1, <1>2, FromZero
<1> QED
  BY <1>3 DEF Iterates

(***************************************************************************)
(* Sums over finite sets.  SumFunctionOnSet takes the elements of a set one *)
(* by one, as CHOOSE picks them; that the order does not matter is what the *)
(* lemmas say.                                                              *)
(***************************************************************************)
Picked(s) == CHOOSE x \in s : TRUE

Summing(sum, f, S) ==
  sum = [s \in SUBSET S |-> IF s = {} THEN 0 ELSE f[Picked(s)] + sum[s \ {Picked(s)}]]

LEMMA FirstRemoved ==
  ASSUME NEW s, IsFiniteSet(s), s # {}
  PROVE  /\ Picked(s) \in s
         /\ IsFiniteSet(s \ {Picked(s)})
         /\ Cardinality(s) \in Nat \ {0}
         /\ Cardinality(s \ {Picked(s)}) = Cardinality(s) - 1
<1>1. Picked(s) \in s
  BY DEF Picked
<1>2. IsFiniteSet(s \ {Picked(s)}) /\ Cardinality(s \ {Picked(s)}) = Cardinality(s) - 1
  BY <1>1, FS_RemoveElement
<1>3. Cardinality(s) \in Nat /\ Cardinality(s) # 0
  BY FS_CardinalityType, FS_EmptySet
<1> QED
  BY <1>1, <1>2, <1>3

\* There is a function that sums f over every subset of S.
LEMMA SummingExists ==
  ASSUME NEW S, IsFiniteSet(S), NEW f, \A x \in S : f[x] \in Int
  PROVE  \E sum : sum \in [SUBSET S -> Int] /\ Summing(sum, f, S)
<1> DEFINE n == Cardinality(S)
           R == [SUBSET S -> Int]
           base == [s \in SUBSET S |-> 0]
           Next(h) == [s \in SUBSET S |-> IF s = {} THEN 0 ELSE f[Picked(s)] + h[s \ {Picked(s)}]]
           G == [x \in R \X (1 .. n) |-> Next(x[1])]
<1>1. n \in Nat
  BY FS_CardinalityType
<1>2. \A s \in SUBSET S : s # {} => Picked(s) \in S /\ s \ {Picked(s)} \in SUBSET S
  BY DEF Picked
<1>3. ASSUME NEW h \in R PROVE Next(h) \in R
  BY <1>2
<1>4. G \in [R \X (1 .. n) -> R] /\ base \in R
  <2>1. base \in R
    OBVIOUS
  <2>2. \A x \in R \X (1 .. n) : x[1] \in R
    OBVIOUS
  <2>3. \A x \in R \X (1 .. n) : Next(x[1]) \in R
    <3> HIDE DEF R, Next
    <3> QED
      BY <1>3, <2>2
  <2>4. G \in [R \X (1 .. n) -> R]
    <3> HIDE DEF R, Next
    <3> QED
      BY <2>3
  <2> QED
    BY <2>1, <2>4
<1>5. PICK F : Iterates(F, R, n, base, G)
  <2> HIDE DEF n, R, base, G
  <2> QED
    BY <1>1, <1>4, Recursion
<1>6. \A i \in 0 .. n : F[i] \in R
  BY <1>5 DEF Iterates
<1>7. ASSUME NEW i \in 1 .. n PROVE F[i] = Next(F[i - 1])
  <2>1. i - 1 \in 0 .. n
    BY <1>1
  <2>2. F[i - 1] \in R
    BY <1>6, <2>1
  <2>3. <<F[i - 1], i>> \in R \X (1 .. n)
    BY <2>2
  <2>4. G[<<F[i - 1], i>>] = Next(F[i - 1])
    BY <2>3
  <2> HIDE DEF G, Next, R, base
  <2> QED
    BY <1>5, <2>4 DEF Iterates
<1> DEFINE sum == [s \in SUBSET S |-> F[Cardinality(s)][s]]
<1>8. \A s \in SUBSET S : IsFiniteSet(s) /\ Cardinality(s) \in 0 .. n
  <2> SUFFICES ASSUME NEW s \in SUBSET S PROVE IsFiniteSet(s) /\ Cardinality(s) \in 0 .. n
    OBVIOUS
  <2>1. IsFiniteSet(s) /\ Cardinality(s) \in Nat /\ Cardinality(s) <= Cardinality(S)
    BY FS_Subset, FS_CardinalityType
  <2> QED
    BY <1>1, <2>1
<1>9. sum \in [SUBSET S -> Int]
  BY <1>6, <1>8
<1>10. ASSUME NEW s \in SUBSET S
       PROVE  sum[s] = IF s = {} THEN 0 ELSE f[Picked(s)] + sum[s \ {Picked(s)}]
  <2>1. CASE s = {}
    <3>1. Cardinality(s) = 0
      BY <2>1, FS_EmptySet
    <3>2. F[0][{}] = 0
      BY <1>5 DEF Iterates
    <3> QED
      BY <2>1, <3>1, <3>2
  <2>2. CASE s # {}
    <3> DEFINE k == Cardinality(s)
               t == s \ {Picked(s)}
    <3>1. k \in Nat \ {0} /\ Cardinality(t) = k - 1 /\ k \in 0 .. n
      BY <1>8, <2>2, FirstRemoved
    <3>2. k \in 1 .. n /\ t \in SUBSET S
      BY <1>1, <3>1
    <3>3. F[k] = Next(F[k - 1])
      BY <1>7, <3>2
    <3>4. F[k][s] = f[Picked(s)] + F[k - 1][t]
      BY <2>2, <3>3
    <3>5. sum[t] = F[k - 1][t]
      BY <3>1, <3>2
    <3> QED
      BY <2>2, <3>4, <3>5
  <2> QED
    BY <2>1, <2>2
<1>11. Summing(sum, f, S)
  <2>1. sum = [s \in SUBSET S |-> sum[s]]
    OBVIOUS
  <2> HIDE DEF sum
  <2> QED
    BY <1>10, <2>1 DEF Summing
<1> QED
  BY <1>9, <1>11

\* It is the only one, and depends on f only in the set that is summed over.
LEMMA SummingUnique ==
  ASSUME NEW S, NEW U, NEW f, NEW g, NEW sum, NEW other,
         Summing(sum, f, S), Summing(other, g, U),
         NEW t, IsFiniteSet(t), t \subseteq S, t \subseteq U, \A x \in t : f[x] = g[x]
  PROVE  sum[t] = other[t]
<1> DEFINE N == {n \in Nat : \A s \in SUBSET t : Cardinality(s) = n => sum[s] = other[s]}
<1>1. \A s \in SUBSET t :
        /\ sum[s] = IF s = {} THEN 0 ELSE f[Picked(s)] + sum[s \ {Picked(s)}]
        /\ other[s] = IF s = {} THEN 0 ELSE g[Picked(s)] + other[s \ {Picked(s)}]
  BY DEF Summing
<1>2. \A s \in SUBSET t : IsFiniteSet(s)
  BY FS_Subset
<1>3. 0 \in N
  BY <1>1, <1>2, FS_EmptySet
<1>4. ASSUME NEW n \in Nat, n \in N PROVE n + 1 \in N
  <2> SUFFICES ASSUME NEW s \in SUBSET t, Cardinality(s) = n + 1 PROVE sum[s] = other[s]
    OBVIOUS
  <2>1. s # {}
    BY FS_EmptySet
  <2>2. Picked(s) \in t /\ s \ {Picked(s)} \in SUBSET t /\ Cardinality(s \ {Picked(s)}) = n
    <3>1. Picked(s) \in s /\ Cardinality(s \ {Picked(s)}) = Cardinality(s) - 1
      BY <1>2, <2>1, FirstRemoved
    <3> QED
      BY <3>1
  <2>3. sum[s \ {Picked(s)}] = other[s \ {Picked(s)}]
    BY <1>4, <2>2
  <2> QED
    BY <1>1, <2>1, <2>2, <2>3
<1>5. Cardinality(t) \in N
  <2> HIDE DEF N
  <2> QED
    BY <1>3, <1>4, FromZero, FS_CardinalityType
<1> QED
  BY <1>5

LEMMA SumSolved ==
  ASSUME NEW S, IsFiniteSet(S), NEW f, \A x \in S : f[x] \in Int
  PROVE  \E sum : /\ sum \in [SUBSET S -> Int]
                  /\ Summing(sum, f, S)
                  /\ SumFunctionOnSet(f, S) = sum[S]
<1> DEFINE chosen == CHOOSE sum : Summing(sum, f, S)
<1>1. PICK sum : sum \in [SUBSET S -> Int] /\ Summing(sum, f, S)
  BY SummingExists
<1>2. Summing(chosen, f, S)
  BY <1>1
<1>3. SumFunctionOnSet(f, S) = chosen[S]
  BY Zenon DEF SumFunctionOnSet, FoldFunctionOnSet, MapThenFoldSet, Summing, Picked
<1>4. chosen[S] = sum[S]
  <2> HIDE DEF chosen
  <2> QED
    BY <1>1, <1>2, SummingUnique
<1> QED
  BY <1>1, <1>3, <1>4

LEMMA SumEmpty ==
  ASSUME NEW f PROVE SumFunctionOnSet(f, {}) = 0
<1> DEFINE S == {}
<1>1. IsFiniteSet(S) /\ \A x \in S : f[x] \in Int
  BY FS_EmptySet
<1>2. SumFunctionOnSet(f, S) = 0
  <2>1. \E sum : /\ Summing(sum, f, S)
                 /\ SumFunctionOnSet(f, S) = sum[S]
    <3> HIDE DEF S
    <3> QED
      BY <1>1, SumSolved
  <2> QED
    BY <2>1 DEF Summing
<1> QED
  BY <1>2

LEMMA SumInt ==
  ASSUME NEW S, IsFiniteSet(S), NEW f, \A x \in S : f[x] \in Int
  PROVE  SumFunctionOnSet(f, S) \in Int
<1>1. PICK sum : /\ sum \in [SUBSET S -> Int]
                 /\ SumFunctionOnSet(f, S) = sum[S]
  BY SumSolved
<1>2. S \in SUBSET S
  OBVIOUS
<1> QED
  BY <1>1, <1>2

\* Functions that agree on a set have the same sum over it.
LEMMA SumSame ==
  ASSUME NEW S, IsFiniteSet(S), NEW f, NEW g, \A x \in S : f[x] \in Int /\ f[x] = g[x]
  PROVE  SumFunctionOnSet(f, S) = SumFunctionOnSet(g, S)
<1>1. PICK sum : Summing(sum, f, S) /\ SumFunctionOnSet(f, S) = sum[S]
  BY SumSolved
<1>2. PICK other : Summing(other, g, S) /\ SumFunctionOnSet(g, S) = other[S]
  BY SumSolved
<1>3. sum[S] = other[S]
  BY <1>1, <1>2, SummingUnique
<1> QED
  BY <1>1, <1>2, <1>3

LEMMA SumFirst ==
  ASSUME NEW S, IsFiniteSet(S), S # {}, NEW f, \A x \in S : f[x] \in Int
  PROVE  SumFunctionOnSet(f, S) = f[Picked(S)] + SumFunctionOnSet(f, S \ {Picked(S)})
<1> DEFINE T == S \ {Picked(S)}
<1>1. Picked(S) \in S /\ IsFiniteSet(T)
  BY FirstRemoved
<1>2. PICK sum : Summing(sum, f, S) /\ SumFunctionOnSet(f, S) = sum[S]
  BY SumSolved
<1>3. PICK other : Summing(other, f, T) /\ SumFunctionOnSet(f, T) = other[T]
  <2>1. \A x \in T : f[x] \in Int
    OBVIOUS
  <2> HIDE DEF T
  <2> QED
    BY <1>1, <2>1, SumSolved
<1>4. sum[T] = other[T]
  <2>1. T \subseteq S /\ T \subseteq T
    OBVIOUS
  <2> HIDE DEF T
  <2> QED
    BY <1>1, <1>2, <1>3, <2>1, SummingUnique
<1>5. S \in SUBSET S /\ T \in SUBSET S
  OBVIOUS
<1>6. sum[S] = f[Picked(S)] + sum[T]
  BY <1>2, <1>5 DEF Summing
<1> QED
  BY <1>2, <1>3, <1>4, <1>6

\* Any element may be taken first.
LEMMA SumRemove ==
  ASSUME NEW S, IsFiniteSet(S), NEW f, \A x \in S : f[x] \in Int, NEW y \in S
  PROVE  SumFunctionOnSet(f, S) = f[y] + SumFunctionOnSet(f, S \ {y})
<1> DEFINE Sum(s) == SumFunctionOnSet(f, s)
           N == {n \in Nat : \A s \in SUBSET S : Cardinality(s) = n =>
                   \A x \in s : Sum(s) = f[x] + Sum(s \ {x})}
<1>1. \A s \in SUBSET S : /\ IsFiniteSet(s) /\ Cardinality(s) \in Nat
                          /\ \A x \in s : f[x] \in Int
                          /\ Sum(s) \in Int
  BY FS_Subset, FS_CardinalityType, SumInt
<1>2. \A s \in SUBSET S : s # {} => Sum(s) = f[Picked(s)] + Sum(s \ {Picked(s)}) /\ Picked(s) \in s
  BY <1>1, SumFirst, FirstRemoved
<1> HIDE DEF Sum
<1>3. 0 \in N
  BY <1>1, FS_EmptySet
<1>4. ASSUME NEW n \in Nat, n \in N PROVE n + 1 \in N
  <2> SUFFICES ASSUME NEW s \in SUBSET S, Cardinality(s) = n + 1, NEW x \in s
               PROVE  Sum(s) = f[x] + Sum(s \ {x})
    OBVIOUS
  <2> DEFINE p == Picked(s)
  <2>1. Sum(s) = f[p] + Sum(s \ {p}) /\ p \in s
    BY <1>2
  <2>2. CASE x = p
    BY <2>1, <2>2
  <2>3. CASE x # p
    <3> HIDE DEF p
    <3>1. x \in s \ {p} /\ p \in s \ {x} /\ s \ {p} \in SUBSET S /\ s \ {x} \in SUBSET S
          /\ (s \ {p}) \ {x} = (s \ {x}) \ {p} /\ (s \ {x}) \ {p} \in SUBSET S
      BY <2>1, <2>3
    <3>2. Cardinality(s \ {p}) = n /\ Cardinality(s \ {x}) = n
      <4>1. \A z \in s : Cardinality(s \ {z}) = Cardinality(s) - 1
        BY <1>1, FS_RemoveElement
      <4>2. \A z \in s : Cardinality(s \ {z}) = n
        BY <4>1
      <4> QED
        BY <2>1, <4>2
    <3>3. Sum(s \ {p}) = f[x] + Sum((s \ {p}) \ {x})
      BY <1>4, <3>1, <3>2
    <3>4. Sum(s \ {x}) = f[p] + Sum((s \ {x}) \ {p})
      BY <1>4, <3>1, <3>2
    <3>5. Sum(s) \in Int /\ Sum(s \ {p}) \in Int /\ Sum(s \ {x}) \in Int
          /\ Sum((s \ {x}) \ {p}) \in Int /\ f[x] \in Int /\ f[p] \in Int
      BY <1>1, <2>1, <3>1
    <3>6. Sum(s) = f[p] + (f[x] + Sum((s \ {x}) \ {p}))
      BY <2>1, <3>1, <3>3
    <3> QED
      BY <3>4, <3>5, <3>6
  <2> QED
    BY <2>2, <2>3
<1>5. Cardinality(S) \in N
  <2> HIDE DEF N
  <2> QED
    BY <1>3, <1>4, FromZero, FS_CardinalityType
<1> QED
  BY <1>5 DEF Sum

LEMMA SumAdd ==
  ASSUME NEW S, IsFiniteSet(S), NEW y, y \notin S, NEW f, \A x \in S \cup {y} : f[x] \in Int
  PROVE  SumFunctionOnSet(f, S \cup {y}) = SumFunctionOnSet(f, S) + f[y]
<1> DEFINE T == S \cup {y}
<1>1. IsFiniteSet(T) /\ y \in T /\ T \ {y} = S /\ \A x \in T : f[x] \in Int
  BY FS_AddElement
<1>2. SumFunctionOnSet(f, T) = f[y] + SumFunctionOnSet(f, T \ {y})
  <2> HIDE DEF T
  <2> QED
    BY <1>1, SumRemove
<1>3. SumFunctionOnSet(f, S) \in Int /\ f[y] \in Int
  BY SumInt
<1>4. SumFunctionOnSet(f, T) = f[y] + SumFunctionOnSet(f, S)
  <2> HIDE DEF T
  <2> QED
    BY <1>1, <1>2
<1> QED
  BY <1>3, <1>4

\* One value more by d makes the sum more by d.
LEMMA SumRaised ==
  ASSUME NEW S, IsFiniteSet(S), NEW f, NEW g, NEW y \in S, NEW d \in Int,
         \A x \in S : f[x] \in Int /\ g[x] = IF x = y THEN f[x] + d ELSE f[x]
  PROVE  SumFunctionOnSet(g, S) = SumFunctionOnSet(f, S) + d
<1> DEFINE T == S \ {y}
<1>1. IsFiniteSet(T) /\ \A x \in T : f[x] \in Int /\ f[x] = g[x]
  BY FS_RemoveElement
<1>2. SumFunctionOnSet(f, S) = f[y] + SumFunctionOnSet(f, T)
  BY SumRemove
<1>3. SumFunctionOnSet(g, S) = g[y] + SumFunctionOnSet(g, T)
  BY SumRemove
<1>4. SumFunctionOnSet(g, T) = SumFunctionOnSet(f, T)
  <2> HIDE DEF T
  <2> QED
    BY <1>1, SumSame
<1>5. SumFunctionOnSet(f, T) \in Int
  <2> HIDE DEF T
  <2> QED
    BY <1>1, SumInt
<1>6. f[y] \in Int /\ g[y] = f[y] + d
  OBVIOUS
<1> HIDE DEF T
<1> QED
  BY <1>2, <1>3, <1>4, <1>5, <1>6

(***************************************************************************)
(* Sums of two functions, of what is moved about and of what is renamed.    *)
(***************************************************************************)
\* What holds of no element, and with every set of one more, holds of all.
LEMMA OverSubsets ==
  ASSUME NEW S, IsFiniteSet(S), NEW Q, {} \in Q,
         \A T \in SUBSET S : \A x \in S \ T : T \in Q => T \cup {x} \in Q
  PROVE  S \in Q
<1> DEFINE N == {n \in Nat : \A T \in SUBSET S : Cardinality(T) = n => T \in Q}
<1>1. \A T \in SUBSET S : IsFiniteSet(T) /\ Cardinality(T) \in Nat
  BY FS_Subset, FS_CardinalityType
<1>2. 0 \in N
  BY <1>1, FS_EmptySet
<1>3. ASSUME NEW n \in Nat, n \in N PROVE n + 1 \in N
  <2> SUFFICES ASSUME NEW T \in SUBSET S, Cardinality(T) = n + 1 PROVE T \in Q
    OBVIOUS
  <2>1. PICK x \in T : TRUE
    BY FS_EmptySet
  <2>2. T \ {x} \in SUBSET S /\ x \in S \ (T \ {x}) /\ (T \ {x}) \cup {x} = T
    BY <2>1
  <2>3. Cardinality(T \ {x}) = n
    <3>1. Cardinality(T \ {x}) = Cardinality(T) - 1
      BY <1>1, <2>1, FS_RemoveElement
    <3> QED
      BY <3>1
  <2>4. T \ {x} \in Q
    BY <1>3, <2>2, <2>3
  <2>5. (T \ {x}) \cup {x} \in Q
    BY <2>2, <2>4
  <2> QED
    BY <2>2, <2>5
<1>4. Cardinality(S) \in N
  <2> HIDE DEF N
  <2> QED
    BY <1>1, <1>2, <1>3, FromZero
<1> QED
  BY <1>4

LEMMA SumPlus ==
  ASSUME NEW S, IsFiniteSet(S), NEW f, NEW g, NEW h,
         \A x \in S : f[x] \in Int /\ g[x] \in Int /\ h[x] = f[x] + g[x]
  PROVE  SumFunctionOnSet(h, S) = SumFunctionOnSet(f, S) + SumFunctionOnSet(g, S)
<1> DEFINE Q == {T \in SUBSET S : SumFunctionOnSet(h, T) = SumFunctionOnSet(f, T) + SumFunctionOnSet(g, T)}
<1>1. {} \in Q
  BY SumEmpty
<1>2. ASSUME NEW T \in SUBSET S, NEW x \in S \ T, T \in Q PROVE T \cup {x} \in Q
  <2>1. IsFiniteSet(T) /\ x \notin T
    BY FS_Subset
  <2>2. \A y \in T \cup {x} : f[y] \in Int /\ g[y] \in Int /\ h[y] \in Int /\ h[y] = f[y] + g[y]
    OBVIOUS
  <2>3. /\ SumFunctionOnSet(f, T \cup {x}) = SumFunctionOnSet(f, T) + f[x]
        /\ SumFunctionOnSet(g, T \cup {x}) = SumFunctionOnSet(g, T) + g[x]
        /\ SumFunctionOnSet(h, T \cup {x}) = SumFunctionOnSet(h, T) + h[x]
    BY <2>1, <2>2, SumAdd
  <2>4. SumFunctionOnSet(f, T) \in Int /\ SumFunctionOnSet(g, T) \in Int
    BY <2>1, <2>2, SumInt
  <2>5. SumFunctionOnSet(h, T) = SumFunctionOnSet(f, T) + SumFunctionOnSet(g, T)
    BY <1>2
  <2>6. f[x] \in Int /\ g[x] \in Int /\ h[x] = f[x] + g[x]
    OBVIOUS
  <2>7. SumFunctionOnSet(h, T \cup {x}) = SumFunctionOnSet(f, T \cup {x}) + SumFunctionOnSet(g, T \cup {x})
    BY <2>3, <2>4, <2>5, <2>6
  <2>8. T \cup {x} \in SUBSET S
    OBVIOUS
  <2> QED
    BY <2>7, <2>8
<1>3. S \in Q
  <2> HIDE DEF Q
  <2> QED
    BY <1>1, <1>2, OverSubsets
<1> QED
  BY <1>3

LEMMA SumZero ==
  ASSUME NEW S, IsFiniteSet(S), NEW f, \A x \in S : f[x] = 0
  PROVE  SumFunctionOnSet(f, S) = 0
<1> DEFINE Q == {T \in SUBSET S : SumFunctionOnSet(f, T) = 0}
<1>1. {} \in Q
  BY SumEmpty
<1>2. ASSUME NEW T \in SUBSET S, NEW x \in S \ T, T \in Q PROVE T \cup {x} \in Q
  <2>1. IsFiniteSet(T) /\ x \notin T /\ \A y \in T \cup {x} : f[y] \in Int
    BY FS_Subset
  <2>2. SumFunctionOnSet(f, T \cup {x}) = SumFunctionOnSet(f, T) + f[x]
    BY <2>1, SumAdd
  <2> QED
    BY <1>2, <2>2
<1>3. S \in Q
  <2> HIDE DEF Q
  <2> QED
    BY <1>1, <1>2, OverSubsets
<1> QED
  BY <1>3

\* What every j gives to c[j] sums up to what is given.
LEMMA SumMoved ==
  ASSUME NEW K, IsFiniteSet(K), NEW c, NEW f, \A j \in K : f[j] \in Int /\ (f[j] # 0 => c[j] \in K),
         NEW from, \A k \in K : from[k] \in SUBSET K, \A k, j \in K : j \in from[k] <=> c[j] = k,
         NEW g, \A k \in K : g[k] = SumFunctionOnSet(f, from[k])
  PROVE  SumFunctionOnSet(g, K) = SumFunctionOnSet(f, K)
<1> DEFINE From(J, k) == {j \in J : c[j] = k}
           Got(J) == [k \in K |-> SumFunctionOnSet(f, From(J, k))]
           Q == {J \in SUBSET K : SumFunctionOnSet(Got(J), K) = SumFunctionOnSet(f, J)}
<1>1. ASSUME NEW J \in SUBSET K, NEW k \in K
      PROVE  IsFiniteSet(J) /\ IsFiniteSet(From(J, k)) /\ Got(J)[k] \in Int
             /\ Got(J)[k] = SumFunctionOnSet(f, From(J, k))
  <2>1. IsFiniteSet(J) /\ From(J, k) \in SUBSET J
    BY FS_Subset
  <2>2. IsFiniteSet(From(J, k)) /\ \A x \in From(J, k) : f[x] \in Int
    BY <2>1, FS_Subset
  <2>3. SumFunctionOnSet(f, From(J, k)) \in Int
    <3> HIDE DEF From
    <3> QED
      BY <2>2, SumInt
  <2> QED
    BY <2>1, <2>2, <2>3
<1>2. {} \in Q
  <2>1. \A k \in K : Got({})[k] = 0
    <3>1. \A k : From({}, k) = {}
      OBVIOUS
    <3> QED
      BY <3>1, SumEmpty
  <2>2. SumFunctionOnSet(Got({}), K) = 0
    <3> HIDE DEF Got
    <3> QED
      BY <2>1, SumZero
  <2> HIDE DEF Got
  <2> QED
    BY <2>2, SumEmpty
<1>3. ASSUME NEW J \in SUBSET K, NEW x \in K \ J, J \in Q PROVE J \cup {x} \in Q
  <2> DEFINE L == J \cup {x}
  <2>1. L \in SUBSET K /\ f[x] \in Int /\ IsFiniteSet(J) /\ x \notin J
    BY FS_Subset
  <2>2. SumFunctionOnSet(f, L) = SumFunctionOnSet(f, J) + f[x]
    BY <2>1, SumAdd
  <2>3. ASSUME NEW k \in K PROVE Got(L)[k] = IF k = c[x] THEN Got(J)[k] + f[x] ELSE Got(J)[k]
    <3>1. CASE k = c[x]
      <4>1. From(L, k) = From(J, k) \cup {x} /\ x \notin From(J, k)
        BY <2>1, <3>1
      <4>2. \A y \in From(J, k) \cup {x} : f[y] \in Int
        OBVIOUS
      <4>3. IsFiniteSet(From(J, k))
        BY <1>1
      <4>4. SumFunctionOnSet(f, From(L, k)) = SumFunctionOnSet(f, From(J, k)) + f[x]
        <5> DEFINE A == From(J, k)
        <5>1. IsFiniteSet(A) /\ x \notin A /\ \A y \in A \cup {x} : f[y] \in Int
          BY <4>1, <4>2, <4>3
        <5>2. From(L, k) = A \cup {x}
          BY <4>1
        <5> HIDE DEF From, L, A
        <5>3. SumFunctionOnSet(f, A \cup {x}) = SumFunctionOnSet(f, A) + f[x]
          BY <5>1, SumAdd
        <5> QED
          BY <5>2, <5>3 DEF A
      <4> QED
        BY <3>1, <4>4
    <3>2. CASE k # c[x]
      <4>1. From(L, k) = From(J, k)
        BY <3>2
      <4> HIDE DEF From, L
      <4> QED
        BY <3>2, <4>1
    <3> QED
      BY <3>1, <3>2
  <2>4. \A k \in K : Got(J)[k] \in Int /\ Got(L)[k] \in Int
    <3> HIDE DEF Got, L, From
    <3> QED
      BY <1>1, <2>1
  <2>5. SumFunctionOnSet(Got(L), K) = SumFunctionOnSet(Got(J), K) + f[x]
    <3>1. CASE c[x] \in K
      <4> DEFINE a == Got(J)
                 b == Got(L)
                 y == c[x]
                 d == f[x]
      <4>1. y \in K /\ d \in Int /\ \A k \in K : a[k] \in Int /\ b[k] = IF k = y THEN a[k] + d ELSE a[k]
        <5> HIDE DEF Got, L
        <5> QED
          BY <2>1, <2>3, <2>4, <3>1
      <4> HIDE DEF a, b, y, d
      <4>2. SumFunctionOnSet(b, K) = SumFunctionOnSet(a, K) + d
        BY <4>1, SumRaised
      <4> QED
        BY <4>2 DEF a, b, d
    <3>2. CASE c[x] \notin K
      <4>1. f[x] = 0
        BY <3>2
      <4>2. \A k \in K : Got(L)[k] = Got(J)[k]
        BY <2>3, <3>2
      <4> HIDE DEF Got, L
      <4>3. SumFunctionOnSet(Got(L), K) = SumFunctionOnSet(Got(J), K)
        BY <2>4, <4>2, SumSame
      <4>4. SumFunctionOnSet(Got(J), K) \in Int
        BY <2>4, SumInt
      <4> QED
        BY <4>1, <4>3, <4>4
    <3> QED
      BY <3>1, <3>2
  <2>6. SumFunctionOnSet(Got(J), K) = SumFunctionOnSet(f, J)
    BY <1>3
  <2> HIDE DEF Got, L
  <2> QED
    BY <2>1, <2>2, <2>5, <2>6 DEF L
<1>4. K \in Q
  <2> HIDE DEF Q
  <2> QED
    BY <1>2, <1>3, OverSubsets
<1>5. SumFunctionOnSet(Got(K), K) = SumFunctionOnSet(g, K)
  <2>0. \A k \in K : From(K, k) = from[k]
    OBVIOUS
  <2>1. \A k \in K : Got(K)[k] \in Int /\ Got(K)[k] = g[k]
    <3>1. \A k \in K : Got(K)[k] \in Int
      <4> HIDE DEF Got, From
      <4> QED
        BY <1>1
    <3> QED
      BY <2>0, <3>1
  <2> HIDE DEF Got
  <2> QED
    BY <2>1, SumSame
<1> QED
  BY <1>4, <1>5

\* A sum of one.
LEMMA SumSingle ==
  ASSUME NEW x, NEW f, DOMAIN f = {x}, f[x] \in Int
  PROVE  SumFunction(f) = f[x]
<1> DEFINE S == {}
<1>1. IsFiniteSet(S) /\ x \notin S /\ \A y \in S \cup {x} : f[y] \in Int
  BY FS_EmptySet
<1>2. S \cup {x} = {x}
  OBVIOUS
<1>3. SumFunctionOnSet(f, S) = 0
  BY SumEmpty
<1> HIDE DEF S
<1>4. SumFunctionOnSet(f, S \cup {x}) = SumFunctionOnSet(f, S) + f[x]
  BY <1>1, SumAdd
<1>5. SumFunction(f) = SumFunctionOnSet(f, {x})
  BY DEF SumFunction
<1>6. PICK v \in Int : v = f[x]
  OBVIOUS
<1>7. SumFunctionOnSet(f, {x}) = 0 + v
  BY <1>2, <1>3, <1>4, <1>6
<1> QED
  BY <1>5, <1>6, <1>7

\* R has what h makes of the elements of P.
Renamed(R, h, P) == R = {h[x] : x \in P}

\* A sum over what h makes of the elements, those left out being 0.
LEMMA SumRenamed ==
  ASSUME NEW S, IsFiniteSet(S), NEW P \in SUBSET S, NEW h, NEW f, NEW g,
         \A x \in S : f[x] \in Int /\ (x \notin P => f[x] = 0),
         \A x, y \in P : h[x] = h[y] => x = y,
         \A x \in P : g[h[x]] = f[x],
         NEW R, Renamed(R, h, P)
  PROVE  SumFunctionOnSet(g, R) = SumFunctionOnSet(f, S)
<1> DEFINE To(T) == {h[x] : x \in T \cap P}
           Q == {T \in SUBSET S : IsFiniteSet(To(T)) /\ SumFunctionOnSet(g, To(T)) = SumFunctionOnSet(f, T)}
<1>1. {} \in Q
  <2>1. To({}) = {}
    OBVIOUS
  <2> HIDE DEF To
  <2> QED
    BY <2>1, SumEmpty, FS_EmptySet
<1>2. ASSUME NEW T \in SUBSET S, NEW x \in S \ T, T \in Q PROVE T \cup {x} \in Q
  <2>1. IsFiniteSet(T) /\ x \notin T /\ f[x] \in Int /\ \A y \in T \cup {x} : f[y] \in Int
    BY FS_Subset
  <2>2. SumFunctionOnSet(f, T \cup {x}) = SumFunctionOnSet(f, T) + f[x]
    BY <2>1, SumAdd
  <2>3. IsFiniteSet(To(T)) /\ SumFunctionOnSet(g, To(T)) = SumFunctionOnSet(f, T) /\ SumFunctionOnSet(f, T) \in Int
    BY <1>2, <2>1, SumInt
  <2>4. CASE x \in P
    <3> DEFINE A == To(T)
               y == h[x]
    <3>1. To(T \cup {x}) = A \cup {y} /\ y \notin A /\ g[y] = f[x]
      BY <2>1, <2>4
    <3>2. \A z \in A \cup {y} : g[z] \in Int
      <4>1. \A w \in P : g[h[w]] \in Int
        OBVIOUS
      <4>2. \A z \in A \cup {y} : \E w \in P : z = h[w]
        BY <2>4
      <4> QED
        BY <4>1, <4>2
    <3> HIDE DEF A, y, To
    <3>3. IsFiniteSet(A)
      BY <2>3 DEF A
    <3>4. SumFunctionOnSet(g, A \cup {y}) = SumFunctionOnSet(g, A) + g[y]
      <4>1. IsFiniteSet(A) /\ y \notin A /\ \A z \in A \cup {y} : g[z] \in Int
        BY <3>1, <3>2, <3>3
      <4>2. PICK B, z : B = A /\ z = y
        OBVIOUS
      <4>3. IsFiniteSet(B) /\ z \notin B /\ \A w \in B \cup {z} : g[w] \in Int
        BY <4>1, <4>2
      <4>4. SumFunctionOnSet(g, B \cup {z}) = SumFunctionOnSet(g, B) + g[z]
        BY <4>3, SumAdd
      <4> QED
        BY <4>2, <4>4
    <3>5. IsFiniteSet(A \cup {y})
      BY <3>3, FS_AddElement
    <3> QED
      BY <2>2, <2>3, <3>1, <3>4, <3>5 DEF A
  <2>5. CASE x \notin P
    <3>1. To(T \cup {x}) = To(T) /\ f[x] = 0
      BY <2>5
    <3> HIDE DEF To
    <3> QED
      BY <2>2, <2>3, <3>1
  <2> QED
    BY <2>4, <2>5
<1>3. S \in Q
  <2> HIDE DEF Q
  <2> QED
    BY <1>1, <1>2, OverSubsets
<1>4. To(S) = R
  BY DEF Renamed
<1> HIDE DEF To
<1> QED
  BY <1>3, <1>4

\* A sum of nothing.
LEMMA SumNone ==
  ASSUME NEW f, DOMAIN f = {}
  PROVE  SumFunction(f) = 0
<1>1. SumFunction(f) = SumFunctionOnSet(f, DOMAIN f)
  BY DEF SumFunction
<1> QED
  BY <1>1, SumEmpty

\* A sum over all is the sum of the sums over those of each group.
LEMMA SumGroups ==
  ASSUME NEW K, IsFiniteSet(K), NEW S, IsFiniteSet(S), NEW key, \A s \in S : key[s] \in K,
         NEW f, \A s \in S : f[s] \in Int,
         NEW of, \A k \in K : of[k] \in SUBSET S /\ \A s \in S : s \in of[k] <=> key[s] = k,
         NEW g, \A k \in K : g[k] = SumFunctionOnSet(f, of[k])
  PROVE  SumFunctionOnSet(g, K) = SumFunctionOnSet(f, S)
<1> DEFINE In(T, k) == {s \in T : key[s] = k}
           Parts(T) == [k \in K |-> SumFunctionOnSet(f, In(T, k))]
           Q == {T \in SUBSET S : SumFunctionOnSet(Parts(T), K) = SumFunctionOnSet(f, T)}
<1>1. {} \in Q
  <2>1. \A k \in K : Parts({})[k] = 0
    <3>1. \A k \in K : In({}, k) = {}
      OBVIOUS
    <3> HIDE DEF In
    <3> QED
      BY <3>1, SumEmpty
  <2> HIDE DEF Parts
  <2>2. SumFunctionOnSet(Parts({}), K) = 0
    BY <2>1, SumZero
  <2> QED
    BY <2>2, SumEmpty
<1>2. ASSUME NEW T \in SUBSET S, IsFiniteSet(T), NEW k \in K PROVE IsFiniteSet(In(T, k)) /\ In(T, k) \subseteq S /\ Parts(T)[k] \in Int
  <2>1. IsFiniteSet(In(T, k)) /\ In(T, k) \subseteq S
    BY <1>2, FS_Subset
  <2> HIDE DEF In
  <2>2. SumFunctionOnSet(f, In(T, k)) \in Int
    BY <2>1, SumInt
  <2> QED
    BY <2>1, <2>2
<1>3. ASSUME NEW T \in SUBSET S, NEW x \in S \ T, T \in Q PROVE T \cup {x} \in Q
  <2>1. IsFiniteSet(T) /\ T \cup {x} \in SUBSET S /\ IsFiniteSet(T \cup {x}) /\ x \notin T
    BY FS_Subset
  <2>2. PICK y \in K : y = key[x]
    OBVIOUS
  <2>3. In(T \cup {x}, y) = In(T, y) \cup {x} /\ \A k \in K : k # y => In(T \cup {x}, k) = In(T, k)
    BY <2>2
  <2>4. x \notin In(T, y)
    OBVIOUS
  <2>5. SumFunctionOnSet(f, In(T \cup {x}, y)) = SumFunctionOnSet(f, In(T, y)) + f[x]
    <3>1. IsFiniteSet(In(T, y)) /\ \A z \in In(T, y) \cup {x} : f[z] \in Int
      BY <1>2, <2>1
    <3> HIDE DEF In
    <3>2. PICK I : I = In(T, y)
      OBVIOUS
    <3>3. IsFiniteSet(I) /\ x \notin I /\ \A z \in I \cup {x} : f[z] \in Int
      BY <2>4, <3>1, <3>2
    <3>4. SumFunctionOnSet(f, I \cup {x}) = SumFunctionOnSet(f, I) + f[x]
      BY ONLY <3>3, SumAdd
    <3> QED
      BY <2>3, <3>2, <3>4
  <2>6. \A k \in K : /\ Parts(T)[k] \in Int
                     /\ Parts(T \cup {x})[k] = IF k = y THEN Parts(T)[k] + f[x] ELSE Parts(T)[k]
    <3>1. \A k \in K : Parts(T)[k] \in Int
      BY <1>2, <2>1
    <3> HIDE DEF In
    <3> QED
      BY <2>3, <2>5, <3>1
  <2> HIDE DEF Parts
  <2>7. SumFunctionOnSet(Parts(T \cup {x}), K) = SumFunctionOnSet(Parts(T), K) + f[x]
    <3>1. PICK p, q, d : p = Parts(T) /\ q = Parts(T \cup {x}) /\ d = f[x]
      OBVIOUS
    <3>2. d \in Int /\ \A k \in K : p[k] \in Int /\ q[k] = IF k = y THEN p[k] + d ELSE p[k]
      BY <2>6, <3>1
    <3>3. SumFunctionOnSet(q, K) = SumFunctionOnSet(p, K) + d
      BY <3>2, SumRaised
    <3> QED
      BY <3>1, <3>3
  <2>8. SumFunctionOnSet(f, T \cup {x}) = SumFunctionOnSet(f, T) + f[x]
    <3>1. IsFiniteSet(T) /\ x \notin T /\ \A z \in T \cup {x} : f[z] \in Int
      BY <2>1
    <3> QED
      BY ONLY <3>1, SumAdd
  <2>9. SumFunctionOnSet(Parts(T), K) = SumFunctionOnSet(f, T)
    BY <1>3
  <2> QED
    BY <2>1, <2>7, <2>8, <2>9
<1>4. S \in Q
  <2> HIDE DEF Q
  <2> QED
    BY <1>1, <1>3, OverSubsets
<1>5. SumFunctionOnSet(Parts(S), K) = SumFunctionOnSet(f, S)
  BY <1>4
<1>6. \A k \in K : Parts(S)[k] \in Int /\ Parts(S)[k] = g[k]
  <2>1. \A k \in K : In(S, k) = of[k]
    OBVIOUS
  <2>2. \A k \in K : Parts(S)[k] = SumFunctionOnSet(f, In(S, k))
    OBVIOUS
  <2> HIDE DEF In, Parts
  <2> QED
    BY <1>2, <2>1, <2>2
<1> HIDE DEF Parts
<1>7. SumFunctionOnSet(Parts(S), K) = SumFunctionOnSet(g, K)
  <2>1. PICK p : p = Parts(S)
    OBVIOUS
  <2>2. \A k \in K : p[k] \in Int /\ p[k] = g[k]
    BY <1>6, <2>1
  <2>3. SumFunctionOnSet(p, K) = SumFunctionOnSet(g, K)
    BY <2>2, SumSame
  <2> QED
    BY <2>1, <2>3
<1> QED
  BY <1>5, <1>7

=============================================================================

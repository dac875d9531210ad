------------------------ MODULE EnergyResultsProofs ------------------------
(***************************************************************************)
(* What is evaluated of a model whose dates are in their order is what its  *)
(* consumers ask for: the invariants behind FirstSufficientSetting and      *)
(* PowerIsBalanced.                                                         *)
(***************************************************************************)
EXTENDS EnergyModelProofs

(***************************************************************************)
(* Dates in their order.                                                    *)
(***************************************************************************)
\* How many of S are before d.
Rank(S, d) == Cardinality({e \in S : e < d})

LEMMA Ranks ==
  ASSUME NEW S \in SUBSET Int, IsFiniteSet(S), NEW d \in S
  PROVE  /\ Rank(S, d) \in 0 .. Cardinality(S) - 1
         /\ \A e \in S : d < e => Rank(S, d) < Rank(S, e)
<1>1. ASSUME NEW e \in S
      PROVE  IsFiniteSet({x \in S : x < e}) /\ Rank(S, e) \in Nat /\ Rank(S, e) <= Cardinality(S)
  <2>1. {x \in S : x < e} \in SUBSET S
    OBVIOUS
  <2> QED
    BY <2>1, FS_Subset, FS_CardinalityType DEF Rank
<1>2. ASSUME NEW T \in SUBSET S, {x \in S : x < d} \subseteq T, d \in T
      PROVE  Rank(S, d) + 1 <= Cardinality(T)
  <2> DEFINE B == {x \in S : x < d}
  <2>1. d \notin B /\ IsFiniteSet(B)
    BY <1>1
  <2>2. Cardinality(B \cup {d}) = Cardinality(B) + 1 /\ B \cup {d} \in SUBSET T
    <3> HIDE DEF B
    <3>1. Cardinality(B \cup {d}) = Cardinality(B) + 1
      BY <2>1, FS_AddElement
    <3> QED
      BY <1>2, <3>1 DEF B
  <2>3. IsFiniteSet(T)
    BY FS_Subset
  <2>4. Cardinality(B \cup {d}) <= Cardinality(T)
    <3> HIDE DEF B
    <3> QED
      BY <2>2, <2>3, FS_Subset
  <2> QED
    BY <2>2, <2>4 DEF Rank
<1>3. Rank(S, d) + 1 <= Cardinality(S)
  <2>1. S \in SUBSET S /\ {x \in S : x < d} \subseteq S
    OBVIOUS
  <2> QED
    BY <1>2, <2>1
<1>4. ASSUME NEW e \in S, d < e PROVE Rank(S, d) < Rank(S, e)
  <2> DEFINE T == {x \in S : x < e}
  <2>1. T \in SUBSET S /\ {x \in S : x < d} \subseteq T /\ d \in T
    <3>1. \A x \in S : x < d => x < e
      <4>1. \A x \in S : x \in Int /\ d \in Int /\ e \in Int
        OBVIOUS
      <4> QED
        BY <1>4, <4>1
    <3> QED
      BY <1>4, <3>1
  <2>2. Rank(S, d) + 1 <= Cardinality(T)
    <3> HIDE DEF T
    <3> QED
      BY <1>2, <2>1
  <2>3. Cardinality(T) = Rank(S, e)
    BY DEF Rank
  <2>4. Rank(S, d) \in Nat /\ Rank(S, e) \in Nat
    BY <1>1
  <2> HIDE DEF T
  <2> QED
    BY <2>2, <2>3, <2>4
<1>5. Cardinality(S) \in Nat
  BY FS_CardinalityType
<1>6. Rank(S, d) \in Nat
  BY <1>1
<1> QED
  BY <1>3, <1>4, <1>5, <1>6

LEMMA Sorted ==
  ASSUME NEW S \in SUBSET Int, IsFiniteSet(S)
  PROVE  LET s == SortedDates(S)
         IN  /\ Cardinality(S) \in Nat
             /\ s \in [1 .. Cardinality(S) -> S]
             /\ \A i, j \in 1 .. Cardinality(S) : i < j => s[i] < s[j]
             /\ \A d \in S : \E i \in 1 .. Cardinality(S) : s[i] = d
<1> DEFINE n == Cardinality(S)
           s == SortedDates(S)
           r == [d \in S |-> Rank(S, d) + 1]
<1>1. n \in Nat
  BY FS_CardinalityType
<1>2. r \in [S -> 1 .. n]
  BY <1>1, Ranks
<1>3. \A d, e \in S : r[d] = r[e] => d = e
  <2> SUFFICES ASSUME NEW d \in S, NEW e \in S, r[d] = r[e] PROVE d = e
    OBVIOUS
  <2>1. Rank(S, d) \in Int /\ Rank(S, e) \in Int /\ Rank(S, d) = Rank(S, e)
    BY Ranks
  <2>2. (d < e => Rank(S, d) < Rank(S, e)) /\ (e < d => Rank(S, e) < Rank(S, d))
    BY Ranks
  <2>3. d \in Int /\ e \in Int
    OBVIOUS
  <2> QED
    BY <2>1, <2>2, <2>3
<1>4. r \in Surjection(S, 1 .. n)
  <2>1. r \in Injection(S, 1 .. n)
    BY <1>2, <1>3 DEF Injection, IsInjective
  <2>2. IsFiniteSet(1 .. n) /\ Cardinality(1 .. n) = n
    BY <1>1, FS_Interval
  <2> HIDE DEF r
  <2> QED
    BY <2>1, <2>2, FS_Injection
<1>5. ASSUME NEW i \in 1 .. n PROVE s[i] \in S /\ r[s[i]] = i /\ Rank(S, s[i]) + 1 = i
  <2>1. PICK d \in S : r[d] = i
    BY <1>4 DEF Surjection
  <2>2. Rank(S, d) = i - 1
    BY <2>1, Ranks
  <2>3. s[i] = CHOOSE x \in S : Cardinality({e \in S : e < x}) = i - 1
    BY DEF SortedDates
  <2>4. s[i] \in S /\ Rank(S, s[i]) = i - 1
    BY <2>2, <2>3 DEF Rank
  <2> HIDE DEF s
  <2> QED
    BY <2>4
<1>6. s = [i \in 1 .. n |-> s[i]]
  <2> DEFINE At(i) == CHOOSE x \in S : Cardinality({e \in S : e < x}) = i - 1
  <2>1. s = [i \in 1 .. n |-> At(i)]
    BY DEF SortedDates
  <2> HIDE DEF s, n, At
  <2> QED
    BY <2>1
<1> HIDE DEF s
<1>7. s \in [1 .. n -> S]
  BY <1>5, <1>6
<1>8. ASSUME NEW i \in 1 .. n, NEW j \in 1 .. n, i < j PROVE s[i] < s[j]
  <2>1. s[i] \in S /\ s[j] \in S /\ Rank(S, s[i]) + 1 = i /\ Rank(S, s[j]) + 1 = j
    BY <1>5
  <2>2. PICK x \in S, y \in S : x = s[i] /\ y = s[j]
    BY <2>1
  <2>3. Rank(S, x) \in Int /\ Rank(S, y) \in Int /\ (y < x => Rank(S, y) < Rank(S, x))
    BY Ranks
  <2>4. Rank(S, x) + 1 = i /\ Rank(S, y) + 1 = j
    BY <2>1, <2>2
  <2>5. Rank(S, x) < Rank(S, y)
    BY <1>8, <2>3, <2>4
  <2>6. x \in Int /\ y \in Int /\ x # y /\ ~(y < x)
    BY <2>3, <2>5
  <2> QED
    BY <2>2, <2>6
<1>9. ASSUME NEW d \in S PROVE \E i \in 1 .. n : s[i] = d
  <2>1. r[d] \in 1 .. n
    BY <1>2
  <2>2. s[r[d]] \in S /\ r[s[r[d]]] = r[d]
    BY <1>5, <2>1
  <2> HIDE DEF r
  <2> QED
    BY <1>3, <2>1, <2>2
<1> QED
  BY <1>1, <1>7, <1>8, <1>9 DEF s, n

\* The periods between n + 1 dates.
Between(ps, ts, n) ==
  /\ n \in Nat \ {0}
  /\ ts \in [1 .. n + 1 -> Int]
  /\ \A i, j \in 1 .. n + 1 : i < j => ts[i] < ts[j]
  /\ IsList(ps) /\ Len(ps) = n
  /\ \A i \in 1 .. n : ps[i] = <<ts[i], ts[i + 1]>>

PeriodsOn(D) == CreatePeriods(SortedDates(D), FALSE, FALSE)

LEMMA CreatedBetween ==
  ASSUME NEW D \in SUBSET Int, IsFiniteSet(D), NEW first \in D, NEW end \in D, first < end,
         \A d \in D : first <= d /\ d <= end
  PROVE  \E n, ts : /\ Between(PeriodsOn(D), ts, n)
                    /\ ts[1] = first /\ ts[n + 1] = end
                    /\ \A i \in 1 .. n + 1 : ts[i] \in D
                    /\ \A d \in D : \E i \in 1 .. n + 1 : ts[i] = d
<1> DEFINE c == Cardinality(D)
           ts == SortedDates(D)
           ps == [i \in 1 .. (c - 1) |-> <<ts[i], ts[i + 1]>>]
<1>1. /\ c \in Nat /\ ts \in [1 .. c -> D]
      /\ \A i, j \in 1 .. c : i < j => ts[i] < ts[j]
      /\ \A d \in D : \E i \in 1 .. c : ts[i] = d
  BY Sorted
<1>2. ts \in Seq(D) /\ Len(ts) = c
  <2> HIDE DEF ts, c
  <2>1. ts \in Seq(D)
    BY <1>1, SeqDef
  <2> QED
    BY <1>1, <2>1, LenProperties
<1>3. c >= 2
  <2> HIDE DEF ts, c
  <2>1. PICK i \in 1 .. c, j \in 1 .. c : ts[i] = first /\ ts[j] = end
    BY <1>1
  <2>2. i # j
    BY <2>1
  <2> QED
    BY <1>1, <2>2
<1>4. CreatePeriods(ts, FALSE, FALSE) = ps /\ IsList(ps) /\ Len(ps) = c - 1
  <2>1. ts # <<>>
    <3> HIDE DEF ts, c
    <3> QED
      BY <1>2, <1>3
  <2>2. ps \in Seq(D \X D)
    <3> HIDE DEF ts, c
    <3>1. \A i \in 1 .. (c - 1) : ts[i] \in D /\ ts[i + 1] \in D
      BY <1>1
    <3>2. ps \in [1 .. (c - 1) -> D \X D]
      BY <3>1
    <3>3. c - 1 \in Nat
      BY <1>1, <1>3
    <3> HIDE DEF ps
    <3> QED
      BY <3>2, <3>3, SeqDef
  <2>3. DOMAIN ps = 1 .. c - 1 /\ c - 1 \in Nat
    BY <1>1, <1>3
  <2>4. CreatePeriods(ts, FALSE, FALSE) = <<>> \o ps \o <<>>
    <3> HIDE DEF ts, c
    <3> QED
      BY <1>2, <2>1 DEF CreatePeriods
  <2> HIDE DEF ps, ts, c
  <2>5. <<>> \o ps = ps /\ ps \o <<>> = ps
    BY <2>2, ConcatEmptySeq
  <2>6. Len(ps) = c - 1
    BY <2>2, <2>3, LenProperties
  <2> QED
    BY <2>2, <2>4, <2>5, <2>6, ListOf
<1>5. ts \in [1 .. (c - 1) + 1 -> Int] /\ (c - 1) + 1 = c
  <2>1. (c - 1) + 1 = c
    BY <1>1
  <2> HIDE DEF ts, c
  <2> QED
    BY <1>1, <2>1
<1>6. Between(ps, ts, c - 1)
  <2>1. \A i \in 1 .. c - 1 : ps[i] = <<ts[i], ts[i + 1]>>
    OBVIOUS
  <2>2. c - 1 \in Nat \ {0}
    <3> HIDE DEF c
    <3> QED
      BY <1>1, <1>3
  <2> HIDE DEF ps, ts, c
  <2> QED
    BY <1>1, <1>4, <1>5, <2>1, <2>2 DEF Between
<1>7. ts[1] = first /\ ts[c] = end
  <2> HIDE DEF ps, ts, c
  <2>1. PICK i \in 1 .. c, j \in 1 .. c : ts[i] = first /\ ts[j] = end
    BY <1>1
  <2>2. 1 \in 1 .. c /\ c \in 1 .. c
    BY <1>1, <1>3
  <2>3. ts[1] \in D /\ ts[c] \in D /\ first <= ts[1] /\ ts[c] <= end /\ first \in Int /\ end \in Int
        /\ ts[1] \in Int /\ ts[c] \in Int
    BY <1>1, <2>2
  <2>4. ~(1 < i) /\ ~(j < c)
    BY <1>1, <2>1, <2>2, <2>3
  <2>5. i = 1 /\ j = c
    BY <1>1, <2>4
  <2> QED
    BY <2>1, <2>5
<1>8. Between(PeriodsOn(D), ts, c - 1)
  <2>1. PeriodsOn(D) = ps
    <3> HIDE DEF ps
    <3> QED
      BY <1>4 DEF PeriodsOn
  <2> HIDE DEF ps, c, ts
  <2> QED
    BY <1>6, <2>1
<1> HIDE DEF ps, ts, c
<1>9. ts[(c - 1) + 1] = end
  BY <1>5, <1>7
<1>10. (\A i \in 1 .. (c - 1) + 1 : ts[i] \in D) /\ \A d \in D : \E i \in 1 .. (c - 1) + 1 : ts[i] = d
  BY <1>1, <1>5
<1> QED
  BY <1>7, <1>8, <1>9, <1>10

LEMMA AllBetween ==
  ASSUME NEW n, NEW ts, NEW ps, Between(ps, ts, n)
  PROVE  /\ DOMAIN ps = 1 .. n /\ \A i \in 1 .. n : Start(ps[i]) = ts[i]
         /\ Start(Head(ps)) = ts[1] /\ End(Last(ps)) = ts[n + 1]
         /\ \A i \in 1 .. n + 1 : AllDates(ps)[i] = ts[i]
<1>1. /\ n \in Nat \ {0} /\ ts \in [1 .. n + 1 -> Int] /\ IsList(ps) /\ Len(ps) = n
      /\ \A i \in 1 .. n : ps[i] = <<ts[i], ts[i + 1]>>
  BY DEF Between
<1>2. DOMAIN ps = 1 .. n
  BY <1>1, ListDomain
<1>3. \A i \in 1 .. n : Start(ps[i]) = ts[i] /\ End(ps[i]) = ts[i + 1]
  BY <1>1 DEF Start, End
<1>4. Start(Head(ps)) = ts[1]
  <2>1. Head(ps) = ps[1]
    BY <1>1, HeadTailProperties DEF IsList
  <2> QED
    BY <1>1, <1>3, <2>1
<1>5. End(Last(ps)) = ts[n + 1]
  <2>1. Last(ps) = ps[n]
    BY <1>1 DEF Last
  <2> QED
    BY <1>1, <1>3, <2>1
<1>6. ASSUME NEW i \in 1 .. n + 1 PROVE AllDates(ps)[i] = ts[i]
  <2> DEFINE s == StartDates(ps)
  <2>1. s \in [1 .. n -> Int] /\ \A k \in 1 .. n : s[k] = ts[k]
    <3>1. \A k \in 1 .. n : ts[k] \in Int
      BY <1>1
    <3>2. s = [k \in 1 .. n |-> ts[k]]
      BY <1>2, <1>3 DEF StartDates
    <3> QED
      BY <3>1, <3>2
  <2> HIDE DEF s
  <2>2. s \in Seq(Int) /\ Len(s) = n
    BY <1>1, <2>1, SeqDef, LenProperties
  <2>3. AllDates(ps) = Append(s, ts[n + 1]) /\ ts[n + 1] \in Int
    BY <1>1, <1>5 DEF AllDates, s
  <2>4. i \in 1 .. n \/ i = n + 1
    BY <1>1
  <2> QED
    BY <1>1, <2>1, <2>2, <2>3, <2>4, AppendProperties
<1> QED
  BY <1>2, <1>3, <1>4, <1>5, <1>6

\* The periods that lie between two of the dates are found.
LEMMA IndicesFound ==
  ASSUME NEW n, NEW ts, NEW ps, Between(ps, ts, n), NEW p, NEW a \in 1 .. n, NEW b \in 1 .. n,
         Later(Start(p), ts[1]) = ts[a], Earlier(End(p), ts[n + 1]) = ts[b + 1]
  PROVE  PeriodIndices(p, ps) = <<a, b>>
<1>1. /\ n \in Nat \ {0} /\ ts \in [1 .. n + 1 -> Int] /\ Len(ps) = n
      /\ \A i, j \in 1 .. n + 1 : i < j => ts[i] < ts[j]
  BY DEF Between
<1>2. \A i, j \in 1 .. n + 1 : ts[i] = ts[j] => i = j
  <2> SUFFICES ASSUME NEW i \in 1 .. n + 1, NEW j \in 1 .. n + 1, ts[i] = ts[j] PROVE i = j
    OBVIOUS
  <2>1. ~(i < j) /\ ~(j < i)
    <3>1. ts[i] \in Int /\ ts[j] \in Int
      BY <1>1
    <3> QED
      BY <1>1, <3>1
  <2> QED
    BY <1>1, <2>1
<1> DEFINE firsts == {i \in DOMAIN ps : Start(ps[i]) = Later(Start(p), Start(Head(ps)))}
           lasts  == {i \in 0 .. Len(ps) : AllDates(ps)[i + 1] = Earlier(End(p), End(Last(ps)))}
<1>3. firsts = {a}
  <2>1. firsts = {i \in 1 .. n : ts[i] = ts[a]}
    <3>1. /\ DOMAIN ps = 1 .. n /\ \A i \in 1 .. n : Start(ps[i]) = ts[i]
          /\ Later(Start(p), Start(Head(ps))) = ts[a]
      BY AllBetween
    <3> QED
      BY <3>1
  <2>2. \A i \in 1 .. n : i \in 1 .. n + 1
    BY <1>1
  <2> QED
    BY <1>2, <2>1, <2>2
<1>4. lasts = {b}
  <2>1. \A i \in 0 .. n : i + 1 \in 1 .. n + 1
    BY <1>1
  <2>2. lasts = {i \in 0 .. n : ts[i + 1] = ts[b + 1]}
    BY <1>1, <2>1, AllBetween
  <2>3. \A i \in 0 .. n : i + 1 = b + 1 => i = b
    BY <1>1
  <2>4. b \in 0 .. n
    BY <1>1
  <2> QED
    BY <1>2, <2>1, <2>2, <2>3, <2>4
<1>5. PeriodIndices(p, ps) = <<CHOOSE i \in firsts : \A j \in firsts : i <= j, CHOOSE i \in lasts : \A j \in lasts : i <= j>>
  <2>1. firsts # {} /\ lasts # {}
    BY <1>3, <1>4
  <2> QED
    BY <2>1 DEF PeriodIndices
<1> HIDE DEF firsts, lasts
<1>6. (CHOOSE i \in firsts : \A j \in firsts : i <= j) = a
  BY <1>1, <1>3
<1>7. (CHOOSE i \in lasts : \A j \in lasts : i <= j) = b
  BY <1>1, <1>4
<1> QED
  BY <1>5, <1>6, <1>7

\* What is in a flattened list is in one of the lists.
LEMMA Flattened ==
  ASSUME NEW seqs, IsList(seqs), \A i \in 1 .. Len(seqs) : IsList(seqs[i])
  PROVE  /\ IsList(FlattenSeq(seqs))
         /\ ToSet(FlattenSeq(seqs)) = UNION {ToSet(seqs[i]) : i \in 1 .. Len(seqs)}
<1> DEFINE n == Len(seqs)
           A == UNION {ToSet(seqs[i]) : i \in 1 .. n}
<1>1. n \in Nat /\ DOMAIN seqs = 1 .. n
  BY ListDomain
<1>2. CASE n = 0
  <2>1. FlattenSeq(seqs) = seqs /\ ToSet(seqs) = {}
    BY <1>1, <1>2 DEF FlattenSeq, ToSet
  <2> QED
    BY <1>2, <2>1
<1>3. CASE n # 0
  <2>1. seqs \in Seq(Seq(A))
    <3>1. \A i \in 1 .. n : seqs[i] \in Seq(A)
      <4>1. ASSUME NEW i \in 1 .. n PROVE seqs[i] \in Seq(A)
        <5>1. IsList(seqs[i]) /\ ToSet(seqs[i]) \subseteq A
          OBVIOUS
        <5> HIDE DEF A
        <5> QED
          BY <5>1, ListIn
      <4> QED
        BY <4>1
    <3>2. ToSet(seqs) \subseteq Seq(A)
      BY <1>1, <3>1 DEF ToSet
    <3> HIDE DEF A
    <3> QED
      BY <3>2, ListIn
  <2> HIDE DEF A
  <2>2. PICK f : /\ FlattenSeq(seqs) = f[n]
                 /\ f[1] = seqs[1]
                 /\ \A i \in 1 .. n - 1 : f[i + 1] = f[i] \o seqs[i + 1]
    BY <1>3, <2>1, FlattenSolved
  <2> DEFINE Good(k) == /\ IsList(f[k + 1])
                        /\ ToSet(f[k + 1]) = UNION {ToSet(seqs[i]) : i \in 1 .. k + 1}
             S == {k \in Nat : k + 1 <= n => Good(k)}
  <2>3. 0 \in S
    <3>1. Good(0)
      <4>1. IsList(f[1]) /\ f[1] = seqs[1]
        BY <1>1, <1>3, <2>2
      <4>2. 1 .. 0 + 1 = {1}
        OBVIOUS
      <4> QED
        BY <4>1, <4>2
    <3> QED
      BY <3>1
  <2>4. ASSUME NEW k \in Nat, k \in S PROVE k + 1 \in S
    <3> SUFFICES ASSUME (k + 1) + 1 <= n PROVE Good(k + 1)
      OBVIOUS
    <3>1. Good(k)
      BY <1>1, <2>4
    <3>2. k + 1 \in 1 .. n - 1 /\ (k + 1) + 1 \in 1 .. n
      BY <1>1
    <3>3. f[(k + 1) + 1] = f[k + 1] \o seqs[(k + 1) + 1]
      BY <2>2, <3>2
    <3>4. IsList(f[k + 1]) /\ IsList(seqs[(k + 1) + 1])
      BY <3>1, <3>2
    <3>5. /\ IsList(f[(k + 1) + 1])
          /\ ToSet(f[(k + 1) + 1]) = ToSet(f[k + 1]) \cup ToSet(seqs[(k + 1) + 1])
      BY <3>3, <3>4, Joined
    <3>6. 1 .. (k + 1) + 1 = 1 .. k + 1 \cup {(k + 1) + 1}
      OBVIOUS
    <3>7. UNION {ToSet(seqs[i]) : i \in 1 .. (k + 1) + 1}
            = (UNION {ToSet(seqs[i]) : i \in 1 .. k + 1}) \cup ToSet(seqs[(k + 1) + 1])
      BY <3>6
    <3> QED
      BY <3>1, <3>5, <3>7
  <2>5. \A k \in Nat : k \in S
    <3> HIDE DEF S
    <3> QED
      BY <2>3, <2>4, FromZero
  <2>6. Good(n - 1)
    <3>1. n - 1 \in Nat /\ (n - 1) + 1 <= n
      BY <1>1, <1>3
    <3> HIDE DEF Good
    <3> QED
      BY <2>5, <3>1
  <2>7. (n - 1) + 1 = n
    BY <1>1
  <2> QED
    BY <2>2, <2>6, <2>7
<1> QED
  BY <1>2, <1>3

(***************************************************************************)
(* The entries of a dated thing, and what is kept of them in the run.       *)
(***************************************************************************)
Until(entries, i) == IF i = Len(entries) THEN DateMax ELSE entries[i + 1].date

Cut(entries, i) ==
  [period |-> Intersection(<<entries[i].date, Until(entries, i)>>, Target), model |-> entries[i].model]

LEMMA KeptEntries ==
  ASSUME NEW entries, IsList(entries)
  PROVE  /\ IsList(Kept(entries))
         /\ ToSet(Kept(entries)) =
              {Cut(entries, i) : i \in {k \in DOMAIN entries : Intersects(<<entries[k].date, Until(entries, k)>>, Target)}}
<1> DEFINE tm == FromDateKeys(entries)
           Is(i) == Intersects(<<entries[i].date, Until(entries, i)>>, Target)
           each == [i \in DOMAIN entries |-> IF Is(i) THEN <<Cut(entries, i)>> ELSE <<>>]
<1>1. DOMAIN entries = 1 .. Len(entries) /\ Len(entries) \in Nat
  BY ListDomain
<1>2. Kept(entries) = FlattenSeq(each)
  <2>1. DOMAIN tm = DOMAIN entries
    BY DEF FromDateKeys
  <2>2. \A i \in DOMAIN entries :
          tm[i] = [period |-> <<entries[i].date, Until(entries, i)>>, model |-> entries[i].model]
    BY DEF FromDateKeys, Until
  <2> HIDE DEF tm
  <2>3. ASSUME NEW i \in DOMAIN entries
        PROVE  /\ tm[i].period = <<entries[i].date, Until(entries, i)>>
               /\ [tm[i] EXCEPT !.period = Intersection(@, Target)] = Cut(entries, i)
    <3>1. PICK p, m : p = <<entries[i].date, Until(entries, i)>> /\ m = entries[i].model
      OBVIOUS
    <3>2. tm[i] = [period |-> p, model |-> m]
      BY <2>2, <3>1
    <3>3. [tm[i] EXCEPT !.period = Intersection(@, Target)] = [period |-> Intersection(p, Target), model |-> m]
      BY <3>2
    <3> QED
      BY <3>1, <3>2, <3>3 DEF Cut
  <2>4. [i \in DOMAIN tm |-> IF Intersects(tm[i].period, Target)
                             THEN <<[tm[i] EXCEPT !.period = Intersection(@, Target)]>> ELSE <<>>] = each
    BY <2>1, <2>3
  <2> HIDE DEF each
  <2> QED
    BY <2>4 DEF Kept, ForTarget, tm
<1>3. IsList(each) /\ Len(each) = Len(entries)
  <2>1. each = [i \in DOMAIN entries |-> each[i]]
    OBVIOUS
  <2> HIDE DEF each
  <2> QED
    BY <2>1, ListAlong
<1>4. \A i \in 1 .. Len(each) : IsList(each[i]) /\ ToSet(each[i]) = IF Is(i) THEN {Cut(entries, i)} ELSE {}
  <2> SUFFICES ASSUME NEW i \in 1 .. Len(each)
               PROVE  IsList(each[i]) /\ ToSet(each[i]) = IF Is(i) THEN {Cut(entries, i)} ELSE {}
    OBVIOUS
  <2>1. each[i] = IF Is(i) THEN <<Cut(entries, i)>> ELSE <<>>
    BY <1>1, <1>3
  <2> HIDE DEF each, Is
  <2> QED
    BY <2>1, Single, NoneListed
<1>5. /\ IsList(FlattenSeq(each))
      /\ ToSet(FlattenSeq(each)) = UNION {ToSet(each[i]) : i \in 1 .. Len(each)}
  <2> HIDE DEF each
  <2> QED
    BY <1>3, <1>4, Flattened
<1>6. UNION {ToSet(each[i]) : i \in 1 .. Len(each)} = {Cut(entries, i) : i \in {k \in DOMAIN entries : Is(k)}}
  <2> HIDE DEF each, Is
  <2> QED
    BY <1>1, <1>3, <1>4
<1> HIDE DEF each
<1> QED
  BY <1>2, <1>5, <1>6

\* Entries as they are written, in the order of their dates.
Ascending(entries) ==
  /\ IsList(entries)
  /\ \A i \in DOMAIN entries : entries[i].date \in Int /\ DateMin <= entries[i].date /\ entries[i].date < DateMax
  /\ \A i, j \in DOMAIN entries : i < j => entries[i].date < entries[j].date

LEMMA UntilNext ==
  ASSUME NEW entries, Ascending(entries), NEW i \in DOMAIN entries
  PROVE  /\ Until(entries, i) \in Int /\ entries[i].date < Until(entries, i)
         /\ \A j \in DOMAIN entries : i < j => Until(entries, i) <= entries[j].date
         /\ \/ Until(entries, i) = DateMax
            \/ i + 1 \in DOMAIN entries /\ Until(entries, i) = entries[i + 1].date
<1>1. DOMAIN entries = 1 .. Len(entries) /\ Len(entries) \in Nat
  BY ListDomain DEF Ascending
<1>2. CASE i = Len(entries)
  BY <1>1, <1>2, DatesAssumption DEF Ascending, Until
<1>3. CASE i # Len(entries)
  <2>1. i + 1 \in DOMAIN entries /\ i < i + 1 /\ Until(entries, i) = entries[i + 1].date
    BY <1>1, <1>3 DEF Until
  <2>2. entries[i + 1].date \in Int /\ entries[i].date < entries[i + 1].date
    BY <2>1 DEF Ascending
  <2>3. ASSUME NEW j \in DOMAIN entries, i < j PROVE entries[i + 1].date <= entries[j].date
    <3>1. j = i + 1 \/ i + 1 < j
      BY <1>1, <2>3
    <3>2. entries[j].date \in Int
      BY DEF Ascending
    <3> QED
      BY <2>1, <2>2, <3>1, <3>2 DEF Ascending
  <2> QED
    BY <2>1, <2>2, <2>3
<1> QED
  BY <1>2, <1>3

\* The global periods lie between the dates ts, in the period the run is cut to.
OnTimeline(ts, n) ==
  /\ Between(periods, ts, n)
  /\ Start(Target) \in Int /\ DateMin <= Start(Target) /\ Start(Target) <= ts[1]
  /\ End(Target) = ts[n + 1] /\ ts[n + 1] <= DateMax

\* The dates of entries within the run are among ts.
DatedOn(entries, ts, n) ==
  \A i \in DOMAIN entries :
    /\ entries[i].date # DateMin
    /\ ts[1] <= entries[i].date /\ entries[i].date <= ts[n + 1]
    => \E k \in 1 .. n + 1 : ts[k] = entries[i].date

\* Entry i is in force when period t starts.
InForceAtDate(entries, i, s) == entries[i].date <= s /\ s < Until(entries, i)

\* The entry that holds is the one in force.
LEMMA InForceHolds ==
  ASSUME NEW entries, Ascending(entries), NEW ts, NEW n, Between(periods, ts, n), ts[n + 1] <= DateMax, NEW t \in 1 .. n
  PROVE  /\ InForce(entries, t) = {entries[i] : i \in {k \in DOMAIN entries : InForceAtDate(entries, k, ts[t])}}
         /\ \A i, j \in DOMAIN entries : InForceAtDate(entries, i, ts[t]) /\ InForceAtDate(entries, j, ts[t]) => i = j
<1>1. DOMAIN entries = 1 .. Len(entries) /\ Len(entries) \in Nat
  BY ListDomain DEF Ascending
<1>2. /\ Start(periods[t]) = ts[t] /\ ts[t] \in Int /\ ts[t] < DateMax
  <2>1. n \in Nat /\ ts \in [1 .. n + 1 -> Int] /\ \A i, j \in 1 .. n + 1 : i < j => ts[i] < ts[j]
    BY DEF Between
  <2>2. t \in 1 .. n + 1 /\ n + 1 \in 1 .. n + 1 /\ t < n + 1
    BY <2>1
  <2>3. ts[t] \in Int /\ ts[n + 1] \in Int /\ ts[t] < ts[n + 1]
    BY <2>1, <2>2
  <2> QED
    BY <2>3, AllBetween, DatesAssumption
<1> DEFINE s == ts[t]
<1>3. \A i \in DOMAIN entries : entries[i].date \in Int
  BY DEF Ascending
<1>4. InForce(entries, t) =
        {e \in ToSet(entries) : e.date <= s /\ \A f \in ToSet(entries) : f.date <= s => f.date <= e.date}
  BY <1>2 DEF InForce
<1> HIDE DEF s
<1>5. s \in Int /\ s < DateMax
  BY <1>2 DEF s
<1>6. ASSUME NEW i \in DOMAIN entries, NEW j \in DOMAIN entries, InForceAtDate(entries, i, s), entries[j].date <= s
      PROVE  entries[j].date <= entries[i].date
  <2>1. CASE i < j
    <3>1. Until(entries, i) <= entries[j].date /\ Until(entries, i) \in Int
      BY <2>1, UntilNext
    <3> QED
      BY <1>3, <1>5, <1>6, <3>1 DEF InForceAtDate
  <2>2. CASE j < i
    <3>1. entries[j].date < entries[i].date
      BY <2>2 DEF Ascending
    <3> QED
      BY <1>3, <3>1
  <2>3. CASE i = j
    BY <1>3, <2>3
  <2> QED
    BY <1>1, <2>1, <2>2, <2>3
<1>7. ASSUME NEW i \in DOMAIN entries, entries[i].date <= s,
             \A j \in DOMAIN entries : entries[j].date <= s => entries[j].date <= entries[i].date
      PROVE  InForceAtDate(entries, i, s)
  <2>1. Until(entries, i) \in Int /\ entries[i].date < Until(entries, i)
    BY UntilNext
  <2>2. CASE Until(entries, i) = DateMax
    BY <1>5, <1>7, <2>2 DEF InForceAtDate
  <2>3. CASE i + 1 \in DOMAIN entries /\ Until(entries, i) = entries[i + 1].date
    BY <1>3, <1>5, <1>7, <2>1, <2>3 DEF InForceAtDate
  <2> QED
    BY <2>2, <2>3, UntilNext
<1>8. ASSUME NEW i \in DOMAIN entries, NEW j \in DOMAIN entries, InForceAtDate(entries, i, s), InForceAtDate(entries, j, s)
      PROVE  i = j
  <2>1. entries[j].date <= entries[i].date /\ entries[i].date <= entries[j].date
    BY <1>6, <1>8 DEF InForceAtDate
  <2>2. ~(i < j) /\ ~(j < i)
    BY <1>3, <2>1 DEF Ascending
  <2> QED
    BY <1>1, <2>2
<1>9. ToSet(entries) = {entries[i] : i \in DOMAIN entries}
  BY DEF ToSet
<1>10. InForce(entries, t) = {entries[i] : i \in {k \in DOMAIN entries : InForceAtDate(entries, k, s)}}
  <2>1. ASSUME NEW e \in InForce(entries, t) PROVE \E i \in DOMAIN entries : InForceAtDate(entries, i, s) /\ e = entries[i]
    <3>1. PICK i \in DOMAIN entries : e = entries[i]
      BY <1>4, <1>9, <2>1
    <3>2. entries[i].date <= s /\ \A j \in DOMAIN entries : entries[j].date <= s => entries[j].date <= entries[i].date
      BY <1>4, <1>9, <2>1, <3>1
    <3> QED
      BY <1>7, <3>1, <3>2
  <2>2. ASSUME NEW i \in DOMAIN entries, InForceAtDate(entries, i, s) PROVE entries[i] \in InForce(entries, t)
    <3>1. entries[i].date <= s /\ \A j \in DOMAIN entries : entries[j].date <= s => entries[j].date <= entries[i].date
      BY <1>6, <2>2 DEF InForceAtDate
    <3> QED
      BY <1>4, <1>9, <3>1
  <2> QED
    BY <2>1, <2>2
<1> QED
  BY <1>8, <1>10 DEF s

\* What is kept of an entry answers for the periods in which the entry holds.
LEMMA CutFound ==
  ASSUME NEW entries, Ascending(entries), NEW ts, NEW n, OnTimeline(ts, n), DatedOn(entries, ts, n),
         NEW i \in DOMAIN entries, Intersects(<<entries[i].date, Until(entries, i)>>, Target),
         Intersects(Cut(entries, i).period, Span(periods))
  PROVE  \E a, b \in 1 .. n : /\ PeriodIndices(Cut(entries, i).period, periods) = <<a, b>>
                              /\ \A t \in 1 .. n : t \in a .. b <=> InForceAtDate(entries, i, ts[t])
<1> DEFINE d == entries[i].date
           u == Until(entries, i)
           from == Start(Target)
           end  == ts[n + 1]
           p    == Cut(entries, i).period
           x    == Later(d, ts[1])
           y    == Earlier(u, end)
<1>1. /\ n \in Nat \ {0} /\ ts \in [1 .. n + 1 -> Int]
      /\ \A k, l \in 1 .. n + 1 : k < l => ts[k] < ts[l]
      /\ Between(periods, ts, n)
  BY DEF OnTimeline, Between
<1>2. 1 \in 1 .. n + 1 /\ n + 1 \in 1 .. n + 1 /\ 1 < n + 1
  BY <1>1
<1>3. /\ d \in Int /\ u \in Int /\ from \in Int /\ end \in Int /\ ts[1] \in Int /\ DateMin \in Int /\ DateMax \in Int
      /\ d < u /\ DateMin <= from /\ from <= ts[1] /\ ts[1] < end /\ end <= DateMax /\ End(Target) = end
  <2>1. d \in Int /\ u \in Int /\ d < u
    BY UntilNext DEF Ascending
  <2>2. end \in Int /\ ts[1] \in Int /\ ts[1] < end
    BY <1>1, <1>2
  <2> QED
    BY <2>1, <2>2, DatesAssumption DEF OnTimeline
<1>4. Start(p) = Later(d, from) /\ End(p) = y
  BY <1>3 DEF Cut, Intersection, Start, End
<1>5. Span(periods) = <<ts[1], end>>
  BY <1>1, AllBetween DEF Span
<1>6. (from <= d /\ d < end) \/ (d <= from /\ from < u)
  BY <1>3 DEF Intersects, ContainsDate, Start, End
<1>7. (ts[1] <= Later(d, from) /\ Later(d, from) < end) \/ (Later(d, from) <= ts[1] /\ ts[1] < y)
  <2>1. Intersects(p, <<ts[1], end>>)
    BY <1>5
  <2>2. ContainsDate(<<ts[1], end>>, Start(p)) \/ ContainsDate(p, ts[1])
    BY <2>1 DEF Intersects, Start
  <2> HIDE DEF p, y
  <2> QED
    BY <1>4, <2>2 DEF ContainsDate, Start, End
<1>8. Later(Start(p), ts[1]) = x /\ Earlier(End(p), end) = y /\ x < y /\ ts[1] <= x /\ y <= end /\ x \in Int /\ y \in Int
      /\ (x = ts[1] \/ (x = d /\ ts[1] < d)) /\ (y = end \/ (y = u /\ u < end))
  <2> HIDE DEF p, d, u, from, end
  <2> QED
    BY <1>3, <1>4, <1>6, <1>7 DEF Later, Earlier
<1>9. PICK a \in 1 .. n + 1 : ts[a] = x
  <2>1. CASE x = ts[1]
    BY <1>2, <2>1
  <2>2. CASE x = d /\ ts[1] < d
    <3>1. d # DateMin /\ ts[1] <= d /\ d <= end
      <4> HIDE DEF x, y, d, u, from, end
      <4> QED
        BY <1>3, <1>8, <2>2
    <3> HIDE DEF x, y
    <3> QED
      BY <2>2, <3>1 DEF DatedOn
  <2> QED
    BY <1>8, <2>1, <2>2
<1>10. PICK c \in 1 .. n + 1 : ts[c] = y
  <2>1. CASE y = end
    BY <1>2, <2>1
  <2>2. CASE y = u /\ u < end
    <3>1. u # DateMin /\ ts[1] <= u /\ u <= end /\ u # DateMax
      <4> HIDE DEF x, y, d, u, from, end
      <4> QED
        BY <1>3, <1>8, <2>2
    <3>2. i + 1 \in DOMAIN entries /\ u = entries[i + 1].date
      BY <3>1, UntilNext
    <3> HIDE DEF x, y, u
    <3> QED
      BY <2>2, <3>1, <3>2 DEF DatedOn
  <2> QED
    BY <1>8, <2>1, <2>2
<1> HIDE DEF x, y, p, d, u, from, end
<1>11. a < c
  <2>1. ~(c < a)
    <3>1. c < a => ts[c] < ts[a]
      BY <1>1
    <3> QED
      BY <1>8, <1>9, <1>10, <3>1
  <2>2. a # c
    BY <1>8, <1>9, <1>10
  <2> QED
    BY <2>1, <2>2
<1> DEFINE b == c - 1
<1>12. a \in 1 .. n /\ b \in 1 .. n /\ b + 1 = c /\ a <= b
  BY <1>1, <1>11
<1> HIDE DEF b
<1>13. PeriodIndices(p, periods) = <<a, b>>
  <2>1. Later(Start(p), ts[1]) = ts[a] /\ Earlier(End(p), ts[n + 1]) = ts[b + 1]
    BY <1>8, <1>9, <1>10, <1>12 DEF end
  <2>2. Between(periods, ts, n) /\ a \in 1 .. n /\ b \in 1 .. n
    BY <1>1, <1>12
  <2>3. \A q : Later(Start(q), ts[1]) = ts[a] /\ Earlier(End(q), ts[n + 1]) = ts[b + 1]
               => PeriodIndices(q, periods) = <<a, b>>
    BY <2>2, IndicesFound
  <2> QED
    BY <2>1, <2>3
<1>14. ASSUME NEW t \in 1 .. n PROVE t \in a .. b <=> InForceAtDate(entries, i, ts[t])
  <2>1. t \in 1 .. n + 1 /\ ts[t] \in Int
    BY <1>1
  <2>2. t \in a .. b <=> ~(t < a) /\ t < c
    BY <1>1, <1>12
  <2>3. t < a <=> ts[t] < ts[a]
    <3>1. (t < a => ts[t] < ts[a]) /\ (a < t => ts[a] < ts[t])
      BY <1>1, <2>1
    <3>2. t = a => ~(ts[t] < ts[a])
      BY <2>1
    <3>3. ts[a] \in Int /\ t \in Int /\ a \in Int
      BY <1>8, <1>9
    <3> QED
      BY <2>1, <3>1, <3>2, <3>3
  <2>4. t < c <=> ts[t] < ts[c]
    <3>1. (t < c => ts[t] < ts[c]) /\ (c < t => ts[c] < ts[t])
      BY <1>1, <2>1
    <3>2. t = c => ~(ts[t] < ts[c])
      BY <2>1
    <3>3. ts[c] \in Int /\ t \in Int /\ c \in Int
      BY <1>8, <1>10
    <3> QED
      BY <2>1, <3>1, <3>2, <3>3
  <2>5. t \in a .. b <=> x <= ts[t] /\ ts[t] < y
    BY <1>8, <1>9, <1>10, <2>1, <2>2, <2>3, <2>4
  <2>6. ts[1] <= ts[t] /\ ts[t] < end
    <3>1. (t = 1 \/ 1 < t) /\ t < n + 1
      BY <1>1
    <3>2. (1 < t => ts[1] < ts[t]) /\ ts[t] < ts[n + 1]
      BY <1>1, <1>2, <2>1, <3>1
    <3> QED
      BY <1>3, <2>1, <3>1, <3>2 DEF end
  <2>7. x <= ts[t] <=> d <= ts[t]
    BY <1>3, <2>1, <2>6 DEF x, Later
  <2>8. ts[t] < y <=> ts[t] < u
    BY <1>3, <2>1, <2>6 DEF y, Earlier
  <2> QED
    BY <2>5, <2>7, <2>8 DEF InForceAtDate, d, u
<1> QED
  BY <1>12, <1>13, <1>14 DEF p

\* An entry that holds in a period of the run is kept.
LEMMA HeldIsKept ==
  ASSUME NEW entries, Ascending(entries), NEW ts, NEW n, OnTimeline(ts, n),
         NEW i \in DOMAIN entries, NEW t \in 1 .. n, InForceAtDate(entries, i, ts[t])
  PROVE  /\ Intersects(<<entries[i].date, Until(entries, i)>>, Target)
         /\ Intersects(Cut(entries, i).period, Span(periods))
<1> DEFINE d == entries[i].date
           u == Until(entries, i)
           from == Start(Target)
           end  == ts[n + 1]
           s    == ts[t]
           first == ts[1]
<1>1. /\ n \in Nat \ {0} /\ ts \in [1 .. n + 1 -> Int]
      /\ \A k, l \in 1 .. n + 1 : k < l => ts[k] < ts[l]
      /\ Between(periods, ts, n)
  BY DEF OnTimeline, Between
<1>2. 1 \in 1 .. n + 1 /\ n + 1 \in 1 .. n + 1 /\ t \in 1 .. n + 1 /\ t < n + 1 /\ (t = 1 \/ 1 < t)
  BY <1>1
<1>3. /\ d \in Int /\ u \in Int /\ from \in Int /\ end \in Int /\ first \in Int /\ s \in Int
      /\ d < u /\ from <= first /\ first <= s /\ s < end /\ End(Target) = end /\ d <= s /\ s < u
  <2>1. d \in Int /\ u \in Int /\ d < u
    BY UntilNext DEF Ascending
  <2>2. end \in Int /\ first \in Int /\ s \in Int /\ s < end /\ first <= s
    BY <1>1, <1>2
  <2> QED
    BY <2>1, <2>2 DEF OnTimeline, InForceAtDate
<1>4. Span(periods) = <<first, end>>
  BY <1>1, AllBetween DEF Span
<1>5. Start(Cut(entries, i).period) = Later(d, from) /\ End(Cut(entries, i).period) = Earlier(u, end)
  BY <1>3 DEF Cut, Intersection, Start, End
<1>6. Intersects(<<d, u>>, Target)
  <2>1. (from <= d /\ d < end) \/ (d <= from /\ from < u)
    <3> HIDE DEF d, u, from, end, s, first
    <3> QED
      BY <1>3
  <2> QED
    BY <1>3, <2>1 DEF Intersects, ContainsDate, Start, End
<1>7. (first <= Later(d, from) /\ Later(d, from) < end) \/ (Later(d, from) <= first /\ first < Earlier(u, end))
  <2> HIDE DEF d, u, from, end, s, first
  <2> QED
    BY <1>3 DEF Later, Earlier
<1>8. Intersects(Cut(entries, i).period, <<first, end>>)
  <2> HIDE DEF d, u, from, end, s, first
  <2> QED
    BY <1>5, <1>7 DEF Intersects, ContainsDate, Start, End
<1> QED
  BY <1>4, <1>6, <1>8

\* In every period of the run the entry that is kept of those in the order of
\* their dates, if any, is the one in force by its date.
LEMMA KeptInForce ==
  ASSUME NEW entries, Ascending(entries), NEW ts, NEW n, OnTimeline(ts, n), DatedOn(entries, ts, n), NEW t \in 1 .. n
  PROVE  \/ InForce(entries, t) = {} /\ EntriesAt(Kept(entries), t) = {}
         \/ \E i \in DOMAIN entries, a, b \in 1 .. n :
              /\ InForce(entries, t) = {entries[i]}
              /\ EntriesAt(Kept(entries), t) = {Cut(entries, i)}
              /\ PeriodIndices(Cut(entries, i).period, periods) = <<a, b>>
              /\ t \in a .. b
<1> DEFINE holding == {i \in DOMAIN entries : InForceAtDate(entries, i, ts[t])}
<1>1. InForce(entries, t) = {entries[i] : i \in holding} /\ \A i, j \in holding : i = j
  BY InForceHolds DEF OnTimeline
<1>2. EntriesAt(Kept(entries), t) = {Cut(entries, i) : i \in holding}
  <2>1. ASSUME NEW e \in EntriesAt(Kept(entries), t) PROVE \E i \in holding : e = Cut(entries, i)
    <3>1. e \in ToSet(Kept(entries)) /\ Intersects(e.period, Span(periods)) /\ t \in PeriodsOf(e)
      BY <2>1 DEF EntriesAt
    <3>2. PICK i \in DOMAIN entries : e = Cut(entries, i) /\ Intersects(<<entries[i].date, Until(entries, i)>>, Target)
      BY <3>1, KeptEntries DEF Ascending
    <3>3. PICK a \in 1 .. n, b \in 1 .. n : /\ PeriodIndices(Cut(entries, i).period, periods) = <<a, b>>
                                            /\ \A k \in 1 .. n : k \in a .. b <=> InForceAtDate(entries, i, ts[k])
      BY <3>1, <3>2, CutFound
    <3>4. t \in a .. b
      BY <3>1, <3>2, <3>3 DEF PeriodsOf
    <3> QED
      BY <3>2, <3>3, <3>4
  <2>2. ASSUME NEW i \in holding PROVE Cut(entries, i) \in EntriesAt(Kept(entries), t)
    <3>1. /\ Intersects(<<entries[i].date, Until(entries, i)>>, Target)
          /\ Intersects(Cut(entries, i).period, Span(periods))
      BY HeldIsKept
    <3>2. PICK a \in 1 .. n, b \in 1 .. n : /\ PeriodIndices(Cut(entries, i).period, periods) = <<a, b>>
                                            /\ \A k \in 1 .. n : k \in a .. b <=> InForceAtDate(entries, i, ts[k])
      BY <3>1, CutFound
    <3>3. t \in PeriodsOf(Cut(entries, i))
      BY <3>2 DEF PeriodsOf
    <3>4. Cut(entries, i) \in ToSet(Kept(entries))
      BY <3>1, KeptEntries DEF Ascending
    <3> QED
      BY <3>1, <3>3, <3>4 DEF EntriesAt
  <2> QED
    BY <2>1, <2>2
<1>3. CASE holding = {}
  BY <1>1, <1>2, <1>3
<1>4. CASE holding # {}
  <2>1. PICK i \in holding : TRUE
    BY <1>4
  <2>2. holding = {i}
    BY <1>1, <2>1
  <2>3. InForce(entries, t) = {entries[i]} /\ EntriesAt(Kept(entries), t) = {Cut(entries, i)}
    <3> HIDE DEF holding
    <3> QED
      BY <1>1, <1>2, <2>2
  <2>4. /\ Intersects(<<entries[i].date, Until(entries, i)>>, Target)
        /\ Intersects(Cut(entries, i).period, Span(periods))
    BY HeldIsKept
  <2>5. PICK a \in 1 .. n, b \in 1 .. n : /\ PeriodIndices(Cut(entries, i).period, periods) = <<a, b>>
                                          /\ \A k \in 1 .. n : k \in a .. b <=> InForceAtDate(entries, i, ts[k])
    BY <2>4, CutFound
  <2>6. i \in DOMAIN entries /\ t \in a .. b
    BY <2>5
  <2> QED
    BY <2>3, <2>5, <2>6
<1> QED
  BY <1>3, <1>4

(***************************************************************************)
(* Consumer systems.                                                        *)
(***************************************************************************)
\* No rate is lost on the way from one unit to another.
LEMMA CrossOverKeepsTheSum ==
  ASSUME NEW system, IsSystem(system), NEW setting \in ToSet(system.settings), NEW load \in Int
  PROVE  /\ SumFunction(RatesAfterCrossOver(system, setting, load)) = SumFunction(AskedRates(setting, load))
         /\ SumFunction(AskedRates(setting, load)) \in Int
<1> DEFINE K == DOMAIN setting.shares
           asked == AskedRates(setting, load)
           after == RatesAfterCrossOver(system, setting, load)
           c == setting.crossover
           given == [j \in K |-> Transfer(system, setting, load, j)]
           From(k) == {u \in K : c[u] = k}
           got == [k \in K |-> SumFunctionOnSet(given, From(k))]
           left == [k \in K |-> asked[k] - given[k]]
<1>1. IsFiniteSet(K) /\ \A k \in K : setting.shares[k] \in Int /\ system.capacities[k] \in Int /\ (c[k] # 0 => c[k] \in K)
  BY DEF IsSystem
<1>2. DOMAIN asked = K /\ \A k \in K : asked[k] = setting.shares[k] * load /\ asked[k] \in Int
  BY <1>1 DEF AskedRates
<1>3. \A k \in K : given[k] \in Int /\ (given[k] # 0 => c[k] \in K)
  <2> SUFFICES ASSUME NEW k \in K PROVE given[k] \in Int /\ (given[k] # 0 => c[k] \in K)
    OBVIOUS
  <2>1. given[k] = IF /\ c[k] # 0
                      /\ asked[k] - system.capacities[k] > 0
                      /\ setting.discharge[c[k]] >= setting.discharge[k]
                   THEN asked[k] - system.capacities[k] ELSE 0
    BY DEF Transfer
  <2>2. asked[k] - system.capacities[k] \in Int
    BY <1>1, <1>2
  <2> HIDE DEF given, asked, K, c
  <2> QED
    BY <1>1, <2>1, <2>2
<1>4. \A k \in K : IsFiniteSet(From(k)) /\ got[k] \in Int
            /\ SumFunction([j \in {u \in DOMAIN setting.shares : setting.crossover[u] = k} |->
                              Transfer(system, setting, load, j)]) = got[k]
  <2> SUFFICES ASSUME NEW k \in K
               PROVE  IsFiniteSet(From(k)) /\ got[k] \in Int
                      /\ SumFunction([j \in {u \in DOMAIN setting.shares : setting.crossover[u] = k} |->
                                        Transfer(system, setting, load, j)]) = got[k]
    OBVIOUS
  <2> DEFINE A == From(k)
             part == [j \in A |-> Transfer(system, setting, load, j)]
  <2>1. A \in SUBSET K
    OBVIOUS
  <2>2. IsFiniteSet(A) /\ \A x \in A : given[x] \in Int
    <3> HIDE DEF A, given, K
    <3> QED
      BY <1>1, <1>3, <2>1, FS_Subset
  <2>3. \A x \in A : part[x] \in Int /\ part[x] = given[x]
    <3>1. \A x \in A : part[x] = given[x]
      BY <2>1
    <3> HIDE DEF part
    <3> QED
      BY <2>2, <3>1
  <2>4. got[k] = SumFunctionOnSet(given, A)
    OBVIOUS
  <2>5. DOMAIN part = A
    OBVIOUS
  <2> HIDE DEF part, given, got
  <2>6. SumFunctionOnSet(part, A) = SumFunctionOnSet(given, A) /\ SumFunctionOnSet(given, A) \in Int
    <3> HIDE DEF A
    <3> QED
      BY <2>2, <2>3, SumSame, SumInt
  <2>7. SumFunction(part) = SumFunctionOnSet(part, A)
    BY <2>5 DEF SumFunction
  <2> QED
    BY <2>2, <2>4, <2>6, <2>7 DEF part
<1>5. DOMAIN after = K /\ \A k \in K : after[k] = asked[k] - given[k] + got[k]
  <2>1. DOMAIN after = K
    BY DEF RatesAfterCrossOver
  <2>2. ASSUME NEW k \in K PROVE after[k] = asked[k] - given[k] + got[k]
    <3>1. after[k] = asked[k] - given[k]
            + SumFunction([j \in {u \in DOMAIN setting.shares : setting.crossover[u] = k} |->
                              Transfer(system, setting, load, j)])
      BY DEF RatesAfterCrossOver
    <3> HIDE DEF got, after, asked, given
    <3> QED
      BY <1>4, <3>1
  <2> QED
    BY <2>1, <2>2
<1>6. \A k \in K : /\ left[k] = asked[k] - given[k]
                   /\ got[k] = SumFunctionOnSet(given, {j \in K : c[j] = k})
  OBVIOUS
<1> HIDE DEF left, got, given, asked, after, K, c
<1>7. SumFunctionOnSet(got, K) = SumFunctionOnSet(given, K) /\ SumFunctionOnSet(given, K) \in Int
  <2>1. SumFunctionOnSet(given, K) \in Int
    BY <1>1, <1>3, SumInt
  <2>2. \A k \in K : got[k] = SumFunctionOnSet(given, {j \in K : c[j] = k})
    BY <1>6
  <2>3. IsFiniteSet(K) /\ \A j \in K : given[j] \in Int /\ (given[j] # 0 => c[j] \in K)
    BY <1>1, <1>3
  <2>4. SumFunctionOnSet(got, K) = SumFunctionOnSet(given, K)
    <3> DEFINE from == [k \in K |-> {j \in K : c[j] = k}]
    <3>1. \A k \in K : from[k] = {j \in K : c[j] = k} /\ got[k] = SumFunctionOnSet(given, from[k])
      BY <2>2
    <3> HIDE DEF from
    <3>2. \A k \in K : from[k] \in SUBSET K
      BY <3>1
    <3>3. \A k, j \in K : j \in from[k] <=> c[j] = k
      BY <3>1
    <3>4. \A k \in K : got[k] = SumFunctionOnSet(given, from[k])
      BY <3>1
    <3> QED
      BY <2>3, <3>2, <3>3, <3>4, SumMoved
  <2> QED
    BY <2>1, <2>4
<1>8. SumFunctionOnSet(asked, K) = SumFunctionOnSet(left, K) + SumFunctionOnSet(given, K)
  <2>1. ASSUME NEW k \in K PROVE left[k] \in Int /\ given[k] \in Int /\ asked[k] = left[k] + given[k]
    <3>1. asked[k] \in Int /\ given[k] \in Int /\ left[k] = asked[k] - given[k]
      BY <1>2, <1>3, <1>6
    <3> QED
      BY <3>1
  <2> QED
    BY <1>1, <2>1, SumPlus
<1>9. SumFunctionOnSet(after, K) = SumFunctionOnSet(left, K) + SumFunctionOnSet(got, K)
  <2>1. ASSUME NEW k \in K PROVE left[k] \in Int /\ got[k] \in Int /\ after[k] = left[k] + got[k]
    <3>1. asked[k] \in Int /\ given[k] \in Int /\ left[k] = asked[k] - given[k]
      BY <1>2, <1>3, <1>6
    <3>2. got[k] \in Int /\ after[k] = asked[k] - given[k] + got[k]
      BY <1>4, <1>5
    <3> QED
      BY <3>1, <3>2
  <2> QED
    BY <1>1, <2>1, SumPlus
<1>10. SumFunctionOnSet(asked, K) \in Int
  BY <1>1, <1>2, SumInt
<1>11. SumFunction(after) = SumFunctionOnSet(after, K) /\ SumFunction(asked) = SumFunctionOnSet(asked, K)
  BY <1>2, <1>5 DEF SumFunction
<1> QED
  BY <1>7, <1>8, <1>9, <1>10, <1>11 DEF asked, after

\* The first setting that suffices, or the last one.
FirstOf(system, load) ==
  LET all == DOMAIN system.settings
      sufficient == {i \in all : WithinCapacity(system, system.settings[i], load)}
  IN  IF sufficient = {} THEN Max(all) ELSE Min(sufficient)

LEMMA FirstSettingUsed ==
  ASSUME NEW system, IsSystem(system), NEW loads
  PROVE  /\ DOMAIN SettingsUsed(system, loads) = DOMAIN loads
         /\ \A t \in DOMAIN loads : /\ SettingsUsed(system, loads)[t] = FirstOf(system, loads[t])
                                    /\ FirstOf(system, loads[t]) \in DOMAIN system.settings
<1> DEFINE D == DOMAIN loads
           last == Len(system.settings) - 1
           R == [remaining : SUBSET D, used : [D -> Nat]]
           W(i, t) == WithinCapacity(system, system.settings[i], loads[t])
           MoveOn(acc, i) ==
             LET left == StillRemaining(acc.remaining, OutsideCapacity(system, system.settings[i], loads))
             IN  [remaining |-> left,
                  used |-> [t \in DOMAIN loads |-> IF t \in left THEN i + 1 ELSE acc.used[t]]]
           base == [remaining |-> D, used |-> [t \in D |-> 1]]
           G == [x \in R \X (1 .. last) |-> MoveOn(x[1], x[2])]
           Solves(f) == f = [i \in 0 .. last |-> IF i = 0 THEN base ELSE MoveOn(f[i - 1], i)]
           F == CHOOSE f : Solves(f)
<1>1. DOMAIN system.settings = 1 .. last + 1 /\ last \in Nat
  <2>1. IsList(system.settings) /\ system.settings # <<>>
    BY DEF IsSystem, IsList
  <2>2. DOMAIN system.settings = 1 .. Len(system.settings) /\ Len(system.settings) \in Nat
    BY <2>1, ListDomain
  <2>3. Len(system.settings) # 0
    BY <2>1, EmptySeq DEF IsList
  <2> QED
    BY <2>2, <2>3
<1>2. ASSUME NEW acc \in R, NEW i \in 1 .. last PROVE MoveOn(acc, i) \in R
  <2> DEFINE left == StillRemaining(acc.remaining, OutsideCapacity(system, system.settings[i], loads))
             used == [t \in D |-> IF t \in left THEN i + 1 ELSE acc.used[t]]
  <2>1. left \in SUBSET D
    BY DEF StillRemaining
  <2>2. acc.used \in [D -> Nat] /\ i + 1 \in Nat
    BY <1>1
  <2>3. used \in [D -> Nat]
    <3> HIDE DEF left
    <3> QED
      BY <2>2
  <2>4. MoveOn(acc, i) = [remaining |-> left, used |-> used]
    OBVIOUS
  <2> HIDE DEF left, used, MoveOn, D
  <2> QED
    BY <2>1, <2>3, <2>4
<1>3. base \in R /\ G \in [R \X (1 .. last) -> R]
  <2>1. base \in R
    OBVIOUS
  <2>2. \A x \in R \X (1 .. last) : x[1] \in R /\ x[2] \in 1 .. last
    OBVIOUS
  <2>3. \A x \in R \X (1 .. last) : MoveOn(x[1], x[2]) \in R
    <3> HIDE DEF R, MoveOn
    <3> QED
      BY <1>2, <2>2
  <2> HIDE DEF R, MoveOn, base
  <2> QED
    BY <2>1, <2>3
<1>4. PICK h : Iterates(h, R, last, base, G)
  <2> HIDE DEF R, G, base, last
  <2> QED
    BY <1>1, <1>3, Recursion
<1>5. Solves(h)
  <2>1. h \in [0 .. last -> R] /\ h[0] = base /\ \A i \in 1 .. last : h[i] = G[<<h[i - 1], i>>]
    BY <1>4 DEF Iterates
  <2>2. ASSUME NEW i \in 0 .. last PROVE h[i] = IF i = 0 THEN base ELSE MoveOn(h[i - 1], i)
    <3>1. CASE i # 0
      <4>1. i \in 1 .. last /\ i - 1 \in 0 .. last
        BY <1>1, <3>1
      <4>2. h[i - 1] \in R
        BY <2>1, <4>1
      <4>3. <<h[i - 1], i>> \in R \X (1 .. last)
        BY <4>1, <4>2
      <4>4. G[<<h[i - 1], i>>] = MoveOn(h[i - 1], i)
        <5> HIDE DEF R, MoveOn
        <5> QED
          BY <4>3
      <4> HIDE DEF G, MoveOn, base
      <4> QED
        BY <2>1, <3>1, <4>1, <4>4
    <3> QED
      BY <2>1, <3>1
  <2> HIDE DEF R, G, MoveOn, base
  <2> QED
    BY <2>1, <2>2
<1>6. Solves(F)
  <2> HIDE DEF Solves
  <2> QED
    BY <1>5
<1>7. SettingsUsed(system, loads) = F[last].used
  BY Zenon DEF SettingsUsed
<1>8. F[0] = base /\ \A i \in 1 .. last : F[i] = MoveOn(F[i - 1], i)
  <2>1. F = [i \in 0 .. last |-> IF i = 0 THEN base ELSE MoveOn(F[i - 1], i)]
    <3> HIDE DEF F, MoveOn, base
    <3> QED
      BY <1>6
  <2> HIDE DEF F, MoveOn, base
  <2>2. 0 \in 0 .. last /\ \A i \in 1 .. last : i \in 0 .. last /\ i # 0
    BY <1>1
  <2> QED
    BY <2>1, <2>2
<1> HIDE DEF F, Solves
<1> DEFINE Good(k) == /\ F[k].remaining = {t \in D : \A i \in 1 .. k : ~W(i, t)}
                      /\ DOMAIN F[k].used = D
                      /\ \A t \in D : /\ F[k].used[t] \in 1 .. k + 1
                                      /\ \A i \in 1 .. F[k].used[t] - 1 : ~W(i, t)
                                      /\ F[k].used[t] = k + 1 \/ W(F[k].used[t], t)
           S == {k \in Nat : k <= last => Good(k)}
<1>9. 0 \in S
  BY <1>8
<1>10. ASSUME NEW k \in Nat, k \in S PROVE k + 1 \in S
  <2> SUFFICES ASSUME k + 1 <= last PROVE Good(k + 1)
    OBVIOUS
  <2>1. Good(k)
    BY <1>1, <1>10
  <2> DEFINE left == StillRemaining(F[k].remaining, OutsideCapacity(system, system.settings[k + 1], loads))
  <2>2. F[k + 1] = [remaining |-> left, used |-> [t \in D |-> IF t \in left THEN (k + 1) + 1 ELSE F[k].used[t]]]
    <3>1. k + 1 \in 1 .. last /\ (k + 1) - 1 = k
      BY <1>1
    <3>2. F[k + 1] = MoveOn(F[k], k + 1)
      <4> HIDE DEF MoveOn
      <4> QED
        BY <1>8, <3>1
    <3> QED
      BY <3>2
  <2>3. left = {t \in F[k].remaining : ~W(k + 1, t)}
    BY <2>1 DEF StillRemaining, OutsideCapacity
  <2> HIDE DEF left, W
  <2>4. \A i \in 1 .. k + 1 : i \in 1 .. k \/ i = k + 1
    OBVIOUS
  <2>5. left = {t \in D : \A i \in 1 .. k + 1 : ~W(i, t)}
    BY <2>1, <2>3, <2>4
  <2>6. ASSUME NEW t \in D
        PROVE  LET u == F[k + 1].used[t]
               IN  u \in 1 .. (k + 1) + 1 /\ (\A i \in 1 .. u - 1 : ~W(i, t)) /\ (u = (k + 1) + 1 \/ W(u, t))
    <3>1. CASE t \in left
      <4>1. F[k + 1].used[t] = (k + 1) + 1
        BY <2>2, <3>1
      <4>2. ((k + 1) + 1) - 1 = k + 1 /\ (k + 1) + 1 \in 1 .. (k + 1) + 1
        OBVIOUS
      <4>3. \A i \in 1 .. k + 1 : ~W(i, t)
        BY <2>5, <3>1
      <4> QED
        BY <4>1, <4>2, <4>3
    <3>2. CASE t \notin left
      <4> DEFINE u == F[k].used[t]
      <4>1. F[k + 1].used[t] = u /\ u \in 1 .. k + 1 /\ (\A i \in 1 .. u - 1 : ~W(i, t)) /\ (u = k + 1 \/ W(u, t))
        BY <2>1, <2>2, <3>2
      <4>2. PICK i \in 1 .. k + 1 : W(i, t)
        BY <2>5, <3>2
      <4> HIDE DEF u
      <4>3. W(u, t)
        <5>1. CASE u = k + 1
          <6>1. i \notin 1 .. u - 1
            BY <4>1, <4>2
          <6>2. i = u
            BY <5>1, <6>1
          <6> QED
            BY <4>2, <6>2
        <5> QED
          BY <4>1, <5>1
      <4>4. u \in 1 .. (k + 1) + 1
        BY <4>1
      <4> QED
        BY <4>1, <4>3, <4>4
    <3> QED
      BY <3>1, <3>2
  <2>7. F[k + 1].remaining = left /\ DOMAIN F[k + 1].used = D
    BY <2>2
  <2> QED
    BY <2>5, <2>6, <2>7
<1>11. Good(last)
  <2>1. \A k \in Nat : k \in S
    <3> HIDE DEF S
    <3> QED
      BY <1>9, <1>10, FromZero
  <2>2. last \in S /\ last <= last
    <3> HIDE DEF S, last
    <3> QED
      BY <1>1, <2>1
  <2> HIDE DEF Good
  <2> QED
    BY <2>2
<1>12. ASSUME NEW t \in D
       PROVE  F[last].used[t] = FirstOf(system, loads[t]) /\ FirstOf(system, loads[t]) \in DOMAIN system.settings
  <2> DEFINE n == last + 1
             u == F[last].used[t]
             sufficient == {i \in 1 .. n : W(i, t)}
  <2>1. u \in 1 .. n /\ (\A i \in 1 .. u - 1 : ~W(i, t)) /\ (u = n \/ W(u, t))
    BY <1>11
  <2>2. FirstOf(system, loads[t]) = IF sufficient = {} THEN Max(1 .. n) ELSE Min(sufficient)
    BY <1>1 DEF FirstOf
  <2> HIDE DEF u, W
  <2>3. n \in Nat /\ n \in 1 .. n
    BY <1>1
  <2> HIDE DEF n, F
  <2>4. CASE sufficient = {}
    <3>1. Max(1 .. n) = n
      <4>1. \E m \in 1 .. n : \A y \in 1 .. n : m >= y
        BY <2>3
      <4>2. Max(1 .. n) \in 1 .. n /\ \A y \in 1 .. n : Max(1 .. n) >= y
        BY <4>1 DEF Max
      <4>3. Max(1 .. n) >= n
        BY <2>3, <4>2
      <4> QED
        BY <2>3, <4>2, <4>3
    <3>2. u = n
      BY <2>1, <2>4
    <3> QED
      BY <1>1, <2>2, <2>3, <2>4, <3>1, <3>2 DEF u, n
  <2>5. CASE sufficient # {}
    <3>1. W(u, t)
      <4>1. CASE u = n
        <5>1. PICK i \in sufficient : TRUE
          BY <2>5
        <5>2. i \notin 1 .. u - 1 /\ i \in 1 .. n
          BY <2>1, <5>1
        <5>3. i = u
          BY <2>3, <4>1, <5>2
        <5> QED
          BY <5>1, <5>3
      <4> QED
        BY <2>1, <4>1
    <3>2. u \in sufficient /\ \A y \in sufficient : u <= y
      <4>1. \A y \in sufficient : y \in 1 .. n /\ y \notin 1 .. u - 1
        BY <2>1
      <4>2. \A y \in 1 .. n : y \notin 1 .. u - 1 => u <= y
        BY <2>1, <2>3
      <4> QED
        BY <2>1, <3>1, <4>1, <4>2
    <3> DEFINE M == Min(sufficient)
    <3>3. M \in sufficient /\ \A y \in sufficient : M <= y
      <4> HIDE DEF sufficient
      <4> QED
        BY <3>2 DEF Min
    <3>4. M <= u /\ u <= M /\ M \in 1 .. n
      <4> HIDE DEF M
      <4> QED
        BY <3>2, <3>3
    <3>5. M = u
      <4> HIDE DEF M, sufficient
      <4> QED
        BY <2>1, <2>3, <3>4
    <3> QED
      BY <1>1, <2>1, <2>2, <2>5, <3>5 DEF u, n
  <2> QED
    BY <2>4, <2>5
<1> QED
  BY <1>7, <1>11, <1>12

(***************************************************************************)
(* The global periods and the values in them.                               *)
(***************************************************************************)
LEMMA MinOf ==
  ASSUME NEW S \in SUBSET Int, IsFiniteSet(S), S # {}
  PROVE  Min(S) \in S /\ \A d \in S : Min(S) <= d
<1> DEFINE n == Cardinality(S)
           s == SortedDates(S)
<1>1. /\ n \in Nat /\ s \in [1 .. n -> S]
      /\ \A i, j \in 1 .. n : i < j => s[i] < s[j]
      /\ \A d \in S : \E i \in 1 .. n : s[i] = d
  BY Sorted
<1> HIDE DEF n, s
<1>2. 1 \in 1 .. n
  <2>1. PICK d \in S : TRUE
    OBVIOUS
  <2>2. PICK i \in 1 .. n : s[i] = d
    BY <1>1
  <2> QED
    BY <1>1, <2>2
<1>3. s[1] \in S
  BY <1>1, <1>2
<1>4. ASSUME NEW d \in S PROVE s[1] <= d
  <2>1. PICK i \in 1 .. n : s[i] = d
    BY <1>1
  <2>2. i = 1 \/ 1 < i
    OBVIOUS
  <2>3. s[1] \in Int /\ d \in Int
    BY <1>3
  <2> QED
    BY <1>1, <1>2, <2>1, <2>2, <2>3
<1> QED
  BY <1>3, <1>4 DEF Min

RunDates == GlobalDates(SeriesDates(yaml), yaml.start, yaml.end, DateKeys(yaml))

\* A run that does not say when it starts has no time series from before the
\* start it is given.
StartsInTime(model) == model.start = NoDate => \A d \in SeriesDates(model) : DefaultStart <= d

FirstDate(ss, start, ts) == IF start = NoDate THEN ts[1] \in ss ELSE ts[1] = start

CutBy(ps, ss, start, end, more) ==
  \E n, ts : /\ Between(ps, ts, n)
             /\ FirstDate(ss, start, ts)
             /\ ts[n + 1] = end
             /\ \A d \in more : ts[1] <= d /\ d <= end => \E k \in 1 .. n + 1 : ts[k] = d

\* The run is cut by the dates that are in it.
LEMMA GlobalTimeline ==
  ASSUME NEW ss, NEW start \in Int, NEW end \in Int, NEW more,
         ss \in SUBSET Int, IsFiniteSet(ss), more \in SUBSET Int, GlobalDates(ss, start, end, more) # {}
  PROVE  CutBy(PeriodsOn(GlobalDates(ss, start, end, more)), ss, start, end, more)
<1> DEFINE first == IF start = NoDate THEN Min(ss) ELSE start
           all   == ss \cup {first, end} \cup more
           D     == GlobalDates(ss, start, end, more)
<1>1. /\ ~(ss = {} /\ start = NoDate) /\ ~(end <= first)
      /\ D = {d \in all : first <= d /\ d <= end}
  BY DEF GlobalDates
<1>2. first \in Int /\ IF start = NoDate THEN first \in ss ELSE first = start
  BY <1>1, MinOf
<1> HIDE DEF first, D
<1>3. all \subseteq Int
  BY <1>2
<1>4. D \in SUBSET Int /\ IsFiniteSet(D)
  <2>1. \A d \in D : d \in Int /\ first <= d /\ d <= end
    BY <1>1, <1>3
  <2>2. D \in SUBSET Int /\ D \in SUBSET (first .. end)
    BY <1>2, <2>1
  <2>3. IsFiniteSet(first .. end)
    BY <1>2, FS_Interval
  <2> HIDE DEF all
  <2> QED
    BY <2>2, <2>3, FS_Subset
<1>5. first < end
  BY <1>1, <1>2
<1>6. first \in D /\ end \in D /\ \A d \in D : first <= d /\ d <= end
  BY <1>1, <1>2, <1>5
<1>7. PICK n, ts : /\ Between(PeriodsOn(D), ts, n)
                   /\ ts[1] = first /\ ts[n + 1] = end
                   /\ \A d \in D : \E i \in 1 .. n + 1 : ts[i] = d
  <2> HIDE DEF all
  <2>1. \E n, ts : /\ Between(PeriodsOn(D), ts, n)
                   /\ ts[1] = first /\ ts[n + 1] = end
                   /\ \A i \in 1 .. n + 1 : ts[i] \in D
                   /\ \A d \in D : \E i \in 1 .. n + 1 : ts[i] = d
    BY <1>4, <1>5, <1>6, CreatedBetween
  <2> QED
    BY <2>1
<1>8. ASSUME NEW d \in more, ts[1] <= d, d <= end PROVE \E k \in 1 .. n + 1 : ts[k] = d
  <2>1. d \in D
    BY <1>1, <1>7, <1>8
  <2> QED
    BY <1>7, <2>1
<1> QED
  BY <1>2, <1>7, <1>8 DEF D, FirstDate, CutBy

\* The periods of a run are on the timeline it is cut to.
LEMMA RunTimeline ==
  ASSUME IsTyped(yaml), RunDates # {}, periods = PeriodsOn(RunDates)
  PROVE  \E n, ts : /\ Between(periods, ts, n) /\ ts[n + 1] <= DateMax
                    /\ StartsInTime(yaml) => OnTimeline(ts, n)
                    /\ \A d \in DateKeys(yaml) : ts[1] <= d /\ d <= ts[n + 1] => \E k \in 1 .. n + 1 : ts[k] = d
<1>1. /\ yaml.start \in Int /\ (yaml.start # NoDate => DateMin <= yaml.start)
      /\ yaml.end \in Int /\ yaml.end <= DateMax
      /\ DateKeys(yaml) \in SUBSET Int /\ SeriesDates(yaml) \in SUBSET Int /\ IsFiniteSet(SeriesDates(yaml))
  BY DEF IsTyped
<1>2. \E n, ts : /\ Between(PeriodsOn(RunDates), ts, n)
                 /\ FirstDate(SeriesDates(yaml), yaml.start, ts)
                 /\ ts[n + 1] = yaml.end
                 /\ \A d \in DateKeys(yaml) : ts[1] <= d /\ d <= yaml.end => \E k \in 1 .. n + 1 : ts[k] = d
  <2>1. PICK ss, start, end, more : ss = SeriesDates(yaml) /\ start = yaml.start /\ end = yaml.end /\ more = DateKeys(yaml)
    OBVIOUS
  <2>2. start \in Int /\ end \in Int /\ ss \in SUBSET Int /\ IsFiniteSet(ss) /\ more \in SUBSET Int
    BY <1>1, <2>1
  <2>3. RunDates = GlobalDates(ss, start, end, more)
    BY <2>1 DEF RunDates
  <2>4. GlobalDates(ss, start, end, more) # {}
    BY <2>3
  <2>5. CutBy(PeriodsOn(GlobalDates(ss, start, end, more)), ss, start, end, more)
    BY <2>2, <2>4, GlobalTimeline
  <2> QED
    BY <2>1, <2>3, <2>5 DEF CutBy
<1>3. PICK n, ts : /\ Between(periods, ts, n)
                   /\ FirstDate(SeriesDates(yaml), yaml.start, ts)
                   /\ ts[n + 1] = yaml.end
                   /\ \A d \in DateKeys(yaml) : ts[1] <= d /\ d <= yaml.end => \E k \in 1 .. n + 1 : ts[k] = d
  BY <1>2
<1>4. StartsInTime(yaml) => OnTimeline(ts, n)
  <2> SUFFICES ASSUME StartsInTime(yaml) PROVE OnTimeline(ts, n)
    OBVIOUS
  <2>1. End(Target) = yaml.end /\ Start(Target) = IF yaml.start = NoDate THEN DefaultStart ELSE yaml.start
    BY DEF Target, Start, End
  <2>2. CASE yaml.start = NoDate
    <3>1. Start(Target) = DefaultStart /\ DefaultStart <= ts[1]
      BY <1>3, <2>1, <2>2 DEF StartsInTime, FirstDate
    <3>2. DefaultStart \in Int /\ DateMin <= DefaultStart
      BY DatesAssumption
    <3> QED
      BY <1>1, <1>3, <2>1, <3>1, <3>2 DEF OnTimeline
  <2>3. CASE yaml.start # NoDate
    <3>1. Start(Target) = ts[1] /\ ts[1] \in Int /\ DateMin <= ts[1]
      BY <1>1, <1>3, <2>1, <2>3 DEF FirstDate
    <3>2. Start(Target) <= ts[1]
      BY <3>1
    <3> QED
      BY <1>1, <1>3, <2>1, <3>1, <3>2 DEF OnTimeline
  <2> QED
    BY <2>2, <2>3
<1> QED
  BY <1>1, <1>3, <1>4

\* What is known of the variables while they are resolved, and once they are.
VariablesTyped ==
  activity = "variables" \/ is_validated =>
    /\ IsTyped(yaml)
    /\ RunDates # {} /\ periods = PeriodsOn(RunDates)
    /\ \A n \in DOMAIN processed : processed[n] \in [DOMAIN periods -> Int]
    /\ \A s \in yaml.series : s.name \in DOMAIN processed
    /\ IsList(unresolved) /\ ToSet(unresolved) \subseteq ToSet(yaml.variables)
    /\ \A v \in ToSet(yaml.variables) : v.name \in DOMAIN processed \/ v \in ToSet(unresolved)
    /\ is_validated => unresolved = <<>>
    /\ cursor \in Nat \ {0}

LEMMA FittedInt ==
  ASSUME NEW s, IsFiniteSet(DOMAIN s.points), \A d \in DOMAIN s.points : s.points[d] \in Int, NEW d
  PROVE  Fitted(s, d) \in Int
<1> DEFINE dates == DOMAIN s.points
           from  == {e \in dates :
                       CASE d < Min(dates) -> FALSE
                         [] d > Max(dates) -> s.extrapolate /\ e = Max(dates)
                         [] s.interpolation = RIGHT -> e = Max({f \in dates : f <= d})
                         [] s.interpolation = LEFT  -> e = Min({f \in dates : f >= d})}
<1>1. Fitted(s, d) = SumFunctionOnSet(s.points, from)
  BY Zenon DEF Fitted
<1>2. from \in SUBSET dates
  OBVIOUS
<1> HIDE DEF from
<1>3. IsFiniteSet(from) /\ \A e \in from : s.points[e] \in Int
  BY <1>2, FS_Subset
<1> QED
  BY <1>1, <1>3, SumInt

LEMMA EvaluatedInt ==
  ASSUME NEW expression, expression.plus \in Int, IsFiniteSet(expression.uses), NEW values, NEW i,
         \A n \in expression.uses : values[n][i] \in Int
  PROVE  Evaluated(expression, values, i) \in Int
<1> DEFINE f == [n \in expression.uses |-> values[n][i]]
<1>1. SumFunction(f) = SumFunctionOnSet(f, expression.uses)
  BY DEF SumFunction
<1>2. \A n \in expression.uses : f[n] \in Int
  OBVIOUS
<1>3. Evaluated(expression, values, i) = expression.plus + SumFunction(f)
  BY DEF Evaluated
<1> HIDE DEF f
<1>4. SumFunctionOnSet(f, expression.uses) \in Int
  BY <1>2, SumInt
<1> QED
  BY <1>1, <1>3, <1>4

\* A variable has no more periods than entries.
LEMMA PeriodsOfVariable ==
  ASSUME NEW v, IsList(v.entries), \A e \in ToSet(v.entries) : e.date \in Int
  PROVE  DOMAIN VariablePeriods(v) \in SUBSET (1 .. Len(v.entries))
<1> DEFINE D == {e.date : e \in ToSet(v.entries)}
           m == Len(v.entries)
           c == Cardinality(D)
           ts == SortedDates(D)
           f == [i \in 1 .. m |-> v.entries[i].date]
           ps == [i \in 1 .. (c - 1) |-> <<ts[i], ts[i + 1]>>]
           last == <<<<Last(ts), DateMax>>>>
<1>1. DOMAIN v.entries = 1 .. m /\ m \in Nat /\ \A k \in 1 .. m : v.entries[k] \in ToSet(v.entries)
  BY ListDomain
<1>2. f \in Surjection(1 .. m, D)
  <2>1. f \in [1 .. m -> D]
    BY <1>1
  <2>2. \A d \in D : \E i \in 1 .. m : f[i] = d
    BY <1>1 DEF ToSet
  <2> HIDE DEF f, D
  <2> QED
    BY <2>1, <2>2 DEF Surjection
<1>3. IsFiniteSet(D) /\ c <= m /\ D \in SUBSET Int
  <2>1. IsFiniteSet(1 .. m) /\ Cardinality(1 .. m) = m
    BY <1>1, FS_Interval
  <2>2. D \in SUBSET Int
    OBVIOUS
  <2> HIDE DEF f, D
  <2> QED
    BY <1>2, <2>1, <2>2, FS_Surjection
<1>4. c \in Nat /\ ts \in [1 .. c -> D]
  <2> HIDE DEF D
  <2> QED
    BY <1>3, Sorted
<1>5. ts \in Seq(D) /\ Len(ts) = c
  <2> HIDE DEF ts, c, D
  <2>1. ts \in Seq(D)
    BY <1>4, SeqDef
  <2> QED
    BY <1>4, <2>1, LenProperties
<1>6. VariablePeriods(v) = CreatePeriods(ts, FALSE, TRUE)
  BY DEF VariablePeriods
<1>7. CASE ts = <<>>
  <2>1. VariablePeriods(v) = <<>>
    <3> HIDE DEF ts
    <3> QED
      BY <1>6, <1>7 DEF CreatePeriods
  <2> QED
    BY <2>1
<1>8. CASE ts # <<>>
  <2>1. VariablePeriods(v) = <<>> \o ps \o last
    <3> HIDE DEF ts, c, D
    <3> QED
      BY <1>5, <1>6, <1>8 DEF CreatePeriods
  <2> DEFINE A == {ps[i] : i \in 1 .. (c - 1)} \cup {<<Last(ts), DateMax>>}
  <2>2. c # 0
    <3> HIDE DEF ts, c, D
    <3> QED
      BY <1>5, <1>8, EmptySeq
  <2>3. ps \in [1 .. (c - 1) -> A] /\ c - 1 \in Nat
    <3>1. c - 1 \in Nat
      <4> HIDE DEF c
      <4> QED
        BY <1>4, <2>2
    <3> QED
      BY <3>1
  <2>4. last \in Seq(A) /\ Len(last) = 1
    OBVIOUS
  <2> HIDE DEF ps, last, A, c
  <2>5. ps \in Seq(A) /\ Len(ps) = c - 1
    <3>1. ps \in Seq(A)
      BY <2>3, SeqDef
    <3>2. DOMAIN ps = 1 .. c - 1
      BY <2>3
    <3> QED
      BY <2>3, <3>1, <3>2, LenProperties
  <2>6. VariablePeriods(v) = ps \o last
    BY <2>1, <2>5, ConcatEmptySeq
  <2>7. ps \o last \in Seq(A) /\ Len(ps \o last) = (c - 1) + 1
    BY <2>4, <2>5, ConcatProperties
  <2>8. DOMAIN (ps \o last) = 1 .. c
    BY <1>4, <2>7, LenProperties
  <2> QED
    BY <1>1, <1>3, <1>4, <2>6, <2>8
<1> QED
  BY <1>7, <1>8

LEMMA Removed ==
  ASSUME NEW s, IsList(s), NEW i \in 1 .. Len(s)
  PROVE  /\ IsList(RemoveAt(s, i)) /\ ToSet(RemoveAt(s, i)) \subseteq ToSet(s)
         /\ \A x \in ToSet(s) : x = s[i] \/ x \in ToSet(RemoveAt(s, i))
<1> DEFINE A == ToSet(s)
           n == Len(s)
           before == SubSeq(s, 1, i - 1)
           behind == SubSeq(s, i + 1, n)
<1>1. n \in Nat /\ \A k \in 1 .. n : s[k] \in A
  BY ListDomain
<1>2. A = {s[k] : k \in 1 .. n}
  BY ListDomain DEF ToSet
<1> HIDE DEF A, n
<1>3. i \in 1 .. n
  BY DEF n
<1>4. /\ before \in Seq(A) /\ Len(before) = i - 1
      /\ \A k \in 1 .. i - 1 : before[k] = s[k]
  <2>1. 1 \in Int /\ i - 1 \in Int /\ \A k \in 1 .. i - 1 : s[k] \in A
    BY <1>1, <1>3
  <2>2. /\ before \in Seq(A) /\ Len(before) = IF 1 <= i - 1 THEN (i - 1) - 1 + 1 ELSE 0
        /\ \A k \in 1 .. (i - 1) - 1 + 1 : before[k] = s[1 + k - 1]
    BY <2>1, SubSeqProperties
  <2> HIDE DEF before
  <2> QED
    BY <1>1, <1>3, <2>2
<1>5. /\ behind \in Seq(A) /\ Len(behind) = n - i
      /\ \A k \in 1 .. n - i : behind[k] = s[i + k]
  <2>1. n \in Int /\ i + 1 \in Int /\ \A k \in i + 1 .. n : s[k] \in A
    BY <1>1, <1>3
  <2>2. /\ behind \in Seq(A) /\ Len(behind) = IF i + 1 <= n THEN n - (i + 1) + 1 ELSE 0
        /\ \A k \in 1 .. n - (i + 1) + 1 : behind[k] = s[i + 1 + k - 1]
    BY <2>1, SubSeqProperties
  <2> HIDE DEF behind
  <2> QED
    BY <1>1, <1>3, <2>2
<1>6. RemoveAt(s, i) = before \o behind
  BY DEF RemoveAt, n
<1> HIDE DEF before, behind
<1>7. /\ IsList(before) /\ ToSet(before) \subseteq A /\ DOMAIN before = 1 .. i - 1
      /\ IsList(behind) /\ ToSet(behind) \subseteq A /\ DOMAIN behind = 1 .. n - i
  BY <1>4, <1>5, ListOf
<1>8. IsList(before \o behind) /\ ToSet(before \o behind) = ToSet(before) \cup ToSet(behind)
  BY <1>7, Joined
<1>9. ASSUME NEW k \in 1 .. n, k # i PROVE s[k] \in ToSet(before) \cup ToSet(behind)
  <2>1. CASE k < i
    <3>1. k \in DOMAIN before /\ before[k] = s[k]
      BY <1>1, <1>3, <1>4, <1>7, <2>1
    <3> QED
      BY <3>1 DEF ToSet
  <2>2. CASE i < k
    <3>1. k - i \in 1 .. n - i /\ i + (k - i) = k
      BY <1>1, <1>3, <2>2
    <3>2. k - i \in DOMAIN behind /\ behind[k - i] = s[k]
      BY <1>5, <1>7, <3>1
    <3> QED
      BY <3>2 DEF ToSet
  <2> QED
    BY <1>1, <1>3, <1>9, <2>1, <2>2
<1> QED
  BY <1>2, <1>6, <1>7, <1>8, <1>9 DEF A

(***************************************************************************)
(* The values of variables are numbers, one per period.                     *)
(***************************************************************************)
LEMMA FittedTyped ==
  ASSUME NEW all, NEW ps,
         \A s \in all : IsFiniteSet(DOMAIN s.points) /\ \A d \in DOMAIN s.points : d \in Int /\ s.points[d] \in Int
  PROVE  /\ DOMAIN FittedSeries(all, ps) = {s.name : s \in all}
         /\ \A n \in DOMAIN FittedSeries(all, ps) : FittedSeries(all, ps)[n] \in [DOMAIN ps -> Int]
<1> DEFINE one(n) == CHOOSE s \in all : s.name = n
<1>1. ASSUME NEW n \in {s.name : s \in all}, NEW d PROVE Fitted(one(n), d) \in Int
  <2>1. one(n) \in all
    OBVIOUS
  <2> HIDE DEF one
  <2>2. PICK s : s = one(n)
    OBVIOUS
  <2>3. IsFiniteSet(DOMAIN s.points) /\ \A e \in DOMAIN s.points : s.points[e] \in Int
    BY <2>1, <2>2
  <2>4. Fitted(s, d) \in Int
    BY <2>3, FittedInt
  <2> QED
    BY <2>2, <2>4
<1>2. FittedSeries(all, ps) = [n \in {s.name : s \in all} |-> [i \in DOMAIN ps |-> Fitted(one(n), Start(ps[i]))]]
  BY DEF FittedSeries
<1> HIDE DEF one
<1> QED
  BY <1>1, <1>2

LEMMA ProcessedTyped ==
  ASSUME NEW v, IsList(v.entries),
         \A e \in ToSet(v.entries) : e.date \in Int /\ e.value.plus \in Int /\ IsFiniteSet(e.value.uses),
         Required(v) \subseteq DOMAIN processed, \A n \in DOMAIN processed : processed[n] \in [DOMAIN periods -> Int]
  PROVE  Processed(v, processed) \in [DOMAIN periods -> Int]
<1> DEFINE H(i) == HoldingPeriod(VariablePeriods(v), periods[i])
           value(i, k) == Evaluated(v.entries[k].value, processed, i)
<1>1. \A e \in ToSet(v.entries) : e.value.uses \subseteq DOMAIN processed
  BY DEF Required
<1>2. ASSUME NEW i \in DOMAIN periods, NEW k \in 1 .. Len(v.entries) PROVE value(i, k) \in Int
  <2>1. v.entries[k] \in ToSet(v.entries)
    BY ListDomain
  <2>2. PICK x : x = v.entries[k].value
    OBVIOUS
  <2>3. x.plus \in Int /\ IsFiniteSet(x.uses) /\ x.uses \subseteq DOMAIN processed
    BY <1>1, <2>1, <2>2
  <2>4. PICK values : values = processed
    OBVIOUS
  <2>5. \A n \in x.uses : values[n][i] \in Int
    BY <2>3, <2>4
  <2>6. Evaluated(x, values, i) \in Int
    BY <2>3, <2>5, EvaluatedInt
  <2> QED
    BY <2>2, <2>4, <2>6
<1>3. ASSUME NEW i \in DOMAIN periods PROVE IsFiniteSet(H(i)) /\ H(i) \subseteq 1 .. Len(v.entries)
  <2>1. DOMAIN VariablePeriods(v) \in SUBSET (1 .. Len(v.entries))
    BY PeriodsOfVariable
  <2>2. H(i) \subseteq 1 .. Len(v.entries)
    BY <2>1 DEF HoldingPeriod
  <2>3. IsFiniteSet(1 .. Len(v.entries))
    <3>1. PICK m : m = Len(v.entries)
      OBVIOUS
    <3>2. m \in Int
      BY <3>1, ListDomain
    <3> QED
      BY <3>1, <3>2, FS_Interval
  <2> HIDE DEF H
  <2> QED
    BY <2>2, <2>3, FS_Subset
<1>4. ASSUME NEW i \in DOMAIN periods PROVE SumFunction([k \in H(i) |-> value(i, k)]) \in Int
  <2> DEFINE f == [k \in H(i) |-> value(i, k)]
  <2>1. SumFunction(f) = SumFunctionOnSet(f, H(i))
    <3>1. DOMAIN f = H(i)
      OBVIOUS
    <3> HIDE DEF f
    <3> QED
      BY <3>1 DEF SumFunction
  <2>2. IsFiniteSet(H(i)) /\ \A k \in H(i) : f[k] \in Int
    <3> HIDE DEF H, value
    <3> QED
      BY <1>2, <1>3
  <2> HIDE DEF H, f
  <2>3. SumFunctionOnSet(f, H(i)) \in Int
    <3>1. PICK g, S : g = f /\ S = H(i)
      OBVIOUS
    <3> QED
      BY <2>2, <3>1, SumInt
  <2> QED
    BY <2>1, <2>3 DEF f
<1>5. Processed(v, processed) = [i \in DOMAIN periods |-> SumFunction([k \in H(i) |-> value(i, k)])]
  BY DEF Processed
<1> HIDE DEF H, value
<1> QED
  BY <1>4, <1>5

LEMMA TypedStart ==
  ASSUME Schema, EnergyInv, VariablesTyped, Check
  PROVE  VariablesTyped'
<1>1. activity = "checking" /\ ~is_validated /\ is_validated' = is_validated /\ yaml' = yaml
  BY DEF Check, EnergyInv, Stages, GoOn, Return, mapVars
<1> DEFINE dates == GlobalDates(SeriesDates(yaml), yaml.start, yaml.end, DateKeys(yaml))
<1>2. CASE activity' # "variables"
  BY <1>1, <1>2 DEF VariablesTyped
<1>3. CASE activity' = "variables"
  <2>1. /\ TRUE \in yaml.readable /\ dates # {}
        /\ StartVariables(yaml.variables, yaml.series, CreatePeriods(SortedDates(dates), FALSE, FALSE))
    BY <1>3 DEF Check, Return, Schema
  <2>2. IsTyped(yaml)
    BY <2>1 DEF Schema
  <2>3. RunDates' = dates /\ RunDates' # {}
    BY <1>1, <2>1 DEF RunDates
  <2>4. /\ periods' = PeriodsOn(RunDates') /\ processed' = FittedSeries(yaml.series, periods')
        /\ unresolved' = yaml.variables /\ cursor' = 1
    <3>1. /\ periods' = CreatePeriods(SortedDates(dates), FALSE, FALSE) /\ unresolved' = yaml.variables /\ cursor' = 1
          /\ processed' = FittedSeries(yaml.series, CreatePeriods(SortedDates(dates), FALSE, FALSE))
      BY <2>1 DEF StartVariables
    <3> HIDE DEF dates
    <3>2. periods' = PeriodsOn(RunDates')
      BY <2>3, <3>1 DEF PeriodsOn
    <3>3. processed' = FittedSeries(yaml.series, periods')
      BY <3>1, Zenon
    <3> QED
      BY <3>1, <3>2, <3>3
  <2>5. /\ DOMAIN processed' = {s.name : s \in yaml.series}
        /\ \A n \in DOMAIN processed' : processed'[n] \in [DOMAIN periods' -> Int]
    <3>1. PICK all, ps : all = yaml.series /\ ps = periods'
      OBVIOUS
    <3>2. \A s \in all : IsFiniteSet(DOMAIN s.points) /\ \A d \in DOMAIN s.points : d \in Int /\ s.points[d] \in Int
      BY <2>2, <3>1 DEF IsTyped
    <3>3. /\ DOMAIN FittedSeries(all, ps) = {s.name : s \in all}
          /\ \A n \in DOMAIN FittedSeries(all, ps) : FittedSeries(all, ps)[n] \in [DOMAIN ps -> Int]
      BY <3>2, FittedTyped
    <3> QED
      BY <2>4, <3>1, <3>3
  <2>6. \A s \in yaml.series : s.name \in DOMAIN processed'
    BY <2>5
  <2>7. IsList(yaml.variables)
    BY <2>2 DEF IsTyped
  <2>8. IsTyped(yaml)' /\ yaml'.series = yaml.series /\ yaml'.variables = yaml.variables
    BY <1>1, <2>2
  <2>9. IsList(unresolved)' /\ ToSet(unresolved)' = ToSet(yaml.variables)' /\ cursor' \in Nat \ {0}
    BY <1>1, <2>4, <2>7
  <2> HIDE DEF dates
  <2> QED
    BY <1>1, <2>3, <2>4, <2>5, <2>6, <2>8, <2>9 DEF VariablesTyped
<1> QED
  BY <1>2, <1>3

LEMMA TypedVisit ==
  ASSUME EnergyInv, VariablesTyped, ResolveVariables
  PROVE  VariablesTyped'
<1>1. /\ activity = "variables" /\ ~is_validated
      /\ UNCHANGED <<yaml, activity, is_validated, periods>>
  BY DEF ResolveVariables, EnergyInv, Stages, mapVars, VisitVariable, NextRound
<1>2. RunDates' = RunDates /\ IsTyped(yaml)'
  BY <1>1 DEF RunDates, VariablesTyped
<1>3. /\ IsTyped(yaml) /\ RunDates # {} /\ periods = PeriodsOn(RunDates)
      /\ \A n \in DOMAIN processed : processed[n] \in [DOMAIN periods -> Int]
      /\ \A s \in yaml.series : s.name \in DOMAIN processed
      /\ IsList(unresolved) /\ ToSet(unresolved) \subseteq ToSet(yaml.variables)
      /\ \A v \in ToSet(yaml.variables) : v.name \in DOMAIN processed \/ v \in ToSet(unresolved)
      /\ cursor \in Nat \ {0}
  BY <1>1 DEF VariablesTyped
<1>4. CASE unresolved' = unresolved /\ processed' = processed /\ cursor' \in Nat \ {0}
  BY <1>1, <1>2, <1>3, <1>4 DEF VariablesTyped
<1>5. CASE VisitVariable /\ Required(unresolved[cursor]) \subseteq DOMAIN processed
  <2>1. cursor \in 1 .. Len(unresolved)
    BY <1>3, <1>5, ListDomain DEF VisitVariable
  <2>2. PICK v : v = unresolved[cursor]
    OBVIOUS
  <2>3. v \in ToSet(yaml.variables)
    BY <1>3, <2>1, <2>2, ListDomain
  <2>4. /\ processed' = [n \in DOMAIN processed \cup {v.name} |->
                          IF n = v.name THEN Processed(v, processed) ELSE processed[n]]
        /\ unresolved' = RemoveAt(unresolved, cursor) /\ cursor' = cursor + 1
    BY <1>5, <2>2 DEF VisitVariable
  <2>5. Processed(v, processed) \in [DOMAIN periods -> Int]
    <3>1. /\ IsList(v.entries)
          /\ \A e \in ToSet(v.entries) : e.date \in Int /\ e.value.plus \in Int /\ IsFiniteSet(e.value.uses)
      BY <1>3, <2>3 DEF IsTyped, IsDated
    <3>2. Required(v) \subseteq DOMAIN processed
      BY <1>5, <2>2
    <3> QED
      BY <1>3, <3>1, <3>2, ProcessedTyped
  <2>6. /\ DOMAIN processed' = DOMAIN processed \cup {v.name}
        /\ \A n \in DOMAIN processed' : processed'[n] \in [DOMAIN periods -> Int]
    BY <1>3, <2>4, <2>5
  <2>7. /\ IsList(unresolved') /\ ToSet(unresolved') \subseteq ToSet(unresolved)
        /\ \A x \in ToSet(unresolved) : x = v \/ x \in ToSet(unresolved')
    <3>1. PICK s, i : s = unresolved /\ i = cursor
      OBVIOUS
    <3>2. IsList(s) /\ i \in 1 .. Len(s)
      BY <1>3, <2>1, <3>1
    <3>3. /\ IsList(RemoveAt(s, i)) /\ ToSet(RemoveAt(s, i)) \subseteq ToSet(s)
          /\ \A x \in ToSet(s) : x = s[i] \/ x \in ToSet(RemoveAt(s, i))
      BY <3>2, Removed
    <3> QED
      BY <2>2, <2>4, <3>1, <3>3
  <2>8. \A x \in ToSet(yaml.variables) : x.name \in DOMAIN processed' \/ x \in ToSet(unresolved')
    BY <1>3, <2>6, <2>7
  <2>9. cursor' \in Nat \ {0}
    BY <1>3, <2>4
  <2>10. \A s \in yaml.series : s.name \in DOMAIN processed'
    BY <1>3, <2>6
  <2>11. ToSet(unresolved') \subseteq ToSet(yaml.variables)
    BY <1>3, <2>7
  <2> QED
    BY <1>1, <1>2, <1>3, <2>6, <2>7, <2>8, <2>9, <2>10, <2>11 DEF VariablesTyped
<1>6. CASE VisitVariable /\ ~(Required(unresolved[cursor]) \subseteq DOMAIN processed)
  <2>1. unresolved' = unresolved /\ processed' = processed /\ cursor' = cursor + 1
    BY <1>6 DEF VisitVariable
  <2> QED
    BY <1>3, <1>4, <2>1
<1>7. CASE NextRound
  <2>1. unresolved' = unresolved /\ processed' = processed /\ cursor' = 1
    BY <1>7 DEF NextRound
  <2> QED
    BY <1>4, <2>1
<1>8. VisitVariable \/ NextRound
  BY DEF ResolveVariables
<1> QED
  BY <1>5, <1>6, <1>7, <1>8

LEMMA TypedEnd ==
  ASSUME EnergyInv, VariablesTyped, EndVariables
  PROVE  VariablesTyped'
<1>1. /\ activity = "variables" /\ UNCHANGED <<yaml, variablesVars>> /\ ~is_validated
      /\ is_validated' => unresolved = <<>>
      /\ activity' # "variables"
  BY DEF EndVariables, GoOn, Return, EnergyInv, Stages
<1>2. RunDates' = RunDates
  BY <1>1 DEF RunDates
<1>3. /\ IsTyped(yaml) /\ RunDates # {} /\ periods = PeriodsOn(RunDates)
      /\ \A n \in DOMAIN processed : processed[n] \in [DOMAIN periods -> Int]
      /\ \A s \in yaml.series : s.name \in DOMAIN processed
      /\ IsList(unresolved) /\ ToSet(unresolved) \subseteq ToSet(yaml.variables)
      /\ \A v \in ToSet(yaml.variables) : v.name \in DOMAIN processed \/ v \in ToSet(unresolved)
      /\ cursor \in Nat \ {0}
  BY <1>1 DEF VariablesTyped
<1>4. periods' = periods /\ unresolved' = unresolved /\ processed' = processed /\ cursor' = cursor
  BY <1>1 DEF variablesVars
<1> QED
  BY <1>1, <1>2, <1>3, <1>4 DEF VariablesTyped

LEMMA TypedElse ==
  ASSUME VariablesTyped, UNCHANGED <<yaml, is_validated, variablesVars>>,
         activity' = "variables" => activity = "variables" \/ is_validated
  PROVE  VariablesTyped'
<1>1. RunDates' = RunDates
  BY DEF RunDates
<1> QED
  BY <1>1 DEF VariablesTyped, variablesVars

LEMMA TypedKept ==
  ASSUME Schema, EnergyInv, VariablesTyped, NextEnergyModel
  PROVE  VariablesTyped'
<1>1. ASSUME NEW c \in {VALIDATE, EVALUATE, REPORT}, Call(c) PROVE VariablesTyped'
  <2>1. UNCHANGED <<yaml, is_validated, variablesVars>> /\ activity' # "variables"
    BY <1>1 DEF Call, AfterValidation, mapVars
  <2> QED
    BY <2>1, TypedElse
<1>2. CASE MapStep \/ EndMapping \/ Build \/ Simulate \/ EvaluateConsumer \/ EvaluateGeneratorSet \/ PassOver
             \/ EndEvaluation \/ Report
  <2>1. /\ UNCHANGED <<yaml, is_validated, variablesVars>>
        /\ activity' = "variables" => activity = "variables" \/ is_validated
    BY <1>2 DEF MapStep, EndMapping, Build, Simulate, EvaluateConsumer, EvaluateGeneratorSet, PassOver, EndEvaluation, Report,
       GoOn, Return, mapVars, AfterValidation
  <2> QED
    BY <2>1, TypedElse
<1> QED
  BY <1>1, <1>2, TypedStart, TypedVisit, TypedEnd DEF NextEnergyModel

(***************************************************************************)
(* What a result is read off is settled once the model counts as validated. *)
(***************************************************************************)
LEMMA SameKept ==
  ASSUME yaml' = yaml, NEW entries
  PROVE  Kept(entries)' = Kept(entries)
  BY DEF Kept, Target

\* The kept entries of the part p that answer for the period t.
Found(p, t) == EntriesAt(Kept(p.models), t)

LEMMA SameFound ==
  ASSUME yaml' = yaml, periods' = periods, NEW p, NEW t
  PROVE  Found(p, t)' = Found(p, t)
<1>1. ASSUME NEW e PROVE PeriodsOf(e)' = PeriodsOf(e)
  BY DEF PeriodsOf
<1>2. ASSUME NEW e PROVE Intersects(e.period, Span(periods))' <=> Intersects(e.period, Span(periods))
  OBVIOUS
<1>3. Kept(p.models)' = Kept(p.models)
  BY SameKept
<1> QED
  BY <1>1, <1>2, <1>3 DEF Found, EntriesAt

LEMMA SameEntryResult ==
  ASSUME periods' = periods, processed' = processed, NEW e
  PROVE  EntryResult(e)' = EntryResult(e)
<1>1. LoadsOf(e)' = LoadsOf(e)
  BY DEF LoadsOf
<1> QED
  BY <1>1 DEF EntryResult

\* The result of the entry e for the period t.
ResultAt(e, t) ==
  LET i == t - PeriodIndices(e.period, periods)[1] + 1
  IN  [energy |-> EntryResult(e).energy[i], valid |-> EntryResult(e).valid[i], used |-> EntryResult(e).used[i]]

AnswerAt(p, t) == IF Found(p, t) = {} THEN Idle ELSE ResultAt(CHOOSE e \in Found(p, t) : TRUE, t)

LEMMA ConsumerResultAt ==
  ASSUME NEW p
  PROVE  ConsumerResult(p) = [t \in DOMAIN periods |-> AnswerAt(p, t)]
  BY DEF ConsumerResult, ResultAt, AnswerAt, Found

LEMMA SameConsumerResult ==
  ASSUME yaml' = yaml, periods' = periods, processed' = processed, NEW p
  PROVE  ConsumerResult(p)' = ConsumerResult(p)
<1>1. ASSUME NEW t PROVE AnswerAt(p, t)' = AnswerAt(p, t)
  <2>1. PICK S : S = Found(p, t)
    OBVIOUS
  <2>2. Found(p, t)' = S
    BY <2>1, SameFound
  <2>3. \A e : ResultAt(e, t)' = ResultAt(e, t)
    BY SameEntryResult DEF ResultAt
  <2>4. PICK e : e = CHOOSE x \in S : TRUE
    OBVIOUS
  <2>5. (CHOOSE x \in Found(p, t) : TRUE) = e
    BY <2>1, <2>4
  <2>6. (CHOOSE x \in Found(p, t) : TRUE)' = e
    BY <2>2, <2>4
  <2> QED
    BY <2>1, <2>2, <2>3, <2>5, <2>6 DEF AnswerAt
<1>2. (DOMAIN periods)' = DOMAIN periods
  OBVIOUS
<1>3. ConsumerResult(p)' = [t \in (DOMAIN periods)' |-> AnswerAt(p, t)']
  BY DEF ConsumerResult, ResultAt, AnswerAt, Found
<1> QED
  BY <1>1, <1>2, <1>3, ConsumerResultAt

\* What a generator set makes of the power p in the period t.
SupplyAt(part, p, t) ==
  LET Supplied(m) == [power  |-> p,
                      energy |-> IF p > 0 THEN m.slope * Earlier(p, m.capacity) ELSE 0,
                      valid  |-> m.capacity - p >= 0]
  IN  IF Found(part, t) = {} THEN [power |-> p, energy |-> 0, valid |-> FALSE]
      ELSE Supplied((CHOOSE e \in Found(part, t) : TRUE).model)

LEMMA GeneratorResultAt ==
  ASSUME NEW p, NEW power
  PROVE  GeneratorResult(p, power) = [t \in DOMAIN periods |-> SupplyAt(p, power[t], t)]
  BY DEF GeneratorResult, SupplyAt, Found

LEMMA SameGeneratorResult ==
  ASSUME yaml' = yaml, periods' = periods, NEW p, NEW power
  PROVE  GeneratorResult(p, power)' = GeneratorResult(p, power)
<1>1. ASSUME NEW t PROVE SupplyAt(p, power[t], t)' = SupplyAt(p, power[t], t)
  <2>1. PICK S : S = Found(p, t)
    OBVIOUS
  <2>2. Found(p, t)' = S
    BY <2>1, SameFound
  <2>3. PICK e : e = CHOOSE x \in S : TRUE
    OBVIOUS
  <2>4. (CHOOSE x \in Found(p, t) : TRUE) = e
    BY <2>1, <2>3
  <2>5. (CHOOSE x \in Found(p, t) : TRUE)' = e
    BY <2>2, <2>3
  <2> QED
    BY <2>1, <2>2, <2>4, <2>5 DEF SupplyAt
<1>2. (DOMAIN periods)' = DOMAIN periods
  OBVIOUS
<1>3. GeneratorResult(p, power)' = [t \in (DOMAIN periods)' |-> SupplyAt(p, power[t], t)']
  BY DEF GeneratorResult, SupplyAt, Found
<1> QED
  BY <1>1, <1>2, <1>3, GeneratorResultAt

(***************************************************************************)
(* The results.                                                             *)
(***************************************************************************)
\* What a result is: that of the models of the consumer, or what the generator set
\* makes of the results of its consumers.
ResultOf(step, result) ==
  /\ IsConsumer(step) => result = ConsumerResult(step.part)
  /\ step.kind = "generator" => /\ Children(step.part.id) \subseteq DOMAIN results
                                /\ result = GeneratorResult(step.part, PowerRequirement(step.part.id))

ResultsStand ==
  \A k \in ComponentSteps :
    Steps[k].part.id \in DOMAIN results => ResultOf(Steps[k], results[Steps[k].part.id])

\* More results change nothing for those that stand.
LEMMA StillResult ==
  ASSUME UNCHANGED <<yaml, edges, periods, processed>>,
         DOMAIN results \subseteq DOMAIN results', \A c \in DOMAIN results : results'[c] = results[c],
         NEW step, NEW result, ResultOf(step, result)
  PROVE  ResultOf(step, result)'
<1>1. ConsumerResult(step.part)' = ConsumerResult(step.part)
  <2>1. PICK p : p = step.part
    OBVIOUS
  <2>2. ConsumerResult(p)' = ConsumerResult(p)
    BY SameConsumerResult
  <2> QED
    BY <2>1, <2>2
<1>2. CASE step.kind # "generator"
  BY <1>1, <1>2 DEF ResultOf, IsConsumer
<1>3. CASE step.kind = "generator"
  <2>1. PICK p, id : p = step.part /\ id = step.part.id
    OBVIOUS
  <2>2. Children(id)' = Children(id)
    BY DEF Children
  <2>3. Children(id) \subseteq DOMAIN results /\ result = GeneratorResult(p, PowerRequirement(id))
    BY <1>3, <2>1 DEF ResultOf
  <2>4. PowerRequirement(id)' = PowerRequirement(id)
    <3>1. PICK C : C = Children(id)
      OBVIOUS
    <3>2. \A t : [c \in C |-> results'[c][t].energy] = [c \in C |-> results[c][t].energy]
      BY <2>3, <3>1
    <3>3. Children(id)' = C
      BY <2>2, <3>1
    <3>4. PowerRequirement(id) = [t \in DOMAIN periods |-> SumFunction([c \in C |-> results[c][t].energy])]
      BY <3>1 DEF PowerRequirement
    <3>5. PowerRequirement(id)' = [t \in DOMAIN periods |-> SumFunction([c \in C |-> results'[c][t].energy])]
      BY <3>3 DEF PowerRequirement
    <3> QED
      BY <3>2, <3>4, <3>5
  <2>5. PICK power : power = PowerRequirement(id)
    OBVIOUS
  <2>6. GeneratorResult(p, power)' = GeneratorResult(p, power)
    BY SameGeneratorResult
  <2>7. PowerRequirement(id)' = power
    BY <2>4, <2>5
  <2>8. (Children(step.part.id) \subseteq DOMAIN results)'
    BY <2>1, <2>2, <2>3
  <2>9. GeneratorResult(step.part, PowerRequirement(step.part.id))' = result
    <3>1. GeneratorResult(p, power)' = result
      BY <2>3, <2>5, <2>6
    <3>2. GeneratorResult(step.part, PowerRequirement(step.part.id))' = GeneratorResult(p, PowerRequirement(id))'
      BY <2>1
    <3>3. \A q : q = power => GeneratorResult(p, q)' = GeneratorResult(p, power)'
      OBVIOUS
    <3> QED
      BY <2>7, <3>1, <3>2, <3>3
  <2>10. ~IsConsumer(step)
    BY <1>3 DEF IsConsumer
  <2> QED
    BY <2>8, <2>9, <2>10 DEF ResultOf, IsConsumer
<1> QED
  BY <1>2, <1>3

LEMMA StandElse ==
  ASSUME ResultsStand, yaml' = yaml,
         DOMAIN results' = {} \/ UNCHANGED <<edges, periods, processed, results>>
  PROVE  ResultsStand'
<1>1. Steps' = Steps /\ ComponentSteps' = ComponentSteps
  BY KeepsSteps
<1>2. CASE DOMAIN results' = {}
  BY <1>2 DEF ResultsStand
<1>3. CASE UNCHANGED <<edges, periods, processed, results>>
  <2> SUFFICES ASSUME NEW k \in ComponentSteps, Steps[k].part.id \in DOMAIN results
               PROVE  ResultOf(Steps[k], results[Steps[k].part.id])'
    BY <1>1, <1>3 DEF ResultsStand
  <2>1. PICK step, result : step = Steps[k] /\ result = results[Steps[k].part.id]
    OBVIOUS
  <2>2. ResultOf(step, result)
    BY <2>1 DEF ResultsStand
  <2>3. ResultOf(step, result)'
    BY <1>3, <2>2, StillResult
  <2> QED
    BY <1>1, <1>3, <2>1, <2>3
<1> QED
  BY <1>2, <1>3

\* What is evaluated anew comes out as before.
LEMMA StandStore ==
  ASSUME EnergyInv, ResultsStand, activity = "evaluating", next <= Len(nodes),
         UNCHANGED <<yaml, edges, periods, processed>>,
         NEW j \in ComponentSteps, Stands(next, j), NEW new, Store(nodes[next], new), ResultOf(Steps[j], new),
         IsConsumer(Steps[j]) \/ Steps[j].kind = "generator"
  PROVE  ResultsStand'
<1> DEFINE id == nodes[next]
<1>1. IsWellFormed(yaml) /\ Steps' = Steps /\ ComponentSteps' = ComponentSteps /\ Steps[j].part.id = id
  BY StepOfTurn, KeepsSteps DEF Stands
<1>2. /\ DOMAIN results' = DOMAIN results \cup {id}
      /\ \A c \in DOMAIN results' : results'[c] = IF c = id THEN new ELSE results[c]
  BY DEF Store
<1>3. ASSUME id \in DOMAIN results PROVE results[id] = new
  <2>1. ResultOf(Steps[j], results[id])
    BY <1>1, <1>3 DEF ResultsStand
  <2> QED
    BY <2>1 DEF ResultOf
<1>4. DOMAIN results \subseteq DOMAIN results' /\ \A c \in DOMAIN results : results'[c] = results[c]
  BY <1>2, <1>3
<1> SUFFICES ASSUME NEW k \in ComponentSteps, Steps[k].part.id \in DOMAIN results'
             PROVE  ResultOf(Steps[k], results[Steps[k].part.id])'
  BY <1>1 DEF ResultsStand
<1>5. PICK step, result : step = Steps[k] /\ result = results'[Steps[k].part.id]
  OBVIOUS
<1>6. ResultOf(step, result)
  <2>1. CASE k = j
    BY <1>1, <1>2, <1>5, <2>1
  <2>2. CASE k # j
    <3>1. Steps[k].part.id # id
      BY <1>1, <2>2, OneStep DEF ComponentSteps, IsComponent
    <3> QED
      BY <1>2, <1>4, <1>5, <3>1 DEF ResultsStand
  <2> QED
    BY <2>1, <2>2
<1>7. ResultOf(step, result)'
  BY <1>4, <1>6, StillResult
<1> QED
  BY <1>1, <1>5, <1>7

LEMMA StandConsumer ==
  ASSUME EnergyInv, ResultsStand, EvaluateConsumer
  PROVE  ResultsStand'
<1>1. /\ activity = "evaluating" /\ next <= Len(nodes) /\ UNCHANGED <<yaml, edges, periods, processed>>
      /\ IsConsumer(StepOf(nodes[next])) /\ Store(nodes[next], ConsumerResult(StepOf(nodes[next]).part))
  BY DEF EvaluateConsumer, variablesVars
<1>2. PICK j \in ComponentSteps : Stands(next, j) /\ StepOf(nodes[next]) = Steps[j]
  BY <1>1, StepOfTurn
<1>3. PICK new : new = ConsumerResult(Steps[j].part)
  OBVIOUS
<1>4. Store(nodes[next], new) /\ ResultOf(Steps[j], new)
  BY <1>1, <1>2, <1>3 DEF ResultOf, IsConsumer
<1> QED
  BY <1>1, <1>2, <1>4, StandStore

LEMMA StandGenerator ==
  ASSUME EnergyInv, ResultsStand, EvaluateGeneratorSet
  PROVE  ResultsStand'
<1>1. /\ activity = "evaluating" /\ next <= Len(nodes) /\ UNCHANGED <<yaml, edges, periods, processed>>
      /\ StepOf(nodes[next]).kind = "generator"
      /\ \/ Store(nodes[next], GeneratorResult(StepOf(nodes[next]).part, PowerRequirement(nodes[next])))
         \/ results' = results
  BY DEF EvaluateGeneratorSet, variablesVars, GoOn, Return
<1>2. PICK j \in ComponentSteps : Stands(next, j) /\ StepOf(nodes[next]) = Steps[j]
  BY <1>1, StepOfTurn
<1>3. CASE results' = results
  BY <1>1, <1>3, StandElse
<1>4. CASE Store(nodes[next], GeneratorResult(StepOf(nodes[next]).part, PowerRequirement(nodes[next])))
  <2>1. PICK new : new = GeneratorResult(Steps[j].part, PowerRequirement(nodes[next]))
    OBVIOUS
  <2>2. Children(nodes[next]) \subseteq DOMAIN results
    BY <1>1, ChildrenFirst
  <2>3. Steps[j].kind = "generator" /\ Steps[j].part.id = nodes[next] /\ ~IsConsumer(Steps[j])
    BY <1>1, <1>2 DEF Stands, IsConsumer
  <2>4. Store(nodes[next], new) /\ ResultOf(Steps[j], new)
    BY <1>2, <1>4, <2>1, <2>2, <2>3 DEF ResultOf
  <2> QED
    BY <1>1, <1>2, <2>3, <2>4, StandStore
<1> QED
  BY <1>1, <1>3, <1>4

LEMMA StandKept ==
  ASSUME EnergyInv, ResultsStand, NextEnergyModel
  PROVE  ResultsStand'
<1>1. ASSUME NEW c \in {VALIDATE, EVALUATE, REPORT}, Call(c) PROVE ResultsStand'
  <2>1. UNCHANGED <<yaml, edges, periods, processed, results>>
    BY <1>1 DEF Call, mapVars, resultVars, variablesVars
  <2> QED
    BY <2>1, StandElse
<1>2. CASE Check \/ ResolveVariables \/ EndVariables \/ MapStep \/ EndMapping
  <2>1. yaml' = yaml /\ results' = results
    BY <1>2 DEF Check, ResolveVariables, EndVariables, MapStep, EndMapping, GoOn, Return, resultVars
  <2>2. DOMAIN results = {}
    <3>1. ~mapped
      BY <1>2 DEF Check, ResolveVariables, EndVariables, MapStep, EndMapping, EnergyInv, Stages
    <3> QED
      BY <3>1 DEF EnergyInv, BuiltWhole
  <2> QED
    BY <2>1, <2>2, StandElse
<1>3. CASE Build \/ Simulate \/ PassOver \/ EndEvaluation \/ Report
  <2>1. UNCHANGED <<yaml, edges, periods, processed, results>>
    BY <1>3 DEF Build, Simulate, PassOver, EndEvaluation, Report, GoOn, Return, mapVars, resultVars, variablesVars
  <2> QED
    BY <2>1, StandElse
<1> QED
  BY <1>1, <1>2, <1>3, StandConsumer, StandGenerator DEF NextEnergyModel

(***************************************************************************)
(* What was mapped could be mapped.                                         *)
(***************************************************************************)
\* No error was found in the models of a consumer that was mapped.
ModelsClean ==
  activity = "mapping" \/ mapped =>
    \A k \in DOMAIN Steps : IsConsumer(Steps[k]) /\ (mapped \/ k < next) => ModelsError(Steps[k].part.models) = NoError

LEMMA SameModelsError ==
  ASSUME yaml' = yaml, periods' = periods, NEW entries
  PROVE  ModelsError(entries)' = ModelsError(entries)
<1>1. Kept(entries)' = Kept(entries)
  BY SameKept
<1> QED
  BY <1>1 DEF ModelsError

LEMMA CleanElse ==
  ASSUME EnergyInv, ModelsClean, yaml' = yaml, mapped' = mapped, activity' # "mapping",
         mapped => periods' = periods
  PROVE  ModelsClean'
<1>1. Steps' = Steps
  BY KeepsSteps
<1>2. \A s : IsConsumer(s)' <=> IsConsumer(s)
  BY DEF IsConsumer
<1>3. ASSUME mapped, NEW k \in DOMAIN Steps, IsConsumer(Steps[k])
      PROVE  ModelsError(Steps[k].part.models)' = NoError
  <2>1. PICK entries : entries = Steps[k].part.models
    OBVIOUS
  <2>2. ModelsError(entries) = NoError
    BY <1>3, <2>1 DEF ModelsClean
  <2>3. ModelsError(entries)' = NoError
    BY <1>3, <2>2, SameModelsError DEF NoError
  <2> QED
    BY <1>1, <2>1, <2>3
<1> QED
  BY <1>1, <1>2, <1>3 DEF ModelsClean

LEMMA CleanMapStep ==
  ASSUME EnergyInv, ModelsClean, MapStep
  PROVE  ModelsClean'
<1>1. /\ activity = "mapping" /\ ~mapped /\ mapped' = mapped /\ next \in Nat /\ next' = next + 1
      /\ yaml' = yaml /\ periods' = periods /\ IsWellFormed(yaml)
      /\ \/ MappingError(Steps[next]) = NoError /\ activity' = "mapping"
         \/ activity' = "idle"
  BY DEF MapStep, EnergyInv, Stages, GoOn, Return, variablesVars, Steps
<1>2. Steps' = Steps /\ \A s : IsConsumer(s)' <=> IsConsumer(s)
  BY <1>1, KeepsSteps DEF IsConsumer
<1>3. CASE activity' = "idle"
  BY <1>1, <1>3 DEF ModelsClean
<1>4. CASE MappingError(Steps[next]) = NoError /\ activity' = "mapping"
  <2> SUFFICES ASSUME NEW k \in DOMAIN Steps, IsConsumer(Steps[k]), k < next + 1
               PROVE  ModelsError(Steps[k].part.models)' = NoError
    BY <1>1, <1>2 DEF ModelsClean
  <2>1. PICK step, entries : step = Steps[k] /\ entries = step.part.models
    OBVIOUS
  <2>2. ModelsError(entries) = NoError
    <3>1. k \in Nat
      BY <1>1, Kinds
    <3>2. CASE k < next
      BY <1>1, <2>1, <3>2 DEF ModelsClean
    <3>3. CASE k = next
      <4>1. MappingError(step) = NoError /\ IsConsumer(step)
        BY <1>4, <2>1, <3>3
      <4>2. step.kind # "generator_fuel" /\ step.kind # "generator"
        BY <4>1 DEF IsConsumer
      <4> QED
        BY <2>1, <4>1, <4>2 DEF MappingError
    <3> QED
      BY <1>1, <3>1, <3>2, <3>3
  <2>3. ModelsError(entries)' = NoError
    BY <1>1, <2>2, SameModelsError DEF NoError
  <2> QED
    BY <1>2, <2>1, <2>3
<1> QED
  BY <1>1, <1>3, <1>4

LEMMA CleanStart ==
  ASSUME EnergyInv, EndVariables
  PROVE  ModelsClean'
<1>1. /\ activity = "variables" /\ ~mapped /\ next = 1 /\ yaml' = yaml /\ mapped' = mapped /\ next' = next /\ IsWellFormed(yaml)
  BY DEF EndVariables, EnergyInv, Stages, GoOn, Return
<1>2. \A k \in DOMAIN Steps : ~(k < 1)
  BY <1>1, Kinds
<1>3. Steps' = Steps
  BY <1>1, KeepsSteps
<1> QED
  BY <1>1, <1>2, <1>3 DEF ModelsClean

LEMMA CleanEnd ==
  ASSUME EnergyInv, ModelsClean, EndMapping
  PROVE  ModelsClean'
<1>1. /\ activity = "mapping" /\ next > Len(Steps) /\ UNCHANGED <<yaml, next, periods>> /\ IsWellFormed(yaml) /\ next \in Nat
  BY DEF EndMapping, EnergyInv, Stages, GoOn, variablesVars, Steps
<1>2. \A k \in DOMAIN Steps : k < next
  BY <1>1, Kinds
<1>3. Steps' = Steps /\ \A s : IsConsumer(s)' <=> IsConsumer(s)
  BY <1>1, KeepsSteps DEF IsConsumer
<1>4. ASSUME NEW k \in DOMAIN Steps, IsConsumer(Steps[k])
      PROVE  ModelsError(Steps[k].part.models)' = NoError
  <2>1. PICK entries : entries = Steps[k].part.models
    OBVIOUS
  <2>2. ModelsError(entries) = NoError
    BY <1>1, <1>2, <1>4, <2>1 DEF ModelsClean
  <2>3. ModelsError(entries)' = NoError
    BY <1>1, <2>2, SameModelsError DEF NoError
  <2> QED
    BY <1>3, <2>1, <2>3
<1> QED
  BY <1>3, <1>4 DEF ModelsClean

LEMMA CleanKept ==
  ASSUME EnergyInv, ModelsClean, NextEnergyModel
  PROVE  ModelsClean'
<1>1. ASSUME NEW c \in {VALIDATE, EVALUATE, REPORT}, Call(c) PROVE ModelsClean'
  <2>1. UNCHANGED <<yaml, mapped, periods>> /\ activity' # "mapping"
    BY <1>1 DEF Call, AfterValidation, mapVars, variablesVars
  <2> QED
    BY <2>1, CleanElse
<1>2. CASE Check \/ ResolveVariables
  <2>1. yaml' = yaml /\ mapped' = mapped /\ activity' # "mapping" /\ ~mapped
    BY <1>2 DEF Check, ResolveVariables, GoOn, Return, mapVars, EnergyInv, Stages
  <2> QED
    BY <2>1, CleanElse
<1>3. CASE Build \/ Simulate \/ EvaluateConsumer \/ EvaluateGeneratorSet \/ PassOver \/ EndEvaluation \/ Report
  <2>1. UNCHANGED <<yaml, mapped, periods>> /\ activity' # "mapping"
    BY <1>3 DEF Build, Simulate, EvaluateConsumer, EvaluateGeneratorSet, PassOver, EndEvaluation, Report,
       GoOn, Return, mapVars, variablesVars
  <2> QED
    BY <2>1, CleanElse
<1> QED
  BY <1>1, <1>2, <1>3, CleanMapStep, CleanStart, CleanEnd DEF NextEnergyModel

(***************************************************************************)
(* The steps of a model are those of its parts.                             *)
(***************************************************************************)
LEMMA StepsOfConsumers ==
  ASSUME NEW kind, NEW consumers, IsList(consumers), NEW parent, NEW fuel
  PROVE  /\ IsList(ConsumerSteps(kind, consumers, parent, fuel))
         /\ ToSet(ConsumerSteps(kind, consumers, parent, fuel)) = {Step(kind, c, parent, fuel) : c \in ToSet(consumers)}
<1> DEFINE s == ConsumerSteps(kind, consumers, parent, fuel)
<1>1. s = [k \in DOMAIN consumers |-> Step(kind, consumers[k], parent, fuel)]
  BY DEF ConsumerSteps
<1>2. IsList(s)
  <2>1. s = [k \in DOMAIN consumers |-> s[k]]
    BY <1>1
  <2> HIDE DEF s
  <2> QED
    BY <2>1, ListAlong
<1> HIDE DEF s
<1>3. ToSet(s) = {Step(kind, c, parent, fuel) : c \in ToSet(consumers)}
  BY <1>1 DEF ToSet
<1> QED
  BY <1>2, <1>3 DEF s

LEMMA StepsOfGenerator ==
  ASSUME NEW g, NEW x, IsList(g.consumers)
  PROVE  /\ IsList(GeneratorSteps(g, x))
         /\ ToSet(GeneratorSteps(g, x)) =
              {Step("generator_fuel", g, x.id, x.fuel), Step("generator", g, x.id, x.fuel)}
                \cup {Step("electricity", c, g.id, x.fuel) : c \in ToSet(g.consumers)}
<1> DEFINE fuel == <<Step("generator_fuel", g, x.id, x.fuel)>>
           top  == <<Step("generator", g, x.id, x.fuel)>>
           used == ConsumerSteps("electricity", g.consumers, g.id, x.fuel)
<1>1. IsList(fuel) /\ ToSet(fuel) = {Step("generator_fuel", g, x.id, x.fuel)}
  BY Single
<1>2. IsList(top) /\ ToSet(top) = {Step("generator", g, x.id, x.fuel)}
  BY Single
<1>3. IsList(used) /\ ToSet(used) = {Step("electricity", c, g.id, x.fuel) : c \in ToSet(g.consumers)}
  BY StepsOfConsumers
<1>4. GeneratorSteps(g, x) = fuel \o used \o top
  BY DEF GeneratorSteps
<1> HIDE DEF fuel, top, used
<1>5. IsList(fuel \o used) /\ ToSet(fuel \o used) = ToSet(fuel) \cup ToSet(used)
  BY <1>1, <1>3, Joined
<1>6. IsList((fuel \o used) \o top) /\ ToSet((fuel \o used) \o top) = ToSet(fuel \o used) \cup ToSet(top)
  BY <1>2, <1>5, Joined
<1> QED
  BY <1>1, <1>2, <1>3, <1>4, <1>5, <1>6

LEMMA StepsOfInstallation ==
  ASSUME NEW x, HasLists(x)
  PROVE  /\ IsList(InstallationSteps(x))
         /\ ToSet(InstallationSteps(x)) =
              (UNION {ToSet(GeneratorSteps(g, x)) : g \in ToSet(x.generators)})
                \cup {Step("fuel", c, x.id, x.fuel) : c \in ToSet(x.consumers)}
                \cup {Step("emitter", c, x.id, x.fuel) : c \in ToSet(x.emitters)}
                \cup {Step("installation", x, Asset, <<>>)}
<1> DEFINE each == [g \in DOMAIN x.generators |-> GeneratorSteps(x.generators[g], x)]
           sets == FlattenSeq(each)
           used == ConsumerSteps("fuel", x.consumers, x.id, x.fuel)
           vent == ConsumerSteps("emitter", x.emitters, x.id, x.fuel)
           top  == <<Step("installation", x, Asset, <<>>)>>
<1>1. IsList(each) /\ Len(each) = Len(x.generators) /\ DOMAIN x.generators = 1 .. Len(x.generators)
  <2>1. each = [k \in DOMAIN x.generators |-> each[k]] /\ IsList(x.generators)
    BY DEF HasLists
  <2> HIDE DEF each
  <2> QED
    BY <2>1, ListAlong
<1>2. ASSUME NEW i \in 1 .. Len(each) PROVE IsList(each[i]) /\ each[i] = GeneratorSteps(x.generators[i], x)
  <2>1. x.generators[i] \in ToSet(x.generators) /\ each[i] = GeneratorSteps(x.generators[i], x)
    BY <1>1 DEF ToSet
  <2>2. IsList(x.generators[i].consumers)
    BY <2>1 DEF HasLists
  <2> HIDE DEF each
  <2> QED
    BY <2>1, <2>2, StepsOfGenerator
<1>3. UNION {ToSet(each[i]) : i \in 1 .. Len(each)} = UNION {ToSet(GeneratorSteps(g, x)) : g \in ToSet(x.generators)}
  <2> HIDE DEF each
  <2>1. ToSet(x.generators) = {x.generators[i] : i \in 1 .. Len(each)}
    BY <1>1 DEF ToSet
  <2> QED
    BY <1>2, <2>1
<1> HIDE DEF each
<1>4. IsList(sets) /\ ToSet(sets) = UNION {ToSet(GeneratorSteps(g, x)) : g \in ToSet(x.generators)}
  BY <1>1, <1>2, <1>3, Flattened
<1>5. /\ IsList(used) /\ ToSet(used) = {Step("fuel", c, x.id, x.fuel) : c \in ToSet(x.consumers)}
      /\ IsList(vent) /\ ToSet(vent) = {Step("emitter", c, x.id, x.fuel) : c \in ToSet(x.emitters)}
  <2>1. IsList(x.consumers) /\ IsList(x.emitters)
    BY DEF HasLists
  <2>2. IsList(used) /\ ToSet(used) = {Step("fuel", c, x.id, x.fuel) : c \in ToSet(x.consumers)}
    BY <2>1, StepsOfConsumers
  <2>3. IsList(vent) /\ ToSet(vent) = {Step("emitter", c, x.id, x.fuel) : c \in ToSet(x.emitters)}
    BY <2>1, StepsOfConsumers
  <2> QED
    BY <2>2, <2>3
<1>6. IsList(top) /\ ToSet(top) = {Step("installation", x, Asset, <<>>)}
  BY Single
<1>7. InstallationSteps(x) = ((sets \o used) \o vent) \o top
  BY DEF InstallationSteps, each
<1> HIDE DEF sets, used, vent, top
<1>8. IsList(sets \o used) /\ ToSet(sets \o used) = ToSet(sets) \cup ToSet(used)
  BY <1>4, <1>5, Joined
<1>9. IsList((sets \o used) \o vent) /\ ToSet((sets \o used) \o vent) = ToSet(sets \o used) \cup ToSet(vent)
  BY <1>5, <1>8, Joined
<1> DEFINE below == (sets \o used) \o vent
<1> HIDE DEF below
<1>10. IsList(below \o top) /\ ToSet(below \o top) = ToSet(below) \cup ToSet(top)
  BY <1>6, <1>9, Joined DEF below
<1> QED
  BY <1>4, <1>5, <1>6, <1>7, <1>8, <1>9, <1>10 DEF below

LEMMA StepsOfModel ==
  ASSUME NEW model, IsWellFormed(model)
  PROVE  ToSet(ModelSteps(model)) =
           (UNION {ToSet(InstallationSteps(x)) : x \in ToSet(model.installations)})
             \cup {Step("asset", [id |-> Asset], Asset, <<>>)}
<1> DEFINE all  == model.installations
           each == [i \in DOMAIN all |-> InstallationSteps(all[i])]
           body == FlattenSeq(each)
           top  == <<Step("asset", [id |-> Asset], Asset, <<>>)>>
<1>1. IsList(each) /\ Len(each) = Len(all) /\ DOMAIN all = 1 .. Len(all)
  <2>1. each = [k \in DOMAIN all |-> each[k]] /\ IsList(all)
    BY DEF IsWellFormed
  <2> HIDE DEF each, all
  <2> QED
    BY <2>1, ListAlong
<1>2. ASSUME NEW i \in 1 .. Len(each) PROVE IsList(each[i]) /\ each[i] = InstallationSteps(all[i])
  <2>1. all[i] \in ToSet(all) /\ each[i] = InstallationSteps(all[i])
    BY <1>1 DEF ToSet
  <2>2. HasLists(all[i])
    BY <2>1 DEF HasLists, IsWellFormed
  <2> HIDE DEF each, all
  <2> QED
    BY <2>1, <2>2, StepsOfInstallation
<1>3. UNION {ToSet(each[i]) : i \in 1 .. Len(each)} = UNION {ToSet(InstallationSteps(x)) : x \in ToSet(all)}
  <2> HIDE DEF each, all
  <2>1. ToSet(all) = {all[i] : i \in 1 .. Len(each)}
    BY <1>1 DEF ToSet
  <2> QED
    BY <1>2, <2>1
<1>4. ModelSteps(model) = body \o top
  BY DEF ModelSteps
<1> HIDE DEF each
<1>5. IsList(body) /\ ToSet(body) = UNION {ToSet(InstallationSteps(x)) : x \in ToSet(all)}
  <2> HIDE DEF all
  <2> QED
    BY <1>1, <1>2, <1>3, Flattened
<1>6. IsList(top) /\ ToSet(top) = {Step("asset", [id |-> Asset], Asset, <<>>)}
  BY Single
<1> HIDE DEF body, top
<1>7. ToSet(body \o top) = ToSet(body) \cup ToSet(top)
  BY <1>5, <1>6, Joined
<1> QED
  BY <1>4, <1>5, <1>6, <1>7

IsOfSet(s, g, x) ==
  \/ s = Step("generator_fuel", g, x.id, x.fuel) \/ s = Step("generator", g, x.id, x.fuel)
  \/ \E c \in ToSet(g.consumers) : s = Step("electricity", c, g.id, x.fuel)

IsOfInstallation(s, x) ==
  \/ \E g \in ToSet(x.generators) : IsOfSet(s, g, x)
  \/ \E c \in ToSet(x.consumers) : s = Step("fuel", c, x.id, x.fuel)
  \/ \E c \in ToSet(x.emitters) : s = Step("emitter", c, x.id, x.fuel)
  \/ s = Step("installation", x, Asset, <<>>)

LEMMA StepsOfParts ==
  ASSUME NEW model, IsWellFormed(model), NEW s
  PROVE  s \in ToSet(ModelSteps(model)) <=>
           \/ s = Step("asset", [id |-> Asset], Asset, <<>>)
           \/ \E x \in ToSet(model.installations) : IsOfInstallation(s, x)
<1>1. ASSUME NEW x \in ToSet(model.installations), NEW g \in ToSet(x.generators)
      PROVE  s \in ToSet(GeneratorSteps(g, x)) <=> IsOfSet(s, g, x)
  <2>1. IsList(g.consumers)
    BY DEF IsWellFormed
  <2>2. ToSet(GeneratorSteps(g, x)) =
          {Step("generator_fuel", g, x.id, x.fuel), Step("generator", g, x.id, x.fuel)}
            \cup {Step("electricity", c, g.id, x.fuel) : c \in ToSet(g.consumers)}
    BY <2>1, StepsOfGenerator
  <2> QED
    BY <2>2 DEF IsOfSet
<1>2. ASSUME NEW x \in ToSet(model.installations)
      PROVE  s \in ToSet(InstallationSteps(x)) <=> IsOfInstallation(s, x)
  <2>1. HasLists(x)
    BY DEF HasLists, IsWellFormed
  <2>2. ToSet(InstallationSteps(x)) =
          (UNION {ToSet(GeneratorSteps(g, x)) : g \in ToSet(x.generators)})
            \cup {Step("fuel", c, x.id, x.fuel) : c \in ToSet(x.consumers)}
            \cup {Step("emitter", c, x.id, x.fuel) : c \in ToSet(x.emitters)}
            \cup {Step("installation", x, Asset, <<>>)}
    BY <2>1, StepsOfInstallation
  <2>3. s \in UNION {ToSet(GeneratorSteps(g, x)) : g \in ToSet(x.generators)}
          <=> \E g \in ToSet(x.generators) : IsOfSet(s, g, x)
    BY <1>1
  <2> QED
    BY <2>2, <2>3 DEF IsOfInstallation
<1>3. ToSet(ModelSteps(model)) =
        (UNION {ToSet(InstallationSteps(x)) : x \in ToSet(model.installations)})
          \cup {Step("asset", [id |-> Asset], Asset, <<>>)}
  BY StepsOfModel
<1> QED
  BY <1>2, <1>3

LEMMA FieldsOfStep ==
  ASSUME NEW kind, NEW p, NEW parent, NEW fuel
  PROVE  LET s == Step(kind, p, parent, fuel) IN s.kind = kind /\ s.part = p /\ s.parent = parent /\ s.fuel = fuel
  BY DEF Step

\* A consumer that draws electricity belongs to the generator set it names.
LEMMA StepsOfSets ==
  ASSUME IsWellFormed(yaml), NEW k \in DOMAIN Steps
  PROVE  /\ IsConsumer(Steps[k]) => Steps[k].part \in ConsumersOf(yaml)
         /\ Steps[k].kind = "generator" =>
              /\ IsList(Steps[k].part.consumers)
              /\ \A c \in ToSet(Steps[k].part.consumers) :
                   /\ c \in ConsumersOf(yaml)
                   /\ \E j \in DOMAIN Steps :
                        Steps[j].kind = "electricity" /\ Steps[j].part = c /\ Steps[j].parent = Steps[k].part.id
         /\ Steps[k].kind = "electricity" =>
              \E g \in DOMAIN Steps : /\ Steps[g].kind = "generator" /\ Steps[g].part.id = Steps[k].parent
                                      /\ Steps[k].part \in ToSet(Steps[g].part.consumers)
<1>1. ToSet(Steps) = {Steps[j] : j \in DOMAIN Steps} /\ Steps = ModelSteps(yaml)
  BY DEF ToSet, Steps, MappingSteps
<1>2. PICK s : s = Steps[k] /\ s \in ToSet(ModelSteps(yaml))
  BY <1>1
<1>3. ASSUME s.kind = "electricity"
      PROVE  \E x \in ToSet(yaml.installations) : \E g \in ToSet(x.generators) :
               /\ s.part \in ToSet(g.consumers) /\ s.parent = g.id
               /\ Step("generator", g, x.id, x.fuel) \in ToSet(ModelSteps(yaml))
  BY <1>2, <1>3, StepsOfParts, FieldsOfStep DEF IsOfInstallation, IsOfSet
<1>4. ASSUME s.kind = "fuel"
      PROVE  \E x \in ToSet(yaml.installations) : s.part \in ToSet(x.consumers)
  BY <1>2, <1>4, StepsOfParts, FieldsOfStep DEF IsOfInstallation, IsOfSet
<1>5. ASSUME s.kind = "generator"
      PROVE  \E x \in ToSet(yaml.installations) : \E g \in ToSet(x.generators) :
               /\ s.part = g
               /\ \A c \in ToSet(g.consumers) : Step("electricity", c, g.id, x.fuel) \in ToSet(ModelSteps(yaml))
  <2>1. PICK x \in ToSet(yaml.installations) : \E g \in ToSet(x.generators) : s = Step("generator", g, x.id, x.fuel)
    BY <1>2, <1>5, StepsOfParts, FieldsOfStep DEF IsOfInstallation, IsOfSet
  <2>2. PICK g \in ToSet(x.generators) : s = Step("generator", g, x.id, x.fuel)
    BY <2>1
  <2>3. ASSUME NEW c \in ToSet(g.consumers) PROVE Step("electricity", c, g.id, x.fuel) \in ToSet(ModelSteps(yaml))
    BY StepsOfParts DEF IsOfInstallation, IsOfSet
  <2> QED
    BY <2>2, <2>3, FieldsOfStep
<1>6. IsConsumer(s) => s.part \in ConsumersOf(yaml)
  BY <1>3, <1>4 DEF IsConsumer, ConsumersOf
<1>7. ASSUME s.kind = "generator"
      PROVE  /\ IsList(s.part.consumers)
             /\ \A c \in ToSet(s.part.consumers) :
                  /\ c \in ConsumersOf(yaml)
                  /\ \E j \in DOMAIN Steps : Steps[j].kind = "electricity" /\ Steps[j].part = c /\ Steps[j].parent = s.part.id
  <2>x. PICK x \in ToSet(yaml.installations) : \E g \in ToSet(x.generators) :
               /\ s.part = g
               /\ \A c \in ToSet(g.consumers) : Step("electricity", c, g.id, x.fuel) \in ToSet(ModelSteps(yaml))
    BY <1>5, <1>7
  <2>1. PICK g \in ToSet(x.generators) :
               /\ s.part = g
               /\ \A c \in ToSet(g.consumers) : Step("electricity", c, g.id, x.fuel) \in ToSet(ModelSteps(yaml))
    BY <2>x
  <2>2. IsList(g.consumers)
    BY DEF IsWellFormed
  <2>3. ASSUME NEW c \in ToSet(g.consumers)
        PROVE  /\ c \in ConsumersOf(yaml)
               /\ \E j \in DOMAIN Steps : Steps[j].kind = "electricity" /\ Steps[j].part = c /\ Steps[j].parent = g.id
    <3>1. c \in ConsumersOf(yaml)
      BY DEF ConsumersOf
    <3>2. PICK j \in DOMAIN Steps : Steps[j] = Step("electricity", c, g.id, x.fuel)
      BY <1>1, <2>1
    <3> QED
      BY <3>1, <3>2, FieldsOfStep
  <2> QED
    BY <2>1, <2>2, <2>3
<1>8. ASSUME s.kind = "electricity"
      PROVE  \E g \in DOMAIN Steps : /\ Steps[g].kind = "generator" /\ Steps[g].part.id = s.parent
                                     /\ s.part \in ToSet(Steps[g].part.consumers)
  <2>x. PICK x \in ToSet(yaml.installations) : \E g \in ToSet(x.generators) :
               /\ s.part \in ToSet(g.consumers) /\ s.parent = g.id
               /\ Step("generator", g, x.id, x.fuel) \in ToSet(ModelSteps(yaml))
    BY <1>3, <1>8
  <2>1. PICK g \in ToSet(x.generators) :
               /\ s.part \in ToSet(g.consumers) /\ s.parent = g.id
               /\ Step("generator", g, x.id, x.fuel) \in ToSet(ModelSteps(yaml))
    BY <2>x
  <2>2. PICK j \in DOMAIN Steps : Steps[j] = Step("generator", g, x.id, x.fuel)
    BY <1>1, <2>1
  <2> QED
    BY <2>1, <2>2, FieldsOfStep
<1> QED
  BY <1>2, <1>6, <1>7, <1>8

\* Entries that are written in the order of their dates.
InOrderOfDates(entries) == \A i, j \in DOMAIN entries : i < j => entries[i].date < entries[j].date

\* The models of every consumer are written in the order of their dates, and no time
\* series is from before the run.
DatesInOrder(model) ==
  /\ StartsInTime(model)
  /\ \A c \in ConsumersOf(model) : InOrderOfDates(c.models)

\* All dates of a model are among those the run is cut by.
LEMMA AllDated ==
  ASSUME NEW model
  PROVE  /\ \A v \in ToSet(model.variables) : DatesOf(v.entries) \subseteq DateKeys(model)
         /\ \A f \in FuelsOf(model) : DatesOf(f) \subseteq DateKeys(model)
         /\ \A x \in GeneratorsOf(model) \cup ConsumersOf(model) : DatesOf(x.models) \subseteq DateKeys(model)
<1> DEFINE ofVariables == {DatesOf(v.entries) : v \in ToSet(model.variables)}
           ofFuels == {DatesOf(f) : f \in FuelsOf(model)}
           ofModels == {DatesOf(x.models) : x \in GeneratorsOf(model) \cup ConsumersOf(model)}
<1>1. DateKeys(model) = UNION (ofVariables \cup ofFuels \cup ofModels)
  BY DEF DateKeys
<1>2. \A v \in ToSet(model.variables) : DatesOf(v.entries) \in ofVariables
  OBVIOUS
<1>3. \A f \in FuelsOf(model) : DatesOf(f) \in ofFuels
  OBVIOUS
<1>4. \A x \in GeneratorsOf(model) \cup ConsumersOf(model) : DatesOf(x.models) \in ofModels
  OBVIOUS
<1> HIDE DEF ofVariables, ofFuels, ofModels
<1> QED
  BY <1>1, <1>2, <1>3, <1>4

\* The entries of anything dated, once the variables are resolved: the one that is
\* kept of them for a period is the one in force.
LEMMA InForceOf ==
  ASSUME VariablesTyped, is_validated, StartsInTime(yaml), NEW t \in DOMAIN periods,
         NEW entries, IsDated(entries), InOrderOfDates(entries), DatesOf(entries) \subseteq DateKeys(yaml)
  PROVE  /\ \E n \in Nat : DOMAIN periods = 1 .. n
         /\ \/ InForce(entries, t) = {} /\ EntriesAt(Kept(entries), t) = {}
            \/ \E i \in DOMAIN entries, a, b \in DOMAIN periods :
                 /\ InForce(entries, t) = {entries[i]} /\ EntriesAt(Kept(entries), t) = {Cut(entries, i)}
                 /\ PeriodIndices(Cut(entries, i).period, periods) = <<a, b>> /\ t \in a .. b
<1>1. IsTyped(yaml) /\ RunDates # {} /\ periods = PeriodsOn(RunDates)
  BY DEF VariablesTyped
<1>2. PICK n, ts : /\ Between(periods, ts, n)
                   /\ StartsInTime(yaml) => OnTimeline(ts, n)
                   /\ \A d \in DateKeys(yaml) : ts[1] <= d /\ d <= ts[n + 1] => \E k \in 1 .. n + 1 : ts[k] = d
  BY <1>1, RunTimeline
<1>3. OnTimeline(ts, n) /\ DOMAIN periods = 1 .. n /\ n \in Nat
  BY <1>2, AllBetween DEF Between
<1>4. Ascending(entries)
  <2>1. \A i \in DOMAIN entries : entries[i] \in ToSet(entries)
    BY DEF ToSet
  <2> QED
    BY <2>1 DEF Ascending, IsDated, InOrderOfDates
<1>5. DatedOn(entries, ts, n)
  <2>1. ASSUME NEW i \in DOMAIN entries, entries[i].date # DateMin PROVE entries[i].date \in DateKeys(yaml)
    BY <2>1 DEF DatesOf, ToSet
  <2> QED
    BY <1>2, <2>1 DEF DatedOn
<1>6. \/ InForce(entries, t) = {} /\ EntriesAt(Kept(entries), t) = {}
      \/ \E i \in DOMAIN entries, a, b \in 1 .. n :
           /\ InForce(entries, t) = {entries[i]}
           /\ EntriesAt(Kept(entries), t) = {Cut(entries, i)}
           /\ PeriodIndices(Cut(entries, i).period, periods) = <<a, b>>
           /\ t \in a .. b
  BY <1>3, <1>4, <1>5, KeptInForce
<1> QED
  BY <1>3, <1>6

\* The models of a consumer, once the variables are resolved.
LEMMA InForceAt ==
  ASSUME VariablesTyped, is_validated, DatesInOrder(yaml), NEW c \in ConsumersOf(yaml), NEW t \in DOMAIN periods
  PROVE  /\ \E n \in Nat : DOMAIN periods = 1 .. n
         /\ \/ InForce(c.models, t) = {} /\ Found(c, t) = {}
            \/ \E i \in DOMAIN c.models, a, b \in DOMAIN periods :
                 /\ InForce(c.models, t) = {c.models[i]} /\ Found(c, t) = {Cut(c.models, i)}
                 /\ PeriodIndices(Cut(c.models, i).period, periods) = <<a, b>> /\ t \in a .. b
<1>1. IsDated(c.models)
  BY DEF VariablesTyped, IsTyped
<1>2. InOrderOfDates(c.models) /\ StartsInTime(yaml)
  BY DEF DatesInOrder
<1>3. DatesOf(c.models) \subseteq DateKeys(yaml)
  BY AllDated
<1> QED
  BY <1>1, <1>2, <1>3, InForceOf DEF Found

LEMMA LoadTyped ==
  ASSUME VariablesTyped, is_validated, NEW c \in ConsumersOf(yaml), NEW e \in ToSet(c.models)
  PROVE  /\ processed[e.model.load] \in [DOMAIN periods -> Int]
         /\ e.model.kind \in {DIRECT, PROCESS, SYSTEM, INVALID}
         /\ e.model.kind = SYSTEM => IsSystem(e.model)
<1>1. /\ IsTyped(yaml)
      /\ \A n \in DOMAIN processed : processed[n] \in [DOMAIN periods -> Int]
      /\ \A s \in yaml.series : s.name \in DOMAIN processed
      /\ \A v \in ToSet(yaml.variables) : v.name \in DOMAIN processed \/ v \in ToSet(unresolved)
      /\ unresolved = <<>>
  BY DEF VariablesTyped
<1>2. ToSet(unresolved) = {}
  BY <1>1, NoneListed
<1>3. PICK x \in yaml.series \cup ToSet(yaml.variables) : x.name = e.model.load
  BY <1>1 DEF IsTyped
<1>4. e.model.load \in DOMAIN processed
  BY <1>1, <1>2, <1>3
<1> QED
  BY <1>1, <1>4 DEF IsTyped

\* Whether the entry e is within its capacity in the period t.
CopesBy(e, t) ==
  CASE e.model.kind = DIRECT  -> TRUE
    [] e.model.kind = PROCESS -> LoadOf(e, t) <= e.model.capacities[1]
    [] e.model.kind = SYSTEM  -> \E i \in DOMAIN e.model.settings : Suffices(e, i, t)

\* What the cut x of the entry e answers for the period t.
AnswersAs(x, e, t) ==
  /\ LoadOf(e, t) \in Int
  /\ e.model.kind \in {DIRECT, PROCESS} =>
       ResultAt(x, t).energy = LoadOf(e, t) /\ (ResultAt(x, t).valid <=> CopesBy(e, t))
  /\ e.model.kind = SYSTEM /\ IsSystem(e.model) =>
       /\ ResultAt(x, t).valid <=> CopesBy(e, t)
       /\ FirstSufficient(e, t) \in DOMAIN e.model.settings
       /\ ResultAt(x, t).used = FirstSufficient(e, t)
       /\ ResultAt(x, t).energy = SumFunction(AskedRates(e.model.settings[FirstSufficient(e, t)], LoadOf(e, t)))
       /\ ResultAt(x, t).energy \in Int

\* The first setting that suffices does so, if any does.
LEMMA FirstOfSuffices ==
  ASSUME NEW system, IsSystem(system), NEW load
  PROVE  WithinCapacity(system, system.settings[FirstOf(system, load)], load)
           <=> \E i \in DOMAIN system.settings : WithinCapacity(system, system.settings[i], load)
<1> DEFINE all == DOMAIN system.settings
           within(i) == WithinCapacity(system, system.settings[i], load)
           sufficient == {i \in all : within(i)}
<1>1. all = 1 .. Len(system.settings) /\ Len(system.settings) \in Nat \ {0}
  <2>1. IsList(system.settings) /\ system.settings # <<>>
    BY DEF IsSystem, IsList
  <2>2. PICK s : s = system.settings
    OBVIOUS
  <2>3. DOMAIN s = 1 .. Len(s) /\ Len(s) \in Nat /\ (Len(s) = 0 => s = <<>>)
    BY <2>1, <2>2, ListDomain, EmptySeq DEF IsList
  <2> QED
    BY <2>1, <2>2, <2>3
<1>2. FirstOf(system, load) = IF sufficient = {} THEN Max(all) ELSE Min(sufficient)
  BY DEF FirstOf
<1> HIDE DEF within
<1>3. CASE sufficient = {}
  <2>1. Max(all) \in all
    <3>1. PICK n \in Nat \ {0} : all = 1 .. n
      BY <1>1
    <3> HIDE DEF all
    <3>2. n \in all /\ \A y \in all : y <= n
      BY <3>1
    <3>3. \E x \in all : \A y \in all : y <= x
      BY <3>2
    <3> QED
      BY <3>3 DEF Max
  <2>2. ~within(Max(all)) /\ \A i \in all : ~within(i)
    BY <1>3, <2>1
  <2> QED
    BY <1>2, <1>3, <2>2 DEF within
<1>4. CASE sufficient # {}
  <2>1. Min(sufficient) \in sufficient
    <3>1. sufficient \in SUBSET Nat
      BY <1>1
    <3> HIDE DEF sufficient
    <3>2. \E x \in sufficient : \A y \in sufficient : x <= y
      BY <1>4, <3>1, LeastMember
    <3> QED
      BY <3>2 DEF Min
  <2>2. within(Min(sufficient)) /\ \E i \in all : within(i)
    BY <2>1
  <2> QED
    BY <1>2, <1>4, <2>2 DEF within
<1> QED
  BY <1>3, <1>4

\* What the entry answers for a period is read off the load of that period.
LEMMA EntryAnswers ==
  ASSUME NEW e, NEW x, x.model = e.model, NEW n \in Nat, DOMAIN periods = 1 .. n,
         processed[e.model.load] \in [1 .. n -> Int],
         NEW a \in 1 .. n, NEW b \in 1 .. n, NEW t \in a .. b, PeriodIndices(x.period, periods) = <<a, b>>
  PROVE  AnswersAs(x, e, t)
<1>1. PICK s, i, loads : /\ s = processed[e.model.load] /\ i = t - a + 1 /\ loads = SubSeq(s, a, b)
  OBVIOUS
<1>2. /\ loads \in Seq(Int) /\ Len(loads) = b - a + 1
      /\ \A k \in 1 .. b - a + 1 : loads[k] = s[a + k - 1]
  <2>1. \A k \in a .. b : s[k] \in Int
    BY <1>1
  <2>2. /\ SubSeq(s, a, b) \in Seq(Int) /\ Len(SubSeq(s, a, b)) = IF a <= b THEN b - a + 1 ELSE 0
        /\ \A k \in 1 .. b - a + 1 : SubSeq(s, a, b)[k] = s[a + k - 1]
    <3>1. PICK p, q : p = a /\ q = b
      OBVIOUS
    <3>2. p \in Int /\ q \in Int /\ \A k \in p .. q : s[k] \in Int
      BY <2>1, <3>1
    <3>3. /\ SubSeq(s, p, q) \in Seq(Int) /\ Len(SubSeq(s, p, q)) = IF p <= q THEN q - p + 1 ELSE 0
          /\ \A k \in 1 .. q - p + 1 : SubSeq(s, p, q)[k] = s[p + k - 1]
      BY <3>2, SubSeqProperties
    <3> QED
      BY <3>1, <3>3
  <2>3. a <= b
    OBVIOUS
  <2> QED
    BY <1>1, <2>2, <2>3
<1>3. i \in DOMAIN loads /\ loads[i] = s[t] /\ s[t] \in Int
  <2>1. i \in 1 .. b - a + 1 /\ a + i - 1 = t /\ t \in 1 .. n
    BY <1>1
  <2>2. DOMAIN loads = 1 .. b - a + 1
    BY <1>2, LenProperties
  <2> QED
    BY <1>1, <1>2, <2>1, <2>2
<1>4. LoadOf(e, t) = loads[i] /\ LoadOf(e, t) \in Int
  BY <1>1, <1>3 DEF LoadOf
<1>5. LoadsOf(x) = loads
  BY <1>1 DEF LoadsOf
<1>6. PeriodIndices(x.period, periods)[1] = a
  OBVIOUS
<1>7. /\ ResultAt(x, t).energy = EntryResult(x).energy[i] /\ ResultAt(x, t).used = EntryResult(x).used[i]
      /\ ResultAt(x, t).valid = EntryResult(x).valid[i]
  BY <1>1, <1>6 DEF ResultAt
<1>8. ASSUME e.model.kind \in {DIRECT, PROCESS}
      PROVE  ResultAt(x, t).energy = LoadOf(e, t) /\ (ResultAt(x, t).valid <=> CopesBy(e, t))
  <2>1. EntryResult(x) = AsIs(loads) \/ EntryResult(x) = WithinChart(x.model, loads)
    BY <1>5, <1>8 DEF EntryResult, DIRECT, PROCESS, SYSTEM
  <2>2. EntryResult(x).energy = loads
    BY <2>1 DEF AsIs, WithinChart
  <2>3. CASE e.model.kind = DIRECT
    <3>1. EntryResult(x).valid[i] = TRUE
      BY <1>3, <1>5, <2>3 DEF EntryResult, AsIs, DIRECT, PROCESS, SYSTEM
    <3> QED
      BY <1>4, <1>7, <2>2, <2>3, <3>1 DEF CopesBy, DIRECT, PROCESS, SYSTEM
  <2>4. CASE e.model.kind = PROCESS
    <3>1. EntryResult(x).valid[i] = (loads[i] <= x.model.capacities[1])
      BY <1>3, <1>5, <2>4 DEF EntryResult, WithinChart, AsIs, DIRECT, PROCESS, SYSTEM
    <3> QED
      BY <1>4, <1>7, <2>2, <2>4, <3>1 DEF CopesBy, DIRECT, PROCESS, SYSTEM
  <2> QED
    BY <1>8, <2>3, <2>4
<1>9. ASSUME e.model.kind = SYSTEM, IsSystem(e.model)
      PROVE  /\ ResultAt(x, t).valid <=> CopesBy(e, t)
             /\ FirstSufficient(e, t) \in DOMAIN e.model.settings
             /\ ResultAt(x, t).used = FirstSufficient(e, t)
             /\ ResultAt(x, t).energy = SumFunction(AskedRates(e.model.settings[FirstSufficient(e, t)], LoadOf(e, t)))
             /\ ResultAt(x, t).energy \in Int
  <2>1. PICK system : system = e.model
    OBVIOUS
  <2>2. IsSystem(system)
    BY <1>9, <2>1
  <2>3. EntryResult(x) = SystemResult(system, loads)
    BY <1>5, <1>9, <2>1 DEF EntryResult, DIRECT, PROCESS, SYSTEM
  <2>4. FirstSufficient(e, t) = FirstOf(system, loads[i])
    BY <1>4, <2>1 DEF FirstSufficient, FirstOf, Suffices
  <2>5. PICK used : used = SettingsUsed(system, loads)
    OBVIOUS
  <2>6. used[i] = FirstOf(system, loads[i]) /\ FirstOf(system, loads[i]) \in DOMAIN system.settings
    BY <1>3, <2>2, <2>5, FirstSettingUsed
  <2>7. /\ EntryResult(x).used = used
        /\ EntryResult(x).energy[i] = SumFunction(RatesAfterCrossOver(system, system.settings[used[i]], loads[i]))
        /\ EntryResult(x).valid[i] = WithinCapacity(system, system.settings[used[i]], loads[i])
    BY <1>3, <2>3, <2>5 DEF SystemResult
  <2>8. PICK setting, load : setting = system.settings[used[i]] /\ load = loads[i]
    OBVIOUS
  <2>9. setting \in ToSet(system.settings) /\ load \in Int
    BY <1>1, <1>3, <2>6, <2>8 DEF ToSet
  <2>10. /\ SumFunction(RatesAfterCrossOver(system, setting, load)) = SumFunction(AskedRates(setting, load))
         /\ SumFunction(AskedRates(setting, load)) \in Int
    BY <2>2, <2>9, CrossOverKeepsTheSum
  <2>11. ResultAt(x, t).energy = SumFunction(AskedRates(setting, load)) /\ ResultAt(x, t).used = used[i]
    BY <1>7, <2>7, <2>8, <2>10
  <2>12. ResultAt(x, t).valid <=> CopesBy(e, t)
    <3>1. ResultAt(x, t).valid <=> \E m \in DOMAIN system.settings : WithinCapacity(system, system.settings[m], load)
      BY <1>7, <2>2, <2>6, <2>7, <2>8, FirstOfSuffices
    <3>2. \A m \in DOMAIN system.settings : Suffices(e, m, t) <=> WithinCapacity(system, system.settings[m], load)
      BY <1>4, <2>1, <2>8 DEF Suffices
    <3> QED
      BY <1>9, <2>1, <3>1, <3>2 DEF CopesBy, DIRECT, PROCESS, SYSTEM
  <2> QED
    BY <1>4, <2>1, <2>4, <2>6, <2>8, <2>10, <2>11, <2>12
<1> QED
  BY <1>4, <1>8, <1>9 DEF AnswersAs

(***************************************************************************)
(* What a consumer answers is what its models say, by their dates alone.    *)
(***************************************************************************)
\* What the entry in force draws.
DrawnBy(e, t) ==
  IF e.model.kind = SYSTEM
  THEN SumFunction(AskedRates(e.model.settings[FirstSufficient(e, t)], LoadOf(e, t)))
  ELSE LoadOf(e, t)

LEMMA DrawnSum ==
  ASSUME NEW c, NEW t
  PROVE  Drawn(c, t) = SumFunction([e \in InForce(c.models, t) |-> DrawnBy(e, t)])
  BY DEF Drawn, DrawnBy

LEMMA DrawnNone ==
  ASSUME NEW c, NEW t, InForce(c.models, t) = {}
  PROVE  Drawn(c, t) = 0
<1> DEFINE f == [e \in InForce(c.models, t) |-> DrawnBy(e, t)]
<1>1. DOMAIN f = {}
  OBVIOUS
<1> HIDE DEF f
<1>2. SumFunctionOnSet(f, {}) = 0
  BY SumEmpty
<1>3. SumFunction(f) = 0
  BY <1>1, <1>2 DEF SumFunction
<1> QED
  BY <1>3, DrawnSum DEF f

LEMMA DrawnOne ==
  ASSUME NEW c, NEW t, NEW e, InForce(c.models, t) = {e}, DrawnBy(e, t) \in Int
  PROVE  Drawn(c, t) = DrawnBy(e, t)
<1> DEFINE f == [x \in InForce(c.models, t) |-> DrawnBy(x, t)]
<1>1. DOMAIN f = {e} /\ f[e] = DrawnBy(e, t)
  OBVIOUS
<1> HIDE DEF f
<1>2. SumFunction(f) = f[e]
  BY <1>1, SumSingle
<1> QED
  BY <1>1, <1>2, DrawnSum DEF f

\* What a consumer has to answer in the period t.
Answers(c, t) ==
  /\ Drawn(c, t) \in Int
  /\ AnswerAt(c, t).energy = Drawn(c, t)
  /\ AnswerAt(c, t).valid <=> ConsumerCopes(c, t)
  /\ \A e \in InForce(c.models, t) : e.model.kind = SYSTEM =>
       /\ AnswerAt(c, t).used = FirstSufficient(e, t)
       /\ AnswerAt(c, t).energy = SumFunction(AskedRates(e.model.settings[FirstSufficient(e, t)], LoadOf(e, t)))

LEMMA ConsumerAnswers ==
  ASSUME VariablesTyped, is_validated, DatesInOrder(yaml), NEW c \in ConsumersOf(yaml), NEW t \in DOMAIN periods,
         ModelsError(c.models) = NoError
  PROVE  Answers(c, t)
<1>1. PICK n \in Nat : DOMAIN periods = 1 .. n
  BY InForceAt
<1>2. CASE InForce(c.models, t) = {} /\ Found(c, t) = {}
  <2>1. Drawn(c, t) = 0
    BY <1>2, DrawnNone
  <2>2. AnswerAt(c, t).energy = 0 /\ AnswerAt(c, t).valid = TRUE
    BY <1>2 DEF AnswerAt, Idle
  <2>3. ConsumerCopes(c, t)
    BY <1>2 DEF ConsumerCopes
  <2> QED
    BY <1>2, <2>1, <2>2, <2>3 DEF Answers
<1>3. ASSUME NEW i \in DOMAIN c.models, NEW a \in DOMAIN periods, NEW b \in DOMAIN periods,
             InForce(c.models, t) = {c.models[i]}, Found(c, t) = {Cut(c.models, i)},
             PeriodIndices(Cut(c.models, i).period, periods) = <<a, b>>, t \in a .. b
      PROVE  Answers(c, t)
  <2>1. PICK e, x : e = c.models[i] /\ x = Cut(c.models, i)
    OBVIOUS
  <2>2. e \in ToSet(c.models) /\ x.model = e.model
    BY <2>1 DEF ToSet, Cut
  <2>3. x \in ToSet(Kept(c.models))
    BY <1>3, <2>1 DEF Found, EntriesAt
  <2>4. e.model.kind # INVALID
    BY <2>2, <2>3 DEF ModelsError, NoError, Invalid, Misaligned
  <2>5. /\ processed[e.model.load] \in [DOMAIN periods -> Int]
        /\ e.model.kind \in {DIRECT, PROCESS, SYSTEM}
        /\ e.model.kind = SYSTEM => IsSystem(e.model)
    BY <2>2, <2>4, LoadTyped
  <2>6. AnswersAs(x, e, t)
    <3>1. PeriodIndices(x.period, periods) = <<a, b>> /\ a \in 1 .. n /\ b \in 1 .. n
      BY <1>1, <1>3, <2>1
    <3>2. processed[e.model.load] \in [1 .. n -> Int]
      BY <1>1, <2>5
    <3> QED
      BY <1>1, <1>3, <2>2, <3>1, <3>2, EntryAnswers
  <2>7. AnswerAt(c, t) = ResultAt(x, t)
    <3>1. Found(c, t) = {x}
      BY <1>3, <2>1
    <3>2. (CHOOSE y \in {x} : TRUE) = x
      OBVIOUS
    <3> QED
      BY <3>1, <3>2 DEF AnswerAt
  <2>8. DrawnBy(e, t) \in Int /\ AnswerAt(c, t).energy = DrawnBy(e, t)
    <3>1. CASE e.model.kind = SYSTEM
      BY <2>5, <2>6, <2>7, <3>1 DEF DrawnBy, AnswersAs
    <3>2. CASE e.model.kind # SYSTEM
      BY <2>5, <2>6, <2>7, <3>2 DEF DrawnBy, AnswersAs
    <3> QED
      BY <3>1, <3>2
  <2>9. InForce(c.models, t) = {e}
    BY <1>3, <2>1
  <2>10. Drawn(c, t) = DrawnBy(e, t)
    BY <2>8, <2>9, DrawnOne
  <2>11. e.model.kind = SYSTEM =>
           /\ AnswerAt(c, t).used = FirstSufficient(e, t)
           /\ AnswerAt(c, t).energy = SumFunction(AskedRates(e.model.settings[FirstSufficient(e, t)], LoadOf(e, t)))
    BY <2>5, <2>6, <2>7 DEF AnswersAs
  <2>12. AnswerAt(c, t).valid <=> ConsumerCopes(c, t)
    <3>1. ConsumerCopes(c, t) <=> CopesBy(e, t)
      BY <2>9 DEF ConsumerCopes, CopesBy
    <3>2. ResultAt(x, t).valid <=> CopesBy(e, t)
      BY <2>5, <2>6 DEF AnswersAs
    <3> QED
      BY <2>7, <3>1, <3>2
  <2> QED
    BY <2>8, <2>9, <2>10, <2>11, <2>12 DEF Answers
<1> QED
  BY <1>2, <1>3, InForceAt

LEMMA ListFinite ==
  ASSUME NEW s, IsList(s)
  PROVE  IsFiniteSet(ToSet(s))
<1> DEFINE D == ToSet(s)
           m == Len(s)
<1>1. DOMAIN s = 1 .. m /\ m \in Nat /\ \A k \in 1 .. m : s[k] \in D
  BY ListDomain
<1>2. s \in [1 .. m -> D]
  <2>1. s = [k \in 1 .. m |-> s[k]]
    BY <1>1, LenProperties DEF IsList
  <2> QED
    BY <1>1, <2>1
<1>3. \A d \in D : \E i \in 1 .. m : s[i] = d
  BY <1>1 DEF ToSet
<1> HIDE DEF D, m
<1>4. s \in Surjection(1 .. m, D)
  BY <1>2, <1>3 DEF Surjection
<1>5. IsFiniteSet(1 .. m)
  BY <1>1, FS_Interval
<1>6. IsFiniteSet(D)
  BY <1>4, <1>5, FS_Surjection
<1> QED
  BY <1>6 DEF D

(***************************************************************************)
(* FirstSufficientSetting and PowerIsBalanced, of what has been evaluated.  *)
(***************************************************************************)
Settled == EnergyInv /\ VariablesTyped /\ ResultsStand /\ ModelsClean

LEMMA EvaluatedWhole ==
  ASSUME Settled, DOMAIN results # {}
  PROVE  mapped /\ is_validated /\ IsWellFormed(yaml) /\ RegisteredUpTo(Len(Steps))
<1>1. mapped
  BY DEF Settled, EnergyInv, BuiltWhole
<1>2. is_validated /\ IsWellFormed(yaml)
  BY <1>1 DEF Settled, EnergyInv, Stages
<1> QED
  BY <1>1, <1>2 DEF Settled, EnergyInv, MappedUpTo

\* A step whose component is in the tree is that of a component.
LEMMA InTheTree ==
  ASSUME IsWellFormed(yaml), RegisteredUpTo(Len(Steps)), NEW kinds, "generator_fuel" \notin kinds, NEW step \in StepsOf(kinds)
  PROVE  \E k \in ComponentSteps : Steps[k] = step
<1>1. PICK k \in DOMAIN Steps : Steps[k] = step
  BY DEF StepsOf, ToSet, Steps
<1>2. step.part.id \in ToSet(nodes) /\ step.kind # "generator_fuel"
  BY DEF StepsOf
<1>3. PICK i \in 1 .. Len(nodes) : nodes[i] = step.part.id
  BY <1>2, ListDomain DEF RegisteredUpTo, ToSet
<1>4. PICK j \in ComponentSteps : Stands(i, j)
  BY DEF RegisteredUpTo, Stands
<1>5. j \in DOMAIN Steps /\ Steps[j].kind # "generator_fuel" /\ Steps[j].part.id = step.part.id
  BY <1>3, <1>4 DEF Stands, ComponentSteps, IsComponent
<1>6. j = k
  BY <1>1, <1>2, <1>5, OneStep
<1> QED
  BY <1>1, <1>4, <1>6

\* Every consumer answers, also one that is left out.
LEMMA EveryConsumerAnswers ==
  ASSUME Settled, mapped, is_validated, IsWellFormed(yaml), DatesInOrder(yaml), NEW k \in DOMAIN Steps, IsConsumer(Steps[k]),
         NEW t \in DOMAIN periods
  PROVE  Answers(Steps[k].part, t)
<1>1. Steps[k].part \in ConsumersOf(yaml)
  BY StepsOfSets
<1>2. ModelsError(Steps[k].part.models) = NoError
  BY DEF Settled, ModelsClean
<1> QED
  BY <1>1, <1>2, ConsumerAnswers DEF Settled

LEMMA ConsumerStands ==
  ASSUME Settled, NEW k \in ComponentSteps, IsConsumer(Steps[k]), Steps[k].part.id \in DOMAIN results,
         NEW t \in DOMAIN periods
  PROVE  results[Steps[k].part.id][t] = AnswerAt(Steps[k].part, t)
<1>1. results[Steps[k].part.id] = ConsumerResult(Steps[k].part)
  BY DEF Settled, ResultsStand, ResultOf
<1> QED
  BY <1>1, ConsumerResultAt

LEMMA FirstSufficientHolds ==
  ASSUME Settled, DatesInOrder(yaml)
  PROVE  FirstSufficientSetting
<1> SUFFICES ASSUME NEW step \in StepsOf({"electricity", "fuel"}), step.part.id \in DOMAIN results,
                    NEW t \in DOMAIN periods, NEW e \in InForce(step.part.models, t), e.model.kind = SYSTEM
             PROVE  /\ results[step.part.id][t].used = FirstSufficient(e, t)
                    /\ results[step.part.id][t].energy =
                         SumFunction(AskedRates(e.model.settings[results[step.part.id][t].used], LoadOf(e, t)))
  BY DEF FirstSufficientSetting
<1>1. mapped /\ is_validated /\ IsWellFormed(yaml) /\ RegisteredUpTo(Len(Steps))
  BY EvaluatedWhole
<1>2. PICK k \in ComponentSteps : Steps[k] = step
  BY <1>1, InTheTree
<1>3. k \in DOMAIN Steps /\ IsConsumer(step)
  BY DEF ComponentSteps, StepsOf, IsConsumer
<1>4. results[step.part.id][t] = AnswerAt(step.part, t)
  BY <1>2, <1>3, ConsumerStands
<1>5. Answers(step.part, t)
  BY <1>1, <1>2, <1>3, EveryConsumerAnswers
<1>6. /\ AnswerAt(step.part, t).used = FirstSufficient(e, t)
      /\ AnswerAt(step.part, t).energy = SumFunction(AskedRates(e.model.settings[FirstSufficient(e, t)], LoadOf(e, t)))
  BY <1>5 DEF Answers
<1> QED
  BY <1>4, <1>6

\* The step k of a generator set, and that of one of its consumers.
SupplyStep(k)  == k \in DOMAIN Steps /\ Steps[k].kind = "generator"
DrawsFrom(j, k) == j \in DOMAIN Steps /\ Steps[j].kind = "electricity" /\ Steps[j].parent = Steps[k].part.id

\* What hangs below a generator set in the tree is what draws from it.
LEMMA ChildrenDraw ==
  ASSUME IsWellFormed(yaml), RegisteredUpTo(Len(Steps)), NEW k, SupplyStep(k)
  PROVE  \A id : id \in Children(Steps[k].part.id) <=> \E j \in ComponentSteps : DrawsFrom(j, k) /\ Steps[j].part.id = id
<1> DEFINE set == Steps[k].part.id
<1>1. \A id : id \in Children(set) <=> <<set, id>> \in edges
  <2> SUFFICES ASSUME NEW id PROVE id \in Children(set) <=> <<set, id>> \in edges
    OBVIOUS
  <2>1. \A e \in edges : \E l \in ComponentSteps : e = <<Steps[l].parent, Steps[l].part.id>>
    BY DEF RegisteredUpTo
  <2> HIDE DEF set
  <2>2. ASSUME id \in Children(set) PROVE <<set, id>> \in edges
    <3>1. PICK e \in edges : e[1] = set /\ e[2] = id
      BY <2>2 DEF Children
    <3>2. PICK l \in ComponentSteps : e = <<Steps[l].parent, Steps[l].part.id>>
      BY <2>1
    <3> QED
      BY <3>1, <3>2
  <2>3. ASSUME <<set, id>> \in edges PROVE id \in Children(set)
    <3>1. PICK e \in edges : e = <<set, id>>
      BY <2>3
    <3>2. e[1] = set /\ e[2] = id
      BY <3>1
    <3> QED
      BY <3>1, <3>2 DEF Children
  <2> QED
    BY <2>2, <2>3
<1>2. ASSUME NEW id, <<set, id>> \in edges
      PROVE  \E j \in ComponentSteps : DrawsFrom(j, k) /\ Steps[j].part.id = id
  <2>1. PICK j \in ComponentSteps : /\ j <= Len(Steps) /\ Steps[j].kind # "asset"
                                    /\ <<Steps[j].parent, Steps[j].part.id>> = <<set, id>>
    BY <1>2 DEF RegisteredUpTo
  <2>2. Steps[j].parent = set /\ Steps[j].part.id = id
    BY <2>1
  <2>3. PICK p \in ComponentSteps : IsParent(Steps[p], Steps[j])
    BY <2>1, ParentFollows
  <2>4. p \in DOMAIN Steps /\ Steps[p].kind # "generator_fuel" /\ Steps[p].part.id = set
    BY <2>2, <2>3 DEF ComponentSteps, IsComponent, IsParent
  <2>5. p = k
    <3>1. k \in DOMAIN Steps /\ Steps[k].kind # "generator_fuel"
      BY DEF SupplyStep
    <3> QED
      BY <2>4, <3>1, OneStep
  <2>6. ParentKind[Steps[j].kind] = "generator"
    BY <2>3, <2>5 DEF IsParent, SupplyStep
  <2>7. j \in DOMAIN Steps
    BY DEF ComponentSteps
  <2>8. Steps[j].kind \in {"electricity", "generator", "generator_fuel", "fuel", "emitter", "installation"}
    BY <2>1, <2>7, Kinds
  <2>9. Steps[j].kind = "electricity"
    BY <2>6, <2>8 DEF ParentKind
  <2> QED
    BY <2>2, <2>7, <2>9 DEF DrawsFrom
<1>3. ASSUME NEW j \in ComponentSteps, DrawsFrom(j, k) PROVE <<set, Steps[j].part.id>> \in edges
  <2>1. j <= Len(Steps) /\ Steps[j].kind # "asset" /\ Steps[j].parent = set
    BY <1>3, Kinds DEF DrawsFrom
  <2> QED
    BY <2>1 DEF RegisteredUpTo
<1> QED
  BY <1>1, <1>2, <1>3

LEMMA DrawsOnce ==
  ASSUME IsWellFormed(yaml), NEW i, NEW j, NEW k, DrawsFrom(i, k), DrawsFrom(j, k), Steps[i].part.id = Steps[j].part.id
  PROVE  i = j
  BY OneStep DEF DrawsFrom

LEMMA DrawnBySet ==
  ASSUME Settled, mapped, is_validated, IsWellFormed(yaml), RegisteredUpTo(Len(Steps)), DatesInOrder(yaml),
         NEW k, SupplyStep(k), Children(Steps[k].part.id) \subseteq DOMAIN results, NEW t \in DOMAIN periods
  PROVE  SumFunction([c \in Children(Steps[k].part.id) |-> results[c][t].energy])
           = SumFunction([c \in ToSet(Steps[k].part.consumers) |-> Drawn(c, t)])
<1> DEFINE set == Steps[k].part.id
           S == ToSet(Steps[k].part.consumers)
           P == {c \in S : \E j \in ComponentSteps : DrawsFrom(j, k) /\ Steps[j].part = c}
           h == [c \in S |-> c.id]
           f == [c \in S |-> Drawn(c, t)]
           g == [c \in Children(set) |-> results[c][t].energy]
<1>1. IsFiniteSet(S) /\ \A c \in S : \E j \in DOMAIN Steps : DrawsFrom(j, k) /\ Steps[j].part = c
  <2>1. IsList(Steps[k].part.consumers)
    BY StepsOfSets DEF SupplyStep
  <2>2. \A c \in S : \E j \in DOMAIN Steps : DrawsFrom(j, k) /\ Steps[j].part = c
    BY StepsOfSets DEF SupplyStep, DrawsFrom
  <2> QED
    BY <2>1, <2>2, ListFinite
<1>2. ASSUME NEW j \in DOMAIN Steps, DrawsFrom(j, k)
      PROVE  Steps[j].part \in S /\ Drawn(Steps[j].part, t) \in Int /\ AnswerAt(Steps[j].part, t).energy = Drawn(Steps[j].part, t)
  <2>1. PICK l \in DOMAIN Steps : /\ Steps[l].kind = "generator" /\ Steps[l].part.id = Steps[j].parent
                                  /\ Steps[j].part \in ToSet(Steps[l].part.consumers)
    BY <1>2, StepsOfSets DEF DrawsFrom
  <2>2. l = k
    BY <1>2, <2>1, OneStep DEF DrawsFrom, SupplyStep
  <2>3. Answers(Steps[j].part, t)
    BY <1>2, EveryConsumerAnswers DEF DrawsFrom, IsConsumer
  <2> QED
    BY <2>1, <2>2, <2>3 DEF Answers
<1>3. ASSUME NEW c \in S PROVE Drawn(c, t) \in Int /\ (c \notin P => Drawn(c, t) = 0)
  <2>1. PICK j \in DOMAIN Steps : DrawsFrom(j, k) /\ Steps[j].part = c
    BY <1>1
  <2>2. Drawn(c, t) \in Int /\ AnswerAt(c, t).energy = Drawn(c, t)
    BY <1>2, <2>1
  <2>3. ASSUME c \notin P PROVE Drawn(c, t) = 0
    <3>1. j \notin ComponentSteps
      BY <2>1, <2>3
    <3>2. Kept(c.models) = <<>>
      BY <2>1, <3>1 DEF ComponentSteps, IsComponent, IsFiltered, DrawsFrom
    <3>3. Found(c, t) = {}
      BY <3>2, NoneListed DEF Found, EntriesAt
    <3> QED
      BY <2>2, <3>3 DEF AnswerAt, Idle
  <2> QED
    BY <2>2, <2>3
<1>4. ASSUME NEW c \in P PROVE c \in S /\ c.id \in Children(set) /\ results[c.id][t].energy = Drawn(c, t)
  <2>1. PICK j \in ComponentSteps : DrawsFrom(j, k) /\ Steps[j].part = c
    OBVIOUS
  <2>2. j \in DOMAIN Steps /\ IsConsumer(Steps[j])
    BY <2>1 DEF DrawsFrom, IsConsumer
  <2>3. c.id \in Children(set)
    BY <2>1, ChildrenDraw
  <2>4. results[c.id][t] = AnswerAt(c, t)
    BY <2>1, <2>2, <2>3, ConsumerStands
  <2> QED
    BY <1>2, <2>1, <2>2, <2>3, <2>4
<1>5. \A id \in Children(set) : \E c \in P : c.id = id
  <2> SUFFICES ASSUME NEW id \in Children(set) PROVE \E c \in P : c.id = id
    OBVIOUS
  <2>1. PICK j \in ComponentSteps : DrawsFrom(j, k) /\ Steps[j].part.id = id
    BY ChildrenDraw
  <2>2. Steps[j].part \in S
    BY <1>2, <2>1 DEF DrawsFrom
  <2> QED
    BY <2>1, <2>2
<1>6. \A x, y \in P : x.id = y.id => x = y
  <2> SUFFICES ASSUME NEW x \in P, NEW y \in P, x.id = y.id PROVE x = y
    OBVIOUS
  <2>1. PICK i \in ComponentSteps : DrawsFrom(i, k) /\ Steps[i].part = x
    OBVIOUS
  <2>2. PICK j \in ComponentSteps : DrawsFrom(j, k) /\ Steps[j].part = y
    OBVIOUS
  <2> QED
    BY <2>1, <2>2, DrawsOnce
<1>7. P \in SUBSET S
  OBVIOUS
<1>8. \A c \in S : h[c] = c.id /\ f[c] = Drawn(c, t)
  OBVIOUS
<1>9. \A c \in Children(set) : g[c] = results[c][t].energy
  OBVIOUS
<1>10. DOMAIN f = S /\ DOMAIN g = Children(set)
  OBVIOUS
<1> HIDE DEF P, h, f, g, S, set
<1>11. Renamed(Children(set), h, P)
  BY <1>4, <1>5, <1>8 DEF Renamed
<1>12. /\ \A x \in S : f[x] \in Int /\ (x \notin P => f[x] = 0)
       /\ \A x, y \in P : h[x] = h[y] => x = y
       /\ \A x \in P : g[h[x]] = f[x]
  BY <1>3, <1>4, <1>6, <1>8, <1>9
<1>13. SumFunctionOnSet(g, Children(set)) = SumFunctionOnSet(f, S)
  BY <1>1, <1>7, <1>11, <1>12, SumRenamed
<1>14. SumFunction(g) = SumFunction(f)
  BY <1>10, <1>13 DEF SumFunction
<1> QED
  BY <1>14 DEF f, g, S, set

LEMMA PowerBalances ==
  ASSUME Settled, DatesInOrder(yaml)
  PROVE  PowerIsBalanced
<1> SUFFICES ASSUME NEW step \in StepsOf({"generator"}), step.part.id \in DOMAIN results, NEW t \in DOMAIN periods
             PROVE  results[step.part.id][t].power = SumFunction([c \in ToSet(step.part.consumers) |-> Drawn(c, t)])
  BY DEF PowerIsBalanced
<1>1. mapped /\ is_validated /\ IsWellFormed(yaml) /\ RegisteredUpTo(Len(Steps))
  BY EvaluatedWhole
<1>2. PICK k \in ComponentSteps : Steps[k] = step
  BY <1>1, InTheTree
<1>3. SupplyStep(k)
  BY <1>2 DEF SupplyStep, ComponentSteps, StepsOf
<1>4. PICK p, power : p = step.part /\ power = PowerRequirement(step.part.id)
  OBVIOUS
<1>5. Children(p.id) \subseteq DOMAIN results /\ results[p.id] = GeneratorResult(p, power)
  BY <1>2, <1>3, <1>4 DEF Settled, ResultsStand, ResultOf, SupplyStep
<1>6. results[p.id][t] = SupplyAt(p, power[t], t)
  BY <1>5, GeneratorResultAt
<1>7. SupplyAt(p, power[t], t).power = power[t]
  BY DEF SupplyAt
<1>8. power[t] = SumFunction([c \in Children(p.id) |-> results[c][t].energy])
  BY <1>4 DEF PowerRequirement
<1>9. SumFunction([c \in Children(p.id) |-> results[c][t].energy]) = SumFunction([c \in ToSet(p.consumers) |-> Drawn(c, t)])
  BY <1>1, <1>2, <1>3, <1>4, <1>5, DrawnBySet
<1> QED
  BY <1>4, <1>6, <1>7, <1>8, <1>9

(***************************************************************************)
(* All of it holds of a model that has not been called, and every call      *)
(* keeps it.                                                                *)
(***************************************************************************)
LEMMA SettledStarts ==
  ASSUME InitEnergyModel
  PROVE  Settled
<1>1. EnergyInv
  BY EnergyStarts
<1>2. activity = "idle" /\ ~is_validated /\ ~mapped /\ DOMAIN results = {}
  BY <1>1 DEF InitEnergyModel, EnergyInv, Stages
<1> QED
  BY <1>1, <1>2 DEF Settled, VariablesTyped, ResultsStand, ModelsClean

LEMMA SettledKeeps ==
  ASSUME Schema, Settled, NextEnergyModel
  PROVE  Settled' /\ yaml' = yaml
  BY EnergyKeeps, TypedKept, StandKept, CleanKept DEF Settled

LEMMA CleanStays ==
  ASSUME ModelsClean, UNCHANGED <<yaml, activity, mapped, next, periods>>
  PROVE  ModelsClean'
<1>1. Steps' = Steps /\ \A s : IsConsumer(s)' <=> IsConsumer(s)
  BY KeepsSteps DEF IsConsumer
<1>2. ASSUME activity = "mapping" \/ mapped, NEW k \in DOMAIN Steps, IsConsumer(Steps[k]), mapped \/ k < next
      PROVE  ModelsError(Steps[k].part.models)' = NoError
  <2>1. PICK entries : entries = Steps[k].part.models
    OBVIOUS
  <2>2. ModelsError(entries) = NoError
    BY <1>2, <2>1 DEF ModelsClean
  <2>3. ModelsError(entries)' = NoError
    BY <2>2, SameModelsError DEF NoError
  <2> QED
    BY <1>1, <2>1, <2>3
<1> QED
  BY <1>1, <1>2 DEF ModelsClean

LEMMA SettledStays ==
  ASSUME Settled, EnergyInv', UNCHANGED energyModelVars
  PROVE  Settled'
<1>1. UNCHANGED <<yaml, activity, is_validated, mapped, next, edges, results, periods, processed, variablesVars>>
  BY DEF energyModelVars, mapVars, resultVars, variablesVars
<1>2. VariablesTyped'
  BY <1>1, TypedElse DEF Settled
<1>3. ResultsStand'
  BY <1>1, StandElse DEF Settled
<1>4. ModelsClean'
  BY <1>1, CleanStays DEF Settled
<1> QED
  BY <1>2, <1>3, <1>4 DEF Settled

=============================================================================

------------------------- MODULE EnergyReportProofs -------------------------
(***************************************************************************)
(* What is reported of a model whose dates are in their order: the rounds   *)
(* over the variables and their values (VariablesAsDefined), what is burnt  *)
(* and emitted (EmissionsFollowTheFuel), and what is valid                  *)
(* (ValidWhenAllCope).                                                      *)
(***************************************************************************)
EXTENDS EnergyResultsProofs

(***************************************************************************)
(* The periods of a variable whose expressions are written in the order of  *)
(* their dates.                                                             *)
(***************************************************************************)
\* Dates in ascending order are their own sorted list.
LEMMA SortedAlready ==
  ASSUME NEW n \in Nat, NEW ts \in [1 .. n -> Int], \A i, j \in 1 .. n : i < j => ts[i] < ts[j],
         NEW S, S = {ts[i] : i \in 1 .. n}
  PROVE  SortedDates(S) = ts /\ S \in SUBSET Int /\ IsFiniteSet(S)
<1>1. \A i, j \in 1 .. n : ts[i] = ts[j] => i = j
  <2> SUFFICES ASSUME NEW i \in 1 .. n, NEW j \in 1 .. n, ts[i] = ts[j], i # j PROVE FALSE
    OBVIOUS
  <2>1. i < j \/ j < i
    OBVIOUS
  <2>2. ts[i] \in Int /\ ts[j] \in Int
    OBVIOUS
  <2> QED
    BY <2>1, <2>2
<1>2. ASSUME NEW m \in 0 .. n PROVE IsFiniteSet({ts[i] : i \in 1 .. m}) /\ Cardinality({ts[i] : i \in 1 .. m}) = m
  <2> DEFINE T == {ts[i] : i \in 1 .. m}
             f == [i \in 1 .. m |-> ts[i]]
  <2>1. m \in Nat /\ 1 .. m \subseteq 1 .. n
    OBVIOUS
  <2>2. f \in Bijection(1 .. m, T)
    <3>1. f \in [1 .. m -> T]
      OBVIOUS
    <3>2. \A i, j \in 1 .. m : f[i] = f[j] => i = j
      BY <1>1, <2>1
    <3>3. \A x \in T : \E i \in 1 .. m : f[i] = x
      OBVIOUS
    <3> HIDE DEF f, T
    <3> QED
      BY <3>1, <3>2, <3>3 DEF Bijection, Injection, Surjection, IsInjective
  <2>3. IsFiniteSet(1 .. m) /\ Cardinality(1 .. m) = m
    BY <2>1, FS_Interval
  <2> HIDE DEF f, T
  <2>4. IsFiniteSet(T) /\ Cardinality(T) = m
    <3>1. ExistsBijection(1 .. m, T)
      BY <2>2 DEF ExistsBijection
    <3> QED
      BY <2>3, <3>1, FS_Bijection
  <2> QED
    BY <2>4 DEF T
<1>3. S \in SUBSET Int /\ IsFiniteSet(S) /\ Cardinality(S) = n
  <2>1. n \in 0 .. n
    OBVIOUS
  <2>2. S \in SUBSET Int
    OBVIOUS
  <2> QED
    BY <1>2, <2>1, <2>2
<1>4. ASSUME NEW i \in 1 .. n PROVE Cardinality({e \in S : e < ts[i]}) = i - 1
  <2>1. i - 1 \in 0 .. n /\ 1 .. (i - 1) \subseteq 1 .. n
    OBVIOUS
  <2>2. \A j \in 1 .. n : ts[j] < ts[i] <=> j < i
    <3> SUFFICES ASSUME NEW j \in 1 .. n PROVE ts[j] < ts[i] <=> j < i
      OBVIOUS
    <3>1. j < i \/ j = i \/ i < j
      OBVIOUS
    <3>2. ts[i] \in Int /\ ts[j] \in Int
      OBVIOUS
    <3> QED
      BY <3>1, <3>2
  <2>3. {e \in S : e < ts[i]} = {ts[j] : j \in 1 .. (i - 1)}
    BY <2>1, <2>2
  <2> QED
    BY <1>2, <2>1, <2>3
<1>5. ASSUME NEW i \in 1 .. n PROVE (CHOOSE d \in S : Cardinality({e \in S : e < d}) = i - 1) = ts[i]
  <2>1. ts[i] \in S /\ Cardinality({e \in S : e < ts[i]}) = i - 1
    BY <1>4
  <2>2. ASSUME NEW d \in S, Cardinality({e \in S : e < d}) = i - 1 PROVE d = ts[i]
    <3>1. PICK j \in 1 .. n : d = ts[j]
      OBVIOUS
    <3>2. j - 1 = i - 1
      BY <1>4, <2>2, <3>1
    <3> QED
      BY <3>1, <3>2
  <2> QED
    BY <2>1, <2>2
<1>6. SortedDates(S) = [i \in 1 .. n |-> CHOOSE d \in S : Cardinality({e \in S : e < d}) = i - 1]
  BY <1>3 DEF SortedDates
<1> DEFINE Nth(i) == CHOOSE d \in S : Cardinality({e \in S : e < d}) = i - 1
<1>7. SortedDates(S) = [i \in 1 .. n |-> Nth(i)] /\ \A i \in 1 .. n : Nth(i) = ts[i]
  BY <1>5, <1>6
<1> HIDE DEF Nth
<1>8. SortedDates(S) = ts
  BY <1>7
<1> QED
  BY <1>3, <1>8

\* The periods of a variable last until the date of the next expression.
LEMMA PeriodsInOrder ==
  ASSUME NEW v, Ascending(v.entries)
  PROVE  /\ DOMAIN VariablePeriods(v) = DOMAIN v.entries
         /\ \A i \in DOMAIN v.entries : VariablePeriods(v)[i] = <<v.entries[i].date, Until(v.entries, i)>>
<1> DEFINE n == Len(v.entries)
           D == {e.date : e \in ToSet(v.entries)}
           ts == [i \in 1 .. n |-> v.entries[i].date]
           ps == [i \in 1 .. (n - 1) |-> <<ts[i], ts[i + 1]>>]
           last == <<<<Last(ts), DateMax>>>>
<1>1. DOMAIN v.entries = 1 .. n /\ n \in Nat /\ \A i \in 1 .. n : v.entries[i] \in ToSet(v.entries)
  BY ListDomain DEF Ascending
<1>2. ts \in [1 .. n -> Int] /\ \A i, j \in 1 .. n : i < j => ts[i] < ts[j]
  BY <1>1 DEF Ascending
<1>3. D = {ts[i] : i \in 1 .. n}
  BY <1>1 DEF ToSet
<1>4. SortedDates(D) = ts
  <2> HIDE DEF D, ts, n
  <2> QED
    BY <1>1, <1>2, <1>3, SortedAlready
<1>5. VariablePeriods(v) = CreatePeriods(ts, FALSE, TRUE)
  BY <1>4 DEF VariablePeriods
<1>6. ts \in Seq(Int) /\ Len(ts) = n
  <2> HIDE DEF ts, n
  <2>1. ts \in Seq(Int)
    BY <1>1, <1>2, SeqDef
  <2> QED
    BY <1>1, <1>2, <2>1, LenProperties
<1>7. CASE n = 0
  <2>1. ts = <<>>
    <3> HIDE DEF ts, n
    <3> QED
      BY <1>6, <1>7, EmptySeq
  <2>2. VariablePeriods(v) = <<>>
    <3> HIDE DEF ts
    <3> QED
      BY <1>5, <2>1 DEF CreatePeriods
  <2> QED
    BY <1>1, <1>7, <2>2
<1>8. CASE n # 0
  <2>1. VariablePeriods(v) = <<>> \o ps \o last
    <3>1. ts # <<>>
      <4> HIDE DEF ts, n
      <4> QED
        BY <1>6, <1>8
    <3> HIDE DEF ts
    <3> QED
      BY <1>5, <1>6, <3>1 DEF CreatePeriods
  <2>2. ps \in Seq(Int \X Int) /\ Len(ps) = n - 1
    <3> HIDE DEF ts, n
    <3>1. n - 1 \in Nat /\ \A i \in 1 .. (n - 1) : ts[i] \in Int /\ ts[i + 1] \in Int
      BY <1>1, <1>2, <1>8
    <3>2. ps \in [1 .. (n - 1) -> Int \X Int]
      BY <3>1
    <3> HIDE DEF ps
    <3>3. ps \in Seq(Int \X Int)
      BY <3>1, <3>2, SeqDef
    <3> QED
      BY <3>1, <3>2, <3>3, LenProperties
  <2>3. <<>> \o ps = ps
    <3> HIDE DEF ps
    <3> QED
      BY <2>2, ConcatEmptySeq
  <2>4. Last(ts) = ts[n]
    <3> HIDE DEF ts, n
    <3> QED
      BY <1>6 DEF Last
  <2>5. IsList(ps) /\ IsList(last) /\ Len(last) = 1 /\ last[1] = <<Last(ts), DateMax>>
    <3> HIDE DEF ps, ts, n
    <3>1. IsList(ps)
      BY <2>2, ListOf
    <3> QED
      BY <3>1, Single
  <2> DEFINE all == ps \o last
  <2>6. /\ DOMAIN all = 1 .. n
        /\ \A i \in 1 .. n - 1 : all[i] = ps[i]
        /\ all[n] = <<ts[n], DateMax>>
    <3> HIDE DEF ps, last, ts, n
    <3>1. /\ IsList(all) /\ Len(all) = n
          /\ \A i \in 1 .. n - 1 : all[i] = ps[i]
          /\ all[n] = last[1]
      <4>1. /\ IsList(all) /\ Len(all) = Len(ps) + Len(last)
            /\ \A k \in 1 .. Len(ps) : all[k] = ps[k]
            /\ \A k \in 1 .. Len(last) : all[Len(ps) + k] = last[k]
        <5>1. PICK s, t : s = ps /\ t = last
          OBVIOUS
        <5>2. IsList(s) /\ IsList(t) /\ all = s \o t
          BY <2>5, <5>1
        <5> HIDE DEF all
        <5> QED
          BY <5>1, <5>2, Joined
      <4> HIDE DEF all
      <4> QED
        BY <1>1, <2>2, <2>5, <4>1
    <3> HIDE DEF all
    <3> QED
      BY <2>4, <2>5, <3>1, ListDomain
  <2>7. VariablePeriods(v) = all
    BY <2>1, <2>3
  <2>8. \A i \in 1 .. n : all[i] = <<v.entries[i].date, Until(v.entries, i)>>
    <3> SUFFICES ASSUME NEW i \in 1 .. n PROVE all[i] = <<v.entries[i].date, Until(v.entries, i)>>
      OBVIOUS
    <3>1. CASE i = n
      <4>1. all[n] = <<ts[n], DateMax>> /\ Until(v.entries, n) = DateMax
        BY <2>6 DEF Until
      <4> HIDE DEF all
      <4> QED
        BY <3>1, <4>1
    <3>2. CASE i # n
      <4>1. i \in 1 .. n - 1 /\ i + 1 \in 1 .. n
        BY <1>1, <3>2
      <4>2. all[i] = <<ts[i], ts[i + 1]>>
        <5>1. all[i] = ps[i]
          BY <2>6, <4>1
        <5> HIDE DEF all
        <5> QED
          BY <4>1, <5>1
      <4>3. Until(v.entries, i) = v.entries[i + 1].date
        BY <3>2 DEF Until
      <4> HIDE DEF all
      <4> QED
        BY <4>1, <4>2, <4>3
    <3> QED
      BY <3>1, <3>2
  <2> HIDE DEF all
  <2> QED
    BY <1>1, <2>6, <2>7, <2>8
<1> QED
  BY <1>7, <1>8

\* In a period of the run the period of a variable that holds all of it is that of
\* the entry in force.
LEMMA HeldInForce ==
  ASSUME NEW v, Ascending(v.entries), NEW ts, NEW n, Between(periods, ts, n), ts[n + 1] <= DateMax,
         DatedOn(v.entries, ts, n), NEW t \in 1 .. n
  PROVE  HoldingPeriod(VariablePeriods(v), periods[t]) = {i \in DOMAIN v.entries : InForceAtDate(v.entries, i, ts[t])}
<1> DEFINE p == periods[t]
           ps == VariablePeriods(v)
           s == ts[t]
           u == ts[t + 1]
<1>1. /\ n \in Nat /\ ts \in [1 .. n + 1 -> Int] /\ \A i, j \in 1 .. n + 1 : i < j => ts[i] < ts[j]
      /\ p = <<s, u>>
  BY DEF Between
<1>2. s \in Int /\ u \in Int /\ s < u /\ ts[n + 1] \in Int /\ u <= ts[n + 1] /\ ts[1] \in Int /\ ts[1] <= s
  <2>1. t \in 1 .. n + 1 /\ t + 1 \in 1 .. n + 1 /\ n + 1 \in 1 .. n + 1 /\ 1 \in 1 .. n + 1 /\ t < t + 1
    BY <1>1
  <2>2. (t + 1 = n + 1 \/ t + 1 < n + 1) /\ (1 = t \/ 1 < t)
    BY <1>1
  <2> QED
    BY <1>1, <2>1, <2>2
<1>3. DateMax \in Int /\ u <= DateMax
  <2>1. DateMax \in Int
    BY DatesAssumption
  <2> QED
    BY <1>2, <2>1
<1>4. /\ DOMAIN ps = DOMAIN v.entries
      /\ \A i \in DOMAIN v.entries : ps[i] = <<v.entries[i].date, Until(v.entries, i)>>
  BY PeriodsInOrder
<1>5. \A i \in DOMAIN v.entries : /\ v.entries[i].date \in Int /\ DateMin <= v.entries[i].date
                                  /\ Until(v.entries, i) \in Int /\ v.entries[i].date < Until(v.entries, i)
                                  /\ (Until(v.entries, i) = DateMax \/ (i + 1 \in DOMAIN v.entries /\ Until(v.entries, i) = v.entries[i + 1].date))
  BY UntilNext DEF Ascending
<1>6. ASSUME NEW i \in DOMAIN v.entries, InForceAtDate(v.entries, i, s) PROVE u <= Until(v.entries, i)
  <2>1. CASE Until(v.entries, i) = DateMax
    BY <1>3, <2>1
  <2>2. CASE i + 1 \in DOMAIN v.entries /\ Until(v.entries, i) = v.entries[i + 1].date
    <3> DEFINE d == v.entries[i + 1].date
    <3>1. d \in Int /\ s < d /\ d # DateMin
      <4>1. v.entries[i].date < d /\ s < d /\ v.entries[i].date <= s
        BY <1>5, <1>6, <2>2 DEF InForceAtDate
      <4>2. v.entries[i].date \in Int /\ DateMin <= v.entries[i].date /\ d \in Int
        BY <1>5, <2>2
      <4>3. DateMin \in Int
        BY DatesAssumption
      <4> HIDE DEF d
      <4> QED
        BY <4>1, <4>2, <4>3
    <3>2. CASE d <= ts[n + 1]
      <4>1. PICK k \in 1 .. n + 1 : ts[k] = d
        <5>1. ts[1] <= d
          <6> HIDE DEF d, s
          <6> QED
            BY <1>2, <3>1
        <5> QED
          BY <2>2, <3>1, <3>2, <5>1 DEF DatedOn
      <4>2. ~(k < t) /\ k # t
        <5>1. t \in 1 .. n + 1
          BY <1>1
        <5>2. k < t => ts[k] < ts[t]
          BY <1>1, <5>1
        <5> HIDE DEF d
        <5> QED
          BY <1>2, <3>1, <4>1, <5>2
      <4>3. k = t + 1 \/ t + 1 < k
        BY <1>1, <4>2
      <4>4. t + 1 \in 1 .. n + 1
        BY <1>1
      <4>5. u <= ts[k]
        BY <1>1, <1>2, <4>3, <4>4
      <4> QED
        BY <2>2, <4>1, <4>5
    <3>3. CASE ~(d <= ts[n + 1])
      <4> HIDE DEF d, u
      <4>1. u <= d
        BY <1>2, <3>1, <3>3
      <4> QED
        BY <2>2, <4>1 DEF d
    <3> QED
      BY <3>2, <3>3
  <2> QED
    BY <1>5, <2>1, <2>2
<1>7. ASSUME NEW i \in DOMAIN v.entries PROVE ContainsPeriod(ps[i], p) <=> InForceAtDate(v.entries, i, s)
  <2>1. ContainsPeriod(ps[i], p) <=> v.entries[i].date <= s /\ s < u /\ u <= Until(v.entries, i)
    BY <1>1, <1>4 DEF ContainsPeriod, Start, End
  <2>2. v.entries[i].date \in Int /\ Until(v.entries, i) \in Int
    BY <1>5
  <2> HIDE DEF s, u, p, ps
  <2> QED
    BY <1>2, <1>6, <2>1, <2>2 DEF InForceAtDate
<1>8. \A i, j \in DOMAIN v.entries : InForceAtDate(v.entries, i, s) /\ InForceAtDate(v.entries, j, s) => i = j
  BY InForceHolds
<1>9. DOMAIN v.entries = 1 .. Len(v.entries) /\ Len(v.entries) \in Nat
  BY ListDomain DEF Ascending
<1> HIDE DEF s, p, ps
<1>10. HoldingPeriod(ps, p) = {i \in DOMAIN v.entries : InForceAtDate(v.entries, i, s)}
  <2>1. HoldingPeriod(ps, p) = {i \in DOMAIN v.entries : /\ InForceAtDate(v.entries, i, s)
                                                         /\ \A j \in 1 .. (i - 1) : ~InForceAtDate(v.entries, j, s)}
    <3>1. \A i \in DOMAIN v.entries : \A j \in 1 .. (i - 1) : j \in DOMAIN v.entries
      BY <1>9
    <3> QED
      BY <1>4, <1>7, <3>1 DEF HoldingPeriod
  <2>2. \A i \in DOMAIN v.entries : \A j \in 1 .. (i - 1) : j \in DOMAIN v.entries /\ j # i
    BY <1>9
  <2> QED
    BY <1>8, <2>1, <2>2
<1> QED
  BY <1>10 DEF s, p, ps

\* Every period has the value of the expression in force in it.
LEMMA ProcessedInForce ==
  ASSUME NEW v, Ascending(v.entries), NEW ts, NEW n, Between(periods, ts, n), ts[n + 1] <= DateMax,
         DatedOn(v.entries, ts, n), NEW t \in 1 .. n, NEW values,
         \A i \in DOMAIN v.entries : Evaluated(v.entries[i].value, values, t) \in Int
  PROVE  Processed(v, values)[t] = SumFunction([e \in InForce(v.entries, t) |-> Evaluated(e.value, values, t)])
<1> DEFINE s == ts[t]
           I == {i \in DOMAIN v.entries : InForceAtDate(v.entries, i, s)}
           f == [i \in I |-> Evaluated(v.entries[i].value, values, t)]
           g == [e \in InForce(v.entries, t) |-> Evaluated(e.value, values, t)]
<1>1. t \in DOMAIN periods
  BY AllBetween
<1>2. HoldingPeriod(VariablePeriods(v), periods[t]) = I
  BY HeldInForce
<1>3. Processed(v, values)[t] = SumFunction(f)
  BY <1>1, <1>2 DEF Processed
<1>4. /\ InForce(v.entries, t) = {v.entries[i] : i \in I}
      /\ \A i, j \in DOMAIN v.entries : InForceAtDate(v.entries, i, s) /\ InForceAtDate(v.entries, j, s) => i = j
  <2>1. PICK entries : entries = v.entries
    OBVIOUS
  <2>2. Ascending(entries)
    BY <2>1
  <2> QED
    BY <2>1, <2>2, InForceHolds
<1>5. CASE I = {}
  <2>1. InForce(v.entries, t) = {}
    <3> HIDE DEF I
    <3> QED
      BY <1>4, <1>5
  <2>2. DOMAIN f = {} /\ DOMAIN g = {}
    BY <1>5, <2>1
  <2> HIDE DEF f, g
  <2> QED
    BY <1>3, <2>2, SumNone DEF g
<1>6. CASE I # {}
  <2>1. PICK i : i \in I
    BY <1>6
  <2>2. I = {i}
    BY <1>4, <2>1
  <2>3. i \in DOMAIN v.entries
    BY <2>1
  <2>4. InForce(v.entries, t) = {v.entries[i]}
    <3> HIDE DEF I
    <3> QED
      BY <1>4, <2>2
  <2> HIDE DEF I
  <2>5. DOMAIN f = {i} /\ f[i] = Evaluated(v.entries[i].value, values, t)
    BY <2>2
  <2>6. DOMAIN g = {v.entries[i]} /\ g[v.entries[i]] = Evaluated(v.entries[i].value, values, t)
    BY <2>4
  <2>7. Evaluated(v.entries[i].value, values, t) \in Int
    BY <2>3
  <2> HIDE DEF f, g
  <2>8. SumFunction(f) = f[i]
    BY <2>5, <2>7, SumSingle
  <2>9. SumFunction(g) = g[v.entries[i]]
    <3>1. PICK e : e = v.entries[i]
      OBVIOUS
    <3>2. DOMAIN g = {e} /\ g[e] \in Int
      BY <2>6, <2>7, <3>1
    <3> QED
      BY <3>1, <3>2, SumSingle
  <2> QED
    BY <1>3, <2>5, <2>6, <2>8, <2>9 DEF g
<1> QED
  BY <1>5, <1>6

(***************************************************************************)
(* The rounds over the variables.                                           *)
(***************************************************************************)
\* What a variable is processed to depends on what it requires.
LEMMA SameProcessed ==
  ASSUME NEW v, IsList(v.entries), \A e \in ToSet(v.entries) : e.date \in Int,
         NEW values, NEW others, \A n \in Required(v) : values[n] = others[n]
  PROVE  Processed(v, values) = Processed(v, others)
<1> DEFINE H(i) == HoldingPeriod(VariablePeriods(v), periods[i])
<1>1. ASSUME NEW i \in DOMAIN periods, NEW k \in H(i)
      PROVE  Evaluated(v.entries[k].value, values, i) = Evaluated(v.entries[k].value, others, i)
  <2>1. k \in DOMAIN VariablePeriods(v)
    BY DEF HoldingPeriod
  <2>2. DOMAIN VariablePeriods(v) \in SUBSET (1 .. Len(v.entries))
    BY PeriodsOfVariable
  <2>3. v.entries[k] \in ToSet(v.entries)
    BY <2>1, <2>2, ListDomain
  <2>4. PICK x : x = v.entries[k].value
    OBVIOUS
  <2>5. \A n \in x.uses : values[n] = others[n]
    BY <2>3, <2>4 DEF Required
  <2>6. [n \in x.uses |-> values[n][i]] = [n \in x.uses |-> others[n][i]]
    BY <2>5
  <2>7. Evaluated(x, values, i) = Evaluated(x, others, i)
    BY <2>6 DEF Evaluated
  <2> QED
    BY <2>4, <2>7
<1>2. ASSUME NEW i \in DOMAIN periods
      PROVE  SumFunction([k \in H(i) |-> Evaluated(v.entries[k].value, values, i)])
               = SumFunction([k \in H(i) |-> Evaluated(v.entries[k].value, others, i)])
  <2>1. [k \in H(i) |-> Evaluated(v.entries[k].value, values, i)] = [k \in H(i) |-> Evaluated(v.entries[k].value, others, i)]
    <3> HIDE DEF H
    <3> QED
      BY <1>1
  <2> QED
    BY <2>1
<1>3. /\ Processed(v, values) = [i \in DOMAIN periods |-> SumFunction([k \in H(i) |-> Evaluated(v.entries[k].value, values, i)])]
      /\ Processed(v, others) = [i \in DOMAIN periods |-> SumFunction([k \in H(i) |-> Evaluated(v.entries[k].value, others, i)])]
  BY DEF Processed
<1> DEFINE One(i) == SumFunction([k \in H(i) |-> Evaluated(v.entries[k].value, values, i)])
           Other(i) == SumFunction([k \in H(i) |-> Evaluated(v.entries[k].value, others, i)])
<1>4. /\ Processed(v, values) = [i \in DOMAIN periods |-> One(i)] /\ Processed(v, others) = [i \in DOMAIN periods |-> Other(i)]
      /\ \A i \in DOMAIN periods : One(i) = Other(i)
  BY <1>2, <1>3
<1> HIDE DEF One, Other
<1> QED
  BY <1>4

\* The members of a list without one of its places are members of the list elsewhere.
LEMMA RemovedPlaces ==
  ASSUME NEW s, IsList(s), NEW i \in 1 .. Len(s)
  PROVE  LET r == RemoveAt(s, i)
         IN  /\ \A k \in DOMAIN r : \E j \in 1 .. Len(s) : j # i /\ r[k] = s[j]
             /\ (\A j, k \in DOMAIN s : s[j].name = s[k].name => j = k)
                  => \A j, k \in DOMAIN r : r[j].name = r[k].name => j = k
<1> DEFINE A == ToSet(s)
           n == Len(s)
           before == SubSeq(s, 1, i - 1)
           behind == SubSeq(s, i + 1, n)
           r == before \o behind
<1>1. n \in Nat /\ (\A k \in 1 .. n : s[k] \in A) /\ DOMAIN s = 1 .. n
  BY ListDomain
<1> HIDE DEF A, n
<1>2. i \in 1 .. n
  BY DEF n
<1>3. /\ before \in Seq(A) /\ Len(before) = i - 1
      /\ \A k \in 1 .. i - 1 : before[k] = s[k]
  <2>1. 1 \in Int /\ i - 1 \in Int /\ \A k \in 1 .. i - 1 : s[k] \in A
    BY <1>1, <1>2
  <2>2. /\ before \in Seq(A) /\ Len(before) = IF 1 <= i - 1 THEN (i - 1) - 1 + 1 ELSE 0
        /\ \A k \in 1 .. (i - 1) - 1 + 1 : before[k] = s[1 + k - 1]
    BY <2>1, SubSeqProperties
  <2> HIDE DEF before
  <2> QED
    BY <1>1, <1>2, <2>2
<1>4. /\ behind \in Seq(A) /\ Len(behind) = n - i
      /\ \A k \in 1 .. n - i : behind[k] = s[i + k]
  <2>1. n \in Int /\ i + 1 \in Int /\ \A k \in i + 1 .. n : s[k] \in A
    BY <1>1, <1>2
  <2>2. /\ behind \in Seq(A) /\ Len(behind) = IF i + 1 <= n THEN n - (i + 1) + 1 ELSE 0
        /\ \A k \in 1 .. n - (i + 1) + 1 : behind[k] = s[i + 1 + k - 1]
    BY <2>1, SubSeqProperties
  <2> HIDE DEF behind
  <2>3. n - (i + 1) + 1 = n - i /\ Len(behind) = n - i
    BY <1>1, <1>2, <2>2
  <2>4. \A k \in 1 .. n - i : behind[k] = s[i + 1 + k - 1] /\ i + 1 + k - 1 = i + k
    BY <1>1, <1>2, <2>2, <2>3
  <2> QED
    BY <2>2, <2>3, <2>4
<1>5. RemoveAt(s, i) = r
  BY DEF RemoveAt, n
<1> HIDE DEF before, behind
<1>6. /\ IsList(before) /\ IsList(behind)
  BY <1>3, <1>4, ListOf
<1>7. /\ IsList(r) /\ Len(r) = Len(before) + Len(behind)
      /\ \A k \in 1 .. Len(before) : r[k] = before[k]
      /\ \A k \in 1 .. Len(behind) : r[Len(before) + k] = behind[k]
  BY <1>6, Joined
<1> HIDE DEF r
<1> DEFINE From(k) == IF k < i THEN k ELSE k + 1
<1>8. DOMAIN r = 1 .. n - 1
  BY <1>1, <1>2, <1>3, <1>4, <1>7, ListDomain
<1>9. ASSUME NEW k \in 1 .. n - 1
      PROVE  From(k) \in 1 .. n /\ From(k) # i /\ r[k] = s[From(k)]
  <2>1. CASE k < i
    <3>1. k \in 1 .. Len(before) /\ k \in 1 .. i - 1
      BY <1>1, <1>2, <1>3, <2>1
    <3> QED
      BY <1>1, <1>2, <1>3, <1>7, <2>1, <3>1
  <2>2. CASE ~(k < i)
    <3> DEFINE m == k - (i - 1)
    <3>1. m \in 1 .. n - i /\ (i - 1) + m = k /\ i + m = k + 1
      BY <1>1, <1>2, <2>2
    <3> HIDE DEF m
    <3>2. r[k] = behind[m] /\ behind[m] = s[k + 1]
      BY <1>3, <1>4, <1>7, <3>1
    <3> QED
      BY <1>1, <1>2, <2>2, <3>2
  <2> QED
    BY <2>1, <2>2
<1>10. \A j, k \in 1 .. n - 1 : From(j) = From(k) => j = k
  BY <1>1, <1>2
<1> HIDE DEF From
<1>11. \A k \in DOMAIN r : \E j \in 1 .. n : j # i /\ r[k] = s[j]
  BY <1>8, <1>9
<1>12. ASSUME \A j, k \in DOMAIN s : s[j].name = s[k].name => j = k
       PROVE  \A j, k \in DOMAIN r : r[j].name = r[k].name => j = k
  BY <1>1, <1>8, <1>9, <1>10, <1>12
<1> QED
  BY <1>5, <1>11, <1>12 DEF n

\* What is known of the variables of the last run that was begun: what is resolved has
\* the value of its expressions, and a round that resolved nothing has seen nothing
\* that could be.
RoundsKept ==
  periods # <<>> =>
    /\ IsTyped(yaml) /\ RunDates # {} /\ periods = PeriodsOn(RunDates)
    /\ \A n \in DOMAIN processed : processed[n] \in [DOMAIN periods -> Int]
    /\ IsList(unresolved) /\ ToSet(unresolved) \subseteq ToSet(yaml.variables)
    /\ \A j, k \in DOMAIN unresolved : unresolved[j].name = unresolved[k].name => j = k
    /\ \A k \in DOMAIN unresolved : unresolved[k].name \notin DOMAIN processed
    /\ \A v \in ToSet(yaml.variables) : v.name \in DOMAIN processed =>
         Required(v) \subseteq DOMAIN processed /\ processed[v.name] = Processed(v, processed)
    /\ cursor \in Nat \ {0}
    /\ \A k \in DOMAIN unresolved : activity # "variables" \/ (~progressed /\ k < cursor) =>
         ~(Required(unresolved[k]) \subseteq DOMAIN processed)

LEMMA RoundsElse ==
  ASSUME RoundsKept, UNCHANGED <<yaml, variablesVars>>, activity' = "variables" => activity = "variables",
         activity = "variables" /\ activity' # "variables" => RoundEnded /\ ~Continues
  PROVE  RoundsKept'
<1>1. RunDates' = RunDates /\ IsTyped(yaml)' = IsTyped(yaml)
  BY DEF RunDates
<1>2. UNCHANGED <<periods, unresolved, processed, cursor, progressed, yaml>>
  BY DEF variablesVars
<1>3. SUFFICES ASSUME periods # <<>> PROVE RoundsKept'
  BY <1>2 DEF RoundsKept
<1>4. ASSUME NEW k \in DOMAIN unresolved, activity' # "variables" \/ (~progressed /\ k < cursor)
      PROVE  ~(Required(unresolved[k]) \subseteq DOMAIN processed)
  <2>1. CASE activity # "variables" \/ (~progressed /\ k < cursor)
    BY <1>3, <2>1 DEF RoundsKept
  <2>2. CASE activity = "variables" /\ activity' # "variables"
    <3>1. cursor > Len(unresolved) /\ (unresolved = <<>> \/ ~progressed)
      BY <2>2 DEF RoundEnded, Continues
    <3>2. k \in 1 .. Len(unresolved) /\ Len(unresolved) \in Nat /\ cursor \in Nat
      BY <1>3, ListDomain DEF RoundsKept
    <3>3. unresolved # <<>>
      OBVIOUS
    <3> QED
      BY <1>3, <3>1, <3>2, <3>3 DEF RoundsKept
  <2> QED
    BY <1>4, <2>1, <2>2
<1>5. ASSUME NEW v \in ToSet(yaml.variables) PROVE Processed(v, processed)' = Processed(v, processed)
  BY <1>2 DEF Processed
<1> QED
  BY <1>1, <1>2, <1>3, <1>4, <1>5 DEF RoundsKept

LEMMA RoundsStart ==
  ASSUME Schema, EnergyInv, VariablesTyped, RoundsKept, Check
  PROVE  RoundsKept'
<1>1. activity = "checking" /\ ~is_validated /\ is_validated' = is_validated /\ yaml' = yaml
  BY DEF Check, EnergyInv, Stages, GoOn, Return, mapVars
<1>2. CASE activity' # "variables"
  <2>1. UNCHANGED <<yaml, variablesVars>>
    BY <1>1, <1>2 DEF Check, GoOn
  <2> QED
    BY <1>1, <1>2, <2>1, RoundsElse
<1>3. CASE activity' = "variables"
  <2>1. \E ps : StartVariables(yaml.variables, yaml.series, ps)
    BY <1>3 DEF Check, Return
  <2>2. PICK ps : /\ periods' = ps /\ processed' = FittedSeries(yaml.series, ps)
                  /\ unresolved' = yaml.variables /\ cursor' = 1 /\ progressed' = FALSE
    BY <2>1 DEF StartVariables
  <2>3. VariablesTyped'
    BY TypedStart
  <2>4. /\ IsTyped(yaml)' /\ RunDates' # {} /\ periods' = PeriodsOn(RunDates')
        /\ \A n \in DOMAIN processed' : processed'[n] \in [DOMAIN periods' -> Int]
        /\ IsList(unresolved') /\ ToSet(unresolved') \subseteq ToSet(yaml'.variables)
    BY <1>3, <2>3 DEF VariablesTyped
  <2>5. DOMAIN processed' = {s.name : s \in yaml.series}
    BY <2>2 DEF FittedSeries
  <2>6. /\ \A v \in ToSet(yaml.variables) : v.name \notin DOMAIN processed'
        /\ \A j, k \in DOMAIN unresolved' : unresolved'[j].name = unresolved'[k].name => j = k
        /\ DOMAIN unresolved' = 1 .. Len(unresolved') /\ \A k \in DOMAIN unresolved' : unresolved'[k] \in ToSet(yaml.variables)
    <3>1. IsTyped(yaml)
      BY <1>1, <2>4
    <3>2. /\ \A j, k \in DOMAIN yaml.variables : yaml.variables[j].name = yaml.variables[k].name => j = k
          /\ \A v \in ToSet(yaml.variables) : \A s \in yaml.series : s.name # v.name
          /\ IsList(yaml.variables)
      BY <3>1 DEF IsTyped
    <3> QED
      BY <2>2, <2>5, <3>2, ListDomain
  <2>7. \A k \in DOMAIN unresolved' : ~(k < cursor')
    BY <2>2, <2>6
  <2> QED
    BY <1>1, <1>3, <2>2, <2>4, <2>6, <2>7 DEF RoundsKept
<1> QED
  BY <1>2, <1>3

LEMMA RoundsVisit ==
  ASSUME EnergyInv, RoundsKept, ResolveVariables
  PROVE  RoundsKept'
<1>1. activity = "variables" /\ UNCHANGED <<yaml, activity, periods>>
  BY DEF ResolveVariables, VisitVariable, NextRound
<1>2. RunDates' = RunDates /\ IsTyped(yaml)' = IsTyped(yaml)
  BY <1>1 DEF RunDates
<1>3. SUFFICES ASSUME periods # <<>> PROVE RoundsKept'
  BY <1>1 DEF RoundsKept
<1>4. /\ IsTyped(yaml) /\ RunDates # {} /\ periods = PeriodsOn(RunDates)
      /\ \A n \in DOMAIN processed : processed[n] \in [DOMAIN periods -> Int]
      /\ IsList(unresolved) /\ ToSet(unresolved) \subseteq ToSet(yaml.variables)
      /\ \A j, k \in DOMAIN unresolved : unresolved[j].name = unresolved[k].name => j = k
      /\ \A k \in DOMAIN unresolved : unresolved[k].name \notin DOMAIN processed
      /\ \A v \in ToSet(yaml.variables) : v.name \in DOMAIN processed =>
           Required(v) \subseteq DOMAIN processed /\ processed[v.name] = Processed(v, processed)
      /\ cursor \in Nat \ {0}
      /\ \A k \in DOMAIN unresolved : ~progressed /\ k < cursor => ~(Required(unresolved[k]) \subseteq DOMAIN processed)
  BY <1>1, <1>3 DEF RoundsKept
<1>5. DOMAIN unresolved = 1 .. Len(unresolved) /\ Len(unresolved) \in Nat
  BY <1>4, ListDomain
<1>6. ASSUME NEW v, NEW values PROVE Processed(v, values)' = Processed(v, values')
  BY <1>1 DEF Processed
<1>7. CASE /\ unresolved' = unresolved /\ processed' = processed /\ cursor' \in Nat \ {0}
           /\ \A k \in DOMAIN unresolved : ~progressed' /\ k < cursor' => ~(Required(unresolved[k]) \subseteq DOMAIN processed)
  <2>1. ASSUME NEW v \in ToSet(yaml.variables) PROVE Processed(v, processed)' = Processed(v, processed)
    BY <1>1, <1>7 DEF Processed
  <2> QED
    BY <1>1, <1>2, <1>4, <1>7, <2>1 DEF RoundsKept
<1>8. CASE VisitVariable /\ Required(unresolved[cursor]) \subseteq DOMAIN processed
  <2>1. cursor \in 1 .. Len(unresolved)
    BY <1>4, <1>5, <1>8 DEF VisitVariable
  <2>2. PICK v : v = unresolved[cursor]
    OBVIOUS
  <2>3. v \in ToSet(yaml.variables) /\ v.name \notin DOMAIN processed /\ Required(v) \subseteq DOMAIN processed
    BY <1>4, <1>5, <1>8, <2>1, <2>2, ListDomain
  <2>4. /\ processed' = [n \in DOMAIN processed \cup {v.name} |->
                          IF n = v.name THEN Processed(v, processed) ELSE processed[n]]
        /\ unresolved' = RemoveAt(unresolved, cursor) /\ cursor' = cursor + 1 /\ progressed' = TRUE
    BY <1>8, <2>2 DEF VisitVariable
  <2>5. \A w \in ToSet(yaml.variables) :
          IsList(w.entries) /\ \A e \in ToSet(w.entries) : e.date \in Int /\ e.value.plus \in Int /\ IsFiniteSet(e.value.uses)
    BY <1>4 DEF IsTyped, IsDated
  <2>6. Processed(v, processed) \in [DOMAIN periods -> Int]
    BY <1>4, <2>3, <2>5, ProcessedTyped
  <2>7. /\ DOMAIN processed' = DOMAIN processed \cup {v.name}
        /\ \A n \in DOMAIN processed' : processed'[n] \in [DOMAIN periods -> Int]
        /\ processed'[v.name] = Processed(v, processed)
        /\ \A n \in DOMAIN processed : processed'[n] = processed[n]
    BY <1>4, <2>3, <2>4, <2>6
  <2>8. ASSUME NEW w \in ToSet(yaml.variables), w.name \in DOMAIN processed'
        PROVE  Required(w) \subseteq DOMAIN processed' /\ processed'[w.name] = Processed(w, processed)'
    <3>1. ASSUME Required(w) \subseteq DOMAIN processed PROVE Processed(w, processed)' = Processed(w, processed)
      <4>1. PICK later : later = processed'
        OBVIOUS
      <4>2. \A n \in Required(w) : processed[n] = later[n]
        BY <2>7, <3>1, <4>1
      <4>3. Processed(w, processed) = Processed(w, later)
        BY <2>5, <4>2, SameProcessed
      <4>4. Processed(w, processed)' = Processed(w, later)
        BY <1>1, <4>1 DEF Processed
      <4> QED
        BY <4>3, <4>4
    <3>2. CASE w.name = v.name
      <4>1. w = v
        BY <1>4, <2>3, <3>2 DEF IsTyped, ToSet
      <4> QED
        BY <2>3, <2>7, <3>1, <4>1
    <3>3. CASE w.name # v.name
      <4>1. w.name \in DOMAIN processed
        BY <2>7, <2>8, <3>3
      <4> QED
        BY <1>4, <2>7, <3>1, <4>1
    <3> QED
      BY <3>2, <3>3
  <2>9. PICK s, i : s = unresolved /\ i = cursor
    OBVIOUS
  <2>10. /\ IsList(RemoveAt(s, i)) /\ ToSet(RemoveAt(s, i)) \subseteq ToSet(s)
         /\ \A k \in DOMAIN RemoveAt(s, i) : \E j \in 1 .. Len(s) : j # i /\ RemoveAt(s, i)[k] = s[j]
         /\ \A j, k \in DOMAIN RemoveAt(s, i) : RemoveAt(s, i)[j].name = RemoveAt(s, i)[k].name => j = k
    <3>1. IsList(s) /\ i \in 1 .. Len(s) /\ \A j, k \in DOMAIN s : s[j].name = s[k].name => j = k
      BY <1>4, <2>1, <2>9
    <3> QED
      BY <3>1, Removed, RemovedPlaces
  <2>11. /\ IsList(unresolved') /\ ToSet(unresolved') \subseteq ToSet(yaml.variables)
         /\ \A j, k \in DOMAIN unresolved' : unresolved'[j].name = unresolved'[k].name => j = k
         /\ \A k \in DOMAIN unresolved' : \E j \in DOMAIN unresolved : j # cursor /\ unresolved'[k] = unresolved[j]
    BY <1>4, <1>5, <2>4, <2>9, <2>10
  <2>12. \A k \in DOMAIN unresolved' : unresolved'[k].name \notin DOMAIN processed'
    <3>1. \A j \in DOMAIN unresolved : j # cursor => unresolved[j].name # v.name
      BY <1>4, <1>5, <2>1, <2>2
    <3> QED
      BY <1>4, <2>7, <2>11, <3>1
  <2>13. cursor' \in Nat \ {0}
    BY <1>4, <2>4
  <2> QED
    BY <1>1, <1>2, <1>4, <2>4, <2>7, <2>8, <2>11, <2>12, <2>13 DEF RoundsKept
<1>9. CASE VisitVariable /\ ~(Required(unresolved[cursor]) \subseteq DOMAIN processed)
  <2>1. unresolved' = unresolved /\ processed' = processed /\ progressed' = progressed /\ cursor' = cursor + 1
    BY <1>9 DEF VisitVariable
  <2>2. \A k \in DOMAIN unresolved : k < cursor' => k < cursor \/ k = cursor
    BY <1>4, <1>5, <2>1
  <2> QED
    BY <1>4, <1>7, <1>9, <2>1, <2>2
<1>10. CASE NextRound
  <2>1. unresolved' = unresolved /\ processed' = processed /\ cursor' = 1
    BY <1>10 DEF NextRound
  <2>2. \A k \in DOMAIN unresolved : ~(k < cursor')
    BY <1>5, <2>1
  <2> QED
    BY <1>7, <2>1, <2>2
<1>11. VisitVariable \/ NextRound
  BY DEF ResolveVariables
<1> QED
  BY <1>8, <1>9, <1>10, <1>11

LEMMA RoundsKeep ==
  ASSUME Schema, EnergyInv, VariablesTyped, RoundsKept, NextEnergyModel
  PROVE  RoundsKept'
<1>1. ASSUME NEW c \in {VALIDATE, EVALUATE, REPORT}, Call(c) PROVE RoundsKept'
  <2>1. UNCHANGED <<yaml, variablesVars>> /\ activity' # "variables" /\ activity = "idle"
    BY <1>1 DEF Call, AfterValidation
  <2> QED
    BY <2>1, RoundsElse
<1>2. CASE MapStep \/ EndMapping \/ Build \/ Simulate \/ EvaluateConsumer \/ EvaluateGeneratorSet \/ PassOver
             \/ EndEvaluation \/ Report
  <2>1. /\ UNCHANGED <<yaml, variablesVars>> /\ activity # "variables"
        /\ activity' # "variables"
    BY <1>2 DEF MapStep, EndMapping, Build, Simulate, EvaluateConsumer, EvaluateGeneratorSet, PassOver, EndEvaluation, Report,
       GoOn, Return, AfterValidation
  <2> QED
    BY <2>1, RoundsElse
<1>3. CASE EndVariables
  <2>1. UNCHANGED <<yaml, variablesVars>> /\ activity' # "variables" /\ RoundEnded /\ ~Continues
    BY <1>3 DEF EndVariables, GoOn, Return
  <2> QED
    BY <2>1, RoundsElse
<1> QED
  BY <1>1, <1>2, <1>3, RoundsStart, RoundsVisit DEF NextEnergyModel

\* The expressions of every variable are written in the order of their dates.
VariablesInOrder(model) == \A v \in ToSet(model.variables) : InOrderOfDates(v.entries)

LEMMA VariablesHold ==
  ASSUME RoundsKept, VariablesInOrder(yaml)
  PROVE  VariablesAsDefined
<1>1. SUFFICES ASSUME activity \notin {"checking", "variables"}, periods # <<>>
               PROVE  /\ \A k \in DOMAIN unresolved : ~(Required(unresolved[k]) \subseteq DOMAIN processed)
                      /\ \A v \in ToSet(yaml.variables) : v.name \in DOMAIN processed =>
                           \A t \in DOMAIN periods :
                             processed[v.name][t] =
                               SumFunction([e \in InForce(v.entries, t) |-> Evaluated(e.value, processed, t)])
  BY DEF VariablesAsDefined
<1>2. \A k \in DOMAIN unresolved : ~(Required(unresolved[k]) \subseteq DOMAIN processed)
  BY <1>1 DEF RoundsKept
<1>3. /\ IsTyped(yaml) /\ RunDates # {} /\ periods = PeriodsOn(RunDates)
      /\ \A n \in DOMAIN processed : processed[n] \in [DOMAIN periods -> Int]
  BY <1>1 DEF RoundsKept
<1>4. PICK n, ts : /\ Between(periods, ts, n) /\ ts[n + 1] <= DateMax
                   /\ \A d \in DateKeys(yaml) : ts[1] <= d /\ d <= ts[n + 1] => \E k \in 1 .. n + 1 : ts[k] = d
  BY <1>3, RunTimeline
<1>5. ASSUME NEW v \in ToSet(yaml.variables), v.name \in DOMAIN processed, NEW t \in DOMAIN periods
      PROVE  processed[v.name][t] = SumFunction([e \in InForce(v.entries, t) |-> Evaluated(e.value, processed, t)])
  <2>1. t \in 1 .. n
    BY <1>4, AllBetween
  <2>2. IsDated(v.entries) /\ \A e \in ToSet(v.entries) : e.value.plus \in Int /\ IsFiniteSet(e.value.uses)
    BY <1>3 DEF IsTyped
  <2>3. IsList(v.entries) /\ \A i \in DOMAIN v.entries : v.entries[i] \in ToSet(v.entries)
    BY <2>2, ListDomain DEF IsDated
  <2>4. Ascending(v.entries)
    BY <2>2, <2>3 DEF Ascending, IsDated, VariablesInOrder, InOrderOfDates
  <2>5. DatedOn(v.entries, ts, n)
    <3>1. DatesOf(v.entries) \subseteq DateKeys(yaml)
      BY AllDated
    <3>2. \A i \in DOMAIN v.entries : v.entries[i].date # DateMin => v.entries[i].date \in DateKeys(yaml)
      BY <2>3, <3>1 DEF DatesOf
    <3> QED
      BY <1>4, <3>2 DEF DatedOn
  <2>6. Required(v) \subseteq DOMAIN processed /\ processed[v.name] = Processed(v, processed)
    BY <1>1, <1>5 DEF RoundsKept
  <2>7. PICK values : values = processed
    OBVIOUS
  <2>8. ASSUME NEW i \in DOMAIN v.entries PROVE Evaluated(v.entries[i].value, values, t) \in Int
    <3>1. PICK x : x = v.entries[i].value
      OBVIOUS
    <3>2. x.plus \in Int /\ IsFiniteSet(x.uses) /\ x.uses \subseteq DOMAIN processed
      BY <2>2, <2>3, <2>6, <3>1 DEF Required
    <3>3. \A m \in x.uses : values[m][t] \in Int
      BY <1>3, <2>7, <3>2
    <3> QED
      BY <3>1, <3>2, <3>3, EvaluatedInt
  <2>9. Processed(v, values)[t] = SumFunction([e \in InForce(v.entries, t) |-> Evaluated(e.value, values, t)])
    BY <1>4, <2>1, <2>4, <2>5, <2>8, ProcessedInForce
  <2> QED
    BY <2>6, <2>7, <2>9
<1> QED
  BY <1>2, <1>5

LEMMA RoundsStarted ==
  ASSUME InitEnergyModel
  PROVE  RoundsKept
  BY DEF InitEnergyModel, RoundsKept

(***************************************************************************)
(* A report stands as long as what it was made of does.                     *)
(***************************************************************************)
\* Nothing is raised where nothing went wrong.
LEMMA NothingRaised ==
  ASSUME NEW errors, IsList(errors), FirstError(errors) = NoError
  PROVE  \A i \in 1 .. Len(errors) : errors[i] = NoError
<1> DEFINE I == {i \in 1 .. Len(errors) : errors[i] # NoError}
           first == IF I # {} THEN Min(I) ELSE 0
<1>1. Len(errors) \in Nat
  BY ListDomain
<1>2. ASSUME I # {} PROVE Min(I) \in I
  <2>1. I \in SUBSET Nat
    BY <1>1
  <2> HIDE DEF I
  <2>2. \E x \in I : \A y \in I : x <= y
    BY <1>2, <2>1, LeastMember
  <2>3. (CHOOSE x \in I : \A y \in I : x <= y) \in I
    BY <2>2
  <2> QED
    BY <2>3 DEF Min
<1>3. FirstError(errors) = IF first = 0 THEN NoError ELSE errors[first]
  BY DEF FirstError, SelectInSeq
<1>4. ASSUME I # {} PROVE FALSE
  <2>1. first \in I /\ first # 0
    BY <1>1, <1>2, <1>4
  <2>2. errors[first] # NoError
    BY <2>1
  <2> HIDE DEF first
  <2> QED
    BY <1>3, <2>1, <2>2
<1> QED
  BY <1>4

\* The components that have results once a model has been evaluated.
Evaluable == {s.part.id : s \in StepsOf({"generator", "fuel", "electricity"})}

ReportNow ==
  [asset         |-> ContainerReport(Asset, InstallationIds),
   installations |-> [id \in InstallationIds |-> ContainerReport(id, {id})]]

\* A report is there of a model that was evaluated whole, and is what would be
\* reported now; only consumers and generator sets have results.
ReportStands ==
  /\ results = [c \in DOMAIN results |-> results[c]]
  /\ \A c \in DOMAIN results :
       \E k \in ComponentSteps : Steps[k].kind \in {"generator", "fuel", "electricity"} /\ Steps[k].part.id = c
  /\ report # Nothing => mapped /\ Evaluable \subseteq DOMAIN results /\ report = ReportNow

LEMMA SameSteps ==
  ASSUME yaml' = yaml, nodes' = nodes, NEW kinds
  PROVE  StepsOf(kinds)' = StepsOf(kinds)
<1>1. MappingSteps' = MappingSteps
  BY DEF MappingSteps
<1> QED
  BY <1>1 DEF StepsOf

LEMMA SameFactor ==
  ASSUME yaml' = yaml, periods' = periods, NEW s, NEW t
  PROVE  EmissionFactor(s, t)' = EmissionFactor(s, t)
<1>1. \A tm : EntriesAt(tm, t)' = EntriesAt(tm, t)
  BY DEF EntriesAt, PeriodsOf
<1>2. PICK tm : tm = Kept(FuelOf(s))
  OBVIOUS
<1>3. Kept(FuelOf(s))' = tm
  BY <1>2, SameKept DEF Kept, Target
<1>4. EntriesAt(Kept(FuelOf(s)), t)' = EntriesAt(Kept(FuelOf(s)), t)
  BY <1>1, <1>2, <1>3
<1> QED
  BY <1>4 DEF EmissionFactor

LEMMA SameContainer ==
  ASSUME UNCHANGED <<yaml, nodes, edges, periods, results>>, NEW id, NEW of
  PROVE  ContainerReport(id, of)' = ContainerReport(id, of)
<1>1. FuelUsers(of)' = FuelUsers(of)
  BY SameSteps DEF FuelUsers
<1>2. PICK users : users = FuelUsers(of)
  OBVIOUS
<1>3. ASSUME NEW t PROVE FuelRate(users, t)' = FuelRate(users, t)
  BY DEF FuelRate
<1>4. ASSUME NEW t PROVE EmissionRate(users, t)' = EmissionRate(users, t)
  <2>1. \A s : EmissionFactor(s, t)' = EmissionFactor(s, t)
    BY SameFactor
  <2>2. EmissionRate(users, t) = SumFunction([s \in users |-> results[s.part.id][t].energy * EmissionFactor(s, t)])
    BY DEF EmissionRate
  <2>3. EmissionRate(users, t)' = SumFunction([s \in users |-> results'[s.part.id][t].energy * EmissionFactor(s, t)'])
    BY DEF EmissionRate
  <2>4. [s \in users |-> results'[s.part.id][t].energy * EmissionFactor(s, t)'] =
          [s \in users |-> results[s.part.id][t].energy * EmissionFactor(s, t)]
    BY <2>1
  <2> QED
    BY <2>2, <2>3, <2>4
<1>5. ASSUME NEW t PROVE Validity(id, t)' = Validity(id, t)
  <2>1. AllChildren(id)' = AllChildren(id)
    BY DEF AllChildren, Below, Children
  <2> QED
    BY <2>1 DEF Validity
<1>6. ContainerReport(id, of) = [fuel      |-> [t \in DOMAIN periods |-> FuelRate(users, t)],
                                 emissions |-> [t \in DOMAIN periods |-> EmissionRate(users, t)],
                                 valid     |-> [t \in DOMAIN periods |-> Validity(id, t)]]
  BY <1>2 DEF ContainerReport
<1>7. ContainerReport(id, of)' = [fuel      |-> [t \in DOMAIN periods |-> FuelRate(users, t)'],
                                  emissions |-> [t \in DOMAIN periods |-> EmissionRate(users, t)'],
                                  valid     |-> [t \in DOMAIN periods |-> Validity(id, t)']]
  <2>1. FuelUsers(of)' = users /\ (DOMAIN periods)' = DOMAIN periods
    BY <1>1, <1>2
  <2> QED
    BY <2>1 DEF ContainerReport, FuelRate, EmissionRate
<1> QED
  BY <1>3, <1>4, <1>5, <1>6, <1>7

LEMMA SameReport ==
  ASSUME UNCHANGED <<yaml, nodes, edges, periods, results>>
  PROVE  ReportNow' = ReportNow /\ Evaluable' = Evaluable
<1>1. InstallationIds' = InstallationIds
  BY DEF InstallationIds
<1>2. PICK ids : ids = InstallationIds
  OBVIOUS
<1>3. \A id, of : ContainerReport(id, of)' = ContainerReport(id, of)
  BY SameContainer
<1>4. ReportNow = [asset |-> ContainerReport(Asset, ids), installations |-> [id \in ids |-> ContainerReport(id, {id})]]
  BY <1>2 DEF ReportNow
<1>5. ReportNow' = [asset |-> ContainerReport(Asset, ids)', installations |-> [id \in ids |-> ContainerReport(id, {id})']]
  <2>1. InstallationIds' = ids
    BY <1>1, <1>2
  <2>2. ReportNow' = [asset |-> ContainerReport(Asset, InstallationIds)',
                      installations |-> [id \in InstallationIds' |-> ContainerReport(id, {id})']]
    BY DEF ReportNow
  <2>3. ContainerReport(Asset, InstallationIds)' = ContainerReport(Asset, ids)'
    BY <2>1
  <2> QED
    BY <2>1, <2>2, <2>3
<1>6. Evaluable' = Evaluable
  BY SameSteps DEF Evaluable
<1> QED
  BY <1>3, <1>4, <1>5, <1>6

LEMMA ReportElse ==
  ASSUME ReportStands, yaml' = yaml, results' = results, report' = report,
         report # Nothing => UNCHANGED <<nodes, edges, periods, mapped>>
  PROVE  ReportStands'
<1>1. Steps' = Steps /\ ComponentSteps' = ComponentSteps
  BY KeepsSteps
<1>2. Nothing' = Nothing
  BY DEF Nothing
<1>3. ASSUME report # Nothing PROVE mapped' /\ Evaluable' \subseteq DOMAIN results' /\ report' = ReportNow'
  BY <1>3, SameReport DEF ReportStands
<1> QED
  BY <1>1, <1>2, <1>3 DEF ReportStands

\* A result that is stored where the component already has one is that one.
LEMMA ReportStore ==
  ASSUME EnergyInv, ResultsStand, ReportStands, activity = "evaluating", next <= Len(nodes),
         UNCHANGED <<yaml, nodes, edges, mapped, periods, report>>,
         NEW j \in ComponentSteps, Stands(next, j), NEW new, Store(nodes[next], new), ResultOf(Steps[j], new),
         Steps[j].kind \in {"generator", "fuel", "electricity"}
  PROVE  ReportStands'
<1> DEFINE id == nodes[next]
<1>1. /\ IsWellFormed(yaml) /\ Steps' = Steps /\ ComponentSteps' = ComponentSteps /\ Steps[j].part.id = id
      /\ mapped /\ next \in 1 .. Len(nodes) /\ RegisteredUpTo(Len(Steps))
  BY StepOfTurn, KeepsSteps DEF Stands
<1>2. /\ DOMAIN results' = DOMAIN results \cup {id}
      /\ \A c \in DOMAIN results' : results'[c] = IF c = id THEN new ELSE results[c]
      /\ results' = [c \in DOMAIN results' |-> results'[c]]
  BY DEF Store
<1>3. \A c \in DOMAIN results' :
        \E k \in ComponentSteps : Steps[k].kind \in {"generator", "fuel", "electricity"} /\ Steps[k].part.id = c
  BY <1>1, <1>2 DEF ReportStands
<1>4. Nothing' = Nothing
  BY DEF Nothing
<1>5. ASSUME report # Nothing PROVE mapped' /\ Evaluable' \subseteq DOMAIN results' /\ report' = ReportNow'
  <2>1. id \in DOMAIN results
    <3>1. Steps[j] \in StepsOf({"generator", "fuel", "electricity"})
      BY <1>1, StepFound DEF RegisteredUpTo
    <3>2. id \in Evaluable
      BY <1>1, <3>1 DEF Evaluable
    <3> QED
      BY <1>5, <3>2 DEF ReportStands
  <2>2. results[id] = new
    <3>1. ResultOf(Steps[j], results[id])
      BY <1>1, <2>1 DEF ResultsStand
    <3> QED
      BY <3>1 DEF ResultOf, IsConsumer
  <2>3. results' = results
    <3>1. DOMAIN results' = DOMAIN results /\ \A c \in DOMAIN results : results'[c] = results[c]
      BY <1>2, <2>1, <2>2
    <3>2. results = [c \in DOMAIN results |-> results[c]]
      BY DEF ReportStands
    <3>3. [c \in DOMAIN results' |-> results'[c]] = [c \in DOMAIN results |-> results[c]]
      BY <3>1
    <3> QED
      BY <1>2, <3>2, <3>3
  <2> QED
    BY <1>5, <2>3, SameReport DEF ReportStands
<1> QED
  BY <1>1, <1>2, <1>3, <1>4, <1>5 DEF ReportStands

LEMMA ReportConsumer ==
  ASSUME EnergyInv, ResultsStand, ReportStands, EvaluateConsumer
  PROVE  ReportStands'
<1>1. /\ activity = "evaluating" /\ next <= Len(nodes) /\ UNCHANGED <<yaml, nodes, edges, mapped, periods, report>>
      /\ IsConsumer(StepOf(nodes[next])) /\ Store(nodes[next], ConsumerResult(StepOf(nodes[next]).part))
  BY DEF EvaluateConsumer, variablesVars
<1>2. PICK j \in ComponentSteps : Stands(next, j) /\ StepOf(nodes[next]) = Steps[j]
  BY <1>1, StepOfTurn
<1>3. PICK new : new = ConsumerResult(Steps[j].part)
  OBVIOUS
<1>4. Store(nodes[next], new) /\ ResultOf(Steps[j], new) /\ Steps[j].kind \in {"generator", "fuel", "electricity"}
  BY <1>1, <1>2, <1>3 DEF ResultOf, IsConsumer
<1> QED
  BY <1>1, <1>2, <1>4, ReportStore

LEMMA ReportGenerator ==
  ASSUME EnergyInv, ResultsStand, ReportStands, EvaluateGeneratorSet
  PROVE  ReportStands'
<1>1. /\ activity = "evaluating" /\ next <= Len(nodes) /\ UNCHANGED <<yaml, nodes, edges, mapped, periods, report>>
      /\ StepOf(nodes[next]).kind = "generator"
      /\ \/ Store(nodes[next], GeneratorResult(StepOf(nodes[next]).part, PowerRequirement(nodes[next])))
         \/ results' = results
  BY DEF EvaluateGeneratorSet, variablesVars, GoOn, Return
<1>2. PICK j \in ComponentSteps : Stands(next, j) /\ StepOf(nodes[next]) = Steps[j]
  BY <1>1, StepOfTurn
<1>3. CASE results' = results
  BY <1>1, <1>3, ReportElse
<1>4. CASE Store(nodes[next], GeneratorResult(StepOf(nodes[next]).part, PowerRequirement(nodes[next])))
  <2>1. PICK new : new = GeneratorResult(Steps[j].part, PowerRequirement(nodes[next]))
    OBVIOUS
  <2>2. Children(nodes[next]) \subseteq DOMAIN results
    BY <1>1, ChildrenFirst
  <2>3. Steps[j].kind = "generator" /\ Steps[j].part.id = nodes[next] /\ ~IsConsumer(Steps[j])
    BY <1>1, <1>2 DEF Stands, IsConsumer
  <2>4. Store(nodes[next], new) /\ ResultOf(Steps[j], new)
    BY <1>2, <1>4, <2>1, <2>2, <2>3 DEF ResultOf
  <2> QED
    BY <1>1, <1>2, <2>3, <2>4, ReportStore
<1> QED
  BY <1>1, <1>3, <1>4

\* The one child of a parent: what the edges of a model mapped whole say.
LEMMA ChildrenOf ==
  ASSUME IsWellFormed(yaml), RegisteredUpTo(Len(Steps)), NEW id, NEW c
  PROVE  c \in Children(id) <=> \E k \in ComponentSteps : Steps[k].kind # "asset" /\ Steps[k].parent = id /\ Steps[k].part.id = c
<1>1. edges = {<<Steps[k].parent, Steps[k].part.id>> : k \in {l \in ComponentSteps : l <= Len(Steps) /\ Steps[l].kind # "asset"}}
  BY DEF RegisteredUpTo
<1>2. \A k \in ComponentSteps : k <= Len(Steps)
  BY Kinds DEF ComponentSteps
<1>3. ASSUME c \in Children(id)
      PROVE  \E k \in ComponentSteps : Steps[k].kind # "asset" /\ Steps[k].parent = id /\ Steps[k].part.id = c
  <2>1. PICK e \in edges : e[1] = id /\ e[2] = c
    BY <1>3 DEF Children
  <2>2. PICK k \in ComponentSteps : Steps[k].kind # "asset" /\ e = <<Steps[k].parent, Steps[k].part.id>>
    BY <1>1
  <2> QED
    BY <2>1, <2>2
<1>4. ASSUME NEW k \in ComponentSteps, Steps[k].kind # "asset", Steps[k].parent = id, Steps[k].part.id = c PROVE c \in Children(id)
  <2>1. <<Steps[k].parent, Steps[k].part.id>> \in edges
    BY <1>1, <1>2, <1>4
  <2>2. PICK e : e = <<id, c>>
    OBVIOUS
  <2>3. e \in edges /\ e[1] = id /\ e[2] = c
    BY <1>4, <2>1, <2>2
  <2> QED
    BY <2>3 DEF Children
<1> QED
  BY <1>3, <1>4

\* Every consumer and generator set in the tree is below its installation.
LEMMA EvaluableBelow ==
  ASSUME IsWellFormed(yaml), RegisteredUpTo(Len(Steps)), NEW k \in ComponentSteps, Steps[k].kind \in {"generator", "fuel", "electricity"},
         NEW x \in ToSet(yaml.installations), IsOfInstallation(Steps[k], x)
  PROVE  /\ Steps[k].part.id \in Below(Children(x.id))
         /\ Steps[k].part.id \in AllChildren(x.id) /\ Steps[k].part.id \in AllChildren(Asset)
<1>1. ToSet(Steps) = {Steps[j] : j \in DOMAIN Steps} /\ Steps = ModelSteps(yaml)
  BY DEF ToSet, Steps, MappingSteps
<1>2. PICK s : s = Steps[k]
  OBVIOUS
<1>3. s.kind # "asset"
  BY <1>2
<1>4. s.parent = x.id \/ \E g \in ToSet(x.generators) : s.parent = g.id
  BY <1>2, FieldsOfStep DEF IsOfInstallation, IsOfSet
<1>5. ASSUME s.parent = x.id PROVE s.part.id \in Children(x.id)
  BY <1>2, <1>3, <1>5, ChildrenOf
<1>6. ASSUME NEW g \in ToSet(x.generators), s.parent = g.id
      PROVE  s.part.id \in Children(g.id) /\ g.id \in Children(x.id)
  <2>1. s.part.id \in Children(g.id)
    BY <1>2, <1>3, <1>6, ChildrenOf
  <2>2. Step("generator", g, x.id, x.fuel) \in ToSet(Steps)
    BY <1>1, StepsOfParts DEF IsOfInstallation, IsOfSet
  <2>3. PICK j \in DOMAIN Steps : Steps[j] = Step("generator", g, x.id, x.fuel)
    BY <1>1, <2>2
  <2>4. Steps[j].kind = "generator" /\ Steps[j].part.id = g.id /\ Steps[j].parent = x.id
    BY <2>3, FieldsOfStep
  <2>5. j \in ComponentSteps
    BY <2>4 DEF ComponentSteps, IsComponent, IsFiltered, IsConsumer
  <2> QED
    BY <2>1, <2>4, <2>5, ChildrenOf
<1>7. s.part.id \in Below(Children(x.id))
  BY <1>4, <1>5, <1>6 DEF Below
<1>8. x.id \in Children(Asset)
  <2>1. Step("installation", x, Asset, <<>>) \in ToSet(Steps)
    BY <1>1, StepsOfParts DEF IsOfInstallation
  <2>2. PICK j \in DOMAIN Steps : Steps[j] = Step("installation", x, Asset, <<>>)
    BY <1>1, <2>1
  <2>3. Steps[j].kind = "installation" /\ Steps[j].part.id = x.id /\ Steps[j].parent = Asset
    BY <2>2, FieldsOfStep
  <2>4. j \in ComponentSteps
    BY <2>3 DEF ComponentSteps, IsComponent, IsFiltered, IsConsumer
  <2> QED
    BY <2>3, <2>4, ChildrenOf
<1>9. s.part.id \in AllChildren(x.id)
  BY <1>7 DEF AllChildren, Below
<1>10. Children(x.id) \subseteq Below(Children(Asset))
  BY <1>8 DEF Below
<1>11. s.part.id \in AllChildren(Asset)
  BY <1>7, <1>10 DEF AllChildren, Below
<1> QED
  BY <1>2, <1>7, <1>9, <1>11

LEMMA ReportMade ==
  ASSUME EnergyInv, ReportStands, Report
  PROVE  ReportStands'
<1>1. /\ activity = "reporting" /\ UNCHANGED <<yaml, nodes, edges, mapped, periods, results>>
      /\ FirstError(ReportErrors) = NoError => report' = ReportNow
      /\ FirstError(ReportErrors) # NoError => report' = report
  BY DEF Report, Return, ReportNow, mapVars, variablesVars
<1>2. CASE FirstError(ReportErrors) # NoError
  BY <1>1, <1>2, ReportElse
<1>3. CASE FirstError(ReportErrors) = NoError
  <2>1. mapped
    <3>1. ASSUME ~mapped PROVE FALSE
      <4>1. ReportErrors = <<"AssertionError">>
        BY <3>1 DEF ReportErrors
      <4>2. PICK one : one = <<"AssertionError">>
        OBVIOUS
      <4>3. IsList(one) /\ Len(one) = 1 /\ one[1] = "AssertionError"
        BY <4>2, Single
      <4>4. FirstError(one) = NoError
        BY <1>3, <4>1, <4>2
      <4>5. \A i \in 1 .. Len(one) : one[i] = NoError
        BY <4>3, <4>4, NothingRaised
      <4> QED
        BY <4>3, <4>5 DEF NoError
    <3> QED
      BY <3>1
  <2>2. IsWellFormed(yaml) /\ RegisteredUpTo(Len(Steps))
    BY <1>1, <2>1 DEF EnergyInv, Stages, MappedUpTo
  <2>3. ASSUME NEW x \in ToSet(yaml.installations) PROVE ReportError(x) = NoError
    <3> DEFINE all == yaml.installations
               errors == [i \in DOMAIN all |-> ReportError(all[i])]
    <3>1. PICK i \in DOMAIN all : x = all[i]
      BY DEF ToSet
    <3>2. IsList(errors) /\ Len(errors) = Len(all) /\ DOMAIN all = 1 .. Len(all)
      <4>1. errors = [k \in DOMAIN all |-> errors[k]] /\ IsList(all)
        BY <2>2 DEF IsWellFormed
      <4> HIDE DEF errors, all
      <4> QED
        BY <4>1, ListAlong
    <3>3. ReportErrors = errors
      BY <2>1 DEF ReportErrors
    <3>4. errors[i] = ReportError(x)
      BY <3>1
    <3> HIDE DEF errors, all
    <3>5. \A j \in 1 .. Len(errors) : errors[j] = NoError
      BY <1>3, <3>2, <3>3, NothingRaised
    <3> QED
      BY <3>2, <3>4, <3>5
  <2>4. Evaluable \subseteq DOMAIN results
    <3> SUFFICES ASSUME NEW s \in StepsOf({"generator", "fuel", "electricity"}) PROVE s.part.id \in DOMAIN results
      BY DEF Evaluable
    <3>1. PICK k \in ComponentSteps : Steps[k] = s
      BY <2>2, InTheTree
    <3>2. s.kind \in {"generator", "fuel", "electricity"}
      BY DEF StepsOf
    <3>3. s \in ToSet(ModelSteps(yaml)) /\ s.kind # "asset"
      BY <3>2 DEF StepsOf, MappingSteps
    <3>4. PICK x \in ToSet(yaml.installations) : IsOfInstallation(s, x)
      <4>1. s # Step("asset", [id |-> Asset], Asset, <<>>)
        BY <3>3, FieldsOfStep
      <4> QED
        BY <2>2, <3>3, <4>1, StepsOfParts
    <3>5. s.part.id \in AllChildren(x.id)
      BY <2>2, <3>1, <3>2, <3>4, EvaluableBelow
    <3>6. Evaluable \cap AllChildren(x.id) \subseteq DOMAIN results
      <4>1. ReportError(x) = NoError
        BY <2>3
      <4> QED
        BY <4>1 DEF ReportError, Evaluable, NoError
    <3>7. s.part.id \in Evaluable
      BY DEF Evaluable
    <3> QED
      BY <3>5, <3>6, <3>7
  <2>5. ReportNow' = ReportNow /\ Evaluable' = Evaluable
    BY <1>1, SameReport
  <2>6. Steps' = Steps /\ ComponentSteps' = ComponentSteps
    BY <1>1, KeepsSteps
  <2> QED
    BY <1>1, <1>3, <2>1, <2>4, <2>5, <2>6 DEF ReportStands
<1> QED
  BY <1>2, <1>3

LEMMA ReportKept ==
  ASSUME EnergyInv, ResultsStand, ReportStands, NextEnergyModel
  PROVE  ReportStands'
<1>1. ASSUME NEW c \in {VALIDATE, EVALUATE, REPORT}, Call(c) PROVE ReportStands'
  <2>1. UNCHANGED <<yaml, nodes, edges, mapped, periods, results, report>>
    BY <1>1 DEF Call, mapVars, resultVars, variablesVars
  <2> QED
    BY <2>1, ReportElse
<1>2. CASE Check \/ ResolveVariables \/ EndVariables \/ MapStep \/ EndMapping
  <2>1. yaml' = yaml /\ results' = results /\ report' = report
    BY <1>2 DEF Check, ResolveVariables, EndVariables, MapStep, EndMapping, GoOn, Return, resultVars
  <2>2. report = Nothing
    <3>1. ~mapped
      BY <1>2 DEF Check, ResolveVariables, EndVariables, MapStep, EndMapping, EnergyInv, Stages
    <3> QED
      BY <3>1 DEF ReportStands
  <2> QED
    BY <2>1, <2>2, ReportElse
<1>3. CASE Build \/ Simulate \/ PassOver \/ EndEvaluation
  <2>1. UNCHANGED <<yaml, nodes, edges, mapped, periods, results, report>>
    BY <1>3 DEF Build, Simulate, PassOver, EndEvaluation, GoOn, Return, mapVars, resultVars, variablesVars
  <2> QED
    BY <2>1, ReportElse
<1> QED
  BY <1>1, <1>2, <1>3, ReportConsumer, ReportGenerator, ReportMade DEF NextEnergyModel

LEMMA ReportStarts ==
  ASSUME InitEnergyModel
  PROVE  ReportStands
<1>1. results = <<>> /\ report = Nothing
  BY DEF InitEnergyModel
<1>2. <<>> = [c \in DOMAIN <<>> |-> <<>>[c]] /\ DOMAIN <<>> = {}
  OBVIOUS
<1> QED
  BY <1>1, <1>2 DEF ReportStands

(***************************************************************************)
(* What is burnt and emitted are numbers.                                   *)
(***************************************************************************)
\* What a list of kept entries has for a period is the cut of one of the entries.
LEMMA FoundIsCut ==
  ASSUME NEW entries, IsList(entries), NEW t, NEW e \in EntriesAt(Kept(entries), t)
  PROVE  /\ e \in ToSet(Kept(entries))
         /\ \E i \in DOMAIN entries : entries[i] \in ToSet(entries) /\ e.model = entries[i].model
<1>1. e \in ToSet(Kept(entries))
  BY DEF EntriesAt
<1>2. PICK i \in DOMAIN entries : e = Cut(entries, i)
  BY <1>1, KeptEntries
<1>3. entries[i] \in ToSet(entries) /\ e.model = entries[i].model
  BY <1>2 DEF Cut, ToSet
<1> QED
  BY <1>1, <1>3

\* The energy of a consumer is a number, in whatever order its models are written.
LEMMA AnswerInt ==
  ASSUME Settled, mapped, NEW k \in DOMAIN Steps, IsConsumer(Steps[k]), NEW t \in DOMAIN periods
  PROVE  AnswerAt(Steps[k].part, t).energy \in Int
<1>1. is_validated /\ IsWellFormed(yaml)
  BY DEF Settled, EnergyInv, Stages
<1>2. PICK c : c = Steps[k].part
  OBVIOUS
<1>3. c \in ConsumersOf(yaml) /\ ModelsError(c.models) = NoError
  BY <1>1, <1>2, StepsOfSets DEF Settled, ModelsClean
<1>4. IsTyped(yaml) /\ RunDates # {} /\ periods = PeriodsOn(RunDates)
  BY <1>1 DEF Settled, VariablesTyped
<1>5. IsList(c.models)
  BY <1>3, <1>4 DEF IsTyped, IsDated
<1>6. PICK n, ts : Between(periods, ts, n)
  BY <1>4, RunTimeline
<1>7. n \in Nat /\ DOMAIN periods = 1 .. n /\ Len(periods) = n
  BY <1>6, AllBetween DEF Between
<1>8. CASE Found(c, t) = {}
  BY <1>2, <1>8 DEF AnswerAt, Idle
<1>9. CASE Found(c, t) # {}
  <2>1. PICK x \in Found(c, t) : x = CHOOSE e \in Found(c, t) : TRUE
    BY <1>9
  <2>2. AnswerAt(c, t) = ResultAt(x, t)
    BY <1>9, <2>1 DEF AnswerAt
  <2>3. PICK i \in DOMAIN c.models : c.models[i] \in ToSet(c.models) /\ x.model = c.models[i].model
    BY <1>5, FoundIsCut DEF Found
  <2>4. PICK e : e = c.models[i]
    OBVIOUS
  <2>5. x \in ToSet(Kept(c.models)) /\ t \in PeriodsOf(x)
    BY <2>1 DEF Found, EntriesAt
  <2>6. PeriodIndices(x.period, periods) # Misaligned /\ x.model.kind # INVALID
    BY <1>3, <2>5 DEF ModelsError, NoError, Invalid, Misaligned
  <2>7. \E a \in 1 .. n, b \in 1 .. n : PeriodIndices(x.period, periods) = <<a, b>> /\ t \in a .. b
    <3> DEFINE from == Later(Start(x.period), Start(Head(periods)))
               to == Earlier(End(x.period), End(Last(periods)))
               firsts == {m \in DOMAIN periods : Start(periods[m]) = from}
               lasts == {m \in 0 .. Len(periods) : AllDates(periods)[m + 1] = to}
               a == CHOOSE m \in firsts : \A l \in firsts : m <= l
               b == CHOOSE m \in lasts : \A l \in lasts : m <= l
    <3>1. firsts # {} /\ lasts # {} /\ PeriodIndices(x.period, periods) = <<a, b>>
      BY <2>6 DEF PeriodIndices
    <3>2. firsts \in SUBSET Nat /\ lasts \in SUBSET Nat
      BY <1>7
    <3>3. a \in firsts /\ b \in lasts
      <4> HIDE DEF firsts, lasts
      <4>1. (\E m \in firsts : \A l \in firsts : m <= l) /\ (\E m \in lasts : \A l \in lasts : m <= l)
        BY <3>1, <3>2, LeastMember
      <4> QED
        BY <4>1
    <3>4. a \in 1 .. n /\ b \in 0 .. n
      BY <1>7, <3>3
    <3>5. t \in a .. b
      BY <2>5, <3>1 DEF PeriodsOf
    <3> HIDE DEF a, b
    <3>6. b \in 1 .. n
      BY <1>7, <3>4, <3>5
    <3> QED
      BY <3>1, <3>4, <3>5, <3>6
  <2>8. /\ processed[e.model.load] \in [DOMAIN periods -> Int]
        /\ e.model.kind \in {DIRECT, PROCESS, SYSTEM}
        /\ e.model.kind = SYSTEM => IsSystem(e.model)
    BY <1>1, <1>3, <2>3, <2>4, <2>6, LoadTyped DEF Settled
  <2>9. AnswersAs(x, e, t)
    BY <1>7, <2>3, <2>4, <2>7, <2>8, EntryAnswers
  <2>10. ResultAt(x, t).energy \in Int
    BY <2>8, <2>9 DEF AnswersAs
  <2> QED
    BY <1>2, <2>2, <2>10
<1> QED
  BY <1>8, <1>9

\* The step of a generator set is of one of the model's.
LEMMA StepOfSet ==
  ASSUME IsWellFormed(yaml), NEW k \in DOMAIN Steps, Steps[k].kind = "generator"
  PROVE  Steps[k].part \in GeneratorsOf(yaml)
<1>1. PICK s : s = Steps[k] /\ s \in ToSet(ModelSteps(yaml))
  BY DEF ToSet, Steps, MappingSteps
<1>2. PICK x \in ToSet(yaml.installations) : \E g \in ToSet(x.generators) : s = Step("generator", g, x.id, x.fuel)
  BY <1>1, StepsOfParts, FieldsOfStep DEF IsOfInstallation, IsOfSet
<1>3. PICK g \in ToSet(x.generators) : s.part = g
  BY <1>2, FieldsOfStep
<1> QED
  BY <1>1, <1>3 DEF GeneratorsOf

LEMMA StepsFinite ==
  ASSUME IsWellFormed(yaml)
  PROVE  IsFiniteSet(ToSet(Steps)) /\ IsFiniteSet(DOMAIN Steps)
<1>1. IsList(Steps) /\ DOMAIN Steps = 1 .. Len(Steps) /\ Len(Steps) \in Nat
  BY OrderOfSteps DEF InOrder
<1>2. IsFiniteSet(1 .. Len(Steps))
  BY <1>1, FS_Interval
<1> QED
  BY <1>1, <1>2, ListFinite

\* What a generator set is asked for is a number.
LEMMA PowerInt ==
  ASSUME Settled, mapped, NEW k \in DOMAIN Steps, Steps[k].kind = "generator", Children(Steps[k].part.id) \subseteq DOMAIN results,
         NEW t \in DOMAIN periods
  PROVE  PowerRequirement(Steps[k].part.id)[t] \in Int
<1>1. is_validated /\ IsWellFormed(yaml) /\ RegisteredUpTo(Len(Steps))
  BY DEF Settled, EnergyInv, Stages, MappedUpTo
<1>2. PICK C : C = Children(Steps[k].part.id)
  OBVIOUS
<1> DEFINE f == [c \in C |-> results[c][t].energy]
<1>3. PowerRequirement(Steps[k].part.id)[t] = SumFunction(f)
  BY <1>2 DEF PowerRequirement
<1>4. ASSUME NEW c \in C PROVE f[c] \in Int /\ c \in {Steps[j].part.id : j \in DOMAIN Steps}
  <2>1. PICK j \in ComponentSteps : DrawsFrom(j, k) /\ Steps[j].part.id = c
    BY <1>1, <1>2, ChildrenDraw DEF SupplyStep
  <2>2. j \in DOMAIN Steps /\ IsConsumer(Steps[j]) /\ c \in DOMAIN results
    BY <1>2, <2>1 DEF DrawsFrom, IsConsumer
  <2>3. results[c][t] = AnswerAt(Steps[j].part, t)
    BY <2>1, <2>2, ConsumerStands
  <2> QED
    BY <2>1, <2>2, <2>3, AnswerInt
<1>5. IsFiniteSet(C)
  <2>1. IsFiniteSet({Steps[j].part.id : j \in DOMAIN Steps})
    <3> DEFINE D == DOMAIN Steps
               IDs == {Steps[j].part.id : j \in D}
               h == [j \in D |-> Steps[j].part.id]
    <3>1. h \in Surjection(D, IDs)
      BY DEF Surjection
    <3>2. IsFiniteSet(D)
      BY <1>1, StepsFinite
    <3> HIDE DEF D, IDs, h
    <3>3. IsFiniteSet(IDs)
      BY <3>1, <3>2, FS_Surjection
    <3> QED
      BY <3>3 DEF IDs, D
  <2>2. C \subseteq {Steps[j].part.id : j \in DOMAIN Steps}
    BY <1>4
  <2> QED
    BY <2>1, <2>2, FS_Subset
<1>6. DOMAIN f = C
  OBVIOUS
<1> HIDE DEF f
<1>7. SumFunctionOnSet(f, C) \in Int
  BY <1>4, <1>5, SumInt
<1> QED
  BY <1>3, <1>6, <1>7 DEF SumFunction

\* What a consumer or a generator set burns is a number.
LEMMA EnergyInt ==
  ASSUME Settled, mapped, NEW k \in ComponentSteps, Steps[k].kind \in {"generator", "fuel", "electricity"},
         Steps[k].part.id \in DOMAIN results, NEW t \in DOMAIN periods
  PROVE  results[Steps[k].part.id][t].energy \in Int
<1>1. is_validated /\ IsWellFormed(yaml) /\ RegisteredUpTo(Len(Steps)) /\ k \in DOMAIN Steps
  BY DEF Settled, EnergyInv, Stages, MappedUpTo, ComponentSteps
<1>2. CASE IsConsumer(Steps[k])
  BY <1>1, <1>2, ConsumerStands, AnswerInt
<1>3. CASE Steps[k].kind = "generator"
  <2>1. PICK p, power : p = Steps[k].part /\ power = PowerRequirement(Steps[k].part.id)
    OBVIOUS
  <2>2. Children(p.id) \subseteq DOMAIN results /\ results[p.id] = GeneratorResult(p, power)
    BY <1>3, <2>1 DEF Settled, ResultsStand, ResultOf
  <2>3. results[p.id][t] = SupplyAt(p, power[t], t)
    BY <2>2, GeneratorResultAt
  <2>4. power[t] \in Int
    BY <1>1, <1>3, <2>1, <2>2, PowerInt
  <2>5. CASE Found(p, t) = {}
    BY <2>1, <2>3, <2>5 DEF SupplyAt
  <2>6. CASE Found(p, t) # {}
    <3>1. PICK e \in Found(p, t) : e = CHOOSE x \in Found(p, t) : TRUE
      BY <2>6
    <3>2. p \in GeneratorsOf(yaml) /\ IsTyped(yaml)
      BY <1>1, <1>3, <2>1, StepOfSet DEF Settled, VariablesTyped
    <3>3. IsList(p.models) /\ \A x \in ToSet(p.models) : x.model.slope \in Int /\ x.model.capacity \in Int
      BY <3>2 DEF IsTyped, IsDated
    <3>4. \E i \in DOMAIN p.models : p.models[i] \in ToSet(p.models) /\ e.model = p.models[i].model
      BY <3>3, FoundIsCut DEF Found
    <3>5. PICK m : m = e.model
      OBVIOUS
    <3>6. m.slope \in Int /\ m.capacity \in Int
      BY <3>3, <3>4, <3>5
    <3>7. SupplyAt(p, power[t], t).energy = IF power[t] > 0 THEN m.slope * Earlier(power[t], m.capacity) ELSE 0
      BY <2>6, <3>1, <3>5 DEF SupplyAt
    <3>8. Earlier(power[t], m.capacity) \in Int
      BY <2>4, <3>6 DEF Earlier
    <3>9. SupplyAt(p, power[t], t).energy \in Int
      BY <3>6, <3>7, <3>8
    <3> QED
      BY <2>1, <2>3, <3>9
  <2> QED
    BY <2>5, <2>6
<1> QED
  BY <1>2, <1>3 DEF IsConsumer

(***************************************************************************)
(* EmissionsFollowTheFuel.                                                  *)
(***************************************************************************)
\* The fuels are written in the order of their dates, and no time series is from before
\* the run.
FuelsInOrder(model) ==
  StartsInTime(model) /\ \A f \in FuelsOf(model) : InOrderOfDates(f)

\* The fuel of a step is one of the model's.
LEMMA FuelOfStep ==
  ASSUME IsWellFormed(yaml), NEW k \in DOMAIN Steps, Steps[k].kind \in {"generator", "fuel"}
  PROVE  FuelOf(Steps[k]) \in FuelsOf(yaml)
<1>1. PICK s : s = Steps[k] /\ s \in ToSet(ModelSteps(yaml))
  BY DEF ToSet, Steps, MappingSteps
<1>2. CASE s.kind = "generator"
  <2>1. PICK x \in ToSet(yaml.installations) : \E g \in ToSet(x.generators) : s = Step("generator", g, x.id, x.fuel)
    BY <1>1, <1>2, StepsOfParts, FieldsOfStep DEF IsOfInstallation, IsOfSet
  <2>2. PICK g \in ToSet(x.generators) : s.part = g /\ s.fuel = x.fuel
    BY <2>1, FieldsOfStep
  <2>3. g \in GeneratorsOf(yaml)
    BY DEF GeneratorsOf
  <2> QED
    BY <1>1, <2>2, <2>3 DEF FuelOf, FuelsOf
<1>3. CASE s.kind = "fuel"
  <2>1. PICK x \in ToSet(yaml.installations) : \E c \in ToSet(x.consumers) : s = Step("fuel", c, x.id, x.fuel)
    BY <1>1, <1>3, StepsOfParts, FieldsOfStep DEF IsOfInstallation, IsOfSet
  <2>2. PICK c \in ToSet(x.consumers) : s.part = c /\ s.fuel = x.fuel
    BY <2>1, FieldsOfStep
  <2>3. c \in ConsumersOf(yaml)
    BY DEF ConsumersOf
  <2> QED
    BY <1>1, <2>2, <2>3 DEF FuelOf, FuelsOf
<1> QED
  BY <1>1, <1>2, <1>3

\* The factor of a period is that of the fuel in force in it, and a number.
LEMMA FactorInForce ==
  ASSUME Settled, mapped, FuelsInOrder(yaml), NEW k \in DOMAIN Steps, Steps[k].kind \in {"generator", "fuel"}, NEW t \in DOMAIN periods
  PROVE  EmissionFactor(Steps[k], t) = SumFunction([e \in InForce(FuelOf(Steps[k]), t) |-> e.model])
<1>1. is_validated /\ IsWellFormed(yaml) /\ VariablesTyped
  BY DEF Settled, EnergyInv, Stages
<1>2. PICK fuel : fuel = FuelOf(Steps[k])
  OBVIOUS
<1>3. fuel \in FuelsOf(yaml)
  BY <1>1, <1>2, FuelOfStep
<1>4. IsDated(fuel) /\ (\A e \in ToSet(fuel) : e.model \in Int) /\ InOrderOfDates(fuel) /\ DatesOf(fuel) \subseteq DateKeys(yaml)
  BY <1>1, <1>3, AllDated DEF VariablesTyped, IsTyped, FuelsInOrder
<1> DEFINE found == [e \in EntriesAt(Kept(fuel), t) |-> e.model]
           force == [e \in InForce(fuel, t) |-> e.model]
<1>5. EmissionFactor(Steps[k], t) = SumFunction(found)
  BY <1>2 DEF EmissionFactor
<1>6. CASE InForce(fuel, t) = {} /\ EntriesAt(Kept(fuel), t) = {}
  <2>1. found = force
    BY <1>6
  <2> QED
    BY <1>2, <1>5, <2>1
<1>7. ASSUME NEW i \in DOMAIN fuel, InForce(fuel, t) = {fuel[i]}, EntriesAt(Kept(fuel), t) = {Cut(fuel, i)}
      PROVE  SumFunction(found) = SumFunction(force)
  <2>1. PICK e, x : e = fuel[i] /\ x = Cut(fuel, i)
    OBVIOUS
  <2>2. x.model = e.model /\ e.model \in Int
    BY <1>4, <2>1 DEF Cut, ToSet
  <2>3. DOMAIN found = {x} /\ found[x] = e.model /\ DOMAIN force = {e} /\ force[e] = e.model
    BY <1>7, <2>1, <2>2
  <2> HIDE DEF found, force
  <2> QED
    BY <2>2, <2>3, SumSingle
<1>8. SumFunction(found) = SumFunction(force)
  BY <1>1, <1>4, <1>6, <1>7, InForceOf DEF FuelsInOrder
<1> QED
  BY <1>2, <1>5, <1>8

\* What burns fuel in a reported model has burnt a number.
LEMMA UsersOf ==
  ASSUME Settled, ReportStands, report # Nothing, NEW of, NEW t \in DOMAIN periods
  PROVE  /\ IsFiniteSet(FuelUsers(of))
         /\ \A s \in FuelUsers(of) : /\ \E k \in DOMAIN Steps : Steps[k] = s /\ Steps[k].kind \in {"generator", "fuel"}
                                     /\ results[s.part.id][t].energy \in Int
                                     /\ EmissionFactor(s, t) \in Int
<1>1. mapped /\ is_validated /\ IsWellFormed(yaml) /\ RegisteredUpTo(Len(Steps)) /\ IsTyped(yaml)
  BY DEF ReportStands, Settled, EnergyInv, Stages, MappedUpTo, VariablesTyped
<1>2. FuelUsers(of) \subseteq ToSet(Steps)
  BY DEF FuelUsers, StepsOf, Steps
<1>3. IsFiniteSet(FuelUsers(of))
  BY <1>1, <1>2, StepsFinite, FS_Subset
<1>4. ASSUME NEW s \in FuelUsers(of)
      PROVE  /\ \E k \in DOMAIN Steps : Steps[k] = s /\ Steps[k].kind \in {"generator", "fuel"}
             /\ results[s.part.id][t].energy \in Int
             /\ EmissionFactor(s, t) \in Int
  <2>1. s \in StepsOf({"generator", "fuel"}) /\ s \in StepsOf({"generator", "fuel", "electricity"})
    BY DEF FuelUsers, StepsOf
  <2>2. PICK k \in ComponentSteps : Steps[k] = s
    BY <1>1, <2>1, InTheTree
  <2>3. k \in DOMAIN Steps /\ s.kind \in {"generator", "fuel"} /\ s.part.id \in DOMAIN results
    BY <2>1, <2>2 DEF ComponentSteps, StepsOf, ReportStands, Evaluable
  <2>4. results[s.part.id][t].energy \in Int
    BY <1>1, <2>2, <2>3, EnergyInt
  <2>5. EmissionFactor(s, t) \in Int
    <3>1. PICK fuel : fuel = FuelOf(s)
      OBVIOUS
    <3>2. IsList(fuel) /\ \A e \in ToSet(fuel) : e.model \in Int
      BY <1>1, <2>2, <2>3, <3>1, FuelOfStep DEF IsTyped, IsDated
    <3> DEFINE F == EntriesAt(Kept(fuel), t)
               f == [e \in F |-> e.model]
    <3>3. \A e \in F : e.model \in Int
      BY <3>2, FoundIsCut
    <3>4. IsFiniteSet(F)
      <4>1. IsFiniteSet(ToSet(Kept(fuel)))
        BY <3>2, KeptEntries, ListFinite
      <4>2. F \subseteq ToSet(Kept(fuel))
        BY DEF EntriesAt
      <4> QED
        BY <4>1, <4>2, FS_Subset
    <3>5. EmissionFactor(s, t) = SumFunction(f) /\ DOMAIN f = F /\ \A e \in F : f[e] \in Int
      BY <3>1, <3>3 DEF EmissionFactor
    <3> HIDE DEF f, F
    <3>6. SumFunctionOnSet(f, F) \in Int
      BY <3>4, <3>5, SumInt
    <3> QED
      BY <3>5, <3>6 DEF SumFunction
  <2> QED
    BY <2>2, <2>3, <2>4, <2>5
<1> QED
  BY <1>3, <1>4

\* What is summed up over the users of all installations is summed up over those of each.
LEMMA UsersGrouped ==
  ASSUME IsWellFormed(yaml), NEW f, DOMAIN f = FuelUsers(InstallationIds), IsFiniteSet(DOMAIN f), \A s \in DOMAIN f : f[s] \in Int
  PROVE  SumFunction(f) = SumFunction([id \in InstallationIds |-> SumFunction([s \in FuelUsers({id}) |-> f[s]])])
<1> DEFINE S == FuelUsers(InstallationIds)
           K == InstallationIds
           key == [s \in S |-> s.parent]
           Of(id) == {s \in S : key[s] = id}
           of == [id \in K |-> Of(id)]
           One(id) == SumFunction([s \in FuelUsers({id}) |-> f[s]])
           g == [id \in K |-> One(id)]
<1>1. IsFiniteSet(K)
  <2> DEFINE all == ToSet(yaml.installations)
             h == [x \in all |-> x.id]
  <2>1. IsFiniteSet(all)
    BY ListFinite DEF IsWellFormed
  <2>2. h \in Surjection(all, K)
    BY DEF Surjection, InstallationIds
  <2> HIDE DEF all, h, K
  <2> QED
    BY <2>1, <2>2, FS_Surjection
<1>2. IsFiniteSet(S) /\ \A s \in S : key[s] \in K /\ f[s] \in Int /\ key[s] = s.parent
  BY DEF FuelUsers
<1>3. ASSUME NEW id \in K PROVE g[id] = SumFunctionOnSet(f, Of(id))
  <2>1. PICK T : T = Of(id)
    OBVIOUS
  <2>2. FuelUsers({id}) = T
    BY <2>1 DEF FuelUsers
  <2>3. IsFiniteSet(T) /\ T \subseteq S
    BY <1>2, <2>1, FS_Subset
  <2> DEFINE o == [s \in T |-> f[s]]
  <2>4. g[id] = SumFunction(o) /\ DOMAIN o = T
    BY <2>2
  <2>5. \A s \in T : o[s] \in Int /\ o[s] = f[s]
    BY <1>2, <2>3
  <2> HIDE DEF o, Of, g
  <2>6. SumFunctionOnSet(o, T) = SumFunctionOnSet(f, T)
    BY <2>3, <2>5, SumSame
  <2> QED
    BY <2>1, <2>4, <2>6 DEF SumFunction
<1>4. DOMAIN f = S /\ DOMAIN g = K
  OBVIOUS
<1>5. \A id \in K : of[id] = Of(id) /\ of[id] \in SUBSET S /\ \A s \in S : s \in of[id] <=> key[s] = id
  OBVIOUS
<1> HIDE DEF S, K, key, of, Of, g
<1>6. SumFunctionOnSet(g, K) = SumFunctionOnSet(f, S)
  <2>1. \A k \in K : g[k] = SumFunctionOnSet(f, of[k])
    BY <1>3, <1>5
  <2> QED
    BY <1>1, <1>2, <1>5, <2>1, SumGroups
<1>7. SumFunction(f) = SumFunction(g)
  BY <1>4, <1>6 DEF SumFunction
<1> QED
  BY <1>7 DEF g, K

LEMMA EmissionsFollow ==
  ASSUME Settled, ReportStands, FuelsInOrder(yaml)
  PROVE  EmissionsFollowTheFuel
<1> SUFFICES ASSUME report # Nothing, NEW t \in DOMAIN periods
             PROVE  /\ \A x \in ToSet(yaml.installations) :
                         report.installations[x.id].emissions[t] =
                           SumFunction([s \in FuelUsers({x.id}) |->
                                          results[s.part.id][t].energy
                                            * SumFunction([e \in InForce(FuelOf(s), t) |-> e.model])])
                    /\ report.asset.fuel[t] = SumFunction([id \in InstallationIds |-> report.installations[id].fuel[t]])
                    /\ report.asset.emissions[t] =
                         SumFunction([id \in InstallationIds |-> report.installations[id].emissions[t]])
  BY DEF EmissionsFollowTheFuel
<1>1. mapped /\ report = ReportNow /\ IsWellFormed(yaml)
  BY DEF ReportStands, Settled, EnergyInv, Stages
<1>2. /\ report.asset.fuel[t] = FuelRate(FuelUsers(InstallationIds), t)
      /\ report.asset.emissions[t] = EmissionRate(FuelUsers(InstallationIds), t)
      /\ \A id \in InstallationIds : /\ report.installations[id].fuel[t] = FuelRate(FuelUsers({id}), t)
                                     /\ report.installations[id].emissions[t] = EmissionRate(FuelUsers({id}), t)
  BY <1>1 DEF ReportNow, ContainerReport
<1>3. ASSUME NEW x \in ToSet(yaml.installations)
      PROVE  report.installations[x.id].emissions[t] =
               SumFunction([s \in FuelUsers({x.id}) |->
                              results[s.part.id][t].energy * SumFunction([e \in InForce(FuelOf(s), t) |-> e.model])])
  <2>1. PICK users : users = FuelUsers({x.id})
    OBVIOUS
  <2>2. report.installations[x.id].emissions[t] = SumFunction([s \in users |-> results[s.part.id][t].energy * EmissionFactor(s, t)])
    BY <1>2, <2>1 DEF InstallationIds, EmissionRate
  <2>3. \A s \in users : EmissionFactor(s, t) = SumFunction([e \in InForce(FuelOf(s), t) |-> e.model])
    BY <1>1, <2>1, UsersOf, FactorInForce
  <2>4. [s \in users |-> results[s.part.id][t].energy * EmissionFactor(s, t)] =
          [s \in users |-> results[s.part.id][t].energy * SumFunction([e \in InForce(FuelOf(s), t) |-> e.model])]
    BY <2>3
  <2> QED
    BY <2>1, <2>2, <2>4
<1>4. report.asset.fuel[t] = SumFunction([id \in InstallationIds |-> report.installations[id].fuel[t]])
  <2>1. PICK users, ids : users = FuelUsers(InstallationIds) /\ ids = InstallationIds
    OBVIOUS
  <2> DEFINE f == [s \in users |-> results[s.part.id][t].energy]
             Own(id) == SumFunction([s \in FuelUsers({id}) |-> f[s]])
  <2>2. IsFiniteSet(users) /\ \A s \in users : results[s.part.id][t].energy \in Int
    BY <2>1, UsersOf
  <2>3. DOMAIN f = users /\ (\A s \in users : f[s] \in Int) /\ report.asset.fuel[t] = SumFunction(f)
    BY <1>2, <2>1, <2>2 DEF FuelRate
  <2>4. \A id \in ids : Own(id) = report.installations[id].fuel[t]
    <3> SUFFICES ASSUME NEW id \in ids PROVE Own(id) = report.installations[id].fuel[t]
      OBVIOUS
    <3>1. PICK T : T = FuelUsers({id})
      OBVIOUS
    <3>2. T \subseteq users
      BY <2>1, <3>1 DEF FuelUsers
    <3>3. [s \in T |-> f[s]] = [s \in T |-> results[s.part.id][t].energy]
      BY <3>2
    <3>4. report.installations[id].fuel[t] = SumFunction([s \in T |-> results[s.part.id][t].energy])
      BY <1>2, <2>1, <3>1 DEF FuelRate
    <3>5. Own(id) = SumFunction([s \in T |-> f[s]])
      BY <3>1
    <3> QED
      BY <3>3, <3>4, <3>5
  <2> HIDE DEF f
  <2>5. SumFunction(f) = SumFunction([id \in ids |-> Own(id)])
    BY <1>1, <2>1, <2>2, <2>3, UsersGrouped
  <2> HIDE DEF Own
  <2>6. [id \in ids |-> Own(id)] = [id \in ids |-> report.installations[id].fuel[t]]
    BY <2>4
  <2> QED
    BY <2>1, <2>3, <2>5, <2>6
<1>5. report.asset.emissions[t] = SumFunction([id \in InstallationIds |-> report.installations[id].emissions[t]])
  <2>1. PICK users, ids : users = FuelUsers(InstallationIds) /\ ids = InstallationIds
    OBVIOUS
  <2> DEFINE f == [s \in users |-> results[s.part.id][t].energy * EmissionFactor(s, t)]
             Own(id) == SumFunction([s \in FuelUsers({id}) |-> f[s]])
  <2>2. IsFiniteSet(users) /\ \A s \in users : results[s.part.id][t].energy \in Int /\ EmissionFactor(s, t) \in Int
    BY <2>1, UsersOf
  <2>3. DOMAIN f = users /\ (\A s \in users : f[s] \in Int) /\ report.asset.emissions[t] = SumFunction(f)
    BY <1>2, <2>1, <2>2 DEF EmissionRate
  <2>4. \A id \in ids : Own(id) = report.installations[id].emissions[t]
    <3> SUFFICES ASSUME NEW id \in ids PROVE Own(id) = report.installations[id].emissions[t]
      OBVIOUS
    <3>1. PICK T : T = FuelUsers({id})
      OBVIOUS
    <3>2. T \subseteq users
      BY <2>1, <3>1 DEF FuelUsers
    <3>3. [s \in T |-> f[s]] = [s \in T |-> results[s.part.id][t].energy * EmissionFactor(s, t)]
      BY <3>2
    <3>4. report.installations[id].emissions[t] = SumFunction([s \in T |-> results[s.part.id][t].energy * EmissionFactor(s, t)])
      BY <1>2, <2>1, <3>1 DEF EmissionRate
    <3>5. Own(id) = SumFunction([s \in T |-> f[s]])
      BY <3>1
    <3> QED
      BY <3>3, <3>4, <3>5
  <2> HIDE DEF f
  <2>5. SumFunction(f) = SumFunction([id \in ids |-> Own(id)])
    BY <1>1, <2>1, <2>2, <2>3, UsersGrouped
  <2> HIDE DEF Own
  <2>6. [id \in ids |-> Own(id)] = [id \in ids |-> report.installations[id].emissions[t]]
    BY <2>4
  <2> QED
    BY <2>1, <2>3, <2>5, <2>6
<1> QED
  BY <1>3, <1>4, <1>5

(***************************************************************************)
(* ValidWhenAllCope.                                                        *)
(***************************************************************************)
\* The models of consumers and generator sets are written in the order of their dates, and
\* no time series is from before the run.
SetsInOrder(model) ==
  DatesInOrder(model) /\ \A g \in GeneratorsOf(model) : InOrderOfDates(g.models)

EvaluableKinds == {"generator", "fuel", "electricity"}

\* Steps with the same identity are the same.
LEMMA SameIdentity ==
  ASSUME IsWellFormed(yaml), NEW s \in ToSet(Steps), NEW r \in ToSet(Steps),
         s.kind # "generator_fuel", r.kind # "generator_fuel", s.part.id = r.part.id
  PROVE  s = r
<1>1. ToSet(Steps) = {Steps[j] : j \in DOMAIN Steps}
  BY DEF ToSet
<1>2. PICK j \in DOMAIN Steps : Steps[j] = s
  BY <1>1
<1>3. PICK k \in DOMAIN Steps : Steps[k] = r
  BY <1>1
<1>4. j = k
  BY <1>2, <1>3, OneStep
<1> QED
  BY <1>2, <1>3, <1>4

\* The steps of installations, generator sets and the asset.
LEMMA StepsThere ==
  ASSUME IsWellFormed(yaml)
  PROVE  /\ Step("asset", [id |-> Asset], Asset, <<>>) \in ToSet(Steps)
         /\ \A x \in ToSet(yaml.installations) :
              /\ \A s : IsOfInstallation(s, x) => s \in ToSet(Steps)
              /\ Step("installation", x, Asset, <<>>) \in ToSet(Steps)
              /\ \A g \in ToSet(x.generators) : Step("generator", g, x.id, x.fuel) \in ToSet(Steps)
<1>1. Steps = ModelSteps(yaml)
  BY DEF Steps, MappingSteps
<1>2. Step("asset", [id |-> Asset], Asset, <<>>) \in ToSet(Steps)
  BY <1>1, StepsOfParts
<1>3. \A x \in ToSet(yaml.installations) : \A s : IsOfInstallation(s, x) => s \in ToSet(Steps)
  BY <1>1, StepsOfParts
<1>4. \A x : IsOfInstallation(Step("installation", x, Asset, <<>>), x)
  BY DEF IsOfInstallation
<1>5. \A x : \A g \in ToSet(x.generators) : IsOfInstallation(Step("generator", g, x.id, x.fuel), x)
  BY DEF IsOfInstallation, IsOfSet
<1> QED
  BY <1>2, <1>3, <1>4, <1>5

\* What hangs below a part of an installation is a part of it.
LEMMA OwnedChild ==
  ASSUME IsWellFormed(yaml), NEW x \in ToSet(yaml.installations),
         NEW r \in ToSet(Steps), r.kind # "generator_fuel", IsOfInstallation(r, x),
         NEW s \in ToSet(Steps), s.kind # "asset", s.parent = r.part.id
  PROVE  IsOfInstallation(s, x)
<1>1. PICK y \in ToSet(yaml.installations) : IsOfInstallation(s, y)
  <2>1. s # Step("asset", [id |-> Asset], Asset, <<>>)
    BY FieldsOfStep
  <2> QED
    BY <2>1, StepsOfParts DEF Steps, MappingSteps
<1>2. r.kind # "asset"
  BY FieldsOfStep DEF IsOfInstallation, IsOfSet
<1>3. CASE s = Step("installation", y, Asset, <<>>)
  <2>1. PICK a \in ToSet(Steps) : a.kind = "asset" /\ a.part.id = Asset
    <3>1. PICK p : p = [id |-> Asset]
      OBVIOUS
    <3>2. Step("asset", p, Asset, <<>>) \in ToSet(Steps) /\ p.id = Asset
      BY <3>1, StepsThere
    <3> QED
      BY <3>2, FieldsOfStep
  <2>2. s.parent = Asset
    BY <1>3, FieldsOfStep
  <2>3. a = r
    BY <2>1, <2>2, SameIdentity
  <2> QED
    BY <1>2, <2>1, <2>3
<1>4. CASE \E g \in ToSet(y.generators) : \E c : s = Step("electricity", c, g.id, y.fuel)
  <2>1. PICK g \in ToSet(y.generators) : s.parent = g.id
    BY <1>4, FieldsOfStep
  <2>2. PICK p \in ToSet(Steps) : p.kind = "generator" /\ p.part = g /\ p.parent = y.id
    <3>1. PICK p : p = Step("generator", g, y.id, y.fuel)
      OBVIOUS
    <3>2. p \in ToSet(Steps)
      BY <3>1, StepsThere
    <3> QED
      BY <3>1, <3>2, FieldsOfStep
  <2>3. p = r
    BY <2>1, <2>2, SameIdentity
  <2>4. r.parent = x.id
    BY <2>2, <2>3, FieldsOfStep DEF IsOfInstallation, IsOfSet
  <2>5. PICK a \in ToSet(Steps), b \in ToSet(Steps) : /\ a.kind = "installation" /\ a.part = x
                                                     /\ b.kind = "installation" /\ b.part = y
    BY StepsThere, FieldsOfStep
  <2>6. a = b
    BY <2>2, <2>3, <2>4, <2>5, SameIdentity
  <2> QED
    BY <1>1, <2>5, <2>6
<1>5. CASE s.parent = y.id
  <2>1. PICK b \in ToSet(Steps) : b.kind = "installation" /\ b.part = y
    BY StepsThere, FieldsOfStep
  <2>2. b = r
    BY <1>5, <2>1, SameIdentity
  <2>3. r.part = x
    BY <2>1, <2>2, FieldsOfStep DEF IsOfInstallation, IsOfSet
  <2> QED
    BY <1>1, <2>1, <2>2, <2>3
<1>6. ASSUME NEW g \in ToSet(y.generators), IsOfSet(s, g, y)
      PROVE  s.parent = y.id \/ \E c : s = Step("electricity", c, g.id, y.fuel)
  BY <1>6, FieldsOfStep DEF IsOfSet
<1>7. ASSUME NEW c, s = Step("fuel", c, y.id, y.fuel) \/ s = Step("emitter", c, y.id, y.fuel) PROVE s.parent = y.id
  BY <1>7, FieldsOfStep
<1> QED
  BY <1>1, <1>3, <1>4, <1>5, <1>6, <1>7 DEF IsOfInstallation

\* The identities of the parts of an installation.
Owned(x) == {c.part.id : c \in {s \in ToSet(Steps) : s.kind # "generator_fuel" /\ IsOfInstallation(s, x)}}

LEMMA OwnedChildren ==
  ASSUME IsWellFormed(yaml), RegisteredUpTo(Len(Steps)), NEW x \in ToSet(yaml.installations), NEW id \in Owned(x)
  PROVE  Children(id) \subseteq Owned(x)
<1>1. PICK r \in ToSet(Steps) : r.kind # "generator_fuel" /\ IsOfInstallation(r, x) /\ r.part.id = id
  BY DEF Owned
<1>2. ASSUME NEW c \in Children(id) PROVE c \in Owned(x)
  <2>1. PICK k \in ComponentSteps : Steps[k].kind # "asset" /\ Steps[k].parent = id /\ Steps[k].part.id = c
    BY ChildrenOf
  <2>2. PICK s : s = Steps[k]
    OBVIOUS
  <2>3. s \in ToSet(Steps) /\ s.kind # "generator_fuel"
    BY <2>2 DEF ComponentSteps, ToSet, IsComponent
  <2>4. IsOfInstallation(s, x)
    BY <1>1, <2>1, <2>2, <2>3, OwnedChild
  <2> QED
    BY <2>1, <2>2, <2>3, <2>4 DEF Owned
<1> QED
  BY <1>2

LEMMA BelowOwned ==
  ASSUME IsWellFormed(yaml), RegisteredUpTo(Len(Steps)), NEW x \in ToSet(yaml.installations)
  PROVE  AllChildren(x.id) \subseteq Owned(x)
<1>1. x.id \in Owned(x)
  <2>1. IsOfInstallation(Step("installation", x, Asset, <<>>), x)
    BY DEF IsOfInstallation
  <2>2. PICK s \in ToSet(Steps) : s.kind = "installation" /\ s.part = x /\ IsOfInstallation(s, x)
    BY <2>1, StepsThere, FieldsOfStep
  <2> QED
    BY <2>2 DEF Owned
<1>2. \A id \in Owned(x) : Children(id) \subseteq Owned(x)
  BY OwnedChildren
<1>3. ASSUME NEW S \in SUBSET Owned(x) PROVE Below(S) \subseteq Owned(x)
  BY <1>2 DEF Below
<1>4. Below(Children(x.id)) \subseteq Owned(x)
  BY <1>1, <1>2, <1>3
<1> QED
  BY <1>3, <1>4 DEF AllChildren

\* The consumers and generator sets below an installation are its own.
LEMMA OwnBelow ==
  ASSUME IsWellFormed(yaml), RegisteredUpTo(Len(Steps)), NEW x \in ToSet(yaml.installations),
         NEW k \in ComponentSteps, Steps[k].kind \in EvaluableKinds
  PROVE  Steps[k].part.id \in AllChildren(x.id) <=> IsOfInstallation(Steps[k], x)
<1>1. PICK s : s = Steps[k] /\ s \in ToSet(Steps)
  BY DEF ComponentSteps, ToSet
<1>2. ASSUME s.part.id \in AllChildren(x.id) PROVE IsOfInstallation(s, x)
  <2>1. s.part.id \in Owned(x)
    BY <1>2, BelowOwned
  <2>2. PICK r \in ToSet(Steps) : r.kind # "generator_fuel" /\ IsOfInstallation(r, x) /\ r.part.id = s.part.id
    BY <2>1 DEF Owned
  <2>3. r = s
    BY <1>1, <2>2, SameIdentity DEF EvaluableKinds
  <2> QED
    BY <2>2, <2>3
<1>3. ASSUME IsOfInstallation(s, x) PROVE s.part.id \in AllChildren(x.id)
  BY <1>1, <1>3, EvaluableBelow DEF EvaluableKinds
<1> QED
  BY <1>1, <1>2, <1>3

\* What a step says of whether its part copes.
StepCopes(s, t) == IF s.kind = "generator" THEN GeneratorCopes(s.part, t) ELSE ConsumerCopes(s.part, t)

LEMMA ConsumerValid ==
  ASSUME Settled, mapped, SetsInOrder(yaml), NEW k \in DOMAIN Steps, IsConsumer(Steps[k]), NEW t \in DOMAIN periods
  PROVE  /\ k \notin ComponentSteps => ConsumerCopes(Steps[k].part, t)
         /\ k \in ComponentSteps /\ Steps[k].part.id \in DOMAIN results =>
              (results[Steps[k].part.id][t].valid <=> ConsumerCopes(Steps[k].part, t))
<1>1. is_validated /\ IsWellFormed(yaml)
  BY DEF Settled, EnergyInv, Stages
<1>2. PICK c : c = Steps[k].part
  OBVIOUS
<1>3. AnswerAt(c, t).valid <=> ConsumerCopes(c, t)
  BY <1>1, <1>2, EveryConsumerAnswers DEF SetsInOrder, Answers
<1>4. ASSUME k \notin ComponentSteps PROVE ConsumerCopes(c, t)
  <2>1. Kept(c.models) = <<>>
    BY <1>2, <1>4 DEF ComponentSteps, IsComponent, IsFiltered, IsConsumer
  <2>2. ToSet(<<>>) = {}
    BY NoneListed
  <2>3. Found(c, t) = {}
    BY <2>1, <2>2 DEF Found, EntriesAt
  <2>4. AnswerAt(c, t).valid = TRUE
    BY <2>3 DEF AnswerAt, Idle
  <2> QED
    BY <1>3, <2>4
<1>5. ASSUME k \in ComponentSteps, c.id \in DOMAIN results PROVE results[c.id][t].valid <=> ConsumerCopes(c, t)
  BY <1>2, <1>3, <1>5, ConsumerStands
<1> QED
  BY <1>2, <1>4, <1>5

LEMMA GeneratorValid ==
  ASSUME Settled, mapped, SetsInOrder(yaml), NEW k \in ComponentSteps, Steps[k].kind = "generator",
         Steps[k].part.id \in DOMAIN results, NEW t \in DOMAIN periods
  PROVE  results[Steps[k].part.id][t].valid <=> GeneratorCopes(Steps[k].part, t)
<1>1. /\ is_validated /\ IsWellFormed(yaml) /\ RegisteredUpTo(Len(Steps)) /\ k \in DOMAIN Steps
      /\ VariablesTyped /\ IsTyped(yaml) /\ StartsInTime(yaml) /\ DatesInOrder(yaml)
  BY DEF Settled, EnergyInv, Stages, MappedUpTo, ComponentSteps, VariablesTyped, SetsInOrder, DatesInOrder
<1>2. PICK p, power : p = Steps[k].part /\ power = PowerRequirement(Steps[k].part.id)
  OBVIOUS
<1>3. Children(p.id) \subseteq DOMAIN results /\ results[p.id] = GeneratorResult(p, power)
  BY <1>2 DEF Settled, ResultsStand, ResultOf
<1>4. results[p.id][t] = SupplyAt(p, power[t], t)
  BY <1>3, GeneratorResultAt
<1>5. power[t] \in Int
  BY <1>1, <1>2, <1>3, PowerInt
<1>6. power[t] = SumFunction([c \in ToSet(p.consumers) |-> Drawn(c, t)])
  <2>1. power[t] = SumFunction([c \in Children(p.id) |-> results[c][t].energy])
    BY <1>2 DEF PowerRequirement
  <2> QED
    BY <1>1, <1>2, <1>3, <2>1, DrawnBySet DEF SupplyStep
<1>7. p \in GeneratorsOf(yaml)
  BY <1>1, <1>2, StepOfSet
<1>8. IsDated(p.models) /\ InOrderOfDates(p.models) /\ DatesOf(p.models) \subseteq DateKeys(yaml)
      /\ \A e \in ToSet(p.models) : e.model.capacity \in Int
  BY <1>1, <1>7, AllDated DEF IsTyped, SetsInOrder
<1>9. GeneratorCopes(p, t) <=> \E e \in InForce(p.models, t) : power[t] <= e.model.capacity
  BY <1>6 DEF GeneratorCopes
<1>10. CASE InForce(p.models, t) = {} /\ EntriesAt(Kept(p.models), t) = {}
  <2>1. SupplyAt(p, power[t], t).valid = FALSE
    BY <1>10 DEF SupplyAt, Found
  <2> QED
    BY <1>2, <1>4, <1>9, <1>10, <2>1
<1>11. ASSUME NEW i \in DOMAIN p.models, InForce(p.models, t) = {p.models[i]}, EntriesAt(Kept(p.models), t) = {Cut(p.models, i)}
       PROVE  SupplyAt(p, power[t], t).valid <=> GeneratorCopes(p, t)
  <2>1. PICK e, x : e = p.models[i] /\ x = Cut(p.models, i)
    OBVIOUS
  <2>2. x.model = e.model /\ e.model.capacity \in Int
    BY <1>8, <2>1 DEF Cut, ToSet
  <2>3. Found(p, t) = {x} /\ InForce(p.models, t) = {e}
    BY <1>11, <2>1 DEF Found
  <2>4. PICK m : m = e.model
    OBVIOUS
  <2>5. (CHOOSE f \in Found(p, t) : TRUE) = x /\ Found(p, t) # {}
    BY <2>3
  <2>6. SupplyAt(p, power[t], t).valid = (m.capacity - power[t] >= 0)
    BY <2>2, <2>4, <2>5 DEF SupplyAt
  <2>7. m.capacity - power[t] >= 0 <=> power[t] <= m.capacity
    BY <1>5, <2>2, <2>4
  <2>8. GeneratorCopes(p, t) <=> power[t] <= m.capacity
    BY <1>9, <2>3, <2>4
  <2> QED
    BY <2>6, <2>7, <2>8
<1>12. SupplyAt(p, power[t], t).valid <=> GeneratorCopes(p, t)
  BY <1>1, <1>4, <1>8, <1>9, <1>10, <1>11, InForceOf, <1>2
<1> QED
  BY <1>2, <1>4, <1>12

LEMMA StepValid ==
  ASSUME Settled, mapped, SetsInOrder(yaml), NEW k \in ComponentSteps, Steps[k].kind \in EvaluableKinds,
         Steps[k].part.id \in DOMAIN results, NEW t \in DOMAIN periods
  PROVE  results[Steps[k].part.id][t].valid <=> StepCopes(Steps[k], t)
<1>1. k \in DOMAIN Steps
  BY DEF ComponentSteps
<1> QED
  BY <1>1, ConsumerValid, GeneratorValid DEF StepCopes, EvaluableKinds, IsConsumer

\* An installation copes when all its parts that are in the tree do: the others have nothing
\* to cope with.
LEMMA InstallationCopesBy ==
  ASSUME Settled, mapped, SetsInOrder(yaml), NEW x \in ToSet(yaml.installations), NEW t \in DOMAIN periods
  PROVE  InstallationCopes(x, t) <=>
           \A k \in ComponentSteps : Steps[k].kind \in EvaluableKinds /\ IsOfInstallation(Steps[k], x) => StepCopes(Steps[k], t)
<1>1. is_validated /\ IsWellFormed(yaml)
  BY DEF Settled, EnergyInv, Stages
<1>2. ASSUME InstallationCopes(x, t), NEW k \in ComponentSteps, Steps[k].kind \in EvaluableKinds, IsOfInstallation(Steps[k], x)
      PROVE  StepCopes(Steps[k], t)
  <2>1. PICK s : s = Steps[k]
    OBVIOUS
  <2>2. CASE s.kind = "generator"
    <3>1. PICK g \in ToSet(x.generators) : s.part = g
      BY <1>2, <2>1, <2>2, FieldsOfStep DEF IsOfInstallation, IsOfSet
    <3> QED
      BY <1>2, <2>1, <2>2, <3>1 DEF StepCopes, InstallationCopes
  <2>3. CASE s.kind = "fuel"
    <3>1. PICK c \in ToSet(x.consumers) : s.part = c
      BY <1>2, <2>1, <2>3, FieldsOfStep DEF IsOfInstallation, IsOfSet
    <3> QED
      BY <1>2, <2>1, <2>3, <3>1 DEF StepCopes, InstallationCopes
  <2>4. CASE s.kind = "electricity"
    <3>1. PICK g \in ToSet(x.generators) : \E c \in ToSet(g.consumers) : s.part = c
      BY <1>2, <2>1, <2>4, FieldsOfStep DEF IsOfInstallation, IsOfSet
    <3> QED
      BY <1>2, <2>1, <2>4, <3>1 DEF StepCopes, InstallationCopes
  <2> QED
    BY <1>2, <2>1, <2>2, <2>3, <2>4 DEF EvaluableKinds
<1>3. ASSUME \A k \in ComponentSteps : Steps[k].kind \in EvaluableKinds /\ IsOfInstallation(Steps[k], x) => StepCopes(Steps[k], t),
             NEW s, IsOfInstallation(s, x), s.kind \in EvaluableKinds
      PROVE  StepCopes(s, t)
  <2>1. s \in ToSet(Steps)
    BY <1>1, <1>3, StepsThere
  <2>2. PICK k \in DOMAIN Steps : Steps[k] = s
    BY <2>1 DEF ToSet
  <2>3. CASE k \in ComponentSteps
    BY <1>3, <2>2, <2>3
  <2>4. CASE k \notin ComponentSteps
    <3>1. IsConsumer(s) /\ s.kind # "generator"
      BY <1>3, <2>2, <2>4 DEF ComponentSteps, IsComponent, IsFiltered, EvaluableKinds, IsConsumer
    <3> QED
      BY <2>2, <2>4, <3>1, ConsumerValid DEF StepCopes
  <2> QED
    BY <2>3, <2>4
<1>4. ASSUME \A k \in ComponentSteps : Steps[k].kind \in EvaluableKinds /\ IsOfInstallation(Steps[k], x) => StepCopes(Steps[k], t)
      PROVE  InstallationCopes(x, t)
  <2>1. ASSUME NEW c \in ToSet(x.consumers) PROVE ConsumerCopes(c, t)
    <3>1. PICK s : s = Step("fuel", c, x.id, x.fuel)
      OBVIOUS
    <3>2. s.kind = "fuel" /\ s.part = c /\ IsOfInstallation(s, x)
      BY <3>1, FieldsOfStep DEF IsOfInstallation
    <3> QED
      BY <1>3, <1>4, <3>2 DEF StepCopes, EvaluableKinds
  <2>2. ASSUME NEW g \in ToSet(x.generators) PROVE GeneratorCopes(g, t)
    <3>1. PICK s : s = Step("generator", g, x.id, x.fuel)
      OBVIOUS
    <3>2. s.kind = "generator" /\ s.part = g /\ IsOfInstallation(s, x)
      BY <3>1, FieldsOfStep DEF IsOfInstallation, IsOfSet
    <3> QED
      BY <1>3, <1>4, <3>2 DEF StepCopes, EvaluableKinds
  <2>3. ASSUME NEW g \in ToSet(x.generators), NEW c \in ToSet(g.consumers) PROVE ConsumerCopes(c, t)
    <3>1. PICK s : s = Step("electricity", c, g.id, x.fuel)
      OBVIOUS
    <3>2. IsOfSet(s, g, x)
      BY <3>1 DEF IsOfSet
    <3>3. IsOfInstallation(s, x)
      BY <3>2 DEF IsOfInstallation
    <3>4. s.kind = "electricity" /\ s.part = c
      BY <3>1, FieldsOfStep
    <3> QED
      BY <1>3, <1>4, <3>3, <3>4 DEF StepCopes, EvaluableKinds
  <2> QED
    BY <2>1, <2>2, <2>3 DEF InstallationCopes
<1> QED
  BY <1>2, <1>4

LEMMA ValidHolds ==
  ASSUME Settled, ReportStands, SetsInOrder(yaml)
  PROVE  ValidWhenAllCope
<1> SUFFICES ASSUME report # Nothing, NEW t \in DOMAIN periods
             PROVE  /\ \A x \in ToSet(yaml.installations) : report.installations[x.id].valid[t] <=> InstallationCopes(x, t)
                    /\ report.asset.valid[t] <=> \A x \in ToSet(yaml.installations) : InstallationCopes(x, t)
  BY DEF ValidWhenAllCope
<1>1. /\ mapped /\ report = ReportNow /\ IsWellFormed(yaml) /\ RegisteredUpTo(Len(Steps))
      /\ Evaluable \subseteq DOMAIN results
  BY DEF ReportStands, Settled, EnergyInv, Stages, MappedUpTo
<1>2. /\ report.asset.valid[t] = Validity(Asset, t)
      /\ \A id \in InstallationIds : report.installations[id].valid[t] = Validity(id, t)
  BY <1>1 DEF ReportNow, ContainerReport
<1> DEFINE evaluable == {k \in ComponentSteps : Steps[k].kind \in EvaluableKinds}
<1>3. \A k \in evaluable : Steps[k].part.id \in DOMAIN results /\ (results[Steps[k].part.id][t].valid <=> StepCopes(Steps[k], t))
  <2> SUFFICES ASSUME NEW k \in evaluable PROVE Steps[k].part.id \in DOMAIN results
    BY <1>1, StepValid
  <2>1. PICK i \in 1 .. Len(nodes) : Stands(i, k)
    BY <1>1, Kinds DEF RegisteredUpTo, ComponentSteps
  <2>2. Steps[k] \in StepsOf({"generator", "fuel", "electricity"})
    BY <1>1, <2>1, StepFound DEF RegisteredUpTo, EvaluableKinds
  <2>3. Steps[k].part.id \in Evaluable
    BY <2>2 DEF Evaluable
  <2> QED
    BY <1>1, <2>3
<1>4. \A c \in DOMAIN results : \E k \in evaluable : Steps[k].part.id = c
  BY DEF ReportStands, EvaluableKinds
<1>5. ASSUME NEW id PROVE Validity(id, t) <=> \A k \in evaluable : Steps[k].part.id \in AllChildren(id) => StepCopes(Steps[k], t)
  BY <1>3, <1>4 DEF Validity
<1>6. ASSUME NEW x \in ToSet(yaml.installations) PROVE Validity(x.id, t) <=> InstallationCopes(x, t)
  <2>1. \A k \in evaluable : Steps[k].part.id \in AllChildren(x.id) <=> IsOfInstallation(Steps[k], x)
    BY <1>1, OwnBelow
  <2>2. InstallationCopes(x, t) <=> \A k \in evaluable : IsOfInstallation(Steps[k], x) => StepCopes(Steps[k], t)
    BY <1>1, InstallationCopesBy
  <2> QED
    BY <1>5, <2>1, <2>2
<1>7. ASSUME NEW k \in evaluable
      PROVE  \E x \in ToSet(yaml.installations) : IsOfInstallation(Steps[k], x) /\ Steps[k].part.id \in AllChildren(Asset)
  <2>1. PICK s : s = Steps[k] /\ s \in ToSet(Steps)
    BY DEF ComponentSteps, ToSet
  <2>2. s # Step("asset", [id |-> Asset], Asset, <<>>)
    BY <2>1, FieldsOfStep DEF EvaluableKinds
  <2>3. PICK x \in ToSet(yaml.installations) : IsOfInstallation(s, x)
    BY <1>1, <2>1, <2>2, StepsOfParts DEF Steps, MappingSteps
  <2>4. s.part.id \in AllChildren(Asset)
    BY <1>1, <2>1, <2>3, EvaluableBelow DEF EvaluableKinds
  <2> QED
    BY <2>1, <2>3, <2>4
<1>8. Validity(Asset, t) <=> \A k \in evaluable : StepCopes(Steps[k], t)
  BY <1>5, <1>7
<1>9. Validity(Asset, t) <=> \A x \in ToSet(yaml.installations) : InstallationCopes(x, t)
  <2>1. \A x \in ToSet(yaml.installations) :
           InstallationCopes(x, t) <=> \A k \in evaluable : IsOfInstallation(Steps[k], x) => StepCopes(Steps[k], t)
    BY <1>1, InstallationCopesBy
  <2> HIDE DEF evaluable
  <2> QED
    BY <1>7, <1>8, <2>1
<1>10. \A x \in ToSet(yaml.installations) : x.id \in InstallationIds
  BY DEF InstallationIds
<1> QED
  BY <1>2, <1>6, <1>9, <1>10

=============================================================================

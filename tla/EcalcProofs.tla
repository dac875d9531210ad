---------------------------- MODULE EcalcProofs ----------------------------
(***************************************************************************)
(* The theorems of EnergyModel as theorems of the program: no part of Ecalc *)
(* steps on the state of another.  Then the comparison of two results, with *)
(* the lemmas on periods that are split at the dates of others.             *)
(***************************************************************************)
EXTENDS Ecalc, EnergyReportProofs

\* A model keeps to its invariant while it is called; otherwise there is none.
ModelInv ==
  IF part = "model" THEN yaml \in Yamls /\ EnergyInv ELSE ~mapped /\ DOMAIN results = {}

LEMMA SchemaHolds ==
  ASSUME yaml \in Yamls
  PROVE  Schema
  BY YamlsAssumption DEF Schema

LEMMA ModelUnchanged ==
  ASSUME ModelInv, UNCHANGED <<part, energyModelVars>>
  PROVE  ModelInv'
<1>1. UNCHANGED <<yaml, activity, raised, is_validated, mapped, next, nodes, edges, simulated, built, results>>
  BY DEF energyModelVars, mapVars, resultVars
<1>2. CASE part # "model"
  BY <1>1, <1>2 DEF ModelInv
<1>3. CASE part = "model"
  <2>1. EnergyInv /\ yaml \in Yamls
    BY <1>3 DEF ModelInv
  <2>2. Stages' /\ BuiltWhole'
    BY <1>1, <2>1 DEF EnergyInv, Stages, BuiltWhole
  <2>3. Steps' = Steps /\ ComponentSteps' = ComponentSteps
    BY <1>1, KeepsSteps
  <2>4. \A m : RegisteredUpTo(m) => RegisteredUpTo(m)'
    BY <1>1, KeepsRegistered
  <2>5. MappedUpTo' /\ SimulatesComponents'
    BY <1>1, <2>1, <2>3, <2>4 DEF EnergyInv, MappedUpTo, SimulatesComponents
  <2>6. EvaluatedInOrder'
    BY <1>1, <2>1, <2>3 DEF EnergyInv, EvaluatedInOrder, Stands, IsConsumer
  <2>7. RunsOnceMapped'
    BY <1>1, <2>1, KeepsRuns DEF EnergyInv
  <2> QED
    BY <1>1, <1>3, <2>1, <2>2, <2>5, <2>6, <2>7 DEF ModelInv, EnergyInv
<1> QED
  BY <1>2, <1>3

LEMMA ModelStarts ==
  ASSUME Init
  PROVE  ModelInv
<1>1. EnergyInv
  BY EnergyStarts DEF Init
<1>2. ~mapped /\ DOMAIN results = {}
  BY <1>1 DEF Init, InitEnergyModel, EnergyInv, BuiltWhole
<1>3. part = "model" => yaml \in Yamls
  BY DEF Init
<1> QED
  BY <1>1, <1>2, <1>3 DEF ModelInv

\* The invariant of the life of a model, whatever the order of the calls.
THEOREM ModelInductive == Spec => []ModelInv
<1>1. Init => ModelInv
  BY ModelStarts
<1>2. ModelInv /\ [Next]_vars => ModelInv'
  <2> SUFFICES ASSUME ModelInv, [Next]_vars PROVE ModelInv'
    OBVIOUS
  <2>1. CASE part = "model" /\ NextEnergyModel /\ part' = part
    <3>1. yaml \in Yamls /\ EnergyInv /\ Schema
      BY <2>1, SchemaHolds DEF ModelInv
    <3>2. EnergyInv' /\ yaml' = yaml
      BY <2>1, <3>1, EnergyKeeps
    <3> QED
      BY <2>1, <3>1, <3>2 DEF ModelInv
  <2>2. CASE UNCHANGED <<part, energyModelVars>>
    BY <2>2, ModelUnchanged
  <2> QED
    BY <2>1, <2>2 DEF Next, vars
<1> QED
  BY <1>1, <1>2, PTL DEF Spec

\* Nothing is evaluated of a model that was mapped in part, whatever is called
\* after the mapping has raised.
THEOREM NoPartEvaluated == Spec => []NothingEvaluatedInPart
<1>1. ModelInv => NothingEvaluatedInPart
  BY DEF ModelInv, EnergyInv, BuiltWhole, NothingEvaluatedInPart
<1> QED
  BY <1>1, ModelInductive, PTL

\* A model that was mapped can be evaluated and reported, but for what lost all it
\* holds to the period of the run.
THEOREM MappedModelRuns == Spec => []RunsOnceMapped
<1>1. ModelInv => RunsOnceMapped
  BY DEF ModelInv, EnergyInv, RunsOnceMapped
<1> QED
  BY <1>1, ModelInductive, PTL

\* What a model is mapped and evaluated to stands, of each of the parts.
SettledInv ==
  ModelInv /\ (part = "model" => Settled)

\* The invariant of what is evaluated: the values of the variables are of their
\* types, every result is what the models of its consumer, or the results of its
\* generator set's consumers, say, and what was mapped could be.
THEOREM ResultsInductive == Spec => []SettledInv
<1>1. Init => SettledInv
  <2> SUFFICES ASSUME Init PROVE part = "model" => Settled
    BY ModelStarts DEF SettledInv
  <2> QED
    BY SettledStarts DEF Init
<1>2. ModelInv /\ ModelInv' /\ SettledInv /\ [Next]_vars => SettledInv'
  <2> SUFFICES ASSUME ModelInv, ModelInv', part = "model" => Settled, [Next]_vars, part' = "model" PROVE Settled'
    BY DEF SettledInv
  <2>1. CASE part = "model" /\ NextEnergyModel
    BY <2>1, SchemaHolds, SettledKeeps DEF ModelInv
  <2>2. CASE UNCHANGED <<part, energyModelVars>>
    <3>1. Settled /\ EnergyInv'
      BY <2>2 DEF ModelInv
    <3> QED
      BY <2>2, <3>1, SettledStays
  <2> QED
    BY <2>1, <2>2 DEF Next, vars
<1> QED
  BY <1>1, <1>2, ModelInductive, PTL DEF Spec

\* A consumer system runs in every period on the first of its settings that keeps
\* all units within capacity, if the dates of the model are written in their order.
THEOREM FirstSettingRuns == Spec => [](DatesInOrder(yaml) => FirstSufficientSetting)
<1>1. SettledInv => (DatesInOrder(yaml) => FirstSufficientSetting)
  BY FirstSufficientHolds DEF SettledInv, ModelInv, FirstSufficientSetting
<1> QED
  BY <1>1, ResultsInductive, PTL

\* A generator set supplies in every period what its consumers draw, if the dates of
\* the model are written in their order.
THEOREM PowerSupplied == Spec => [](DatesInOrder(yaml) => PowerIsBalanced)
<1>1. SettledInv => (DatesInOrder(yaml) => PowerIsBalanced)
  BY PowerBalances DEF SettledInv, ModelInv, PowerIsBalanced
<1> QED
  BY <1>1, ResultsInductive, PTL

\* What is known of the variables and of the report, of each of the parts.
ReportInv ==
  SettledInv /\ RoundsKept /\ ReportStands

\* The invariant of what is reported: the variables of the last run that was begun have
\* the values of their expressions, and a report is what would be reported now.
THEOREM ReportInductive == Spec => []ReportInv
<1>1. Init => RoundsKept /\ ReportStands
  BY RoundsStarted, ReportStarts DEF Init
<1>2. SettledInv /\ SettledInv' /\ ReportInv /\ [Next]_vars => ReportInv'
  <2> SUFFICES ASSUME SettledInv, RoundsKept, ReportStands, [Next]_vars PROVE RoundsKept' /\ ReportStands'
    BY DEF ReportInv
  <2>1. CASE part = "model" /\ NextEnergyModel
    <3>1. Schema /\ Settled
      BY <2>1, SchemaHolds DEF SettledInv, ModelInv
    <3>2. RoundsKept'
      BY <2>1, <3>1, RoundsKeep DEF Settled
    <3>3. ReportStands'
      BY <2>1, <3>1, ReportKept DEF Settled
    <3> QED
      BY <3>2, <3>3
  <2>2. CASE UNCHANGED <<part, energyModelVars>>
    <3>1. UNCHANGED <<yaml, activity, variablesVars, nodes, edges, periods, mapped, results, report>>
      BY <2>2 DEF energyModelVars, mapVars, resultVars, variablesVars
    <3>2. RoundsKept'
      BY <3>1, RoundsElse
    <3>3. ReportStands'
      BY <3>1, ReportElse
    <3> QED
      BY <3>2, <3>3
  <2> QED
    BY <2>1, <2>2 DEF Next, vars
<1> QED
  BY <1>1, <1>2, ResultsInductive, PTL DEF Spec, ReportInv

\* The variables end up as they are defined, in whatever order they are written, if the
\* expressions of each are written in the order of their dates.
THEOREM VariablesResolved == Spec => [](VariablesInOrder(yaml) => VariablesAsDefined)
<1>1. ReportInv => (VariablesInOrder(yaml) => VariablesAsDefined)
  BY VariablesHold DEF ReportInv
<1> QED
  BY <1>1, ReportInductive, PTL

\* What is emitted follows the fuel in force, and what the asset burns and emits is what its
\* installations do, if the fuels are written in the order of their dates.
THEOREM EmissionsFollowed == Spec => [](FuelsInOrder(yaml) => EmissionsFollowTheFuel)
<1>1. ReportInv /\ FuelsInOrder(yaml) => EmissionsFollowTheFuel
  <2> SUFFICES ASSUME ReportInv, FuelsInOrder(yaml) PROVE EmissionsFollowTheFuel
    OBVIOUS
  <2>1. CASE part = "model"
    BY <2>1, EmissionsFollow DEF ReportInv, SettledInv
  <2>2. CASE part # "model"
    BY <2>2 DEF ReportInv, SettledInv, ModelInv, ReportStands, EmissionsFollowTheFuel
  <2> QED
    BY <2>1, <2>2
<1> QED
  BY <1>1, ReportInductive, PTL

\* A period of a report is valid exactly when all below cope with it, if the models of
\* consumers and generator sets are written in the order of their dates.
THEOREM ValidIsCoping == Spec => [](SetsInOrder(yaml) => ValidWhenAllCope)
<1>1. ReportInv /\ SetsInOrder(yaml) => ValidWhenAllCope
  <2> SUFFICES ASSUME ReportInv, SetsInOrder(yaml) PROVE ValidWhenAllCope
    OBVIOUS
  <2>1. CASE part = "model"
    BY <2>1, ValidHolds DEF ReportInv, SettledInv
  <2>2. CASE part # "model"
    BY <2>2 DEF ReportInv, SettledInv, ModelInv, ReportStands, ValidWhenAllCope
  <2> QED
    BY <2>1, <2>2
<1> QED
  BY <1>1, ReportInductive, PTL

(***************************************************************************)
(* The difference between two results.                                      *)
(***************************************************************************)
LEMMA Following ==
  ASSUME NEW ps, FollowOn(ps)
  PROVE  \E n, ts : Between(ps, ts, n)
<1> DEFINE n == Len(ps)
           ts == [i \in 1 .. n + 1 |-> IF i = n + 1 THEN End(ps[n]) ELSE Start(ps[i])]
<1>1. n \in Nat \ {0} /\ DOMAIN ps = 1 .. n
  <2>1. ps \in Seq(Int \X Int) /\ ps # <<>>
    BY DEF FollowOn
  <2> QED
    BY <2>1, EmptySeq, LenProperties
<1>2. \A i \in 1 .. n : /\ ps[i] \in Int \X Int
                        /\ Start(ps[i]) \in Int /\ End(ps[i]) \in Int /\ Start(ps[i]) < End(ps[i])
                        /\ i < n => End(ps[i]) = Start(ps[i + 1])
  <2>1. ASSUME NEW i \in 1 .. n PROVE ps[i] \in Int \X Int
    BY ElementOfSeq DEF FollowOn
  <2> QED
    BY <1>1, <2>1 DEF FollowOn, Start, End
<1> HIDE DEF n
<1>3. ts \in [1 .. n + 1 -> Int]
  <2>1. \A i \in 1 .. n + 1 : i = n + 1 \/ i \in 1 .. n
    BY <1>1
  <2>2. n \in 1 .. n
    BY <1>1
  <2> QED
    BY <1>2, <2>1, <2>2
<1>4. \A i \in 1 .. n : ts[i] = Start(ps[i]) /\ ts[i + 1] = End(ps[i]) /\ ts[i] < ts[i + 1]
  <2>1. ASSUME NEW i \in 1 .. n PROVE ts[i] = Start(ps[i]) /\ ts[i + 1] = End(ps[i])
    <3>1. i \in 1 .. n + 1 /\ i + 1 \in 1 .. n + 1 /\ i # n + 1 /\ (i + 1 = n + 1 <=> i = n) /\ (i # n => i < n)
      BY <1>1
    <3> QED
      BY <1>2, <3>1
  <2> HIDE DEF ts
  <2> QED
    BY <1>2, <2>1
<1> HIDE DEF ts
<1>5. \A i, j \in 1 .. n + 1 : i < j => ts[i] < ts[j]
  <2> DEFINE S == {k \in Nat : \A i, j \in 1 .. n + 1 : j = i + k + 1 => ts[i] < ts[j]}
  <2>1. 0 \in S
    BY <1>1, <1>4
  <2>2. ASSUME NEW k \in Nat, k \in S PROVE k + 1 \in S
    <3>1. ASSUME NEW i \in 1 .. n + 1, NEW j \in 1 .. n + 1, j = i + (k + 1) + 1 PROVE ts[i] < ts[j]
      <4>1. j - 1 \in 1 .. n /\ j - 1 \in 1 .. n + 1 /\ j - 1 = i + k + 1
        BY <1>1, <3>1
      <4>2. ts[i] < ts[j - 1]
        BY <2>2, <4>1
      <4>3. ts[j - 1] < ts[(j - 1) + 1] /\ (j - 1) + 1 = j
        BY <1>4, <4>1
      <4>4. ts[i] \in Int /\ ts[j - 1] \in Int /\ ts[j] \in Int
        BY <1>3, <4>1
      <4> QED
        BY <4>2, <4>3, <4>4
    <3> QED
      BY <3>1
  <2> HIDE DEF S
  <2>3. \A k \in Nat : k \in S
    BY <2>1, <2>2, FromZero
  <2>4. ASSUME NEW i \in 1 .. n + 1, NEW j \in 1 .. n + 1, i < j PROVE ts[i] < ts[j]
    <3>1. j - i - 1 \in Nat /\ j = i + (j - i - 1) + 1
      BY <1>1, <2>4
    <3>2. j - i - 1 \in S
      BY <2>3, <3>1
    <3> QED
      BY <3>1, <3>2 DEF S
  <2> QED
    BY <2>4
<1>6. IsList(ps) /\ Len(ps) = n
  BY ListOf DEF FollowOn, n
<1>7. \A i \in 1 .. n : ps[i] = <<ts[i], ts[i + 1]>>
  BY <1>2, <1>4 DEF Start, End
<1> QED
  BY <1>1, <1>3, <1>5, <1>6, <1>7 DEF Between

\* The dates of ts that lie within the dates us are among them, and us lies within ts.
Refines(us, m, ts, n) ==
  /\ ts[1] <= us[1] /\ us[m + 1] <= ts[n + 1]
  /\ \A i \in 1 .. n + 1 : us[1] <= ts[i] /\ ts[i] <= us[m + 1] => \E k \in 1 .. m + 1 : us[k] = ts[i]

\* Where the dates ts, cut to the dates us, lie among these.
Placed(at, us, m, ts, n) ==
  /\ at \in [1 .. n + 1 -> 1 .. m + 1]
  /\ \A i \in 1 .. n + 1 : us[at[i]] = Later(us[1], Earlier(us[m + 1], ts[i]))
  /\ at[1] = 1 /\ at[n + 1] = m + 1

LEMMA Increasing ==
  ASSUME NEW ps, NEW us, NEW m, Between(ps, us, m)
  PROVE  /\ m \in Nat \ {0} /\ us \in [1 .. m + 1 -> Int]
         /\ \A j, k \in 1 .. m + 1 : /\ j < k <=> us[j] < us[k]
                                     /\ j = k <=> us[j] = us[k]
                                     /\ j <= k <=> us[j] <= us[k]
<1>1. m \in Nat \ {0} /\ us \in [1 .. m + 1 -> Int] /\ \A i, j \in 1 .. m + 1 : i < j => us[i] < us[j]
  BY DEF Between
<1>2. ASSUME NEW j \in 1 .. m + 1, NEW k \in 1 .. m + 1
      PROVE  (j < k <=> us[j] < us[k]) /\ (j = k <=> us[j] = us[k]) /\ (j <= k <=> us[j] <= us[k])
  <2>1. us[j] \in Int /\ us[k] \in Int /\ j \in Int /\ k \in Int
    BY <1>1
  <2>2. j < k \/ j = k \/ k < j
    BY <2>1
  <2> QED
    BY <1>1, <2>1, <2>2
<1> QED
  BY <1>1, <1>2

LEMMA Placing ==
  ASSUME NEW on, NEW ts, NEW n, Between(on, ts, n), NEW ps, NEW us, NEW m, Between(ps, us, m), Refines(us, m, ts, n)
  PROVE  \E at : Placed(at, us, m, ts, n)
<1>1. m \in Nat \ {0} /\ us \in [1 .. m + 1 -> Int] /\ n \in Nat \ {0} /\ ts \in [1 .. n + 1 -> Int]
  BY Increasing
<1>2. 1 \in 1 .. m + 1 /\ m + 1 \in 1 .. m + 1 /\ 1 \in 1 .. n + 1 /\ n + 1 \in 1 .. n + 1 /\ us[1] < us[m + 1]
  <2>1. 1 \in 1 .. m + 1 /\ m + 1 \in 1 .. m + 1 /\ 1 \in 1 .. n + 1 /\ n + 1 \in 1 .. n + 1 /\ 1 < m + 1
    BY <1>1
  <2> QED
    BY <2>1, Increasing
<1>3. ASSUME NEW i \in 1 .. n + 1
      PROVE  \E k \in 1 .. m + 1 : us[k] = Later(us[1], Earlier(us[m + 1], ts[i]))
  <2>1. us[1] \in Int /\ us[m + 1] \in Int /\ ts[i] \in Int
    BY <1>1, <1>2
  <2>2. CASE ts[i] < us[1]
    BY <1>2, <2>1, <2>2 DEF Later, Earlier
  <2>3. CASE us[m + 1] < ts[i]
    BY <1>2, <2>1, <2>3 DEF Later, Earlier
  <2>4. CASE us[1] <= ts[i] /\ ts[i] <= us[m + 1]
    <3>1. \E k \in 1 .. m + 1 : us[k] = ts[i]
      BY <2>4 DEF Refines
    <3>2. Later(us[1], Earlier(us[m + 1], ts[i])) = ts[i]
      BY <2>1, <2>4 DEF Later, Earlier
    <3> QED
      BY <3>1, <3>2
  <2> QED
    BY <2>1, <2>2, <2>3, <2>4
<1> DEFINE at == [i \in 1 .. n + 1 |-> CHOOSE k \in 1 .. m + 1 : us[k] = Later(us[1], Earlier(us[m + 1], ts[i]))]
<1>4. at \in [1 .. n + 1 -> 1 .. m + 1] /\ \A i \in 1 .. n + 1 : us[at[i]] = Later(us[1], Earlier(us[m + 1], ts[i]))
  BY <1>3
<1> HIDE DEF at
<1>5. us[at[1]] = us[1] /\ us[at[n + 1]] = us[m + 1]
  <2>1. us[1] \in Int /\ us[m + 1] \in Int /\ ts[1] \in Int /\ ts[n + 1] \in Int /\ ts[1] <= us[1] /\ us[m + 1] <= ts[n + 1]
    BY <1>1, <1>2 DEF Refines
  <2> QED
    BY <1>2, <1>4, <2>1 DEF Later, Earlier
<1>6. at[1] = 1 /\ at[n + 1] = m + 1
  <2>1. at[1] \in 1 .. m + 1 /\ at[n + 1] \in 1 .. m + 1
    BY <1>2, <1>4
  <2> QED
    BY <1>2, <1>5, <2>1, Increasing
<1> QED
  BY <1>4, <1>6 DEF Placed

\* A period is split into the periods between the places of its dates.
LEMMA PiecesBetween ==
  ASSUME NEW on, NEW ts, NEW n, Between(on, ts, n), NEW ps, NEW us, NEW m, Between(ps, us, m),
         NEW at, Placed(at, us, m, ts, n), NEW i \in 1 .. n
  PROVE  at[i] <= at[i + 1] /\ Pieces(on[i], ps) = at[i + 1] - at[i]
<1>1. m \in Nat \ {0} /\ us \in [1 .. m + 1 -> Int] /\ n \in Nat \ {0} /\ ts \in [1 .. n + 1 -> Int]
  BY Increasing
<1>2. i \in 1 .. n + 1 /\ i + 1 \in 1 .. n + 1 /\ 1 \in 1 .. m + 1 /\ m + 1 \in 1 .. m + 1
  BY <1>1
<1>3. us[1] < us[m + 1] /\ ts[i] < ts[i + 1]
  <2>1. 1 < m + 1 /\ i < i + 1
    BY <1>1, <1>2
  <2> QED
    BY <1>2, <2>1, Increasing
<1>4. us[1] \in Int /\ us[m + 1] \in Int /\ ts[i] \in Int /\ ts[i + 1] \in Int
  BY <1>1, <1>2
<1>5. /\ at[i] \in 1 .. m + 1 /\ at[i + 1] \in 1 .. m + 1
      /\ us[at[i]] = Later(us[1], Earlier(us[m + 1], ts[i]))
      /\ us[at[i + 1]] = Later(us[1], Earlier(us[m + 1], ts[i + 1]))
  BY <1>2 DEF Placed
<1>6. Start(on[i]) = ts[i] /\ End(on[i]) = ts[i + 1]
  BY DEF Between, Start, End
<1>7. Span(ps) = <<us[1], us[m + 1]>> /\ DOMAIN ps = 1 .. m
  BY AllBetween DEF Span
<1>8. Start(Span(ps)) = us[1] /\ End(Span(ps)) = us[m + 1]
  BY <1>7 DEF Start, End
<1>9. Intersects(on[i], Span(ps)) <=> ts[i] < us[m + 1] /\ us[1] < ts[i + 1]
  BY <1>3, <1>4, <1>6, <1>8 DEF Intersects, ContainsDate
<1>10. CASE ~(ts[i] < us[m + 1] /\ us[1] < ts[i + 1])
  <2>1. us[at[i]] = us[at[i + 1]]
    BY <1>3, <1>4, <1>5, <1>10 DEF Later, Earlier
  <2>2. at[i] = at[i + 1]
    BY <1>5, <2>1, Increasing
  <2>3. Pieces(on[i], ps) = 0
    BY <1>9, <1>10 DEF Pieces
  <2> QED
    BY <1>5, <2>2, <2>3
<1>11. CASE ts[i] < us[m + 1] /\ us[1] < ts[i + 1]
  <2>1. us[at[i]] = Later(ts[i], us[1]) /\ us[at[i + 1]] = Earlier(ts[i + 1], us[m + 1])
    BY <1>3, <1>4, <1>5, <1>11 DEF Later, Earlier
  <2>2. us[at[i]] < us[at[i + 1]]
    BY <1>3, <1>4, <1>11, <2>1 DEF Later, Earlier
  <2>3. at[i] < at[i + 1]
    BY <1>5, <2>2, Increasing
  <2> DEFINE cut == Intersection(on[i], Span(ps))
  <2>4. Start(cut) = us[at[i]] /\ End(cut) = us[at[i + 1]]
    BY <1>6, <1>8, <2>1 DEF Intersection, Start, End
  <2>5. \A k \in 1 .. m : Start(ps[k]) = us[k] /\ End(ps[k]) = us[k + 1]
    BY DEF Between, Start, End
  <2>6. (CHOOSE k \in DOMAIN ps : Start(ps[k]) = Start(cut)) = at[i]
    <3>1. at[i] \in 1 .. m
      BY <1>1, <1>5, <2>3
    <3>2. \A k \in 1 .. m : Start(ps[k]) = Start(cut) <=> k = at[i]
      <4>1. ASSUME NEW k \in 1 .. m PROVE us[k] = us[at[i]] <=> k = at[i]
        <5>1. k \in 1 .. m + 1
          BY <1>1
        <5>2. PICK q \in 1 .. m + 1 : q = at[i]
          BY <1>5
        <5>3. us[k] = us[q] <=> k = q
          BY <5>1, Increasing
        <5> QED
          BY <5>2, <5>3
      <4> HIDE DEF cut
      <4> QED
        BY <2>4, <2>5, <4>1
    <3> HIDE DEF cut
    <3> QED
      BY <1>7, <3>1, <3>2
  <2>7. (CHOOSE k \in DOMAIN ps : End(ps[k]) = End(cut)) = at[i + 1] - 1
    <3>1. at[i + 1] - 1 \in 1 .. m
      BY <1>1, <1>5, <2>3
    <3>2. \A k \in 1 .. m : End(ps[k]) = End(cut) <=> k = at[i + 1] - 1
      <4>1. ASSUME NEW k \in 1 .. m PROVE us[k + 1] = us[at[i + 1]] <=> k = at[i + 1] - 1
        <5>1. k + 1 \in 1 .. m + 1
          BY <1>1
        <5>2. PICK q \in 1 .. m + 1 : q = at[i + 1]
          BY <1>5
        <5>3. us[k + 1] = us[q] <=> k + 1 = q
          BY <5>1, Increasing
        <5>4. k + 1 = q <=> k = q - 1
          BY <1>1
        <5> QED
          BY <5>2, <5>3, <5>4
      <4> HIDE DEF cut
      <4> QED
        BY <2>4, <2>5, <4>1
    <3> HIDE DEF cut
    <3> QED
      BY <1>7, <3>1, <3>2
  <2>8. Pieces(on[i], ps) = 1 + (at[i + 1] - 1) - at[i]
    BY <1>9, <1>11, <2>6, <2>7 DEF Pieces
  <2>9. 1 + (at[i + 1] - 1) - at[i] = at[i + 1] - at[i] /\ at[i] <= at[i + 1]
    BY <1>5, <2>3
  <2> QED
    BY <2>8, <2>9
<1> QED
  BY <1>10, <1>11

\* Between the places of two dates, a list has the value between the dates.
FilledFrom(list, values, at, m, n) ==
  \A k \in 1 .. m, i \in 1 .. n : at[i] <= k /\ k < at[i + 1] => list[k] = values[i]

LEMMA FittedPlaced ==
  ASSUME NEW A, NEW on, NEW ts, NEW n, Between(on, ts, n), NEW ps, NEW us, NEW m, Between(ps, us, m),
         NEW at, Placed(at, us, m, ts, n), NEW values \in [1 .. n -> A]
  PROVE  FittedTo(values, on, ps) \in [1 .. m -> A] /\ FilledFrom(FittedTo(values, on, ps), values, at, m, n)
<1>1. m \in Nat \ {0} /\ n \in Nat \ {0}
  BY Increasing
<1>2. /\ at \in [1 .. n + 1 -> 1 .. m + 1] /\ at[1] = 1 /\ at[n + 1] = m + 1
      /\ \A i \in 1 .. n : at[i] \in 1 .. m + 1 /\ at[i + 1] \in 1 .. m + 1 /\ at[i] <= at[i + 1]
  <2>1. \A i \in 1 .. n : i \in 1 .. n + 1 /\ i + 1 \in 1 .. n + 1
    BY <1>1
  <2>2. at \in [1 .. n + 1 -> 1 .. m + 1] /\ at[1] = 1 /\ at[n + 1] = m + 1
    BY DEF Placed
  <2>3. \A i \in 1 .. n : at[i] <= at[i + 1]
    BY PiecesBetween
  <2> QED
    BY <2>1, <2>2, <2>3
<1> DEFINE seqs == [i \in 1 .. n |-> [k \in 1 .. at[i + 1] - at[i] |-> values[i]]]
<1>3. FittedTo(values, on, ps) = FlattenSeq(seqs)
  <2>1. [i \in DOMAIN values |-> [k \in 1 .. Pieces(on[i], ps) |-> values[i]]] = seqs
    <3>1. DOMAIN values = 1 .. n
      OBVIOUS
    <3>2. ASSUME NEW i \in 1 .. n
          PROVE  [k \in 1 .. Pieces(on[i], ps) |-> values[i]] = [k \in 1 .. at[i + 1] - at[i] |-> values[i]]
      <4>1. Pieces(on[i], ps) = at[i + 1] - at[i]
        BY PiecesBetween
      <4> QED
        BY <4>1, Zenon
    <3> QED
      BY <3>1, <3>2, Zenon
  <2> HIDE DEF seqs
  <2> QED
    BY <2>1, Zenon DEF FittedTo
<1>4. ASSUME NEW i \in 1 .. n
      PROVE  seqs[i] \in [1 .. at[i + 1] - at[i] -> A] /\ \A k \in 1 .. at[i + 1] - at[i] : seqs[i][k] = values[i]
  OBVIOUS
<1> HIDE DEF seqs
<1>5. ASSUME NEW i \in 1 .. n PROVE seqs[i] \in Seq(A) /\ Len(seqs[i]) = at[i + 1] - at[i]
  <2>1. PICK d : d = at[i + 1] - at[i]
    OBVIOUS
  <2>2. d \in Nat /\ seqs[i] \in [1 .. d -> A]
    BY <1>2, <1>4, <2>1
  <2>3. seqs[i] \in Seq(A)
    BY <2>2, SeqDef
  <2> QED
    BY <2>1, <2>2, <2>3, LenProperties
<1>6. seqs \in Seq(Seq(A)) /\ Len(seqs) = n
  <2>1. seqs \in [1 .. n -> Seq(A)]
    <3>1. seqs = [i \in 1 .. n |-> seqs[i]]
      BY DEF seqs
    <3> QED
      BY <1>5, <3>1
  <2>2. seqs \in Seq(Seq(A))
    BY <1>1, <2>1, SeqDef
  <2> QED
    BY <1>1, <2>1, <2>2, LenProperties
<1>7. PICK f : /\ FlattenSeq(seqs) = f[n] /\ f[1] = seqs[1]
               /\ \A i \in 1 .. n - 1 : f[i + 1] = f[i] \o seqs[i + 1]
  BY <1>1, <1>6, FlattenSolved
<1> DEFINE Fills(i) == /\ f[i] \in Seq(A) /\ Len(f[i]) = at[i + 1] - 1
                       /\ \A j \in 1 .. i : \A k \in 1 .. m :
                            at[j] <= k /\ k < at[j + 1] => k <= at[i + 1] - 1 /\ f[i][k] = values[j]
           S == {i \in Nat : i + 1 \in 1 .. n => Fills(i + 1)}
<1>8. 0 \in S
  <2>1. 1 \in 1 .. n
    BY <1>1
  <2>2. seqs[1] \in Seq(A) /\ Len(seqs[1]) = at[2] - 1 /\ at[2] \in 1 .. m + 1
    BY <1>2, <1>5, <2>1
  <2>3. ASSUME NEW k \in 1 .. m, at[1] <= k, k < at[2] PROVE k <= at[2] - 1 /\ f[1][k] = values[1]
    <3>1. k \in 1 .. at[1 + 1] - at[1]
      BY <1>2, <2>1, <2>2, <2>3
    <3>2. k <= at[2] - 1
      BY <2>2, <2>3
    <3> QED
      BY <1>4, <1>7, <2>1, <3>1, <3>2
  <2>4. Fills(1)
    BY <1>7, <2>2, <2>3
  <2> QED
    BY <2>4
<1>9. ASSUME NEW i \in Nat, i \in S PROVE i + 1 \in S
  <2> SUFFICES ASSUME (i + 1) + 1 \in 1 .. n PROVE Fills((i + 1) + 1)
    OBVIOUS
  <2>1. PICK a : a = i + 1
    OBVIOUS
  <2>2. a \in 1 .. n /\ a + 1 \in 1 .. n /\ a \in 1 .. n - 1 /\ a \in Nat
    BY <1>1, <2>1
  <2>3. Fills(a)
    BY <1>9, <2>1, <2>2
  <2>4. f[a + 1] = f[a] \o seqs[a + 1]
    BY <1>7, <2>2
  <2>5. seqs[a + 1] \in Seq(A) /\ Len(seqs[a + 1]) = at[(a + 1) + 1] - at[a + 1]
    BY <1>5, <2>2
  <2>6. at[a + 1] \in 1 .. m + 1 /\ at[(a + 1) + 1] \in 1 .. m + 1 /\ at[a + 1] <= at[(a + 1) + 1]
    BY <1>2, <2>2
  <2>7. f[a] \in Seq(A) /\ Len(f[a]) = at[a + 1] - 1
    BY <2>3
  <2>8. PICK x, y, z : x = f[a] /\ y = seqs[a + 1] /\ z = f[a + 1]
    OBVIOUS
  <2>9. x \in Seq(A) /\ y \in Seq(A) /\ z = x \o y /\ Len(x) = at[a + 1] - 1 /\ Len(y) = at[(a + 1) + 1] - at[a + 1]
    BY <2>4, <2>5, <2>7, <2>8
  <2>10. /\ z \in Seq(A) /\ Len(z) = Len(x) + Len(y)
         /\ \A k \in 1 .. Len(x) + Len(y) : z[k] = IF k <= Len(x) THEN x[k] ELSE y[k - Len(x)]
    <3>1. /\ x \o y \in Seq(A) /\ Len(x \o y) = Len(x) + Len(y)
          /\ \A k \in 1 .. Len(x) + Len(y) : (x \o y)[k] = IF k <= Len(x) THEN x[k] ELSE y[k - Len(x)]
      BY <2>9, ConcatProperties
    <3> QED
      BY <2>9, <3>1
  <2>11. ASSUME NEW k \in 1 .. Len(x) + Len(y) PROVE f[a + 1][k] = IF k <= Len(x) THEN x[k] ELSE y[k - Len(x)]
    BY <2>8, <2>10
  <2>12. Len(f[a + 1]) = at[(a + 1) + 1] - 1
    BY <2>6, <2>8, <2>9, <2>10
  <2>13. ASSUME NEW j \in 1 .. a + 1, NEW k \in 1 .. m, at[j] <= k, k < at[j + 1]
         PROVE  k <= at[(a + 1) + 1] - 1 /\ f[a + 1][k] = values[j]
    <3>1. CASE j = a + 1
      <4>1. at[a + 1] <= k /\ k < at[(a + 1) + 1]
        BY <2>13, <3>1
      <4>2. k \in 1 .. Len(x) + Len(y) /\ ~(k <= Len(x)) /\ k - Len(x) \in 1 .. at[(a + 1) + 1] - at[a + 1]
        <5>1. PICK b, c : b = at[a + 1] /\ c = at[(a + 1) + 1]
          OBVIOUS
        <5> QED
          BY <2>6, <2>9, <4>1, <5>1
      <4>3. f[a + 1][k] = y[k - Len(x)]
        BY <2>11, <4>2
      <4>4. y[k - Len(x)] = values[a + 1]
        BY <1>4, <2>2, <2>8, <4>2
      <4>5. k <= at[(a + 1) + 1] - 1
        BY <2>6, <4>1
      <4> QED
        BY <3>1, <4>3, <4>4, <4>5
    <3>2. CASE j # a + 1
      <4>1. j \in 1 .. a
        BY <2>2, <3>2
      <4>2. k <= at[a + 1] - 1 /\ f[a][k] = values[j]
        BY <2>3, <2>13, <4>1
      <4>3. k \in 1 .. Len(x) + Len(y) /\ k <= Len(x) /\ k <= at[(a + 1) + 1] - 1
        BY <2>6, <2>9, <4>2
      <4> QED
        BY <2>8, <2>11, <4>2, <4>3
    <3> QED
      BY <3>1, <3>2
  <2>14. Fills(a + 1)
    BY <2>8, <2>10, <2>12, <2>13
  <2> QED
    BY <2>1, <2>14
<1> HIDE DEF S
<1>10. \A i \in Nat : i \in S
  BY <1>8, <1>9, FromZero
<1>11. Fills(n)
  <2>1. n - 1 \in Nat /\ (n - 1) + 1 = n /\ n \in 1 .. n
    BY <1>1
  <2>2. n - 1 \in S
    BY <1>10, <2>1
  <2> QED
    BY <2>1, <2>2 DEF S
<1>12. f[n] \in [1 .. m -> A]
  <2>1. f[n] \in Seq(A) /\ Len(f[n]) = m
    BY <1>1, <1>2, <1>11
  <2> QED
    BY <2>1, LenProperties
<1>13. FilledFrom(f[n], values, at, m, n)
  BY <1>11 DEF FilledFrom
<1> QED
  BY <1>3, <1>7, <1>12, <1>13

\* A day between the first and the last of some dates lies between two that follow one another.
LEMMA BetweenTwo ==
  ASSUME NEW ps, NEW ts, NEW n, Between(ps, ts, n), NEW d \in Int, ts[1] <= d, d < ts[n + 1]
  PROVE  \E i \in 1 .. n : ts[i] <= d /\ d < ts[i + 1]
<1>1. n \in Nat \ {0} /\ ts \in [1 .. n + 1 -> Int]
  BY Increasing
<1> DEFINE S == {i \in 1 .. n + 1 : d < ts[i]}
<1>2. S \in SUBSET Nat /\ n + 1 \in S
  BY <1>1
<1>3. PICK x \in S : \A y \in S : x <= y
  <2> HIDE DEF S
  <2> QED
    BY <1>2, LeastMember
<1>4. x \in 1 .. n + 1 /\ d < ts[x] /\ \A y \in 1 .. n + 1 : d < ts[y] => x <= y
  BY <1>3
<1>5. x - 1 \in 1 .. n
  BY <1>1, <1>4
<1>6. ts[x - 1] <= d
  <2>1. x - 1 \in 1 .. n + 1 /\ ts[x - 1] \in Int /\ ~(x <= x - 1)
    BY <1>1, <1>5
  <2> QED
    BY <1>4, <2>1
<1>7. (x - 1) + 1 = x
  BY <1>4
<1> QED
  BY <1>4, <1>5, <1>6, <1>7

\* The period of on that holds a day.
PeriodAt(on, d) == CHOOSE i \in {j \in DOMAIN on : ContainsDate(on[j], d)} : TRUE

\* Values that are fitted are on every day what they were.
FitOnDay(A, on, n, ps, m, k, d) ==
  /\ DOMAIN on = 1 .. n /\ PeriodAt(on, d) \in 1 .. n
  /\ \A values \in [1 .. n -> A] : /\ FittedTo(values, on, ps) \in [1 .. m -> A]
                                   /\ FittedTo(values, on, ps)[k] = values[PeriodAt(on, d)]

LEMMA FittedOnDay ==
  ASSUME NEW A, NEW on, NEW ts, NEW n, Between(on, ts, n), NEW ps, NEW us, NEW m, Between(ps, us, m),
         Refines(us, m, ts, n), NEW k \in 1 .. m, NEW d \in DaysOf(ps[k])
  PROVE  FitOnDay(A, on, n, ps, m, k, d)
<1>1. m \in Nat \ {0} /\ us \in [1 .. m + 1 -> Int] /\ n \in Nat \ {0} /\ ts \in [1 .. n + 1 -> Int]
  BY Increasing
<1>2. k \in 1 .. m + 1 /\ k + 1 \in 1 .. m + 1 /\ 1 \in 1 .. m + 1 /\ m + 1 \in 1 .. m + 1
  BY <1>1
<1>3. us[k] \in Int /\ us[k + 1] \in Int /\ us[1] \in Int /\ us[m + 1] \in Int
  BY <1>1, <1>2
<1>4. d \in Int /\ us[k] <= d /\ d < us[k + 1]
  <2>1. ps[k] = <<us[k], us[k + 1]>>
    BY DEF Between
  <2>2. DaysOf(ps[k]) = us[k] .. (us[k + 1] - 1)
    BY <2>1 DEF DaysOf, Start, End
  <2> QED
    BY <1>3, <2>2
<1>5. us[1] <= us[k] /\ us[k] < us[m + 1] /\ us[k + 1] <= us[m + 1]
  <2>1. 1 <= k /\ k < m + 1 /\ k + 1 <= m + 1
    BY <1>1
  <2> QED
    BY <1>2, <2>1, Increasing
<1>6. ts[1] \in Int /\ ts[n + 1] \in Int /\ ts[1] <= us[1] /\ us[m + 1] <= ts[n + 1]
  BY <1>1 DEF Refines
<1>7. ts[1] <= d /\ d < ts[n + 1]
  BY <1>3, <1>4, <1>5, <1>6
<1>8. DOMAIN on = 1 .. n /\ \A i \in 1 .. n : ContainsDate(on[i], d) <=> ts[i] <= d /\ d < ts[i + 1]
  <2>1. DOMAIN on = 1 .. n
    BY AllBetween
  <2>2. \A i \in 1 .. n : Start(on[i]) = ts[i] /\ End(on[i]) = ts[i + 1]
    BY DEF Between, Start, End
  <2> QED
    BY <2>1, <2>2 DEF ContainsDate
<1>9. \E i \in 1 .. n : ts[i] <= d /\ d < ts[i + 1]
  BY <1>4, <1>7, BetweenTwo
<1>10. PICK i \in 1 .. n : i = PeriodAt(on, d) /\ ts[i] <= d /\ d < ts[i + 1]
  <2>1. {j \in DOMAIN on : ContainsDate(on[j], d)} # {}
    BY <1>8, <1>9
  <2>2. PeriodAt(on, d) \in {j \in DOMAIN on : ContainsDate(on[j], d)}
    BY <2>1 DEF PeriodAt
  <2> QED
    BY <1>8, <2>2
<1>11. i \in 1 .. n + 1 /\ i + 1 \in 1 .. n + 1 /\ ts[i] \in Int /\ ts[i + 1] \in Int
  BY <1>1
<1>12. ts[i] <= us[k]
  <2> SUFFICES ASSUME us[k] < ts[i] PROVE FALSE
    BY <1>3, <1>11
  <2>1. us[1] <= ts[i] /\ ts[i] <= us[m + 1]
    BY <1>3, <1>4, <1>5, <1>10, <1>11
  <2>2. PICK l \in 1 .. m + 1 : us[l] = ts[i]
    BY <1>11, <2>1 DEF Refines
  <2>3. us[k] < us[l] /\ us[l] < us[k + 1]
    BY <1>3, <1>4, <1>10, <1>11, <2>2
  <2>4. k < l /\ l < k + 1
    BY <1>2, <2>3, Increasing
  <2> QED
    BY <1>1, <2>4
<1>13. us[k] < ts[i + 1]
  BY <1>3, <1>4, <1>10, <1>11
<1>14. PICK at : Placed(at, us, m, ts, n)
  BY Placing
<1>15. /\ at[i] \in 1 .. m + 1 /\ at[i + 1] \in 1 .. m + 1
       /\ us[at[i]] = Later(us[1], Earlier(us[m + 1], ts[i]))
       /\ us[at[i + 1]] = Later(us[1], Earlier(us[m + 1], ts[i + 1]))
  BY <1>11, <1>14 DEF Placed
<1>16. us[at[i]] <= us[k] /\ us[k] < us[at[i + 1]]
  BY <1>3, <1>5, <1>11, <1>12, <1>13, <1>15 DEF Later, Earlier
<1>17. at[i] <= k /\ k < at[i + 1]
  BY <1>2, <1>15, <1>16, Increasing
<1>18. ASSUME NEW values \in [1 .. n -> A]
       PROVE  FittedTo(values, on, ps) \in [1 .. m -> A] /\ FittedTo(values, on, ps)[k] = values[PeriodAt(on, d)]
  <2>1. FittedTo(values, on, ps) \in [1 .. m -> A] /\ FilledFrom(FittedTo(values, on, ps), values, at, m, n)
    BY <1>14, FittedPlaced
  <2> QED
    BY <1>10, <1>17, <2>1 DEF FilledFrom
<1> QED
  BY <1>8, <1>10, <1>18 DEF FitOnDay

\* What becomes of the fields of a component.
ComponentFields == {"unit", "parent", "energy", "power", "emissions", "valid"}

LEMMA FitFields ==
  ASSUME NEW x, NEW ps, DOMAIN x.component = ComponentFields
  PROVE  /\ DOMAIN FitComponent(x, ps) = ComponentFields
         /\ FitComponent(x, ps).unit = x.component.unit
         /\ FitComponent(x, ps).energy = FittedTo(x.component.energy, x.on, ps)
         /\ FitComponent(x, ps).power = FittedTo(x.component.power, x.on, ps)
         /\ FitComponent(x, ps).valid = FittedTo(x.component.valid, x.on, ps)
         /\ FitComponent(x, ps).emissions =
              [e \in DOMAIN x.component.emissions |-> FittedTo(x.component.emissions[e], x.on, ps)]
  BY DEF FitComponent, ComponentFields

IsDifference(x, c, r) ==
  /\ x.energy = Less(c.energy, r.energy) /\ x.power = Less(c.power, r.power)
  /\ x.valid = [i \in DOMAIN c.valid |-> c.valid[i] /\ r.valid[i]]
  /\ x.emissions = [e \in DOMAIN c.emissions |-> Less(c.emissions[e], r.emissions[e])]

LEMMA DifferenceFields ==
  ASSUME NEW c, NEW r, DOMAIN c = ComponentFields
  PROVE  IsDifference(Difference(c, r), c, r)
  BY DEF Difference, ComponentFields, IsDifference

LEMMA LessAt ==
  ASSUME NEW m \in Nat, NEW x \in [1 .. m -> Int], NEW y \in [1 .. m -> Int]
  PROVE  Len(Less(x, y)) = m /\ \A k \in 1 .. m : Less(x, y)[k] = x[k] - y[k]
<1>1. Len(x) = m /\ Len(y) = m
  <2>1. x \in Seq(Int) /\ y \in Seq(Int)
    BY SeqDef
  <2> QED
    BY <2>1, LenProperties
<1>2. Min({Len(x), Len(y)}) = m
  <2>1. {Len(x), Len(y)} = {m}
    BY <1>1
  <2>2. {m} \in SUBSET Int /\ IsFiniteSet({m}) /\ {m} # {}
    <3>1. IsFiniteSet({m})
      BY FS_Singleton
    <3>2. {m} \in SUBSET Int /\ {m} # {}
      OBVIOUS
    <3> QED
      BY <3>1, <3>2
  <2>3. Min({m}) \in {m}
    BY <2>2, MinOf
  <2> QED
    BY <2>1, <2>3
<1>3. Less(x, y) = [i \in 1 .. m |-> x[i] - y[i]]
  BY <1>2, Zenon DEF Less
<1>4. [i \in 1 .. m |-> x[i] - y[i]] \in [1 .. m -> Int]
  OBVIOUS
<1>5. [i \in 1 .. m |-> x[i] - y[i]] \in Seq(Int)
  BY <1>4, SeqDef
<1> QED
  BY <1>3, <1>4, <1>5, LenProperties

\* What a result, made to be compared with another, says on a day.
SaysOnDay(f, r, s, id, m, k, d) ==
  /\ DOMAIN f = ComponentFields
  /\ f.unit = IF IsIn(id, r) THEN r.components[id].unit ELSE s.components[id].unit
  /\ f.energy \in [1 .. m -> Int] /\ f.energy[k] = EnergyOn(r, id, d)
  /\ f.valid \in [1 .. m -> BOOLEAN] /\ (f.valid[k] <=> ValidOn(r, id, d))
  /\ DOMAIN f.emissions = Emissions(r, id) \cup Emissions(s, id)
  /\ \A e \in DOMAIN f.emissions : f.emissions[e] \in [1 .. m -> Int] /\ f.emissions[e][k] = EmittedOn(r, id, e, d)
  /\ HasPower(r, id) => f.power \in [1 .. m -> Int] /\ f.power[k] = PowerOn(r, id, d)

LEMMA SaidOnDay ==
  ASSUME NEW r, NEW id, NEW d
  PROVE  /\ IsIn(id, r) => /\ EnergyOn(r, id, d) = r.components[id].energy[PeriodAt(r.periods, d)]
                           /\ (ValidOn(r, id, d) <=> r.components[id].valid[PeriodAt(r.periods, d)])
                           /\ PowerOn(r, id, d) = r.components[id].power[PeriodAt(r.periods, d)]
                           /\ Emissions(r, id) = DOMAIN r.components[id].emissions
         /\ \A e \in Emissions(r, id) : EmittedOn(r, id, e, d) = r.components[id].emissions[e][PeriodAt(r.periods, d)]
         /\ ~IsIn(id, r) => /\ EnergyOn(r, id, d) = 0 /\ ValidOn(r, id, d) /\ PowerOn(r, id, d) = 0
                            /\ Emissions(r, id) = {}
         /\ \A e : e \notin Emissions(r, id) => EmittedOn(r, id, e, d) = 0
<1>1. (CHOOSE i \in Indices(r, d) : TRUE) = PeriodAt(r.periods, d)
  BY DEF Indices, PeriodAt
<1>2. IsIn(id, r) => /\ EnergyOn(r, id, d) = r.components[id].energy[PeriodAt(r.periods, d)]
                     /\ (ValidOn(r, id, d) <=> r.components[id].valid[PeriodAt(r.periods, d)])
                     /\ PowerOn(r, id, d) = r.components[id].power[PeriodAt(r.periods, d)]
                     /\ Emissions(r, id) = DOMAIN r.components[id].emissions
  <2> SUFFICES ASSUME IsIn(id, r)
               PROVE  /\ EnergyOn(r, id, d) = r.components[id].energy[PeriodAt(r.periods, d)]
                      /\ (ValidOn(r, id, d) <=> r.components[id].valid[PeriodAt(r.periods, d)])
                      /\ PowerOn(r, id, d) = r.components[id].power[PeriodAt(r.periods, d)]
                      /\ Emissions(r, id) = DOMAIN r.components[id].emissions
    OBVIOUS
  <2>1. EnergyOn(r, id, d) = r.components[id].energy[PeriodAt(r.periods, d)]
    BY <1>1 DEF EnergyOn
  <2>2. (ValidOn(r, id, d) <=> r.components[id].valid[PeriodAt(r.periods, d)])
    BY <1>1 DEF ValidOn
  <2>3. PowerOn(r, id, d) = r.components[id].power[PeriodAt(r.periods, d)]
    BY <1>1 DEF PowerOn
  <2>4. Emissions(r, id) = DOMAIN r.components[id].emissions
    BY DEF Emissions
  <2> QED
    BY <2>1, <2>2, <2>3, <2>4
<1>3. \A e \in Emissions(r, id) : EmittedOn(r, id, e, d) = r.components[id].emissions[e][PeriodAt(r.periods, d)]
  BY <1>1 DEF EmittedOn
<1>4. ~IsIn(id, r) => /\ EnergyOn(r, id, d) = 0 /\ ValidOn(r, id, d) /\ PowerOn(r, id, d) = 0
                      /\ Emissions(r, id) = {}
  BY DEF EnergyOn, ValidOn, PowerOn, Emissions
<1>5. \A e : e \notin Emissions(r, id) => EmittedOn(r, id, e, d) = 0
  BY DEF EmittedOn
<1> QED
  BY <1>2, <1>3, <1>4, <1>5

LEMMA NormalizedOwn ==
  ASSUME NEW r, NEW s, NEW id \in DOMAIN r.components, DOMAIN r.components[id] = ComponentFields
  PROVE  LET x == Normalized(r, s)[id]
             c == r.components[id]
         IN  /\ x.on = r.periods
             /\ DOMAIN x.component = ComponentFields
             /\ x.component.unit = c.unit /\ x.component.energy = c.energy
             /\ x.component.power = c.power /\ x.component.valid = c.valid
             /\ DOMAIN x.component.emissions = Emissions(r, id) \cup Emissions(s, id)
             /\ \A e \in DOMAIN x.component.emissions :
                  x.component.emissions[e] = IF e \in DOMAIN c.emissions THEN c.emissions[e] ELSE Repeated(0, r.periods)
<1> DEFINE c == r.components[id]
           its == IF id \in DOMAIN s.components THEN s.components[id] ELSE c
           all == DOMAIN c.emissions \cup DOMAIN its.emissions
<1>1. all = Emissions(r, id) \cup Emissions(s, id)
  BY DEF Emissions, IsIn
<1>2. Normalized(r, s)[id] =
        [on |-> r.periods,
         component |-> [c EXCEPT !.emissions =
                          [e \in all |-> IF e \in DOMAIN c.emissions THEN c.emissions[e] ELSE Repeated(0, r.periods)]]]
  BY Zenon DEF Normalized
<1> HIDE DEF all
<1> QED
  BY <1>1, <1>2 DEF ComponentFields

\* What stands for a component that r has not.
IsNothing(x, r, s, id) ==
  /\ x.on = s.periods
  /\ DOMAIN x.component = ComponentFields
  /\ x.component.unit = s.components[id].unit
  /\ x.component.energy = Repeated(0, s.periods) /\ x.component.power = Repeated(0, s.periods)
  /\ x.component.valid = Repeated(TRUE, s.periods)
  /\ DOMAIN x.component.emissions = Emissions(r, id) \cup Emissions(s, id)
  /\ \A e \in DOMAIN x.component.emissions : x.component.emissions[e] = Repeated(0, s.periods)

LEMMA NormalizedNone ==
  ASSUME NEW r, NEW s, NEW id \in DOMAIN s.components, id \notin DOMAIN r.components,
         DOMAIN s.components[id] = ComponentFields
  PROVE  IsNothing(Normalized(r, s)[id], r, s, id)
<1> DEFINE c == Empty(s.components[id], s.periods)
           all == DOMAIN c.emissions \cup DOMAIN s.components[id].emissions
           none == Repeated(0, s.periods)
<1>1. /\ DOMAIN c = ComponentFields /\ c.unit = s.components[id].unit /\ c.energy = none /\ c.power = none
      /\ c.valid = Repeated(TRUE, s.periods)
      /\ c.emissions = [e \in DOMAIN s.components[id].emissions |-> none]
  BY DEF Empty, ComponentFields
<1>2. all = Emissions(r, id) \cup Emissions(s, id)
  <2>1. DOMAIN c.emissions = DOMAIN s.components[id].emissions
    BY <1>1
  <2> HIDE DEF c
  <2> QED
    BY <2>1 DEF Emissions, IsIn
<1>3. Normalized(r, s)[id] =
        [on |-> s.periods,
         component |-> [c EXCEPT !.emissions = [e \in all |-> IF e \in DOMAIN c.emissions THEN c.emissions[e] ELSE none]]]
  BY Zenon DEF Normalized
<1> HIDE DEF all, c, none
<1>4. \A e \in DOMAIN c.emissions : c.emissions[e] = none
  BY <1>1
<1>5. PICK f : f = [e \in all |-> IF e \in DOMAIN c.emissions THEN c.emissions[e] ELSE none]
  OBVIOUS
<1>6. DOMAIN f = Emissions(r, id) \cup Emissions(s, id) /\ \A e \in DOMAIN f : f[e] = none
  BY <1>2, <1>4, <1>5
<1>7. PICK x : x = Normalized(r, s)[id]
  OBVIOUS
<1>8. x.on = s.periods /\ x.component = [c EXCEPT !.emissions = f]
  BY <1>3, <1>5, <1>7
<1>9. x.component.emissions = f
  BY <1>1, <1>8 DEF ComponentFields
<1>10. /\ DOMAIN x.component = ComponentFields /\ x.component.unit = s.components[id].unit
       /\ x.component.energy = none /\ x.component.power = none /\ x.component.valid = Repeated(TRUE, s.periods)
  BY <1>1, <1>8 DEF ComponentFields
<1> QED
  BY <1>6, <1>7, <1>8, <1>9, <1>10 DEF none, IsNothing

LEMMA FittedSays ==
  ASSUME NEW r, NEW s, IsResult(r), IsResult(s), NEW id \in DOMAIN r.components \cup DOMAIN s.components,
         NEW ts, NEW n, Between(r.periods, ts, n), NEW vs, NEW q, Between(s.periods, vs, q),
         NEW ps, NEW us, NEW m, Between(ps, us, m), Refines(us, m, ts, n), Refines(us, m, vs, q),
         NEW k \in 1 .. m, NEW d \in DaysOf(ps[k])
  PROVE  SaysOnDay(FitComponent(Normalized(r, s)[id], ps), r, s, id, m, k, d)
<1> DEFINE x == Normalized(r, s)[id]
           f == FitComponent(x, ps)
<1>1. /\ FitOnDay(Int, r.periods, n, ps, m, k, d) /\ FitOnDay(BOOLEAN, r.periods, n, ps, m, k, d)
      /\ FitOnDay(Int, s.periods, q, ps, m, k, d) /\ FitOnDay(BOOLEAN, s.periods, q, ps, m, k, d)
  BY FittedOnDay
<1>2. /\ \A v \in [1 .. n -> Int] : /\ FittedTo(v, r.periods, ps) \in [1 .. m -> Int]
                                   /\ FittedTo(v, r.periods, ps)[k] = v[PeriodAt(r.periods, d)]
      /\ \A v \in [1 .. n -> BOOLEAN] : /\ FittedTo(v, r.periods, ps) \in [1 .. m -> BOOLEAN]
                                       /\ FittedTo(v, r.periods, ps)[k] = v[PeriodAt(r.periods, d)]
      /\ \A v \in [1 .. q -> Int] : /\ FittedTo(v, s.periods, ps) \in [1 .. m -> Int]
                                   /\ FittedTo(v, s.periods, ps)[k] = v[PeriodAt(s.periods, d)]
      /\ \A v \in [1 .. q -> BOOLEAN] : /\ FittedTo(v, s.periods, ps) \in [1 .. m -> BOOLEAN]
                                       /\ FittedTo(v, s.periods, ps)[k] = v[PeriodAt(s.periods, d)]
  BY <1>1 DEF FitOnDay
<1>3. /\ DOMAIN r.periods = 1 .. n /\ PeriodAt(r.periods, d) \in 1 .. n
      /\ DOMAIN s.periods = 1 .. q /\ PeriodAt(s.periods, d) \in 1 .. q
  BY <1>1 DEF FitOnDay
<1>4. DOMAIN x.component = ComponentFields
      => /\ DOMAIN f = ComponentFields /\ f.unit = x.component.unit
         /\ f.energy = FittedTo(x.component.energy, x.on, ps)
         /\ f.power = FittedTo(x.component.power, x.on, ps)
         /\ f.valid = FittedTo(x.component.valid, x.on, ps)
         /\ f.emissions = [e \in DOMAIN x.component.emissions |-> FittedTo(x.component.emissions[e], x.on, ps)]
  BY FitFields
<1> HIDE DEF x, f
<1>5. CASE id \in DOMAIN r.components
  <2> DEFINE c == r.components[id]
             at == PeriodAt(r.periods, d)
             none == Repeated(0, r.periods)
  <2>1. IsComponentOn(c, r.periods) /\ IsIn(id, r)
    BY <1>5 DEF IsResult, IsIn
  <2>2. /\ DOMAIN c = ComponentFields
        /\ c.energy \in [1 .. n -> Int] /\ c.valid \in [1 .. n -> BOOLEAN]
        /\ c.power = NoPower \/ c.power \in [1 .. n -> Int]
        /\ \A e \in DOMAIN c.emissions : c.emissions[e] \in [1 .. n -> Int]
    <3> HIDE DEF c
    <3> QED
      BY <1>3, <2>1 DEF IsComponentOn, ComponentFields
  <2>3. none \in [1 .. n -> Int] /\ none[at] = 0
    BY <1>3 DEF Repeated
  <2>4. /\ x.on = r.periods /\ DOMAIN x.component = ComponentFields
        /\ x.component.unit = c.unit /\ x.component.energy = c.energy
        /\ x.component.power = c.power /\ x.component.valid = c.valid
        /\ DOMAIN x.component.emissions = Emissions(r, id) \cup Emissions(s, id)
        /\ \A e \in DOMAIN x.component.emissions :
             x.component.emissions[e] = IF e \in DOMAIN c.emissions THEN c.emissions[e] ELSE none
    BY <1>5, <2>2, NormalizedOwn DEF x
  <2>5. /\ EnergyOn(r, id, d) = c.energy[at] /\ (ValidOn(r, id, d) <=> c.valid[at]) /\ PowerOn(r, id, d) = c.power[at]
        /\ Emissions(r, id) = DOMAIN c.emissions
        /\ \A e \in Emissions(r, id) : EmittedOn(r, id, e, d) = c.emissions[e][at]
        /\ \A e : e \notin Emissions(r, id) => EmittedOn(r, id, e, d) = 0
    BY <2>1, SaidOnDay
  <2> HIDE DEF c, at, none
  <2>6. f.energy \in [1 .. m -> Int] /\ f.energy[k] = EnergyOn(r, id, d)
    <3>1. FittedTo(c.energy, r.periods, ps) \in [1 .. m -> Int] /\ FittedTo(c.energy, r.periods, ps)[k] = c.energy[at]
      BY <1>2, <2>2 DEF at
    <3> QED
      BY <1>4, <2>4, <2>5, <3>1
  <2>7. f.valid \in [1 .. m -> BOOLEAN] /\ (f.valid[k] <=> ValidOn(r, id, d))
    <3>1. FittedTo(c.valid, r.periods, ps) \in [1 .. m -> BOOLEAN] /\ FittedTo(c.valid, r.periods, ps)[k] = c.valid[at]
      BY <1>2, <2>2 DEF at
    <3>2. PICK v : v = FittedTo(c.valid, r.periods, ps)
      OBVIOUS
    <3>3. f.valid = v /\ v \in [1 .. m -> BOOLEAN] /\ v[k] = c.valid[at]
      BY <1>4, <2>4, <3>1, <3>2
    <3> QED
      BY <2>5, <3>3
  <2>8. HasPower(r, id) => f.power \in [1 .. m -> Int] /\ f.power[k] = PowerOn(r, id, d)
    <3> SUFFICES ASSUME HasPower(r, id) PROVE f.power \in [1 .. m -> Int] /\ f.power[k] = PowerOn(r, id, d)
      OBVIOUS
    <3>1. c.power \in [1 .. n -> Int]
      BY <2>1, <2>2 DEF HasPower, c
    <3> QED
      <4>1. FittedTo(c.power, r.periods, ps) \in [1 .. m -> Int] /\ FittedTo(c.power, r.periods, ps)[k] = c.power[at]
        BY <1>2, <3>1 DEF at
      <4> QED
        BY <1>4, <2>4, <2>5, <4>1
  <2>9. DOMAIN f.emissions = Emissions(r, id) \cup Emissions(s, id)
    BY <1>4, <2>4
  <2>10. ASSUME NEW e \in DOMAIN f.emissions
         PROVE  f.emissions[e] \in [1 .. m -> Int] /\ f.emissions[e][k] = EmittedOn(r, id, e, d)
    <3>1. PICK v : v = x.component.emissions[e]
      OBVIOUS
    <3>2. v \in [1 .. n -> Int] /\ v[at] = EmittedOn(r, id, e, d)
      <4>1. e \in DOMAIN x.component.emissions
        BY <2>4, <2>9
      <4>2. CASE e \in DOMAIN c.emissions
        BY <2>2, <2>4, <2>5, <3>1, <4>1, <4>2
      <4>3. CASE e \notin DOMAIN c.emissions
        BY <2>3, <2>4, <2>5, <3>1, <4>1, <4>3
      <4> QED
        BY <4>2, <4>3
    <3>3. f.emissions[e] = FittedTo(v, r.periods, ps)
      BY <1>4, <2>4, <2>9, <3>1
    <3> QED
      <4>1. FittedTo(v, r.periods, ps) \in [1 .. m -> Int] /\ FittedTo(v, r.periods, ps)[k] = v[at]
        BY <1>2, <3>2 DEF at
      <4> QED
        BY <3>2, <3>3, <4>1
  <2>11. f.unit = IF IsIn(id, r) THEN r.components[id].unit ELSE s.components[id].unit
    BY <1>4, <2>1, <2>4 DEF c
  <2> QED
    BY <1>4, <2>4, <2>6, <2>7, <2>8, <2>9, <2>10, <2>11 DEF SaysOnDay, f, x
<1>6. CASE id \notin DOMAIN r.components
  <2> DEFINE at == PeriodAt(s.periods, d)
             none == Repeated(0, s.periods)
             fine == Repeated(TRUE, s.periods)
  <2>1. id \in DOMAIN s.components /\ ~IsIn(id, r)
    BY <1>6 DEF IsIn
  <2>2. DOMAIN s.components[id] = ComponentFields
    <3>1. IsComponentOn(s.components[id], s.periods)
      BY <2>1 DEF IsResult
    <3> QED
      BY <3>1 DEF IsComponentOn, ComponentFields
  <2>3. none \in [1 .. q -> Int] /\ none[at] = 0 /\ fine \in [1 .. q -> BOOLEAN] /\ fine[at] = TRUE
    BY <1>3 DEF Repeated
  <2>4. /\ x.on = s.periods /\ DOMAIN x.component = ComponentFields
        /\ x.component.unit = s.components[id].unit
        /\ x.component.energy = none /\ x.component.power = none /\ x.component.valid = fine
        /\ DOMAIN x.component.emissions = Emissions(r, id) \cup Emissions(s, id)
        /\ \A e \in DOMAIN x.component.emissions : x.component.emissions[e] = none
    <3> HIDE DEF none, fine
    <3>1. none = Repeated(0, s.periods) /\ fine = Repeated(TRUE, s.periods)
      BY DEF none, fine
    <3>2. IsNothing(x, r, s, id)
      BY <1>6, <2>1, <2>2, NormalizedNone DEF x
    <3> QED
      BY <3>1, <3>2 DEF IsNothing
  <2>5. /\ EnergyOn(r, id, d) = 0 /\ ValidOn(r, id, d) /\ PowerOn(r, id, d) = 0
        /\ \A e : EmittedOn(r, id, e, d) = 0
    BY <2>1, SaidOnDay
  <2> HIDE DEF at, none, fine
  <2>6. PICK zeros : zeros = FittedTo(none, s.periods, ps) /\ zeros \in [1 .. m -> Int] /\ zeros[k] = 0
    <3>1. FittedTo(none, s.periods, ps) \in [1 .. m -> Int] /\ FittedTo(none, s.periods, ps)[k] = none[at]
      BY <1>2, <2>3 DEF at
    <3> QED
      BY <2>3, <3>1
  <2>7. f.energy \in [1 .. m -> Int] /\ f.energy[k] = EnergyOn(r, id, d)
    BY <1>4, <2>4, <2>5, <2>6
  <2>8. f.valid \in [1 .. m -> BOOLEAN] /\ (f.valid[k] <=> ValidOn(r, id, d))
    <3>1. FittedTo(fine, s.periods, ps) \in [1 .. m -> BOOLEAN] /\ FittedTo(fine, s.periods, ps)[k] = fine[at]
      BY <1>2, <2>3 DEF at
    <3>2. PICK v : v = FittedTo(fine, s.periods, ps)
      OBVIOUS
    <3>3. f.valid = v /\ v \in [1 .. m -> BOOLEAN] /\ v[k] = TRUE
      BY <1>4, <2>3, <2>4, <3>1, <3>2
    <3> QED
      BY <2>5, <3>3
  <2>9. f.power \in [1 .. m -> Int] /\ f.power[k] = PowerOn(r, id, d)
    BY <1>4, <2>4, <2>5, <2>6
  <2>10. DOMAIN f.emissions = Emissions(r, id) \cup Emissions(s, id)
    BY <1>4, <2>4
  <2>11. ASSUME NEW e \in DOMAIN f.emissions
         PROVE  f.emissions[e] \in [1 .. m -> Int] /\ f.emissions[e][k] = EmittedOn(r, id, e, d)
    <3>1. f.emissions[e] = FittedTo(none, s.periods, ps)
      BY <1>4, <2>4, <2>10
    <3> QED
      BY <2>5, <2>6, <3>1
  <2>12. f.unit = IF IsIn(id, r) THEN r.components[id].unit ELSE s.components[id].unit
    BY <1>4, <2>1, <2>4
  <2> QED
    BY <1>4, <2>4, <2>7, <2>8, <2>9, <2>10, <2>11, <2>12 DEF SaysOnDay, f, x
<1> QED
  BY <1>5, <1>6

\* One result less another is, on a day, what the one says less what the other says.
LEMMA DifferenceOnDay ==
  ASSUME NEW f, NEW g, NEW id, NEW m \in Nat, NEW k \in 1 .. m, NEW d,
         SaysOnDay(f, compared.changed, compared.reference, id, m, k, d),
         SaysOnDay(g, compared.reference, compared.changed, id, m, k, d),
         delta[id] = Difference(f, g)
  PROVE  Len(delta[id].energy) = m /\ DeltaOnDay(id, k, d)
<1> DEFINE c == compared.changed
           r == compared.reference
<1>1. /\ DOMAIN f = ComponentFields
      /\ f.energy \in [1 .. m -> Int] /\ f.energy[k] = EnergyOn(c, id, d)
      /\ f.valid \in [1 .. m -> BOOLEAN] /\ (f.valid[k] <=> ValidOn(c, id, d))
      /\ DOMAIN f.emissions = Emissions(c, id) \cup Emissions(r, id)
      /\ \A e \in DOMAIN f.emissions : f.emissions[e] \in [1 .. m -> Int] /\ f.emissions[e][k] = EmittedOn(c, id, e, d)
      /\ HasPower(c, id) => f.power \in [1 .. m -> Int] /\ f.power[k] = PowerOn(c, id, d)
  BY DEF SaysOnDay
<1>2. /\ g.energy \in [1 .. m -> Int] /\ g.energy[k] = EnergyOn(r, id, d)
      /\ g.valid \in [1 .. m -> BOOLEAN] /\ (g.valid[k] <=> ValidOn(r, id, d))
      /\ DOMAIN g.emissions = Emissions(r, id) \cup Emissions(c, id)
      /\ \A e \in DOMAIN g.emissions : g.emissions[e] \in [1 .. m -> Int] /\ g.emissions[e][k] = EmittedOn(r, id, e, d)
      /\ HasPower(r, id) => g.power \in [1 .. m -> Int] /\ g.power[k] = PowerOn(r, id, d)
  BY DEF SaysOnDay
<1> HIDE DEF c, r
<1>3. /\ delta[id].energy = Less(f.energy, g.energy)
      /\ delta[id].power = Less(f.power, g.power)
      /\ delta[id].valid = [i \in DOMAIN f.valid |-> f.valid[i] /\ g.valid[i]]
      /\ delta[id].emissions = [e \in DOMAIN f.emissions |-> Less(f.emissions[e], g.emissions[e])]
  <2>1. IsDifference(delta[id], f, g)
    BY <1>1, DifferenceFields
  <2> QED
    BY <2>1 DEF IsDifference
<1>4. Len(delta[id].energy) = m /\ delta[id].energy[k] = EnergyOn(c, id, d) - EnergyOn(r, id, d)
  <2>1. PICK x, y : x = f.energy /\ y = g.energy
    OBVIOUS
  <2>2. x \in [1 .. m -> Int] /\ y \in [1 .. m -> Int]
    BY <1>1, <1>2, <2>1
  <2>3. Len(Less(x, y)) = m /\ Less(x, y)[k] = x[k] - y[k]
    BY <2>2, LessAt
  <2> QED
    BY <1>1, <1>2, <1>3, <2>1, <2>3
<1>5. delta[id].valid[k] = (ValidOn(c, id, d) /\ ValidOn(r, id, d))
  <2>1. delta[id].valid[k] = (f.valid[k] /\ g.valid[k])
    BY <1>1, <1>3
  <2> QED
    BY <1>1, <1>2, <2>1
<1>6. DOMAIN delta[id].emissions = Emissions(c, id) \cup Emissions(r, id)
  BY <1>1, <1>3
<1>7. ASSUME NEW e \in DOMAIN delta[id].emissions
      PROVE  delta[id].emissions[e][k] = EmittedOn(c, id, e, d) - EmittedOn(r, id, e, d)
  <2>1. e \in DOMAIN f.emissions /\ e \in DOMAIN g.emissions
    BY <1>1, <1>2, <1>6
  <2>2. delta[id].emissions[e] = Less(f.emissions[e], g.emissions[e])
    BY <1>3, <2>1
  <2>3. PICK x, y : x = f.emissions[e] /\ y = g.emissions[e]
    OBVIOUS
  <2>4. x \in [1 .. m -> Int] /\ y \in [1 .. m -> Int] /\ x[k] = EmittedOn(c, id, e, d) /\ y[k] = EmittedOn(r, id, e, d)
    BY <1>1, <1>2, <2>1, <2>3
  <2>5. Less(x, y)[k] = x[k] - y[k]
    BY <2>4, LessAt
  <2> QED
    BY <2>2, <2>3, <2>4, <2>5
<1>8. HasPower(c, id) /\ HasPower(r, id) => delta[id].power[k] = PowerOn(c, id, d) - PowerOn(r, id, d)
  <2> SUFFICES ASSUME HasPower(c, id), HasPower(r, id)
               PROVE  delta[id].power[k] = PowerOn(c, id, d) - PowerOn(r, id, d)
    OBVIOUS
  <2>1. PICK x, y : x = f.power /\ y = g.power
    OBVIOUS
  <2>2. x \in [1 .. m -> Int] /\ y \in [1 .. m -> Int]
    BY <1>1, <1>2, <2>1
  <2>3. Less(x, y)[k] = x[k] - y[k]
    BY <2>2, LessAt
  <2> QED
    BY <1>1, <1>2, <1>3, <2>1, <2>3
<1> QED
  BY <1>4, <1>5, <1>6, <1>7, <1>8 DEF DeltaOnDay, c, r

\* The dates of periods, and those within two of them.
LEMMA DatesBetween ==
  ASSUME NEW ps, NEW ts, NEW n, Between(ps, ts, n)
  PROVE  /\ Start(Span(ps)) = ts[1] /\ End(Span(ps)) = ts[n + 1]
         /\ Range(AllDates(ps)) = {ts[i] : i \in 1 .. n + 1} /\ IsFiniteSet(Range(AllDates(ps)))
<1>1. n \in Nat \ {0} /\ ts \in [1 .. n + 1 -> Int]
  BY Increasing
<1>2. /\ DOMAIN ps = 1 .. n /\ \A i \in 1 .. n : Start(ps[i]) = ts[i]
      /\ Start(Head(ps)) = ts[1] /\ End(Last(ps)) = ts[n + 1]
      /\ \A i \in 1 .. n + 1 : AllDates(ps)[i] = ts[i]
  BY AllBetween
<1>3. Start(Span(ps)) = ts[1] /\ End(Span(ps)) = ts[n + 1]
  <2>1. Span(ps) = <<ts[1], ts[n + 1]>>
    BY <1>2 DEF Span
  <2> QED
    BY <2>1 DEF Start, End
<1>4. DOMAIN AllDates(ps) = 1 .. n + 1 /\ IsList(AllDates(ps))
  <2> DEFINE s == StartDates(ps)
  <2>1. s \in [1 .. n -> Int]
    <3>1. \A k \in 1 .. n : ts[k] \in Int
      BY <1>1
    <3>2. s = [k \in 1 .. n |-> ts[k]]
      BY <1>2 DEF StartDates
    <3> QED
      BY <3>1, <3>2
  <2> HIDE DEF s
  <2>2. s \in Seq(Int) /\ Len(s) = n
    BY <1>1, <2>1, SeqDef, LenProperties
  <2>3. AllDates(ps) = Append(s, ts[n + 1]) /\ ts[n + 1] \in Int
    BY <1>1, <1>2 DEF AllDates, s
  <2>4. Append(s, ts[n + 1]) \in Seq(Int) /\ Len(Append(s, ts[n + 1])) = n + 1
    BY <2>2, <2>3, AppendProperties
  <2> QED
    BY <2>3, <2>4, LenProperties, ListOf
<1>5. Range(AllDates(ps)) = {AllDates(ps)[i] : i \in 1 .. n + 1}
  BY <1>4, Zenon DEF Range
<1>6. {AllDates(ps)[i] : i \in 1 .. n + 1} = {ts[i] : i \in 1 .. n + 1}
  BY <1>2
<1>7. IsFiniteSet(Range(AllDates(ps)))
  <2>1. Range(AllDates(ps)) = ToSet(AllDates(ps))
    BY Zenon DEF Range, ToSet
  <2> QED
    BY <1>4, <2>1, ListFinite
<1> QED
  BY <1>3, <1>5, <1>6, <1>7

\* No two dates, no period.
LEMMA NoPeriods ==
  ASSUME NEW x \in Int, NEW D \in SUBSET {x}
  PROVE  PeriodsOn(D) = <<>>
<1> DEFINE s == SortedDates(D)
<1>1. IsFiniteSet(D) /\ Cardinality(D) \in {0, 1}
  <2>1. D = {} \/ D = {x}
    OBVIOUS
  <2> QED
    BY <2>1, FS_EmptySet, FS_Singleton
<1>2. s \in [1 .. Cardinality(D) -> D]
  <2>1. D \in SUBSET Int
    OBVIOUS
  <2> QED
    BY <1>1, <2>1, Sorted
<1> HIDE DEF s
<1>3. s \in Seq(D) /\ Len(s) \in {0, 1}
  <2>1. s \in Seq(D)
    BY <1>1, <1>2, SeqDef
  <2> QED
    BY <1>1, <1>2, <2>1, LenProperties
<1>4. CASE s = <<>>
  BY <1>4 DEF PeriodsOn, CreatePeriods, s
<1>5. CASE s # <<>>
  <2>1. Len(s) = 1
    BY <1>3, <1>5, EmptySeq
  <2> DEFINE none == [i \in 1 .. (Len(s) - 1) |-> <<s[i], s[i + 1]>>]
  <2>2. none = <<>>
    BY <2>1
  <2> HIDE DEF none
  <2>3. CreatePeriods(s, FALSE, FALSE) = <<>> \o none \o <<>>
    BY <1>5, Zenon DEF CreatePeriods, none
  <2>4. <<>> \o <<>> \o <<>> = <<>>
    OBVIOUS
  <2> QED
    BY <2>2, <2>3, <2>4 DEF PeriodsOn, s
<1> QED
  BY <1>4, <1>5

\* The periods that two results have in common.
Shared(ps, first, last, ts, n, vs, q) ==
  \E us, m : /\ Between(ps, us, m) /\ us[1] = first /\ us[m + 1] = last
             /\ Refines(us, m, ts, n) /\ Refines(us, m, vs, q)

LEMMA CommonTimeline ==
  ASSUME NEW c, NEW r, NEW ts, NEW n, Between(c.periods, ts, n), NEW vs, NEW q, Between(r.periods, vs, q),
         NEW first, first = Later(ts[1], vs[1]), NEW last, last = Earlier(ts[n + 1], vs[q + 1])
  PROVE  /\ first \in Int /\ last \in Int
         /\ last <= first => CommonPeriods(c, r) = <<>>
         /\ first < last => Shared(CommonPeriods(c, r), first, last, ts, n, vs, q)
<1>1. /\ n \in Nat \ {0} /\ ts \in [1 .. n + 1 -> Int] /\ q \in Nat \ {0} /\ vs \in [1 .. q + 1 -> Int]
      /\ 1 \in 1 .. n + 1 /\ n + 1 \in 1 .. n + 1 /\ 1 \in 1 .. q + 1 /\ q + 1 \in 1 .. q + 1
  <2>1. n \in Nat \ {0} /\ ts \in [1 .. n + 1 -> Int]
    BY Increasing
  <2>2. q \in Nat \ {0} /\ vs \in [1 .. q + 1 -> Int]
    BY Increasing
  <2> QED
    BY <2>1, <2>2
<1>2. \A i \in 1 .. n + 1 : ts[1] <= ts[i] /\ ts[i] <= ts[n + 1]
  <2>1. \A i \in 1 .. n + 1 : 1 <= i /\ i <= n + 1
    BY <1>1
  <2> QED
    BY <1>1, <2>1, Increasing
<1>3. \A i \in 1 .. q + 1 : vs[1] <= vs[i] /\ vs[i] <= vs[q + 1]
  <2>1. \A i \in 1 .. q + 1 : 1 <= i /\ i <= q + 1
    BY <1>1
  <2> QED
    BY <1>1, <2>1, Increasing
<1>4. first \in Int /\ last \in Int
  BY <1>1 DEF Later, Earlier
<1> DEFINE T == {t \in {ts[i] : i \in 1 .. n + 1} : first <= t /\ t <= last}
           V == {t \in {vs[i] : i \in 1 .. q + 1} : first <= t /\ t <= last}
           D == T \cup V
<1>5. DatesWithin(c, first, last) = T /\ IsFiniteSet(T)
  <2>1. Range(AllDates(c.periods)) = {ts[i] : i \in 1 .. n + 1} /\ IsFiniteSet(Range(AllDates(c.periods)))
    BY DatesBetween
  <2>2. DatesWithin(c, first, last) = T
    BY <2>1 DEF DatesWithin
  <2>3. T \in SUBSET {ts[i] : i \in 1 .. n + 1}
    OBVIOUS
  <2> HIDE DEF T
  <2> QED
    BY <2>1, <2>2, <2>3, FS_Subset
<1>6. DatesWithin(r, first, last) = V /\ IsFiniteSet(V)
  <2>1. Range(AllDates(r.periods)) = {vs[i] : i \in 1 .. q + 1} /\ IsFiniteSet(Range(AllDates(r.periods)))
    BY DatesBetween
  <2>2. DatesWithin(r, first, last) = V
    BY <2>1 DEF DatesWithin
  <2>3. V \in SUBSET {vs[i] : i \in 1 .. q + 1}
    OBVIOUS
  <2> HIDE DEF V
  <2> QED
    BY <2>1, <2>2, <2>3, FS_Subset
<1>7. CommonPeriods(c, r) = PeriodsOn(D)
  <2>1. /\ Start(Span(c.periods)) = ts[1] /\ End(Span(c.periods)) = ts[n + 1]
        /\ Start(Span(r.periods)) = vs[1] /\ End(Span(r.periods)) = vs[q + 1]
    BY DatesBetween
  <2> HIDE DEF T, V
  <2>2. CommonPeriods(c, r) =
          CreatePeriods(SortedDates(DatesWithin(c, first, last) \cup DatesWithin(r, first, last)), FALSE, FALSE)
    BY <2>1, Zenon DEF CommonPeriods
  <2> QED
    BY <1>5, <1>6, <2>2, Zenon DEF PeriodsOn
<1>8. /\ IsFiniteSet(D)
      /\ \A d \in D : d \in Int /\ first <= d /\ d <= last
  <2>1. IsFiniteSet(D)
    <3> HIDE DEF T, V
    <3> QED
      BY <1>5, <1>6, FS_Union
  <2>2. \A d \in D : d \in Int /\ first <= d /\ d <= last
    BY <1>1
  <2> QED
    BY <2>1, <2>2
<1>9. ASSUME last <= first PROVE CommonPeriods(c, r) = <<>>
  <2>1. D \in SUBSET {first}
    <3> HIDE DEF D
    <3> QED
      BY <1>4, <1>8, <1>9
  <2> HIDE DEF D
  <2> QED
    BY <1>4, <1>7, <2>1, NoPeriods
<1>10. ASSUME first < last PROVE Shared(CommonPeriods(c, r), first, last, ts, n, vs, q)
  <2>1. first \in D /\ last \in D
    <3>1. first = ts[1] \/ first = vs[1]
      BY DEF Later
    <3>2. last = ts[n + 1] \/ last = vs[q + 1]
      BY DEF Earlier
    <3>3. first <= first /\ first <= last /\ last <= last
      BY <1>4, <1>10
    <3> QED
      BY <1>1, <3>1, <3>2, <3>3
  <2>2. /\ \A i \in 1 .. n + 1 : first <= ts[i] /\ ts[i] <= last => ts[i] \in D
        /\ \A i \in 1 .. q + 1 : first <= vs[i] /\ vs[i] <= last => vs[i] \in D
    OBVIOUS
  <2> HIDE DEF D
  <2>3. PICK m, us : /\ Between(PeriodsOn(D), us, m)
                     /\ us[1] = first /\ us[m + 1] = last
                     /\ \A i \in 1 .. m + 1 : us[i] \in D
                     /\ \A d \in D : \E i \in 1 .. m + 1 : us[i] = d
    <3>1. PICK all : all = D
      OBVIOUS
    <3>2. all \in SUBSET Int /\ IsFiniteSet(all) /\ first \in all /\ last \in all
      BY <1>8, <2>1, <3>1
    <3>3. \A d \in all : first <= d /\ d <= last
      BY <1>8, <3>1
    <3> QED
      BY <1>10, <3>1, <3>2, <3>3, CreatedBetween
  <2>4. ts[1] <= first /\ last <= ts[n + 1] /\ vs[1] <= first /\ last <= vs[q + 1]
    BY <1>1 DEF Later, Earlier
  <2>5. Refines(us, m, ts, n)
    BY <2>2, <2>3, <2>4 DEF Refines
  <2>6. Refines(us, m, vs, q)
    BY <2>2, <2>3, <2>4 DEF Refines
  <2> QED
    BY <1>7, <2>3, <2>5, <2>6 DEF Shared
<1> QED
  BY <1>4, <1>9, <1>10

\* Periods that follow one another cover the days from the first date to the last.
LEMMA DaysBetween ==
  ASSUME NEW ps, NEW us, NEW m, Between(ps, us, m)
  PROVE  UNION {DaysOf(ps[i]) : i \in DOMAIN ps} = us[1] .. (us[m + 1] - 1)
<1>1. m \in Nat \ {0} /\ us \in [1 .. m + 1 -> Int] /\ us[1] \in Int /\ us[m + 1] \in Int
  <2>1. m \in Nat \ {0} /\ us \in [1 .. m + 1 -> Int]
    BY Increasing
  <2>2. 1 \in 1 .. m + 1 /\ m + 1 \in 1 .. m + 1
    BY <2>1
  <2> QED
    BY <2>1, <2>2
<1>2. DOMAIN ps = 1 .. m
  BY AllBetween
<1>3. ASSUME NEW i \in 1 .. m
      PROVE  us[i] \in Int /\ us[i + 1] \in Int /\ us[1] <= us[i] /\ us[i + 1] <= us[m + 1] /\ DaysOf(ps[i]) = us[i] .. (us[i + 1] - 1)
  <2>1. /\ i \in 1 .. m + 1 /\ i + 1 \in 1 .. m + 1 /\ 1 \in 1 .. m + 1 /\ m + 1 \in 1 .. m + 1
        /\ 1 <= i /\ i + 1 <= m + 1
    BY <1>1
  <2>2. us[i] \in Int /\ us[i + 1] \in Int
    BY <1>1, <2>1
  <2>3. us[1] <= us[i] /\ us[i + 1] <= us[m + 1]
    BY <2>1, Increasing
  <2>4. ps[i] = <<us[i], us[i + 1]>>
    BY DEF Between
  <2>5. DaysOf(ps[i]) = us[i] .. (us[i + 1] - 1)
    BY <2>4 DEF DaysOf, Start, End
  <2> QED
    BY <2>2, <2>3, <2>5
<1>4. ASSUME NEW d \in UNION {DaysOf(ps[i]) : i \in DOMAIN ps} PROVE d \in us[1] .. (us[m + 1] - 1)
  <2>1. PICK i \in 1 .. m : d \in DaysOf(ps[i])
    BY <1>2
  <2>2. PICK a, b : a = us[i] /\ b = us[i + 1] /\ a \in Int /\ b \in Int /\ us[1] <= a /\ b <= us[m + 1] /\ d \in a .. (b - 1)
    BY <1>3, <2>1
  <2> QED
    BY <1>1, <2>2
<1>5. ASSUME NEW d \in us[1] .. (us[m + 1] - 1) PROVE d \in UNION {DaysOf(ps[i]) : i \in DOMAIN ps}
  <2>1. d \in Int /\ us[1] <= d /\ d < us[m + 1]
    BY <1>1
  <2>2. PICK i \in 1 .. m : us[i] <= d /\ d < us[i + 1]
    BY <2>1, BetweenTwo
  <2>3. us[i] \in Int /\ us[i + 1] \in Int /\ DaysOf(ps[i]) = us[i] .. (us[i + 1] - 1)
    BY <1>3
  <2>4. d \in DaysOf(ps[i])
    BY <2>1, <2>2, <2>3
  <2> QED
    BY <1>2, <2>4
<1> QED
  BY <1>4, <1>5

(***************************************************************************)
(* What is known of a comparison at each of its stages.                     *)
(***************************************************************************)
\* A result as it is subtracted: with what the other has, on the periods in common.
Fitting(r, s, ps) == [id \in DOMAIN Normalized(r, s) |-> FitComponent(Normalized(r, s)[id], ps)]

AllComponents == DOMAIN compared.changed.components \cup DOMAIN compared.reference.components

DeltaInv ==
  /\ part # "comparison" => comparison = "given"
  /\ part = "comparison" => compared \in Comparisons
  /\ comparison \in {"given", "periods", "normalized", "fitted", "subtracted", "IndexError"}
  /\ comparison # "given" => common = CommonPeriods(compared.changed, compared.reference)
  /\ comparison = "normalized" => /\ changed = Normalized(compared.changed, compared.reference)
                                  /\ reference = Normalized(compared.reference, compared.changed)
  /\ comparison \in {"fitted", "subtracted"} => /\ common = <<>> => AllComponents = {}
                                               /\ changed = Fitting(compared.changed, compared.reference, common)
                                               /\ reference = Fitting(compared.reference, compared.changed, common)
  /\ comparison = "subtracted" => delta = [id \in SameUnit |-> Difference(changed[id], reference[id])]

LEMMA NormalizedAll ==
  /\ DOMAIN Normalized(compared.changed, compared.reference) = AllComponents
  /\ DOMAIN Normalized(compared.reference, compared.changed) = AllComponents
  BY DEF Normalized, AllComponents

LEMMA DeltaKeeps ==
  ASSUME DeltaInv, part = "comparison", part' = part, NextDelta
  PROVE  DeltaInv'
<1>1. compared' = compared
  BY DEF NextDelta, FindPeriods, Normalize, Fit, Subtract
<1>2. CASE FindPeriods
  BY <1>2 DEF DeltaInv, FindPeriods
<1>3. CASE Normalize
  BY <1>3 DEF DeltaInv, Normalize
<1>4. CASE Fit
  <2>1. comparison = "normalized" /\ common' = common /\ common = CommonPeriods(compared.changed, compared.reference)
    BY <1>4 DEF Fit, DeltaInv
  <2>2. changed = Normalized(compared.changed, compared.reference) /\ reference = Normalized(compared.reference, compared.changed)
    BY <2>1 DEF DeltaInv
  <2>3. CASE common = <<>> /\ changed # NoneYet
    <3>1. comparison' = "IndexError"
      BY <1>4, <2>3 DEF Fit
    <3> QED
      BY <1>1, <2>1, <3>1 DEF DeltaInv
  <2>4. CASE ~(common = <<>> /\ changed # NoneYet)
    <3>1. /\ comparison' = "fitted"
          /\ changed' = Fitting(compared.changed, compared.reference, common)
          /\ reference' = Fitting(compared.reference, compared.changed, common)
      BY <1>4, <2>2, <2>4 DEF Fit, Fitting
    <3>2. common = <<>> => AllComponents = {}
      <4> SUFFICES ASSUME common = <<>> PROVE AllComponents = {}
        OBVIOUS
      <4>1. changed = <<>>
        BY <2>4 DEF NoneYet
      <4>2. DOMAIN changed = {}
        BY <4>1
      <4> QED
        BY <2>2, <4>2, NormalizedAll
    <3>3. AllComponents' = AllComponents
      BY <1>1 DEF AllComponents
    <3> QED
      BY <1>1, <2>1, <3>1, <3>2, <3>3 DEF DeltaInv
  <2> QED
    BY <2>3, <2>4
<1>5. CASE Subtract
  <2>1. /\ comparison = "fitted" /\ comparison' = "subtracted" /\ UNCHANGED <<compared, changed, reference, common>>
        /\ delta' = [id \in SameUnit |-> Difference(changed[id], reference[id])]
    BY <1>5 DEF Subtract
  <2>2. SameUnit' = SameUnit /\ AllComponents' = AllComponents
    BY <2>1 DEF SameUnit, AllComponents
  <2> QED
    BY <2>1, <2>2 DEF DeltaInv
<1> QED
  BY <1>2, <1>3, <1>4, <1>5 DEF NextDelta

LEMMA DeltaElse ==
  ASSUME DeltaInv, UNCHANGED <<part, deltaVars>>
  PROVE  DeltaInv'
<1>1. UNCHANGED <<part, compared, changed, reference, common, delta, comparison>>
  BY DEF deltaVars
<1>2. SameUnit' = SameUnit /\ AllComponents' = AllComponents
  BY <1>1 DEF SameUnit, AllComponents
<1> QED
  BY <1>1, <1>2 DEF DeltaInv

\* What was subtracted is the difference, day by day.
LEMMA DeltaHolds ==
  ASSUME DeltaInv, comparison = "subtracted"
  PROVE  DeltaIsDayByDay
<1> DEFINE c == compared.changed
           r == compared.reference
<1>1. IsResult(c) /\ IsResult(r)
  <2>1. compared \in Comparisons
    BY DEF DeltaInv
  <2> QED
    BY <2>1, ComparisonsAssumption
<1>2. /\ common = CommonPeriods(c, r)
      /\ common = <<>> => AllComponents = {}
      /\ changed = Fitting(c, r, common) /\ reference = Fitting(r, c, common)
      /\ delta = [id \in SameUnit |-> Difference(changed[id], reference[id])]
  BY DEF DeltaInv
<1>3. DOMAIN changed = AllComponents /\ DOMAIN reference = AllComponents
  BY <1>2, NormalizedAll DEF Fitting
<1>4. \A id \in AllComponents : /\ changed[id] = FitComponent(Normalized(c, r)[id], common)
                                /\ reference[id] = FitComponent(Normalized(r, c)[id], common)
  BY <1>2, NormalizedAll DEF Fitting
<1>5. SameUnit = {id \in AllComponents : changed[id].unit = reference[id].unit}
  BY <1>3 DEF SameUnit
<1>6. AllComponents = DOMAIN c.components \cup DOMAIN r.components
  BY DEF AllComponents
<1> HIDE DEF c, r
<1>7. PICK n, ts : Between(c.periods, ts, n)
  BY <1>1, Following DEF IsResult
<1>8. PICK q, vs : Between(r.periods, vs, q)
  BY <1>1, Following DEF IsResult
<1>9. /\ ts[1] \in Int /\ ts[n + 1] \in Int /\ vs[1] \in Int /\ vs[q + 1] \in Int
  <2>1. n \in Nat \ {0} /\ ts \in [1 .. n + 1 -> Int]
    BY <1>7, Increasing
  <2>2. q \in Nat \ {0} /\ vs \in [1 .. q + 1 -> Int]
    BY <1>8, Increasing
  <2>3. 1 \in 1 .. n + 1 /\ n + 1 \in 1 .. n + 1 /\ 1 \in 1 .. q + 1 /\ q + 1 \in 1 .. q + 1
    BY <2>1, <2>2
  <2> QED
    BY <2>1, <2>2, <2>3
<1>10. PICK first, last : first = Later(ts[1], vs[1]) /\ last = Earlier(ts[n + 1], vs[q + 1])
  OBVIOUS
<1>11. /\ first \in Int /\ last \in Int
       /\ last <= first => common = <<>>
       /\ first < last => Shared(common, first, last, ts, n, vs, q)
  BY <1>2, <1>7, <1>8, <1>10, CommonTimeline
<1>12. SharedDays = first .. (last - 1)
  <2>1. /\ Start(Span(c.periods)) = ts[1] /\ End(Span(c.periods)) = ts[n + 1]
        /\ Start(Span(r.periods)) = vs[1] /\ End(Span(r.periods)) = vs[q + 1]
    BY <1>7, <1>8, DatesBetween
  <2>2. SharedDays = {d \in ts[1] .. (ts[n + 1] - 1) : vs[1] <= d /\ d < vs[q + 1]}
    BY <2>1, Zenon DEF SharedDays, DaysOf, ContainsDate, c, r
  <2> QED
    BY <1>9, <1>10, <2>2 DEF Later, Earlier
<1>13. CASE last <= first
  <2>1. common = <<>> /\ AllComponents = {} /\ DOMAIN common = {}
    BY <1>2, <1>11, <1>13
  <2>2. UNION {DaysOf(common[i]) : i \in DOMAIN common} = SharedDays
    <3>1. first .. (last - 1) = {}
      BY <1>11, <1>13
    <3> QED
      BY <1>12, <2>1, <3>1
  <2>3. DOMAIN delta = {}
    BY <1>2, <1>5, <2>1
  <2> QED
    BY <1>6, <2>1, <2>2, <2>3 DEF DeltaIsDayByDay, c, r
<1>14. CASE first < last
  <2>1. PICK us, m : /\ Between(common, us, m) /\ us[1] = first /\ us[m + 1] = last
                     /\ Refines(us, m, ts, n) /\ Refines(us, m, vs, q)
    BY <1>11, <1>14 DEF Shared
  <2>2. m \in Nat \ {0} /\ us \in [1 .. m + 1 -> Int] /\ DOMAIN common = 1 .. m /\ Len(common) = m
    <3>1. m \in Nat \ {0} /\ us \in [1 .. m + 1 -> Int]
      BY <2>1, Increasing
    <3>2. DOMAIN common = 1 .. m
      BY <2>1, AllBetween
    <3> QED
      BY <2>1, <3>1, <3>2 DEF Between
  <2>3. UNION {DaysOf(common[i]) : i \in DOMAIN common} = SharedDays
    BY <1>12, <2>1, DaysBetween
  <2>4. ASSUME NEW id \in AllComponents, NEW i \in 1 .. m, NEW d \in DaysOf(common[i])
        PROVE  SaysOnDay(changed[id], c, r, id, m, i, d) /\ SaysOnDay(reference[id], r, c, id, m, i, d)
    <3>1. SaysOnDay(FitComponent(Normalized(c, r)[id], common), c, r, id, m, i, d)
      BY <1>1, <1>6, <1>7, <1>8, <2>1, FittedSays
    <3>2. SaysOnDay(FitComponent(Normalized(r, c)[id], common), r, c, id, m, i, d)
      BY <1>1, <1>6, <1>7, <1>8, <2>1, FittedSays
    <3> QED
      BY <1>4, <3>1, <3>2
  <2>5. 1 \in 1 .. m /\ us[1] \in DaysOf(common[1])
    <3>1. 1 \in 1 .. m /\ 1 \in 1 .. m + 1 /\ 2 \in 1 .. m + 1 /\ 1 < 2 /\ 1 + 1 = 2
      BY <2>2
    <3>2. us[1] < us[2] /\ common[1] = <<us[1], us[2]>> /\ us[1] \in Int /\ us[2] \in Int
      BY <2>1, <2>2, <3>1 DEF Between
    <3> QED
      BY <3>1, <3>2 DEF DaysOf, Start, End
  <2>6. ASSUME NEW id \in AllComponents PROVE (changed[id].unit = reference[id].unit) <=> UnitsAgree(id)
    <3>1. SaysOnDay(changed[id], c, r, id, m, 1, us[1]) /\ SaysOnDay(reference[id], r, c, id, m, 1, us[1])
      BY <2>4, <2>5
    <3>2. /\ changed[id].unit = IF IsIn(id, c) THEN c.components[id].unit ELSE r.components[id].unit
          /\ reference[id].unit = IF IsIn(id, r) THEN r.components[id].unit ELSE c.components[id].unit
      BY <3>1 DEF SaysOnDay
    <3>3. IsIn(id, c) \/ IsIn(id, r)
      BY <1>6 DEF IsIn
    <3> QED
      BY <3>2, <3>3 DEF UnitsAgree, c, r
  <2>7. DOMAIN delta = {id \in DOMAIN compared.changed.components \cup DOMAIN compared.reference.components : UnitsAgree(id)}
    BY <1>2, <1>5, <2>6 DEF AllComponents
  <2>8. ASSUME NEW id \in DOMAIN delta, NEW i \in 1 .. m, NEW d \in DaysOf(common[i])
        PROVE  Len(delta[id].energy) = m /\ DeltaOnDay(id, i, d)
    <3>1. id \in AllComponents /\ delta[id] = Difference(changed[id], reference[id])
      BY <1>2, <1>5
    <3>2. SaysOnDay(changed[id], c, r, id, m, i, d) /\ SaysOnDay(reference[id], r, c, id, m, i, d)
      BY <2>4, <3>1
    <3> QED
      BY <2>2, <3>1, <3>2, DifferenceOnDay DEF c, r
  <2>9. \A id \in DOMAIN delta : Len(delta[id].energy) = Len(common)
    BY <2>2, <2>5, <2>8
  <2> QED
    BY <2>2, <2>3, <2>7, <2>8, <2>9 DEF DeltaIsDayByDay
<1> QED
  BY <1>11, <1>13, <1>14

LEMMA DeltaStarts ==
  ASSUME Init
  PROVE  DeltaInv
<1>1. comparison = "given"
  BY DEF Init, InitDelta
<1>2. part = "comparison" => compared \in Comparisons
  BY DEF Init
<1> QED
  BY <1>1, <1>2 DEF DeltaInv

\* The invariant of a comparison: what its stages have found so far is what the two results
\* give, and nothing is compared while another part runs.
THEOREM DeltaInductive == Spec => []DeltaInv
<1>1. Init => DeltaInv
  BY DeltaStarts
<1>2. DeltaInv /\ [Next]_vars => DeltaInv'
  <2> SUFFICES ASSUME DeltaInv, [Next]_vars PROVE DeltaInv'
    OBVIOUS
  <2>1. CASE part = "comparison" /\ NextDelta /\ part' = part
    BY <2>1, DeltaKeeps
  <2>2. CASE UNCHANGED <<part, deltaVars>>
    BY <2>2, DeltaElse
  <2> QED
    BY <2>1, <2>2 DEF Next, vars
<1> QED
  BY <1>1, <1>2, PTL DEF Spec

\* However the periods of two results lie, their difference covers the days that both cover
\* and is on each of them what the one says less what the other says, for every component
\* and emission of either.
THEOREM DeltaIsExact == Spec => []DeltaIsDayByDay
<1>1. DeltaInv => DeltaIsDayByDay
  <2>1. CASE comparison = "subtracted"
    BY <2>1, DeltaHolds
  <2>2. CASE comparison # "subtracted"
    BY <2>2 DEF DeltaIsDayByDay
  <2> QED
    BY <2>1, <2>2
<1> QED
  BY <1>1, DeltaInductive, PTL

=============================================================================

----------------------------- MODULE DeltaProfile -----------------------------
(***************************************************************************)
(* The difference between the results of two models                         *)
(* (simple_result/simple.py, SimpleResultData.delta_profile): the dates they *)
(* have in common, the components and emissions of either, both results on   *)
(* the periods between those dates, and what is left when one is subtracted *)
(* from the other.                                                          *)
(*                                                                         *)
(* A result is a record [periods, components], components a function from   *)
(* the ids (type and name) of its components to records                     *)
(* [unit, parent, energy, power, emissions, valid]; energy, power, valid and *)
(* every emission have one value for each period.                           *)
(***************************************************************************)
EXTENDS Periods, Functions

CONSTANT Comparisons  \* the pairs [changed, reference] of results that may be compared

VARIABLES compared,   \* the pair as it was given; no operation of the code reads it
          changed, reference, common, delta, comparison

deltaVars == <<compared, changed, reference, common, delta, comparison>>

NoPower  == <<>>
Orphan   == "no parent"

DatesWithin(r, first, last) == {d \in Range(AllDates(r.periods)) : first <= d /\ d <= last}

\* delta_profile: the periods between the dates of both, where both are defined.
CommonPeriods(c, r) ==
  LET first == Later(Start(Span(c.periods)), Start(Span(r.periods)))
      last  == Earlier(End(Span(c.periods)), End(Span(r.periods)))
  IN  CreatePeriods(SortedDates(DatesWithin(c, first, last) \cup DatesWithin(r, first, last)),
                    FALSE, FALSE)

Repeated(x, ps) == [i \in DOMAIN ps |-> x]

\* _create_empty_component
Empty(component, ps) ==
  [component EXCEPT !.energy = Repeated(0, ps), !.power = Repeated(0, ps), !.valid = Repeated(TRUE, ps),
                    !.emissions = [e \in DOMAIN component.emissions |-> Repeated(0, ps)]]

\* normalize_components: what r has, or is given so that it can be compared with s.
Normalized(r, s) ==
  LET ids == DOMAIN r.components \cup DOMAIN s.components
      Mine(id) == IF id \in DOMAIN r.components THEN r.components[id]
                  ELSE Empty(s.components[id], s.periods)
      Its(id)  == IF id \in DOMAIN s.components THEN s.components[id] ELSE r.components[id]
      On(id)   == IF id \in DOMAIN r.components THEN r.periods ELSE s.periods
      Emitted(id) == DOMAIN Mine(id).emissions \cup DOMAIN Its(id).emissions
  IN  [id \in ids |->
         [on        |-> On(id),
          component |-> [Mine(id) EXCEPT !.emissions =
                           [e \in Emitted(id) |-> IF e \in DOMAIN @ THEN @[e] ELSE Repeated(0, On(id))]]]]

\* How many of the periods ps a period is split into; none when it lies outside.
Pieces(p, ps) ==
  IF ~Intersects(p, Span(ps)) THEN 0
  ELSE LET cut == Intersection(p, Span(ps))
       IN  1 + (CHOOSE i \in DOMAIN ps : End(ps[i]) = End(cut))
             - (CHOOSE i \in DOMAIN ps : Start(ps[i]) = Start(cut))

\* Mutant: a period is not split.
FittedWhole(values, on, ps) ==
  FlattenSeq([i \in DOMAIN values |-> IF Pieces(on[i], ps) = 0 THEN <<>> ELSE <<values[i]>>])

\* Values over the periods on, repeated for every one of the periods ps.
FittedTo(values, on, ps) ==
  FlattenSeq([i \in DOMAIN values |-> [k \in 1..Pieces(on[i], ps) |-> values[i]]])

\* SimpleComponentResult.fit_to_periods
FitComponent(n, ps) ==
  [n.component EXCEPT !.energy = FittedTo(@, n.on, ps), !.power = FittedTo(@, n.on, ps),
                      !.valid = FittedTo(@, n.on, ps),
                      !.emissions = [e \in DOMAIN @ |-> FittedTo(@[e], n.on, ps)]]

\* _subtract_list: as long as the shorter of the two.
Less(xs, ys) == [i \in 1..Min({Len(xs), Len(ys)}) |-> xs[i] - ys[i]]

\* SimpleComponentResult.__sub__
Difference(c, r) ==
  [c EXCEPT !.parent = IF c.parent = r.parent THEN @ ELSE Orphan,
            !.energy = Less(@, r.energy), !.power = Less(@, r.power),
            !.valid = [i \in DOMAIN @ |-> @[i] /\ r.valid[i]],
            !.emissions = [e \in DOMAIN @ |-> Less(@[e], r.emissions[e])]]

\* What the evaluation of a model returns (TimeSeries, Periods): periods that follow
\* one another, and values for all of them.
FollowOn(ps) ==
  /\ ps \in Seq(Int \X Int) /\ ps # <<>>
  /\ \A i \in DOMAIN ps : Start(ps[i]) < End(ps[i]) /\ (i < Len(ps) => End(ps[i]) = Start(ps[i + 1]))

IsComponentOn(c, ps) ==
  /\ DOMAIN c = {"unit", "parent", "energy", "power", "emissions", "valid"}
  /\ c.energy \in [DOMAIN ps -> Int] /\ c.valid \in [DOMAIN ps -> BOOLEAN]
  /\ c.power = NoPower \/ c.power \in [DOMAIN ps -> Int]
  /\ \A e \in DOMAIN c.emissions : c.emissions[e] \in [DOMAIN ps -> Int]

IsResult(r) ==
  FollowOn(r.periods) /\ \A id \in DOMAIN r.components : IsComponentOn(r.components[id], r.periods)

ASSUME ComparisonsAssumption ==
  \A pair \in Comparisons : IsResult(pair.changed) /\ IsResult(pair.reference)

SameUnit == {id \in DOMAIN changed : changed[id].unit = reference[id].unit}

-----------------------------------------------------------------------------
NoneYet == <<>>

InitDelta ==
  /\ changed = NoneYet /\ reference = NoneYet
  /\ common = <<>>
  /\ delta = NoneYet
  /\ comparison = "given"

FindPeriods ==
  /\ comparison = "given"
  /\ common' = CommonPeriods(compared.changed, compared.reference)
  /\ comparison' = "periods"
  /\ UNCHANGED <<compared, changed, reference, delta>>

Normalize ==
  /\ comparison = "periods"
  /\ changed' = Normalized(compared.changed, compared.reference)
  /\ reference' = Normalized(compared.reference, compared.changed)
  /\ comparison' = "normalized"
  /\ UNCHANGED <<compared, common, delta>>

\* Without a period in common the span that is asked for raises IndexError.
Fit ==
  /\ comparison = "normalized"
  /\ IF common = <<>> /\ changed # NoneYet
     THEN /\ comparison' = "IndexError"
          /\ UNCHANGED <<changed, reference>>
     ELSE /\ comparison' = "fitted"
          /\ changed' = [id \in DOMAIN changed |-> FitComponent(changed[id], common)]
          /\ reference' = [id \in DOMAIN reference |-> FitComponent(reference[id], common)]
  /\ UNCHANGED <<compared, common, delta>>

\* Components with different units are left out, and an error is returned for each.
Subtract ==
  /\ comparison = "fitted"
  /\ delta' = [id \in SameUnit |-> Difference(changed[id], reference[id])]
  /\ comparison' = "subtracted"
  /\ UNCHANGED <<compared, changed, reference, common>>

NextDelta == FindPeriods \/ Normalize \/ Fit \/ Subtract

-----------------------------------------------------------------------------
\* What a result says of a component on a day.
Indices(r, d) == {i \in DOMAIN r.periods : ContainsDate(r.periods[i], d)}
IsIn(id, r)  == id \in DOMAIN r.components
EnergyOn(r, id, d) == IF IsIn(id, r) THEN r.components[id].energy[CHOOSE i \in Indices(r, d) : TRUE] ELSE 0
ValidOn(r, id, d)  == IsIn(id, r) => r.components[id].valid[CHOOSE i \in Indices(r, d) : TRUE]
Emissions(r, id)   == IF IsIn(id, r) THEN DOMAIN r.components[id].emissions ELSE {}
EmittedOn(r, id, e, d) ==
  IF e \in Emissions(r, id) THEN r.components[id].emissions[e][CHOOSE i \in Indices(r, d) : TRUE] ELSE 0
PowerOn(r, id, d) == IF IsIn(id, r) THEN r.components[id].power[CHOOSE i \in Indices(r, d) : TRUE] ELSE 0
HasPower(r, id)   == IsIn(id, r) => r.components[id].power # NoPower

DeltaOnDay(id, i, d) ==
  LET c == compared.changed
      r == compared.reference
  IN  /\ delta[id].energy[i] = EnergyOn(c, id, d) - EnergyOn(r, id, d)
      /\ delta[id].valid[i] = (ValidOn(c, id, d) /\ ValidOn(r, id, d))
      /\ DOMAIN delta[id].emissions = Emissions(c, id) \cup Emissions(r, id)
      /\ \A e \in DOMAIN delta[id].emissions :
           delta[id].emissions[e][i] = EmittedOn(c, id, e, d) - EmittedOn(r, id, e, d)
      /\ HasPower(c, id) /\ HasPower(r, id) =>
           delta[id].power[i] = PowerOn(c, id, d) - PowerOn(r, id, d)

SharedDays == {d \in DaysOf(Span(compared.changed.periods)) : ContainsDate(Span(compared.reference.periods), d)}

UnitsAgree(id) ==
  IsIn(id, compared.changed) /\ IsIn(id, compared.reference) =>
    compared.changed.components[id].unit = compared.reference.components[id].unit

\* However the periods of the two results lie, the difference covers the days
\* that both cover and no other; on each of those days it is what the one result
\* says less what the other says, for every component and every emission of
\* either, with nothing for what one of them does not have; it is valid exactly
\* where both are; and only a component whose units differ is missing from it.
DeltaIsDayByDay ==
  comparison = "subtracted" =>
    /\ UNION {DaysOf(common[i]) : i \in DOMAIN common} = SharedDays
    /\ DOMAIN delta = {id \in DOMAIN compared.changed.components \cup DOMAIN compared.reference.components :
                         UnitsAgree(id)}
    /\ \A id \in DOMAIN delta :
         /\ Len(delta[id].energy) = Len(common)
         /\ \A i \in DOMAIN common : \A d \in DaysOf(common[i]) : DeltaOnDay(id, i, d)

=============================================================================

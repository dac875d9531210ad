------------------------------- MODULE Periods -------------------------------
(***************************************************************************)
(* Dates, periods and models that vary with time (common/time_utils.py,     *)
(* common/temporal_model.py).  A date is a number of days.  A period is the *)
(* pair <<start, end>> and holds the days from start up to, not including,  *)
(* end.  A list of periods (class Periods) is a sequence.  What the code    *)
(* raises as ProgrammingError is the value Misaligned.                      *)
(***************************************************************************)
EXTENDS Integers, Sequences, FiniteSets, SequencesExt

CONSTANTS DateMin,      \* datetime.min
          DateMax,      \* datetime.max, the end of a model that never ends
          DefaultStart  \* DEFAULT_START_TIME, of a run that does not say when it starts

ASSUME DatesAssumption ==
  /\ DateMin \in Int /\ DateMax \in Int /\ DefaultStart \in Int
  /\ DateMin < DefaultStart /\ DefaultStart < DateMax

NoError    == "no_error"
Misaligned == "ProgrammingError"

Start(p) == p[1]
End(p)   == p[2]
Later(d, e)   == IF d < e THEN e ELSE d
Earlier(d, e) == IF d < e THEN d ELSE e

ContainsDate(p, d)   == Start(p) <= d /\ d < End(p)
ContainsPeriod(p, q) == Start(p) <= Start(q) /\ Start(q) < End(q) /\ End(q) <= End(p)

Intersects(p, q)   == ContainsDate(q, Start(p)) \/ ContainsDate(p, Start(q))
Intersection(p, q) == <<Later(Start(p), Start(q)), Earlier(End(p), End(q))>>

StartDates(ps) == [i \in DOMAIN ps |-> Start(ps[i])]
AllDates(ps)   == Append(StartDates(ps), End(Last(ps)))
Span(ps)       == <<Start(Head(ps)), End(Last(ps))>>
SortedDates(S) ==
  [i \in 1..Cardinality(S) |-> CHOOSE d \in S : Cardinality({e \in S : e < d}) = i - 1]

\* The days of a period, and of a list of periods.
DaysOf(p) == Start(p)..(End(p) - 1)
Length(p) == End(p) - Start(p)

\* Periods.create_periods on the sorted dates ts.
CreatePeriods(ts, before, after) ==
  IF ts = <<>> THEN <<>>
  ELSE (IF before THEN <<<<DateMin, Head(ts)>>>> ELSE <<>>)
       \o [i \in 1..(Len(ts) - 1) |-> <<ts[i], ts[i + 1]>>]
       \o (IF after THEN <<<<Last(ts), DateMax>>>> ELSE <<>>)

\* Period.get_period_indices: the first and the last of ps that lie in p, or
\* Misaligned when an end of p is no date of ps.
PeriodIndices(p, ps) ==
  LET from == Later(Start(p), Start(Head(ps)))
      to   == Earlier(End(p), End(Last(ps)))
      firsts == {i \in DOMAIN ps : Start(ps[i]) = from}
      lasts  == {i \in 0..Len(ps) : AllDates(ps)[i + 1] = to}
  IN  IF firsts = {} \/ lasts = {} THEN Misaligned
      ELSE <<CHOOSE i \in firsts : \A j \in firsts : i <= j,
             CHOOSE i \in lasts : \A j \in lasts : i <= j>>

\* Periods.get_period: the index of the first period of ps that holds all of p.
HoldingPeriod(ps, p) == {i \in DOMAIN ps :
                           /\ ContainsPeriod(ps[i], p)
                           /\ \A j \in 1..(i - 1) : ~ContainsPeriod(ps[j], p)}

(***************************************************************************)
(* A temporal model is a sequence of records [period, model] in the order   *)
(* of its keys.  Keys that are dates become periods that end at the next    *)
(* key, the last one never (default_temporal_model, TemporalModel.__init__).*)
(***************************************************************************)
FromDateKeys(entries) ==
  [i \in DOMAIN entries |->
     [period |-> <<entries[i].date,
                   IF i = Len(entries) THEN DateMax ELSE entries[i + 1].date>>,
      model  |-> entries[i].model]]

\* define_time_model_for_period: what intersects the target, cut to it.
ForTarget(tm, target) ==
  FlattenSeq([i \in DOMAIN tm |->
    IF Intersects(tm[i].period, target)
    THEN <<[tm[i] EXCEPT !.period = Intersection(@, target)]>> ELSE <<>>])

\* The order TemporalModel.__init__ insists on: it raises UnsortedKeys otherwise.
IsSortedModel(tm) ==
  \A i, j \in DOMAIN tm : i < j =>
    \/ Start(tm[i].period) < Start(tm[j].period)
    \/ Start(tm[i].period) = Start(tm[j].period) /\ End(tm[i].period) <= End(tm[j].period)

\* TemporalModel.get_model: the indices that may answer for the period p; the
\* code raises ValueError when there is none.
ModelFor(tm, p) == HoldingPeriod([i \in DOMAIN tm |-> tm[i].period], p)

\* The dates a model may leave out.
NoDate == -1

\* The dates of the run, or {} when start and end cannot bound it.
GlobalDates(seriesDates, start, end, additional) ==
  IF seriesDates = {} /\ start = NoDate THEN {}
  ELSE LET first == IF start = NoDate THEN Min(seriesDates) ELSE start
       IN  IF end <= first THEN {}
           ELSE {d \in seriesDates \cup {first, end} \cup additional : first <= d /\ d <= end}

(***************************************************************************)
(* Reporting periods.  grid is the set of dates that start a year, a month  *)
(* or a day.  pd.date_range is asked for the dates strictly between start   *)
(* and end, so the two ends are there only when asked for.                  *)
(***************************************************************************)
ReportingDates(grid, span, withStart, withEnd) ==
  {d \in grid : Start(span) < d /\ d < End(span)}
    \cup (IF withStart THEN {Start(span)} ELSE {})
    \cup (IF withEnd THEN {End(span)} ELSE {})

ResamplePeriods(ps, grid, withStart, withEnd) ==
  CreatePeriods(SortedDates(ReportingDates(grid, Span(ps), withStart, withEnd)),
                FALSE, FALSE)

=============================================================================

----------------------------- MODULE TimeSeries -----------------------------
(***************************************************************************)
(* The time series of a result and what reporting does with them            *)
(* (common/utils/rates.py, json_result/result/tabular_time_series.py): a    *)
(* rate with its regularity, a validity flag and an operating value such as *)
(* a speed, all over the same periods.  The results are converted between   *)
(* calendar and stream days, added, joined in time, cut to a period and     *)
(* resampled, in any order.                                                 *)
(*                                                                          *)
(* Beside the series the model keeps what they stand for day by day: the    *)
(* volume of every calendar and stream day, the validity and the value in   *)
(* force, and the dates no averaging has blurred.  No operation of the code *)
(* reads them.                                                              *)
(***************************************************************************)
EXTENDS Rates

CONSTANTS Horizon,     \* the days of the model
          Grids,       \* reporting frequencies, each the set of its dates
          Inputs,      \* the results a run may start from
          MaxOps       \* bound on the operations applied to one result

\* The dates a period of the model may start or end on.
Dates == Horizon \cup {d + 1 : d \in Horizon}

VARIABLES result,      \* the result that is reported
          other,       \* a second result, to add or to join
          daily,       \* what result stands for: [volume, streamVolume, stopped, valid, value] by day
          exact,       \* the dates that every resampling so far kept as an end of a period
          ops

timeSeriesVars == <<result, other, daily, exact, ops>>

(***************************************************************************)
(* Operations on a result.                                                  *)
(***************************************************************************)
Resampled(r, new) ==
  [ResampledRate(r, new) EXCEPT !.valid = ResampledFlags(r.periods, r.valid, new),
                                !.value = ResampledValues(r.periods, r.value, new)]

Sliced(r, from, to) ==
  [r EXCEPT !.periods    = SubSeq(r.periods, from, to),
            !.rates      = SubSeq(r.rates, from, to),
            !.regularity = SubSeq(r.regularity, from, to),
            !.valid      = SubSeq(r.valid, from, to),
            !.value      = SubSeq(r.value, from, to)]

\* TimeSeries.merge and TimeSeriesRate.merge raise unless one follows the other.
CanMerge(r, s) ==
  LET mine == Span(r.periods)
      its  == Span(s.periods)
  IN  /\ r.type = s.type
      /\ ~Intersects(mine, its)
      /\ Start(mine) = End(its) \/ End(mine) = Start(its)

Merged(r, s) ==
  LET first  == IF Start(Span(r.periods)) < End(Span(s.periods)) THEN r ELSE s
      second == IF first = r THEN s ELSE r
  IN  [r EXCEPT !.periods    = first.periods \o second.periods,
                !.rates      = first.rates \o second.rates,
                !.regularity = first.regularity \o second.regularity,
                !.valid      = first.valid \o second.valid,
                !.value      = first.value \o second.value]

(***************************************************************************)
(* What a result stands for.                                                *)
(***************************************************************************)
PeriodOfDay(ps, d) == CHOOSE i \in DOMAIN ps : d \in DaysOf(ps[i])

Covered(r) == UNION {DaysOf(r.periods[i]) : i \in DOMAIN r.periods}

DailyOf(r) ==
  LET calendar == ToCalendarDay(r)
      stream   == ToStreamDay(r)
  IN  [d \in Horizon |->
         IF d \in Covered(r)
         THEN LET i == PeriodOfDay(r.periods, d)
              IN  [volume |-> calendar.rates[i], streamVolume |-> stream.rates[i],
                   stopped |-> calendar.rates[i] = Zero /\ stream.rates[i] # Zero,
                   valid |-> r.valid[i], value |-> r.value[i]]
         ELSE [volume |-> Zero, streamVolume |-> Zero, stopped |-> FALSE,
               valid |-> TRUE, value |-> "NaN"]]

JoinDaily(f, g) ==
  [d \in Horizon |->
     [volume       |-> Plus(f[d].volume, g[d].volume),
      streamVolume |-> Plus(f[d].streamVolume, g[d].streamVolume),
      stopped      |-> f[d].stopped \/ g[d].stopped,
      valid        |-> f[d].valid /\ g[d].valid,
      value        |-> IF f[d].value = "NaN" THEN g[d].value ELSE f[d].value]]

\* After a cut, days outside the span of the periods produce nothing.
CutDaily(f, ps) ==
  [d \in Horizon |->
     IF ContainsDate(Span(ps), d) THEN f[d]
     ELSE [f[d] EXCEPT !.volume = Zero, !.streamVolume = Zero, !.stopped = FALSE]]

-----------------------------------------------------------------------------
InitTimeSeries ==
  /\ daily = DailyOf(result)
  /\ exact = Dates
  /\ ops = 0

Operate == ops < MaxOps /\ ops' = ops + 1

ConvertToCalendarDay ==
  /\ Operate
  /\ result.type = STREAM_DAY
  /\ result' = ToCalendarDay(result)
  /\ other' = ToCalendarDay(other)
  /\ UNCHANGED <<daily, exact>>

ConvertToStreamDay ==
  /\ Operate
  /\ result.type = CALENDAR_DAY
  /\ result' = ToStreamDay(result)
  /\ other' = ToStreamDay(other)
  /\ UNCHANGED <<daily, exact>>

\* Callers add results of one model, over the same periods.
Add ==
  /\ Operate
  /\ result.periods = other.periods
  /\ result.type = other.type
  /\ result' = [AddedRate(result, other) EXCEPT
                  !.valid = [i \in DOMAIN result.valid |-> result.valid[i] /\ other.valid[i]]]
  /\ daily' = [d \in Horizon |-> [JoinDaily(daily, DailyOf(other))[d] EXCEPT !.value = daily[d].value]]
  /\ UNCHANGED <<other, exact>>

Merge ==
  /\ Operate
  /\ CanMerge(result, other)
  /\ result' = Merged(result, other)
  /\ daily' = JoinDaily(daily, DailyOf(other))
  /\ exact' = exact \cup Range(AllDates(other.periods))
  /\ UNCHANGED other

\* for_period raises unless both ends of the period are dates of the series.
ForPeriod ==
  /\ Operate
  /\ \E s, e \in Range(AllDates(result.periods)) :
       /\ s < e
       /\ LET bounds == PeriodIndices(<<s, e>>, result.periods)
          IN  /\ bounds # Misaligned
              /\ result' = Sliced(result, bounds[1], bounds[2])
              /\ daily' = CutDaily(daily, SubSeq(result.periods, bounds[1], bounds[2]))
  /\ UNCHANGED <<other, exact>>

\* TabularTimeSeries.resample keeps both ends; the series themselves can be
\* asked to drop either.  With no period left the cumulative volume has no last
\* date and raises IndexError.
Resample ==
  /\ Operate
  /\ \E grid \in Grids, withStart, withEnd \in BOOLEAN :
       LET new == ResamplePeriods(result.periods, grid, withStart, withEnd)
       IN  /\ new # <<>>
           /\ result' = Resampled(result, new)
           /\ daily' = CutDaily(daily, new)
           /\ exact' = exact \cap Range(AllDates(new))
  /\ UNCHANGED other

NextTimeSeries ==
  \/ ConvertToCalendarDay
  \/ ConvertToStreamDay
  \/ Add
  \/ Merge
  \/ ForPeriod
  \/ Resample

-----------------------------------------------------------------------------
PeriodsBetween(s, e) == {i \in DOMAIN result.periods : ContainsPeriod(<<s, e>>, result.periods[i])}

ReportedBetween(rates, s, e) ==
  LET volumes == PeriodVolumes(result.periods, rates)
  IN  SumOver(PeriodsBetween(s, e), LAMBDA i : NaNToZero(volumes[i]))

ProducedBetween(s, e) == SumOver(s..(e - 1), LAMBDA d : daily[d].volume)
StreamedBetween(s, e) == SumOver(s..(e - 1), LAMBDA d : daily[d].streamVolume)

KeptDates == exact \cap Range(AllDates(result.periods))

\* Between two dates that no averaging blurred.
CalendarVolumesKept ==
  LET rates == ToCalendarDay(result).rates
  IN  \A s, e \in KeptDates : s < e => ReportedBetween(rates, s, e) = ProducedBetween(s, e)

\* Where no part of the result has a stream day rate and a regularity of zero.
StreamVolumesKept ==
  LET rates == ToStreamDay(result).rates
  IN  \A s, e \in KeptDates :
        /\ s < e
        /\ \A d \in s..(e - 1) : ~daily[d].stopped
        => ReportedBetween(rates, s, e) = StreamedBetween(s, e)

\* Adding two results of unequal regularity divides zero by zero where both are
\* idle.
NaNMeansIdle ==
  \A i \in DOMAIN result.periods :
    NaN \in {result.rates[i], result.regularity[i]} =>
      \A d \in DaysOf(result.periods[i]) : daily[d].volume = Zero

\* Nothing is gained or lost, and a NaN never hides production.
VolumesConserved == CalendarVolumesKept /\ StreamVolumesKept /\ NaNMeansIdle

ValidMeansEveryDay ==
  \A i \in DOMAIN result.periods :
    result.valid[i] => \A d \in DaysOf(result.periods[i]) : daily[d].valid

\* Nothing is taken from the future.
FilledFromThePast ==
  \A i \in DOMAIN result.periods :
    result.value[i] # "NaN" =>
      \E d \in Horizon : d <= Start(result.periods[i]) /\ daily[d].value = result.value[i]

\* The date of the observation in force on a day.
ObservedOn(d) ==
  CHOOSE c \in Horizon :
    /\ c <= d
    /\ c - 1 \in Horizon => daily[c].value # daily[c - 1].value
    /\ \A e \in (c + 1)..d : daily[e].value = daily[c].value

\* TimeSeries.resample: "a value is assumed to be the same until the next
\* observation", as long as every resampling kept the date of that observation.
ObservedValuesKept ==
  \A i \in DOMAIN result.periods :
    LET day == Start(result.periods[i])
    IN  ObservedOn(day) \in exact /\ daily[day].value # "NaN" => result.value[i] = daily[day].value

\* Whatever was added, joined, cut or averaged before, the calendar day volume
\* a result reports between two dates is the volume of the days between them,
\* and so is the stream day volume, which sizes the equipment; a reporting
\* period is called valid only when every day in it was; and a value carried
\* forward was in force on the start date of its period or before it, and is the
\* one in force there if it was observed on a date that was kept.
ResultsStandForTheDays ==
  VolumesConserved /\ ValidMeansEveryDay /\ FilledFromThePast /\ ObservedValuesKept

=============================================================================

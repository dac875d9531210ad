-------------------------------- MODULE Rates --------------------------------
(***************************************************************************)
(* Rates, volumes, flags and values over the periods they hold for          *)
(* (common/utils/rates.py, common/list/list_utils.py).  A series is a       *)
(* sequence with one entry for each of its periods.                         *)
(***************************************************************************)
EXTENDS Periods, Rational, Functions

STREAM_DAY   == "STREAM_DAY"
CALENDAR_DAY == "CALENDAR_DAY"

(***************************************************************************)
(* Rates.                                                                   *)
(***************************************************************************)
\* Rates.to_calendar_day and Rates.to_stream_day.
CalendarRates(rates, regularity) == [i \in DOMAIN rates |-> Times(rates[i], regularity[i])]
StreamRates(rates, regularity) ==
  [i \in DOMAIN rates |-> IF regularity[i] = Zero THEN Zero ELSE Over(rates[i], regularity[i])]

ToCalendarDay(r) ==
  IF r.type = CALENDAR_DAY THEN r
  ELSE [r EXCEPT !.rates = CalendarRates(r.rates, r.regularity), !.type = CALENDAR_DAY]

ToStreamDay(r) ==
  IF r.type = STREAM_DAY THEN r
  ELSE [r EXCEPT !.rates = StreamRates(r.rates, r.regularity), !.type = STREAM_DAY]

\* Rates.to_volumes: a rate is constant within its period.
PeriodVolumes(ps, rates) == [i \in DOMAIN ps |-> Times(rates[i], Whole(Length(ps[i])))]

\* Rates.compute_cumulative (np.nancumsum), with the zero that stands at the
\* start date: entry i + 1 is the volume up to the end of period i.
Cumulative(volumes) ==
  LET upTo[i \in 0..Len(volumes)] ==
        IF i = 0 THEN Zero ELSE Plus(upTo[i - 1], NaNToZero(volumes[i]))
  IN  [i \in 1..(Len(volumes) + 1) |-> upTo[i - 1]]

\* Linear interpolation in time of a cumulative volume.
CumulativeAt(ps, cumulative, d) ==
  LET i == CHOOSE i \in DOMAIN ps : Start(ps[i]) <= d /\ d <= End(ps[i])
      elapsed == Fraction(d - Start(ps[i]), Length(ps[i]))
  IN  Plus(cumulative[i], Times(Minus(cumulative[i + 1], cumulative[i]), elapsed))

\* Mutant: the volume before the first new date is not taken off.
UndroppedVolumes(ps, volumes, new) ==
  LET cumulative == Cumulative(volumes)
      reached == [i \in DOMAIN new |-> CumulativeAt(ps, cumulative, End(new[i]))]
  IN  [i \in DOMAIN new |-> IF i = 1 THEN reached[1] ELSE Minus(reached[i], reached[i - 1])]

\* TimeSeriesVolumesCumulative.resample and .to_volumes.
ResampledVolumes(ps, volumes, new) ==
  LET cumulative == Cumulative(volumes)
  IN  [i \in DOMAIN new |-> Minus(CumulativeAt(ps, cumulative, End(new[i])),
                                  CumulativeAt(ps, cumulative, Start(new[i])))]

\* TimeSeriesRate.resample: average rates from volumes, and as regularity the
\* ratio of the calendar day volume to the stream day volume.
ResampledRate(r, new) ==
  LET calendar == ResampledVolumes(r.periods, PeriodVolumes(r.periods, ToCalendarDay(r).rates), new)
      stream   == ResampledVolumes(r.periods, PeriodVolumes(r.periods, ToStreamDay(r).rates), new)
      average  ==
        [r EXCEPT !.periods = new,
                  !.type = CALENDAR_DAY,
                  !.rates = [i \in DOMAIN new |-> Over(calendar[i], Whole(Length(new[i])))],
                  !.regularity = [i \in DOMAIN new |->
                                    IF stream[i] = Zero THEN Zero ELSE Over(calendar[i], stream[i])]]
  IN  IF r.type = CALENDAR_DAY THEN average ELSE ToStreamDay(average)

\* list_utils.elementwise_sum.
ElementwiseSum(xs, ys) == [i \in DOMAIN xs |-> Plus(NaNToZero(xs[i]), NaNToZero(ys[i]))]

\* TimeSeriesRate.__add__ on rates of one type.
AddedRate(r, s) ==
  LET calendar == ElementwiseSum(ToCalendarDay(r).rates, ToCalendarDay(s).rates)
      stream   == ElementwiseSum(ToStreamDay(r).rates, ToStreamDay(s).rates)
  IN  [r EXCEPT !.rates = ElementwiseSum(r.rates, s.rates),
                !.regularity = IF r.regularity = s.regularity THEN r.regularity
                               ELSE [i \in DOMAIN r.rates |-> Over(calendar[i], stream[i])]]

(***************************************************************************)
(* Flags and values.                                                        *)
(***************************************************************************)
\* Mutant: the flag in force on the start date.
FlagAtStart(ps, flags, new) ==
  [i \in DOMAIN new |-> flags[CHOOSE j \in DOMAIN ps : ContainsDate(ps[j], Start(new[i]))]]

\* TimeSeriesBoolean.resample: a new period is valid when all the old ones
\* between the last date at or before its start and the last one before its
\* end are.
ResampledFlags(ps, flags, new) ==
  LET dates == AllDates(ps)
      LastDateIn(S) == CHOOSE i \in S : \A j \in S : j <= i
      firstOld(p) == LastDateIn({i \in DOMAIN dates : dates[i] <= Start(p)})
      lastOld(p)  == LastDateIn({i \in DOMAIN dates : dates[i] < End(p)})
  IN  [i \in DOMAIN new |-> \A j \in firstOld(new[i])..lastOld(new[i]) : j \in DOMAIN flags => flags[j]]

\* Mutant: nothing is filled forward.
ReindexedValues(ps, values, new) ==
  [i \in DOMAIN new |->
     LET known == {j \in DOMAIN ps : Start(ps[j]) = Start(new[i])}
     IN  IF known = {} THEN "NaN" ELSE values[CHOOSE j \in known : TRUE]]

\* TimeSeries.resample: reindex to the new start dates, which drops what was
\* observed on any other date, then fill forward.  "NaN" is what no earlier new
\* period fills.
ResampledValues(ps, values, new) ==
  LET known(i) == {j \in DOMAIN ps : Start(ps[j]) = Start(new[i]) /\ values[j] # "NaN"}
      filled[i \in 0..Len(new)] ==
        IF i = 0 THEN "NaN"
        ELSE IF known(i) = {} THEN filled[i - 1]
        ELSE values[CHOOSE j \in known(i) : TRUE]
  IN  [i \in DOMAIN new |-> filled[i]]

\* The sum of Value over a finite set.
SumOver(S, Value(_)) ==
  MapThenFoldSet(Plus, Zero, Value, LAMBDA T : CHOOSE x \in T : TRUE, S)

=============================================================================

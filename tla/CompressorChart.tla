--------------------------- MODULE CompressorChart ---------------------------
(***************************************************************************)
(* A compressor's chart asked in its two ways (compressor_chart.py): where a *)
(* rate and a head lie relative to its area, and which head a speed and a   *)
(* rate give.  The second is what roots are searched in, over the speed and *)
(* over the recirculated rate; a sweep asks one point after another, each a *)
(* step faster or a step further right than the one before.                 *)
(*                                                                          *)
(* Efficiencies, and the tolerances EPSILON and NUMERICAL_TOLERANCE, are    *)
(* left out.  A rate left of the minimum flow is always recirculated and a  *)
(* speed below the slowest curve never raised, as every caller asks for.    *)
(***************************************************************************)
EXTENDS Chart

LOCAL INSTANCE Rational

CONSTANTS Sweeps,       \* [chart, margin, around]: curves, control margin, recirculated rate
          SweepSteps    \* steps to a unit of speed, and of rate

VARIABLES sweep,
          probed,       \* <<speed, rate>> last asked for, in steps
          probe         \* the answer

sweepVars == <<sweep, probed, probe>>

(***************************************************************************)
(* Where a rate and a head lie.                                             *)
(***************************************************************************)
MaximumRate(chart, head, choking) ==
  IF choking THEN MaximumFlow(chart, head) ELSE MaximumFlowUnchoked(chart, head)

\* Mutant: a rate left of the flow line is reported, but not raised to it.
LocatedUnraised(chart, rate, head, choking) ==
  LET least  == IF choking THEN MinimumFlow(chart, head) ELSE MinimumFlowUnchoked(chart, head)
      lowest == MinimumHead(chart, rate)
  IN  [rate |-> rate, head |-> GreaterOf(lowest, head),
       recirculates |-> Below(rate, least), choked |-> Below(head, lowest),
       exceedsRate |-> Below(MaximumRate(chart, head, choking), rate),
       exceedsHead |-> Below(MaximumHead(chart, rate), GreaterOf(lowest, head)), tooLow |-> FALSE]

\* evaluate_capacity_and_extrapolate_below_minimum: the point at which the compressor
\* runs, and in which way that exceeds its capacity.
Located(chart, rate, head, choking) ==
  LET Running(flow, lowest) ==
        [rate |-> flow, head |-> IF choking THEN GreaterOf(lowest, head) ELSE head,
         recirculates |-> Below(rate, flow),
         choked |-> choking /\ Below(head, lowest),
         exceedsRate |-> Below(MaximumRate(chart, head, choking), flow),
         exceedsHead |-> Below(MaximumHead(chart, rate), IF choking THEN GreaterOf(lowest, head) ELSE head),
         tooLow |-> ~choking /\ Below(head, lowest)]
      RunningAt(flow) == Running(flow, MinimumHead(chart, flow))
  IN  RunningAt(GreaterOf(rate, IF choking THEN MinimumFlow(chart, head) ELSE MinimumFlowUnchoked(chart, head)))

ExceedsChart(located) == located.exceedsRate \/ located.exceedsHead \/ located.tooLow

(***************************************************************************)
(* Which head a speed and a rate give.                                      *)
(***************************************************************************)
\* Mutant: the weights of the two curves are swapped.
HeadSwapped(chart, speed, rate) ==
  LET below == chart[Max({i \in DOMAIN chart : AtMost(chart[i].speed, speed)})]
      above == chart[Min({i \in DOMAIN chart : AtMost(speed, chart[i].speed)})]
      share == Over(Minus(above.speed, speed), Minus(above.speed, below.speed))
  IN  Plus(Times(share, Along(above.points, rate)), Times(Minus(One, share), Along(below.points, rate)))

\* Between two curves: each is read where it is as far from its left end as the rate is
\* from the left end at the speed, and the heads are mixed by the distance in speed.
HeadBetween(chart, speed, rate) ==
  LET below == chart[Max({i \in DOMAIN chart : AtMost(chart[i].speed, speed)})]
      above == chart[Min({i \in DOMAIN chart : AtMost(speed, chart[i].speed)})]
      share == Over(Minus(above.speed, speed), Minus(above.speed, below.speed))
      Mixed(x, y) == Plus(Times(share, x), Times(Minus(One, share), y))
      HeadOn(curve, along) ==
        Along(curve.points, Plus(LeftEnd(curve)[1], Times(Minus(RightEnd(curve)[1], LeftEnd(curve)[1]), along)))
      HeadFrom(least, most) ==
        LET along == Over(Minus(rate, least), Minus(most, least))
        IN  IF Below(most, rate) \/ Below(rate, least) THEN NaN    \* IllegalStateException
            ELSE Mixed(HeadOn(below, along), HeadOn(above, along))
  IN  HeadFrom(Mixed(LeftEnd(below)[1], LeftEnd(above)[1]), Mixed(RightEnd(below)[1], RightEnd(above)[1]))

CurvesAt(chart, speed) == {i \in DOMAIN chart : chart[i].speed = speed}

HeadAt(chart, speed, rate) ==
  IF CurvesAt(chart, speed) = {} THEN HeadBetween(chart, speed, rate)
  ELSE Along(chart[CHOOSE i \in CurvesAt(chart, speed) : TRUE].points, rate)

AreaFlag(chart, speed, rate) ==
  CASE Below(speed, Slowest(chart).speed) -> "BELOW_MINIMUM_SPEED"
    [] Below(Fastest(chart).speed, speed) -> "ABOVE_MAXIMUM_SPEED"
    [] rate = Zero -> "NO_FLOW_RATE"
    [] rate # Zero /\ Below(rate, MinimumFlowAt(chart, speed)) -> "BELOW_MINIMUM_FLOW_RATE"
    [] Below(MaximumFlowAt(chart, speed), rate) -> "ABOVE_MAXIMUM_FLOW_RATE"
    [] OTHER -> "INTERNAL_POINT"

OutsideFlags == {"BELOW_MINIMUM_SPEED", "ABOVE_MAXIMUM_SPEED", "ABOVE_MAXIMUM_FLOW_RATE"}

\* The flag says where the rate is; what is compressed is the rate and what is pumped
\* round.  To the right of the chart the head is that of the stone wall.
SinglePoint(chart, speed, rate, around) ==
  LET Point(flag, flow) ==
        [valid |-> flag \notin OutsideFlags, flag |-> flag, speed |-> speed, rate |-> flow,
         head |-> CASE flag = "ABOVE_MAXIMUM_FLOW_RATE" -> RightHeadAt(chart, speed)
                    [] flag \in OutsideFlags \ {"ABOVE_MAXIMUM_FLOW_RATE"} -> NaN
                    [] OTHER -> HeadAt(chart, speed, flow)]
  IN  Point(AreaFlag(chart, speed, rate),
            GreaterOf(MinimumFlowAt(chart, speed), Plus(rate, around)))

-----------------------------------------------------------------------------
InSteps(n) == Fraction(n, SweepSteps)

Curves == AdjustedCurves(sweep.chart, sweep.margin)

ProbeAt(steps) == SinglePoint(Curves, InSteps(steps[1]), InSteps(steps[2]), sweep.around)

\* A search starts anywhere in the range of speeds, from no rate up.
InitSweep ==
  /\ probed = <<Slowest(sweep.chart).speed[1] * SweepSteps, 0>>
  /\ probe = ProbeAt(probed)

ProbeTo(steps) ==
  /\ probed' = steps
  /\ probe' = ProbeAt(steps)
  /\ UNCHANGED sweep

ProbeFaster ==
  /\ Below(InSteps(probed[1]), Fastest(Curves).speed)
  /\ ProbeTo([probed EXCEPT ![1] = @ + 1])

ProbeMore ==
  /\ AtMost(InSteps(probed[2]), MaximumFlowAt(Curves, Fastest(Curves).speed))
  /\ ProbeTo([probed EXCEPT ![2] = @ + 1])

NextSweep == ProbeFaster \/ ProbeMore

-----------------------------------------------------------------------------
\* Pumping round may take a valid rate beyond the end of the chart; between two curves
\* that is the exception "You should not get here, please contact support".
PumpedTooFar(point) == point.valid /\ Below(MaximumFlowAt(Curves, point.speed), point.rate)

HeadMovesRightly ==
  IsFinite(probe.head) /\ IsFinite(probe'.head) =>
    IF probed'[1] > probed[1] THEN AtMost(probe.head, probe'.head)
    ELSE AtMost(probe'.head, probe.head)

\* Between more than two curves the area that Located knows is not quite the same: its
\* stone wall and its flow line run straight from the slowest to the fastest.
LiesInArea(point) ==
  PumpedTooFar(point) \/ Len(Curves) > 2 \/ InArea(Curves, point.rate, point.head)

\* What every root search relies on (root_scalar over the speed, and over the
\* recirculated rate, for a pressure): a faster compressor never gives less head and a
\* larger rate never more, across the flow line, the curves and the stone wall; and a
\* point that is taken for valid has a head, with which it lies on the chart's area.
ChartHeadIsMonotone ==
  [][HeadMovesRightly /\ (probe'.valid => LiesInArea(probe'))]_<<probed, probe>>

==============================================================================

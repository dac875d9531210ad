-------------------------------- MODULE Pump --------------------------------
(***************************************************************************)
(* A pump (domain/process/pump/pump.py): a rate is pumped from one pressure *)
(* to another if the chart, with what may be pumped round and choked, and   *)
(* the margin on the head allow it.                                         *)
(*                                                                          *)
(* Rates are in the chart's unit: HOURS_PER_DAY is left out, as are the     *)
(* power, the efficiency and EPSILON.                                       *)
(***************************************************************************)
EXTENDS Chart

LOCAL INSTANCE Rational

CONSTANTS Pumps,      \* [chart, margin, lift, density]: curves, head margin, pressure rise
          PumpRates   \* fractions

VARIABLES pump,
          pumped      \* the answer to the call

pumpVars == <<pump, pumped>>

\* _calculate_head
HeadFor(p) == Fraction(p.lift, p.density)

HighestRate(chart) ==
  CHOOSE rate \in {RightEnd(chart[i])[1] : i \in DOMAIN chart} :
    \A i \in DOMAIN chart : AtMost(RightEnd(chart[i])[1], rate)

\* _adjust_for_head_margin: within the margin the head is brought down to the maximum.
WithinMargin(head, most, margin) ==
  IF margin # Zero /\ Below(most, head) /\ AtMost(head, Plus(most, margin)) THEN most ELSE head

PumpFailure(chart, rate, head, most) ==
  LET tooFar == Below(HighestRate(chart), rate)
  IN  CASE Below(most, head) /\ tooFar  -> "ABOVE_MAXIMUM_PUMP_RATE_AND_MAXIMUM_HEAD_AT_RATE"
        [] Below(most, head) /\ ~tooFar -> "ABOVE_MAXIMUM_HEAD_AT_RATE"
        [] ~Below(most, head) /\ tooFar -> "ABOVE_MAXIMUM_PUMP_RATE"
        [] OTHER -> "NO_FAILURE"

\* Mutant: the maximum head is that at the rate before any is pumped round, and the
\* minimum head is forgotten.
SimulatedUnchoked(p, rate) ==
  LET head == HeadFor(p)
      flow == GreaterOf(rate, MinimumFlow(p.chart, head))
      most == MaximumHead(p.chart, flow)
      run  == WithinMargin(head, most, p.margin)
  IN  [status |-> PumpFailure(p.chart, flow, run, most), rate |-> flow, head |-> run, running |-> TRUE]

\* simulate: left of the flow line more is pumped round, below the area the pressure
\* is choked.
Simulated(p, rate) ==
  LET head   == HeadFor(p)
      flow   == GreaterOf(rate, MinimumFlow(p.chart, head))
      choked == GreaterOf(head, MinimumHead(p.chart, flow))
      most   == MaximumHead(p.chart, flow)
      run    == WithinMargin(choked, most, p.margin)
  IN  IF AtMost(rate, Zero)
      THEN [status |-> "NO_FAILURE", rate |-> Zero, head |-> Zero, running |-> FALSE]
      ELSE [status |-> PumpFailure(p.chart, flow, run, most), rate |-> flow, head |-> run, running |-> TRUE]

\* Mutant: the maximum rate follows the flow line.
PumpLeastRate(p) == MinimumFlow(p.chart, HeadFor(p))

\* get_max_standard_rate
PumpMaxRate(p) == MaximumFlow(p.chart, HeadFor(p))

-----------------------------------------------------------------------------
InitPump == pumped = [asked |-> "nothing"]

\* evaluate_rate_ps_pd_density, one time step at a time: no step uses another's result.
SimulatePump ==
  /\ pumped.asked = "nothing"
  /\ \E r \in PumpRates : pumped' = [asked |-> "rate", at |-> r, is |-> Simulated(pump, r)]
  /\ UNCHANGED pump

AskPumpMaxRate ==
  /\ pumped.asked = "nothing"
  /\ pumped' = [asked |-> "maximum", is |-> PumpMaxRate(pump)]
  /\ UNCHANGED pump

NextPump == SimulatePump \/ AskPumpMaxRate

-----------------------------------------------------------------------------
\* A pump runs a rate exactly if its chart can deliver it, give or take the margin on
\* the head; it then runs on the chart's area, at no less than the rate and, but for
\* the margin, no less than the head; and it fails for the reason given.
PumpRunsWhatItCan ==
  pumped.asked = "rate" /\ pumped.is.running =>
    LET head   == HeadFor(pump)
        lowest == Minus(head, pump.margin)
        run    == pumped.is
    IN  /\ run.status = "NO_FAILURE" <=> CanDeliver(pump.chart, pumped.at, lowest)
        /\ run.status = "NO_FAILURE" =>
             /\ InArea(pump.chart, run.rate, run.head)
             /\ AtMost(pumped.at, run.rate) /\ AtMost(lowest, run.head)
        /\ run.status \in {"ABOVE_MAXIMUM_PUMP_RATE", "ABOVE_MAXIMUM_PUMP_RATE_AND_MAXIMUM_HEAD_AT_RATE"} <=>
             ~CanDeliver(pump.chart, pumped.at, RightEnd(Fastest(pump.chart))[2])

\* The maximum rate is run, and no rate above it but by the margin; the head being one
\* that the pump has at some rate.
PumpMaxRateIsReal ==
  pumped.asked = "maximum" /\ AtMost(HeadFor(pump), LeftEnd(Fastest(pump.chart))[2]) =>
    /\ Simulated(pump, pumped.is).status = "NO_FAILURE"
    /\ \A r \in PumpRates :
         Below(pumped.is, r) /\ Simulated(pump, r).status = "NO_FAILURE" =>
           ~CanDeliver(pump.chart, r, HeadFor(pump))

=============================================================================

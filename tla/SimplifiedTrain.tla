--------------------------- MODULE SimplifiedTrain ---------------------------
(***************************************************************************)
(* A train whose stages share the pressure ratio and need no common speed   *)
(* (simplified_train.py, stage.py, results.py): each stage runs on its own  *)
(* chart, recirculates and chokes for itself, and hands the rate that came  *)
(* in on to the next.                                                       *)
(*                                                                          *)
(* The gas is ideal and cooled to one temperature ahead of every stage: its *)
(* volume is its mass over its pressure, and the head a stage needs grows   *)
(* with the ratio alone.  So the maximum rate of a stage converges at once. *)
(* Efficiency, power and the train's maximum power are left out.            *)
(***************************************************************************)
EXTENDS CompressorChart

LOCAL INSTANCE Rational

CONSTANTS SimplifiedTrains,   \* [charts, suction, ratio, gas, unflashed]
          MassRates           \* fractions

VARIABLES simplified,
          evaluated           \* the answer to the call

simplifiedVars == <<simplified, evaluated>>

StageCount(train) == Len(train.charts)

\* The ratio is calculate_pressure_ratio_per_stage: its StageCount-th power is the discharge
\* pressure over the suction pressure.
HeadNeeded(train) == Whole(train.gas * (train.ratio - 1))

\* _calculate_inlet_pressure_stages
InletPressure(train, k) == train.suction * train.ratio ^ (k - 1)

VolumeAt(train, k, mass) == Times(mass, Fraction(1, InletPressure(train, k)))

(***************************************************************************)
(* Evaluation.                                                              *)
(***************************************************************************)
StageFlag(at) ==
  CASE at.choked /\ at.recirculates -> "BELOW_MINIMUM_SPEED_AND_BELOW_MINIMUM_FLOW_RATE"
    [] at.choked /\ ~at.recirculates /\ at.exceedsRate -> "BELOW_MINIMUM_SPEED_AND_ABOVE_MAXIMUM_FLOW_RATE"
    [] ~at.choked /\ at.recirculates -> "BELOW_MINIMUM_FLOW_RATE"
    [] ~at.choked /\ ~at.recirculates /\ at.exceedsRate -> "ABOVE_MAXIMUM_FLOW_RATE"
    [] at.choked /\ ~at.recirculates /\ ~at.exceedsRate -> "BELOW_MINIMUM_SPEED"
    [] ~at.choked /\ ~at.recirculates /\ ~at.exceedsRate /\ at.exceedsHead -> "ABOVE_MAXIMUM_SPEED"
    [] OTHER -> "INTERNAL_POINT"

\* evaluate_given_target_pressure_ratio
StageResult(train, k, mass) ==
  LET Result(at) == [at |-> at, flag |-> StageFlag(at), valid |-> ~ExceedsChart(at)]
  IN  Result(Located(train.charts[k], VolumeAt(train, k, mass), HeadNeeded(train), TRUE))

StageWithinCapacity(result) == result.flag = "INTERNAL_POINT" \/ result.valid

TooFarFlags == {"ABOVE_MAXIMUM_FLOW_RATE", "BELOW_MINIMUM_SPEED_AND_ABOVE_MAXIMUM_FLOW_RATE"}
RaisedFlags == {"BELOW_MINIMUM_FLOW_RATE", "BELOW_MINIMUM_SPEED_AND_BELOW_MINIMUM_FLOW_RATE"}

\* failure_status of a train that reaches its pressures: of the first stage that fails
\* with a flag of the rate.  A head that is too high has no status.
FailureStatus(results) ==
  LET named == {k \in DOMAIN results :
                  ~StageWithinCapacity(results[k]) /\ results[k].flag \in TooFarFlags \cup RaisedFlags}
  IN  IF named = {} THEN "NO_FAILURE"
      ELSE IF results[Min(named)].flag \in TooFarFlags THEN "ABOVE_MAXIMUM_FLOW_RATE"
      ELSE "BELOW_MINIMUM_FLOW_RATE"

\* evaluate_given_constraints, and is_valid of its result.
TrainResult(train, mass) ==
  LET Result(results) ==
        [stages |-> results, status |-> FailureStatus(results),
         valid |-> FailureStatus(results) = "NO_FAILURE" /\ \A k \in DOMAIN results : StageWithinCapacity(results[k])]
  IN  IF AtMost(mass, Zero) THEN [stages |-> <<>>, status |-> "NO_FAILURE", valid |-> TRUE]
      ELSE Result([k \in 1..StageCount(train) |-> StageResult(train, k, mass)])

(***************************************************************************)
(* The maximum rate.                                                        *)
(***************************************************************************)
\* Mutant: every stage takes its gas at the train's suction pressure.
StageMaxRateAtSuction(train, k) == Times(MaximumRate(train.charts[k], HeadNeeded(train), FALSE), Whole(train.suction))

\* calculate_maximum_rate_for_stage: without choking.  A flash that fails counts only
\* where the chart has no such head.
StageMaxRate(train, k) ==
  LET head == HeadNeeded(train)
  IN  IF train.unflashed = k /\ AtMost(head, LeftEnd(Fastest(train.charts[k]))[2])
      THEN NaN     \* CompressorThermodynamicCalculationError
      ELSE Times(MaximumRate(train.charts[k], head, FALSE), Whole(InletPressure(train, k)))

\* _get_max_std_rate_single_timestep
TrainMaxRate(train) ==
  LET rates == {StageMaxRate(train, k) : k \in 1..StageCount(train)}
  IN  IF NaN \in rates THEN NaN ELSE CHOOSE r \in rates : \A q \in rates : AtMost(r, q)

-----------------------------------------------------------------------------
InitSimplified == evaluated = [asked |-> "nothing"]

EvaluateSimplified ==
  /\ evaluated.asked = "nothing"
  /\ \E m \in MassRates : evaluated' = [asked |-> "rate", at |-> m, is |-> TrainResult(simplified, m)]
  /\ UNCHANGED simplified

AskSimplifiedMaxRate ==
  /\ evaluated.asked = "nothing"
  /\ evaluated' = [asked |-> "maximum", is |-> TrainMaxRate(simplified)]
  /\ UNCHANGED simplified

NextSimplified == EvaluateSimplified \/ AskSimplifiedMaxRate

-----------------------------------------------------------------------------
StageCanDeliver(k, mass) ==
  CanDeliver(simplified.charts[k], VolumeAt(simplified, k, mass), HeadNeeded(simplified))

\* A train runs a rate exactly if every stage's chart can deliver it; each stage then
\* runs on its chart's area, at no less than the rate and the head.
TrainRunsWhatItCan ==
  evaluated.asked = "rate" /\ evaluated.is.stages # <<>> =>
    LET stages == evaluated.is.stages
    IN  /\ evaluated.is.valid <=> \A k \in DOMAIN stages : StageCanDeliver(k, evaluated.at)
        /\ evaluated.is.valid =>
             \A k \in DOMAIN stages :
               /\ InArea(simplified.charts[k], stages[k].at.rate, stages[k].at.head)
               /\ AtMost(VolumeAt(simplified, k, evaluated.at), stages[k].at.rate)
               /\ AtMost(HeadNeeded(simplified), stages[k].at.head)
        /\ evaluated.is.status = "ABOVE_MAXIMUM_FLOW_RATE" =>
             \E k \in DOMAIN stages : ~StageCanDeliver(k, evaluated.at)

\* The maximum rate is run, and a rate above it only by a train that chokes a stage;
\* every chart having the head at some rate.
TrainMaxRateIsReal ==
  /\ evaluated.asked = "maximum" /\ evaluated.is # NaN
  /\ \A k \in DOMAIN simplified.charts :
       AtMost(HeadNeeded(simplified), LeftEnd(Fastest(simplified.charts[k]))[2])
  =>
    /\ TrainResult(simplified, evaluated.is).valid
    /\ \A above \in {m \in MassRates : Below(evaluated.is, m)} :
         \E result \in {TrainResult(simplified, above)} :
           result.valid => \E k \in DOMAIN result.stages : result.stages[k].at.choked

=============================================================================

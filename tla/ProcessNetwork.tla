--------------------------- MODULE ProcessNetwork ---------------------------
(***************************************************************************)
(* The process calculations around the section solver: a call shares a      *)
(* stream between trains, solves sections in series, or evaluates a         *)
(* compressor train on a common shaft over its time steps, a compressor     *)
(* that is given as a table of samples, a train of stages with charts of    *)
(* their own, or a pump; or it asks a chart for the head at a speed and a   *)
(* rate.  No call reads what another left.                                  *)
(***************************************************************************)
EXTENDS StreamDistribution, SectionSeries, LegacyTrain, SampledModel, SimplifiedTrain, Pump

CONSTANT Calls   \* "distribution", "series", "train", "sampled", "sweep", "simplified", "pump"

VARIABLE call

chartVars == <<sweepVars, simplifiedVars, pumpVars>>

vars == <<call, distributionVars, seriesVars, legacyVars, sampledVars, chartVars>>

PlacedSeries == {s \in Series : IsPlaced(s)}

\* What the kinds of call that are idle hold.
AnyDistribution == CHOOSE d \in Distributions : TRUE
AnySeries == CHOOSE s \in PlacedSeries : TRUE
AnyLegacy == CHOOSE t \in LegacyTrains : TRUE
AnyTable == CHOOSE t \in Tables : TRUE
AnySweep == CHOOSE s \in Sweeps : TRUE
AnySimplified == CHOOSE t \in SimplifiedTrains : TRUE
AnyPump == CHOOSE p \in Pumps : TRUE

\* A call has one of the scenarios of its own kind.
Init ==
  /\ call \in Calls
  /\ distribution \in IF call = "distribution" THEN Distributions ELSE {AnyDistribution}
  /\ series \in IF call = "series" THEN PlacedSeries ELSE {AnySeries}
  /\ legacy \in IF call = "train" THEN LegacyTrains ELSE {AnyLegacy}
  /\ table \in IF call = "sampled" THEN Tables ELSE {AnyTable}
  /\ sweep \in IF call = "sweep" THEN Sweeps ELSE {AnySweep}
  /\ simplified \in IF call = "simplified" THEN SimplifiedTrains ELSE {AnySimplified}
  /\ pump \in IF call = "pump" THEN Pumps ELSE {AnyPump}
  /\ InitDistribution
  /\ InitSeries
  /\ InitLegacy
  /\ InitSampled
  /\ InitSweep
  /\ InitSimplified
  /\ InitPump

NextChart ==
  \/ call = "sweep" /\ NextSweep /\ UNCHANGED <<simplifiedVars, pumpVars>>
  \/ call = "simplified" /\ NextSimplified /\ UNCHANGED <<sweepVars, pumpVars>>
  \/ call = "pump" /\ NextPump /\ UNCHANGED <<sweepVars, simplifiedVars>>

Next ==
  \/ call = "distribution" /\ NextDistribution
     /\ UNCHANGED <<call, seriesVars, legacyVars, sampledVars, chartVars>>
  \/ call = "series" /\ NextSeries
     /\ UNCHANGED <<call, distributionVars, legacyVars, sampledVars, chartVars>>
  \/ call = "train" /\ NextLegacy
     /\ UNCHANGED <<call, distributionVars, seriesVars, sampledVars, chartVars>>
  \/ call = "sampled" /\ NextSampled
     /\ UNCHANGED <<call, distributionVars, seriesVars, legacyVars, chartVars>>
  \/ NextChart /\ UNCHANGED <<call, distributionVars, seriesVars, legacyVars, sampledVars>>

Spec == Init /\ [][Next]_vars

\* What a sampled compressor, a train of stages with charts of their own and a pump
\* promise alike: they run what their data say they can, and nothing else.
RunsWhatItCan ==
  /\ SampledRunsWhatItCan
  /\ TrainRunsWhatItCan
  /\ PumpRunsWhatItCan

\* The same three on the maximum rate, which the distribution of rates over the
\* consumers of a system is made from.
MaxRateIsReal ==
  /\ SampledMaxRateIsReal
  /\ TrainMaxRateIsReal
  /\ PumpMaxRateIsReal

=============================================================================

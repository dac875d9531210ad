------------------------- MODULE SectionStrategies -------------------------
(***************************************************************************)
(* Bisection and root finding as the solver relies on them, the search for *)
(* a recirculation rate, and the two anti-surge strategies.                *)
(*                                                                         *)
(* A search is a set of possible endings: where the probes of a bisection  *)
(* or of the root finder fall between two lattice points is not decided    *)
(* here.  An ending carries what the search wrote into the plant last, for *)
(* the handlers keep the setting of the last probe, not the one returned.  *)
(***************************************************************************)
EXTENDS PipelineSection

NoTarget == -1        \* target_pressure = None

Capacity == {"RateTooLow", "RateTooHigh"}

\* What may leave a strategy as an exception.
Errors == (RunStatuses \ {"ok"}) \cup {"DidNotConverge", "AssertionError"}

Failures == {"none", "RateTooLow", "RateTooHigh", "Eos", "MAX_BELOW", "MIN_ABOVE"}

Absolute(x) == IF x < 0 THEN -x ELSE x

\* Mutant: either end of the last bracket is returned.
StraddlesOnly(r, n, target) ==
  /\ r.status = "ok" /\ n.status = "ok"
  /\ (r.pressure - target) * (n.pressure - target) <= 0

(***************************************************************************)
(* RootFindingStrategy.find_root.  The root returned, r, and a neighbour n *)
(* at the resolution of the search have the target between them, and r is  *)
(* the closer of the two; either may have been probed last.                *)
(***************************************************************************)
Brackets(r, n, target) ==
  /\ r.status = "ok" /\ n.status = "ok"
  /\ (r.pressure - target) * (n.pressure - target) <= 0
  /\ Absolute(r.pressure - target) <= Absolute(n.pressure - target)

\* It refuses a boundary whose ends are on the same side of the target.
SameSide(a, b, target) ==
  \/ a.pressure < target /\ b.pressure < target
  \/ a.pressure > target /\ b.pressure > target

\* Pairs of a root and its neighbour, among probes that tell where they are.
RootPairs(probes, target) ==
  {rn \in probes \X probes :
     rn[2].at - rn[1].at \in -1 .. 1 /\ Brackets(rn[1], rn[2], target)}

\* The same for the outcomes out of the rates lo .. hi.
Roots(out, lo, hi, target) ==
  {rn \in (lo .. hi) \X (lo .. hi) :
     /\ rn[2] - rn[1] \in -1 .. 1
     /\ Brackets(out[rn[1]], out[rn[2]], target)}

(***************************************************************************)
(* RecirculationLoopRateFinder.  out is the outcome of the section as a    *)
(* function of the rate.                                                   *)
(***************************************************************************)
Finding(rate, last, failure, error) ==
  [rate |-> rate, last |-> last, failure |-> failure, error |-> error]

Found(rate, last)      == Finding(rate, last, "none", "none")
Raised(last, error)    == Finding(last, last, "none", error)

\* Bisect.search converges to a flip of the status, if a probe is ever accepted:
\* the ends of the boundary are not probed.
Threshold(out, lo, hi, step, status) ==
  {x \in lo .. hi : /\ x - step \in lo .. hi
                    /\ out[x].status = "ok" /\ out[x - step].status = status}

BisectRates(out, lo, hi, step, status) ==
  LET thresholds == Threshold(out, lo, hi, step, status)
      interior   == (lo + 1) .. (hi - 1)
  IN  {Found(x, x) : x \in thresholds}
      \cup {Found(x, x - step) : x \in thresholds}
      \cup (IF thresholds \cap interior = {}
            THEN {Raised(x, "DidNotConverge") : x \in {lo, hi}} ELSE {})
      \cup {Raised(x, out[x].status) :
              x \in {y \in interior : out[y].status \notin Capacity \cup {"ok"}}}

\* _find_min_within_capacity_rate and _find_max_within_capacity_rate
MinimumRates(out, lo, hi) ==
  IF out[lo].status = "ok" THEN {Found(lo, lo)}
  ELSE IF out[lo].status = "RateTooLow" THEN BisectRates(out, lo, hi, 1, "RateTooLow")
  ELSE {Raised(lo, out[lo].status)}

MaximumRates(out, lo, hi) ==
  IF out[hi].status = "ok" THEN {Found(hi, hi)}
  ELSE IF out[hi].status = "RateTooHigh" THEN BisectRates(out, lo, hi, -1, "RateTooHigh")
  ELSE {Raised(hi, out[hi].status)}

\* The rate between the two that meets the target.
TargetedRates(out, minimum, maximum, target) ==
  LET highest == out[minimum].pressure
      lowest  == out[maximum].pressure
  IN  IF Below(highest, target) THEN {Finding(minimum, minimum, "MAX_BELOW", "none")}
      ELSE IF Close(highest, target) THEN {Found(minimum, minimum)}
      ELSE IF Close(lowest, target) THEN {Found(maximum, maximum)}
      ELSE IF Above(lowest, target) THEN {Finding(maximum, maximum, "MIN_ABOVE", "none")}
      ELSE LET roots == Roots(out, minimum, maximum, target)
           IN  {Found(rn[1], rn[1]) : rn \in roots} \cup {Found(rn[1], rn[2]) : rn \in roots}
               \cup {Raised(x, out[x].status) :
                       x \in {y \in minimum .. maximum : out[y].status # "ok"}}

\* RecirculationLoopRateFinder.find
RateFindings(out, lo, hi, target) ==
  LET WithMinimum(m) ==
        IF m.error = "RateTooHigh" THEN {Finding(lo, m.last, "RateTooHigh", "none")}
        ELSE IF m.error # "none" \/ target = NoTarget THEN {m}
        ELSE UNION {IF M.error # "none" THEN {M}
                    ELSE TargetedRates(out, m.rate, M.rate, target) :
                    M \in MaximumRates(out, lo, hi)}
  IN  UNION {WithMinimum(m) : m \in MinimumRates(out, lo, hi)}

(***************************************************************************)
(* Endings of a strategy: what the plant has been given, the configuration *)
(* returned, and the failure reported or the exception raised.             *)
(***************************************************************************)
Ending(written, configuration, failure, error) ==
  [written |-> written, configuration |-> configuration,
   failure |-> failure, error |-> error]

Nothing == [h \in {} |-> 0]
Aborted(written, error) == Ending(written, Nothing, "none", error)

\* The boundary of recirculation rates at compressor i of the plant as it is.
RangeAt(section, plant, inlet, i) ==
  RecirculationRange(section.train, i, plant[Shaft], RunTo(section, plant, inlet, i))

\* The outcomes of the section as a function of the common loop's rate.
CommonOutcomes(section, plant, inlet, boundary) ==
  [x \in boundary.min .. boundary.max |-> Run(section, Apply(plant, Set(1, x)), inlet)]

\* The rates left in the loops when they are set stage by stage, from zero, each
\* to Pick of the boundary at its compressor: all of them, or those before the
\* first compressor that the stream does not reach.
Prefix(rates, k) == [i \in 1 .. Stages |-> IF i <= k THEN rates[i] ELSE 0]

Reaching(section, plant, inlet, rates, i) ==
  RunTo(section, Apply(plant, Prefix(rates, i - 1)), inlet, i)

SetBefore(section, plant, inlet, Pick(_), rates, k) ==
  /\ rates = Prefix(rates, k)
  /\ \A i \in 1 .. k :
       /\ Reaching(section, plant, inlet, rates, i).status = "ok"
       /\ rates[i] = Pick(RangeAt(section, Apply(plant, Prefix(rates, i - 1)), inlet, i))

StagewiseEndings(section, plant, inlet, Pick(_)) ==
  {Ending(rates, rates, "none", "none") :
     rates \in {r \in [1 .. Stages -> Rates] :
                  SetBefore(section, plant, inlet, Pick, r, Stages)}}
  \cup UNION {LET stopped(r) == Reaching(section, plant, inlet, r, i).status
              IN  {Aborted(rates, stopped(rates)) :
                     rates \in {r \in [1 .. Stages -> Rates] :
                                  /\ SetBefore(section, plant, inlet, Pick, r, i - 1)
                                  /\ stopped(r) # "ok"}} : i \in 1 .. Stages}

(***************************************************************************)
(* CommonASVAntiSurgeStrategy.apply and IndividualASVAntiSurgeStrategy.    *)
(* apply: all loops to zero, then the least recirculation that keeps the   *)
(* section within capacity.                                                *)
(***************************************************************************)
CommonAntiSurge(section, plant, inlet) ==
  LET reset == Apply(plant, ResetLoops(section))
      first == RunTo(section, reset, inlet, 1)
      range == RangeAt(section, reset, inlet, 1)
  IN  IF first.status # "ok" THEN {Aborted(ResetLoops(section), first.status)}
      ELSE {IF f.error # "none" THEN Aborted(Set(1, f.last), f.error)
            ELSE Ending(Set(1, f.last), Set(1, f.rate), f.failure, "none") :
            f \in RateFindings(CommonOutcomes(section, reset, inlet, range),
                               range.min, range.max, NoTarget)}

AntiSurge(section, plant, inlet) ==
  IF section.control = "COMMON_ASV" THEN CommonAntiSurge(section, plant, inlet)
  ELSE LET Least(range) == range.min
       IN  StagewiseEndings(section, Apply(plant, ResetLoops(section)), inlet, Least)

\* The probes that did not run, as the exceptions they raise.
Escapes(probes) ==
  {Aborted(p.written, p.status) : p \in {q \in probes : q.status # "ok"}}

(***************************************************************************)
(* PipelineSectionSolver.speed_func: the section at a speed, with no more  *)
(* recirculation than it needs.                                            *)
(***************************************************************************)
Probe(at, written, status, pressure) ==
  [at |-> at, written |-> written, status |-> status, pressure |-> pressure]

SpeedProbes(section, plant, speed, inlet) ==
  LET set   == merge_configurations(ResetLoops(section), Set(Shaft, speed))
      bare  == Run(section, Apply(plant, set), inlet)
      Protected(s) ==
        LET all == merge_configurations(set, merge_configurations(s.written, s.configuration))
            out == Run(section, Apply(plant, all), inlet)
        IN  IF s.error # "none" THEN Probe(speed, all, s.error, 0)
            ELSE Probe(speed, all, out.status, out.pressure)
  IN  IF bare.status # "RateTooLow" THEN {Probe(speed, set, bare.status, bare.pressure)}
      ELSE {Protected(s) : s \in AntiSurge(section, Apply(plant, set), inlet)}
=============================================================================

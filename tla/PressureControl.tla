-------------------------- MODULE PressureControl --------------------------
(***************************************************************************)
(* The pressure-control strategies: how a section that delivers too much   *)
(* at the chosen speed is brought down to the target.  Each operator is    *)
(* the set of endings of one strategy's apply on the plant it finds.       *)
(***************************************************************************)
EXTENDS SectionStrategies

CONSTANT Fractions    \* steps of the recirculation fraction between 0 and 1

ASSUME FractionsAssumption == Fractions \in Nat \ {0}

\* Mutant: only the loops are reset, a choke keeps its pressure drop.
ResetLoopsOnly(section) == ResetLoops(section)

\* PressureControlStrategy.reset
PressureControlReset(section) ==
  IF HasChoke(section) THEN Set(Choke, 0) ELSE ResetLoops(section)

\* Mutant: the wrong end of the boundary.
LeastRecirculation(range) == range.min

FullRecirculation(range) == range.max

(***************************************************************************)
(* CommonASVPressureControlStrategy.apply.  The boundary at full           *)
(* recirculation is run before, and outside, the search.                   *)
(***************************************************************************)
CommonAsvControl(section, plant, inlet, target) ==
  LET reset  == Apply(plant, ResetLoops(section))
      first  == RunTo(section, reset, inlet, 1)
      range  == RangeAt(section, reset, inlet, 1)
      out    == CommonOutcomes(section, reset, inlet, range)
      full   == Set(1, FullRecirculation(range))
      lowest == out[FullRecirculation(range)]
  IN  IF first.status # "ok" THEN {Aborted(ResetLoops(section), first.status)}
      ELSE IF lowest.status # "ok" THEN {Aborted(full, lowest.status)}
      ELSE IF lowest.pressure > target THEN {Ending(full, full, "MIN_ABOVE", "none")}
      ELSE {IF f.error # "none" THEN Aborted(Set(1, f.last), f.error)
            ELSE Ending(Set(1, f.last), Set(1, f.rate), f.failure, "none") :
            f \in RateFindings(out, range.min, range.max, target)}

(***************************************************************************)
(* compute_minimum_achievable_pressure: full recirculation on every stage; *)
(* on the way out the loops are set back to zero, unless it raises.        *)
(***************************************************************************)
MinimumPressureEndings(section, plant, inlet) ==
  LET Finish(s) ==
        LET out == Run(section, Apply(plant, s.written), inlet)
        IN  IF s.error # "none" THEN s
            ELSE IF out.status # "ok" THEN Aborted(s.written, out.status)
            ELSE Ending(ResetLoops(section), s.configuration, "none", "none")
  IN  {Finish(s) : s \in StagewiseEndings(section, plant, inlet, FullRecirculation)}

MinimumPressure(section, plant, inlet, s) ==
  Run(section, Apply(plant, s.configuration), inlet).pressure

\* What both individual strategies do first, and After it when the target is
\* not below what full recirculation delivers.
Individual(section, plant, inlet, target, After) ==
  LET reset == Apply(plant, ResetLoops(section))
  IN  UNION {IF s.error # "none" THEN {s}
             ELSE IF MinimumPressure(section, reset, inlet, s) > target
             THEN {Ending(s.written, s.configuration, "MIN_ABOVE", "none")}
             ELSE After :
             s \in MinimumPressureEndings(section, reset, inlet)}

(***************************************************************************)
(* IndividualASVRateControlStrategy.apply: one fraction of the available   *)
(* recirculation, on every stage.                                          *)
(***************************************************************************)
FractionEndings(section, plant, inlet, fraction) ==
  LET Part(range) == range.min + (fraction * (range.max - range.min)) \div Fractions
  IN  StagewiseEndings(section, plant, inlet, Part)

\* get_outlet_stream: the section at each fraction, or what stopped it.
FractionProbes(section, plant, inlet, fraction) ==
  LET At(s) ==
        LET out == Run(section, Apply(plant, s.written), inlet)
        IN  IF s.error # "none" THEN Probe(fraction, s.written, s.error, 0)
            ELSE Probe(fraction, s.written, out.status, out.pressure)
  IN  {At(s) : s \in FractionEndings(section, plant, inlet, fraction)}

FractionSearch(section, plant, inlet, target) ==
  LET reset  == Apply(plant, ResetLoops(section))
      probes == UNION {FractionProbes(section, reset, inlet, x) : x \in 0 .. Fractions}
      At(x)  == {p \in probes : p.at = x}
      Between(a, b) ==
        IF SameSide(a, b, target) THEN {Aborted(b.written, "ValueError")}
        ELSE {Ending(rn[1].written, rn[1].written, "none", "none") :
                rn \in RootPairs(probes, target)} \cup Escapes(probes)
      outer  == At(0) \cup At(Fractions)
  IN  IF \E p \in outer : p.status # "ok" THEN Escapes(outer)
      ELSE UNION {Between(a, b) : a \in At(0), b \in At(Fractions)}

IndividualRateControl(section, plant, inlet, target) ==
  Individual(section, plant, inlet, target,
             FractionSearch(section, plant, inlet, target))

(***************************************************************************)
(* IndividualASVPressureControlStrategy.apply: each stage in turn is       *)
(* brought to an equal pressure ratio.  The loop of a stage keeps the rate *)
(* of the last probe, and the next stage starts from it.                   *)
(***************************************************************************)
\* The equal pressure ratio is the Stages-th root of target / inlet.pressure, and
\* the target of stage i is rounded down to the lattice.
StageTarget(inlet, target, i) ==
  LET power == inlet.pressure ^ (Stages - i) * target ^ i
  IN  CHOOSE p \in Pressures : p ^ Stages <= power /\ power < (p + 1) ^ Stages

\* The pressure after compressor i as a function of the rate of its loop: the
\* stream that reaches compressor i + 1 or, with no choke, leaves the section.
StageOutcomes(section, plant, inlet, i, range) ==
  [x \in range.min .. range.max |-> RunTo(section, Apply(plant, Set(i, x)), inlet, i + 1)]

StageFindings(section, plant, inlet, target, i) ==
  LET range == RangeAt(section, plant, inlet, i)
  IN  IF RunTo(section, plant, inlet, i).status # "ok"
      THEN {Raised(plant[i], RunTo(section, plant, inlet, i).status)}
      ELSE RateFindings(StageOutcomes(section, plant, inlet, i, range),
                        range.min, range.max, StageTarget(inlet, target, i))

(***************************************************************************)
(* DownstreamChokePressureControlStrategy.apply.  The pressure drop is     *)
(* computed, not tried.                                                    *)
(***************************************************************************)
\* Mutant: the difference the other way round.
TargetExcess(pressure, target) == target - pressure

\* DownstreamChokeDeltaPressureFinder.find, above the target
PressureChange(pressure, target) == pressure - target

DownstreamControl(section, plant, inlet, target) ==
  LET open     == Set(Choke, 0)
      baseline == Run(section, Apply(plant, open), inlet)
  IN  IF baseline.status # "ok" THEN {Aborted(open, baseline.status)}
      ELSE IF Close(baseline.pressure, target) THEN {Ending(open, open, "none", "none")}
      ELSE IF Below(baseline.pressure, target)
      THEN {Ending(open, open, "MAX_BELOW", "none")}
      ELSE {Ending(open, Set(Choke, PressureChange(baseline.pressure, target)), "none", "none")}

(***************************************************************************)
(* UpstreamChokePressureControlStrategy.apply.  Every probe of a pressure  *)
(* drop is protected from surge anew; the anti-surge configuration kept is *)
(* that of the last probe.                                                 *)
(***************************************************************************)
ChokeProbes(section, plant, drop, inlet) ==
  LET choked == Apply(plant, Set(Choke, drop))
      Protected(s) ==
        LET all == merge_configurations(s.written, Set(Choke, drop))
            out == Run(section, Apply(plant, all), inlet)
        IN  IF s.error # "none" THEN Probe(drop, all, s.error, 0)
            ELSE Probe(drop, all, out.status, out.pressure)
  IN  {Protected(s) : s \in AntiSurge(section, choked, inlet)}

\* UpstreamChokeDeltaPressureFinder.find over the boundary lo .. hi of pressure
\* drops.  search_max is the largest drop short of stonewall.
UpstreamChokeSearch(probes, lo, hi, target) ==
  LET At(x)       == {p \in probes : p.at = x}
      Among(a, b) == {p \in probes : p.at \in a .. b}
      \* The drop found, with the anti-surge configuration of the probe made last.
      Chosen(last, drop, failure) ==
        Ending(last.written, merge_configurations(last.written, Set(Choke, drop)),
               failure, "none")
      WithMaximum(search_max, failure) ==
        IF search_max.status # "ok" THEN Escapes({search_max})
        ELSE IF search_max.pressure > target
        THEN {Chosen(search_max, search_max.at, failure)}
        ELSE IF \E p \in At(lo) : p.status = "ok" /\ SameSide(p, search_max, target)
        THEN {Aborted(search_max.written, "ValueError")}
        ELSE LET searched == Among(lo, search_max.at)
                 roots    == RootPairs(searched, target)
             IN  {Chosen(rn[1], rn[1].at, "none") : rn \in roots}
                 \cup {Chosen(rn[2], rn[1].at, "none") : rn \in roots}
                 \cup Escapes(searched)
      Stonewall == {p \in Among(lo, hi - 1) :
                      /\ p.status = "ok" \/ p.at = lo
                      /\ \E q \in At(p.at + 1) : q.status = "RateTooHigh"}
      FromOpen(open) ==
        IF open.status # "ok" THEN Escapes({open})
        ELSE IF open.pressure <= target THEN {Aborted(open.written, "AssertionError")}
        ELSE UNION {IF p.status = "ok" THEN WithMaximum(p, "MIN_ABOVE")
                    ELSE IF p.status # "RateTooHigh" THEN Escapes({p})
                    ELSE Escapes({q \in Among(lo + 1, hi - 1) : q.status # "RateTooHigh"})
                         \cup UNION {WithMaximum(q, "RateTooHigh") : q \in Stonewall} :
                    p \in At(hi)}
  IN  UNION {FromOpen(p) : p \in At(0)}

UpstreamControl(section, plant, inlet, target) ==
  LET hi == inlet.pressure - Tolerance
  IN  UpstreamChokeSearch(UNION {ChokeProbes(section, plant, x, inlet) : x \in 0 .. hi},
                          Tolerance, hi, target)
=============================================================================

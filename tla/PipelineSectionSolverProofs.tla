-------------------- MODULE PipelineSectionSolverProofs --------------------
(***************************************************************************)
(* Theorems about PipelineSectionSolver, for every number of stages, every *)
(* chart and fluid that answers the configurations it is given, and every  *)
(* sequence of calls.                                                      *)
(***************************************************************************)
EXTENDS PipelineSectionSolver, TLAPS

(***************************************************************************)
(* Configurations.                                                         *)
(***************************************************************************)
\* A configuration for handlers of a section, each with a setting of its own, and
\* for the shaft a speed at which it turns.
Configures(c, s) ==
  /\ DOMAIN c \subseteq HandlersOf(s)
  /\ \A h \in DOMAIN c : c[h] \in Setting(h)
  /\ Shaft \in DOMAIN c => c[Shaft] # 0

\* A plant whose shaft turns.
Turning(p) == p \in Plants /\ p[Shaft] # 0

\* The handlers of a section are handlers of the plant, the first loop is one
\* of them in every section, and handlers are told apart.
LEMMA HandlersOfSection ==
  ASSUME NEW s \in Sections
  PROVE  /\ HandlersOf(s) \subseteq Handlers
         /\ Loops(s) \subseteq 1 .. Stages
         /\ 1 \in Loops(s) /\ Shaft \in HandlersOf(s) /\ Loops(s) \subseteq HandlersOf(s)
         /\ HasChoke(s) => Choke \in HandlersOf(s)
         /\ Shaft \notin Loops(s) /\ Choke \notin Loops(s) /\ Shaft # Choke
  BY SectionAssumption DEF Sections, HandlersOf, Handlers, Loops, HasChoke, Shaft, Choke

\* Merging keeps to the handlers of a section and to their settings.
LEMMA MergeConfigures ==
  ASSUME NEW s, NEW a, NEW b, Configures(a, s), Configures(b, s)
  PROVE  /\ Configures(merge_configurations(a, b), s)
         /\ DOMAIN merge_configurations(a, b) = DOMAIN a \cup DOMAIN b
  BY DEF Configures, merge_configurations

\* A configuration applied to a plant gives a plant.
LEMMA ApplyPlant ==
  ASSUME NEW s \in Sections, NEW p \in Plants, NEW c, Configures(c, s)
  PROVE  /\ Apply(p, c) \in Plants
         /\ \A h \in Handlers : Apply(p, c)[h] = IF h \in DOMAIN c THEN c[h] ELSE p[h]
         /\ (Turning(p) \/ Shaft \in DOMAIN c) => Turning(Apply(p, c))
<1>1. HandlersOf(s) \subseteq Handlers
  BY HandlersOfSection
<1>2. DOMAIN p = Handlers /\ \A h \in Handlers : p[h] \in Setting(h)
  BY DEF Plants
<1>3. \A h : Setting(h) \subseteq Settings
  BY DEF Setting, Settings
<1>4. Apply(p, c) = [h \in Handlers |-> IF h \in DOMAIN c THEN c[h] ELSE p[h]]
  BY <1>1, <1>2 DEF Apply, merge_configurations, Configures
<1>5. Apply(p, c) \in Plants
  BY <1>1, <1>2, <1>3, <1>4 DEF Plants, Configures
<1>6. Shaft \in Handlers
  BY <1>1, HandlersOfSection
<1> QED
  BY <1>4, <1>5, <1>6 DEF Turning, Configures

(***************************************************************************)
(* The search for a recirculation rate.                                    *)
(***************************************************************************)
\* A finding within the boundary; unless it failed or raised, the section ran at
\* the rate found.
Finds(f, out, lo, hi) ==
  /\ f.rate \in lo .. hi /\ f.last \in lo .. hi
  /\ f.failure \in Failures /\ f.error \in Errors \cup {"none"}
  /\ (f.error = "none" /\ f.failure = "none") => out[f.rate].status = "ok"

LEMMA BisectFinds ==
  ASSUME NEW lo \in Rates, NEW hi \in Rates, lo <= hi, NEW d \in {-1, 1}, NEW status, NEW out,
         \A x \in lo .. hi : out[x].status \in RunStatuses
  PROVE  \A f \in BisectRates(out, lo, hi, d, status) :
           Finds(f, out, lo, hi) /\ f.failure = "none"
<1> DEFINE thresholds == Threshold(out, lo, hi, d, status)
           interior   == (lo + 1) .. (hi - 1)
<1>1. ASSUME NEW x \in thresholds, NEW last \in {x, x - d}
      PROVE  Finds(Found(x, last), out, lo, hi) /\ Found(x, last).failure = "none"
  BY <1>1, SectionAssumption DEF Threshold, Finds, Found, Finding, Failures, Rates
<1>2. ASSUME NEW x \in lo .. hi, NEW e \in Errors
      PROVE  Finds(Raised(x, e), out, lo, hi) /\ Raised(x, e).failure = "none"
  BY <1>2 DEF Finds, Raised, Finding, Failures, Errors, RunStatuses
<1>3. lo \in lo .. hi /\ hi \in lo .. hi /\ interior \subseteq lo .. hi
  BY SectionAssumption DEF Rates
<1>4. \A x \in interior : out[x].status \notin Capacity \cup {"ok"} => out[x].status \in Errors
  BY <1>3 DEF Errors
<1>5. "DidNotConverge" \in Errors
  BY DEF Errors
<1> QED
  BY <1>1, <1>2, <1>3, <1>4, <1>5 DEF BisectRates

LEMMA EndFinds ==
  ASSUME NEW lo \in Rates, NEW hi \in Rates, lo <= hi, NEW out,
         \A x \in lo .. hi : out[x].status \in RunStatuses
  PROVE  /\ \A f \in MinimumRates(out, lo, hi) : Finds(f, out, lo, hi) /\ f.failure = "none"
         /\ \A f \in MaximumRates(out, lo, hi) : Finds(f, out, lo, hi) /\ f.failure = "none"
<1>1. lo \in lo .. hi /\ hi \in lo .. hi
  BY SectionAssumption DEF Rates
<1>2. ASSUME NEW x \in {lo, hi}, out[x].status = "ok"
      PROVE  Finds(Found(x, x), out, lo, hi) /\ Found(x, x).failure = "none"
  BY <1>1, <1>2 DEF Finds, Found, Finding, Failures
<1>3. ASSUME NEW x \in {lo, hi}, out[x].status # "ok"
      PROVE  /\ Finds(Raised(x, out[x].status), out, lo, hi)
             /\ Raised(x, out[x].status).failure = "none"
  <2>1. out[x].status \in Errors
    BY <1>1, <1>3 DEF Errors
  <2> QED
    BY <1>1, <2>1 DEF Finds, Raised, Finding, Failures, Errors, RunStatuses
<1>4. \A f \in MinimumRates(out, lo, hi) : Finds(f, out, lo, hi) /\ f.failure = "none"
  BY <1>2, <1>3, BisectFinds DEF MinimumRates
<1>5. \A f \in MaximumRates(out, lo, hi) : Finds(f, out, lo, hi) /\ f.failure = "none"
  BY <1>2, <1>3, BisectFinds DEF MaximumRates
<1> QED
  BY <1>4, <1>5

\* The search returns a rate of its boundary; a rate it found is within capacity.
LEMMA RateFinds ==
  ASSUME NEW lo \in Rates, NEW hi \in Rates, lo <= hi, NEW out, NEW t,
         \A x \in lo .. hi : out[x].status \in RunStatuses
  PROVE  \A f \in RateFindings(out, lo, hi, t) : Finds(f, out, lo, hi)
<1>1. ASSUME NEW m \in lo .. hi, NEW M \in lo .. hi,
             out[m].status = "ok", out[M].status = "ok"
      PROVE  \A f \in TargetedRates(out, m, M, t) : Finds(f, out, lo, hi)
  <2>1. m .. M \subseteq lo .. hi
    BY SectionAssumption DEF Rates
  <2>2. ASSUME NEW r \in lo .. hi, NEW last \in lo .. hi, NEW failure \in Failures,
               out[r].status = "ok"
        PROVE  Finds(Finding(r, last, failure, "none"), out, lo, hi)
    BY <2>2 DEF Finds, Finding
  <2>3. \A rn \in Roots(out, m, M, t) :
          rn[1] \in lo .. hi /\ rn[2] \in lo .. hi /\ out[rn[1]].status = "ok"
    BY <2>1 DEF Roots, Brackets
  <2>4. ASSUME NEW x \in m .. M, out[x].status # "ok"
        PROVE  Finds(Raised(x, out[x].status), out, lo, hi)
    <3>1. x \in lo .. hi /\ out[x].status \in Errors
      BY <2>1, <2>4 DEF Errors
    <3> QED
      BY <3>1 DEF Finds, Raised, Finding, Failures, Errors, RunStatuses
  <2>5. {"MAX_BELOW", "MIN_ABOVE", "none"} \subseteq Failures
    BY DEF Failures
  <2> QED
    BY <1>1, <2>2, <2>3, <2>4, <2>5 DEF TargetedRates, Found
<1>2. ASSUME NEW m \in MinimumRates(out, lo, hi), m.error = "RateTooHigh"
      PROVE  Finds(Finding(lo, m.last, "RateTooHigh", "none"), out, lo, hi)
  <2>1. lo \in lo .. hi /\ m.last \in lo .. hi
    BY EndFinds, SectionAssumption DEF Finds, Rates
  <2> QED
    BY <2>1 DEF Finds, Finding, Failures
<1>3. ASSUME NEW m \in MinimumRates(out, lo, hi), m.error = "none",
             NEW M \in MaximumRates(out, lo, hi), M.error = "none"
      PROVE  \A f \in TargetedRates(out, m.rate, M.rate, t) : Finds(f, out, lo, hi)
  <2>1. /\ m.rate \in lo .. hi /\ out[m.rate].status = "ok"
        /\ M.rate \in lo .. hi /\ out[M.rate].status = "ok"
    BY <1>3, EndFinds DEF Finds
  <2> QED
    BY <1>1, <2>1
<1>4. /\ \A m \in MinimumRates(out, lo, hi) : Finds(m, out, lo, hi)
      /\ \A M \in MaximumRates(out, lo, hi) : Finds(M, out, lo, hi)
  BY EndFinds
<1> QED
  BY <1>2, <1>3, <1>4 DEF RateFindings

(***************************************************************************)
(* Endings of the strategies.                                              *)
(***************************************************************************)
Ends(e, s) ==
  /\ Configures(e.written, s) /\ Configures(e.configuration, s)
  /\ e.failure \in Failures /\ e.error \in Errors \cup {"none"}

\* What the units answer, from the assumption on them.
LEMMA UnitsAnswer ==
  ASSUME NEW s \in Sections, NEW p \in Plants, NEW q \in Inlets, NEW i \in 1 .. Stages + 1
  PROVE  /\ RunTo(s, p, q, i).status \in RunStatuses
         /\ RunTo(s, p, q, i).pressure \in Pressures
         /\ (i <= Stages /\ Turning(p) /\ RunTo(s, p, q, i).status = "ok") =>
              /\ RangeAt(s, p, q, i).min \in Rates /\ RangeAt(s, p, q, i).max \in Rates
              /\ RangeAt(s, p, q, i).min <= RangeAt(s, p, q, i).max
<1> DEFINE stream == RunTo(s, p, q, i)
<1>1. /\ stream \in Outcomes
      /\ (i <= Stages /\ p[Shaft] # 0 /\ stream.status = "ok") =>
            RecirculationRange(s.train, i, p[Shaft], stream) \in Boundaries
  BY UnitsAssumption
<1>2. stream.status \in RunStatuses /\ stream.pressure \in Pressures
  BY <1>1 DEF Outcomes
<1>3. \A b \in Boundaries : b.min \in Rates /\ b.max \in Rates /\ b.min <= b.max
  BY DEF Boundaries
<1> QED
  BY <1>1, <1>2, <1>3 DEF RangeAt, Turning

LEMMA RunAnswers ==
  ASSUME NEW s \in Sections, NEW p \in Plants, NEW q \in Inlets
  PROVE  Run(s, p, q).status \in RunStatuses /\ Run(s, p, q).pressure \in Pressures
<1>1. Stages + 1 \in 1 .. Stages + 1
  BY SectionAssumption
<1> QED
  BY <1>1, UnitsAnswer DEF Run

\* Single settings and resets are configurations of the section.
LEMMA SettingsConfigure ==
  ASSUME NEW s \in Sections
  PROVE  /\ \A x \in Rates : Configures(Set(1, x), s) /\ Shaft \notin DOMAIN Set(1, x)
         /\ \A x \in Rates, i \in Loops(s) : Configures(Set(i, x), s)
         /\ \A v \in MinSpeed .. MaxSpeed : Configures(Set(Shaft, v), s)
         /\ HasChoke(s) => \A x \in Pressures : Configures(Set(Choke, x), s)
         /\ Configures(ResetLoops(s), s) /\ DOMAIN ResetLoops(s) = Loops(s)
         /\ Configures(Nothing, s)
         /\ \A h, x : DOMAIN Set(h, x) = {h} /\ Set(h, x)[h] = x
<1>1. /\ HandlersOf(s) \subseteq Handlers /\ 1 \in Loops(s)
      /\ Loops(s) \subseteq HandlersOf(s) /\ Shaft \in HandlersOf(s)
      /\ HasChoke(s) => Choke \in HandlersOf(s)
      /\ Shaft \notin Loops(s) /\ Choke \notin Loops(s) /\ Shaft # Choke
  BY HandlersOfSection
<1>2. 0 \in Rates /\ \A h \in Loops(s) : Setting(h) = Rates
  BY <1>1, SectionAssumption DEF Rates, Setting
<1>3. \A v \in MinSpeed .. MaxSpeed : v \in Setting(Shaft) /\ v # 0
  BY SectionAssumption DEF Setting, Speeds
<1>4. \A x \in Pressures : x \in Setting(Choke)
  BY <1>1 DEF Setting
<1> QED
  BY <1>1, <1>2, <1>3, <1>4 DEF Configures, Set, ResetLoops, Nothing

\* Rates left in the loops stage by stage, whatever they were picked by.
LEMMA StagewiseEnd ==
  ASSUME NEW s \in Sections, s.control # "COMMON_ASV", NEW p \in Plants, NEW q \in Inlets,
         NEW rates \in [1 .. Stages -> Rates]
  PROVE  /\ Ends(Ending(rates, rates, "none", "none"), s)
         /\ \A i \in 1 .. Stages : Reaching(s, p, q, rates, i).status \in RunStatuses
         /\ \A i \in 1 .. Stages :
              Reaching(s, p, q, rates, i).status # "ok" =>
                Ends(Aborted(rates, Reaching(s, p, q, rates, i).status), s)
<1>1. Loops(s) = 1 .. Stages /\ Loops(s) \subseteq HandlersOf(s)
      /\ Shaft \notin Loops(s) /\ Choke \notin Loops(s)
  BY HandlersOfSection DEF Loops
<1>2. \A r \in [1 .. Stages -> Rates] : Configures(r, s)
  BY <1>1 DEF Configures, Setting
<1>3. \A i \in 1 .. Stages : Prefix(rates, i - 1) \in [1 .. Stages -> Rates]
  BY SectionAssumption DEF Prefix, Rates
<1>4. \A i \in 1 .. Stages : Apply(p, Prefix(rates, i - 1)) \in Plants
  BY <1>2, <1>3, ApplyPlant
<1>5. \A i \in 1 .. Stages : Reaching(s, p, q, rates, i).status \in RunStatuses
  <2>1. \A i \in 1 .. Stages : i \in 1 .. Stages + 1
    BY SectionAssumption
  <2> QED
    BY <1>4, <2>1, UnitsAnswer DEF Reaching
<1>6. Configures(Nothing, s)
  BY SettingsConfigure
<1>7. Ends(Ending(rates, rates, "none", "none"), s)
  BY <1>2 DEF Ends, Ending, Failures
<1>8. ASSUME NEW e \in RunStatuses \ {"ok"}
      PROVE  Ends(Aborted(rates, e), s)
  BY <1>2, <1>6, <1>8 DEF Ends, Aborted, Ending, Failures, Errors
<1> QED
  BY <1>5, <1>7, <1>8

\* The least recirculation that avoids surge, under either layout of the loops.
LEMMA CommonAntiSurgeEnds ==
  ASSUME NEW s \in Sections, NEW p, Turning(p), NEW q \in Inlets
  PROVE  \A e \in CommonAntiSurge(s, p, q) : Ends(e, s)
<1> DEFINE reset == Apply(p, ResetLoops(s))
           first == RunTo(s, reset, q, 1)
           range == RangeAt(s, reset, q, 1)
           out   == CommonOutcomes(s, reset, q, range)
<1>1. Turning(reset) /\ reset \in Plants
  BY SettingsConfigure, ApplyPlant DEF Turning
<1>2. 1 \in 1 .. Stages + 1 /\ 1 <= Stages
  BY SectionAssumption
<1>3. /\ first.status \in RunStatuses
      /\ first.status = "ok" =>
           range.min \in Rates /\ range.max \in Rates /\ range.min <= range.max
  BY <1>1, <1>2, UnitsAnswer
<1>4. first.status # "ok" => Ends(Aborted(ResetLoops(s), first.status), s)
  BY <1>3, SettingsConfigure DEF Ends, Aborted, Ending, Failures, Errors
<1>5. ASSUME first.status = "ok",
             NEW f \in RateFindings(out, range.min, range.max, NoTarget)
      PROVE  /\ Ends(Aborted(Set(1, f.last), f.error), s)
             /\ Ends(Ending(Set(1, f.last), Set(1, f.rate), f.failure, "none"), s)
  <2>1. \A x \in range.min .. range.max : x \in Rates
    BY <1>3, <1>5, SectionAssumption DEF Rates
  <2>2. \A x \in range.min .. range.max : out[x].status \in RunStatuses
    BY <1>1, <2>1, SettingsConfigure, ApplyPlant, RunAnswers DEF CommonOutcomes
  <2>3. Finds(f, out, range.min, range.max)
    BY <1>3, <1>5, <2>2, RateFinds
  <2> QED
    BY <2>1, <2>3, SettingsConfigure DEF Finds, Ends, Aborted, Ending, Failures
<1> QED
  BY <1>4, <1>5 DEF CommonAntiSurge

LEMMA AntiSurgeEnds ==
  ASSUME NEW s \in Sections, NEW p, Turning(p), NEW q \in Inlets
  PROVE  \A e \in AntiSurge(s, p, q) : Ends(e, s)
<1> DEFINE reset == Apply(p, ResetLoops(s))
<1>1. CASE s.control = "COMMON_ASV"
  BY <1>1, CommonAntiSurgeEnds DEF AntiSurge
<1>2. CASE s.control # "COMMON_ASV"
  <2>1. reset \in Plants
    BY SettingsConfigure, ApplyPlant DEF Turning
  <2>2. ASSUME NEW rates \in [1 .. Stages -> Rates]
        PROVE  /\ Ends(Ending(rates, rates, "none", "none"), s)
               /\ \A i \in 1 .. Stages :
                    Reaching(s, reset, q, rates, i).status # "ok" =>
                      Ends(Aborted(rates, Reaching(s, reset, q, rates, i).status), s)
    BY <1>2, <2>1, StagewiseEnd
  <2> QED
    BY <1>2, <2>2 DEF AntiSurge, StagewiseEndings, SetBefore
<1> QED
  BY <1>1, <1>2

(***************************************************************************)
(* Probes of the section at a speed.                                       *)
(***************************************************************************)
Probed(r, s) ==
  /\ Configures(r.written, s)
  /\ r.status \in Errors \cup {"ok"} /\ r.pressure \in Pressures

\* A probe at a speed sets the shaft and every loop, whatever came before.
LEMMA ProbeSets ==
  ASSUME NEW s, NEW p, NEW v, NEW q
  PROVE  \A r \in SpeedProbes(s, p, v, q) : {Shaft} \cup Loops(s) \subseteq DOMAIN r.written
<1> DEFINE set == merge_configurations(ResetLoops(s), Set(Shaft, v))
<1>1. DOMAIN set = {Shaft} \cup Loops(s)
  BY DEF merge_configurations, ResetLoops, Set
<1>2. ASSUME NEW c PROVE DOMAIN set \subseteq DOMAIN merge_configurations(set, c)
  BY DEF merge_configurations
<1> QED
  BY <1>1, <1>2 DEF SpeedProbes, Probe

LEMMA SpeedProbed ==
  ASSUME NEW s \in Sections, NEW p \in Plants, NEW v \in MinSpeed .. MaxSpeed, NEW q \in Inlets
  PROVE  \A r \in SpeedProbes(s, p, v, q) : Probed(r, s) /\ r.at = v
<1> DEFINE set  == merge_configurations(ResetLoops(s), Set(Shaft, v))
           bare == Run(s, Apply(p, set), q)
           all(e) == merge_configurations(set, merge_configurations(e.written, e.configuration))
<1>1. Configures(set, s) /\ Shaft \in DOMAIN set
  <2>1. Configures(ResetLoops(s), s) /\ Configures(Set(Shaft, v), s)
    BY SettingsConfigure
  <2>2. DOMAIN Set(Shaft, v) = {Shaft}
    BY DEF Set
  <2>3. Configures(merge_configurations(ResetLoops(s), Set(Shaft, v)), s)
    BY <2>1, MergeConfigures
  <2>4. Shaft \in DOMAIN merge_configurations(ResetLoops(s), Set(Shaft, v))
    BY <2>2 DEF merge_configurations
  <2> QED
    BY <2>3, <2>4
<1>2. Turning(Apply(p, set)) /\ Apply(p, set) \in Plants
  BY <1>1, ApplyPlant
<1>3. bare.status \in RunStatuses /\ bare.pressure \in Pressures
  BY <1>2, RunAnswers
<1>4. RunStatuses \subseteq Errors \cup {"ok"} /\ 0 \in Pressures
  BY SectionAssumption DEF Errors, Pressures
<1>5. ASSUME NEW e \in AntiSurge(s, Apply(p, set), q)
      PROVE  /\ Configures(all(e), s)
             /\ Run(s, Apply(p, all(e)), q).status \in RunStatuses
             /\ Run(s, Apply(p, all(e)), q).pressure \in Pressures
             /\ e.error \in Errors \cup {"none"}
  <2>1. Ends(e, s)
    BY <1>2, <1>5, AntiSurgeEnds
  <2>2. Configures(all(e), s)
    BY <1>1, <2>1, MergeConfigures DEF Ends
  <2>3. Apply(p, all(e)) \in Plants
    BY <2>2, ApplyPlant
  <2> QED
    BY <2>1, <2>2, <2>3, RunAnswers DEF Ends
<1>6. Probed(Probe(v, set, bare.status, bare.pressure), s)
  BY <1>1, <1>3, <1>4 DEF Probed, Probe
<1> QED
  BY <1>4, <1>5, <1>6 DEF SpeedProbes, Probed, Probe

(***************************************************************************)
(* Endings of pressure control.                                            *)
(***************************************************************************)
\* A probe that did not run ends a strategy with its error.
LEMMA EscapesEnd ==
  ASSUME NEW s \in Sections, NEW probes, \A r \in probes : Probed(r, s)
  PROVE  \A e \in Escapes(probes) : Ends(e, s)
<1>1. Configures(Nothing, s) /\ "none" \in Failures
  BY SettingsConfigure DEF Failures
<1> QED
  BY <1>1 DEF Escapes, Ends, Aborted, Ending, Probed

LEMMA CommonAsvEnds ==
  ASSUME NEW s \in Sections, NEW p, Turning(p), NEW q \in Inlets, NEW t
  PROVE  \A e \in CommonAsvControl(s, p, q, t) : Ends(e, s)
<1> DEFINE reset == Apply(p, ResetLoops(s))
           first == RunTo(s, reset, q, 1)
           range == RangeAt(s, reset, q, 1)
           out   == CommonOutcomes(s, reset, q, range)
<1>1. Turning(reset) /\ reset \in Plants
  BY SettingsConfigure, ApplyPlant DEF Turning
<1>2. 1 \in 1 .. Stages + 1 /\ 1 <= Stages
  BY SectionAssumption
<1>3. /\ first.status \in RunStatuses
      /\ first.status = "ok" =>
           range.min \in Rates /\ range.max \in Rates /\ range.min <= range.max
  BY <1>1, <1>2, UnitsAnswer
<1>4. first.status # "ok" => Ends(Aborted(ResetLoops(s), first.status), s)
  BY <1>3, SettingsConfigure DEF Ends, Aborted, Ending, Failures, Errors
<1>5. ASSUME first.status = "ok"
      PROVE  /\ out[range.max].status \in RunStatuses
             /\ \A x \in range.min .. range.max : x \in Rates /\ out[x].status \in RunStatuses
  <2>1. \A x \in range.min .. range.max : x \in Rates
    BY <1>3, <1>5, SectionAssumption DEF Rates
  <2>2. \A x \in range.min .. range.max : out[x].status \in RunStatuses
    BY <1>1, <2>1, SettingsConfigure, ApplyPlant, RunAnswers DEF CommonOutcomes
  <2>3. range.max \in range.min .. range.max
    BY <1>3, <1>5 DEF Rates
  <2> QED
    BY <2>1, <2>2, <2>3
<1>6. ASSUME first.status = "ok"
      PROVE  /\ out[range.max].status # "ok" =>
                  Ends(Aborted(Set(1, range.max), out[range.max].status), s)
             /\ Ends(Ending(Set(1, range.max), Set(1, range.max), "MIN_ABOVE", "none"), s)
  BY <1>3, <1>5, <1>6, SettingsConfigure DEF Ends, Aborted, Ending, Failures, Errors
<1>7. ASSUME first.status = "ok", NEW f \in RateFindings(out, range.min, range.max, t)
      PROVE  /\ Ends(Aborted(Set(1, f.last), f.error), s)
             /\ Ends(Ending(Set(1, f.last), Set(1, f.rate), f.failure, "none"), s)
  <2>1. Finds(f, out, range.min, range.max)
    BY <1>3, <1>5, <1>7, RateFinds
  <2> QED
    BY <1>5, <1>7, <2>1, SettingsConfigure DEF Finds, Ends, Aborted, Ending, Failures
<1> QED
  BY <1>4, <1>6, <1>7 DEF CommonAsvControl, FullRecirculation

LEMMA DownstreamEnds ==
  ASSUME NEW s \in Sections, HasChoke(s), NEW p \in Plants, NEW q \in Inlets, NEW t \in Pressures
  PROVE  \A e \in DownstreamControl(s, p, q, t) : Ends(e, s)
<1> DEFINE baseline == Run(s, Apply(p, Set(Choke, 0)), q)
<1>1. 0 \in Pressures /\ \A x \in Pressures : Configures(Set(Choke, x), s)
  BY SettingsConfigure, SectionAssumption DEF Pressures
<1>2. baseline.status \in RunStatuses /\ baseline.pressure \in Pressures
  BY <1>1, ApplyPlant, RunAnswers
<1>3. ASSUME ~Close(baseline.pressure, t), ~Below(baseline.pressure, t)
      PROVE  PressureChange(baseline.pressure, t) \in Pressures
  BY <1>2, <1>3, SectionAssumption DEF Below, PressureChange, Pressures
<1>4. Configures(Nothing, s)
  BY SettingsConfigure
<1>5. {"none", "MAX_BELOW"} \subseteq Failures /\ RunStatuses \ {"ok"} \subseteq Errors
  BY DEF Failures, Errors
<1> QED
  BY <1>1, <1>2, <1>3, <1>4, <1>5 DEF DownstreamControl, Ends, Aborted, Ending

LEMMA ChokeProbed ==
  ASSUME NEW s \in Sections, HasChoke(s), NEW p, Turning(p), NEW x \in Pressures, NEW q \in Inlets
  PROVE  \A r \in ChokeProbes(s, p, x, q) : Probed(r, s) /\ r.at = x
<1> DEFINE choked == Apply(p, Set(Choke, x))
           all(e) == merge_configurations(e.written, Set(Choke, x))
<1>1. Configures(Set(Choke, x), s)
  BY SettingsConfigure
<1>2. Turning(choked) /\ choked \in Plants
  BY <1>1, ApplyPlant DEF Turning
<1>3. RunStatuses \subseteq Errors \cup {"ok"} /\ 0 \in Pressures
  BY SectionAssumption DEF Errors, Pressures
<1>4. ASSUME NEW e \in AntiSurge(s, choked, q)
      PROVE  /\ Configures(all(e), s)
             /\ Run(s, Apply(p, all(e)), q).status \in RunStatuses
             /\ Run(s, Apply(p, all(e)), q).pressure \in Pressures
             /\ e.error \in Errors \cup {"none"}
  <2>1. Ends(e, s)
    BY <1>2, <1>4, AntiSurgeEnds
  <2>2. Configures(all(e), s)
    BY <1>1, <2>1, MergeConfigures DEF Ends
  <2>3. Apply(p, all(e)) \in Plants
    BY <2>2, ApplyPlant DEF Turning
  <2> QED
    BY <2>1, <2>2, <2>3, RunAnswers DEF Ends
<1> QED
  BY <1>3, <1>4 DEF ChokeProbes, Probed, Probe

LEMMA UpstreamSearchEnds ==
  ASSUME NEW s \in Sections, HasChoke(s), NEW probes, NEW lo, NEW hi, NEW t,
         \A r \in probes : Probed(r, s) /\ r.at \in Pressures
  PROVE  \A e \in UpstreamChokeSearch(probes, lo, hi, t) : Ends(e, s)
<1> DEFINE Chosen(last, drop, failure) ==
             Ending(last.written, merge_configurations(last.written, Set(Choke, drop)),
                    failure, "none")
           Among(a, b) == {r \in probes : r.at \in a .. b}
           Searched(m, roots) ==
             {Chosen(rn[1], rn[1].at, "none") : rn \in roots}
             \cup {Chosen(rn[2], rn[1].at, "none") : rn \in roots}
             \cup Escapes(Among(lo, m.at))
           WithMaximum(m, failure) ==
             IF m.status # "ok" THEN Escapes({m})
             ELSE IF m.pressure > t THEN {Chosen(m, m.at, failure)}
             ELSE IF \E r \in {r \in probes : r.at = lo} : r.status = "ok" /\ SameSide(r, m, t)
             THEN {Aborted(m.written, "ValueError")}
             ELSE Searched(m, RootPairs(Among(lo, m.at), t))
<1>1. ASSUME NEW last \in probes, NEW x \in Pressures, NEW failure \in Failures
      PROVE  Ends(Chosen(last, x, failure), s)
  <2>1. Configures(Set(Choke, x), s) /\ Configures(last.written, s)
    BY SettingsConfigure DEF Probed
  <2>2. Configures(merge_configurations(last.written, Set(Choke, x)), s)
    BY <2>1, MergeConfigures
  <2> QED
    BY <2>1, <2>2 DEF Ends, Ending
<1>2. ASSUME NEW some \in SUBSET probes PROVE \A e \in Escapes(some) : Ends(e, s)
  BY EscapesEnd
<1>3. ASSUME NEW last \in probes, NEW error \in {"ValueError", "AssertionError"}
      PROVE  Ends(Aborted(last.written, error), s)
  BY SettingsConfigure DEF Ends, Aborted, Ending, Probed, Failures, Errors, RunStatuses
<1>4. {"none", "MIN_ABOVE", "RateTooHigh"} \subseteq Failures
  BY DEF Failures
<1>5. \A some \in SUBSET probes : \A rn \in RootPairs(some, t) :
        rn[1] \in probes /\ rn[2] \in probes
  BY DEF RootPairs
<1>6. ASSUME NEW m \in probes, NEW failure \in Failures
      PROVE  \A e \in WithMaximum(m, failure) : Ends(e, s)
  <2>1. \A e \in Searched(m, RootPairs(Among(lo, m.at), t)) : Ends(e, s)
    <3>1. Among(lo, m.at) \in SUBSET probes
      OBVIOUS
    <3>2. \A rn \in RootPairs(Among(lo, m.at), t) :
            /\ rn[1] \in probes /\ rn[2] \in probes /\ rn[1].at \in Pressures
            /\ Ends(Chosen(rn[1], rn[1].at, "none"), s)
            /\ Ends(Chosen(rn[2], rn[1].at, "none"), s)
      BY <1>1, <1>4, <1>5, <3>1
    <3> QED
      BY <1>2, <3>1, <3>2
  <2>2. m.pressure > t => Ends(Chosen(m, m.at, failure), s)
    BY <1>1, <1>6
  <2>3. Ends(Aborted(m.written, "ValueError"), s)
    BY <1>3, <1>6
  <2>4. \A e \in Escapes({m}) : Ends(e, s)
    BY <1>2, <1>6
  <2> QED
    BY <2>1, <2>2, <2>3, <2>4
<1>7. \A r \in probes : \A e \in Escapes({r}) : Ends(e, s)
  BY <1>2
<1>8. \A r \in probes : Ends(Aborted(r.written, "AssertionError"), s)
  BY <1>3
<1>9. \A e \in Escapes({r \in Among(lo + 1, hi - 1) : r.status # "RateTooHigh"}) : Ends(e, s)
  BY <1>2
<1> HIDE DEF WithMaximum
<1>10. ASSUME NEW e \in UpstreamChokeSearch(probes, lo, hi, t)
       PROVE  \/ \E r \in probes : e = Aborted(r.written, "AssertionError") \/ e \in Escapes({r})
              \/ \E r \in probes, failure \in {"MIN_ABOVE", "RateTooHigh"} :
                   e \in WithMaximum(r, failure)
              \/ e \in Escapes({r \in Among(lo + 1, hi - 1) : r.status # "RateTooHigh"})
  <2> DEFINE At(x) == {r \in probes : r.at = x}
             Stonewall == {r \in Among(lo, hi - 1) :
                             /\ r.status = "ok" \/ r.at = lo
                             /\ \E n \in At(r.at + 1) : n.status = "RateTooHigh"}
             Between == {n \in Among(lo + 1, hi - 1) : n.status # "RateTooHigh"}
             AtMost(r) ==
               IF r.status = "ok" THEN WithMaximum(r, "MIN_ABOVE")
               ELSE IF r.status # "RateTooHigh" THEN Escapes({r})
               ELSE Escapes(Between) \cup UNION {WithMaximum(n, "RateTooHigh") : n \in Stonewall}
             FromOpen(r) ==
               IF r.status # "ok" THEN Escapes({r})
               ELSE IF r.pressure <= t THEN {Aborted(r.written, "AssertionError")}
               ELSE UNION {AtMost(n) : n \in At(hi)}
  <2>1. UpstreamChokeSearch(probes, lo, hi, t) = UNION {FromOpen(r) : r \in At(0)}
    BY Zenon DEF UpstreamChokeSearch, WithMaximum
  <2>2. PICK open \in probes : e \in FromOpen(open)
    BY <1>10, <2>1
  <2>3. CASE e \in Escapes({open}) \/ e = Aborted(open.written, "AssertionError")
    BY <2>3
  <2>4. CASE \E n \in At(hi) : e \in AtMost(n)
    <3>1. PICK n \in probes : e \in AtMost(n)
      BY <2>4
    <3>2. Stonewall \subseteq probes
      OBVIOUS
    <3>3. \/ e \in WithMaximum(n, "MIN_ABOVE") \/ e \in Escapes({n})
          \/ \E m \in Stonewall : e \in WithMaximum(m, "RateTooHigh")
          \/ e \in Escapes(Between)
      <4> HIDE DEF Stonewall, Between
      <4> QED
        BY <3>1
    <3> QED
      BY <3>1, <3>2, <3>3
  <2> QED
    BY <2>2, <2>3, <2>4
<1> QED
  BY <1>4, <1>6, <1>7, <1>8, <1>9, <1>10

LEMMA UpstreamEnds ==
  ASSUME NEW s \in Sections, HasChoke(s), NEW p, Turning(p), NEW q \in Inlets, NEW t
  PROVE  \A e \in UpstreamControl(s, p, q, t) : Ends(e, s)
<1> DEFINE hi     == q.pressure - Tolerance
           probes == UNION {ChokeProbes(s, p, x, q) : x \in 0 .. hi}
<1>1. 0 .. hi \subseteq Pressures
  BY SectionAssumption DEF Pressures
<1>2. \A r \in probes : Probed(r, s) /\ r.at \in Pressures
  BY <1>1, ChokeProbed
<1> QED
  BY <1>2, UpstreamSearchEnds DEF UpstreamControl

LEMMA MinimumPressureEnds ==
  ASSUME NEW s \in Sections, s.control # "COMMON_ASV", NEW p \in Plants, NEW q \in Inlets
  PROVE  \A e \in MinimumPressureEndings(s, p, q) : Ends(e, s)
<1> DEFINE endings == StagewiseEndings(s, p, q, FullRecirculation)
<1>1. \A e \in endings : Ends(e, s)
  <2>1. ASSUME NEW rates \in [1 .. Stages -> Rates]
        PROVE  /\ Ends(Ending(rates, rates, "none", "none"), s)
               /\ \A i \in 1 .. Stages :
                    Reaching(s, p, q, rates, i).status # "ok" =>
                      Ends(Aborted(rates, Reaching(s, p, q, rates, i).status), s)
    BY StagewiseEnd
  <2> QED
    BY <2>1 DEF StagewiseEndings, SetBefore
<1>2. ASSUME NEW e \in endings
      PROVE  /\ Run(s, Apply(p, e.written), q).status # "ok" =>
                  Ends(Aborted(e.written, Run(s, Apply(p, e.written), q).status), s)
             /\ Ends(Ending(ResetLoops(s), e.configuration, "none", "none"), s)
  <2>1. Ends(e, s)
    BY <1>1, <1>2
  <2>2. Run(s, Apply(p, e.written), q).status \in RunStatuses
    BY <2>1, ApplyPlant, RunAnswers DEF Ends
  <2> QED
    BY <2>1, <2>2, SettingsConfigure DEF Ends, Aborted, Ending, Failures, Errors
<1> HIDE DEF endings
<1> QED
  BY <1>1, <1>2 DEF MinimumPressureEndings, endings

\* What the individual strategies share ends well if what comes after does.
LEMMA IndividualEnds ==
  ASSUME NEW s \in Sections, s.control # "COMMON_ASV", NEW p \in Plants, NEW q \in Inlets,
         NEW t, NEW After, \A e \in After : Ends(e, s)
  PROVE  \A e \in Individual(s, p, q, t, After) : Ends(e, s)
<1> DEFINE reset == Apply(p, ResetLoops(s))
<1>1. reset \in Plants
  BY SettingsConfigure, ApplyPlant
<1>2. \A e \in MinimumPressureEndings(s, reset, q) : Ends(e, s)
  BY <1>1, MinimumPressureEnds
<1>3. ASSUME NEW e, Ends(e, s)
      PROVE  Ends(Ending(e.written, e.configuration, "MIN_ABOVE", "none"), s)
  BY <1>3 DEF Ends, Ending, Failures
<1> QED
  BY <1>2, <1>3 DEF Individual

LEMMA FractionProbed ==
  ASSUME NEW s \in Sections, s.control # "COMMON_ASV", NEW p \in Plants, NEW q \in Inlets, NEW x
  PROVE  \A r \in FractionProbes(s, p, q, x) : Probed(r, s) /\ r.at = x
<1>1. \A e \in FractionEndings(s, p, q, x) : Ends(e, s)
  <2>1. ASSUME NEW rates \in [1 .. Stages -> Rates]
        PROVE  /\ Ends(Ending(rates, rates, "none", "none"), s)
               /\ \A i \in 1 .. Stages :
                    Reaching(s, p, q, rates, i).status # "ok" =>
                      Ends(Aborted(rates, Reaching(s, p, q, rates, i).status), s)
    BY StagewiseEnd
  <2> QED
    BY <2>1 DEF FractionEndings, StagewiseEndings, SetBefore
<1>2. ASSUME NEW e \in FractionEndings(s, p, q, x)
      PROVE  /\ Configures(e.written, s) /\ e.error \in Errors \cup {"none"}
             /\ Run(s, Apply(p, e.written), q).status \in RunStatuses
             /\ Run(s, Apply(p, e.written), q).pressure \in Pressures
  BY <1>1, <1>2, ApplyPlant, RunAnswers DEF Ends
<1>3. RunStatuses \subseteq Errors \cup {"ok"} /\ 0 \in Pressures
  BY SectionAssumption DEF Errors, Pressures
<1> QED
  BY <1>2, <1>3 DEF FractionProbes, Probed, Probe

LEMMA FractionSearchEnds ==
  ASSUME NEW s \in Sections, s.control # "COMMON_ASV", NEW p \in Plants, NEW q \in Inlets, NEW t
  PROVE  \A e \in FractionSearch(s, p, q, t) : Ends(e, s)
<1> DEFINE reset  == Apply(p, ResetLoops(s))
           probes == UNION {FractionProbes(s, reset, q, x) : x \in 0 .. Fractions}
           At(x)  == {r \in probes : r.at = x}
           outer  == At(0) \cup At(Fractions)
           Between(a, b) ==
             IF SameSide(a, b, t) THEN {Aborted(b.written, "ValueError")}
             ELSE {Ending(rn[1].written, rn[1].written, "none", "none") :
                     rn \in RootPairs(probes, t)} \cup Escapes(probes)
<1>1. reset \in Plants
  BY SettingsConfigure, ApplyPlant
<1>2. \A r \in probes : Probed(r, s)
  BY <1>1, FractionProbed
<1>3. \A some \in SUBSET probes : \A e \in Escapes(some) : Ends(e, s)
  BY <1>2, EscapesEnd
<1>4. \A r \in probes : /\ Ends(Aborted(r.written, "ValueError"), s)
                        /\ Ends(Ending(r.written, r.written, "none", "none"), s)
  BY <1>2, SettingsConfigure
     DEF Ends, Aborted, Ending, Probed, Failures, Errors, RunStatuses
<1>5. \A rn \in RootPairs(probes, t) : rn[1] \in probes
  BY DEF RootPairs
<1>6. \A e \in Escapes(outer) : Ends(e, s)
  BY <1>3
<1>7. ASSUME NEW a \in probes, NEW b \in probes
      PROVE  \A e \in Between(a, b) : Ends(e, s)
  <2>1. \A e \in Escapes(probes) : Ends(e, s)
    BY <1>3
  <2> HIDE DEF probes
  <2> QED
    BY <1>4, <1>5, <1>7, <2>1
<1>8. FractionSearch(s, p, q, t) =
        IF \E r \in outer : r.status # "ok" THEN Escapes(outer)
        ELSE UNION {Between(a, b) : a \in At(0), b \in At(Fractions)}
  BY DEF FractionSearch
<1>9. At(0) \subseteq probes /\ At(Fractions) \subseteq probes
  OBVIOUS
<1> HIDE DEF Between, outer, At
<1> QED
  BY <1>6, <1>7, <1>8, <1>9

\* One stage of the pressure strategy: the search is over the rates of its loop.
LEMMA StageFinds ==
  ASSUME NEW s \in Sections, s.control # "COMMON_ASV", NEW p, Turning(p), NEW q \in Inlets,
         NEW t, NEW i \in 1 .. Stages
  PROVE  \A f \in StageFindings(s, p, q, t, i) :
           /\ f.rate \in Rates /\ f.last \in Rates
           /\ f.failure \in Failures /\ f.error \in Errors \cup {"none"}
<1> DEFINE range == RangeAt(s, p, q, i)
           out   == StageOutcomes(s, p, q, i, range)
<1>1. i \in Loops(s) /\ p \in Plants /\ i \in 1 .. Stages + 1 /\ i + 1 \in 1 .. Stages + 1
  BY SectionAssumption DEF Loops, Turning
<1>2. p[i] \in Rates
  <2>1. i \in Handlers /\ Setting(i) = Rates
    BY <1>1, HandlersOfSection DEF Setting
  <2> QED
    BY <1>1, <2>1 DEF Plants
<1>3. CASE RunTo(s, p, q, i).status # "ok"
  <2>1. RunTo(s, p, q, i).status \in Errors
    BY <1>1, <1>3, UnitsAnswer DEF Errors
  <2> QED
    BY <1>2, <1>3, <2>1 DEF StageFindings, Raised, Finding, Failures
<1>4. CASE RunTo(s, p, q, i).status = "ok"
  <2>1. range.min \in Rates /\ range.max \in Rates /\ range.min <= range.max
    BY <1>1, <1>4, UnitsAnswer
  <2>2. \A x \in range.min .. range.max : x \in Rates
    BY <2>1, SectionAssumption DEF Rates
  <2>3. \A x \in range.min .. range.max : Apply(p, Set(i, x)) \in Plants
    BY <1>1, <2>2, SettingsConfigure, ApplyPlant
  <2>4. \A x \in range.min .. range.max : out[x].status \in RunStatuses
    BY <1>1, <2>3, UnitsAnswer DEF StageOutcomes
  <2>5. \A f \in RateFindings(out, range.min, range.max, StageTarget(q, t, i)) :
           Finds(f, out, range.min, range.max)
    BY <2>1, <2>4, RateFinds
  <2> QED
    BY <1>4, <2>2, <2>5 DEF StageFindings, Finds
<1> QED
  BY <1>3, <1>4

(***************************************************************************)
(* Nothing stale: the history variable only grows during a call, and the   *)
(* first probe of a call completes it.                                     *)
(***************************************************************************)
LEMMA GivenGrows ==
  ASSUME Solve
  PROVE  /\ given \subseteq given' /\ section' = section
         /\ step = "maximum_speed" => {Shaft} \cup Loops(section) \subseteq given'
         /\ step \notin {"idle", "returned", "raised"}
<1> USE DEF Write, Return, Raise, Goto, call
<1>1. CASE ProbeMaximumSpeed
  BY <1>1, ProbeSets DEF ProbeMaximumSpeed, Probes, SpeedFound
<1>2. CASE NarrowSpeedBoundary
  BY <1>2 DEF NarrowSpeedBoundary
<1>3. CASE ProbeMinimumSpeed
  BY <1>3 DEF ProbeMinimumSpeed, MinimumSpeedFound, SpeedFound
<1>4. CASE SearchMinimumSpeed
  BY <1>4 DEF SearchMinimumSpeed, MinimumSpeedFound, SpeedFound
<1>5. CASE FindSpeedRoot
  BY <1>5 DEF FindSpeedRoot, SpeedFound
<1>6. CASE ApplyAntiSurge
  BY <1>6 DEF ApplyAntiSurge
<1>7. CASE EvaluateChosenSpeed
  BY <1>7 DEF EvaluateChosenSpeed
<1>8. CASE \/ ControlDownstreamChoke \/ ControlUpstreamChoke \/ ControlCommonAsv
           \/ ControlIndividualRate
  BY <1>8 DEF ControlDownstreamChoke, ControlUpstreamChoke, ControlCommonAsv,
              ControlIndividualRate, ControlBy, Conclude
<1>9. CASE ControlIndividualPressure
  BY <1>9 DEF ControlIndividualPressure, Conclude
<1>10. CASE ControlStage
  BY <1>10 DEF ControlStage
<1> QED
  BY <1>1, <1>2, <1>3, <1>4, <1>5, <1>6, <1>7, <1>8, <1>9, <1>10 DEF Solve

\* Every handler of the section has been set by the present call before the
\* section is run for it (NoStaleEvaluation): no result depends on what an
\* earlier find_solution left in the units.
THEOREM NothingStale == Spec => []NoStaleEvaluation
<1>1. Init => NoStaleEvaluation
  BY DEF Init, NoStaleEvaluation
<1>2. NoStaleEvaluation /\ [Next]_vars => NoStaleEvaluation'
  <2> SUFFICES ASSUME NoStaleEvaluation, [Next]_vars
               PROVE  NoStaleEvaluation'
    OBVIOUS
  <2> USE DEF NoStaleEvaluation
  <2>1. CASE FindSolution
    <3>1. HandlersOf(section) \ ({Shaft} \cup Loops(section)) \subseteq given'
      BY <2>1 DEF FindSolution, HandlersOf, PressureControlReset, Set
    <3>2. step' = "maximum_speed" /\ section' = section
      BY <2>1 DEF FindSolution
    <3> QED
      BY <3>1, <3>2
  <2>2. CASE Solve
    <3>1. /\ given \subseteq given' /\ section' = section
          /\ step = "maximum_speed" => {Shaft} \cup Loops(section) \subseteq given'
          /\ step \notin {"idle", "returned", "raised"}
      BY <2>2, GivenGrows
    <3>2. HandlersOf(section) \subseteq given'
      BY <3>1
    <3> QED
      BY <3>1, <3>2
  <2>3. CASE UNCHANGED vars
    BY <2>3 DEF vars
  <2> QED
    BY <2>1, <2>2, <2>3 DEF Next
<1> QED
  BY <1>1, <1>2, PTL DEF Spec

(***************************************************************************)
(* Types.  TypeOK alone is not inductive: the anti-surge pass and pressure *)
(* control ask a compressor for its boundary, which only one that turns    *)
(* has, and a setting is a setting of the right loop only while the        *)
(* section has one for every stage.                                        *)
(***************************************************************************)
IInv ==
  /\ TypeOK
  /\ solution = [configuration |-> solution.configuration,
                 failure |-> solution.failure, error |-> solution.error]
  /\ Configures(solution.configuration, section)
  /\ step \notin {"idle", "maximum_speed"} => plant[Shaft] # 0
  /\ step = "stages" => section.control = "INDIVIDUAL_ASV_PRESSURE"

\* A step of the call that writes a configuration of the section.
LEMMA Written ==
  ASSUME IInv, NEW w, Configures(w, section), Write(w)
  PROVE  /\ plant' \in Plants /\ given' \subseteq Handlers
         /\ (plant[Shaft] # 0 \/ Shaft \in DOMAIN w) => plant'[Shaft] # 0
<1>1. section \in Sections /\ plant \in Plants /\ given \subseteq Handlers
  BY DEF IInv, TypeOK
<1>2. DOMAIN w \subseteq Handlers
  BY <1>1, HandlersOfSection DEF Configures
<1> QED
  BY <1>1, <1>2, ApplyPlant DEF Write, Turning

\* What a step that turns the shaft has to leave behind.
LEMMA Proceeds ==
  ASSUME IInv, NEW w, Configures(w, section), Write(w),
         plant[Shaft] # 0 \/ Shaft \in DOMAIN w,
         UNCHANGED call, step' \in Steps,
         top' \in MinSpeed .. MaxSpeed, low' \in MinSpeed .. MaxSpeed,
         finding' \in [speed : MinSpeed .. MaxSpeed, failure : {"none", "MAX_BELOW", "MIN_ABOVE"}],
         stage' \in 1 .. Stages,
         NEW c, NEW f \in Failures, NEW e \in Errors \cup {"none"}, Configures(c, section),
         solution' = [configuration |-> c, failure |-> f, error |-> e],
         step' = "stages" => section.control = "INDIVIDUAL_ASV_PRESSURE"
  PROVE  IInv'
<1>1. section' = section /\ inlet' = inlet /\ target' = target
  BY DEF call
<1>2. plant' \in Plants /\ given' \subseteq Handlers /\ plant'[Shaft] # 0
  BY Written
<1>3. Configures(solution'.configuration, section')
  BY <1>1
<1>4. TypeOK'
  BY <1>1, <1>2, <1>3 DEF IInv, TypeOK, Configures
<1> QED
  BY <1>1, <1>2, <1>3, <1>4 DEF IInv

LEMMA Keeps ==
  ASSUME IInv, NEW w, Configures(w, section), Write(w),
         plant[Shaft] # 0 \/ Shaft \in DOMAIN w,
         NEW next \in Steps \ {"stages"}, Goto(next),
         top' \in MinSpeed .. MaxSpeed, low' \in MinSpeed .. MaxSpeed,
         finding' \in [speed : MinSpeed .. MaxSpeed, failure : {"none", "MAX_BELOW", "MIN_ABOVE"}]
  PROVE  IInv'
<1>1. /\ stage \in 1 .. Stages /\ Configures(solution.configuration, section)
      /\ solution.failure \in Failures /\ solution.error \in Errors \cup {"none"}
      /\ solution = [configuration |-> solution.configuration,
                     failure |-> solution.failure, error |-> solution.error]
  BY DEF IInv, TypeOK
<1>2. UNCHANGED call /\ step' = next /\ stage' = stage /\ solution' = solution
  BY DEF Goto
<1> QED
  BY <1>1, <1>2, Proceeds

LEMMA Returns ==
  ASSUME IInv, NEW w, Configures(w, section), Write(w),
         plant[Shaft] # 0 \/ Shaft \in DOMAIN w,
         NEW c, Configures(c, section), NEW f \in Failures, Return(c, f)
  PROVE  IInv'
<1>1. /\ top \in MinSpeed .. MaxSpeed /\ low \in MinSpeed .. MaxSpeed /\ stage \in 1 .. Stages
      /\ finding \in [speed : MinSpeed .. MaxSpeed, failure : {"none", "MAX_BELOW", "MIN_ABOVE"}]
  BY DEF IInv, TypeOK
<1>2. /\ UNCHANGED call /\ step' = "returned" /\ top' = top /\ low' = low
      /\ finding' = finding /\ stage' = stage
      /\ solution' = [configuration |-> c, failure |-> f, error |-> "none"]
  BY DEF Return
<1>3. "returned" \in Steps /\ "returned" # "stages"
  BY DEF Steps
<1> QED
  BY <1>1, <1>2, <1>3, Proceeds

LEMMA Raises ==
  ASSUME IInv, NEW w, Configures(w, section), Write(w),
         plant[Shaft] # 0 \/ Shaft \in DOMAIN w,
         NEW e \in Errors, Raise(e)
  PROVE  IInv'
<1>1. /\ top \in MinSpeed .. MaxSpeed /\ low \in MinSpeed .. MaxSpeed /\ stage \in 1 .. Stages
      /\ finding \in [speed : MinSpeed .. MaxSpeed, failure : {"none", "MAX_BELOW", "MIN_ABOVE"}]
      /\ Configures(solution.configuration, section) /\ solution.failure \in Failures
      /\ solution = [configuration |-> solution.configuration,
                     failure |-> solution.failure, error |-> solution.error]
  BY DEF IInv, TypeOK
<1>2. /\ UNCHANGED call /\ step' = "raised" /\ top' = top /\ low' = low
      /\ finding' = finding /\ stage' = stage
      /\ solution' = [solution EXCEPT !.error = e]
  BY DEF Raise
<1>3. solution' = [configuration |-> solution.configuration,
                   failure |-> solution.failure, error |-> e]
  BY <1>1, <1>2
<1>4. "raised" \in Steps /\ "raised" # "stages"
  BY DEF Steps
<1> QED
  BY <1>1, <1>2, <1>3, <1>4, Proceeds

\* A probe at a speed, as the steps of the speed search find it.
LEMMA SearchProbe ==
  ASSUME IInv, NEW v \in MinSpeed .. MaxSpeed, NEW r \in Probes(v)
  PROVE  /\ Configures(r.written, section) /\ Shaft \in DOMAIN r.written /\ r.at = v
         /\ r.status \in Errors \cup {"ok"}
<1>1. section \in Sections /\ plant \in Plants /\ inlet \in Inlets
  BY DEF IInv, TypeOK
<1> QED
  BY <1>1, SpeedProbed, ProbeSets DEF Probes, Probed

\* The facts that every step of the speed search rests on.
LEMMA SearchFacts ==
  ASSUME IInv
  PROVE  /\ top \in MinSpeed .. MaxSpeed /\ low \in MinSpeed .. MaxSpeed
         /\ finding \in [speed : MinSpeed .. MaxSpeed, failure : {"none", "MAX_BELOW", "MIN_ABOVE"}]
         /\ MinSpeed \in MinSpeed .. MaxSpeed
         /\ MinSpeed .. top \subseteq MinSpeed .. MaxSpeed
         /\ low .. top \subseteq MinSpeed .. MaxSpeed
         /\ \A v \in MinSpeed .. MaxSpeed : Configures(Set(Shaft, v), section)
         /\ Capacity \cup {"Eos", "none", "MAX_BELOW", "MIN_ABOVE"} \subseteq Failures
         /\ {"narrow_boundary", "minimum_speed", "maximum_speed", "search_minimum",
             "root", "anti_surge", "control"} \subseteq Steps \ {"stages"}
         /\ section \in Sections /\ plant \in Plants /\ inlet \in Inlets
         /\ target \in Pressures
<1>1. /\ top \in MinSpeed .. MaxSpeed /\ low \in MinSpeed .. MaxSpeed
      /\ finding \in [speed : MinSpeed .. MaxSpeed, failure : {"none", "MAX_BELOW", "MIN_ABOVE"}]
      /\ section \in Sections /\ plant \in Plants /\ inlet \in Inlets /\ target \in Targets
  BY DEF IInv, TypeOK
<1>2. /\ MinSpeed \in MinSpeed .. MaxSpeed
      /\ MinSpeed .. top \subseteq MinSpeed .. MaxSpeed
      /\ low .. top \subseteq MinSpeed .. MaxSpeed
  BY <1>1, SectionAssumption
<1>3. \A v \in MinSpeed .. MaxSpeed : Configures(Set(Shaft, v), section)
  BY <1>1, SettingsConfigure
<1> QED
  BY <1>1, <1>2, <1>3, TargetsAssumption DEF Failures, Capacity, Steps

LEMMA MaximumSpeedStep == ASSUME IInv, ProbeMaximumSpeed PROVE IInv'
<1>1. PICK r \in Probes(top) :
        /\ Write(r.written)
        /\ \/ r.status \in Capacity /\ Return(Set(Shaft, top), r.status)
           \/ r.status = "Eos" /\ Goto("narrow_boundary") /\ UNCHANGED <<top, low, finding>>
           \/ r.status = "ok" /\ SpeedFound(top, "MAX_BELOW") /\ UNCHANGED <<top, low>>
           \/ Goto("minimum_speed") /\ UNCHANGED <<top, low, finding>>
           \/ r.status # "ok" /\ Raise(r.status)
  BY DEF ProbeMaximumSpeed
<1>2. /\ Configures(r.written, section) /\ Shaft \in DOMAIN r.written
      /\ r.status \in Errors \cup {"ok"}
  BY SearchFacts, SearchProbe
<1>3. CASE r.status \in Capacity /\ Return(Set(Shaft, top), r.status)
  BY <1>1, <1>2, <1>3, SearchFacts, Returns
<1>4. CASE Goto("narrow_boundary") /\ UNCHANGED <<top, low, finding>>
  BY <1>1, <1>2, <1>4, SearchFacts, Keeps
<1>5. CASE SpeedFound(top, "MAX_BELOW") /\ UNCHANGED <<top, low>>
  BY <1>1, <1>2, <1>5, SearchFacts, Keeps DEF SpeedFound
<1>6. CASE Goto("minimum_speed") /\ UNCHANGED <<top, low, finding>>
  BY <1>1, <1>2, <1>6, SearchFacts, Keeps
<1>7. CASE r.status # "ok" /\ Raise(r.status)
  BY <1>1, <1>2, <1>7, Raises
<1> QED
  BY <1>1, <1>3, <1>4, <1>5, <1>6, <1>7

LEMMA NarrowStep == ASSUME IInv, NarrowSpeedBoundary PROVE IInv'
<1>1. CASE \E far \in Probes(MinSpeed) :
             Write(far.written) /\ Return(Set(Shaft, top), "Eos")
  <2>1. PICK far \in Probes(MinSpeed) :
          Write(far.written) /\ Return(Set(Shaft, top), "Eos")
    BY <1>1
  <2>2. Configures(far.written, section) /\ Shaft \in DOMAIN far.written
    BY SearchFacts, SearchProbe
  <2> QED
    BY <2>1, <2>2, SearchFacts, Returns
<1>2. CASE \E speed \in MinSpeed .. (top - 1) :
           \E flip \in Probes(speed) \X Probes(speed + 1) :
             /\ Write(flip[1].written) \/ Write(flip[2].written)
             /\ top' = LastAccepted(flip)
             /\ Goto("maximum_speed") /\ UNCHANGED <<low, finding>>
  <2>0. PICK speed \in MinSpeed .. (top - 1) :
           \E flip \in Probes(speed) \X Probes(speed + 1) :
             /\ Write(flip[1].written) \/ Write(flip[2].written)
             /\ top' = LastAccepted(flip)
             /\ Goto("maximum_speed") /\ UNCHANGED <<low, finding>>
    BY <1>2
  <2>1. PICK flip \in Probes(speed) \X Probes(speed + 1) :
             /\ Write(flip[1].written) \/ Write(flip[2].written)
             /\ top' = LastAccepted(flip)
             /\ Goto("maximum_speed") /\ UNCHANGED <<low, finding>>
    BY <2>0
  <2>2. speed \in MinSpeed .. MaxSpeed /\ speed + 1 \in MinSpeed .. MaxSpeed
    BY SearchFacts, SectionAssumption
  <2>3. flip[1] \in Probes(speed) /\ flip[2] \in Probes(speed + 1)
    OBVIOUS
  <2>4. \A r \in {flip[1], flip[2]} :
          Configures(r.written, section) /\ Shaft \in DOMAIN r.written
    BY <2>2, <2>3, SearchProbe
  <2>5. top' \in MinSpeed .. MaxSpeed
    BY <2>1, <2>2, <2>3, SearchProbe DEF LastAccepted
  <2> QED
    BY <2>1, <2>4, <2>5, SearchFacts, Keeps
<1>3. CASE \E r \in UNION {Probes(speed) : speed \in MinSpeed .. top} :
             r.status # "ok" /\ Write(r.written) /\ Raise(r.status)
  <2>0. PICK speed \in MinSpeed .. top : \E r \in Probes(speed) :
           r.status # "ok" /\ Write(r.written) /\ Raise(r.status)
    BY <1>3
  <2>1. PICK r \in Probes(speed) :
           r.status # "ok" /\ Write(r.written) /\ Raise(r.status)
    BY <2>0
  <2>2. /\ Configures(r.written, section) /\ Shaft \in DOMAIN r.written
        /\ r.status \in Errors \cup {"ok"}
    BY SearchFacts, SearchProbe
  <2> QED
    BY <2>1, <2>2, Raises
<1> QED
  BY <1>1, <1>2, <1>3 DEF NarrowSpeedBoundary

LEMMA MinimumFoundStep ==
  ASSUME IInv, NEW v \in MinSpeed .. MaxSpeed, NEW r \in Probes(v), Write(r.written),
         MinimumSpeedFound(v, r.pressure)
  PROVE  IInv'
<1>1. Configures(r.written, section) /\ Shaft \in DOMAIN r.written
  BY SearchProbe
<1>2. low' \in MinSpeed .. MaxSpeed /\ top' \in MinSpeed .. MaxSpeed
  BY SearchFacts DEF MinimumSpeedFound
<1>3. CASE SpeedFound(v, "MIN_ABOVE")
  BY <1>1, <1>2, <1>3, SearchFacts, Keeps DEF SpeedFound
<1>4. CASE Goto("root") /\ UNCHANGED finding
  BY <1>1, <1>2, <1>4, SearchFacts, Keeps
<1> QED
  BY <1>3, <1>4 DEF MinimumSpeedFound

LEMMA MinimumSpeedStep == ASSUME IInv, ProbeMinimumSpeed PROVE IInv'
<1>1. PICK r \in Probes(MinSpeed) :
        /\ Write(r.written)
        /\ \/ MinimumSpeedFound(MinSpeed, r.pressure)
           \/ Goto("search_minimum") /\ UNCHANGED <<top, low, finding>>
           \/ r.status \in Capacity /\ Return(Set(Shaft, MinSpeed), r.status)
           \/ r.status # "ok" /\ Raise(r.status)
  BY DEF ProbeMinimumSpeed
<1>2. /\ Configures(r.written, section) /\ Shaft \in DOMAIN r.written
      /\ r.status \in Errors \cup {"ok"}
  BY SearchFacts, SearchProbe
<1>3. CASE MinimumSpeedFound(MinSpeed, r.pressure)
  BY <1>1, <1>3, SearchFacts, MinimumFoundStep
<1>4. CASE Goto("search_minimum") /\ UNCHANGED <<top, low, finding>>
  BY <1>1, <1>2, <1>4, SearchFacts, Keeps
<1>5. CASE r.status \in Capacity /\ Return(Set(Shaft, MinSpeed), r.status)
  BY <1>1, <1>2, <1>5, SearchFacts, Returns
<1>6. CASE r.status # "ok" /\ Raise(r.status)
  BY <1>1, <1>2, <1>6, Raises
<1> QED
  BY <1>1, <1>3, <1>4, <1>5, <1>6

LEMMA SearchMinimumStep == ASSUME IInv, SearchMinimumSpeed PROVE IInv'
<1>1. CASE \E speed \in (MinSpeed + 1) .. top : \E r \in Probes(speed) :
             Write(r.written) /\ MinimumSpeedFound(speed, r.pressure)
  <2>0. PICK speed \in (MinSpeed + 1) .. top : \E r \in Probes(speed) :
           Write(r.written) /\ MinimumSpeedFound(speed, r.pressure)
    BY <1>1
  <2>1. PICK r \in Probes(speed) :
           Write(r.written) /\ MinimumSpeedFound(speed, r.pressure)
    BY <2>0
  <2>2. speed \in MinSpeed .. MaxSpeed
    BY SearchFacts, SectionAssumption
  <2> QED
    BY <2>1, <2>2, MinimumFoundStep
<1>2. ASSUME NEW speed \in MinSpeed .. top, NEW r \in Probes(speed), Write(r.written),
             NEW e \in Errors, Raise(e)
      PROVE  IInv'
  <2>1. Configures(r.written, section) /\ Shaft \in DOMAIN r.written
    BY SearchFacts, SearchProbe
  <2> QED
    BY <1>2, <2>1, Raises
<1>3. CASE /\ \E r \in UNION {Probes(speed) : speed \in {MinSpeed, top}} : Write(r.written)
           /\ Raise("DidNotConverge")
  <2>0. PICK speed \in {MinSpeed, top} : \E r \in Probes(speed) :
           Write(r.written)
    BY <1>3
  <2>1. PICK r \in Probes(speed) :
           Write(r.written)
    BY <2>0
  <2>2. speed \in MinSpeed .. top
    BY SearchFacts, SectionAssumption
  <2>3. "DidNotConverge" \in Errors
    BY DEF Errors
  <2> QED
    BY <1>2, <1>3, <2>1, <2>2, <2>3
<1>4. CASE \E r \in UNION {Probes(speed) : speed \in (MinSpeed + 1) .. (top - 1)} :
             r.status # "ok" /\ Write(r.written) /\ Raise(r.status)
  <2>0. PICK speed \in (MinSpeed + 1) .. (top - 1) : \E r \in Probes(speed) :
           r.status # "ok" /\ Write(r.written) /\ Raise(r.status)
    BY <1>4
  <2>1. PICK r \in Probes(speed) :
           r.status # "ok" /\ Write(r.written) /\ Raise(r.status)
    BY <2>0
  <2>2. speed \in MinSpeed .. top /\ speed \in MinSpeed .. MaxSpeed
    BY SearchFacts, SectionAssumption
  <2>3. r.status \in Errors
    BY <2>1, <2>2, SearchProbe
  <2> QED
    BY <1>2, <2>1, <2>2, <2>3
<1> QED
  BY <1>1, <1>3, <1>4 DEF SearchMinimumSpeed

LEMMA SpeedRootStep == ASSUME IInv, FindSpeedRoot PROVE IInv'
<1> DEFINE probes == UNION {Probes(speed) : speed \in low .. top}
<1>1. \A r \in probes : /\ Configures(r.written, section) /\ Shaft \in DOMAIN r.written
                        /\ r.status \in Errors \cup {"ok"} /\ r.at \in MinSpeed .. MaxSpeed
  BY SearchFacts, SearchProbe
<1>2. CASE \E rn \in RootPairs(probes, target) :
             /\ Write(rn[1].written) \/ Write(rn[2].written)
             /\ SpeedFound(rn[1].at, "none") /\ UNCHANGED <<top, low>>
  <2>1. PICK rn \in RootPairs(probes, target) :
             /\ Write(rn[1].written) \/ Write(rn[2].written)
             /\ SpeedFound(rn[1].at, "none") /\ UNCHANGED <<top, low>>
    BY <1>2
  <2>2. rn[1] \in probes /\ rn[2] \in probes
    BY DEF RootPairs
  <2> HIDE DEF probes
  <2> QED
    BY <1>1, <2>1, <2>2, SearchFacts, Keeps DEF SpeedFound
<1>3. CASE \E r \in probes : r.status # "ok" /\ Write(r.written) /\ Raise(r.status)
  <2> HIDE DEF probes
  <2> QED
    BY <1>1, <1>3, Raises
<1> QED
  BY <1>2, <1>3 DEF FindSpeedRoot

LEMMA AntiSurgeStep == ASSUME IInv, ApplyAntiSurge PROVE IInv'
<1> DEFINE shaft_config == Set(Shaft, finding.speed)
           configuration(e) == merge_configurations(shaft_config, e.configuration)
           written(e) == merge_configurations(shaft_config, e.written)
<1>1. Configures(shaft_config, section) /\ DOMAIN shaft_config = {Shaft}
  BY SearchFacts DEF Set
<1>2. Turning(Apply(plant, shaft_config))
  BY <1>1, SearchFacts, ApplyPlant
<1>3. PICK e \in AntiSurge(section, Apply(plant, shaft_config), inlet) :
       /\ Write(written(e))
       /\ \/ e.error # "none" /\ Raise(e.error)
          \/ e.failure # "none" /\ Return(configuration(e), e.failure)
          \/ Return(configuration(e), "MAX_BELOW")
          \/ /\ step' = "evaluate"
             /\ solution' = [solution EXCEPT !.configuration = configuration(e)]
             /\ UNCHANGED <<call, top, low, finding, stage>>
  BY DEF ApplyAntiSurge
<1>4. Ends(e, section)
  BY <1>2, SearchFacts, AntiSurgeEnds
<1>5. /\ Configures(configuration(e), section) /\ Configures(written(e), section)
      /\ Shaft \in DOMAIN written(e)
      /\ e.failure \in Failures /\ e.error \in Errors \cup {"none"}
  <2>1. Configures(configuration(e), section) /\ Configures(written(e), section)
    BY <1>1, <1>4, MergeConfigures DEF Ends
  <2>2. Shaft \in DOMAIN written(e)
    BY <1>1 DEF merge_configurations
  <2> QED
    BY <1>4, <2>1, <2>2 DEF Ends
<1> HIDE DEF configuration, written, shaft_config
<1>6. CASE e.error # "none" /\ Raise(e.error)
  BY <1>3, <1>5, <1>6, Raises
<1>7. CASE e.failure # "none" /\ Return(configuration(e), e.failure)
  BY <1>3, <1>5, <1>7, Returns
<1>8. CASE Return(configuration(e), "MAX_BELOW")
  BY <1>3, <1>5, <1>8, SearchFacts, Returns
<1>9. CASE /\ step' = "evaluate"
           /\ solution' = [solution EXCEPT !.configuration = configuration(e)]
           /\ UNCHANGED <<call, top, low, finding, stage>>
  <2>1. /\ stage \in 1 .. Stages /\ solution.failure \in Failures
        /\ solution.error \in Errors \cup {"none"}
        /\ solution = [configuration |-> solution.configuration,
                       failure |-> solution.failure, error |-> solution.error]
    BY DEF IInv, TypeOK
  <2>2. solution' = [configuration |-> configuration(e),
                     failure |-> solution.failure, error |-> solution.error]
    BY <1>9, <2>1
  <2>3. "evaluate" \in Steps /\ "evaluate" # "stages"
    BY DEF Steps
  <2> QED
    BY <1>3, <1>5, <1>9, <2>1, <2>2, <2>3, SearchFacts, Proceeds
<1> QED
  BY <1>3, <1>6, <1>7, <1>8, <1>9

LEMMA EvaluateStep == ASSUME IInv, EvaluateChosenSpeed PROVE IInv'
<1> DEFINE outlet == Run(section, Apply(plant, solution.configuration), inlet)
<1>1. Configures(solution.configuration, section) /\ Write(solution.configuration)
  BY DEF IInv, EvaluateChosenSpeed
<1>2. plant[Shaft] # 0
  BY DEF IInv, EvaluateChosenSpeed
<1>3. CASE outlet.status # "ok" /\ Raise(outlet.status)
  <2>1. outlet.status \in RunStatuses
    BY <1>1, SearchFacts, ApplyPlant, RunAnswers
  <2>2. outlet.status \in Errors
    BY <1>3, <2>1 DEF Errors
  <2> QED
    BY <1>1, <1>2, <1>3, <2>2, Raises
<1>4. CASE Return(solution.configuration, "none")
  BY <1>1, <1>2, <1>4, SearchFacts, Returns
<1>5. CASE Goto("control") /\ UNCHANGED <<top, low, finding>>
  BY <1>1, <1>2, <1>5, SearchFacts, Keeps
<1> QED
  BY <1>3, <1>4, <1>5 DEF EvaluateChosenSpeed

\* A pressure-control strategy that ends well concludes the call well.
LEMMA ConcludeStep ==
  ASSUME IInv, plant[Shaft] # 0, NEW endings, \A e \in endings : Ends(e, section),
         Conclude(endings)
  PROVE  IInv'
<1>1. PICK e \in endings :
        /\ Write(e.written)
        /\ IF e.error # "none" THEN Raise(e.error) ELSE Return(Combined(e), e.failure)
  BY DEF Conclude
<1>2. /\ Configures(e.written, section) /\ Configures(Combined(e), section)
      /\ e.failure \in Failures /\ e.error \in Errors \cup {"none"}
  BY MergeConfigures DEF Ends, IInv, Combined
<1>3. CASE e.error # "none"
  BY <1>1, <1>2, <1>3, Raises
<1>4. CASE e.error = "none"
  BY <1>1, <1>2, <1>4, Returns
<1> QED
  BY <1>3, <1>4

LEMMA ControlStep ==
  ASSUME IInv,
         \/ ControlDownstreamChoke \/ ControlUpstreamChoke \/ ControlCommonAsv
         \/ ControlIndividualRate
  PROVE  IInv'
<1>1. step = "control"
  BY DEF ControlDownstreamChoke, ControlUpstreamChoke, ControlCommonAsv,
         ControlIndividualRate, ControlBy
<1>2. Turning(plant) /\ plant[Shaft] # 0
  BY <1>1, SearchFacts DEF IInv, Turning
<1>3. CASE ControlDownstreamChoke
  <2>1. HasChoke(section) /\ Conclude(DownstreamControl(section, plant, inlet, target))
    BY <1>3 DEF ControlDownstreamChoke, ControlBy, HasChoke
  <2> QED
    BY <1>2, <2>1, SearchFacts, DownstreamEnds, ConcludeStep
<1>4. CASE ControlUpstreamChoke
  <2>1. HasChoke(section) /\ Conclude(UpstreamControl(section, plant, inlet, target))
    BY <1>4 DEF ControlUpstreamChoke, ControlBy, HasChoke
  <2> QED
    BY <1>2, <2>1, SearchFacts, UpstreamEnds, ConcludeStep
<1>5. CASE ControlCommonAsv
  <2>1. Conclude(CommonAsvControl(section, plant, inlet, target))
    BY <1>5 DEF ControlCommonAsv, ControlBy
  <2> QED
    BY <1>2, <2>1, SearchFacts, CommonAsvEnds, ConcludeStep
<1>6. CASE ControlIndividualRate
  <2>1. /\ section.control # "COMMON_ASV"
        /\ Conclude(IndividualRateControl(section, plant, inlet, target))
    BY <1>6 DEF ControlIndividualRate, ControlBy
  <2>2. \A e \in FractionSearch(section, plant, inlet, target) : Ends(e, section)
    BY <2>1, SearchFacts, FractionSearchEnds
  <2>3. \A e \in IndividualRateControl(section, plant, inlet, target) : Ends(e, section)
    BY <2>1, <2>2, SearchFacts, IndividualEnds DEF IndividualRateControl
  <2> QED
    BY <1>2, <2>1, <2>3, ConcludeStep
<1> QED
  BY <1>3, <1>4, <1>5, <1>6

LEMMA IndividualPressureStep == ASSUME IInv, ControlIndividualPressure PROVE IInv'
<1> DEFINE proceed == Ending(ResetLoops(section), Nothing, "none", "none")
           endings == Individual(section, plant, inlet, target, {proceed})
<1>1. section.control = "INDIVIDUAL_ASV_PRESSURE" /\ plant[Shaft] # 0
  BY DEF ControlIndividualPressure, IInv
<1>2. Ends(proceed, section) /\ proceed.written = ResetLoops(section)
  BY SearchFacts, SettingsConfigure DEF Ends, Ending, Failures
<1>3. \A e \in endings : Ends(e, section)
  BY <1>1, <1>2, SearchFacts, IndividualEnds
<1>4. CASE Conclude(endings \ {proceed})
  <2>1. \A e \in endings \ {proceed} : Ends(e, section)
    BY <1>3
  <2> QED
    BY <1>1, <1>4, <2>1, ConcludeStep
<1>5. CASE Write(proceed.written) /\ Goto("stages") /\ UNCHANGED <<top, low, finding>>
  <2>1. Write(ResetLoops(section)) /\ Configures(ResetLoops(section), section)
    BY <1>2, <1>5, SearchFacts, SettingsConfigure
  <2>2. /\ UNCHANGED call /\ step' = "stages" /\ stage' = stage /\ solution' = solution
        /\ UNCHANGED <<top, low, finding>>
    BY <1>5 DEF Goto
  <2>3. /\ stage \in 1 .. Stages /\ Configures(solution.configuration, section)
        /\ solution.failure \in Failures /\ solution.error \in Errors \cup {"none"}
        /\ solution = [configuration |-> solution.configuration,
                       failure |-> solution.failure, error |-> solution.error]
    BY DEF IInv, TypeOK
  <2>4. "stages" \in Steps
    BY DEF Steps
  <2> QED
    BY <1>1, <2>1, <2>2, <2>3, <2>4, SearchFacts, Proceeds
<1> QED
  BY <1>4, <1>5 DEF ControlIndividualPressure

LEMMA StageStep == ASSUME IInv, ControlStage PROVE IInv'
<1>1. /\ section.control = "INDIVIDUAL_ASV_PRESSURE" /\ plant[Shaft] # 0
      /\ stage \in 1 .. Stages
  BY DEF ControlStage, IInv, TypeOK
<1>2. PICK f \in StageFindings(section, plant, inlet, target, stage) :
       LET found == merge_configurations(solution.configuration, Set(stage, f.rate))
       IN
       /\ Write(Set(stage, f.last))
       /\ \/ f.error # "none" /\ Raise(f.error)
          \/ f.failure # "none" /\ Return(solution.configuration, f.failure)
          \/ Return(found, "none")
          \/ /\ stage < Stages /\ stage' = stage + 1
             /\ solution' = [solution EXCEPT !.configuration = found]
             /\ UNCHANGED <<call, step, top, low, finding>>
  BY DEF ControlStage
<1> DEFINE found == merge_configurations(solution.configuration, Set(stage, f.rate))
<1>3. /\ f.rate \in Rates /\ f.last \in Rates
      /\ f.failure \in Failures /\ f.error \in Errors \cup {"none"}
  BY <1>1, SearchFacts, StageFinds DEF Turning
<1>4. stage \in Loops(section)
  BY <1>1 DEF Loops
<1>5. /\ Configures(Set(stage, f.last), section)
      /\ Configures(solution.configuration, section)
      /\ Configures(found, section)
  <2>1. Configures(Set(stage, f.last), section) /\ Configures(Set(stage, f.rate), section)
    BY <1>3, <1>4, SearchFacts, SettingsConfigure
  <2>2. Configures(solution.configuration, section)
    BY DEF IInv
  <2> QED
    BY <2>1, <2>2, MergeConfigures
<1>6. Write(Set(stage, f.last))
  BY <1>2
<1> HIDE DEF found
<1>7. CASE f.error # "none" /\ Raise(f.error)
  BY <1>1, <1>3, <1>5, <1>6, <1>7, Raises
<1>8. CASE f.failure # "none" /\ Return(solution.configuration, f.failure)
  BY <1>1, <1>3, <1>5, <1>6, <1>8, Returns
<1>9. CASE Return(found, "none")
  BY <1>1, <1>5, <1>6, <1>9, SearchFacts, Returns
<1>10. CASE /\ stage < Stages /\ stage' = stage + 1
            /\ solution' = [solution EXCEPT !.configuration = found]
            /\ UNCHANGED <<call, step, top, low, finding>>
  <2>1. /\ step \in Steps /\ solution.failure \in Failures
        /\ solution.error \in Errors \cup {"none"}
        /\ solution = [configuration |-> solution.configuration,
                       failure |-> solution.failure, error |-> solution.error]
    BY DEF IInv, TypeOK
  <2>2. solution' = [configuration |-> found,
                     failure |-> solution.failure, error |-> solution.error]
    BY <1>10, <2>1
  <2>3. stage' \in 1 .. Stages
    BY <1>1, <1>10, SectionAssumption
  <2> QED
    BY <1>1, <1>5, <1>6, <1>10, <2>1, <2>2, <2>3, SearchFacts, Proceeds
<1> QED
  BY <1>2, <1>7, <1>8, <1>9, <1>10 DEF found

LEMMA FindSolutionStep == ASSUME IInv, FindSolution PROVE IInv'
<1>1. section \in Sections /\ plant \in Plants /\ section' = section
  BY SearchFacts DEF FindSolution
<1>2. Configures(PressureControlReset(section), section)
  <2>1. 0 \in Pressures
    BY SectionAssumption DEF Pressures
  <2> QED
    BY <1>1, <2>1, SettingsConfigure DEF PressureControlReset
<1>3. plant' \in Plants
  BY <1>1, <1>2, ApplyPlant DEF FindSolution
<1>4. given' \subseteq Handlers
  BY <1>1, <1>2, HandlersOfSection DEF FindSolution, Configures
<1>5. Configures(solution'.configuration, section')
  BY <1>1, SettingsConfigure DEF FindSolution, NoSolution
<1>6. TypeOK'
  <2>1. MaxSpeed \in MinSpeed .. MaxSpeed /\ MinSpeed \in MinSpeed .. MaxSpeed /\ 1 \in 1 .. Stages
    BY SectionAssumption
  <2>2. solution'.failure \in Failures /\ solution'.error \in Errors \cup {"none"}
    BY DEF FindSolution, NoSolution, Failures
  <2> QED
    BY <1>1, <1>3, <1>4, <1>5, <2>1, <2>2 DEF FindSolution, TypeOK, Steps, Configures
<1> QED
  BY <1>1, <1>3, <1>5, <1>6 DEF IInv, FindSolution, NoSolution

\* The inductive invariant holds in every reachable state.
THEOREM Inductive == Spec => []IInv
<1>1. Init => IInv
  <2> SUFFICES ASSUME Init PROVE IInv
    OBVIOUS
  <2>1. FreshPlant \in Plants
    BY SectionAssumption
       DEF FreshPlant, Plants, Settings, Setting, Speeds, Rates, Pressures
  <2>2. Configures(Nothing, section)
    BY SettingsConfigure DEF Init
  <2>3. TypeOK
    BY <2>1, <2>2, SectionAssumption
       DEF Init, TypeOK, NoSolution, Failures, Steps, Configures
  <2> QED
    BY <2>2, <2>3 DEF Init, IInv, NoSolution
<1>2. IInv /\ [Next]_vars => IInv'
  <2> SUFFICES ASSUME IInv, [Next]_vars PROVE IInv'
    OBVIOUS
  <2>1. CASE FindSolution
    BY <2>1, FindSolutionStep
  <2>2. CASE ProbeMaximumSpeed \/ NarrowSpeedBoundary \/ ProbeMinimumSpeed
    BY <2>2, MaximumSpeedStep, NarrowStep, MinimumSpeedStep
  <2>3. CASE SearchMinimumSpeed \/ FindSpeedRoot
    BY <2>3, SearchMinimumStep, SpeedRootStep
  <2>4. CASE ApplyAntiSurge \/ EvaluateChosenSpeed
    BY <2>4, AntiSurgeStep, EvaluateStep
  <2>5. CASE \/ ControlDownstreamChoke \/ ControlUpstreamChoke \/ ControlCommonAsv
             \/ ControlIndividualRate
    BY <2>5, ControlStep
  <2>6. CASE ControlIndividualPressure \/ ControlStage
    BY <2>6, IndividualPressureStep, StageStep
  <2>7. CASE UNCHANGED vars
    BY <2>7 DEF vars, IInv, TypeOK
  <2> QED
    BY <2>1, <2>2, <2>3, <2>4, <2>5, <2>6, <2>7 DEF Next, Solve
<1> QED
  BY <1>1, <1>2, PTL DEF Spec

\* Every setting is one its handler takes, and a solution configures handlers of
\* its own section (TypeOK), in every reachable state.
THEOREM TypeCorrect == Spec => []TypeOK
<1>1. IInv => TypeOK
  BY DEF IInv
<1> QED
  BY <1>1, Inductive, PTL

(***************************************************************************)
(* A configuration is whole once the anti-surge pass has found its part,   *)
(* and pressure control only adds to it.                                   *)
(***************************************************************************)
Whole(c, s) == {Shaft} \cup Loops(s) \subseteq DOMAIN c

\* The anti-surge strategies find a rate for every loop, unless they raise.
LEMMA AntiSurgeWhole ==
  ASSUME NEW s \in Sections, NEW p, Turning(p), NEW q \in Inlets
  PROVE  \A e \in AntiSurge(s, p, q) :
           e.error = "none" => Loops(s) \subseteq DOMAIN e.configuration
<1> DEFINE reset == Apply(p, ResetLoops(s))
<1>1. reset \in Plants
  BY SettingsConfigure, ApplyPlant DEF Turning
<1>2. CASE s.control = "COMMON_ASV"
  <2>1. Loops(s) = {1} /\ \A x : DOMAIN Set(1, x) = {1}
    BY <1>2 DEF Loops, Set
  <2>2. RunTo(s, reset, q, 1).status \in RunStatuses
    BY <1>1, UnitsAnswer, SectionAssumption
  <2>3. \A e \in CommonAntiSurge(s, p, q) :
           e.error = "none" => \E x : e.configuration = Set(1, x)
    BY <2>2 DEF CommonAntiSurge, Aborted, Ending, RunStatuses
  <2> QED
    BY <1>2, <2>1, <2>3 DEF AntiSurge
<1>3. CASE s.control # "COMMON_ASV"
  <2>1. Loops(s) = 1 .. Stages
    BY <1>3 DEF Loops
  <2>2. ASSUME NEW rates \in [1 .. Stages -> Rates]
        PROVE  /\ DOMAIN Ending(rates, rates, "none", "none").configuration = Loops(s)
               /\ \A i \in 1 .. Stages :
                    LET aborted == Aborted(rates, Reaching(s, reset, q, rates, i).status)
                    IN  aborted.error # "none"
    <3>1. \A i \in 1 .. Stages : Reaching(s, reset, q, rates, i).status \in RunStatuses
      BY <1>1, <1>3, StagewiseEnd
    <3> QED
      BY <2>1, <3>1 DEF Aborted, Ending, RunStatuses
  <2> QED
    BY <1>3, <2>2 DEF AntiSurge, StagewiseEndings, SetBefore
<1> QED
  BY <1>2, <1>3

LEMMA WholeSteps ==
  ASSUME IInv, Solve, SolutionSetsEveryLoop,
         step \in {"evaluate", "control", "stages"} => Whole(solution.configuration, section)
  PROVE  /\ SolutionSetsEveryLoop'
         /\ step' \in {"evaluate", "control", "stages"} =>
              Whole(solution'.configuration, section')
<1> USE DEF Return, Raise, Goto, call, Returned
<1>1. \A c, d : DOMAIN c \subseteq DOMAIN merge_configurations(c, d)
  BY DEF merge_configurations
<1>2. CASE ProbeMaximumSpeed
  BY <1>2 DEF ProbeMaximumSpeed, SpeedFound, SolutionSetsEveryLoop, Capacity
<1>3. CASE NarrowSpeedBoundary
  BY <1>3 DEF NarrowSpeedBoundary, SolutionSetsEveryLoop
<1>4. CASE ProbeMinimumSpeed
  BY <1>4 DEF ProbeMinimumSpeed, MinimumSpeedFound, SpeedFound, SolutionSetsEveryLoop, Capacity
<1>5. CASE SearchMinimumSpeed
  BY <1>5 DEF SearchMinimumSpeed, MinimumSpeedFound, SpeedFound, SolutionSetsEveryLoop
<1>6. CASE FindSpeedRoot
  BY <1>6 DEF FindSpeedRoot, SpeedFound, SolutionSetsEveryLoop
<1>7. CASE ApplyAntiSurge
  <2> DEFINE shaft_config == Set(Shaft, finding.speed)
             configuration(e) == merge_configurations(shaft_config, e.configuration)
  <2>1. Configures(shaft_config, section) /\ DOMAIN shaft_config = {Shaft}
    BY SearchFacts DEF Set
  <2>2. Turning(Apply(plant, shaft_config))
    BY <2>1, SearchFacts, ApplyPlant
  <2>3. PICK e \in AntiSurge(section, Apply(plant, shaft_config), inlet) :
         /\ section' = section
         /\ \/ step' = "raised"
            \/ /\ e.error = "none" /\ step' \in {"returned", "evaluate"}
               /\ solution'.configuration = configuration(e)
    <3>1. solution = [configuration |-> solution.configuration,
                      failure |-> solution.failure, error |-> solution.error]
      BY DEF IInv
    <3> QED
      BY <1>7, <3>1 DEF ApplyAntiSurge
  <2>4. e.error = "none" => Loops(section) \subseteq DOMAIN e.configuration
    BY <2>2, SearchFacts, AntiSurgeWhole
  <2>5. e.error = "none" => Whole(configuration(e), section)
    BY <2>1, <2>4 DEF Whole, merge_configurations
  <2> HIDE DEF configuration
  <2> QED
    BY <2>3, <2>5 DEF Whole, SolutionSetsEveryLoop
<1>8. CASE EvaluateChosenSpeed
  BY <1>8 DEF EvaluateChosenSpeed, SolutionSetsEveryLoop, Whole
<1>9. CASE \/ ControlDownstreamChoke \/ ControlUpstreamChoke \/ ControlCommonAsv
           \/ ControlIndividualRate
  BY <1>1, <1>9 DEF ControlDownstreamChoke, ControlUpstreamChoke, ControlCommonAsv,
     ControlIndividualRate, ControlBy, Conclude, Combined, SolutionSetsEveryLoop, Whole
<1>10. CASE ControlIndividualPressure
  BY <1>1, <1>10 DEF ControlIndividualPressure, Conclude, Combined, SolutionSetsEveryLoop, Whole
<1>11. CASE ControlStage
  <2>1. solution = [configuration |-> solution.configuration,
                    failure |-> solution.failure, error |-> solution.error]
    BY DEF IInv
  <2> QED
    BY <1>1, <1>11, <2>1 DEF ControlStage, SolutionSetsEveryLoop, Whole
<1> QED
  BY <1>2, <1>3, <1>4, <1>5, <1>6, <1>7, <1>8, <1>9, <1>10, <1>11 DEF Solve

\* A configuration returned with an outlet pressure sets the shaft and every loop
\* (SolutionSetsEveryLoop), also when pressure control fails at one stage.
THEOREM SolutionsAreWhole == Spec => []SolutionSetsEveryLoop
<1> DEFINE Building == step \in {"evaluate", "control", "stages"} =>
                         Whole(solution.configuration, section)
<1>1. Init => SolutionSetsEveryLoop /\ Building
  BY DEF Init, SolutionSetsEveryLoop, Returned
<1>2. IInv /\ SolutionSetsEveryLoop /\ Building /\ [Next]_vars =>
        (SolutionSetsEveryLoop /\ Building)'
  <2> SUFFICES ASSUME IInv, SolutionSetsEveryLoop, Building, [Next]_vars
               PROVE  (SolutionSetsEveryLoop /\ Building)'
    OBVIOUS
  <2>1. CASE FindSolution
    BY <2>1 DEF FindSolution, SolutionSetsEveryLoop, Returned
  <2>2. CASE Solve
    BY <2>2, WholeSteps
  <2>3. CASE UNCHANGED vars
    BY <2>3 DEF vars, SolutionSetsEveryLoop, Returned
  <2> QED
    BY <2>1, <2>2, <2>3 DEF Next
<1> QED
  BY <1>1, <1>2, Inductive, PTL DEF Spec

(***************************************************************************)
(* A call is bounded.  Rank counts the steps a call can still take: only   *)
(* an EOS failure goes back to an earlier step, and it leaves a boundary   *)
(* that is narrower by a speed at least.                                   *)
(***************************************************************************)
Rank ==
  CASE step = "maximum_speed"   -> Stages + 8 + 2 * (top - MinSpeed)
    [] step = "narrow_boundary" -> Stages + 7 + 2 * (top - MinSpeed)
    [] step = "minimum_speed"   -> Stages + 6
    [] step = "search_minimum"  -> Stages + 5
    [] step = "root"            -> Stages + 4
    [] step = "anti_surge"      -> Stages + 3
    [] step = "evaluate"        -> Stages + 2
    [] step = "control"         -> Stages + 1
    [] step = "stages"          -> Stages + 1 - stage
    [] OTHER                    -> 0

Longest == Stages + 8 + 2 * (MaxSpeed - MinSpeed)

LEMMA RankBounds ==
  ASSUME IInv
  PROVE  Rank \in 0 .. Longest
<1>1. /\ top \in MinSpeed .. MaxSpeed /\ stage \in 1 .. Stages /\ Stages \in Nat \ {0}
      /\ MinSpeed \in Nat /\ MaxSpeed \in Nat /\ MinSpeed <= MaxSpeed /\ step \in Steps
  BY SectionAssumption DEF IInv, TypeOK
<1>2. \E n \in Nat : top - MinSpeed = n /\ n <= MaxSpeed - MinSpeed
  BY <1>1
<1>3. PICK n \in Nat : top - MinSpeed = n /\ n <= MaxSpeed - MinSpeed
  BY <1>2
<1>4. /\ Rank \in Nat
      /\ Rank <= Stages + 8 + 2 * n
  BY <1>1, <1>3 DEF Rank, Steps
<1>5. Longest \in Nat /\ Stages + 8 + 2 * n <= Longest
  BY <1>1, <1>3 DEF Longest
<1> QED
  BY <1>1, <1>3, <1>4, <1>5

\* Every step of the speed search but the narrowing goes forward.
LEMMA SearchDescends ==
  ASSUME IInv, \/ ProbeMaximumSpeed \/ ProbeMinimumSpeed \/ SearchMinimumSpeed
               \/ FindSpeedRoot
  PROVE  Rank' < Rank
<1>1. top \in MinSpeed .. MaxSpeed /\ Stages \in Nat \ {0} /\ MinSpeed \in Nat /\ MaxSpeed \in Nat
  BY SectionAssumption DEF IInv, TypeOK
<1>2. CASE ProbeMaximumSpeed
  <2>1. /\ step = "maximum_speed"
        /\ \/ step' \in {"returned", "raised", "anti_surge", "minimum_speed"}
           \/ step' = "narrow_boundary" /\ top' = top
    BY <1>2 DEF ProbeMaximumSpeed, SpeedFound, Goto, Return, Raise
  <2> QED
    BY <1>1, <2>1 DEF Rank
<1>3. CASE ProbeMinimumSpeed
  <2>1. /\ step = "minimum_speed"
        /\ step' \in {"returned", "raised", "anti_surge", "root", "search_minimum"}
    BY <1>3 DEF ProbeMinimumSpeed, MinimumSpeedFound, SpeedFound, Goto, Return, Raise
  <2> QED
    BY <1>1, <2>1 DEF Rank
<1>4. CASE SearchMinimumSpeed
  <2>1. step = "search_minimum" /\ step' \in {"raised", "anti_surge", "root"}
    BY <1>4 DEF SearchMinimumSpeed, MinimumSpeedFound, SpeedFound, Goto, Raise
  <2> QED
    BY <1>1, <2>1 DEF Rank
<1>5. CASE FindSpeedRoot
  <2>1. step = "root" /\ step' \in {"raised", "anti_surge"}
    BY <1>5 DEF FindSpeedRoot, SpeedFound, Goto, Raise
  <2> QED
    BY <1>1, <2>1 DEF Rank
<1> QED
  BY <1>2, <1>3, <1>4, <1>5

\* The narrowing goes back to the first probe, with a lower maximum speed.
LEMMA NarrowDescends ==
  ASSUME IInv, NarrowSpeedBoundary
  PROVE  Rank' < Rank
<1>1. top \in MinSpeed .. MaxSpeed /\ Stages \in Nat \ {0} /\ MinSpeed \in Nat /\ MaxSpeed \in Nat
  BY SectionAssumption DEF IInv, TypeOK
<1>2. step = "narrow_boundary"
  BY DEF NarrowSpeedBoundary
<1>3. CASE step' \in {"returned", "raised"}
  BY <1>1, <1>2, <1>3 DEF Rank
<1>4. CASE \E speed \in MinSpeed .. (top - 1) :
           \E flip \in Probes(speed) \X Probes(speed + 1) :
             top' = LastAccepted(flip) /\ Goto("maximum_speed")
  <2>0. PICK speed \in MinSpeed .. (top - 1) :
           \E flip \in Probes(speed) \X Probes(speed + 1) :
             top' = LastAccepted(flip) /\ Goto("maximum_speed")
    BY <1>4
  <2>1. PICK flip \in Probes(speed) \X Probes(speed + 1) :
             top' = LastAccepted(flip) /\ Goto("maximum_speed")
    BY <2>0
  <2>2. speed \in MinSpeed .. MaxSpeed /\ flip[1] \in Probes(speed)
    BY <1>1
  <2>3. top' = speed /\ step' = "maximum_speed"
    BY <2>1, <2>2, SearchProbe DEF LastAccepted, Goto
  <2>4. speed \in Nat /\ MinSpeed <= speed /\ speed <= top - 1
    BY <1>1
  <2> QED
    BY <1>1, <1>2, <2>3, <2>4 DEF Rank
<1> QED
  BY <1>3, <1>4 DEF NarrowSpeedBoundary, Return, Raise

\* After the speed search a call only goes forward, stage by stage at the end.
LEMMA ControlDescends ==
  ASSUME IInv, \/ ApplyAntiSurge \/ EvaluateChosenSpeed
               \/ ControlDownstreamChoke \/ ControlUpstreamChoke \/ ControlCommonAsv
               \/ ControlIndividualRate \/ ControlIndividualPressure \/ ControlStage
  PROVE  Rank' < Rank
<1>1. stage \in 1 .. Stages /\ Stages \in Nat \ {0}
  BY SectionAssumption DEF IInv, TypeOK
<1>2. CASE ApplyAntiSurge
  <2>1. step = "anti_surge" /\ step' \in {"returned", "raised", "evaluate"}
    BY <1>2 DEF ApplyAntiSurge, Return, Raise
  <2> QED
    BY <1>1, <2>1 DEF Rank
<1>3. CASE EvaluateChosenSpeed
  <2>1. step = "evaluate" /\ step' \in {"returned", "raised", "control"}
    BY <1>3 DEF EvaluateChosenSpeed, Return, Raise, Goto
  <2> QED
    BY <1>1, <2>1 DEF Rank
<1>4. CASE \/ ControlDownstreamChoke \/ ControlUpstreamChoke \/ ControlCommonAsv
           \/ ControlIndividualRate
  <2>1. step = "control" /\ step' \in {"returned", "raised"}
    BY <1>4 DEF ControlDownstreamChoke, ControlUpstreamChoke, ControlCommonAsv,
       ControlIndividualRate, ControlBy, Conclude, Return, Raise
  <2> QED
    BY <1>1, <2>1 DEF Rank
<1>5. CASE ControlIndividualPressure
  <2>1. /\ step = "control" /\ step' \in {"returned", "raised", "stages"}
        /\ step' = "stages" => stage' = stage
    BY <1>5 DEF ControlIndividualPressure, Conclude, Return, Raise, Goto
  <2> QED
    BY <1>1, <2>1 DEF Rank
<1>6. CASE ControlStage
  <2>1. /\ step = "stages"
        /\ \/ step' \in {"returned", "raised"}
           \/ step' = "stages" /\ stage' = stage + 1
    BY <1>6 DEF ControlStage, Return, Raise
  <2> QED
    BY <1>1, <2>1 DEF Rank
<1> QED
  BY <1>2, <1>3, <1>4, <1>5, <1>6

\* find_solution takes a bounded number of steps whatever the charts and the
\* fluid: every step of a call lowers Rank, so EOS failures cannot restart the
\* speed search for ever.  It holds of every behaviour; that an unfinished call
\* has a step to take is EveryCallEnds, which TLC checks.
THEOREM CallsAreBounded ==
  Spec => [](Rank \in 0 .. Longest) /\ [][Solve => Rank' < Rank]_vars
<1>1. IInv => Rank \in 0 .. Longest
  BY RankBounds
<1>2. IInv /\ [Next]_vars => [Solve => Rank' < Rank]_vars
  <2> SUFFICES ASSUME IInv, Solve PROVE Rank' < Rank
    OBVIOUS
  <2> QED
    BY SearchDescends, NarrowDescends, ControlDescends DEF Solve
<1> QED
  BY <1>1, <1>2, Inductive, PTL DEF Spec
=============================================================================

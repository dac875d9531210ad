---------------------------- MODULE SectionSeries ----------------------------
(***************************************************************************)
(* Sections in series (process_solver/multi_pressure_solver.py,             *)
(* multi_shaft_solver.py, multi_shaft_equal_ratio_solver.py): the outlet of *)
(* each is the inlet of the next, and each has a pressure target.  Sections *)
(* on one shaft are solved one by one for the speed each needs and then all *)
(* run at the highest; sections on their own shafts are solved once.        *)
(*                                                                          *)
(* A section is what its solver may end with, on a grid of speeds and       *)
(* flows: a higher speed gives more pressure and more capacity, up to the   *)
(* speed where the equation of state ends; recirculation and chokes take    *)
(* pressure away, and an upstream choke adds to the volume flow; a target   *)
(* is met within a tolerance.                                               *)
(***************************************************************************)
EXTENDS Integers, Sequences, FiniteSets, Functions

CONSTANTS Series,       \* [sections, targets, inlet, job]
          MinSpeed, MaxSpeed,
          Gain,         \* pressure per unit of speed
          Ratio,        \* how a section multiplies its inlet pressure
          Tolerance     \* FloatConstraint.abs_tol

SAME_SHAFT == "same_shaft"      \* MultiPressureSolver
OWN_SHAFTS == "own_shafts"      \* MultiShaftSolver

COMMON_ASV       == "COMMON_ASV"
UPSTREAM_CHOKE   == "UPSTREAM_CHOKE"
DOWNSTREAM_CHOKE == "DOWNSTREAM_CHOKE"

\* Sections and a target for each; eos is the highest speed the equation of state takes.
IsSeries(s) ==
  /\ s.sections \in Seq([control : {COMMON_ASV, UPSTREAM_CHOKE, DOWNSTREAM_CHOKE},
                         surge : Int, wall : Int, eos : Int])
  /\ s.targets \in Seq(Int)
  /\ Len(s.targets) = Len(s.sections)
  /\ s.inlet \in [pressure : Int, rate : Int]
  /\ s.job \in {SAME_SHAFT, OWN_SHAFTS}

ASSUME SeriesAssumption ==
  /\ MinSpeed \in Int /\ MaxSpeed \in Int /\ MinSpeed <= MaxSpeed
  /\ Gain \in Int /\ Ratio \in Int /\ Tolerance \in Int
  /\ \A s \in Series : IsSeries(s)

None == "none"

VARIABLES series,
          pass,       \* "solve", "together", "done" or "raised"
          section,    \* the section that is next
          inlet,      \* its inlet pressure
          setting,    \* what the handlers of each section hold
          speeds,     \* the speeds the sections need on their own
          solution,   \* [configuration, failure]
          failed      \* the sections that failed, in order

seriesVars == <<series, pass, section, inlet, setting, speeds, solution, failed>>

N == Len(series.sections)
Section(i) == series.sections[i]
Target(i) == series.targets[i]
Rate == series.inlet.rate

NoFailure == [section |-> 0, kind |-> None]

FailureOf(i, kind) == IF kind = None THEN NoFailure ELSE [section |-> i, kind |-> kind]

Default == [speed |-> MinSpeed, loop |-> 0, up |-> 0, down |-> 0]

\* FloatConstraint.
Meets(p, target)   == p - target \in -Tolerance..Tolerance
Exceeds(p, target) == p > target + Tolerance
Misses(p, target)  == p < target - Tolerance

\* A configuration gives handlers, such as <<"loop", 2>>, their settings.
\* merge_configurations: the later entry wins.
Merge(first, second) ==
  [h \in DOMAIN first \cup DOMAIN second |-> IF h \in DOMAIN second THEN second[h] ELSE first[h]]

Entries(i, s, kinds) == [h \in {<<k, i>> : k \in kinds} |-> s[h[1]]]

Applied(i, s, configuration) ==
  [k \in DOMAIN s |-> IF <<k, i>> \in DOMAIN configuration THEN configuration[<<k, i>>] ELSE s[k]]

(***************************************************************************)
(* One section.                                                             *)
(***************************************************************************)
\* A lower pressure is a greater volume.
Flow(s) == Rate + s.loop + s.up

\* The runner raises unless a flow is between surge and stonewall and the equation
\* of state has an answer.
CanRun(sec, s, p) ==
  /\ s.speed <= sec.eos
  /\ Flow(s) \in sec.surge..(sec.wall + s.speed + p)

OutletOf(sec, s, p) ==
  Ratio * (p - s.up) + Gain * s.speed - (Flow(s) - sec.surge) - s.down

\* Anti-surge: the least recirculation within capacity.
LeastLoop(sec, s) == IF Rate + s.up < sec.surge THEN sec.surge - Rate - s.up ELSE 0

AntiSurge(sec, s, p) ==
  LET safe == [s EXCEPT !.loop = LeastLoop(sec, s)]
  IN  [setting |-> safe, failure |-> IF CanRun(sec, safe, p) THEN None ELSE "capacity"]

\* An upstream choke is never fully open, and anti-surge is applied at every drop.
Choked(sec, s, d) == [s EXCEPT !.up = d, !.loop = LeastLoop(sec, [s EXCEPT !.up = d])]

\* The settings of pressure control that may be tried from a setting.
Throttled(sec, s, p) ==
  CASE sec.control = COMMON_ASV       -> {[s EXCEPT !.loop = l] : l \in 0..(sec.wall + s.speed + p)}
    [] sec.control = UPSTREAM_CHOKE   -> {Choked(sec, s, d) : d \in 1..(p - 1)}
    [] sec.control = DOWNSTREAM_CHOKE -> {[s EXCEPT !.down = d] : d \in 0..(Ratio * p + Gain * s.speed)}

\* What pressure control returns for a setting it found: an upstream choke joins
\* its drop to the recirculation of whichever probe was the last.
Returned(sec, t, runs) ==
  IF sec.control = UPSTREAM_CHOKE THEN {[t EXCEPT !.loop = u.loop] : u \in runs} ELSE {t}

\* Pressure control ends at a setting within the tolerance of the target, wherever
\* its search stops, unless the lowest pressure it can give is above the target.
PressureControl(sec, s, p, target) ==
  LET runs == {t \in Throttled(sec, s, p) : CanRun(sec, t, p)}
      lowest == CHOOSE t \in runs \cup {s} :
                  \A u \in runs \cup {s} : OutletOf(sec, t, p) <= OutletOf(sec, u, p)
      stonewalled == sec.control = UPSTREAM_CHOKE /\ runs # Throttled(sec, s, p)
  IN  IF OutletOf(sec, lowest, p) > target
      THEN {[setting |-> lowest, failure |-> IF stonewalled THEN "capacity" ELSE "above"]}
      ELSE {[setting |-> r, failure |-> None] :
              r \in UNION {Returned(sec, t, runs) :
                            t \in {t \in runs : Meets(OutletOf(sec, t, p), target)}}}

ControlledBy(sec) ==
  CASE sec.control = COMMON_ASV       -> {"loop"}
    [] sec.control = UPSTREAM_CHOKE   -> {"loop", "up"}
    [] sec.control = DOWNSTREAM_CHOKE -> {"down"}

\* What PipelineSectionSolver.find_solution may return: [setting, kinds, failure],
\* kinds being the handlers its configuration sets.  It may also raise (Escape).
Outcomes(i, p, target) ==
  LET sec == Section(i)
      at(v) == AntiSurge(sec, [Default EXCEPT !.speed = v], p)
      outlet(v) == OutletOf(sec, at(v).setting, p)
      able == {v \in MinSpeed..MaxSpeed : at(v).failure = None}
      highest == CHOOSE v \in able : \A w \in able : w <= v
      least == CHOOSE v \in able : \A w \in able : v <= w
      end(v, failure) == [setting |-> at(v).setting, kinds |-> {"speed", "loop"}, failure |-> failure]
  IN  IF MinSpeed \notin able /\ MaxSpeed \notin able
      THEN {[end(MaxSpeed, IF MaxSpeed > sec.eos THEN "eos" ELSE "capacity") EXCEPT !.kinds = {"speed"}]}
      ELSE IF outlet(highest) < target THEN {end(highest, "below")}
      ELSE IF outlet(least) > target
      THEN IF Meets(outlet(least), target) THEN {end(least, None)}
           ELSE {[setting |-> c.setting, kinds |-> {"speed", "loop"} \cup ControlledBy(sec),
                  failure |-> c.failure] : c \in PressureControl(sec, at(least).setting, p, target)}
      ELSE {end(v, None) : v \in {v \in able : Meets(outlet(v), target)}}

\* MultiShaftEqualRatioSolver: the same pressure ratio for every section, and
\* exactly the constraint for the last.
EqualRatioTargets(n, p, ratio, constraint) ==
  [i \in 1..n |-> IF i = n THEN constraint ELSE p * ratio^i]

-----------------------------------------------------------------------------
\* MultiPressureSolver._validate_pressure_control_placement.
IsPlaced(s) ==
  s.job = SAME_SHAFT =>
    \A i \in DOMAIN s.sections :
      /\ s.sections[i].control = UPSTREAM_CHOKE => i = 1
      /\ s.sections[i].control = DOWNSTREAM_CHOKE => i = Len(s.sections)

InitSeries ==
  /\ IsPlaced(series)
  /\ pass = "solve"
  /\ section = 1
  /\ inlet = series.inlet.pressure
  /\ setting = [i \in 1..N |-> Default]
  /\ speeds = {}
  /\ solution = [configuration |-> << >>, failure |-> NoFailure]
  /\ failed = <<>>

\* The run that feeds the next section; an exception leaves the solver.
Proceed(i, s) ==
  /\ setting' = [setting EXCEPT ![i] = s]
  /\ IF CanRun(Section(i), s, inlet)
     THEN inlet' = OutletOf(Section(i), s, inlet) /\ section' = i + 1 /\ UNCHANGED pass
     ELSE pass' = "raised" /\ UNCHANGED <<inlet, section>>

\* MultiPressureSolver, first loop: a failure is returned at once.
SolveForSpeed ==
  /\ series.job = SAME_SHAFT /\ pass = "solve" /\ section <= N
  /\ \E o \in Outcomes(section, inlet, Target(section)) :
       IF o.failure = None
       THEN /\ Proceed(section, o.setting)
            /\ speeds' = speeds \cup {o.setting.speed}
            /\ UNCHANGED <<solution, failed>>
       ELSE /\ solution' = [configuration |-> Entries(section, o.setting, o.kinds),
                            failure |-> FailureOf(section, o.failure)]
            /\ failed' = <<section>>
            /\ pass' = "done"
            /\ UNCHANGED <<section, inlet, setting, speeds>>
  /\ UNCHANGED series

CommonSpeed == CHOOSE v \in speeds : \A w \in speeds : w <= v

StartTogether ==
  /\ series.job = SAME_SHAFT /\ pass = "solve" /\ section = N + 1
  /\ solution' = [configuration |-> [h \in {<<"speed", i>> : i \in 1..N} |-> CommonSpeed],
                  failure |-> NoFailure]
  /\ pass' = "together" /\ section' = 1 /\ inlet' = series.inlet.pressure
  /\ UNCHANGED <<series, setting, speeds, failed>>

\* Mutant: the entries of the first solution win.
CombineKeepingFirst(sol, configuration, failure) ==
  IF sol.failure # NoFailure THEN sol
  ELSE [configuration |-> Merge(configuration, sol.configuration), failure |-> failure]

\* Solution.combine.
Combine(sol, configuration, failure) ==
  IF sol.failure # NoFailure THEN sol
  ELSE [configuration |-> Merge(sol.configuration, configuration), failure |-> failure]

\* pressure_control_strategy.reset() and apply_configuration(shaft_config).
Cleared(i) ==
  [k \in DOMAIN Default |->
     IF k = "speed" THEN CommonSpeed
     ELSE IF k \in ControlledBy(Section(i)) THEN 0 ELSE setting[i][k]]

\* The second loop: anti-surge, a run, and pressure control above the target.
\* Below it the failure of this section takes the place of whatever failed
\* before.  Anti-surge recovers from no speed beyond the equation of state.
RunTogether ==
  /\ pass = "together" /\ section <= N
  /\ CommonSpeed <= Section(section).eos
  /\ LET i == section
         surge == AntiSurge(Section(i), Cleared(i), inlet)
         safe == Combine(solution, Entries(i, surge.setting, {"loop"}), FailureOf(i, surge.failure))
         outlet == OutletOf(Section(i), surge.setting, inlet)
     IN  IF ~CanRun(Section(i), surge.setting, inlet)
         THEN /\ solution' = safe
              /\ failed' = Append(failed, i)
              /\ Proceed(i, surge.setting)
         ELSE IF Exceeds(outlet, Target(i))
         THEN \E c \in PressureControl(Section(i), surge.setting, inlet, Target(i)) :
                /\ solution' = Combine(safe, Entries(i, c.setting, ControlledBy(Section(i))),
                                       FailureOf(i, c.failure))
                /\ failed' = IF c.failure = None THEN failed ELSE Append(failed, i)
                /\ Proceed(i, c.setting)
         ELSE /\ IF Misses(outlet, Target(i))
                 THEN /\ solution' = [safe EXCEPT !.failure = FailureOf(i, "below")]
                      /\ failed' = Append(failed, i)
                 ELSE /\ solution' = safe
                      /\ UNCHANGED failed
              /\ Proceed(i, surge.setting)
  /\ UNCHANGED <<series, speeds>>

\* Mutant: the failure of the last section that failed.
LastFailure(i, kind) == IF kind = None THEN solution.failure ELSE FailureOf(i, kind)

FirstFailure(i, kind) == IF solution.failure # NoFailure THEN solution.failure ELSE FailureOf(i, kind)

\* MultiShaftSolver: a section that failed still feeds the next one.
SolveOwnShaft ==
  /\ series.job = OWN_SHAFTS /\ pass = "solve" /\ section <= N
  /\ \E o \in Outcomes(section, inlet, Target(section)) :
       LET entries == Entries(section, o.setting, o.kinds)
       IN  /\ solution' = [configuration |-> Merge(solution.configuration, entries),
                           failure |-> FirstFailure(section, o.failure)]
           /\ failed' = IF o.failure = None THEN failed ELSE Append(failed, section)
           /\ Proceed(section, Applied(section, o.setting, entries))
  /\ UNCHANGED <<series, speeds>>

\* A probe that no finder recovers from leaves the strategy or the section solver
\* it was made in, and the solver with it, which handles no exception: full
\* recirculation, the end of a search that was not probed, a root that was not
\* found, a common speed that is too high for the equation of state.
Escape ==
  /\ pass \in {"solve", "together"} /\ section <= N
  /\ pass' = "raised"
  /\ UNCHANGED <<series, section, inlet, setting, speeds, solution, failed>>

Finish ==
  /\ section = N + 1
  /\ pass = IF series.job = SAME_SHAFT THEN "together" ELSE "solve"
  /\ pass' = "done"
  /\ UNCHANGED <<series, section, inlet, setting, speeds, solution, failed>>

NextSeries ==
  \/ SolveForSpeed
  \/ StartTogether
  \/ RunTogether
  \/ SolveOwnShaft
  \/ Escape
  \/ Finish

-----------------------------------------------------------------------------
\* Fresh units under a configuration: the outlet of each section, and whether
\* it runs at all.
Replayed(configuration) ==
  LET run[i \in 0..N] ==
        IF i = 0 THEN [ok |-> TRUE, outlet |-> series.inlet.pressure]
        ELSE LET before == run[i - 1]
                 s == Applied(i, Default, configuration)
             IN  [ok     |-> before.ok /\ CanRun(Section(i), s, before.outlet),
                  outlet |-> OutletOf(Section(i), s, before.outlet)]
  IN  run

\* Recirculation under an upstream choke: the loop may be that of another probe.
Recirculates(sec, s) == s.up # 0 /\ Rate < sec.surge

\* A success is a configuration under which the sections, started anew, all run
\* and deliver their targets, although each was solved from an inlet and at a speed
\* that later changed.  Only a section that recirculates under an upstream choke
\* may miss its own target.
SuccessMeetsEveryTarget ==
  pass = "done" /\ solution.failure = NoFailure =>
    \A i \in 1..N :
      LET run == Replayed(solution.configuration)[i]
      IN  /\ run.ok
          /\ \/ Meets(run.outlet, Target(i))
             \/ Recirculates(Section(i), Applied(i, Default, solution.configuration))

\* A solver that returns reports a failure if and only if a section failed, and it
\* is that of the first section that failed.  Only on one shaft may a later section
\* that ends below its target take its place.
FailuresAreReported ==
  pass = "done" =>
    IF failed = <<>> THEN solution.failure = NoFailure
    ELSE /\ solution.failure # NoFailure
         /\ \/ solution.failure.section = failed[1]
            \/ /\ series.job = SAME_SHAFT
               /\ solution.failure.kind = "below"
               /\ solution.failure.section \in Range(failed)

=============================================================================

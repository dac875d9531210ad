----------------------- MODULE PipelineSectionSolver -----------------------
(***************************************************************************)
(* PipelineSectionSolver.find_solution, one call after another on the same *)
(* section.  The units of the section outlive a call, so a call starts     *)
(* from the settings that the one before left in them, however it ended.   *)
(*                                                                         *)
(* A step of the call is an action: the three probes and the search of     *)
(* ShaftSpeedFinder, the anti-surge pass, the evaluation at the chosen     *)
(* speed, and the pressure-control strategy of the section.                *)
(***************************************************************************)
EXTENDS PressureControl

CONSTANT Targets      \* the target pressures under study

ASSUME TargetsAssumption == Targets \subseteq Pressures

VARIABLES
  section,   \* the section, fixed
  plant,     \* the present setting of each of its handlers
  given,     \* history: the handlers this call has set so far
  inlet,     \* the arguments of the call
  target,
  step,      \* where the call is
  top,       \* the maximum of the speed boundary, narrowed by EOS failures
  low,       \* the lowest speed within capacity
  finding,   \* what the speed search found: a speed and a failure
  stage,     \* the stage INDIVIDUAL_ASV_PRESSURE works on
  solution   \* configuration, failure and escaping exception of the call

call == <<section, inlet, target>>
vars == <<section, plant, given, inlet, target, step, top, low, finding, stage, solution>>

Steps == {"idle", "maximum_speed", "narrow_boundary", "minimum_speed",
          "search_minimum", "root", "anti_surge", "evaluate", "control", "stages",
          "returned", "raised"}

NoSolution == [configuration |-> Nothing, failure |-> "none", error |-> "none"]

Init ==
  /\ section \in Sections
  /\ plant = FreshPlant /\ given = {}
  /\ inlet \in Inlets /\ target \in Targets
  /\ step = "idle" /\ top = MaxSpeed /\ low = MinSpeed
  /\ finding = [speed |-> MinSpeed, failure |-> "none"]
  /\ stage = 1 /\ solution = NoSolution

\* apply_configuration(s), and the resets
Write(written) ==
  /\ plant' = Apply(plant, written)
  /\ given' = given \cup DOMAIN written

Return(configuration, failure) ==
  /\ step' = "returned"
  /\ solution' = [configuration |-> configuration, failure |-> failure, error |-> "none"]
  /\ UNCHANGED <<call, top, low, finding, stage>>

Raise(error) ==
  /\ step' = "raised"
  /\ solution' = [solution EXCEPT !.error = error]
  /\ UNCHANGED <<call, top, low, finding, stage>>

Goto(next) == step' = next /\ UNCHANGED <<call, stage, solution>>

(***************************************************************************)
(* find_solution: the speed search evaluates the section with pressure     *)
(* control disengaged.                                                     *)
(***************************************************************************)
FindSolution ==
  /\ step \in {"idle", "returned", "raised"}
  /\ inlet' \in Inlets /\ target' \in Targets
  /\ plant' = Apply(plant, PressureControlReset(section))
  /\ given' = DOMAIN PressureControlReset(section)
  /\ step' = "maximum_speed" /\ top' = MaxSpeed /\ solution' = NoSolution
  /\ low' = MinSpeed /\ stage' = 1
  /\ finding' = [speed |-> MinSpeed, failure |-> "none"]
  /\ UNCHANGED section

Probes(speed) == SpeedProbes(section, plant, speed, inlet)

SpeedFound(speed, failure) ==
  /\ finding' = [speed |-> speed, failure |-> failure]
  /\ Goto("anti_surge")

\* Mutant: a section exactly at the target counts as short of it.
AtOrBelow(p) == p.pressure <= target

FallsShort(p) == p.pressure < target

ProbeMaximumSpeed ==
  /\ step = "maximum_speed"
  /\ \E p \in Probes(top) :
       /\ Write(p.written)
       /\ \/ p.status \in Capacity /\ Return(Set(Shaft, top), p.status)
          \/ p.status = "Eos" /\ Goto("narrow_boundary") /\ UNCHANGED <<top, low, finding>>
          \/ /\ p.status = "ok" /\ FallsShort(p)
             /\ SpeedFound(top, "MAX_BELOW") /\ UNCHANGED <<top, low>>
          \/ /\ p.status = "ok" /\ ~FallsShort(p)
             /\ Goto("minimum_speed") /\ UNCHANGED <<top, low, finding>>
          \/ p.status \notin Capacity \cup {"ok", "Eos"} /\ Raise(p.status)

\* _eos_ok is false, true, or raises.
EosFails(p) == p.status \in Capacity \cup {"Eos"}

\* Mutant: the end of the last bracket that was probed, not the one accepted.
LastSteered(flip) == flip[2].at

\* Bisect._bisect under highest_true: of a speed that works and the next, that
\* does not, the former.
LastAccepted(flip) == flip[1].at

\* highest_true over _eos_ok: nothing if the far end of the boundary fails,
\* otherwise a speed that works below one that does not.
NarrowSpeedBoundary ==
  /\ step = "narrow_boundary"
  /\ \/ \E far \in Probes(MinSpeed) :
          EosFails(far) /\ Write(far.written) /\ Return(Set(Shaft, top), "Eos")
     \/ \E speed \in MinSpeed .. (top - 1) :
        \E flip \in Probes(speed) \X Probes(speed + 1) :
          /\ \E far \in Probes(MinSpeed) : far.status = "ok"
          /\ flip[1].status = "ok" /\ EosFails(flip[2])
          /\ Write(flip[1].written) \/ Write(flip[2].written)
          /\ top' = LastAccepted(flip)
          /\ Goto("maximum_speed") /\ UNCHANGED <<low, finding>>
     \/ \E p \in UNION {Probes(speed) : speed \in MinSpeed .. top} :
          /\ ~EosFails(p) /\ p.status # "ok"
          /\ Write(p.written) /\ Raise(p.status)

\* The section runs at its lowest speed within capacity.
MinimumSpeedFound(speed, pressure) ==
  /\ low' = speed /\ UNCHANGED top
  /\ \/ pressure > target /\ SpeedFound(speed, "MIN_ABOVE")
     \/ pressure <= target /\ Goto("root") /\ UNCHANGED finding

\* Mutants: only one of the two errors is caught and searched around.
OnlyEos(status)  == status = "Eos"
OnlyRate(status) == status = "RateTooHigh"

\* The errors that a higher speed may cure.
Recoverable(status) == status \in {"RateTooHigh", "Eos"}

\* _find_min_within_capacity_speed
ProbeMinimumSpeed ==
  /\ step = "minimum_speed"
  /\ \E p \in Probes(MinSpeed) :
       /\ Write(p.written)
       /\ \/ p.status = "ok" /\ MinimumSpeedFound(MinSpeed, p.pressure)
          \/ Recoverable(p.status) /\ Goto("search_minimum") /\ UNCHANGED <<top, low, finding>>
          \/ /\ p.status \in Capacity /\ ~Recoverable(p.status)
             /\ Return(Set(Shaft, MinSpeed), p.status)
          \/ /\ p.status \notin Capacity \cup {"ok"} /\ ~Recoverable(p.status)
             /\ Raise(p.status)

\* Its bisection.  A speed at the very end of the boundary is not probed.
SearchMinimumSpeed ==
  LET Interior   == (MinSpeed + 1) .. (top - 1)
      Flips(v)   == /\ \E p \in Probes(v) : p.status = "ok"
                    /\ \E q \in Probes(v - 1) : Recoverable(q.status)
  IN
  /\ step = "search_minimum"
  /\ \/ \E speed \in (MinSpeed + 1) .. top : \E p \in Probes(speed) :
          /\ Flips(speed) /\ p.status = "ok"
          /\ Write(p.written) /\ MinimumSpeedFound(speed, p.pressure)
     \/ /\ \A speed \in Interior : ~Flips(speed)
        /\ \E p \in UNION {Probes(speed) : speed \in {MinSpeed, top}} : Write(p.written)
        /\ Raise("DidNotConverge")
     \/ \E p \in UNION {Probes(speed) : speed \in Interior} :
          /\ p.status \notin {"ok", "RateTooLow"} /\ ~Recoverable(p.status)
          /\ Write(p.written) /\ Raise(p.status)

FindSpeedRoot ==
  /\ step = "root"
  /\ LET probes == UNION {Probes(speed) : speed \in low .. top}
     IN  \/ \E rn \in RootPairs(probes, target) :
              /\ Write(rn[1].written) \/ Write(rn[2].written)
              /\ SpeedFound(rn[1].at, "none") /\ UNCHANGED <<top, low>>
         \/ \E p \in probes : p.status # "ok" /\ Write(p.written) /\ Raise(p.status)

(***************************************************************************)
(* The chosen speed.                                                       *)
(***************************************************************************)
ApplyAntiSurge ==
  LET shaft_config == Set(Shaft, finding.speed)
  IN
  /\ step = "anti_surge"
  /\ \E s \in AntiSurge(section, Apply(plant, shaft_config), inlet) :
       LET configuration == merge_configurations(shaft_config, s.configuration)
       IN
       /\ Write(merge_configurations(shaft_config, s.written))
       /\ \/ s.error # "none" /\ Raise(s.error)
          \/ s.error = "none" /\ s.failure # "none" /\ Return(configuration, s.failure)
          \/ /\ s.error = "none" /\ s.failure = "none" /\ finding.failure = "MAX_BELOW"
             /\ Return(configuration, "MAX_BELOW")
          \/ /\ s.error = "none" /\ s.failure = "none" /\ finding.failure # "MAX_BELOW"
             /\ step' = "evaluate"
             /\ solution' = [solution EXCEPT !.configuration = configuration]
             /\ UNCHANGED <<call, top, low, finding, stage>>

EvaluateChosenSpeed ==
  LET outlet == Run(section, Apply(plant, solution.configuration), inlet)
  IN
  /\ step = "evaluate"
  /\ Write(solution.configuration)
  /\ \/ outlet.status # "ok" /\ Raise(outlet.status)
     \/ /\ outlet.status = "ok" /\ Close(outlet.pressure, target)
        /\ Return(solution.configuration, "none")
     \/ /\ outlet.status = "ok" /\ ~Close(outlet.pressure, target)
        /\ Goto("control") /\ UNCHANGED <<top, low, finding>>

(***************************************************************************)
(* Pressure control, by the strategy of the section.                       *)
(***************************************************************************)
\* Mutant: the earlier configuration wins.
EarlierWins(s) == merge_configurations(s.configuration, solution.configuration)

\* Mutant: the settings of pressure control replace the others.
ControlOnly(s) == s.configuration

Combined(s) == merge_configurations(solution.configuration, s.configuration)

Conclude(endings) ==
  \E s \in endings :
    /\ Write(s.written)
    /\ IF s.error # "none" THEN Raise(s.error)
       ELSE Return(Combined(s), s.failure)

ControlBy(type, Endings(_, _, _, _)) ==
  /\ step = "control" /\ section.control = type
  /\ Conclude(Endings(section, plant, inlet, target))

ControlDownstreamChoke == ControlBy("DOWNSTREAM_CHOKE", DownstreamControl)
ControlUpstreamChoke   == ControlBy("UPSTREAM_CHOKE", UpstreamControl)
ControlCommonAsv       == ControlBy("COMMON_ASV", CommonAsvControl)
ControlIndividualRate  == ControlBy("INDIVIDUAL_ASV_RATE", IndividualRateControl)

\* IndividualASVPressureControlStrategy.apply, up to its loop over the stages.
ControlIndividualPressure ==
  LET proceed == Ending(ResetLoops(section), Nothing, "none", "none")
      endings == Individual(section, plant, inlet, target, {proceed})
  IN
  /\ step = "control" /\ section.control = "INDIVIDUAL_ASV_PRESSURE"
  /\ \/ Conclude(endings \ {proceed})
     \/ /\ proceed \in endings
        /\ Write(proceed.written)
        /\ Goto("stages") /\ UNCHANGED <<top, low, finding>>

\* One iteration of the loop.
ControlStage ==
  /\ step = "stages"
  /\ \E f \in StageFindings(section, plant, inlet, target, stage) :
       LET found == merge_configurations(solution.configuration, Set(stage, f.rate))
       IN
       /\ Write(Set(stage, f.last))
       /\ \/ f.error # "none" /\ Raise(f.error)
          \/ f.error = "none" /\ f.failure # "none" /\ Return(solution.configuration, f.failure)
          \/ /\ f.error = "none" /\ f.failure = "none" /\ stage = Stages
             /\ Return(found, "none")
          \/ /\ f.error = "none" /\ f.failure = "none" /\ stage < Stages
             /\ stage' = stage + 1
             /\ solution' = [solution EXCEPT !.configuration = found]
             /\ UNCHANGED <<call, step, top, low, finding>>

Solve ==
  \/ ProbeMaximumSpeed \/ NarrowSpeedBoundary
  \/ ProbeMinimumSpeed \/ SearchMinimumSpeed \/ FindSpeedRoot
  \/ ApplyAntiSurge \/ EvaluateChosenSpeed
  \/ ControlDownstreamChoke \/ ControlUpstreamChoke \/ ControlCommonAsv
  \/ ControlIndividualRate \/ ControlIndividualPressure \/ ControlStage

Next == FindSolution \/ Solve

\* The solver runs in one thread and every search is bounded.
Spec == Init /\ [][Next]_vars /\ WF_vars(Solve)

----------------------------------------------------------------------------
(***************************************************************************)
(* Properties                                                              *)
(***************************************************************************)
\* Every setting written to a handler is one the handler takes, whichever
\* strategy computed it, and a solution configures handlers of its section only.
TypeOK ==
  /\ section \in Sections /\ plant \in Plants /\ given \subseteq Handlers
  /\ inlet \in Inlets /\ target \in Targets
  /\ step \in Steps
  /\ top \in MinSpeed .. MaxSpeed /\ low \in MinSpeed .. MaxSpeed
  /\ finding \in [speed : MinSpeed .. MaxSpeed, failure : {"none", "MAX_BELOW", "MIN_ABOVE"}]
  /\ stage \in 1 .. Stages
  /\ DOMAIN solution.configuration \subseteq HandlersOf(section)
  /\ \A h \in DOMAIN solution.configuration : solution.configuration[h] \in Setting(h)
  /\ solution.failure \in Failures /\ solution.error \in Errors \cup {"none"}

\* The section at a speed with the least recirculation and no pressure control:
\* what the speed search compares with the target.
AtSpeed(speed) ==
  SpeedProbes(section, Apply(FreshPlant, PressureControlReset(section)), speed, inlet)

SpeedOutlets == UNION {AtSpeed(speed) : speed \in MinSpeed .. MaxSpeed}

Returned(failures) == step = "returned" /\ solution.failure \in failures

\* The section with the configuration returned, applied to the plant as it is.
Replayed == Apply(plant, solution.configuration)
Replay   == Run(section, Replayed, inlet)

Recirculates ==
  \E h \in Loops(section) \cap DOMAIN solution.configuration : solution.configuration[h] # 0

\* Nothing of an earlier call, however it ended, reaches a result of this one:
\* every handler of the section has been set by this call before the section is
\* run, the shaft and the loops by the probe itself.
NoStaleEvaluation ==
  /\ step = "maximum_speed" => HandlersOf(section) \ ({Shaft} \cup Loops(section)) \subseteq given
  /\ step \notin {"idle", "maximum_speed"} => HandlersOf(section) \subseteq given

\* A configuration returned with an outlet pressure sets the shaft and every
\* loop, however far pressure control got: whoever applies it later, to units in
\* any state, relies on no setting but the choke's that it does not carry.
SolutionSetsEveryLoop ==
  Returned({"none", "MAX_BELOW", "MIN_ABOVE"}) =>
    {Shaft} \cup Loops(section) \subseteq DOMAIN solution.configuration

\* A configuration returned as a success, applied again, delivers the target
\* pressure within capacity.  Recirculation under an upstream choke is apart:
\* its configuration is of another probe than the pressure drop.
SuccessMeetsTarget ==
  (Returned({"none"}) /\ ~(section.control = "UPSTREAM_CHOKE" /\ Recirculates)) =>
    Replay.status = "ok" /\ Close(Replay.pressure, target)

\* "Maximum below target" is never reported of a target that some speed reaches.
\* Stage by stage control may report it of one stage's share.
MaxBelowIsGenuine ==
  (Returned({"MAX_BELOW"}) /\ section.control # "INDIVIDUAL_ASV_PRESSURE") =>
    \A p \in SpeedOutlets : p.status = "ok" => p.pressure < target

\* "Minimum above target" is never reported of a target that some speed comes
\* down to, or some recirculation at the speed chosen; and the configuration
\* that comes with it can be run.
MinAboveIsGenuine ==
  Returned({"MIN_ABOVE"}) =>
    /\ Replay.status = "ok" /\ Replay.pressure > target
    /\ \A p \in SpeedOutlets : p.status = "ok" => p.pressure > target
    /\ ~HasChoke(section) =>
         \A rates \in [Loops(section) -> Rates] :
           LET out == Run(section, Apply(Replayed, rates), inlet)
           IN  out.status = "ok" => out.pressure > target

\* A pressure failure that is reported is no artefact of the probes that found it: no
\* speed, drop or recirculation left untried would have met the target.
PressureFailuresAreGenuine == MaxBelowIsGenuine /\ MinAboveIsGenuine

\* Pressure is wasted in a choke or a loop only when no speed delivers the target.
PressureControlOnlyWhenNeeded ==
  step \in {"control", "stages"} =>
    \A p \in SpeedOutlets : p.status = "ok" => Above(p.pressure, target)

\* A rate is reported outside capacity by the speed search only when the section
\* runs at no speed.
CapacityFailureIsGenuine ==
  (Returned(Capacity) /\ Choke \notin DOMAIN solution.configuration) =>
    \A p \in SpeedOutlets : p.status # "ok"

\* Whatever escapes find_solution is an exception that FeasibilitySolver takes
\* for "infeasible"; any other would end the whole evaluation.
OnlyToleratedExceptions ==
  step = "raised" => solution.error \in Capacity \cup {"OutsideCapacity", "DidNotConverge"}

\* A call returns or raises, also when EOS failures restart the speed search.
EveryCallEnds == step = "maximum_speed" ~> step \in {"returned", "raised"}

(***************************************************************************)
(* What the source says and the code does not do.                          *)
(***************************************************************************)
\* upstream_choke.py: recirculation is "consistent with the actual (post-choke)
\* suction pressure", so the section runs with the configuration returned.
UpstreamChokeReplays ==
  (Returned({"none"}) /\ section.control = "UPSTREAM_CHOKE") => Replay.status = "ok"

\* shaft_speed_finder.py: an EosFailure says that the EOS failed at all speeds.
EosFailureMeansNoSpeed ==
  Returned({"Eos"}) => \A p \in SpeedOutlets : p.status # "ok"

\* recirculation_loop_rate_finder.py: RateTooHigh at the boundary maximum is
\* recoverable, so it does not end a call that some common rate would settle.
FullRecirculationIsRecoverable ==
  (step = "raised" /\ section.control = "COMMON_ASV" /\ solution.error = "RateTooHigh") =>
    \A x \in Rates :
      LET out == Run(section, Apply(plant, Set(1, x)), inlet)
      IN  ~(out.status = "ok" /\ Close(out.pressure, target))

\* choke_delta_pressure_finders.py: choking too much is answered by the highest
\* pressure drop that does not exceed stonewall.
StonewallIsReported ==
  ~(step = "raised" /\ section.control = "UPSTREAM_CHOKE" /\ solution.error = "RateTooHigh")
=============================================================================

# eCalc in TLA+

eCalc computes the energy use and emissions of an oil and gas installation from a YAML
model and time series. This directory holds TLA+ models of the parts of it that decide
something over several steps, the TLC configurations that model-check them on small
instances, and theorems about them that TLAPS proves for every value of the constants.

The models cover the program from the YAML of a consumer to the exported columns: mapping,
variables, the order of evaluation, the process solvers and the compressor models beneath
them, the service that flashes fluids, the arithmetic on time series, and the export.
The section solver, which is the core of the new process solver, the solvers of sections in series, the
distribution of streams, the thermodynamic service and the life of a model have proofs; the rest is
model-checked.

- [The system](#the-system)
- [The modules](#the-modules)
- [How the code is abstracted](#how-the-code-is-abstracted)
- [The runs](#the-runs)
- [What the code does not do as it says](#what-the-code-does-not-do-as-it-says)
- [The proofs](#the-proofs)
- [What is not modelled](#what-is-not-modelled)
- [Plan](#plan)

## The system

Paths are below `src/src/`.

| Part | State it keeps | Operations | What is hard |
|---|---|---|---|
| **Pipeline section solver** (`libecalc/process/process_solver/pipeline_section_solver.py`, `finders/shaft_speed_finder.py`) | none of its own: the settings of the shaft, the recirculation loops and the choke, which outlive a call | `find_solution(target, inlet)` | searches nested three deep, each probing the same mutable units; five errors that mean different things at each level; failures that must be genuine |
| **Anti-surge** (`process_solver/anti_surge/`) | the loops' rates | `apply`, `reset` | called inside the probes of other searches; may fail part of the way |
| **Pressure control** (`process_solver/pressure_control/`) | loops, choke, and the last anti-surge configuration of the upstream choke | `apply`, `reset` | five strategies with different endings; the settings tried last are not the settings returned |
| **Finders and searches** (`process_solver/finders/`, `search_strategies.py`) | boundaries | `find`, `search`, `find_root` | ends that are not probed, tolerances, functions that raise |
| **Handlers, runner, units** (`process_solver/*handler.py`, `process_pipeline_runner.py`, `process_units/`, `shaft.py`) | one setting per handler | `apply_configuration`, `run` | a run stops at the first unit that refuses the stream |
| **Multi-section solvers** (`multi_pressure_solver.py`, `multi_shaft_solver.py`, `multi_shaft_equal_ratio_solver.py`) | the sections' settings | `find_solution` | configurations found for one inlet and one speed replayed at others; which failure is reported |
| **Stream distribution, feasibility** (`process/stream_distribution/`, `feasibility_solver.py`) | rates per train | `get_streams`, `get_excess_rate` | order of overflow; a search that keeps a probe it did not look at; exceptions as infeasibility |
| **NeqSim service and caches** (`ecalc_neqsim_wrapper/`) | a global JVM service, LRU caches with references into the JVM | `initialize`, `shutdown`, cached flashes | nested contexts, shutdown between a miss and a put, eviction |
| **Model life cycle** (`libecalc/presentation/yaml/model.py`, `mappers/component_mapper.py`, `common/graph.py`) | validated flag, variables, registered models, results | `validate_for_run`, `evaluate_energy_usage`, `get_asset_result` | order of the calls, a failure between two of them, components that come and go |
| **Variables** (`mappers/variables_mapper/`) | resolved values | evaluation in rounds | references in any order, values per period |
| **Consumer mapping** (`mappers/consumer_function_mapper.py`, `yaml_types/`) | models registered so far | schema, mapping, evaluation | combinations that pass one check and fail another, with exceptions nobody turns into a message |
| **Consumer system** (`legacy_consumer/system/`) | rates after cross-over, setting used per time step | `evaluate` | order of cross-overs, fallback when no setting works |
| **Legacy trains** (`domain/process/compressor/core/train/`) | speed of the shaft and a rate modifier per stage, kept between time steps | `evaluate`, `get_max_standard_rate` | two parts on one shaft, pressure control per part, a maximum rate searched on what the last step left |
| **Charts, pumps, sampled models** (`value_objects/chart/`, `pump/`, `core/sampled/`) | none over time | lookups, projections, limits | rules that meet at a curve, a flow line or a face of a hull |
| **Generators, fuel, emissions** (`energy_components/`) | results per component | evaluation per period | dated models, fuels and consumers that do not start and end together |
| **Periods, rates, results** (`common/time_utils.py`, `temporal_model.py`, `utils/rates.py`, `json_result/`) | none | pure functions in any order | boundaries of periods, days counted twice, flags of a neighbour |
| **Export** (`presentation/exporter/`), **comparison** (`presentation/simple_result/`) | none | queries by category, fuel and frequency; difference of two results | series cut by dates of several kinds |

A run of the program validates the YAML model, maps it to domain objects, evaluates each
consumer at each time step and sums, resamples and exports the results. A process simulation hands streams to trains (stream
distribution asks the feasibility solver how much each can take), each train's sections are
solved by the section solver, alone or under one of the multi-section solvers, and every
probe flashes fluids through NeqSim and its caches. Consumers that are not process
simulations run a legacy train, a train of simplified stages, a sampled compressor, a pump or
a table, alone or in a consumer system. The solver is single-threaded; only the NeqSim service may
be asked by several threads. What makes the solver hard is not concurrency but state: *the units are shared by all searches and
survive every call, successful or not*, so each step must hold for whatever settings the
steps before it left.

What makes the section solver correct:

1. nothing of an earlier call reaches a result of a later one;
2. a configuration returned as a success, applied again, delivers the target pressure;
3. a failure is genuine: "maximum below target", "minimum above target" and the capacity
   failures are reported only of sections for which they are true;
4. a configuration is whole: it sets what it was evaluated with;
5. pressure control is engaged only when no speed delivers the target;
6. only exceptions that the callers take for "infeasible" escape;
7. every call ends.

What makes the other parts correct:

8. sharing a stream loses no rate, and a train sends on no more than it must;
9. sections in series that are reported to succeed all meet their targets when the
   configuration is applied to fresh units, and a failure is reported exactly when a section
   failed, the first one or, on one shaft, one that ends below its target;
10. a train, a sampled compressor and a pump run what they can and report what they cannot,
    and their maximum rate is a rate they can run;
11. the head of a compressor over speed and rate is monotone, as every root search assumes;
12. an answer of the thermodynamic service is about the state asked for, and never comes
    from a JVM that is gone, in spite of caches and nested contexts;
13. nothing is evaluated of a model that was mapped in part, variables have the values they
    are defined with, power is balanced, the setting of a system is the first that suffices,
    and emissions follow the fuel in force;
14. what the schema of a consumer accepts is run as declared, or its error is told to the user;
15. no conversion, sum, cut, resampling, export or comparison gains or loses a day's volume, or
    calls a day valid that was not.

`PROJECT.json` lists the hazards of the code line by line, with the properties that would
catch them, or why none does.

## The modules

| Module | What it models |
|---|---|
| `PipelineSection` | handlers, plants, configurations and their merge, what a run produces, tolerant comparison (`FloatConstraint`). The units are the parameters `RunTo` and `RecirculationRange`, with the assumption `UnitsAssumption`. |
| `CompressorTrain` | units for model checking: choke, mixer, compressor and splitter with integer charts, and the runner over them. |
| `SectionStrategies` | what bisection and root finding may end with, `RecirculationLoopRateFinder`, the two anti-surge strategies, and a probe of the speed search (`speed_func`). |
| `PressureControl` | `reset` and `apply` of the pressure-control strategies and the choke finders. |
| `PipelineSectionSolver` | the state machine: calls of `find_solution` one after another, and the properties. |
| `MCPipelineSectionSolver` | the instance for TLC: `EXTENDS` the solver and `CompressorTrain`, and gives charts, inlets and targets. |
| `PipelineSectionSolverProofs` | the theorems. |
| `Induction` | no part of the program: induction over numbers said with sets, functions defined by recursion over an interval, and sums over finite sets, for the proofs of the parts below. |

`PipelineSection` ← `SectionStrategies` ← `PressureControl` ← `PipelineSectionSolver` is a
chain of EXTENDS; `CompressorTrain` extends `PipelineSection` and meets the chain only in the
MC module, so nothing that is proved depends on a chart.

Around the section solver, each call independent of the others (`ProcessNetwork` chooses one):

| Module | What it models |
|---|---|
| `StreamDistribution` | common distribution with overflow, priorities, the rate search of `FeasibilitySolver`; a train is the set of rates it can operate at |
| `SectionSeries` | `MultiPressureSolver`, `MultiShaftSolver`, equal ratios; a section is what its solver may end with |
| `LegacyTrain` | the common-shaft train over its time steps: speed search, six kinds of pressure control, two parts around a pressure between stages, side streams, rate modifiers, maximum rate |
| `SampledModel` | the one-, two- and three-dimensional samples: hull, projections, maximum rate |
| `Chart` ← `CompressorChart` ← `SimplifiedTrain`, `Chart` ← `Pump` | curves and lines of a chart; a point by rate and head, or by speed and rate; stages with charts of their own; pumps |
| `ProcessNetwork`, `MCProcessNetwork` | their composition, and the instance |
| `ProcessNetworkProofs` | the invariants of sections in series and of the stream distribution, and the theorems for the specification of `ProcessNetwork` |

Around the solvers (`Ecalc` chooses one part):

| Module | What it models |
|---|---|
| `EnergyModel` | `YamlModel` and the tree of components: validation, mapping, evaluation in the order of the graph, report; with `VariablesMapper` and `ConsumerSystem` |
| `YamlTypes`, `ConsumerMapping` | what the schema accepts of a consumer; mapping of every energy usage model; evaluation as far as flows through stages |
| `Periods`, `Rational`, `Rates`, `TimeSeries` | dates, periods and temporal models; exact fractions for averaged rates; rates, volumes and flags; results converted, added, merged, cut and resampled in any order |
| `Exporter` | the columns of the two prognoses, over categories and fuels that change |
| `DeltaProfile` | the difference of two results |
| `EnergyModelInputs`, `ConsumerInputs`, `ReportingInputs`, `MCEcalc` | the instance |
| `EnergyModelProofs`, `EnergyResultsProofs`, `EnergyReportProofs`, `EcalcProofs` | the invariant of a model's life, that of its results, that of its variables and its report; the comparison of two results, and the theorems for the specification of `Ecalc` |

The thermodynamic service:

| Module | What it models |
|---|---|
| `ThermoService` | what its users rely on, with neither caches nor contexts |
| `NeqsimService` | contexts, gateway, caches, and the steps of a request and of a shutdown |
| `MCNeqsimService` | the instance; `ImplementsThermoService` is the refinement `NeqsimService` ⇒ `ThermoService` |
| `NeqsimServiceProofs` | the invariant and the refinement, proved |

The parts under `ProcessNetwork` and `Ecalc` share no state. They are composed so that one run
checks them, and so that what they rely on in common is written once: `Periods` under
variables, series, export and comparison; `Chart` under compressors and pumps. Where one part
uses another the abstraction is stated at its constants: `StreamDistribution` takes from the
section solver only for which rates it succeeds, `SectionSeries` the endings of a
section's solver, the exceptions among them, `EnergyModel` the capacity of a train, `Exporter` what a component has evaluated to.

### State and actions of the section solver

`plant` is the present setting of each handler (0 of the shaft: no speed set yet). It is
never reset by the model, only by what the code resets. `given` is a history variable, the
handlers set since the call began. `top` is the maximum of the speed boundary, which EOS
failures narrow; `low` the lowest speed within capacity; `finding` what the speed search
returned; `solution` the configuration, failure or escaping exception. `step` is where the
call is:

```
 idle ─FindSolution→ maximum_speed ─ProbeMaximumSpeed→ minimum_speed ─ProbeMinimumSpeed→ root
                       ↑      │ EOS                        │ stonewall, EOS              │
                       └─ narrow_boundary             search_minimum ────────────────────┤
                                                                                FindSpeedRoot
 returned ←─ EvaluateChosenSpeed ←─ ApplyAntiSurge ←─────────────────────────────────────┘
    ↑               │
    └── Control… ←──┘      (every step may also return a failure or raise)
```

| Action | Code |
|---|---|
| `FindSolution` | entry of `find_solution`: reset of pressure control, new inlet and target |
| `ProbeMaximumSpeed`, `NarrowSpeedBoundary` | `ShaftSpeedFinder.find`, the probe at the maximum and the search below an EOS failure |
| `ProbeMinimumSpeed`, `SearchMinimumSpeed` | `_find_min_within_capacity_speed` |
| `FindSpeedRoot` | `find_root` on the speed |
| `ApplyAntiSurge`, `EvaluateChosenSpeed` | the rest of `find_solution` up to pressure control |
| `ControlDownstreamChoke`, `ControlUpstreamChoke`, `ControlCommonAsv`, `ControlIndividualRate`, `ControlIndividualPressure` and `ControlStage` | the `apply` of the five strategies; the stage loop is one action per stage |

A new call may start after any ending, on the plant the last one left: this is how the
evaluation of the next time step, or a probe of `FeasibilitySolver`, finds the units.

### State and actions of the other parts

| Module | State | Actions |
|---|---|---|
| `StreamDistribution` | setting tried, place in the topological order, `overflow_map`, `adjusted_rates` | `VisitItem`, `JudgeSetting` |
| `SectionSeries` | place in the series, settings of the units, speeds found, solution | `SolveForSpeed`, `StartTogether`, `RunTogether` (the two passes of a common shaft), `SolveOwnShaft`, `Finish`; `Escape`, the exception of a section solver or a strategy |
| `LegacyTrain` | speed, rate modifiers, results and maximum rates | `FindSpeed`, `EvaluateAtSpeed` for a train without a split; `SolveFirstPart`, `SolveLastPart`, `JoinPartsAtSpeed` for one with; `FindMaxRate` |
| `SampledModel`, `SimplifiedTrain`, `Pump`, `CompressorChart` | the last answer | one per question asked; a sweep asks neighbouring points one after the other |
| `EnergyModel` | what was read, validated, mapped, registered, evaluated; the error raised last | the calls of `YamlModel`, and inside each a step for each variable and component |
| `ConsumerMapping` | models registered, usage looked at, how it ended | mapping a usage, evaluating one |
| `TimeSeries` | the two results; beside them what they stand for day by day | one per operation of a result |
| `Exporter` | installation and column, the columns written | one column of one installation |
| `DeltaProfile` | the two results, the common periods, the difference | the stages of `delta_profile` |
| `NeqsimService` | services created, the current one, open contexts, two caches, where each client is | `Enter`, `Exit`, `Close`, and the steps of a request: cache miss, creation in the JVM, put, flash |

## How the code is abstracted

*Numbers.* Pressures, standard rates, speeds and recirculation fractions lie on integer
lattices whose unit is the resolution of the searches. What depends on values below it
(10⁻² against 10⁻³ in two bisections, say) is out of the model and listed as a hazard. The target of a stage is the
geometric mean of the code, rounded down to the lattice.

*Searches.* A search is a set of endings: the value returned, the probe made *last* (whose
settings stay in the plant), and the failure or exception. Bisection ends at a flip between
an accepted point and its neighbour; either may have been probed last; the ends of the
boundary are not probed; if nothing inside is ever accepted it ends with `DidNotConverge`.
Root finding returns the end of a bracket that is closer to the target, refuses a boundary
without a sign change (`ValueError`), and passes on what its function raises. Which flip or
bracket is found is not decided, so what the runs and proofs show holds for any. The root
finder's own limit of iterations is left out: the code's functions are continuous enough
for Brent's method to finish, and the lattice has no notion of a slow search.

*Errors.* `RateTooLow`, `RateTooHigh`, `OutsideCapacity` (the choke), `Eos` (the flash) and
`ValueError` are outcomes of a run and take the path that the `except` clauses give them.

*Units.* For the proofs: any function from a plant and an inlet to a stream or an error, as
long as a boundary of recirculation rates is on the lattice (`UnitsAssumption`). For the
runs: `CompressorTrain`.

*Left out.* `NoAntiSurgeStrategy` and `SingleSpeedShaft`, which `solver_assembly` never
builds; identifiers, messages and logging; the achievable pressure in a failure.

The parts around the section solver are abstracted as follows.

- *Stream distribution.* Rates are integers; `handles` is the set of rates a train's solver
  succeeds for. The bisection is the code's, probe by probe.
- *Sections in series.* The outlet pressure is `Ratio` times the inlet's plus `Gain` per unit
  of speed; recirculation moves a section between its surge and its stonewall, and a choke
  takes pressure away; an upstream choke adds to the volume flow, so anti-surge recirculates less
  behind it and stonewall is nearer. More speed gives more pressure and more room, up to the speed where the
  equation of state ends (`eos`). The endings are those found by the runs of the section solver: a
  failure for capacity, of the equation of state, for pressure below or above; a drop of an upstream
  choke paired with the loop of any other probe, which may not run (`Returned`); and an exception, which is an action
  of its own (`Escape`) because what raises it, such as full recirculation or the end of a search that was not
  probed, is below this abstraction: it may happen in any section.
- *Legacy trains.* Pressures are logarithms on a grid, so that ratios are differences. A
  search on the grid finds what is nearest; `PressureSlack` is what a grid step may miss a
  pressure by. Power and the pressure drop ahead of a stage are left out.
- *Charts and pumps.* Exact fractions instead of floats with `EPSILON`; no efficiencies, no
  power. What `chart/base.py` only warns about is assumed: head falls along a curve, and a faster
  curve lies to the right and above. Recirculation is always allowed and a speed never lifted, as all
  callers ask for.
- *Simplified trains.* The gas is ideal and cooled to one temperature ahead of each stage, so a
  head is proportional to the pressure ratio less one, and the search for the maximum rate, which in
  the code repeats until density stops changing, ends at once.
- *Sampled models.* An answer is the point the usage is taken at. Interpolation inside the hull,
  the turbine, margins for rounding and the scaling of rates are left out.
- *Energy model.* A variable is a sum of others and a number; a load is a variable; a process
  model is its capacity. Regularity is 1; interpolation of time series and the cable
  loss are left out.
- *Consumer mapping.* Expressions are their values; of a train's evaluation the flows
  through its stages are kept, of a chart its speeds. Regularity is 0 or 1.
- *Time series and export.* Dates are days, a reporting frequency is the set of its dates,
  and a rate is an exact fraction. `TimeSeries` and `Exporter` carry, beside what the code
  keeps, the volume of each day; no operation of the code reads it.
- *NeqSim.* The result of a flash is the request it answers, so that a wrong answer shows; a cache
  has its lock and each of its calls is one step; everything else of two clients interleaves.

## The runs

### The section solver

All six use two stages, speeds 2 to 5, recirculation rates 0 to 10, pressures 0 to 20, a
tolerance of 1 and four steps of recirculation fraction. Five trains, chosen so that each error path is taken:

- *wide*: room for recirculation at every speed;
- *narrow*: surge and stonewall are close, and it chokes at low speed;
- *tapered*: its second stage chokes before the first;
- *fragile*: the flash fails at the highest speed and at high suction pressure;
- *cold*: the flash fails at the lowest speed.

The inlet rates 1 to 9 run from below surge at every speed to beyond stonewall at every
speed; the targets 7 to 16 from below what the lowest speed delivers to above what the
highest does. The pressure rise changes by at most two tolerances from one speed or rate to
the next, so a root is within the tolerance of the target, as it is in the code unless a
chart is steeper than its searches can resolve. Two stages are enough for what depends on
order: a stage that is reached or not, set or not yet, and that chokes when the other does not.

| Run | Properties | Shows |
|---|---|---|
| `section_pass` | `TypeOK`, `NoStaleEvaluation`, `SolutionSetsEveryLoop`, `SuccessMeetsTarget`, `PressureFailuresAreGenuine`, `PressureControlOnlyWhenNeeded`, `CapacityFailureIsGenuine`, `OnlyToleratedExceptions` | items 1 to 6 above, for every sequence of calls (13 018 states) |
| `section_calls_end` | `EveryCallEnds` | item 7, on the fragile train (193 states) |
| `eos_failure`, `full_recirculation`, `upstream_choke_replays`, `upstream_stonewall` | one each | the disagreements below |

*What the properties leave apart.* `SuccessMeetsTarget` excludes recirculation under an
upstream choke, which is the subject of `UpstreamChokeReplays`. `PressureFailuresAreGenuine` excludes,
for "maximum below target", stage by stage control, whose failure is about a stage's share of the pressure.
`CapacityFailureIsGenuine` is about the speed search; a stonewall met while choking is a
capacity failure at the chosen speed only.

*Fairness.* `Spec` has `WF_vars(Solve)`: the solver runs in one thread, and every search has
a bound on its iterations (`Bisect.max_iterations`, that of the root finder), so a call
under way takes its next step. Starting a call is not fair. What has to be shown, and is by
`EveryCallEnds`, is that the speed finder does not call itself forever on boundaries it
narrows. The run is small because TLC evaluates ENABLED of the whole solver in every state.
The other specifications state no fairness: their loops are over finite sequences, or their
callers may stop at any time.

*Deadlock* is checked in these six runs: no call gets stuck between two steps. The other runs end
when a call is answered, the asked calls are made or the last context is closed, so they have
`CHECK_DEADLOCK FALSE`.

### The process calculations

`process_network` (161 524 states) checks `OverflowIsTheExcess`,
`SuccessMeetsEveryTarget`, `FailuresAreReported`, `TrainSuccessIsReal`, `FeasibleIsFound`,
`MaxRateIsTheLimit`, `RunsWhatItCan`, `MaxRateIsReal` and the action property
`ChartHeadIsMonotone`: items 8 to 11.

| Part | Instance | Why it is enough |
|---|---|---|
| distribution | three trains, equal and unequal fractions, six overflow graphs (none, one, chain, fork, join, backwards), limits below, at and above each share, one train that runs only between two rates, a fallback setting | three are the least for an item that both receives and sends on; the order of the graph and the order of the mapping differ |
| series | two and three sections, both jobs, three pressure controls, surges and stonewalls that bind at some of the speeds, sections with and without a speed the equation of state does not take, reachable and unreachable and equal-ratio targets | each section may be the one that needs the highest speed, each may fail first, for any reason, and a later failure may take the place of the first |
| trains | two and three stages, one and two time steps, every pressure control, side streams in and out, a maximum discharge pressure, splits after the first and the second stage | the second time step starts from the shaft and modifiers of the first |
| sampled | fourteen tables of one to three columns, 245 requests each | boxes, slanted bodies, polygons for every pair, degenerate tables |
| charts, pumps, simplified trains | charts of one, two and three curves, with and without control margin; speeds and rates in half units; trains of one and two stages | below, between, on and above curves; the third curve bulges beyond the line between the outer two |

*What the properties leave apart.* `SuccessMeetsEveryTarget` lets a section that recirculates under an upstream choke
miss its own target, for the reason of `upstream_choke_replays`, but not fail to run; `FailuresAreReported` is
about solvers that return. The halves of `RunsWhatItCan` and `MaxRateIsReal` about samples require
the middle of the bounding box to lie inside the hull (`MiddleIsInside`). `FeasibleIsFound` excludes a downstream choke ahead of a pressure between
stages and time steps that raised; the instance has no side stream under `COMMON_ASV`, whose loop would not
end, or under `INDIVIDUAL_ASV_PRESSURE`, which ignores it; `ChartHeadIsMonotone` requires a valid point to
lie in the rate and head area for up to two curves only, because with more the two notions of
the area differ (chart.py:167-169 says so), and it excludes points that recirculation pushed beyond the chart
(`PumpedTooFar`). The section below says what the code does in the cases excluded.

`fractions_permuted` and `interstage_stage_number` use the same instance and end with the
disagreements below.

### The energy model, the YAML of consumers, time series, export and comparison

`ecalc` (217 066 states) checks `NothingEvaluatedInPart`,
`VariablesAsDefined`, `PowerIsBalanced`, `RunsOnceMapped`, `ValidWhenAllCope`,
`FirstSufficientSetting`, `EmissionsFollowTheFuel` (item 13), `OnlyKnownErrorsEscape`,
`RunsAsDeclared` (item 14), `ResultsStandForTheDays`, `ColumnsCountTheDays` and
`DeltaIsDayByDay` (item 15).

| Part | Instance | Why it is enough |
|---|---|---|
| model | up to three calls (`MaxCalls`) of the three methods in any order; families that vary one respect at a time: variables and their order, fuels, generator sets, consumers, systems of three units with six cross-overs, installations, unreadable resources; three or four periods | three calls are a failure, a retry and what follows it; dates before, at, in and after the run |
| consumers | 12 584 consumers with at most two usages: every kind of energy usage model with every model it may refer to, pressures 1, 2, 4, 8 and −1, 0, up to three stages, two and three streams in every order | a usage that is mapped before another fails stays registered |
| series | two results of two periods, same, before or after, three operations (`MaxOps`) on eight days, months of two days, years of four | three operations are a conversion, a join and a resampling |
| export | eight days, three frequencies, a fixed and a mobile installation, categories and fuels that change on various days, all columns of both prognoses | categories, fuels and the time vector change on the same day, on neighbouring days, and inside a reporting period |
| comparison | pairs of results over six period lists, each inside, around, beside or before the other | one side lacks a component, an emission, a power, or has another unit |

`OnlyKnownErrorsEscape` has a list of gaps, `KnownGap`: combinations that the schema accepts and that
end in an exception without a message, each a named definition of `ConsumerMapping`. Any
other such end would violate it. `streams_out_of_order` ends with the disagreement below.

### The thermodynamic service

`neqsim_service` (6 036 428 states) checks `NoDanglingReference`,
`KeepsTheMostRecent` and the refinement `ImplementsThermoService` (item 12): a main thread that
opens and closes up to two nested contexts (`MaxNesting`) of up to two services (`MaxStarts`) of
either kind, and a worker; two fluid models with room for one reference (never for none: the command line
cannot ask for it); flashes of both
kinds at the same numbers, one of which is refused. In the code only the main program opens contexts; the
model lets other threads only ask. A request that runs while the service shuts down may fail or see
a reference of the old JVM (`raced`, `disturbed`), which a put after the shutdown leaves in the cache: the
promise is void until the next shutdown at rest, which the abstract service says too.

## What the code does not do as it says

Each of these is a run that TLC ends with a counterexample, with the quoted line in `PROJECT.json`.

- **`UpstreamChokeReplays`.** The upstream choke remembers the anti-surge configuration of
  its *last* probe and returns it with the root, which may be another probe. The pair may be
  outside capacity.
- **`EosFailureMeansNoSpeed`.** "EOS failed at all speeds" is concluded from the two ends of
  the boundary; the lower one may have failed for capacity, and speeds between them work.
- **`FullRecirculationIsRecoverable`.** Common-ASV pressure control runs the section at full
  recirculation outside the finder that recovers from `RateTooHigh` there; if a later stage
  chokes at that rate the exception ends the call though a lower rate meets the target.
- **`StonewallIsReported`.** If every drop probed exceeds stonewall, the bisection returns
  the smallest one unprobed, and running it raises out of `find_solution`.
- **`EachTrainGetsItsFraction`** (`fractions_permuted`). Rates in the order of the fractions are
  zipped with trains in the topological order of the overflow graph; an edge from a later train to an
  earlier one gives trains each other's fractions.
- **`StageNumberIsEvaluated`** (`interstage_stage_number`). The check of target pressures indexes the
  stages of one part of a split train with the stage number of the whole train: past the middle, with
  a choke on the last part, an IndexError.
- **`StreamsEnterWhereDeclared`** (`streams_out_of_order`). Ports are numbered stage by stage, outlets
  first, and indexed into streams in the order of the YAML.

The rest was met while modelling. The models behave like the code here, and the properties are stated
so that they hold of it; no run is spent on them.

*Process calculations*
- In the second pass of `MultiPressureSolver` a section short of its target replaces the failure of an
  earlier one (multi_pressure_solver.py:113), though `Solution.combine` keeps the first.
- Both multi-section solvers call section solvers and strategies, and run the configurations they return,
  outside any handler (multi_pressure_solver.py:75,84,98-111, multi_shaft_solver.py:45,54): a `RateTooHigh` that
  escapes a section (`FullRecirculationIsRecoverable`, `StonewallIsReported`) or a success that does not run
  (`UpstreamChokeReplays`) leaves the solver as an exception, with no section reported to have failed.
- A legacy train with `UPSTREAM_PRESSURE_CONTROL: DOWNSTREAM_CHOKE` does not reach the pressure between
  stages when choking is needed; `COMMON_ASV` may recirculate later stages beyond their stonewall, and with
  a side stream its loop for a constant recirculation does not end
  (compressor_train_common_shaft.py:1020-1030); individual ASV pressure control never reports power above the maximum
  and does not handle splitters and mixers; an upstream choke is tried at the lowest speed only; the maximum rate
  is searched with the rate modifiers the last time step left.
- A splitter that is asked for more than it has sets its last outlet to zero and scales the others
  down with a warning, though its docstring says it raises (legacy_splitter.py:73-85).
- A pump's maximum rate ignores the head margin, and is the minimum-flow rate when the head is above the
  chart; a stage of a simplified train whose head is too high has no failure status, or that of a rate too low when
  it recirculates. Recirculation may push a rate past the end of the chart: between two curves that is
  an IllegalStateException, on a curve it is silently valid.
- In sampled models the middle of the bounding box decides which faces are upper (convex_hull_common.py:110),
  which need not lie in the hull, and then faces are taken for the wrong side; the scale of the rate may be rounded to 0 (compressor_model_sampled_3d.py:124);
  correlated columns raise QhullError; `get_max_standard_rate` of a sampled model behind a turbine raises AttributeError.

*Energy model*
- `_is_validated` is set before mapping (model.py:384): after a mapping error a second `validate_for_run`
  returns at once. What stops an evaluation of the half-mapped model is the missing parent of some component.
- Without START, an energy usage model that ended before the first date raises a ProgrammingError; a generator set
  or a fuel that starts after END raises IndexError; an installation or a generator set whose components are all outside
  the run raises AssertionError or EcalcError. Dated variables written out of order are zipped with their values in the order written
  (variables_mapper.py:38).
- What a unit receives by cross-over does not cross over again, as the rates asked for decide (consumer_function.py:217).
- A cache option of 0 asks for the default size and does not disable the cache (run.py).
- Consumer mapping: the gaps of `KnownGap`; `CONDITION: 0` and a pressure of 0 count as not given; a
  train of multiple streams silently drops a stage that names a stream already used; TABULAR is allowed for a PUMP by
  the schema and refused by the mapper.

*Results*
- `TimeSeries.resample` says that "a value is assumed to be the same until the next observation" (rates.py:183), but
  `reindex(new).ffill()` (rates.py:202) first drops what was observed on any other date than a new start date: of values for
  [1,3) and [3,6), resampled to 0, 2, 4, 6, the period [4,6) is given the value of day 1. `ResultsStandForTheDays`
  claims the docstring's rule only while every resampling kept the date of the observation in force
  (`ObservedValuesKept`), and otherwise only that the value was in force earlier (`FilledFromThePast`).
- A stored oil volume cannot be exported without START (ValueError); dated categories out of order raise;
  the peak from shore is the last value observed on the start date of a reporting period and not the maximum in the period,
  contrary to queries.py:268-269; boilers, heaters and flares that burn diesel are counted under engines too; fuel of MISCELLANEOUS
  consumers and pumps is in no column.
- The comparison of results that only touch or do not meet raises IndexError; a power given by one side only is dropped.

## The proofs

### The section solver

`PipelineSectionSolverProofs` proves, for every number of stages, lattice, set of trains,
inlets and targets, and any units that satisfy `UnitsAssumption`:

| Theorem | States |
|---|---|
| `TypeCorrect` | `Spec => []TypeOK` |
| `NothingStale` | `Spec => []NoStaleEvaluation` |
| `SolutionsAreWhole` | `Spec => []SolutionSetsEveryLoop` |
| `CallsAreBounded` | `Spec => [](Rank \in 0 .. Longest) /\ [][Solve => Rank' < Rank]_vars` |
| `Inductive` | `Spec => []IInv`, the inductive invariant |

`NoStaleEvaluation` is inductive with what its steps say about `given`: the reset of
pressure control at the start sets the choke, or the loops; a speed probe sets the shaft and
every loop before it runs the section, also when anti-surge stops in the middle
(`SpeedProbed`).

`TypeOK` is not inductive. That the rates written are on the lattice follows from
`UnitsAssumption` only for a shaft that turns, so `IInv` adds that the shaft turns once a
speed has been probed; that the configuration of a solution is one of the section needs to
know which handlers it configures; and `SolutionSetsEveryLoop` needs that the configuration
carried into pressure control already sets the shaft and every loop, and that merging never
loses an entry. `IInv` also says that stages are solved one by one only under
INDIVIDUAL_ASV_PRESSURE, without which a stage's rate could be written to a loop the
section does not have.

The proof has one lemma per operator that ends a search or a strategy (`RateFinds`,
`StagewiseEnd`, `AntiSurgeEnds`, `SpeedProbed`, `CommonAsvEnds`, `DownstreamEnds`,
`UpstreamSearchEnds`, `FractionSearchEnds`, `StageFinds`): what it writes and returns
is a setting of handlers of the section. The step of `DownstreamEnds` is the one that is not
about membership: the drop it computes is a pressure because the strategy computes it
only above the target. One step per action of `Next` then cites the lemma of its strategy.

`CallsAreBounded` is the part of `EveryCallEnds` that needs no fairness. The speed finder calls
itself on the boundary an EOS failure leaves it with; that boundary is narrower by a speed at
least, so a call has no more than `Longest` steps, which is the number of stages, twice the number of
speeds and a constant. Every step lowers `Rank`, the number of steps left. That a call under way
takes its next step is `WF_vars(Solve)`, and to conclude from both that it ends is
left to TLC.

The assumptions are `SectionAssumption`, `UnitsAssumption`, `FractionsAssumption` and
`TargetsAssumption`; TLC evaluates all four on the instance of every run of the solver.

### Sections in series

`ProcessNetworkProofs` proves, for any number of sections, each with its control, surge,
stonewall and highest speed of the equation of state, and any targets:

| Theorem | States |
|---|---|
| `SeriesSolved` | `Spec => []SuccessMeetsEveryTarget` |
| `SeriesFailures` | `Spec => []FailuresAreReported` |
| `SeriesInductive` | `Spec => []SeriesInv`, the inductive invariant |

`SuccessMeetsEveryTarget` runs the returned configuration on fresh units, from the first section to
the last. The solvers never do: they run each section once, as soon as its configuration is known,
on units that hold what the pass before left. So the invariant (`SuccessInv`) says three things.
There are outlets under which the sections solved so far deliver their targets with the configuration
collected so far (`DeliversSoFar`), and the last of them is the inlet of the next section. A section
whose turn has not come has nothing configured, or in the second pass its speed
only (`OnlySpeedIsSet`). And the settings the code clears before a section runs again are all that can
differ from a fresh one (`Unthrottled`). Merging
configurations then leaves the earlier sections as they were. What the run of a whole series gives is a
function defined by recursion over the sections; `Recursion` of `Induction` gives it.

`FailuresAreReported` speaks of solvers that have returned; its invariant (`ReportedInv`) says the same of every step
(`ReportedSoFar`): the failure held is `NoFailure` exactly while no section has failed, and otherwise that of the first, or
on one shaft one below its target. `NoneFailedYet` adds that the first pass of a common shaft has no
failure behind it, since it returns the first one at once.

The assumption is `SeriesAssumption`: speeds and gains are integers, and each section has a target.
What a section solver ends with is `Outcomes` and `Escape`, which the theorems take as
`SectionSeries` defines them. That the section solver keeps what `Outcomes` promises of a success is
`SuccessMeetsTarget`, which TLC checks and which excludes recirculation under an upstream choke;
`Outcomes` and `SuccessMeetsEveryTarget` exclude it too.

### Stream distribution

| Theorem | States |
|---|---|
| `OverflowKept` | `Spec => []OverflowIsTheExcess` |

for any number of trains, fractions, edges, settings, and any set of rates each train can operate at.
The invariant (`DistributionInv` of `ProcessNetworkProofs`) has four parts. `NothingIsLost`
is the balance. `Placed` says that the order is topological, so an excess only goes to
trains whose turn is yet to come, which is what keeps it on the books. `Counted` is the types. `SentOn` says
that each train with an edge out has exactly one entry in the overflow map of its receiver, and that
this entry is the excess of what the train was given. The balance is a sum over a finite
set, and the proof moves one train from one side to the other with the lemmas about sums of `Induction`.

The second half of `OverflowIsTheExcess` is about the bisection. It accepts every probe and therefore
returns the last one, whether the train could run it or not. By induction over the iterations (`SearchIsClose`) the limit of the train stays between the ends, the
last probe is one of them, and after n iterations they are at most a 2^n-th of the rate and a lattice step apart.
The search ends when they are within the tolerance, or when the iterations are used up, so the rate
is off by the tolerance, rounded up on the lattice. With the code's numbers the tolerance is always reached first: 40 halvings
against 1/10 000, which is the conjunct `Precision <= Halvings[MaxIterations]` of `DistributionsAssumption`.

The same assumption says of `networkx.topological_sort` only what the library promises of an acyclic graph, which the
code has checked (`IsTopological`). `TopologicalSort` is the order that networkx
computes, and TLC evaluates the assumption for every graph of the instance.

### The thermodynamic service

`NeqsimServiceProofs` proves, for every number of clients, set of requests, size of the caches,
nesting of contexts and number of services:

| Theorem | States |
|---|---|
| `NothingDangles` | `Spec => []NoDanglingReference` |
| `Implements` | `Spec => ImplementsThermoService`, the refinement |
| `MostRecentKept` | `Spec => []KeepsTheMostRecent` |
| `Inductive` | `Spec => []IInv`, the inductive invariant |

`NoDanglingReference` says nothing of references that are not cached yet, and `Put` caches them. So
`IInv` is `TypeInv` and `Undisturbed`: unless a request ran during the last shutdown, every cached
reference *and* every reference a client holds between creating and using it is of the current
service, every flash cached or held is the one that was asked for and has a solution, and a
shutdown under way finds no reference cached and nobody busy. The latter is what makes forgetting the
service harmless: `clear_all` comes before the gateway is closed, and a client that asks in between
is what `raced` records. `TypeInv` adds that a service in use is up (one whose gateway failed to
close is forgotten all the same).

For the refinement each action has a lemma: cache look-ups that miss, and references created, looked
up or cached, are stutters of `ThermoService`; a hit, a refusal and the end of a flash are its `Answer`; a
shutdown is its `BeginShutdown` and `Stop`. A hit answers what was asked because a key is made of all
of the request (`RequestsAssumption`: flash, model and state are all there is to it).

`MostRecentKept` rests on `Recency`: no two entries of a cache have the same key, and the keys of the
flashes are those asked for last, in that order. A hit moves an entry to the end and `Put` of a key that is
already there replaces its entry: neither adds one, also when two clients miss the same key and both put
it. Only a new key on a full cache evicts, and it evicts one.

The assumptions are `ClientsAssumption`, `SizesAssumption`, `RequestsAssumption` and `NoneAssumption`
(`NONE` is neither a request nor a number); TLC evaluates them on the instance of `neqsim_service`.

### The life of a model

`EcalcProofs` proves, for every tree of installations, generator sets, consumers and emitters, every
set of resources and variables, any number of calls in any order, and whatever each of them raises:

| Theorem | States |
|---|---|
| `NoPartEvaluated` | `Spec => []NothingEvaluatedInPart` |
| `MappedModelRuns` | `Spec => []RunsOnceMapped` |
| `ModelInductive` | `Spec => []ModelInv`, the inductive invariant |

The code counts a model as validated before it maps it, so after a mapping error later calls go on with
what was registered. What stops them is that an edge needs both of its ends: the component that failed, or one
above it, is missing. That this always catches them, and never a model that was mapped in full,
is a fact about the order of the steps: a component is registered after all below it and before its parent. So
after the first m steps, with m less than all, some registered component has a parent that is not. The
invariant (`EnergyInv` of `EnergyModelProofs`) says that what is registered is what the first m steps
register (`RegisteredUpTo`), in their order, and how m follows from what
the calls did (`MappedUpTo`). There is one exception that the invariant has to name: when nothing was registered
before the error, the empty graph is built (`BuiltWhole`), and then there is nothing to evaluate.

`RunsOnceMapped` adds that evaluation in the order of registration finds the results of all consumers below
a generator set (`EvaluatedInOrder`), and that a train or pump that was
simulated belongs to a registered component (`SimulatesComponents`).

The assumption is `YamlsAssumption`: of a model that can be read the schema holds. That is, its parts come
in lists and names are unique (`IsWellFormed`, from `YamlAsset.validate_unique_component_names`), and `IsTyped`:
dates are within the range of dates, and numbers are numbers; what is dated comes in a list
(`IsDated`, from `YamlTemporalModel`); variables have names of their own, as the keys of a mapping do, and none
is the name of a series, whose references contain a semicolon; the load of a consumer is a time series or a variable
(from `validate_expression`). `IsSystem`, a part of it, also has the cross-overs of a setting name units of the
system. The schema does not check this; a system that breaks it ends in an IndexError and is not modelled.

### What is evaluated of a model

| Theorem | States |
|---|---|
| `PowerSupplied` | `Spec => [](DatesInOrder(yaml) => PowerIsBalanced)` |
| `FirstSettingRuns` | `Spec => [](DatesInOrder(yaml) => FirstSufficientSetting)` |
| `ResultsInductive` | `Spec => []SettledInv`, the inductive invariant |

for every model, every period of the run and any calls. Both properties read a consumer's models by their
dates alone (`InForce`); the code cuts them to the run, drops those outside, looks up indices in the
global periods, slices the variables with them and fills the gaps. `Settled` of `EnergyResultsProofs` says what the two
have in common once the model counts as validated:

- `VariablesTyped`: the global periods are those between the dates of the run, and every series and every
  variable has a number in each of them.
- `ResultsStand`: a stored result is what evaluation would give now. A consumer's result may be stored again by a later
  call, after its generator set's; the same value comes out, so the generator set's result stands too.
- `ModelsClean`: what was mapped had no error, so no entry that could not be mapped is left in it.

From there the argument is about dates. Those of the models are among the global dates (`GlobalTimeline`), so an entry that is cut
to the run begins and ends on one of them (`CutFound`), and in a period at most one entry answers, the
one in force (`KeptInForce`). The entry's slice of the loads then has the load of that period at the place the code reads
(`EntryAnswers`). For a system the recursion over the settings leaves each
period on the first setting that serves it (`FirstSettingUsed`), and cross-over moves rates without losing any
(`CrossOverKeepsTheSum`). For a generator set the sum over its children in the graph is the sum over
its consumers in the model, of which those left out draw nothing (`DrawnBySet`).

`DatesInOrder` says two things. The models of a consumer are written in the order of their dates: the code
checks only that what is left of them within the run does not overlap, so with models dated 5, 50 and
20 in a run from 10 to 40 the first holds until 50 and the last from 20 on, while by their dates the first would end at 20.
And a run without a start has no time series from before the start it is given. 863 of
the 923 readable models of the run `ecalc` are in order; TLC checks both properties for the others as well.

### What is reported of a model

| Theorem | States |
|---|---|
| `VariablesResolved` | `Spec => [](VariablesInOrder(yaml) => VariablesAsDefined)` |
| `EmissionsFollowed` | `Spec => [](FuelsInOrder(yaml) => EmissionsFollowTheFuel)` |
| `ValidIsCoping` | `Spec => [](SetsInOrder(yaml) => ValidWhenAllCope)` |
| `ReportInductive` | `Spec => []ReportInv`, the inductive invariant |

`ReportInv` adds two things to `SettledInv`, both in `EnergyReportProofs`.

- `RoundsKept`, of the variables. A variable that is resolved has the value its expressions have *now*: it was
  computed while others were still open, and stays right because what it uses was resolved before it and is
  not computed again (no two variables have the same name). What is still open is not resolved, though the loop removes
  from the list it runs over and steps over the next (`RemovedPlaces`). In a round that has resolved nothing so far, what the
  loop has passed could not be resolved; so when a round ends without progress nothing that is left can.
- `ReportStands`, of the report. A report is there only of a model that was mapped and evaluated whole, and is the one that would be made
  now (`ReportNow`): a result that a later call stores over an old one is the same (`ReportStore`, from `ResultsStand`), so validating and
  evaluating again never leaves a report that disagrees with the results.

For the values of variables and fuels the argument goes on as above, with `InForceOf` for anything dated
(`HeldInForce`, `FactorInForce`). The periods of a variable are those between its sorted dates,
its expressions in the order they are written, so `VariablesInOrder` says that these are the same; without it the property is false
(see "What the code does not do as it says"), and the instance has no such variable. For the sums of a report the users of
fuel are grouped by their installation (`UsersGrouped`, from `SumGroups` of `Induction`). For validity, what hangs below an
installation in the graph is what belongs to it in the model (`OwnBelow`, both ways), every consumer or generator set in the tree
has a result once it is reported, a result is valid exactly when the model in force copes (`EntryAnswers`,
`GeneratorValid`), and a consumer left out of the tree has no model in force that could fail (`ConsumerValid`).

`FuelsInOrder` and `SetsInOrder` are `DatesInOrder` for fuels and for generator sets: of the 923 readable models of the
run, 907 and 863 are; TLC checks both properties for the others as well. The run reaches reports of models
for which all three hypotheses hold.

### The difference of two results

| Theorem | States |
|---|---|
| `DeltaIsExact` | `Spec => []DeltaIsDayByDay` |
| `DeltaInductive` | `Spec => []DeltaInv`, the inductive invariant |

for any two results, whatever their periods, components, emissions and units.

`DeltaInv` says stage by stage that what the comparison holds is what the two results give, and that a comparison
without a day in common gets past the fitting only when neither result has a component (otherwise the span asked
for raises an IndexError). What remains is about dates again.

- The dates of both results between the later of their starts and the earlier of their ends make the periods in
  common (`CommonTimeline`). Each is a period between two such dates that follow one another, so each date of a
  result that lies between them is one of theirs (`Refines`), and has a place among them (`Placing`).
- A result is fitted by splitting each of its periods into the periods between the places of its two dates
  (`PiecesBetween`); one that ends before the periods in common, or starts after them, has none. So a value is repeated as often as
  its period has pieces, and what is filled up to the i-th period is right up to the place of its end (`FittedPlaced`, by
  induction over the periods). On every day the fitted values are what they were (`FittedOnDay`).
- What one result does not have is nothing on every day (`NormalizedNone`), a difference is taken period by period
  (`DifferenceOnDay`), and the periods in common hold the days that both results cover (`DaysBetween`).

The assumption is `ComparisonsAssumption`: the periods of a result follow one another, as
`Periods.create_periods` makes them, and everything in it has one value for each period, as `TimeSeries`
checks. TLC evaluates it on the instance of `ecalc`.

### Induction in these proofs

The library states induction with a predicate as a parameter, which the installed provers do not
instantiate. `Induction` states it with sets instead (`FromZero`, from the well-foundedness of `<` on
numbers), and derives from it that a recursive definition over an interval has the values
its equations say (`Recursion`), and that a sum over a finite set is changed by one element as expected
(`SumAdd`, `SumRemove`). That is enough for the folds above. For
a fold over a sequence that adds up what it merges or cuts, as in `Exporter` or `TimeSeries`, the
algebra of the data would have to be proved first, and was not.

### What is only model-checked

- `EveryCallEnds`: liveness under fairness is beyond the provers. `CallsAreBounded` is proved instead.
- `SuccessMeetsTarget`, `PressureFailuresAreGenuine`, `PressureControlOnlyWhenNeeded`, `CapacityFailureIsGenuine`: they
  depend on the charts. A root is within tolerance of a target only if the outlet pressure does not change by more
  from one point of the lattice to the next, and a failure is genuine only if pressure grows with speed
  and capacity is an interval. The code guarantees neither, so no assumption on the units says it.
- `OnlyToleratedExceptions`: depends on which errors the units raise at which rates.
- `TrainSuccessIsReal`, `FeasibleIsFound`, `MaxRateIsTheLimit`, `RunsWhatItCan`, `MaxRateIsReal` and
  `ChartHeadIsMonotone`: they compare searches with an exhaustive search of the instance's grid, and hold for charts and
  hulls with the shapes given above.
- `PowerIsBalanced`, `FirstSufficientSetting`, `EmissionsFollowTheFuel` and `ValidWhenAllCope` of models whose dates are not in order.
- `OnlyKnownErrorsEscape`, `RunsAsDeclared`: pure functions of one consumer; the instance has all kinds.
- `ResultsStandForTheDays`, `ColumnsCountTheDays`: sums over periods that are merged and cut, see above.

## What is not modelled

`PROJECT.json` gives each part with its reason. In short:

- thermodynamics: a flash is its request, and the process units that only transform a stream
  (mixer, splitter, temperature setter, liquid remover, pressure dropper) are left out as they
  add no control;
- power, fuel and efficiency of a single operating point: a value computed from one other value,
  the turbine, the tables and the cable loss included;
- the algorithms of bisection and root finding inside the section solver: they appear as
  the set of their endings;
- text: reading YAML and resources, schemas of what is not a consumer, expression
  parsing, units, formatting, plots, flow diagrams, the command line beyond its options for caches;
- the generic charts (`chart_creator`), which compute one chart from a design point;
- `PriorityOptimizer`, which nothing calls.

## Plan

Modelling is done, in the order: section solver; sections in series and stream distribution;
NeqSim service; model life cycle with variables and systems; legacy trains, sampled models, charts and
pumps; consumer mapping; time series, export and comparison.

Proved so far, in this order: the section solver; the service and its refinement; caches;
sections in series; stream distribution; the life of a model; the bound on a call; what is evaluated of a model; its
variables and what is reported of it; the comparison of two results.

To refine, if the resolution of the section solver should be studied further: bisection and the
bracketing root finder step by step, against the sets of endings that `SectionStrategies` assumes.

----------------------------- MODULE EnergyModel -----------------------------
(***************************************************************************)
(* The life of a model (presentation/yaml/model.py, class YamlModel): it is *)
(* validated and mapped to a tree of energy components, evaluated component *)
(* by component, and reported.  A caller may make these calls in any order  *)
(* and again after one has raised.                                          *)
(*                                                                         *)
(* A yaml model is a record [readable, start, end, series, variables,       *)
(* installations].  readable holds the outcomes that reading the resources  *)
(* and checking the schema may have.  An installation has a fuel, generator *)
(* sets, fuel consumers and venting emitters; a generator set has a fuel,   *)
(* dated models and electricity consumers; a consumer has a fuel and dated  *)
(* energy usage models.  Dated things are sequences of [date, model].       *)
(* An energy usage model is read by its kind: DIRECT uses the load as it is,*)
(* PROCESS is a train or a pump that is evaluated with all others before the*)
(* components are, SYSTEM a consumer system, and INVALID one that cannot be *)
(* mapped.  The regularity is 1.                                            *)
(***************************************************************************)
EXTENDS VariablesMapper, ConsumerSystem

CONSTANTS Asset,     \* the identity of the root
          MaxCalls   \* bound on the calls made

DIRECT == "DIRECT"  PROCESS == "PROCESS"  SYSTEM == "SYSTEM"  INVALID == "INVALID"

VALIDATE == "validate_for_run"
EVALUATE == "evaluate_energy_usage"
REPORT   == "get_asset_result"

Invalid == "ModelValidationException"

VARIABLES yaml,          \* the configuration
          call,          \* the call that runs
          activity,      \* what it is doing
          calls,         \* how many calls were made
          raised,        \* what the last call raised
          is_validated, mapped,  \* _is_validated, and whether _input is set
          next,          \* the next step of the mapping
          nodes, edges,  \* what the builder has registered
          simulated,     \* the consumers in consumer_to_model_map
          built,         \* whether the energy model is built and cached
          results,       \* _consumer_results
          report         \* what get_asset_result returned last

mapVars    == <<is_validated, mapped, next, nodes, edges, simulated>>
resultVars == <<built, results, report>>
energyModelVars == <<yaml, call, activity, calls, raised, mapVars, resultVars, variablesVars>>

\* All dates in the yaml.  What is not dated has the date DateMin.
DatesOf(entries) == {e.date : e \in ToSet(entries)} \ {DateMin}

ConsumersOf(model) ==
  UNION {ToSet(x.consumers) \cup UNION {ToSet(g.consumers) : g \in ToSet(x.generators)} :
           x \in ToSet(model.installations)}

GeneratorsOf(model) == UNION {ToSet(x.generators) : x \in ToSet(model.installations)}

FuelsOf(model) == {x.fuel : x \in ToSet(model.installations) \cup GeneratorsOf(model) \cup ConsumersOf(model)}

DateKeys(model) ==
  UNION ({DatesOf(v.entries) : v \in ToSet(model.variables)}
           \cup {DatesOf(f) : f \in FuelsOf(model)}
           \cup {DatesOf(x.models) : x \in GeneratorsOf(model) \cup ConsumersOf(model)})

SeriesDates(model) == UNION {DOMAIN s.points : s \in {x \in model.series : x.influences}}

(***************************************************************************)
(* Mapping.  A component is registered when all below it have been mapped.  *)
(***************************************************************************)
Step(kind, part, parent, fuel) == [kind |-> kind, part |-> part, parent |-> parent, fuel |-> fuel]

ConsumerSteps(kind, consumers, parent, fuel) ==
  [k \in DOMAIN consumers |-> Step(kind, consumers[k], parent, fuel)]

\* Mutant: a generator set is registered before its consumers.
GeneratorFirst(generator, installation) ==
  <<Step("generator_fuel", generator, installation.id, installation.fuel)>>
    \o <<Step("generator", generator, installation.id, installation.fuel)>>
    \o ConsumerSteps("electricity", generator.consumers, generator.id, installation.fuel)

GeneratorSteps(generator, installation) ==
  <<Step("generator_fuel", generator, installation.id, installation.fuel)>>
    \o ConsumerSteps("electricity", generator.consumers, generator.id, installation.fuel)
    \o <<Step("generator", generator, installation.id, installation.fuel)>>

InstallationSteps(installation) ==
  FlattenSeq([g \in DOMAIN installation.generators |-> GeneratorSteps(installation.generators[g], installation)])
    \o ConsumerSteps("fuel", installation.consumers, installation.id, installation.fuel)
    \o ConsumerSteps("emitter", installation.emitters, installation.id, installation.fuel)
    \o <<Step("installation", installation, Asset, <<>>)>>

ModelSteps(model) ==
  FlattenSeq([i \in DOMAIN model.installations |-> InstallationSteps(model.installations[i])])
    \o <<Step("asset", [id |-> Asset], Asset, <<>>)>>

MappingSteps == ModelSteps(yaml)

\* What the schema has made sure of when a model can be read: the parts come in
\* lists, and no two components have the same name (YamlAsset.
\* validate_unique_component_names).
IsList(s) == s \in Seq(ToSet(s))

IsWellFormed(model) ==
  /\ IsList(model.installations)
  /\ \A x \in ToSet(model.installations) :
       /\ IsList(x.generators) /\ IsList(x.consumers) /\ IsList(x.emitters)
       /\ \A g \in ToSet(x.generators) : IsList(g.consumers)
  /\ LET steps      == ModelSteps(model)
         components == {k \in DOMAIN steps : steps[k].kind # "generator_fuel"}
     IN  \A j, k \in components : steps[j].part.id = steps[k].part.id => j = k

IsDated(entries) ==
  /\ IsList(entries)
  /\ \A e \in ToSet(entries) : e.date \in Int /\ DateMin <= e.date /\ e.date < DateMax

\* Dates are dates, numbers are numbers, variables have names of their own, and what an
\* expression of a consumer refers to is a time series or a variable (YamlExpressionType).
IsTyped(model) ==
  /\ model.start \in Int /\ (model.start # NoDate => DateMin <= model.start)
  /\ model.end \in Int /\ model.end <= DateMax
  /\ DateKeys(model) \subseteq Int /\ SeriesDates(model) \subseteq Int /\ IsFiniteSet(SeriesDates(model))
  /\ \A s \in model.series :
       IsFiniteSet(DOMAIN s.points) /\ \A d \in DOMAIN s.points : d \in Int /\ s.points[d] \in Int
  /\ IsList(model.variables)
  /\ \A j, k \in DOMAIN model.variables : model.variables[j].name = model.variables[k].name => j = k
  /\ \A v \in ToSet(model.variables) :
       /\ \A s \in model.series : s.name # v.name
       /\ IsDated(v.entries)
       /\ \A e \in ToSet(v.entries) : e.value.plus \in Int /\ IsFiniteSet(e.value.uses)
  /\ \A f \in FuelsOf(model) : IsDated(f) /\ \A e \in ToSet(f) : e.model \in Int
  /\ \A g \in GeneratorsOf(model) :
       IsDated(g.models) /\ \A e \in ToSet(g.models) : e.model.slope \in Int /\ e.model.capacity \in Int
  /\ \A c \in ConsumersOf(model) :
       /\ IsDated(c.models)
       /\ \A e \in ToSet(c.models) :
            /\ e.model.kind \in {DIRECT, PROCESS, SYSTEM, INVALID}
            /\ \E x \in model.series \cup ToSet(model.variables) : x.name = e.model.load
            /\ e.model.kind = PROCESS => e.model.capacities[1] \in Int
            /\ e.model.kind = SYSTEM => IsSystem(e.model)

\* YamlModel.period, the target every temporal model is cut to.
Target == <<IF yaml.start = NoDate THEN DefaultStart ELSE yaml.start, yaml.end>>

Kept(entries) == ForTarget(FromDateKeys(entries), Target)

Extent(tm) == <<Start(Head(tm).period), End(Last(tm).period)>>

FuelOf(step) == IF step.part.fuel # <<>> THEN step.part.fuel ELSE step.fuel

\* ConsumerFunctionMapper: the periods are looked up before any model is mapped,
\* and the order is only checked when all are.
ModelsError(entries) ==
  CASE \E e \in ToSet(Kept(entries)) : PeriodIndices(e.period, periods) = Misaligned -> Misaligned
    [] \E e \in ToSet(Kept(entries)) : e.model.kind = INVALID -> Invalid
    [] ~IsSortedModel(Kept(entries)) -> Invalid
    [] OTHER -> NoError

HasUsableFuel(step) == FuelOf(step) # <<>> /\ IsSortedModel(Kept(FuelOf(step)))

\* What has to hold of the fuel of a consumer or a generator set: TemporalModel.
\* get_period takes the first and the last entry, of a model that may have none.
FuelError(step) ==
  LET fuel == Kept(FuelOf(step))
      used == Kept(step.part.models)
  IN  CASE ~HasUsableFuel(step) -> Invalid
        [] used = <<>> \/ fuel = <<>> -> "IndexError"
        [] ~ContainsPeriod(Extent(fuel), Extent(used)) -> Invalid
        [] OTHER -> NoError

IsConsumer(step) == step.kind \in {"electricity", "fuel"}

\* A consumer none of whose models is within the period of the run is left out.
IsFiltered(step) == IsConsumer(step) /\ Kept(step.part.models) = <<>>

MappingError(step) ==
  CASE step.kind = "generator_fuel" ->
         IF HasUsableFuel(step) /\ IsSortedModel(Kept(step.part.models)) THEN NoError ELSE Invalid
    [] step.kind = "generator" -> FuelError(step)
    [] IsConsumer(step) ->
         IF \/ ModelsError(step.part.models) # NoError
            \/ step.kind = "electricity"
            \/ IsFiltered(step)
         THEN ModelsError(step.part.models) ELSE FuelError(step)
    [] OTHER -> NoError

\* The trains and pumps that are registered before the mapping of the consumer
\* ends, or raises.
RegistersModels(step) ==
  /\ IsConsumer(step)
  /\ ModelsError(step.part.models) # Misaligned
  /\ \E k \in DOMAIN Kept(step.part.models) :
       /\ Kept(step.part.models)[k].model.kind = PROCESS
       /\ \A j \in 1..k : Kept(step.part.models)[j].model.kind # INVALID

IsComponent(step) == step.kind # "generator_fuel" /\ ~IsFiltered(step)

Register(step) ==
  IF IsComponent(step)
  THEN /\ nodes' = Append(nodes, step.part.id)
       /\ edges' = IF step.kind = "asset" THEN edges ELSE edges \cup {<<step.parent, step.part.id>>}
  ELSE UNCHANGED <<nodes, edges>>

(***************************************************************************)
(* The tree of components.                                                  *)
(***************************************************************************)
Children(id)    == {e[2] : e \in {f \in edges : f[1] = id}}
Below(S)        == S \cup UNION {Children(c) : c \in S}
\* Mutant: only what is next to a component counts as below it.
NextBelow(id) == Children(id)

\* The tree has an asset, installations, generator sets and consumers.
AllChildren(id) == Below(Below(Children(id)))

\* Mutant: a missing end of an edge is added.
AddsMissing(e) == TRUE

\* Graph.add_edge wants both ends to be nodes.
CanAddEdge(e) == e[1] \in ToSet(nodes) /\ e[2] \in ToSet(nodes)

\* The steps whose component is in the tree.
StepsOf(kinds) == {s \in ToSet(MappingSteps) : s.kind \in kinds /\ s.part.id \in ToSet(nodes)}
StepOf(id)     == CHOOSE s \in StepsOf({"electricity", "fuel", "generator", "emitter", "installation", "asset"}) :
                    s.part.id = id

(***************************************************************************)
(* Evaluation.  A result is a sequence of records, one per period.          *)
(***************************************************************************)
PeriodsOf(e) == LET found == PeriodIndices(e.period, periods) IN found[1]..found[2]

\* The entry of a temporal model that answers for the period t, if any.
EntriesAt(tm, t) == {e \in ToSet(tm) : Intersects(e.period, Span(periods)) /\ t \in PeriodsOf(e)}

\* Mutant: the values of a model are taken from the start of the run.
LoadsFromStart(e) ==
  LET found == PeriodIndices(e.period, periods)
  IN  SubSeq(processed[e.model.load], 1, found[2] - found[1] + 1)

LoadsOf(e) ==
  LET found == PeriodIndices(e.period, periods)
  IN  SubSeq(processed[e.model.load], found[1], found[2])

AsIs(loads) == [energy |-> loads, valid |-> [t \in DOMAIN loads |-> TRUE], used |-> [t \in DOMAIN loads |-> 0]]

WithinChart(model, loads) ==
  [AsIs(loads) EXCEPT !.valid = [t \in DOMAIN loads |-> loads[t] <= model.capacities[1]]]

EntryResult(e) ==
  CASE e.model.kind = DIRECT  -> AsIs(LoadsOf(e))
    [] e.model.kind = PROCESS -> WithinChart(e.model, LoadsOf(e))
    [] e.model.kind = SYSTEM  -> SystemResult(e.model, LoadsOf(e))

\* A period without a model uses nothing and is valid.
Idle == [energy |-> 0, valid |-> TRUE, used |-> 0]

\* The results of the models one after the other, filled to the global periods.
ConsumerResult(part) ==
  LET tm == Kept(part.models)
      ResultAt(e, t) == LET r == EntryResult(e)
                            i == t - PeriodIndices(e.period, periods)[1] + 1
                        IN  [energy |-> r.energy[i], valid |-> r.valid[i], used |-> r.used[i]]
  IN  [t \in DOMAIN periods |->
         IF EntriesAt(tm, t) = {} THEN Idle ELSE ResultAt(CHOOSE e \in EntriesAt(tm, t) : TRUE, t)]

\* Context.get_power_requirement: what the consumers of the generator set draw.
PowerRequirement(id) ==
  [t \in DOMAIN periods |-> SumFunction([c \in Children(id) |-> results[c][t].energy])]

\* No fuel rate is known outside the models of a generator set: it counts as 0,
\* and the period is not valid.
GeneratorResult(part, power) ==
  LET Supplied(m, p) == [power  |-> p,
                         energy |-> IF p > 0 THEN m.slope * Earlier(p, m.capacity) ELSE 0,
                         valid  |-> m.capacity - p >= 0]
  IN  [t \in DOMAIN periods |->
         IF EntriesAt(Kept(part.models), t) = {}
         THEN [power |-> power[t], energy |-> 0, valid |-> FALSE]
         ELSE Supplied((CHOOSE e \in EntriesAt(Kept(part.models), t) : TRUE).model, power[t])]

(***************************************************************************)
(* Reporting.                                                               *)
(***************************************************************************)
FuelUsers(of)  == {s \in StepsOf({"generator", "fuel"}) : s.parent \in of}
FuelRate(users, t) == SumFunction([s \in users |-> results[s.part.id][t].energy])

\* Mutant: the first fuel of the run holds throughout.
FirstFactor(step, t) == Head(Kept(FuelOf(step))).model

\* FuelModel.evaluate_emissions: nothing is emitted where no fuel is known.
EmissionFactor(step, t) == SumFunction([e \in EntriesAt(Kept(FuelOf(step)), t) |-> e.model])

EmissionRate(users, t) ==
  SumFunction([s \in users |-> results[s.part.id][t].energy * EmissionFactor(s, t)])

\* What has no result of its own, as a venting emitter, is valid.
Validity(id, t) == \A c \in AllChildren(id) : c \in DOMAIN results => results[c][t].valid

ContainerReport(id, of) ==
  [fuel      |-> [t \in DOMAIN periods |-> FuelRate(FuelUsers(of), t)],
   emissions |-> [t \in DOMAIN periods |-> EmissionRate(FuelUsers(of), t)],
   valid     |-> [t \in DOMAIN periods |-> Validity(id, t)]]

InstallationIds == {x.id : x \in ToSet(yaml.installations)}

ReportError(installation) ==
  LET evaluable == {s.part.id : s \in StepsOf({"generator", "fuel", "electricity"})}
  IN  CASE ~(evaluable \cap AllChildren(installation.id) \subseteq DOMAIN results) -> "AttributeError"
        [] Children(installation.id) = {} -> "AssertionError"
        [] OTHER -> NoError

FirstError(errors) ==
  LET first == SelectInSeq(errors, LAMBDA e : e # NoError)
  IN  IF first = 0 THEN NoError ELSE errors[first]

ReportErrors ==
  IF ~mapped THEN <<"AssertionError">>
  ELSE [i \in DOMAIN yaml.installations |-> ReportError(yaml.installations[i])]

(***************************************************************************)
(* The calls.                                                               *)
(***************************************************************************)
Nothing == [installations |-> <<>>]

InitEnergyModel ==
  /\ call = "none" /\ activity = "idle" /\ calls = 0 /\ raised = NoError
  /\ is_validated = FALSE /\ mapped = FALSE /\ next = 1
  /\ nodes = <<>> /\ edges = {} /\ simulated = {}
  /\ built = FALSE /\ results = <<>> /\ report = Nothing
  /\ periods = <<>> /\ unresolved = <<>> /\ processed = <<>> /\ cursor = 1 /\ progressed = FALSE

Return(error) == activity' = "idle" /\ raised' = error /\ UNCHANGED <<yaml, call, calls>>

GoOn(to) == activity' = to /\ UNCHANGED <<yaml, call, calls, raised>>

\* What a call does once the model counts as validated.
AfterValidation(c) == IF c = VALIDATE THEN "idle" ELSE "building"

Call(c) ==
  /\ activity = "idle"
  /\ calls < MaxCalls
  /\ call' = c /\ calls' = calls + 1 /\ raised' = NoError
  /\ activity' = IF is_validated THEN AfterValidation(c) ELSE "checking"
  /\ UNCHANGED <<yaml, mapVars, resultVars, variablesVars>>

\* Resources, schema and time vector: nothing is kept of what is refused.
Check ==
  LET dates == GlobalDates(SeriesDates(yaml), yaml.start, yaml.end, DateKeys(yaml))
  IN  /\ activity = "checking"
      /\ \E isReadable \in yaml.readable :
           IF isReadable /\ dates # {}
           THEN /\ StartVariables(yaml.variables, yaml.series, CreatePeriods(SortedDates(dates), FALSE, FALSE))
                /\ GoOn("variables")
           ELSE Return(Invalid) /\ UNCHANGED variablesVars
      /\ UNCHANGED <<mapVars, resultVars>>

ResolveVariables ==
  /\ activity = "variables"
  /\ VisitVariable \/ NextRound
  /\ UNCHANGED <<yaml, call, activity, calls, raised, mapVars, resultVars>>

\* The model counts as validated before it is mapped.
EndVariables ==
  /\ activity = "variables"
  /\ RoundEnded
  /\ ~Continues
  /\ IF unresolved = <<>>
     THEN is_validated' = TRUE /\ GoOn("mapping")
     ELSE UNCHANGED is_validated /\ Return(Invalid)
  /\ UNCHANGED <<mapped, next, nodes, edges, simulated, resultVars, variablesVars>>

MapStep ==
  /\ activity = "mapping"
  /\ next <= Len(MappingSteps)
  /\ LET step == MappingSteps[next]
     IN  /\ simulated' = simulated \cup (IF RegistersModels(step) THEN {step.part.id} ELSE {})
         /\ next' = next + 1
         /\ IF MappingError(step) = NoError
            THEN Register(step) /\ GoOn(activity)
            ELSE Return(MappingError(step)) /\ UNCHANGED <<nodes, edges>>
  /\ UNCHANGED <<is_validated, mapped, resultVars, variablesVars>>

EndMapping ==
  /\ activity = "mapping"
  /\ next > Len(MappingSteps)
  /\ mapped' = TRUE
  /\ GoOn(AfterValidation(call))
  /\ UNCHANGED <<is_validated, next, nodes, edges, simulated, resultVars, variablesVars>>

\* The energy model is built once; a build that raises is tried again.
Build ==
  /\ activity = "building"
  /\ IF built \/ \A e \in edges : CanAddEdge(e)
     THEN built' = TRUE /\ GoOn(IF call = EVALUATE THEN "simulating" ELSE "reporting")
     ELSE UNCHANGED built /\ Return("ValueError")
  /\ UNCHANGED <<mapVars, results, report, variablesVars>>

\* All trains and pumps are evaluated, and their results looked up by component.
Simulate ==
  /\ activity = "simulating"
  /\ IF simulated \subseteq ToSet(nodes)
     THEN GoOn("evaluating") /\ next' = 1
     ELSE Return("KeyError") /\ UNCHANGED next
  /\ UNCHANGED <<is_validated, mapped, nodes, edges, simulated, resultVars, variablesVars>>

Store(id, result) ==
  results' = [c \in DOMAIN results \cup {id} |-> IF c = id THEN result ELSE results[c]]

EvaluateConsumer ==
  /\ activity = "evaluating"
  /\ next <= Len(nodes)
  /\ IsConsumer(StepOf(nodes[next]))
  /\ Store(nodes[next], ConsumerResult(StepOf(nodes[next]).part))
  /\ next' = next + 1
  /\ UNCHANGED <<yaml, call, activity, calls, raised, is_validated, mapped, nodes, edges, simulated,
                 built, report, variablesVars>>

EvaluateGeneratorSet ==
  /\ activity = "evaluating"
  /\ next <= Len(nodes)
  /\ StepOf(nodes[next]).kind = "generator"
  /\ LET id    == nodes[next]
         error == CASE ~(Children(id) \subseteq DOMAIN results) -> "KeyError"
                    [] Children(id) = {} -> "EcalcError"
                    [] OTHER -> NoError
     IN  IF error = NoError
         THEN Store(id, GeneratorResult(StepOf(id).part, PowerRequirement(id))) /\ GoOn(activity)
         ELSE Return(error) /\ UNCHANGED results
  /\ next' = next + 1
  /\ UNCHANGED <<is_validated, mapped, nodes, edges, simulated, built, report, variablesVars>>

\* An emitter, an installation and the asset are not evaluated.
PassOver ==
  /\ activity = "evaluating"
  /\ next <= Len(nodes)
  /\ StepOf(nodes[next]).kind \in {"emitter", "installation", "asset"}
  /\ next' = next + 1
  /\ UNCHANGED <<yaml, call, activity, calls, raised, is_validated, mapped, nodes, edges, simulated,
                 resultVars, variablesVars>>

EndEvaluation ==
  /\ activity = "evaluating"
  /\ next > Len(nodes)
  /\ Return(NoError)
  /\ UNCHANGED <<mapVars, resultVars, variablesVars>>

Report ==
  /\ activity = "reporting"
  /\ Return(FirstError(ReportErrors))
  /\ IF FirstError(ReportErrors) = NoError
     THEN report' = [asset         |-> ContainerReport(Asset, InstallationIds),
                     installations |-> [id \in InstallationIds |-> ContainerReport(id, {id})]]
     ELSE UNCHANGED report
  /\ UNCHANGED <<built, results, mapVars, variablesVars>>

NextEnergyModel ==
  \/ \E c \in {VALIDATE, EVALUATE, REPORT} : Call(c)
  \/ Check \/ ResolveVariables \/ EndVariables
  \/ MapStep \/ EndMapping \/ Build
  \/ Simulate \/ EvaluateConsumer \/ EvaluateGeneratorSet \/ PassOver \/ EndEvaluation
  \/ Report

(***************************************************************************)
(* Properties.                                                              *)
(***************************************************************************)
\* The dated thing in force in period t, by its date alone.
InForce(entries, t) ==
  {e \in ToSet(entries) :
     /\ e.date <= Start(periods[t])
     /\ \A f \in ToSet(entries) : f.date <= Start(periods[t]) => f.date <= e.date}

LoadOf(e, t) == processed[e.model.load][t]

Suffices(e, i, t) == WithinCapacity(e.model, e.model.settings[i], LoadOf(e, t))

FirstSufficient(e, t) ==
  LET all == DOMAIN e.model.settings
      sufficient == {i \in all : Suffices(e, i, t)}
  IN  IF sufficient = {} THEN Max(all) ELSE Min(sufficient)

\* What a consumer draws in period t, read off its models.
Drawn(part, t) ==
  SumFunction(
    [e \in InForce(part.models, t) |->
       IF e.model.kind = SYSTEM
       THEN SumFunction(AskedRates(e.model.settings[FirstSufficient(e, t)], LoadOf(e, t)))
       ELSE LoadOf(e, t)])

\* Nothing is evaluated of a model that was mapped in part only.  A model counts
\* as validated before it is mapped, so a call after one that raised goes on
\* with what was registered; the missing parent of some component stops it.
NothingEvaluatedInPart == DOMAIN results # {} => mapped

\* The variables end up as they are defined, whatever the order they are
\* written in: none is given up that could be resolved, and each has in every
\* period the value of the expression in force, computed from resolved values.
VariablesAsDefined ==
  activity \notin {"checking", "variables"} /\ periods # <<>> =>
    /\ \A k \in DOMAIN unresolved : ~(Required(unresolved[k]) \subseteq DOMAIN processed)
    /\ \A v \in ToSet(yaml.variables) : v.name \in DOMAIN processed =>
         \A t \in DOMAIN periods :
           processed[v.name][t] =
             SumFunction([e \in InForce(v.entries, t) |-> Evaluated(e.value, processed, t)])

\* A generator set supplies in every period what its consumers draw, those that
\* come, change and go during the run included.
PowerIsBalanced ==
  \A step \in StepsOf({"generator"}) : step.part.id \in DOMAIN results =>
    \A t \in DOMAIN periods :
      results[step.part.id][t].power =
        SumFunction([c \in ToSet(step.part.consumers) |-> Drawn(c, t)])

\* A model that was mapped can be evaluated and reported, except that a generator
\* set or an installation may have lost all it holds to the period of the run:
\* in particular every consumer is evaluated before the generator set that asks
\* for its result.
RunsOnceMapped ==
  mapped =>
    /\ raised \in {NoError, "EcalcError", "AssertionError", "AttributeError"}
    /\ raised = "EcalcError" => \E s \in StepsOf({"generator"}) : Children(s.part.id) = {}
    /\ raised = "AssertionError" => \E s \in StepsOf({"installation"}) : Children(s.part.id) = {}

\* A period of a report is valid exactly when every consumer below is within its
\* capacity and every generator set has a model and enough power.
ConsumerCopes(part, t) ==
  \A e \in InForce(part.models, t) :
    CASE e.model.kind = DIRECT  -> TRUE
      [] e.model.kind = PROCESS -> LoadOf(e, t) <= e.model.capacities[1]
      [] e.model.kind = SYSTEM  -> \E i \in DOMAIN e.model.settings : Suffices(e, i, t)

GeneratorCopes(part, t) ==
  \E e \in InForce(part.models, t) :
    SumFunction([c \in ToSet(part.consumers) |-> Drawn(c, t)]) <= e.model.capacity

InstallationCopes(x, t) ==
  /\ \A c \in ToSet(x.consumers) : ConsumerCopes(c, t)
  /\ \A g \in ToSet(x.generators) :
       GeneratorCopes(g, t) /\ \A c \in ToSet(g.consumers) : ConsumerCopes(c, t)

ValidWhenAllCope ==
  report # Nothing =>
    \A t \in DOMAIN periods :
      /\ \A x \in ToSet(yaml.installations) :
           report.installations[x.id].valid[t] <=> InstallationCopes(x, t)
      /\ report.asset.valid[t] <=> \A x \in ToSet(yaml.installations) : InstallationCopes(x, t)

\* A consumer system runs in every period on the first of its settings that keeps
\* all units within capacity, on the last one when none does, and no rate is
\* lost on the way from one unit to another.
FirstSufficientSetting ==
  \A step \in StepsOf({"electricity", "fuel"}) : step.part.id \in DOMAIN results =>
    \A t \in DOMAIN periods : \A e \in InForce(step.part.models, t) :
      e.model.kind = SYSTEM =>
        LET result == results[step.part.id][t]
        IN  /\ result.used = FirstSufficient(e, t)
            /\ result.energy = SumFunction(AskedRates(e.model.settings[result.used], LoadOf(e, t)))

\* What an asset and its installations emit follows the fuel in force, and what
\* the asset burns and emits is what its installations do.
EmissionsFollowTheFuel ==
  report # Nothing =>
    \A t \in DOMAIN periods :
      /\ \A x \in ToSet(yaml.installations) :
           report.installations[x.id].emissions[t] =
             SumFunction([s \in FuelUsers({x.id}) |->
                            results[s.part.id][t].energy
                              * SumFunction([e \in InForce(FuelOf(s), t) |-> e.model])])
      /\ report.asset.fuel[t] = SumFunction([id \in InstallationIds |-> report.installations[id].fuel[t]])
      /\ report.asset.emissions[t] =
           SumFunction([id \in InstallationIds |-> report.installations[id].emissions[t]])

=============================================================================

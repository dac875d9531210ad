--------------------------- MODULE ConsumerMapping ---------------------------
(***************************************************************************)
(* From the energy usage models of one consumer in yaml to the models that  *)
(* are evaluated: the schema refuses a consumer (yaml_types), the mapper    *)
(* creates and registers a model for every dated energy usage model         *)
(* (mappers/consumer_function_mapper.py), and the registered models are     *)
(* given their input and evaluated (YamlModel).  What the schema lets       *)
(* through, the mapper asserts.                                             *)
(*                                                                         *)
(* A consumer is a record [consumes, models, usages].  models has the named *)
(* MODELS and FACILITY_INPUTS, usages the energy usage models one period    *)
(* after the other.  The regularity is 0 or 1.  Of the evaluation of a train *)
(* only the flows through its stages are kept, of a chart only its speeds.   *)
(***************************************************************************)
EXTENDS Integers, FiniteSets, SequencesExt, FiniteSetsExt, YamlTypes

Fine     == "mapped"
Reported == "ModelValidationException"  \* told to the user as an error in the model

VARIABLES consumer,    \* the consumer in yaml
          doing,       \* "validating", "mapping", "evaluating" or "done"
          usage,       \* the energy usage model to map next, or the model to evaluate next
          registered,  \* what DefaultProcessService holds
          flows,       \* through the stages of what was evaluated, by step
          outcome      \* how it ended

mappingVars == <<consumer, doing, usage, registered, flows, outcome>>

(***************************************************************************)
(* The schema.                                                              *)
(***************************************************************************)
Model(name)  == consumer.models[name]
TypeOf(name) == IF name \in DOMAIN consumer.models THEN Model(name).type ELSE "not found"

CompressorTypes ==
  {"COMPRESSOR_TABULAR", "COMPRESSOR_WITH_TURBINE", "SINGLE_SPEED_COMPRESSOR_TRAIN",
   "VARIABLE_SPEED_COMPRESSOR_TRAIN", "SIMPLIFIED_VARIABLE_SPEED_COMPRESSOR_TRAIN"}

MultipleStreamsTypes ==
  {"COMPRESSOR_WITH_TURBINE", "VARIABLE_SPEED_COMPRESSOR_TRAIN_MULTIPLE_STREAMS_AND_PRESSURES"}

PumpTypes  == {"TABULAR", "PUMP_CHART_SINGLE_SPEED", "PUMP_CHART_VARIABLE_SPEED"}
StageTypes == {"COMPRESSOR_CHART", "COMPRESSOR_TABULAR", "TABULAR"}

\* Mutant: the model that a turbine drives is not looked at.
RefersToDirectly(name, allowed) == TypeOf(name) \in allowed

\* check_field_model_reference: a turbine drives one of the types the field allows.
RefersTo(name, allowed) ==
  /\ TypeOf(name) \in allowed
  /\ TypeOf(name) = "COMPRESSOR_WITH_TURBINE" =>
       TypeOf(Model(name).compressor_model) \in allowed \ {"COMPRESSOR_WITH_TURBINE"}

Generic == {"GENERIC_FROM_INPUT", "GENERIC_FROM_DESIGN_POINT"}

\* Charts that are read from a table have no chart type, and are passed over.
ChartsAmong(stages, kinds) ==
  \A k \in DOMAIN stages :
    TypeOf(stages[k].chart) = "COMPRESSOR_CHART" => Model(stages[k].chart).chart \in kinds

TrainAccepted(m) ==
  /\ \A k \in DOMAIN m.stages : RefersTo(m.stages[k].chart, StageTypes)
  /\ CASE m.type = "VARIABLE_SPEED_COMPRESSOR_TRAIN_MULTIPLE_STREAMS_AND_PRESSURES" ->
            /\ \A s \in ToSet(m.streams) : s.ingoing => RefersTo(s.fluid, {"FLUID"})
            /\ Cardinality({k \in DOMAIN m.stages : m.stages[k].interstage}) <= 1
       [] m.type = "SIMPLIFIED_VARIABLE_SPEED_COMPRESSOR_TRAIN" ->
            RefersTo(m.fluid, {"FLUID"}) /\ ChartsAmong(m.stages, Generic)
       [] OTHER -> RefersTo(m.fluid, {"FLUID"})

ModelAccepted(m) ==
  CASE "stages" \in DOMAIN m                -> TrainAccepted(m)
    [] m.type = "COMPRESSOR_WITH_TURBINE"   -> RefersTo(m.turbine_model, {"TURBINE"})
    [] OTHER                                -> TRUE

\* A model, or what it drives.
TrainOf(name) ==
  IF TypeOf(name) = "COMPRESSOR_WITH_TURBINE" THEN Model(Model(name).compressor_model) ELSE Model(name)

\* forbid_generic_from_input_and_unknown_stages_in_compressor_system
FitsSystem(name) ==
  LET train == TrainOf(name)
  IN  "stages" \in DOMAIN train =>
        /\ ChartsAmong(train.stages, {"SINGLE_SPEED", "VARIABLE_SPEED", "GENERIC_FROM_DESIGN_POINT"})
        /\ "known" \in DOMAIN train => train.known

OnePerUnit(values, u) == values = NotGiven \/ Len(values) = Len(u.units)

SettingAccepted(s, u) ==
  /\ (s.suction = NotGiven) # (s.suctions = NotGiven)
  /\ (s.discharge = NotGiven) # (s.discharges = NotGiven)
  /\ \A v \in {s.rates, s.fractions, s.suctions, s.discharges, s.densities} : OnePerUnit(v, u)

SystemAccepted(u) ==
  /\ Cardinality({u.units[k].name : k \in DOMAIN u.units}) = Len(u.units)
  /\ \A s \in ToSet(u.settings) : SettingAccepted(s, u)
  /\ \A k \in DOMAIN u.units :
       IF u.type = "PUMP_SYSTEM" THEN RefersTo(u.units[k].model, PumpTypes)
       ELSE RefersTo(u.units[k].model, CompressorTypes) /\ FitsSystem(u.units[k].model)

ElectricityUsages ==
  {"DIRECT", "COMPRESSOR", "PUMP", "COMPRESSOR_SYSTEM", "PUMP_SYSTEM", "TABULATED",
   "VARIABLE_SPEED_COMPRESSOR_TRAIN_MULTIPLE_STREAMS_AND_PRESSURES"}

UsageTypes == IF consumer.consumes = "FUEL" THEN ElectricityUsages \ {"PUMP", "PUMP_SYSTEM"} ELSE ElectricityUsages

ReferenceAccepted(u) ==
  CASE u.type = "DIRECT"     -> TRUE
    [] u.type = "COMPRESSOR" -> RefersTo(u.model, CompressorTypes)
    [] u.type = "PUMP"       -> RefersTo(u.model, PumpTypes)
    [] u.type = "TABULATED"  -> RefersTo(u.model, {"TABULAR"})
    [] u.type \in {"COMPRESSOR_SYSTEM", "PUMP_SYSTEM"} -> SystemAccepted(u)
    [] OTHER                 -> RefersTo(u.model, MultipleStreamsTypes)

UsageAccepted(u) ==
  /\ u.type \in UsageTypes
  /\ u.condition = NotGiven \/ u.conditions = <<>>
  /\ ReferenceAccepted(u)

\* validate_energy_usage_models: the type does not change over time.
OneTypeOverTime == \A k \in DOMAIN consumer.usages : consumer.usages[k].type = consumer.usages[1].type

Accepted ==
  /\ \A name \in DOMAIN consumer.models : ModelAccepted(Model(name))
  /\ \A k \in DOMAIN consumer.usages : UsageAccepted(consumer.usages[k])
  /\ OneTypeOverTime

(***************************************************************************)
(* Expressions.                                                             *)
(***************************************************************************)
Holds(u, t) ==
  IF u.condition # NotGiven THEN u.condition[t] ELSE \A c \in ToSet(u.conditions) : c[t]

\* TimeSeriesFlowRate: nothing flows where the condition fails or nothing runs.
StreamDayValues(u, rate) ==
  [t \in DOMAIN rate |-> IF Holds(u, t) /\ u.regularity[t] > 0 THEN rate[t] ELSE 0]

IsNegative(rate) == \E t \in DOMAIN rate : rate[t] < 0

\* The steps in which a unit with these rates runs: pressures are looked at there.
ValidationMask(rate) == [t \in DOMAIN rate |-> rate[t] > 0]

\* Mutant: a train runs when its first stream flows.
FirstOfRates(rates) == rates[1]

SumOfRates(rates) ==
  [t \in DOMAIN rates[1] |-> FoldLeftDomain(LAMBDA sum, i : sum + rates[i][t], 0, rates)]

InvalidPressure(pressure, mask) == \E t \in DOMAIN pressure : mask[t] /\ pressure[t] < 0

\* validate_increasing_pressure
OutOfOrder(low, high, mask) == \E t \in DOMAIN low : mask[t] /\ low[t] > high[t]

PressuresRefused(suction, discharge, mask) ==
  InvalidPressure(suction, mask) \/ InvalidPressure(discharge, mask) \/ OutOfOrder(suction, discharge, mask)

(***************************************************************************)
(* Models.                                                                  *)
(***************************************************************************)
Failed(error) == [error |-> error]

Created(kind, consumes, stages, ports, interstage) ==
  [error |-> Fine, kind |-> kind, consumes |-> consumes, stages |-> stages, ports |-> ports,
   interstage |-> interstage]

FirstFailure(errors) ==
  LET found == SelectSeq(errors, LAMBDA e : e # Fine)
  IN  IF found = <<>> THEN Fine ELSE Head(found)

OrElse(first, second) == IF first # Fine THEN first ELSE second

Unless(error, model) == IF error = Fine THEN model ELSE Failed(error)

\* _get_compressor_chart: a generic chart is not looked for here.
ChartError(name) ==
  CASE TypeOf(name) # "COMPRESSOR_CHART" -> Reported
    [] Model(name).chart \in Generic     -> "AssertionError"
    [] OTHER                             -> Fine

ChartErrors(stages) == FirstFailure([k \in DOMAIN stages |-> ChartError(stages[k].chart)])

Speeds(stage) == Model(stage.chart).speeds

\* _validate_stages and _validate_shaft: one speed must suit all charts, and the
\* shaft has a variable speed exactly when all charts have several.
ShaftError(stages, isVariable) ==
  LET lowest  == {Min(Speeds(stages[k])) : k \in DOMAIN stages}
      highest == {Max(Speeds(stages[k])) : k \in DOMAIN stages}
  IN  IF \/ Max(lowest) > Min(highest)
         \/ isVariable # \A k \in DOMAIN stages : Cardinality(Speeds(stages[k])) > 1
      THEN Reported ELSE Fine

KnownTrain(m, isVariable) ==
  LET limited == ~isVariable /\ m.maximum_discharge_pressure /\ m.pressure_control # "DOWNSTREAM_CHOKE"
  IN  Unless(OrElse(ChartErrors(m.stages), IF limited THEN Reported ELSE ShaftError(m.stages, isVariable)),
             Created("train", "ELECTRICITY", Len(m.stages), <<[inlet |-> TRUE, stage |-> 1]>>, 0))

\* calculate_number_of_stages: the smallest power of the ratio per stage that
\* reaches the largest ratio, over all steps, those in which nothing runs included.
StagesNeeded(m, data) ==
  IF \A t \in DOMAIN data.suction : data.discharge[t] <= data.suction[t] THEN 0
  ELSE Min({n \in 1..Max(ToSet(data.discharge)) :
              \A t \in DOMAIN data.suction : m.ratio ^ n * data.suction[t] >= data.discharge[t]})

\* The logarithm of the ratio per stage may be 0, that of the largest ratio infinite.
StageCountError(m, data) ==
  CASE m.ratio = 0 \/ data.suction = NotGiven \/ data.discharge = NotGiven -> Reported
    [] \A t \in DOMAIN data.discharge : data.discharge[t] = 0 -> Reported
    [] m.ratio = 1                                    -> "ZeroDivisionError"
    [] \E t \in DOMAIN data.suction : data.suction[t] = 0 -> "OverflowError"
    [] StagesNeeded(m, data) = 0                      -> Reported
    [] OTHER                                          -> Fine

\* What a stage of a simplified train wants of its chart: a system gives no
\* operational data to shape a generic chart from.
SimplifiedChartError(name, hasData) ==
  CASE TypeOf(name) # "COMPRESSOR_CHART" -> Reported
    [] Model(name).chart = "GENERIC_FROM_DESIGN_POINT" -> Fine
    [] hasData /\ Model(name).chart = "GENERIC_FROM_INPUT" -> Fine
    [] OTHER -> "AssertionError"

SimplifiedTrain(m, hasData, data) ==
  LET charts == FirstFailure([k \in DOMAIN m.stages |-> SimplifiedChartError(m.stages[k].chart, hasData)])
      count  == CASE m.known  -> Fine
                  [] hasData  -> StageCountError(m, data)
                  [] OTHER    -> "AssertionError"
      noData == hasData /\ (data.suction = NotGiven \/ data.discharge = NotGiven)
  IN  Unless(OrElse(count, IF noData THEN Reported ELSE charts),
             Created("train", "ELECTRICITY", IF m.known THEN Len(m.stages) ELSE StagesNeeded(m, data),
                     <<[inlet |-> TRUE, stage |-> 1]>>, 0))

\* A stage that names a stream that is used at an earlier stage is left out.
FirstUse(m, name) == Min({k \in DOMAIN m.stages : name \in ToSet(m.stages[k].stream)})

KeptStages(m) ==
  SelectSeq([k \in DOMAIN m.stages |-> k],
            LAMBDA k : \A name \in ToSet(m.stages[k].stream) : FirstUse(m, name) = k)

StreamsAt(m, k, isIngoing) ==
  Cardinality({s \in ToSet(m.streams) : s.ingoing = isIngoing /\ s.name \in ToSet(m.stages[k].stream)})

\* _make_ports_from_splitters_and_mixers: the inlet of the train, then the ports
\* of one stage after the other, those of its splitter before those of its mixer.
Ports(m) ==
  LET Split(k, j) == [p \in 1..StreamsAt(m, k, FALSE) |-> [inlet |-> FALSE, stage |-> j]]
      Mixed(k, j) == [p \in 1..(StreamsAt(m, k, TRUE) - (IF j = 1 THEN 1 ELSE 0)) |->
                        [inlet |-> TRUE, stage |-> j]]
      Of(kept)    == FlattenSeq([j \in DOMAIN kept |-> Split(kept[j], j) \o Mixed(kept[j], j)])
  IN  <<[inlet |-> TRUE, stage |-> 1]>> \o Of(KeptStages(m))

MultipleStreamsTrain(m) ==
  LET noInlet == ~\E s \in ToSet(m.streams) : s.ingoing
      Train(kept) ==
        LET stage == {j \in DOMAIN kept : kept[j].interstage}
        IN  Unless(OrElse(ChartErrors(kept), IF noInlet THEN Reported ELSE ShaftError(kept, TRUE)),
                   Created("train", "ELECTRICITY", Len(kept), Ports(m), IF stage = {} THEN 0 ELSE Min(stage)))
  IN  Train([j \in DOMAIN KeptStages(m) |-> m.stages[KeptStages(m)[j]]])

\* _create_compressor_sampled: a table of fuel may hold power as well.
SampledModel(m) ==
  CASE m.headers \cap {"FUEL", "POWER"} = {} -> Failed("InvalidResourceException")
    [] m.headers \cap {"RATE", "SUCTION_PRESSURE", "DISCHARGE_PRESSURE"} = {} -> Failed(Reported)
    [] OTHER -> Created("sampled", IF "FUEL" \in m.headers THEN "FUEL" ELSE "ELECTRICITY", 0, <<>>, 0)

Undriven(m, hasData, data) ==
  CASE m.type = "COMPRESSOR_TABULAR"                          -> SampledModel(m)
    [] m.type = "VARIABLE_SPEED_COMPRESSOR_TRAIN"             -> KnownTrain(m, TRUE)
    [] m.type = "SINGLE_SPEED_COMPRESSOR_TRAIN"               -> KnownTrain(m, FALSE)
    [] m.type = "SIMPLIFIED_VARIABLE_SPEED_COMPRESSOR_TRAIN"  -> SimplifiedTrain(m, hasData, data)
    [] m.type = "VARIABLE_SPEED_COMPRESSOR_TRAIN_MULTIPLE_STREAMS_AND_PRESSURES" -> MultipleStreamsTrain(m)
    [] m.type = "COMPRESSOR_WITH_TURBINE"                     -> Failed("AssertionError")
    [] OTHER                                                  -> Failed(Reported)

\* create_compressor_model: what a turbine drives consumes fuel.
CreateCompressorModel(name, hasData, data) ==
  LET driven == TypeOf(name) = "COMPRESSOR_WITH_TURBINE"
      Driven(model) == IF driven /\ model.error = Fine THEN [model EXCEPT !.consumes = "FUEL"] ELSE model
  IN  Driven(Undriven(TrainOf(name), hasData, data))

NoData == [suction |-> NotGiven, discharge |-> NotGiven]

(***************************************************************************)
(* The energy usage models.                                                 *)
(***************************************************************************)
\* What is not registered is evaluated with its consumer.
Function(consumes) == Created("function", consumes, 0, <<>>, 0)

MapDirect(u) ==
  IF consumer.consumes = "FUEL" /\ IsNegative(StreamDayValues(u, u.rates[1]))
  THEN Failed(Reported) ELSE Function(consumer.consumes)

\* A table of both fuel and power is one of power.
MapTabular(u) ==
  LET headers  == Model(u.model).headers
      consumes == IF "POWER" \in headers THEN "ELECTRICITY" ELSE "FUEL"
  IN  IF headers \cap {"FUEL", "POWER"} = {} \/ consumes # consumer.consumes
      THEN Failed(Reported) ELSE Function(consumes)

CreatePumpModel(name) ==
  IF TypeOf(name) \in {"PUMP_CHART_SINGLE_SPEED", "PUMP_CHART_VARIABLE_SPEED"}
  THEN Created("pump", "ELECTRICITY", 0, <<>>, 0) ELSE Failed(Reported)

MapPump(u) ==
  LET rate == StreamDayValues(u, u.rates[1])
  IN  IF \/ IsNegative(rate)
         \/ PressuresRefused(u.suction, u.discharge, ValidationMask(rate))
      THEN Failed(Reported) ELSE CreatePumpModel(u.model)

\* The pressures are turned into operational data before the model is created,
\* and compared with each other after.
MapCompressor(u) ==
  LET rate    == StreamDayValues(u, u.rates[1])
      mask    == ValidationMask(rate)
      data    == [suction |-> u.suction, discharge |-> u.discharge]
      given   == u.suction # NotGiven /\ u.discharge # NotGiven
      Mapped(created) ==
        CASE created.error # Fine                                    -> created
          [] created.consumes # consumer.consumes                    -> Failed(Reported)
          [] given /\ OutOfOrder(u.suction, u.discharge, mask)       -> Failed(Reported)
          [] created.kind = "train" /\ ~given                        -> Failed("AssertionError")
          [] OTHER                                                   -> created
  IN  IF IsNegative(rate) \/ InvalidPressure(u.suction, mask) \/ InvalidPressure(u.discharge, mask)
      THEN Failed(Reported) ELSE Mapped(CreateCompressorModel(u.model, TRUE, data))

\* The rates of all streams, those that leave included, tell when the train runs.
MapMultipleStreams(u) ==
  LET rates   == [i \in DOMAIN u.rates |-> StreamDayValues(u, u.rates[i])]
      Between(mask) == u.interstage # NotGiven /\ ( \/ InvalidPressure(u.interstage, mask)
                                                    \/ OutOfOrder(u.suction, u.interstage, mask)
                                                    \/ OutOfOrder(u.interstage, u.discharge, mask) )
      Refused(mask) == PressuresRefused(u.suction, u.discharge, mask) \/ Between(mask)
      Mapped(created) ==
        CASE created.error # Fine                               -> created
          [] created.consumes # consumer.consumes               -> Failed(Reported)
          [] \E i \in DOMAIN rates : IsNegative(rates[i])       -> Failed(Reported)
          [] Refused(ValidationMask(SumOfRates(rates)))         -> Failed(Reported)
          [] OTHER                                              -> created
  IN  Mapped(CreateCompressorModel(u.model, FALSE, NoData))

\* The rates of the units in one setting of a system.
SettingRates(u, s) ==
  [k \in DOMAIN u.units |->
     StreamDayValues(u, IF s.fractions # NotGiven
                        THEN [t \in DOMAIN u.total |-> u.total[t] * s.fractions[k][t]]
                        ELSE s.rates[k])]

ForUnit(common, each, k) == IF common # NotGiven THEN common ELSE each[k]

\* Only the pressures of compressors are looked at no more than where the unit runs.
SettingError(u, s) ==
  LET rates   == SettingRates(u, s)
      Mask(k) == IF u.type = "PUMP_SYSTEM" THEN [t \in DOMAIN u.regularity |-> TRUE] ELSE ValidationMask(rates[k])
  IN  CASE s.fractions # NotGiven /\ u.total = NotGiven     -> "AssertionError"
        [] s.fractions = NotGiven /\ s.rates = NotGiven     -> "TypeError"
        [] \E k \in DOMAIN rates : IsNegative(rates[k])     -> Reported
        [] \E k \in DOMAIN u.units :
             PressuresRefused(ForUnit(s.suction, s.suctions, k), ForUnit(s.discharge, s.discharges, k), Mask(k)) ->
             Reported
        [] u.type = "PUMP_SYSTEM" /\ s.densities = NotGiven /\ u.density = NotGiven -> "AssertionError"
        [] OTHER -> Fine

SettingErrors(u) == FirstFailure([i \in DOMAIN u.settings |-> SettingError(u, u.settings[i])])

UnitErrors(units) == FirstFailure([k \in DOMAIN units |-> units[k].error])

MapPumpSystem(u) ==
  LET units == [k \in DOMAIN u.units |-> CreatePumpModel(u.units[k].model)]
  IN  Unless(OrElse(UnitErrors(units), SettingErrors(u)), Function("ELECTRICITY"))

MapCompressorSystem(u) ==
  LET streams == \E k \in DOMAIN u.units : "streams" \in DOMAIN TrainOf(u.units[k].model)
      Error(units) ==
        OrElse(OrElse(SettingErrors(u), UnitErrors(units)),
               CASE streams -> "AssertionError"
                 [] \E k \in DOMAIN units : units[k].consumes # consumer.consumes -> Reported
                 [] OTHER -> Fine)
  IN  Unless(Error([k \in DOMAIN u.units |-> CreateCompressorModel(u.units[k].model, FALSE, NoData)]),
             Function(consumer.consumes))

\* from_yaml_to_dto
Mapping(u) ==
  CASE u.type = "DIRECT"            -> MapDirect(u)
    [] u.type = "COMPRESSOR"        -> MapCompressor(u)
    [] u.type = "PUMP"              -> MapPump(u)
    [] u.type = "COMPRESSOR_SYSTEM" -> MapCompressorSystem(u)
    [] u.type = "PUMP_SYSTEM"       -> MapPumpSystem(u)
    [] u.type = "TABULATED"         -> MapTabular(u)
    [] OTHER                        -> MapMultipleStreams(u)

(***************************************************************************)
(* Evaluation of a train.                                                   *)
(***************************************************************************)
\* YamlModel evaluates trains and pumps before sampled compressors.
EvaluationOrder ==
  SelectSeq(registered, LAMBDA r : r.kind # "sampled") \o SelectSeq(registered, LAMBDA r : r.kind = "sampled")

UsageOf(r) == consumer.usages[r.usage]

\* The rates of the streams in one step, in the order of STREAMS.
RatesIn(u, t) == [i \in DOMAIN u.rates |-> StreamDayValues(u, u.rates[i])[t]]

PortsUpTo(ports, stage) == {p \in DOMAIN ports : ports[p].stage <= stage}

\* What enters up to a stage less what leaves: a port has the rate of its number.
NetRate(ports, rates, stage) ==
  MapThenSumSet(LAMBDA p : IF ports[p].inlet THEN rates[p] ELSE -rates[p], PortsUpTo(ports, stage))

\* _validate_nonnegative_stage_rates, stage by stage
RatesError(r, rates) ==
  FirstFailure([j \in 1..r.stages |->
    CASE \E p \in PortsUpTo(r.ports, j) : p > Len(rates) -> "IndexError"
      [] NetRate(r.ports, rates, j) < 0                  -> "ValueError"
      [] OTHER                                           -> Fine])

Inlets(ports) == {p \in DOMAIN ports : ports[p].inlet}

Flows(r, rates) == \E p \in Inlets(r.ports) : rates[p] > 0

\* The streams of the inlet ports that have a fluid: the port of a stream that
\* is declared outgoing has none, and the next stream moves up.
FluidStreams(r) ==
  LET m == TrainOf(UsageOf(r).model)
  IN  SelectSeq(SetToSortSeq(Inlets(r.ports), <),
                LAMBDA p : "streams" \in DOMAIN m => m.streams[p].ingoing)

\* The number of an inlet port among the inlet ports.
InletNumber(ports, p) == Cardinality({q \in Inlets(ports) : q <= p})

NotANumber == <<>>

\* The flow through the stages: at each, some is split off, then some is mixed in.
\* What is split off cannot exceed what comes, and shares of nothing are no number.
StageFlows(r, rates) ==
  LET fluids == FluidStreams(r)
      Out(j) == MapThenSumSet(LAMBDA p : rates[p], {p \in DOMAIN r.ports : ~r.ports[p].inlet /\ r.ports[p].stage = j})
      Mixed(j) == MapThenSumSet(LAMBDA p : rates[fluids[InletNumber(r.ports, p)]],
                                {p \in Inlets(r.ports) \ {1} : r.ports[p].stage = j})
      HasSplitter(j) == \E p \in DOMAIN r.ports : ~r.ports[p].inlet /\ r.ports[p].stage = j
      Split(j, flow) ==
        CASE flow = NotANumber \/ ~HasSplitter(j)   -> flow
          [] flow[1] <= 0 /\ Out(j) = 0      -> NotANumber
          [] OTHER                           -> <<Max({flow[1] - Out(j), 0})>>
      Through(j, flow) == IF Split(j, flow) = NotANumber THEN NotANumber ELSE <<Split(j, flow)[1] + Mixed(j)>>
      through[j \in 0..r.stages] ==
        IF j = 0 THEN <<rates[fluids[1]]>> ELSE Through(j, through[j - 1])
  IN  [j \in 1..r.stages |-> through[j]]

\* What evaluating a train meets in one step.
StepError(r, t) ==
  LET u     == UsageOf(r)
      rates == RatesIn(u, t)
  IN  CASE RatesError(r, rates) # Fine -> RatesError(r, rates)
        [] ~Flows(r, rates)            -> Fine
        [] u.interstage # NotGiven     -> IF r.interstage = 1 THEN "IllegalStateException" ELSE Fine
        [] FluidStreams(r) = <<>>      -> "IndexError"
        [] Len(FluidStreams(r)) < Cardinality(Inlets(r.ports)) -> "IllegalStateException"
        [] OTHER                       -> Fine

EvaluationError(r) ==
  LET u == UsageOf(r)
  IN  CASE r.kind # "train" -> Fine
        [] (u.interstage # NotGiven) # (r.interstage # 0) -> "EcalcValidationException"
        [] OTHER -> FirstFailure([t \in DOMAIN u.regularity |-> StepError(r, t)])

\* The flows in the steps in which the train runs to one pressure.
TrainFlows(r) ==
  LET u == UsageOf(r)
  IN  [t \in DOMAIN u.regularity |->
         IF r.kind = "train" /\ u.interstage = NotGiven /\ Flows(r, RatesIn(u, t))
         THEN StageFlows(r, RatesIn(u, t)) ELSE <<>>]

(***************************************************************************)
(* Steps.                                                                   *)
(***************************************************************************)
InitMapping ==
  /\ doing = "validating" /\ usage = 1
  /\ registered = <<>> /\ flows = <<>> /\ outcome = Fine

EndWith(error) == doing' = "done" /\ outcome' = error

Validate ==
  /\ doing = "validating"
  /\ IF Accepted THEN doing' = "mapping" /\ UNCHANGED outcome ELSE EndWith("refused")
  /\ UNCHANGED <<consumer, usage, registered, flows>>

\* A model is registered with its evaluation input when all of it is mapped; what
\* was registered stays when a later one fails.
MapUsage ==
  /\ doing = "mapping"
  /\ usage <= Len(consumer.usages)
  /\ \E created \in {Mapping(consumer.usages[usage])} :
         IF created.error # Fine
         THEN EndWith(created.error) /\ UNCHANGED <<usage, registered>>
         ELSE /\ usage' = usage + 1
              /\ registered' = IF created.kind = "function" THEN registered
                               ELSE Append(registered, [usage |-> usage] @@ created)
              /\ UNCHANGED <<doing, outcome>>
  /\ UNCHANGED <<consumer, flows>>

FinishMapping ==
  /\ doing = "mapping"
  /\ usage > Len(consumer.usages)
  /\ doing' = "evaluating" /\ usage' = 1
  /\ UNCHANGED <<consumer, registered, flows, outcome>>

EvaluateModel ==
  /\ doing = "evaluating"
  /\ usage <= Len(registered)
  /\ \E r \in {EvaluationOrder[usage]} : \E error \in {EvaluationError(r)} :
         IF error # Fine
         THEN EndWith(error) /\ UNCHANGED <<usage, flows>>
         ELSE /\ usage' = usage + 1
              /\ flows' = (r.usage :> TrainFlows(r)) @@ flows
              /\ UNCHANGED <<doing, outcome>>
  /\ UNCHANGED <<consumer, registered>>


\* The variables that are given and the columns of the table must be the same:
\* of a table of both fuel and power, FUEL is one of the variables.
EnergyColumn(headers) == IF "POWER" \in headers THEN "POWER" ELSE "FUEL"

VariablesMatch(u) ==
  u.type = "TABULATED" =>
    LET headers == Model(u.model).headers IN u.variables = headers \ {EnergyColumn(headers)}

FinishEvaluation ==
  /\ doing = "evaluating"
  /\ usage > Len(registered)
  /\ EndWith(IF \A k \in DOMAIN consumer.usages : VariablesMatch(consumer.usages[k]) THEN Fine ELSE "IllegalStateException")
  /\ UNCHANGED <<consumer, usage, registered, flows>>

NextMapping == Validate \/ MapUsage \/ FinishMapping \/ EvaluateModel \/ FinishEvaluation

(***************************************************************************)
(* Properties.                                                              *)
(***************************************************************************)
HasStreams(u) == u.type = "VARIABLE_SPEED_COMPRESSOR_TRAIN_MULTIPLE_STREAMS_AND_PRESSURES" /\ "streams" \in DOMAIN TrainOf(u.model)

\* STREAMS lists the streams in the order of the ports they are given.
InPortOrder(m) ==
  \E ports \in {Ports(m)} :
      /\ Len(ports) = Len(m.streams) /\ Len(KeptStages(m)) = Len(m.stages)
      /\ \A p \in DOMAIN ports :
           /\ m.streams[p].ingoing = ports[p].inlet
           /\ m.streams[p].name \in ToSet(m.stages[ports[p].stage].stream)

\* What has entered less what has left when a stage compresses, as declared: every
\* stream enters or leaves at the stage that names it.
DeclaredNet(m, rates, stage) ==
  MapThenSumSet(LAMBDA i : IF m.streams[i].ingoing THEN rates[i] ELSE -rates[i],
                {i \in DOMAIN m.streams : \E k \in 1..stage : m.streams[i].name \in ToSet(m.stages[k].stream)})

\* More leaves at a stage than comes to it: what enters at the same stage enters later.
Oversplit(m, rates, stage) ==
  LET leaves == {i \in DOMAIN m.streams : ~m.streams[i].ingoing /\ m.streams[i].name \in ToSet(m.stages[stage].stream)}
  IN  stage > 1 /\ MapThenSumSet(LAMBDA i : rates[i], leaves) > DeclaredNet(m, rates, stage - 1)

\* Shares of nothing are left out.
FlowsAsDeclared(u, k, t) ==
  LET m     == TrainOf(u.model)
      rates == RatesIn(u, t)
  IN  (\A j \in DOMAIN m.stages : ~Oversplit(m, rates, j)) =>
        \A j \in DOMAIN flows[k][t] : flows[k][t][j] \in {NotANumber, <<DeclaredNet(m, rates, j)>>}

\* Mappings that the schema lets through and no message explains.
UnknownStages(u) == TrainOf(u.model).type = "SIMPLIFIED_VARIABLE_SPEED_COMPRESSOR_TRAIN" /\ ~TrainOf(u.model).known

GenericInKnownTrain(m) ==
  /\ "stages" \in DOMAIN m /\ m.type # "SIMPLIFIED_VARIABLE_SPEED_COMPRESSOR_TRAIN"
  /\ ~ChartsAmong(m.stages, {"SINGLE_SPEED", "VARIABLE_SPEED"})

TableWithoutEnergy(m) == m.type = "COMPRESSOR_TABULAR" /\ m.headers \cap {"FUEL", "POWER"} = {}

ModelGap(name) == GenericInKnownTrain(TrainOf(name)) \/ TableWithoutEnergy(TrainOf(name))

SettingGap(u, s) ==
  \/ s.fractions = NotGiven /\ s.rates = NotGiven
  \/ s.fractions # NotGiven /\ u.total = NotGiven
  \/ u.type = "PUMP_SYSTEM" /\ s.densities = NotGiven /\ u.density = NotGiven

\* Streams out of order, too few rates, more out than in, or an interstage pressure
\* for a train that has no place for it: met when the train is evaluated.
StreamsGap(u) ==
  LET m == TrainOf(u.model)
      n == Cardinality({k \in DOMAIN m.stages : m.stages[k].interstage})
  IN  \/ ~InPortOrder(m) \/ Len(u.rates) # Len(m.streams)
      \/ \E t \in DOMAIN u.regularity, j \in DOMAIN m.stages : DeclaredNet(m, RatesIn(u, t), j) < 0
      \/ (u.interstage # NotGiven) # (n > 0) \/ m.stages[1].interstage

KnownGap(u) ==
  CASE u.type \in {"COMPRESSOR_SYSTEM", "PUMP_SYSTEM"} ->
         \/ \E s \in ToSet(u.settings) : SettingGap(u, s)
         \/ u.type = "COMPRESSOR_SYSTEM" /\ \E k \in DOMAIN u.units : ModelGap(u.units[k].model)
    [] u.type = "COMPRESSOR" ->
         \/ ModelGap(u.model)
         \/ u.suction = NotGiven \/ u.discharge = NotGiven
         \/ UnknownStages(u) /\ (TrainOf(u.model).ratio = 1 \/ \E t \in DOMAIN u.suction : u.suction[t] = 0)
    [] u.type = "TABULATED" -> ~VariablesMatch(u)
    [] HasStreams(u)        -> ModelGap(u.model) \/ StreamsGap(u)
    [] OTHER                -> FALSE

\* A consumer that the schema accepts is mapped and evaluated, or its error is told
\* to the user, whatever its models and the models these refer to: only the named
\* gaps end in an exception that no message explains.
OnlyKnownErrorsEscape ==
  outcome \notin {Fine, Reported, "refused"} => \E u \in ToSet(consumer.usages) : KnownGap(u)

\* Pressures do not fall through a train in a step in which any stream flows.
PressuresRise(u, t) ==
  (Holds(u, t) /\ u.regularity[t] > 0 /\ \E i \in DOMAIN u.rates : u.rates[i][t] > 0) =>
    LET between == IF u.interstage = NotGiven THEN <<>> ELSE <<u.interstage[t]>>
        levels  == <<0, u.suction[t]>> \o between \o <<u.discharge[t]>>
    IN  \A i \in 1..Len(levels) - 1 : levels[i] <= levels[i + 1]

\* What is evaluated is what the yaml declares: energy of the kind its consumer
\* uses, pressures in order wherever something runs, and through every stage what
\* has entered so far less what has left, when STREAMS is in the order of the ports
\* and no stage splits off more than comes to it.
RunsAsDeclared ==
  \A i \in DOMAIN registered :
    LET k == registered[i].usage
        u == consumer.usages[k]
    IN  /\ registered[i].consumes = consumer.consumes
        /\ registered[i].kind # "sampled" => \A t \in DOMAIN u.regularity : PressuresRise(u, t)
        /\ k \in DOMAIN flows /\ HasStreams(u) =>
             (InPortOrder(TrainOf(u.model)) => \A t \in DOMAIN flows[k] : FlowsAsDeclared(u, k, t))

\* Every stream is named at one stage, and one of them enters the train.
StreamsAreComplete(m) ==
  /\ \A s \in ToSet(m.streams) : Cardinality({k \in DOMAIN m.stages : s.name \in ToSet(m.stages[k].stream)}) = 1
  /\ \E s \in ToSet(m.streams) : s.ingoing /\ s.name \in ToSet(m.stages[1].stream)

\* What the documentation says of a train of multiple streams: an ingoing stream is
\* mixed into, an outgoing one taken from, the flow at the stage that names it,
\* wherever it stands in STREAMS.
StreamsEnterWhereDeclared ==
  \A k \in DOMAIN flows :
    LET u == consumer.usages[k]
    IN  (HasStreams(u) /\ StreamsAreComplete(TrainOf(u.model)) /\ Len(u.rates) = Len(TrainOf(u.model).streams)) =>
        \A t \in DOMAIN flows[k] : FlowsAsDeclared(u, k, t)

=============================================================================

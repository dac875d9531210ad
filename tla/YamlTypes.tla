------------------------------ MODULE YamlTypes ------------------------------
(***************************************************************************)
(* The yaml types of the models and the energy usage models of a consumer   *)
(* (presentation/yaml/yaml_types).  An expression is the sequence of its    *)
(* values in the steps of its period; what is not written is NotGiven.      *)
(***************************************************************************)
EXTENDS Integers, Sequences

NotGiven == <<>>

YamlFluid   == [type |-> "FLUID"]
YamlTurbine == [type |-> "TURBINE"]

YamlTable(type, headers)       == [type |-> type, headers |-> headers]
YamlCompressorChart(chart, speeds) == [type |-> "COMPRESSOR_CHART", chart |-> chart, speeds |-> speeds]
YamlPumpChart                  == [type |-> "PUMP_CHART_SINGLE_SPEED"]

YamlCompressorStage(chart) == [chart |-> chart, stream |-> <<>>, interstage |-> FALSE]
YamlCompressorStageMultipleStreams(chart, stream, interstage) ==
  [chart |-> chart, stream |-> stream, interstage |-> interstage]

YamlVariableSpeedCompressorTrain(fluid, stages) ==
  [type |-> "VARIABLE_SPEED_COMPRESSOR_TRAIN", fluid |-> fluid, stages |-> stages]

YamlSingleSpeedCompressorTrain(fluid, stages, choke, limited) ==
  [type |-> "SINGLE_SPEED_COMPRESSOR_TRAIN", fluid |-> fluid, stages |-> stages,
   pressure_control |-> choke, maximum_discharge_pressure |-> limited]

\* A train of unknown stages has one stage, which is repeated; ratio is its
\* MAXIMUM_PRESSURE_RATIO_PER_STAGE, or 0.
YamlSimplifiedTrain(fluid, known, stages, ratio) ==
  [type |-> "SIMPLIFIED_VARIABLE_SPEED_COMPRESSOR_TRAIN", fluid |-> fluid, known |-> known,
   stages |-> stages, ratio |-> ratio]

Ingoing(name, fluid) == [name |-> name, ingoing |-> TRUE, fluid |-> fluid]
Outgoing(name)       == [name |-> name, ingoing |-> FALSE, fluid |-> "none"]

YamlMultipleStreamsTrain(streams, stages) ==
  [type |-> "VARIABLE_SPEED_COMPRESSOR_TRAIN_MULTIPLE_STREAMS_AND_PRESSURES",
   streams |-> streams, stages |-> stages]

YamlCompressorWithTurbine(compressor_model, turbine_model) ==
  [type |-> "COMPRESSOR_WITH_TURBINE", compressor_model |-> compressor_model, turbine_model |-> turbine_model]

YamlEnergyUsageModel(type, model, rates, suction, discharge) ==
  [type |-> type, model |-> model, rates |-> rates, suction |-> suction, discharge |-> discharge,
   interstage |-> NotGiven, condition |-> NotGiven, conditions |-> <<>>,
   regularity |-> [t \in DOMAIN rates[1] |-> 1], variables |-> {}]

\* A unit of a system is a name and a model; what a setting gives for all units
\* stands beside what it gives for each.
YamlSystem(type, units, total, density, settings, steps) ==
  [type |-> type, units |-> units, total |-> total, density |-> density, settings |-> settings,
   condition |-> NotGiven, conditions |-> <<>>, regularity |-> [t \in 1..steps |-> 1]]

YamlOperationalSetting(rates, fractions, suction, suctions, discharge, discharges, densities) ==
  [rates |-> rates, fractions |-> fractions, suction |-> suction, suctions |-> suctions,
   discharge |-> discharge, discharges |-> discharges, densities |-> densities]

=============================================================================

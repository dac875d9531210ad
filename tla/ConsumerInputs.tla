--------------------------- MODULE ConsumerInputs ---------------------------
(***************************************************************************)
(* Consumers in yaml for TLC.  Pressures are 1, 2, 4, 8 and, where nothing  *)
(* has to be counted, -1.                                                   *)
(***************************************************************************)
EXTENDS ConsumerMapping

NamedModels ==
  "fluid"      :> YamlFluid
  @@ "turbine" :> YamlTurbine
  @@ "slow"    :> YamlCompressorChart("VARIABLE_SPEED", {1, 3})
  @@ "wide"    :> YamlCompressorChart("VARIABLE_SPEED", {2, 6})
  @@ "fast"    :> YamlCompressorChart("VARIABLE_SPEED", {5, 8})
  @@ "fixed"   :> YamlCompressorChart("SINGLE_SPEED", {3})
  @@ "shaped"  :> YamlCompressorChart("GENERIC_FROM_INPUT", {})
  @@ "designed" :> YamlCompressorChart("GENERIC_FROM_DESIGN_POINT", {})
  @@ "pumpchart" :> YamlPumpChart
  @@ "powertable" :> YamlTable("TABULAR", {"POWER", "RATE"})
  @@ "fueltable" :> YamlTable("TABULAR", {"FUEL", "RATE"})
  @@ "bothtable" :> YamlTable("TABULAR", {"FUEL", "POWER", "RATE"})
  @@ "notable"   :> YamlTable("TABULAR", {"RATE"})
  @@ "sampled" :> YamlTable("COMPRESSOR_TABULAR", {"POWER", "RATE"})
  @@ "sampledfuel" :> YamlTable("COMPRESSOR_TABULAR", {"FUEL", "POWER", "RATE"})
  @@ "unsampled" :> YamlTable("COMPRESSOR_TABULAR", {"RATE"})
  @@ "onlypower" :> YamlTable("COMPRESSOR_TABULAR", {"POWER"})

Stage(chart) == YamlCompressorStage(chart)

VariableSpeed == {YamlVariableSpeedCompressorTrain("fluid", s) :
  s \in {<<Stage("slow")>>, <<Stage("slow"), Stage("wide")>>, <<Stage("slow"), Stage("fast")>>,
         <<Stage("fixed")>>, <<Stage("slow"), Stage("designed")>>, <<Stage("powertable")>>, <<Stage("missing")>>}}

SingleSpeed == {YamlSingleSpeedCompressorTrain("fluid", <<Stage("fixed")>>, c, l) :
  c \in {"DOWNSTREAM_CHOKE", "UPSTREAM_CHOKE"}, l \in BOOLEAN}

Simplified ==
  {YamlSimplifiedTrain("fluid", TRUE, s, 0) :
     s \in {<<Stage("designed"), Stage("shaped")>>, <<Stage("designed")>>, <<Stage("slow")>>, <<Stage("powertable")>>}}
  \cup {YamlSimplifiedTrain("fluid", FALSE, <<Stage(c)>>, r) : c \in {"shaped", "designed"}, r \in 0..2}

Tables == {NamedModels[n] : n \in {"powertable", "sampled", "sampledfuel", "unsampled", "onlypower"}}

Undrivens == VariableSpeed \cup SingleSpeed \cup Simplified \cup Tables

\* The model used and, beside it, one that is driven by a turbine or would be.
With(model) == "model" :> model @@ NamedModels
Driven(model) ==
  "model" :> YamlCompressorWithTurbine("driven", "turbine") @@ "driven" :> model @@ NamedModels
DrivenTwice(model) ==
  "model" :> YamlCompressorWithTurbine("between", "turbine")
  @@ "between" :> YamlCompressorWithTurbine("driven", "turbine") @@ "driven" :> model @@ NamedModels

ConsumersWith(consumes, models, usages) ==
  {[consumes |-> c, models |-> m, usages |-> u] : c \in consumes, m \in models, u \in usages}

FuelOrElectricity == {"FUEL", "ELECTRICITY"}

Pairs(S, T) == {<<x, y>> : x \in S, y \in T}

(***************************************************************************)
(* Compressors: every model, undriven and driven; every input to two of them.*)
(***************************************************************************)
Compressor(rate, suction, discharge) == YamlEnergyUsageModel("COMPRESSOR", "model", <<rate>>, suction, discharge)

FewInputs ==
  {Compressor(<<3, 5>>, <<2, 1>>, <<4, 8>>), Compressor(<<3, 0>>, <<1, 2>>, <<2, 1>>),
   Compressor(<<3, 5>>, <<1, 0>>, <<4, 4>>), Compressor(<<3, 5>>, <<2, 2>>, <<2, 2>>),
   Compressor(<<3, 5>>, NotGiven, <<2, 4>>), Compressor(<<3, 5>>, NotGiven, NotGiven)}

ManyInputs ==
  LET given == {Compressor(r, s, d) : r \in Pairs({-1, 0, 3}, {0, 5}), s \in Pairs({-1, 1, 4}, {2}),
                                      d \in Pairs({-1, 2, 8}, {1, 2, 4})}
  IN  {[u EXCEPT !.condition = c, !.regularity = g] :
         u \in given, c \in {NotGiven, <<TRUE, FALSE>>, <<FALSE, TRUE>>}, g \in {<<1, 1>>, <<1, 0>>}}
      \cup {[u EXCEPT !.condition = c, !.conditions = cs] :
              u \in FewInputs, c \in {NotGiven, <<TRUE, TRUE>>}, cs \in {<<<<TRUE, TRUE>>, <<FALSE, TRUE>>>>}}

AnyTrain == YamlVariableSpeedCompressorTrain("fluid", <<Stage("slow"), Stage("wide")>>)

CompressorConsumers ==
  ConsumersWith(FuelOrElectricity, UNION {{With(m), Driven(m), DrivenTwice(m)} : m \in Undrivens}, {<<u>> : u \in FewInputs})
  \cup ConsumersWith({"ELECTRICITY"}, {With(AnyTrain), With(NamedModels["sampled"])}, {<<u>> : u \in ManyInputs})
  \cup ConsumersWith(FuelOrElectricity, {With(AnyTrain), Driven(NamedModels["sampled"])},
                 {<<u, v>> : u, v \in FewInputs})

(***************************************************************************)
(* Trains of multiple streams.                                              *)
(***************************************************************************)
Streams == <<Ingoing("in", "fluid"), Outgoing("out"), Ingoing("side", "fluid"), Outgoing("export")>>

Orders(n) == {o \in [1..n -> 1..Len(Streams)] : \A i, j \in 1..n : i # j => o[i] # o[j]}

StagesOf(second, third, interstage) ==
  <<YamlCompressorStageMultipleStreams("slow", <<"in">>, FALSE),
    YamlCompressorStageMultipleStreams("wide", second, interstage),
    YamlCompressorStageMultipleStreams("slow", third, FALSE)>>

StreamTrains ==
  {YamlMultipleStreamsTrain([i \in DOMAIN o |-> Streams[o[i]]], StagesOf(s[1], s[2], FALSE)) :
     o \in Orders(3) \cup Orders(2),
     s \in {<<<<>>, <<"out", "side">>>>, <<<<"side">>, <<"out">>>>, <<<<"out">>, <<"export">>>>, <<<<"out">>, <<"out", "side">>>>}}

OddTrains ==
  {YamlMultipleStreamsTrain(s, st) :
     s \in {<<Ingoing("in", "fluid")>>, <<Ingoing("in", "powertable")>>, <<Outgoing("out")>>,
            <<Ingoing("in", "fluid"), Ingoing("side", "fluid")>>},
     st \in {StagesOf(<<>>, <<>>, TRUE), StagesOf(<<"side">>, <<>>, TRUE),
             <<YamlCompressorStageMultipleStreams("slow", <<"in">>, TRUE)>>,
             <<YamlCompressorStageMultipleStreams("fast", <<"in">>, FALSE), YamlCompressorStageMultipleStreams("slow", <<>>, FALSE)>>,
             <<YamlCompressorStageMultipleStreams("slow", <<"in">>, TRUE), YamlCompressorStageMultipleStreams("wide", <<>>, TRUE)>>}}

StreamUsage(rates, suction, discharge) ==
  YamlEnergyUsageModel("VARIABLE_SPEED_COMPRESSOR_TRAIN_MULTIPLE_STREAMS_AND_PRESSURES", "model", rates, suction, discharge)

RatesOfStreams(n) == {[i \in 1..n |-> <<q[i]>>] : q \in [1..n -> {0, 3, 5}]}

StreamInputs ==
  {StreamUsage(q, <<2>>, <<d>>) : q \in RatesOfStreams(3), d \in {1, 4}}
  \cup {StreamUsage(q, <<2>>, <<4>>) : q \in RatesOfStreams(2)}

OddInputs ==
  {[StreamUsage(q, <<2>>, <<4>>) EXCEPT !.interstage = p] :
     q \in {<<<<3>>>>, <<<<0>>>>, <<<<-1>>>>, <<<<0>>, <<3>>>>}, p \in {NotGiven, <<1>>, <<-1>>, <<2>>, <<4>>, <<5>>}}

RatesFit(c) == \A k \in DOMAIN c.usages :
  LET train == IF "driven" \in DOMAIN c.models THEN c.models["driven"] ELSE c.models["model"]
  IN  "streams" \in DOMAIN train => Len(c.usages[k].rates) <= Len(train.streams)

StreamConsumers ==
  {c \in ConsumersWith({"ELECTRICITY"}, {With(m) : m \in StreamTrains}, {<<u>> : u \in StreamInputs})
           \cup ConsumersWith(FuelOrElectricity, {With(m) : m \in OddTrains} \cup {Driven(m) : m \in OddTrains} \cup {With(AnyTrain)},
                          {<<u>> : u \in OddInputs}) : RatesFit(c)}

(***************************************************************************)
(* Pumps, tables, direct use and systems.                                   *)
(***************************************************************************)
Named(name, type, rates, suction, discharge, matched) ==
  [YamlEnergyUsageModel(type, name, rates, suction, discharge) EXCEPT !.variables = matched]

OtherConsumers ==
  ConsumersWith(FuelOrElectricity, {NamedModels},
    {<<Named(n, "PUMP", <<r>>, <<2>>, <<d>>, {})>> :
       n \in {"pumpchart", "powertable", "fluid"}, r \in {<<-1>>, <<0>>, <<3>>}, d \in {-1, 1, 4}}
    \cup {<<Named(n, "TABULATED", <<<<1>>>>, NotGiven, NotGiven, v)>> :
            n \in {"powertable", "fueltable", "bothtable", "notable", "sampled"},
            v \in {{"RATE"}, {"RATE", "FUEL"}, {}}}
    \cup {<<Named("none", t, <<<<r>>>>, NotGiven, NotGiven, {})>> : t \in {"DIRECT"}, r \in {-1, 1}}
    \cup {<<Named("none", "DIRECT", <<<<1>>>>, NotGiven, NotGiven, {}),
            Named("pumpchart", "PUMP", <<<<1>>>>, <<2>>, <<4>>, {})>>})

Units(S) == {<<[name |-> n, model |-> m], [name |-> "second", model |-> "second"]>> : n \in {"first", "second"}, m \in S}

SomeSettings ==
  {YamlOperationalSetting(r, f, s[1], s[2], d[1], d[2], NotGiven) :
     r \in {NotGiven, <<<<3>>, <<0>>>>, <<<<3>>, <<-1>>>>, <<<<3>>>>},
     f \in {NotGiven, <<<<1>>, <<2>>>>},
     s \in {<<<<2>>, NotGiven>>, <<NotGiven, <<<<1>>, <<4>>>>>>, <<NotGiven, NotGiven>>},
     d \in {<<<<4>>, NotGiven>>, <<NotGiven, <<<<2>>, <<2>>>>>>, <<<<2>>, <<<<2>>, <<2>>>>>>}}

Systems(type, models, settings) ==
  {YamlSystem(type, u, total, density, s, 1) :
     u \in Units(models), total \in {NotGiven, <<3>>}, density \in {NotGiven, <<1>>}, s \in settings}

PlainSetting == YamlOperationalSetting(<<<<3>>, <<1>>>>, NotGiven, <<2>>, NotGiven, <<4>>, NotGiven, NotGiven)

SystemConsumers ==
  LET trains  == {With(m) : m \in Undrivens} \cup {Driven(m) : m \in Undrivens}
      SecondToo(models, second) == "second" :> second @@ models
  IN  ConsumersWith({"ELECTRICITY"}, {SecondToo(With(AnyTrain), AnyTrain)},
                {<<u>> : u \in Systems("COMPRESSOR_SYSTEM", {"model"}, {<<PlainSetting, s>> : s \in SomeSettings})})
      \cup ConsumersWith({"ELECTRICITY"}, {SecondToo(NamedModels, YamlPumpChart)},
                {<<u>> : u \in Systems("PUMP_SYSTEM", {"pumpchart"}, {<<s>> : s \in SomeSettings})})
      \cup ConsumersWith(FuelOrElectricity, {SecondToo(m, AnyTrain) : m \in trains},
                {<<YamlSystem("COMPRESSOR_SYSTEM", u, NotGiven, NotGiven, <<PlainSetting>>, 1)>> : u \in Units({"model"})})

MCYamlConsumers == CompressorConsumers \cup StreamConsumers \cup OtherConsumers \cup SystemConsumers

=============================================================================

-------------------------------- MODULE Ecalc --------------------------------
(***************************************************************************)
(* The parts of the program around the solvers, one at a time: a model is   *)
(* validated, mapped and evaluated (EnergyModel); the models of a consumer  *)
(* are mapped (ConsumerMapping); a result is converted, joined, cut and     *)
(* resampled (TimeSeries); a prognosis is exported (Exporter); two results  *)
(* are compared (DeltaProfile).  None reads the state of another; what is   *)
(* idle holds any one of its inputs.                                        *)
(***************************************************************************)
EXTENDS EnergyModel, ConsumerMapping, TimeSeries, Exporter, DeltaProfile

CONSTANTS Yamls,          \* the models that may be run
          YamlConsumers,  \* the consumers that may be mapped
          Exports         \* the prognoses that may be asked for, sequences of columns

\* A model of which the schema holds has lists of parts with names of their own, and
\* values of the types it names.
ASSUME YamlsAssumption ==
  \A y \in Yamls : y.readable \subseteq BOOLEAN /\ (TRUE \in y.readable => IsWellFormed(y) /\ IsTyped(y))

VARIABLE part  \* "model", "consumer", "series", "export" or "comparison"

vars == <<part, energyModelVars, mappingVars, timeSeriesVars, exporterVars, deltaVars>>

AnyInput ==
  LET AnyOf(S) == CHOOSE x \in S : TRUE
  IN  [yaml |-> AnyOf(Yamls), consumer |-> AnyOf(YamlConsumers), first |-> AnyOf(Inputs.first),
       second |-> AnyOf(Inputs.second), plan |-> AnyOf(Plans), frequency |-> AnyOf(ExportGrids), columns |-> AnyOf(Exports),
       compared |-> AnyOf(Comparisons)]

Init ==
  /\ part \in {"model", "consumer", "series", "export", "comparison"}
  /\ \E any \in {AnyInput} :
       /\ yaml \in IF part = "model" THEN Yamls ELSE {any.yaml}
       /\ consumer \in IF part = "consumer" THEN YamlConsumers ELSE {any.consumer}
       /\ result \in IF part = "series" THEN Inputs.first ELSE {any.first}
       /\ other \in IF part = "series" THEN Inputs.second ELSE {any.second}
       /\ plan \in IF part = "export" THEN Plans ELSE {any.plan}
       /\ frequency \in IF part = "export" THEN ExportGrids ELSE {any.frequency}
       /\ columns \in IF part = "export" THEN Exports ELSE {any.columns}
       /\ compared \in IF part = "comparison" THEN Comparisons ELSE {any.compared}
  /\ InitEnergyModel /\ InitMapping /\ InitTimeSeries /\ InitExporter /\ InitDelta

Next ==
  \/ part = "model" /\ NextEnergyModel
     /\ UNCHANGED <<part, mappingVars, timeSeriesVars, exporterVars, deltaVars>>
  \/ part = "consumer" /\ NextMapping
     /\ UNCHANGED <<part, energyModelVars, timeSeriesVars, exporterVars, deltaVars>>
  \/ part = "series" /\ NextTimeSeries
     /\ UNCHANGED <<part, energyModelVars, mappingVars, exporterVars, deltaVars>>
  \/ part = "export" /\ NextExporter
     /\ UNCHANGED <<part, energyModelVars, mappingVars, timeSeriesVars, deltaVars>>
  \/ part = "comparison" /\ NextDelta
     /\ UNCHANGED <<part, energyModelVars, mappingVars, timeSeriesVars, exporterVars>>

Spec == Init /\ [][Next]_vars

=============================================================================

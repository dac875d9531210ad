\* Trains of multiple streams whose STREAMS stand in any order.
CONSTANTS
  DateMin <- MCDateMin
  DateMax = 99
  DefaultStart = 0
  Asset = "asset"
  MaxCalls = 3
  Yamls <- MCYamls
  YamlConsumers <- MCYamlConsumers
  Horizon <- MCHorizon
  Grids <- MCGrids
  Inputs <- MCInputs
  MaxOps = 3
  Plans <- MCPlans
  ExportGrids <- MCExportGrids
  FuelCategory <- MCFuelCategory
  FuelFactors <- MCFuelFactors
  Exports <- MCExports
  Comparisons <- MCComparisons
SPECIFICATION Spec
INVARIANT
  StreamsEnterWhereDeclared
CHECK_DEADLOCK FALSE

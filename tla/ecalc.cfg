\* Models that are run, consumers that are mapped, results that are converted,
\* added, joined, cut, resampled and compared, and prognoses that are exported.
CONSTANTS
  DateMin <- MCDateMin
  DateMax = 99
  DefaultStart = 0
  Asset = "asset"
  MaxCalls = 3
  Yamls <- MCYamls
  YamlConsumers <- MCYamlConsumers
  Horizon <- MCHorizon
  Grids <- MCGrids
  Inputs <- MCInputs
  MaxOps = 3
  Plans <- MCPlans
  ExportGrids <- MCExportGrids
  FuelCategory <- MCFuelCategory
  FuelFactors <- MCFuelFactors
  Exports <- MCExports
  Comparisons <- MCComparisons
SPECIFICATION Spec
INVARIANTS
  NothingEvaluatedInPart
  VariablesAsDefined
  PowerIsBalanced
  RunsOnceMapped
  ValidWhenAllCope
  FirstSufficientSetting
  EmissionsFollowTheFuel
  OnlyKnownErrorsEscape
  RunsAsDeclared
  ResultsStandForTheDays
  ColumnsCountTheDays
  DeltaIsDayByDay
CHECK_DEADLOCK FALSE

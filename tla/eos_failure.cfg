CONSTANTS
  Stages = 2
  MinSpeed = 2
  MaxSpeed = 5
  MaxRate = 10
  MaxPressure = 20
  Tolerance = 1
  Fractions = 4
  Trains <- MCTrains
  Controls <- MCControls
  Inlets <- MCInlets
  Targets <- MCTargets
  RunTo <- TrainRunTo
  RecirculationRange <- TrainRecirculationRange
  MinimumFlow <- MCMinimumFlow
  MaximumFlow <- MCMaximumFlow
  Head <- MCHead
  FlashFails <- MCFlashFails
SPECIFICATION Spec
INVARIANT
  EosFailureMeansNoSpeed

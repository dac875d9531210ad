CONSTANTS
  Stages = 2
  MinSpeed = 2
  MaxSpeed = 5
  MaxRate = 10
  MaxPressure = 20
  Tolerance = 1
  Fractions = 4
  Trains = {"fragile"}
  Controls <- MCControls
  Inlets <- MCFewInlets
  Targets = {7, 12}
  RunTo <- TrainRunTo
  RecirculationRange <- TrainRecirculationRange
  MinimumFlow <- MCMinimumFlow
  MaximumFlow <- MCMaximumFlow
  Head <- MCHead
  FlashFails <- MCFlashFails
SPECIFICATION Spec
PROPERTY
  EveryCallEnds

SPECIFICATION Spec
CONSTANTS
  trainA = trainA
  trainB = trainB
  trainC = trainC
  Calls = {"train"}
  Tables <- MCTables
  Requests <- MCRequests
  Trains <- MCTrains
  Distributions <- MCDistributions
  Fractions = 4
  MaxIterations = 6
  Precision = 8
  UnitRate = 10
  Series <- MCSeries
  MinSpeed = 1
  MaxSpeed = 4
  Gain = 2
  Ratio = 2
  Tolerance = 1
  LegacyTrains <- MCLegacyTrains
  Density = 2
  Notches = 8
  PressureSlack = 2
  Sweeps <- MCSweeps
  SweepSteps = 2
  SimplifiedTrains <- MCSimplifiedTrains
  MassRates <- MCMassRates
  Pumps <- MCPumps
  PumpRates <- MCPumpRates
INVARIANT
  StageNumberIsEvaluated
CHECK_DEADLOCK FALSE

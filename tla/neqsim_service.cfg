SPECIFICATION Spec
CONSTANTS
  Main = Main
  worker = worker
  m1 = m1
  m2 = m2
  NONE = NONE
  ERROR = ERROR
  Clients = {Main, worker}
  Requests <- MCRequests
  Unsolvable <- MCUnsolvable
  Options <- MCOptions
  DefaultSize = 2
  ShutdownOnExit = {TRUE, FALSE}
  MaxStarts = 2
  MaxNesting = 2
INVARIANTS
  NoDanglingReference
  KeepsTheMostRecent
PROPERTY ImplementsThermoService
CHECK_DEADLOCK FALSE

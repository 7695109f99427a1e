CONSTANTS
  c1 = c1
  c2 = c2
  c3 = c3
  Clients <- TwoClients
  NumClients = 2
  BatchSize = 2
  BatchTypes = {"dynamic"}
  MaxRuns = 2
  MaxCalls = 2
  MaxCrashes = 0
  SlowAnswers = TRUE
  PipeRoom = 0
SPECIFICATION Spec
INVARIANTS NewRunsStartClean
CHECK_DEADLOCK FALSE

CONSTANTS
  c1 = c1
  c2 = c2
  c3 = c3
  Clients <- TwoClients
  NumClients = 2
  BatchSize = 2
  BatchTypes = {"dynamic"}
  MaxRuns = 2
  MaxCalls = 1
  MaxCrashes = 2
  SlowAnswers = FALSE
  PipeRoom = 0
SPECIFICATION Spec
INVARIANTS BarrierHolds
CHECK_DEADLOCK FALSE

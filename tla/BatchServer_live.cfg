CONSTANTS
  c1 = c1
  c2 = c2
  c3 = c3
  Clients <- TwoClients
  NumClients = 2
  BatchSize = 2
  BatchTypes = {"dynamic"}
  MaxRuns = 1
  MaxCalls = 2
  MaxCrashes = 0
  SlowAnswers = FALSE
  PipeRoom = 0
SPECIFICATION FairSpec
INVARIANTS BarrierHolds
PROPERTIES EveryCallAnswered BarrierOpens ImplementsFairService
CHECK_DEADLOCK FALSE

CONSTANTS
  c1 = c1
  c2 = c2
  c3 = c3
  Clients <- TwoClients
  NumClients = 2
  BatchSize = 2
  BatchTypes = {"static"}
  MaxRuns = 1
  MaxCalls = 2
  MaxCrashes = 1
  SlowAnswers = TRUE
  PipeRoom = 0
SPECIFICATION FairSpec
PROPERTIES NoCallHangs ShutdownCompletes
CHECK_DEADLOCK FALSE

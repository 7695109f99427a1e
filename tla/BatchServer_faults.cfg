CONSTANTS
  c1 = c1
  c2 = c2
  c3 = c3
  Clients <- TwoClients
  NumClients = 2
  BatchSize = 2
  BatchTypes = {"static", "dynamic"}
  MaxRuns = 2
  MaxCalls = 3
  MaxCrashes = 1
  SlowAnswers = TRUE
  PipeRoom = 0
SPECIFICATION Spec
SYMMETRY Symmetry
INVARIANTS TypeOK AnswersMatch KVFollowsCalls BeginDropsNoLiveRequest ServedInOwnRun
PROPERTIES DoneCountsEveryClient
CHECK_DEADLOCK FALSE

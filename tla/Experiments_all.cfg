CONSTANTS
  Experiments <- MCExperimentNames
  Standing = "standing"
  Sweeps <- MCSweeps
  MaxFaults = 2
  Loads <- MCLoads
  Slots = {0, 1, 2, 3, 4, 5}
  NumServers = 3
  DatasetSize = 2
  Configs <- MCConfigs
  HybridModels = {"hybrid"}
  MaxKills = 1
SPECIFICATION FairPrograms
INVARIANTS TypesOK PromptsSurviveRestarts NoServerOutlivesItsRun OkIsServedByItsServer NoCleanSelfShutdown NoStrayClients EveryExperimentRecorded AttendsOwnText RequestsAccountedFor
PROPERTIES SweepEnds BaselineReturns
CHECK_DEADLOCK FALSE

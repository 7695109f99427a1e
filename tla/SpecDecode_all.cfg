CONSTANTS
  MaxLen = 16
  NTokens = 2
  Target <- MCTarget
  Prompt <- MCPrompt
  MaxNew = 4
  Eos = 1
  Recordings <- MCRecordings
  Configs <- AllConfigs
SPECIFICATION FairSpec
INVARIANTS TypeOK Lossless TreeHoldsText ServerCacheFollowsTree MasksAreAncestry OnlyLostFrontierStarves OverlapFillsDraftCache RecurrentStateFollowsText FanOutIsFair
PROPERTIES ImplementsGreedyDecode

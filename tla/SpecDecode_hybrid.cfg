CONSTANTS
  MaxLen = 16
  NTokens = 2
  Target <- MCTarget
  Prompt <- MCPrompt
  MaxNew = 2
  Eos = 1
  Recordings <- MCRecordings
  Configs <- HybridConfig
SPECIFICATION Spec
INVARIANT CommitsVerifiedPath

CONSTANTS
  MaxLen = 9
  NTokens = 3
  Target <- MCTarget
  Prompts <- MCPrompts
  Batch = 2
  MaxNew = 2
  Eos = 2
  Drafts <- AllDrafts
SPECIFICATION Spec
INVARIANTS TextIsAccepted

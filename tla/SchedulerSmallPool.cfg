SPECIFICATION Spec
CONSTANTS
  MaxPages = 4
  PageSize = 2
  ChunkSize = 2
  a = a
  b = b
  end = end
  Tokens <- MCTokens
  Prompts <- MixedPrompts
  Budgets = {3}
  Eos = end
  Sampled <- MCSampled
  NoToken = NoToken
  Junk = Junk
  DriverReleases = TRUE
  MaxRequests = 3
INVARIANTS
  PoolSound
  NoLeaseLost
  ChainUnbroken
CHECK_DEADLOCK FALSE

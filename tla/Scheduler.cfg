SPECIFICATION Spec
CONSTANTS
  MaxPages = 12
  PageSize = 2
  ChunkSize = 2
  a = a
  b = b
  end = end
  Tokens <- MCTokens
  Prompts <- PartialPrompts
  Budgets = {3}
  Eos = end
  Sampled <- MCSampled
  NoToken = NoToken
  Junk = Junk
  DriverReleases = TRUE
  MaxRequests = 3
INVARIANTS
  CachedPrefixValid
PROPERTIES
  CachedSlotsStable
  ImplementsTokenService
  EveryRequestFinishes
CHECK_DEADLOCK FALSE

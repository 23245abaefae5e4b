SPECIFICATION FairSpec
CONSTANTS
  a = a
  b = b
  end = end
  NoEntry = NoEntry
  Tokens <- MCTokens
  Blank = NoEntry
  Eos = end
  Prompts <- MCPrompts
  Target <- MCTarget
  Models = {0, 1, 2}
  Modes = {"full", "concat", "paged", "graph", "mtp", "tree", "draft", "library"}
  Instruct = TRUE
  BufferLen = 8
  PageSize = 2
  MaxPages = 3
  MaxContext = 8
  MaxTokens = 4
  ChunkSize = 2
  Warmup = 1
  Heads = 2
  DraftLen = 2
  Fanout = 2
  AdjustEvery = 1
  MaxTurns = 3
INVARIANTS
  CacheMirrorsTokens
  CachesSound
  FailsOnlyWhenFull
  NothingAcceptedIsLost
  EosEndsReply
PROPERTIES
  ReplyEnds
  ImplementsGreedyDecoding
CHECK_DEADLOCK FALSE

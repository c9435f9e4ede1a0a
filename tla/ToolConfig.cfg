SPECIFICATION TurnsSpec
CONSTANTS
  Parts = {"payload"}
  Ids = {i1}
  SearchIds = {s1, s2}
  MaxMessages = 3
  Texts = {"say"}
  MaxParts = 2
  MinRecent = 2
  MoreRounds = 1
  Mixes <- PayloadMixes
  Queries = {"q1", "q2"}
  Empty = "empty"
  MaxRounds = 2
  SearchCap = 3
  Parallel = 2
  RoundUses = 3
  Availability = {TRUE, FALSE}
  Pool = {a1, a2}
  MaxTries = 3
  MaxLoop = 3
  MaxTools = 2
  Searchers = {w1, w2}
  Keys = {k1}
  Configured <- InOrder
  Engines = {"searxng", "tavily"}
  Paid = {"tavily"}
  AllowPaid = FALSE
  MonthLimit = 1
  Cost = 1
  RetryMax = 1
  Threshold = 1
  Cooldown = 1
  Capacity = 1
  TTL = 1
  MinResults = 1
  MaxResults = 1
  MaxMonth = 2
  MaxKills = 0
  MaxPieces = 3
  MaxAccounts = 2
  MaxRepeats = 1
INVARIANT ToolTrafficHasConfig
CHECK_DEADLOCK FALSE

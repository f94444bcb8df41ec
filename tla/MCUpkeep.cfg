CONSTANTS
  Periods <- MCPeriods
  Manuals = {m1}
  MaxBets = 1
  MaxErrors = 1
  Providers <- MCProviders
  WithGames = {1, 3}
  MaxRetries = 3
  MaxCuts = 2
  Chainlist <- MCChainlist
  Fallback <- MCFallback
  Callers = {k1, k2}
  MaxLists = 2
  MaxCalls = 3
  Askers = {a1, a2}
  CacheTtl = 3
  Timeout = 2
  MaxTime = 7
  Shops = {p1, p2}
  Requests = {1, 2}
  MaxEdition = 2
  MaxChoices = 2
  MaxTroubles = 2
SPECIFICATION Spec
INVARIANTS
  TypesOK
  BoardsExplained
  ListsComplete
  AloneFindsWorking
  PriceIsYoung
PROPERTIES
  OlderNeedsOverlap
  AllSettle
CHECK_DEADLOCK FALSE

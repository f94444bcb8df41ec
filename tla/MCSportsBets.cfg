CONSTANTS
  u1 = u1
  u2 = u2
  None = None
  Users <- MCUsers
  Bets <- ThreeBets
  Claims <- TwoClaims
  Settles <- TwoSettles
  InitialBalance = 3
  Games = {g1, g2}
  MarketTypes = {winner, totals}
  MainType = winner
  Positions = {0, 1}
  MaxClicks = 3
  MaxSent = 2
  Queries = {q1, q2}
  Empty = {q2}
  Browsers = {b1, b2}
  Fetches = {1, 2}
  MaxVersion = 1
  MaxFetches = 3
  NoMarkets = NoMarkets
  NoChange = NoChange
SPECIFICATION MCSpec
INVARIANTS
  MoneyFirst
  PaidAgainNeedsOverlap
  BooksBalance
  SlipSafe
  AnswersFit
PROPERTY
  ClearedWasPlaced
CHECK_DEADLOCK FALSE

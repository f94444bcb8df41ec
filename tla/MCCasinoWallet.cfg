CONSTANTS
  u1 = u1
  ghost = ghost
  h1 = h1
  None = None
  Users <- MCUsers
  UserCodes <- MCUserCodes
  Handlers <- MCHandlers
  TxnIds <- MCTxnIds
  Msgs <- MCMsgs
  Calls <- MCCalls
  InitialBalance = 2
  Members = {m1, m2}
  Asks = {a1, a2}
  Writers = {w1}
  MaxBalance = 2
  Start <- MCStart
  MaxMoves = 2
  MaxVisits = 2
  Nobody = Nobody
  Ghost = Ghost
SPECIFICATION MCSpec
SYMMETRY Symmetric
INVARIANTS
  LostNeedsStaleCopy
  ViewIsCurrent
  ShownIsLoggedIn
PROPERTY
  MovesOnce
CHECK_DEADLOCK FALSE

CONSTANTS
  k1 = k1
  Requests <- MCRequests
  Calls <- MCCalls
  Tokens <- MCTokens
  MaxCodes = 3
  MaxCalls = 4
  Chains <- MCChains
  WithRpc = {"ethereum"}
  Gas = 1
  Threshold = 0
  Incoming <- MCIncoming
  MaxPlays = 1
SPECIFICATION Spec
PROPERTIES
  ZeroedAfterSuccess
CHECK_DEADLOCK FALSE

CONSTANTS
  u1 = u1
  usdc = usdc
  usdt = usdt
  w1 = w1
  w2 = w2
  None = None
  Users <- MCUsers
  Tokens <- MCTokens
  Workers <- OneWorker
  Requests <- Single
  InitialToken = 4
  InitialUsd = 6
  Attempts = 3
  MaxStalled = 1
SPECIFICATION Spec
PROPERTY WithdrawnFromRealBalance
CHECK_DEADLOCK FALSE

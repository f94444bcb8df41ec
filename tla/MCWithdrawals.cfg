CONSTANTS
  u1 = u1
  usdc = usdc
  usdt = usdt
  w1 = w1
  w2 = w2
  None = None
  Users <- MCUsers
  Tokens <- MCTokens
  Workers <- OneWorker
  Requests <- Competing
  InitialToken = 4
  InitialUsd = 6
  Attempts = 2
  MaxStalled = 1
SPECIFICATION FairSpec
INVARIANTS
  SentOnce
  CompletedIsPaid
  PendingIsQueued
PROPERTIES
  ImplementsLedger
  EveryJobEnds
CHECK_DEADLOCK FALSE

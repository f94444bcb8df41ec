CONSTANTS
  a1 = a1
  t1 = t1
  t2 = t2
  b1 = b1
  b2 = b2
  b3 = b3
  p1 = p1
  p2 = p2
  NoTx = NoTx
  Transfers <- MCTransfers
  Token <- MCToken
  To <- MCTo
  Confirmations = 1
  BaseBatch = 1
  MaxBatch = 2
  Lags <- MCLags
  MaxErrors = 2
  Lag = 1
  MaxBlock = 3
  MaxFaults = 2
  Sigs = 4
  Moves <- MCMoves
  Plain = {3}
  Limit = 3
  Polls <- MCPolls
  SolFaults = 2
  Txs <- MCTxs
  BtcPolls <- MCPolls
  BtcFaults = 1
SPECIFICATION MCSpec
INVARIANTS
  EvmSafe
  PollsSafe
PROPERTY
  AllCatchUp
CHECK_DEADLOCK FALSE

CONSTANTS
  u1 = u1
  u2 = u2
  ghost = ghost
  h1 = h1
  h2 = h2
  None = None
  Users <- MCUsers
  UserCodes <- MCUserCodes
  Handlers <- MCHandlers
  TxnIds <- MCTxnIds
  Msgs <- MCMsgs
  InitialBalance = 2
SPECIFICATION Spec
SYMMETRY HandlerSymmetry
INVARIANTS
  AckedIsRecorded
  SnapshotIsCurrent
PROPERTY
  ImplementsLedger

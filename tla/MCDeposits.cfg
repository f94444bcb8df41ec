CONSTANTS
  u1 = u1
  u2 = u2
  w1 = w1
  w2 = w2
  x = x
  y = y
  r1 = r1
  r2 = r2
  None = None
  Users <- MCUsers
  Hashes <- MCHashes
  Transfers <- SameUser
  Reverted <- NoneReverted
  Workers <- MCWorkers
  RowIds <- MCRowIds
SPECIFICATION Spec
SYMMETRY Symmetric
INVARIANTS
  PaidIffConfirmed
  SecondRowNeedsStall
PROPERTY
  ImplementsLedger
CHECK_DEADLOCK FALSE

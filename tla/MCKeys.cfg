SPECIFICATION MCSpec
CONSTANTS
  a1 = a1
  a2 = a2
  b1 = b1
  k1 = k1
  k2 = k2
  k3 = k3
  Device = {a1, a2}
  Key = {k1, k2, k3}
  MaxSetups = 2
  x1 = x1
  x2 = x2
  Page = {x1, x2}
  Ladder = 1
  DevsA = {a1, a2}
  DevsB = {b1}
  MaxActs = 3
  MaxPending = 1
  MaxIndex = 3
SYMMETRY Alike
INVARIANTS
  RemovedKeyHasACause
  SentStaysReadable
  RecoveryInOrder
  ReadInOrder
CHECK_DEADLOCK FALSE

SPECIFICATION Spec
CONSTANTS
  Dev = {1, 2}
  MaxSkip = 3
  MaxHs = 2
  MaxMsgs = 3
  Bounds <- MCBounds
  None = None
CHECK_DEADLOCK FALSE
INVARIANTS
  StuckHasACause
  KeysUsedOnce

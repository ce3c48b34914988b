SPECIFICATION RekeySpec
CONSTANTS
  MaxSkip = 1
  CtBudget = 2
  MaxSends = 7
  MaxEpoch = 2
  MaxKem = 2
INVARIANTS
  MixedOnceAndAlike
  UnreadHasACause
CHECK_DEADLOCK FALSE

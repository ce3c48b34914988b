CONSTANTS
  MaxMsgs = 2
  Page = 1
  MaxActs = 4
  None = None
  MaxSocks = 5
  MaxFaults = 5
  p = p
  q = q
SPECIFICATION MCSpec
INVARIANTS NoSilentLoss ViewHasACause TypingInOrder
PROPERTIES ComesBack
CHECK_DEADLOCK FALSE

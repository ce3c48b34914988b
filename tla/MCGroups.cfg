SPECIFICATION MCSpec
CONSTANTS
  a = a
  b = b
  c = c
  u = u
  v = v
  w = w
  d1 = d1
  d2 = d2
  Handles = {a, b, c}
  TwoDevices = {a}
  Earlier = {{}, {b, c}}
  MaxActs = 3
  MaxPending = 1
  Users = {u, v, w}
  MaxMembers = 2
  MaxRequests = 3
  Devs = {d1, d2}
  MaxSteps = 4
SYMMETRY Alike
INVARIANTS
  FormerMemberCannotRead
  WrongKeyHasACause
  ReuseHasACause
  AdminUnlessOverlap
\* The bounds on what users do end every behaviour.
CHECK_DEADLOCK FALSE

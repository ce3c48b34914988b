SPECIFICATION Spec
CONSTANTS
  ann = ann
  bob = bob
  f1 = f1
  f2 = f2
  f3 = f3
  Requester = {ann}
  Fetch = {f1, f2, f3}
  By <- MCByAnn
  Tab = {1}
  Target = 3
  LowWater = 1
  Cap = 1
  Window = 2
  Skew = 1
  MaxOpk = 3
  MaxNow = 5
  MaxAccepts = 0
  AlarmFails = FALSE
  NoOpk = NoOpk
  Todo = Todo
  None = None
INVARIANT
  CapPerWindow
CHECK_DEADLOCK FALSE

SPECIFICATION Spec
CONSTANTS
  ann = ann
  bob = bob
  f1 = f1
  f2 = f2
  f3 = f3
  Requester = {ann, bob}
  Fetch = {f1, f2, f3}
  By <- MCBy
  Tab = {1}
  Target = 2
  LowWater = 1
  Cap = 1
  Window = 2
  Skew = 1
  MaxOpk = 4
  MaxNow = 0
  MaxAccepts = 1
  AlarmFails = TRUE
  NoOpk = NoOpk
  Todo = Todo
  None = None
INVARIANTS
  TypeOK
  HandedOutOnce
  RecordHasACause
PROPERTIES
  TombstonePermanent
  ImplementsPool
CHECK_DEADLOCK FALSE

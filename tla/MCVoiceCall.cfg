SPECIFICATION MCSpec
CONSTANTS
    Users = {"a", "b"}
    Callers = {"a"}
    MaxCalls = 1
    MaxEvents = 2
    MaxJobs = 2
    MaxResets = 1
    MaxEnders = 1
    Cands = {1, 2}
INVARIANTS
    BusySlotsFollowTheLog
PROPERTIES
    CallsComeUpOrEnd
CHECK_DEADLOCK FALSE

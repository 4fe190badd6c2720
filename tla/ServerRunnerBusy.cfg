SPECIFICATION Spec
CONSTANTS
    Worker = {w1, w2}
    Connections = 2
    MaxEvents = 2
    MaxCalls = 1
INVARIANT TeardownAlone
CHECK_DEADLOCK FALSE

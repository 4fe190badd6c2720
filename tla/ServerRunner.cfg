SPECIFICATION Spec
CONSTANTS
    Worker = {w1, w2}
    Connections = 2
    MaxEvents = 4
    MaxCalls = 2
INVARIANTS
    CallsMeetServer
PROPERTIES
    StopEnds
    ConstructorReturns
CHECK_DEADLOCK FALSE

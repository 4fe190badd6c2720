CONSTANTS
    Worker = {w1, w2, w3}
    Job = {j1, j2, j3}
    NoJob = NoJob
SPECIFICATION Spec
INVARIANTS
    FirstInFirstOut
    SomeoneAwake
PROPERTIES
    NoJobAfterFinished
    StopReturns
    QueuedJobStarts
    ImplementsWorkQueue
CHECK_DEADLOCK FALSE

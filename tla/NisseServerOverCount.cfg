CONSTANTS
    Listener = {l1}
    Stream = {c1}
    Worker = {w1}
    None = None
    Outcome = {"More", "Done"}
    MaxConnects = 1
    MaxRequests = 1
SPECIFICATION Spec
INVARIANTS
    CountNeverOver
CHECK_DEADLOCK FALSE

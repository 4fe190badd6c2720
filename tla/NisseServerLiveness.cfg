CONSTANTS
    Listener = {l1}
    Stream = {c1}
    Worker = {w1, w2}
    None = None
    Outcome = {"More", "Done", "Block"}
    MaxConnects = 2
    MaxRequests = 2
SPECIFICATION FairSpec
INVARIANTS
    NoLostCoroutine
PROPERTIES
    RequestServed
    
    
    ImplementsConnection
CHECK_DEADLOCK FALSE

CONSTANTS
    Listener = {l1}
    Stream = {c1, c2}
    Worker = {w1, w2}
    None = None
    Outcome = {"More", "Done", "Block", "Throw"}
    MaxConnects = 2
    MaxRequests = 2
SPECIFICATION Spec
SYMMETRY Symmetry
INVARIANTS
    OneOwner
    StepFitsCoroutine
    

    
CHECK_DEADLOCK FALSE

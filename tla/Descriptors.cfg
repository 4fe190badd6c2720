CONSTANTS
    Conn = {c1, c2}
    Owned = {o1}
    Shared = {s1}
    PoolSize = 1
    Worker = {w1, w2}
    None = None
    PromptYield = TRUE
    StrayThrow = FALSE
SPECIFICATION Spec
INVARIANTS
    
    
    NoDangling
    SleeperKnown
    
CHECK_DEADLOCK FALSE

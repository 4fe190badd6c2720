SPECIFICATION Spec
CONSTANTS
    Code = {404}
    MaxHeaders = 0
    Calls <- MCCalls
    Targets <- MCTargets
    MaxAsked = 0
    MaxRequests = 1
INVARIANT StatusReaches
CHECK_DEADLOCK FALSE

SPECIFICATION Spec
CONSTANTS
    Code = {404}
    MaxHeaders = 1
    Attempts = 2
    MaxCalls = 3
INVARIANTS
    
    ResponseBelongs
PROPERTIES
    
    AnsweredOnReturn
    CallReturns
CHECK_DEADLOCK FALSE

SPECIFICATION Spec
CONSTANTS
    Code = {404}
    MaxHeaders = 1
    Calls <- MCCalls
    Targets <- MCTargets
    MaxAsked = 3
    MaxRequests = 1
INVARIANTS
    RoutedAsDeclared
    TableAsAsked
    NamesOfRoute
CHECK_DEADLOCK FALSE

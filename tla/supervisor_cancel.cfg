\* One navigation and one operator event.
CONSTANTS
    Callers = {c1}
    Plans <- NavigationPlan
    InitStatuses = {"created"}
    PolicyLimit = 1
    MaxCalls = 1
    MaxEvents = 1
SPECIFICATION Spec
PROPERTIES CancelIsFinal
CHECK_DEADLOCK FALSE

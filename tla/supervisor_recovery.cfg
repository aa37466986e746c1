\* One navigation on a new task.
CONSTANTS
    Callers = {c1}
    Plans <- NavigationPlan
    InitStatuses = {"created"}
    PolicyLimit = 1
    MaxCalls = 1
    MaxEvents = 0
SPECIFICATION Spec
INVARIANTS FailedNavigationRecovers
CHECK_DEADLOCK FALSE

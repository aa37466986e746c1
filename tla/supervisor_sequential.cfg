\* One caller, every kind of step list, no operator: two tool calls in a row.
CONSTANTS
    Callers = {c1}
    Plans <- AllPlans
    InitStatuses = {"created"}
    PolicyLimit = 1
    MaxCalls = 2
    MaxEvents = 0
SPECIFICATION FairSpec
INVARIANTS TypeOK IdleRowAgrees AttemptsWithinBudget RelocalizedBeforeRetry SuccessIsEarned
PROPERTIES CallReturns KeepsPromise
\* The instruction ends after its last tool call.
CHECK_DEADLOCK FALSE

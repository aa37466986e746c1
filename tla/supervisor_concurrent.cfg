\* Two tool calls of one model turn in two threads, on one task row that may
\* await approval, and one event of the operator at any point.
CONSTANTS
    Callers = {c1, c2}
    Plans <- TurnPlans
    InitStatuses = {"created", "awaiting_approval"}
    PolicyLimit = 1
    MaxCalls = 2
    MaxEvents = 1
SPECIFICATION Spec
SYMMETRY CallerSymmetry
INVARIANTS StepLogContiguous  
\* The instruction ends after its last tool call.
CHECK_DEADLOCK FALSE

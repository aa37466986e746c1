CONSTANTS
    Waypoints = {w1, w2}
    MaxRequests = 2
SPECIFICATION Spec
SYMMETRY WaypointSymmetry
INVARIANTS StopFlushes
CHECK_DEADLOCK FALSE

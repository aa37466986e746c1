\* One tool thread, three calls, two sessions.
CONSTANTS
    w1 = w1
    w2 = w2
    w3 = w3
    w4 = w4
    lab = lab
    alpha = alpha
    bench = bench
    Waypoints <- MCWaypoints
    Places <- MCPlaces
    PlaceNamed <- MCPlaceNamed
    NoWaypoint = NoWaypoint
    SeededPlaces = {bench}
    ForeignAliases = {alpha}
    Callers = {c1}
    MaxCalls = 3
    MaxSessions = 2
SPECIFICATION Spec
INVARIANTS TypeOK OneActiveRef MarkedIsBound SavedWaypointsReturn
\* The last session ends.
CHECK_DEADLOCK FALSE

\* Three waypoints and up to four saves asked for.
CONSTANTS
    Waypoints = {w1, w2, w3}
    MaxRequests = 4
SPECIFICATION FairSpec
INVARIANTS TypeOK IdleSaverIsCurrent
PROPERTIES SavesReachDisk SaverEnds
\* The process ends.
CHECK_DEADLOCK FALSE

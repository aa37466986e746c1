\* Two tool threads and two stop threads, and every stop command arrives:
\* does a stop hold until it is cleared?
CONSTANTS
    Callers = {c1, c2}
    Stoppers = {s1, s2}
    NoCaller = NoCaller
    StopsAreLossy = FALSE
    MaxCommands = 3
    MaxStops = 2
SPECIFICATION Spec
PROPERTIES StopHolds
\* The session ends after its last command.
CHECK_DEADLOCK FALSE

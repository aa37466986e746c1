\* Two tool threads and two stop threads, and stop commands may be lost.
CONSTANTS
    Callers = {c1, c2}
    Stoppers = {s1, s2}
    NoCaller = NoCaller
    StopsAreLossy = TRUE
    MaxCommands = 3
    MaxStops = 2
SPECIFICATION FairSpec
INVARIANTS TypeOK 
 
\* The session ends after its last command.
CHECK_DEADLOCK FALSE

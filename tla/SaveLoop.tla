------------------------------- MODULE SaveLoop -------------------------------
(***************************************************************************)
(* The save thread of MapManager with the tool thread that feeds and stops *)
(* it (memory/map_manager.py): create_waypoint_here and remove_location as *)
(* far as the graph and the queue go, and stop.                            *)
(***************************************************************************)
EXTENDS GraphSaver

CONSTANT
    MaxRequests     \* bound on the saves asked for

ASSUME MaxRequestsAssumption == MaxRequests \in Nat

VARIABLES
    asked,          \* the graph when the last save was asked for: observation
    main,           \* where the tool thread is
    requests        \* saves asked for so far: observation

toolVars == <<graph, asked, main, requests>>
vars == <<toolVars, saverVars>>

Init ==
    /\ graph = {} /\ asked = {} /\ main = "running" /\ requests = 0
    /\ SaverInit

-------------------------------------------------------------------------------
\* The tool thread.

\* create_waypoint_here: the robot has the waypoint, the save is not asked yet.
RecordWaypoint(w) ==
    /\ main = "running" /\ w \notin graph
    /\ graph' = graph \union {w} /\ main' = "changed"
    /\ UNCHANGED <<asked, requests, saverVars>>

\* create_waypoint_here raises before its _enqueue_save.
AbandonChange ==
    /\ main = "changed"
    /\ main' = "running"
    /\ UNCHANGED <<graph, asked, requests, saverVars>>

\* The _enqueue_save of create_waypoint_here, or of remove_location.
AskSave ==
    /\ main \in {"running", "changed"} /\ requests < MaxRequests
    /\ Enqueue("save")
    /\ requests' = requests + 1
    /\ asked' = graph /\ main' = "running"
    /\ UNCHANGED graph

\* stop: the sentinel, then join with a timeout.
Stop ==
    /\ main = "running"
    /\ Enqueue("stop")
    /\ main' = "joining"
    /\ UNCHANGED <<graph, asked, requests>>

JoinReturns ==
    /\ main = "joining" /\ saver = "finished"
    /\ main' = "stopped"
    /\ UNCHANGED <<graph, asked, requests, saverVars>>

\* Mutant: a state of its own for an abandoned thread.
JoinAbandons ==
    /\ main = "joining" /\ saver # "finished"
    /\ main' = "abandoned"
    /\ UNCHANGED <<graph, asked, requests, saverVars>>

JoinTimesOut ==
    /\ main = "joining" /\ saver # "finished"
    /\ main' = "stopped"
    /\ UNCHANGED <<graph, asked, requests, saverVars>>

\* The process exits and its daemon thread with it.
Exit ==
    /\ main = "stopped" /\ saver \notin {"finished", "killed"}
    /\ saver' = "killed"
    /\ UNCHANGED <<toolVars, queue, downloaded, disk, torn, lastFailed>>

ToolStep ==
    \/ \E w \in Waypoints : RecordWaypoint(w)
    \/ AbandonChange \/ AskSave \/ Stop \/ JoinReturns \/ JoinTimesOut \/ Exit

Next == (SaverStep /\ UNCHANGED toolVars) \/ ToolStep

Spec == Init /\ [][Next]_vars

\* The save thread keeps running until it ends or the process exits.
FairSpec == Spec /\ WF_vars(SaverStep /\ UNCHANGED toolVars)

-------------------------------------------------------------------------------
TypeOK ==
    /\ SaverTypeOK
    /\ asked \in SUBSET Waypoints
    /\ main \in {"running", "changed", "joining", "stopped"}
    /\ requests \in 0..MaxRequests

\* Whenever the save thread waits on an empty queue, every change a save was
\* asked for is in a complete file, unless the last save raised: draining the
\* queue loses no request, because the graph is downloaded after it.
IdleSaverIsCurrent ==
    saver = "wait" /\ queue = <<>> /\ ~lastFailed => asked \subseteq disk /\ ~torn

\* A change a save was asked for reaches the disk, unless that save raises or
\* the manager is stopped first.
SavesReachDisk ==
    \A w \in Waypoints :
       (w \in asked) ~> (w \in disk \/ lastFailed \/ main \in {"joining", "stopped"})

\* Once stopped the save thread ends, whatever is queued behind or before the
\* sentinel.
SaverEnds == (main = "joining") ~> (saver \in {"finished", "killed"})

-------------------------------------------------------------------------------
\* A claim of the code's documentation that the code does not keep.

\* map_manager.py, stop: pending saves are flushed before the thread stops.
StopFlushes ==
    main = "stopped" /\ saver = "finished" /\ ~lastFailed => asked \subseteq disk

===============================================================================

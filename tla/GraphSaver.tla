------------------------------ MODULE GraphSaver ------------------------------
(***************************************************************************)
(* The background save of the robot's GraphNav graph to disk:              *)
(* MapManager._enqueue_save and _save_loop (memory/map_manager.py).  A     *)
(* daemon thread takes the messages, drains what is queued behind the      *)
(* first, downloads the graph and overwrites the graph file.  SaveLoop and *)
(* MapManager compose it with the threads that change the graph.           *)
(*                                                                         *)
(* A graph is the set of its waypoints.  Snapshot files are left out: they *)
(* are written after the graph file and a failure of one is ignored.       *)
(***************************************************************************)
EXTENDS Sequences, Integers

CONSTANT
    Waypoints       \* the waypoints the robot may hold

VARIABLES
    graph,          \* the graph loaded on the robot
    queue,          \* _save_queue
    saver,          \* where _save_loop is
    downloaded,     \* the local "graph" of _save_loop
    disk,           \* the graph in the last complete graph file
    torn,           \* the graph file is truncated or half written
    lastFailed      \* the last save raised: observation

saverVars == <<queue, saver, downloaded, disk, torn, lastFailed>>

SaverInit ==
    /\ queue = <<>> /\ saver = "wait"
    /\ downloaded = {} /\ disk = {} /\ torn = FALSE /\ lastFailed = FALSE

-------------------------------------------------------------------------------
\* _save_loop, on the save thread.

\* The first message.
TakeSave ==
    /\ saver = "wait" /\ queue # <<>> /\ Head(queue) = "save"
    /\ queue' = Tail(queue) /\ saver' = "drain"
    /\ UNCHANGED <<downloaded, disk, torn, lastFailed>>

TakeStop ==
    /\ saver = "wait" /\ queue # <<>> /\ Head(queue) = "stop"
    /\ queue' = Tail(queue) /\ saver' = "finished"
    /\ UNCHANGED <<downloaded, disk, torn, lastFailed>>

\* Mutant: a queued save ends the round.
DrainOne ==
    /\ saver = "drain" /\ queue # <<>>
    /\ queue' = Tail(queue)
    /\ saver' = IF Head(queue) = "stop" THEN "finished" ELSE "wait"
    /\ UNCHANGED <<downloaded, disk, torn, lastFailed>>

\* Mutant: the sentinel is drained like a save.
DrainAll ==
    /\ saver = "drain" /\ queue # <<>>
    /\ queue' = Tail(queue)
    /\ UNCHANGED <<saver, downloaded, disk, torn, lastFailed>>

\* The messages behind it; the sentinel ends the thread here too.
Drain ==
    /\ saver = "drain" /\ queue # <<>>
    /\ queue' = Tail(queue)
    /\ saver' = IF Head(queue) = "stop" THEN "finished" ELSE "drain"
    /\ UNCHANGED <<downloaded, disk, torn, lastFailed>>

\* Mutant: the graph is not downloaded for this save.
DrainedCached ==
    /\ saver = "drain" /\ queue = <<>>
    /\ saver' = "open"
    /\ UNCHANGED <<queue, downloaded, disk, torn, lastFailed>>

Drained ==
    /\ saver = "drain" /\ queue = <<>>
    /\ saver' = "download"
    /\ UNCHANGED <<queue, downloaded, disk, torn, lastFailed>>

Download ==
    /\ saver = "download"
    /\ downloaded' = graph /\ saver' = "open"
    /\ UNCHANGED <<queue, disk, torn, lastFailed>>

\* open(..., "wb") truncates the only copy.
OpenFile ==
    /\ saver = "open"
    /\ torn' = TRUE /\ saver' = "fill"
    /\ UNCHANGED <<queue, downloaded, disk, lastFailed>>

WriteFile ==
    /\ saver = "fill"
    /\ disk' = downloaded /\ torn' = FALSE /\ lastFailed' = FALSE /\ saver' = "wait"
    /\ UNCHANGED <<queue, downloaded>>

\* An exception of the download or the file is logged and the loop goes on.
SaveFails ==
    /\ saver \in {"download", "open", "fill"}
    /\ lastFailed' = TRUE /\ saver' = "wait"
    /\ UNCHANGED <<queue, downloaded, disk, torn>>

SaverStep ==
    \/ TakeSave \/ TakeStop \/ Drain \/ Drained
    \/ Download \/ OpenFile \/ WriteFile \/ SaveFails

\* _enqueue_save, and the put of stop.
Enqueue(message) ==
    /\ queue' = Append(queue, message)
    /\ UNCHANGED <<saver, downloaded, disk, torn, lastFailed>>

-------------------------------------------------------------------------------
SaverTypeOK ==
    /\ graph \in SUBSET Waypoints
    /\ queue \in Seq({"save", "stop"})
    /\ saver \in {"wait", "drain", "download", "open", "fill", "finished", "killed"}
    /\ downloaded \in SUBSET Waypoints /\ disk \in SUBSET Waypoints
    /\ torn \in BOOLEAN /\ lastFailed \in BOOLEAN

===============================================================================

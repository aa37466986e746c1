------------------------------ MODULE MapManager ------------------------------
(***************************************************************************)
(* Named locations: MapManager (memory/map_manager.py) between the world   *)
(* database, the navigation bindings of the Spot adapter and the graph on  *)
(* the robot, from one session of the process to the next                  *)
(* (create_robot_session, agent/session.py).  The database survives the    *)
(* process, the bindings do not, and the robot may be restarted, and used  *)
(* by others, between two sessions.                                        *)
(*                                                                         *)
(* Tool threads share one SQLite connection.  The UPDATEs that deactivate  *)
(* a reference wait for the next commit on that connection, by whichever   *)
(* thread, and a failed insert of any thread rolls them back.              *)
(*                                                                         *)
(* A waypoint stands for the waypoint and the place its name leads to;     *)
(* edges, hints and names are left out.                                    *)
(***************************************************************************)
EXTENDS GraphSaver

CONSTANTS
    Places,         \* place ids
    PlaceNamed,     \* the place the name of a waypoint leads to
    NoWaypoint,     \* the place has no binding
    SeededPlaces,   \* places of seed_minimal_lab_world: no reference yet
    ForeignAliases, \* places whose name is an alias of a seeded place
    Callers,        \* threads that run the tools
    MaxCalls,       \* bound on the tool calls
    MaxSessions     \* bound on the sessions

ASSUME NamesAssumption ==
    /\ PlaceNamed \in [Waypoints -> Places] /\ NoWaypoint \notin Waypoints
    /\ SeededPlaces \subseteq Places /\ ForeignAliases \subseteq Places
ASSUME BoundsAssumption == MaxCalls \in Nat /\ MaxSessions \in Nat

VARIABLES
    \* the database
    places,         \* rows of places
    aliases,        \* places whose name is taken in place_aliases
    active,         \* waypoints with an active row in graph_refs
    deactivated,    \* those set inactive and not committed yet
    \* the process
    bindings,       \* the adapter's navigation bindings
    session,        \* where create_robot_session is
    importing,      \* the waypoint sync_from_robot is importing
    pc, marked,     \* the tool threads and the waypoint each has recorded
    \* observation
    used,           \* waypoint ids given out
    imported,       \* imported in this session
    leftBehind,     \* gone from the robot and not in the file, or not uploaded
    calls, sessions

dbVars == <<places, aliases, active, deactivated>>
processVars == <<bindings, session, importing, pc, marked>>
observations == <<used, imported, leftBehind, calls, sessions>>
vars == <<graph, saverVars, dbVars, processVars, observations>>

RefsOf(p) == {w \in active : PlaceNamed[w] = p}
Unbound == [p \in Places |-> NoWaypoint]
Idle == [c \in Callers |-> "idle"]

\* Before the first session.
Init ==
    /\ queue = <<>> /\ saver = "killed"
    /\ downloaded = {} /\ disk = {} /\ torn = FALSE /\ lastFailed = FALSE
    /\ graph = {} /\ places = SeededPlaces
    /\ aliases = SeededPlaces \union ForeignAliases
    /\ active = {} /\ deactivated = {}
    /\ bindings = Unbound /\ session = "down" /\ importing = NoWaypoint
    /\ pc = Idle /\ marked = [c \in Callers |-> NoWaypoint]
    /\ used = {} /\ imported = {} /\ leftBehind = {}
    /\ calls = 0 /\ sessions = 0

-------------------------------------------------------------------------------
\* The connection: an insert commits what is pending, or rolls it back.
Commit == deactivated' = {}
Rollback == active' = active \union deactivated /\ deactivated' = {}

\* list_graph_refs and the UPDATEs.
SetInactive(refs) ==
    /\ active' = active \ refs
    /\ deactivated' = deactivated \union refs

Begin(c) ==
    /\ session = "up" /\ pc[c] = "idle" /\ calls < MaxCalls
    /\ calls' = calls + 1

At(c, label) == session = "up" /\ pc[c] = label
Goto(c, label) == pc' = [pc EXCEPT ![c] = label]
PlaceOf(c) == PlaceNamed[marked[c]]

\* Only the given thread moves; the rest of the process and the robot stay.
OnlyDatabase ==
    UNCHANGED <<graph, saverVars, bindings, session, importing, marked, observations>>

-------------------------------------------------------------------------------
\* create_waypoint_here (and update_location): mark_location catches what it raises.
RecordWaypoint(c) ==
    /\ Begin(c)
    /\ \E w \in Waypoints \ used :
          /\ graph' = graph \union {w} /\ used' = used \union {w}
          /\ marked' = [marked EXCEPT ![c] = w]
    /\ Goto(c, "place")
    /\ UNCHANGED <<saverVars, dbVars, bindings, session, importing,
                   imported, leftBehind, sessions>>

GetPlace(c) ==
    /\ At(c, "place")
    /\ Goto(c, IF PlaceOf(c) \in places THEN "deactivate" ELSE "create")
    /\ UNCHANGED dbVars /\ OnlyDatabase

CreatePlace(c) ==
    /\ At(c, "create") /\ PlaceOf(c) \notin places
    /\ places' = places \union {PlaceOf(c)} /\ Commit
    /\ Goto(c, "alias")
    /\ UNCHANGED <<aliases, active>> /\ OnlyDatabase

CreateAlias(c) ==
    /\ At(c, "alias") /\ PlaceOf(c) \notin aliases
    /\ aliases' = aliases \union {PlaceOf(c)} /\ Commit
    /\ Goto(c, "deactivate")
    /\ UNCHANGED <<places, active>> /\ OnlyDatabase

\* The insert violates a key: the mark ends, the place stays.
InsertFails(c) ==
    /\ \/ At(c, "create") /\ PlaceOf(c) \in places
       \/ At(c, "alias") /\ PlaceOf(c) \in aliases
    /\ Rollback
    /\ Goto(c, "idle")
    /\ UNCHANGED <<places, aliases>> /\ OnlyDatabase

\* Mutant: the old references stay active.
KeepRefs(c) ==
    /\ At(c, "deactivate")
    /\ Goto(c, "commit")
    /\ UNCHANGED dbVars /\ OnlyDatabase

DeactivateRefs(c) ==
    /\ At(c, "deactivate")
    /\ SetInactive(RefsOf(PlaceOf(c)) \ {marked[c]})
    /\ Goto(c, "commit")
    /\ UNCHANGED <<places, aliases>> /\ OnlyDatabase

CommitRefs(c) ==
    /\ At(c, "commit")
    /\ Commit
    /\ Goto(c, "ref")
    /\ UNCHANGED <<places, aliases, active>> /\ OnlyDatabase

CreateRef(c) ==
    /\ At(c, "ref")
    /\ active' = active \union {marked[c]} /\ Commit
    /\ Goto(c, "bind")
    /\ UNCHANGED <<places, aliases>> /\ OnlyDatabase

\* Mutant: a place that has a binding keeps it.
BindOnce(c) ==
    /\ At(c, "bind")
    /\ bindings' = [bindings EXCEPT ![PlaceOf(c)] = IF @ = NoWaypoint THEN marked[c] ELSE @]
    /\ Goto(c, "save")
    /\ UNCHANGED <<graph, saverVars, dbVars, session, importing, marked, observations>>

\* Mutant: the place is bound to itself.
BindPlace(c) ==
    /\ At(c, "bind")
    /\ bindings' = [bindings EXCEPT ![PlaceOf(c)] = PlaceOf(c)]
    /\ Goto(c, "save")
    /\ UNCHANGED <<graph, saverVars, dbVars, session, importing, marked, observations>>

Bind(c) ==
    /\ At(c, "bind")
    /\ bindings' = [bindings EXCEPT ![PlaceOf(c)] = marked[c]]
    /\ Goto(c, "save")
    /\ UNCHANGED <<graph, saverVars, dbVars, session, importing, marked, observations>>

AskSave(c) ==
    /\ At(c, "save")
    /\ Enqueue("save")
    /\ Goto(c, "idle")
    /\ UNCHANGED <<graph, dbVars, bindings, session, importing, marked, observations>>

\* remove_location: the references go, the binding stays.
RemoveLocation(c) ==
    /\ Begin(c)
    /\ \E p \in places : RefsOf(p) # {} /\ SetInactive(RefsOf(p))
    /\ Goto(c, "removed")
    /\ UNCHANGED <<graph, saverVars, places, aliases, bindings, session, importing,
                   marked, used, imported, leftBehind, sessions>>

CommitRemoval(c) ==
    /\ At(c, "removed")
    /\ Commit
    /\ Goto(c, "save")
    /\ UNCHANGED <<places, aliases, active>> /\ OnlyDatabase

ToolStep(c) ==
    \/ RecordWaypoint(c) \/ GetPlace(c) \/ CreatePlace(c) \/ CreateAlias(c)
    \/ InsertFails(c) \/ DeactivateRefs(c) \/ CommitRefs(c) \/ CreateRef(c)
    \/ Bind(c) \/ AskSave(c) \/ RemoveLocation(c) \/ CommitRemoval(c)

-------------------------------------------------------------------------------
\* The process ends, whatever its threads are doing: a crash, or the end of the
\* program, whose daemon thread is killed.  The open transaction is rolled back.
Ended ==
    /\ session' = "down" /\ pc' = Idle
    /\ Rollback
    /\ bindings' = Unbound /\ importing' = NoWaypoint /\ imported' = {}
    /\ queue' = <<>> /\ saver' = "killed"
    /\ marked' = [c \in Callers |-> NoWaypoint]

ProcessEnds ==
    /\ session # "down"
    /\ Ended
    /\ UNCHANGED <<graph, downloaded, disk, torn, lastFailed, places, aliases,
                   used, leftBehind, calls, sessions>>

\* The robot is restarted between two sessions and holds no graph.
RobotRestarts ==
    /\ session = "down" /\ graph # {}
    /\ leftBehind' = leftBehind \union (graph \ (IF torn THEN {} ELSE disk))
    /\ graph' = {}
    /\ UNCHANGED <<saverVars, dbVars, processVars, used, imported, calls, sessions>>

\* Somebody else records a named waypoint on the robot between two sessions.
OthersRecord ==
    /\ session = "down"
    /\ \E w \in Waypoints \ used : graph' = graph \union {w} /\ used' = used \union {w}
    /\ UNCHANGED <<saverVars, dbVars, processVars, imported, leftBehind, calls, sessions>>

\* create_robot_session: a new process and a new save thread.
StartSession ==
    /\ session = "down" /\ sessions < MaxSessions
    /\ session' = "upload" /\ sessions' = sessions + 1
    /\ queue' = <<>> /\ saver' = "wait" /\ downloaded' = {} /\ lastFailed' = FALSE
    /\ UNCHANGED <<graph, disk, torn, dbVars, bindings, importing, pc, marked,
                   used, imported, leftBehind, calls>>

AfterUpload == session = "upload" /\ session' = "bind"
UnchangedByUpload ==
    UNCHANGED <<saverVars, dbVars, bindings, importing, pc, marked,
                used, imported, calls, sessions>>

\* _upload_if_needed: nothing to do when the robot holds a graph, even another.
GraphOnRobot ==
    /\ AfterUpload /\ graph # {}
    /\ leftBehind' = leftBehind \union (disk \ graph)
    /\ UNCHANGED graph /\ UnchangedByUpload

\* Mutant: nothing is uploaded.
UploadNothing ==
    /\ AfterUpload
    /\ UNCHANGED <<graph, leftBehind>> /\ UnchangedByUpload

\* The robot holds none, or the look at it failed; a file cut to nothing parses
\* as an empty graph.
Upload ==
    /\ AfterUpload
    /\ graph' = IF torn THEN graph ELSE graph \union disk
    /\ UNCHANGED leftBehind /\ UnchangedByUpload

\* A file that does not parse or an upload that raises ends the start.
UploadFails ==
    /\ session = "upload"
    /\ Ended
    /\ UNCHANGED <<graph, downloaded, disk, torn, lastFailed, places, aliases,
                   used, leftBehind, calls, sessions>>

\* _sync_bindings: of several references the one registered last.
SyncBindings ==
    /\ session = "bind" /\ session' = "import"
    /\ \E b \in [Places -> active \union {NoWaypoint}] :
          /\ \A p \in Places : IF RefsOf(p) = {} THEN b[p] = NoWaypoint ELSE b[p] \in RefsOf(p)
          /\ bindings' = b
    /\ UNCHANGED <<graph, saverVars, dbVars, importing, pc, marked, observations>>

UnchangedByImport ==
    UNCHANGED <<graph, saverVars, bindings, pc, marked, used, leftBehind, calls, sessions>>

\* sync_from_robot: a named waypoint whose place is unknown, one after another.
ImportPlace ==
    /\ session = "import" /\ session' = "alias"
    /\ \E w \in graph :
          /\ PlaceNamed[w] \notin places
          /\ importing' = w /\ places' = places \union {PlaceNamed[w]}
    /\ Commit
    /\ UNCHANGED <<aliases, active, imported>> /\ UnchangedByImport

ImportAlias ==
    /\ session = "alias" /\ session' = "ref"
    /\ PlaceNamed[importing] \notin aliases
    /\ aliases' = aliases \union {PlaceNamed[importing]} /\ Commit
    /\ UNCHANGED <<importing, places, active, imported>> /\ UnchangedByImport

\* The name is another place's alias: nothing catches it, the start ends.
ImportFails ==
    /\ session = "alias" /\ PlaceNamed[importing] \in aliases
    /\ Ended
    /\ UNCHANGED <<graph, downloaded, disk, torn, lastFailed, places, aliases,
                   used, leftBehind, calls, sessions>>

ImportRef ==
    /\ session = "ref" /\ session' = "import"
    /\ active' = active \union {importing} /\ Commit
    /\ imported' = imported \union {importing} /\ importing' = NoWaypoint
    /\ UNCHANGED <<places, aliases>> /\ UnchangedByImport

Imported ==
    /\ session = "import" /\ \A w \in graph : PlaceNamed[w] \in places
    /\ session' = "up"
    /\ UNCHANGED <<importing, dbVars, imported>> /\ UnchangedByImport

SessionStep ==
    \/ ProcessEnds \/ RobotRestarts \/ OthersRecord \/ StartSession
    \/ GraphOnRobot \/ Upload \/ UploadFails \/ SyncBindings
    \/ ImportPlace \/ ImportAlias \/ ImportFails \/ ImportRef \/ Imported

Next ==
    \/ \E c \in Callers : ToolStep(c)
    \/ SaverStep /\ UNCHANGED <<graph, dbVars, processVars, observations>>
    \/ SessionStep

Spec == Init /\ [][Next]_vars

-------------------------------------------------------------------------------
TypeOK ==
    /\ SaverTypeOK
    /\ places \subseteq Places /\ aliases \subseteq Places
    /\ active \subseteq Waypoints /\ deactivated \subseteq Waypoints
    /\ bindings \in [Places -> Waypoints \union {NoWaypoint}]
    /\ session \in {"up", "down", "upload", "bind", "import", "alias", "ref"}
    /\ importing \in Waypoints \union {NoWaypoint}
    /\ pc \in [Callers -> {"idle", "place", "create", "alias", "deactivate", "commit",
                           "ref", "bind", "save", "removed"}]
    /\ marked \in [Callers -> Waypoints \union {NoWaypoint}]
    /\ used \subseteq Waypoints /\ imported \subseteq Waypoints
    /\ leftBehind \subseteq Waypoints
    /\ calls \in 0..MaxCalls /\ sessions \in 0..MaxSessions

\* With one tool thread a place never has two active references, whatever the
\* order of marks, removals, imports, crashes and restarts: what a crash rolls
\* back was never replaced.
OneActiveRef ==
    \A v, w \in active : PlaceNamed[v] = PlaceNamed[w] => v = w

\* Between tool calls a place with an active reference is bound to it, but a
\* place whose waypoint was imported in this session: a mark after a removal,
\* an update, and a restart in the middle of either all lead there.
MarkedIsBound ==
    session = "up" /\ pc = Idle =>
       \A w \in active \ imported : bindings[PlaceNamed[w]] = w

\* A place is never sent to a waypoint the robot lost although the graph file
\* had it: the upload at the start brings it back, unless the robot holds
\* another graph by then.
SavedWaypointsReturn ==
    session = "up" =>
       \A p \in Places : bindings[p] \in {NoWaypoint} \union graph \union leftBehind

-------------------------------------------------------------------------------
\* A claim of the code's documentation that the code does not keep.

\* agent/tools.py, forget_location: a forgotten place can no longer be
\* navigated to.
ForgottenNotNavigable ==
    session = "up" /\ pc = Idle =>
       \A p \in Places : RefsOf(p) = {} => bindings[p] = NoWaypoint

===============================================================================

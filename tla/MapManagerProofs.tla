--------------------------- MODULE MapManagerProofs ---------------------------
(***************************************************************************)
(* Proofs about MapManager, for any places, names of waypoints, seeds and  *)
(* bounds: the types and SavedWaypointsReturn for any number of tool       *)
(* threads, what is said of references and bindings for one.               *)
(***************************************************************************)
EXTENDS MapManager, TLAPS

Marking == {"place", "create", "alias", "deactivate", "commit", "ref", "bind"}

\* Who works when: the tools in an open session, the save thread only on their
\* messages; a waypoint being marked or imported is on the robot.
PhaseInv ==
    /\ session # "up" => pc = Idle
    /\ session \in {"alias", "ref"} => importing \in graph
    /\ \A c \in Callers : pc[c] \in Marking => marked[c] \in graph
    /\ session = "down" => saver = "killed"
    /\ session \in {"upload", "bind", "import", "alias", "ref"} => saver = "wait" /\ queue = <<>>

\* What an upload brings back.
OnFile == IF torn THEN {} ELSE disk

\* The robot has every waypoint that has a reference, or will have it after the
\* upload of the start, or has lost it for good.
ReachInv ==
    /\ \A w \in active \union deactivated :
          \/ w \in graph \union leftBehind
          \/ session \in {"down", "upload"} /\ w \in OnFile
    /\ session \in {"import", "alias", "ref", "up"} =>
          \A p \in Places : bindings[p] \in {NoWaypoint} \union graph \union leftBehind

MapInv == TypeOK /\ PhaseInv /\ ReachInv

LEMMA InitMapInv == Init => MapInv
<1> SUFFICES ASSUME Init PROVE MapInv
  OBVIOUS
<1> USE NamesAssumption, BoundsAssumption DEF Init
<1>1. SaverTypeOK
  <2>1. queue \in Seq({"save", "stop"})
    OBVIOUS
  <2>2. torn \in BOOLEAN /\ lastFailed \in BOOLEAN
    OBVIOUS
  <2> QED
    BY <2>1, <2>2 DEF SaverTypeOK
<1>2. TypeOK
  BY <1>1 DEF TypeOK, Unbound, Idle
<1>3. PhaseInv /\ ReachInv
  BY DEF PhaseInv, ReachInv, Idle, Marking
<1> QED
  BY <1>2, <1>3 DEF MapInv

\* A step of a tool.
LEMMA ToolMapInv ==
    ASSUME MapInv, NEW c \in Callers, ToolStep(c)
    PROVE  MapInv'
<1> USE NamesAssumption, BoundsAssumption
    DEF MapInv, TypeOK, SaverTypeOK, PhaseInv, ReachInv, OnFile, At, Goto, Begin, Commit,
        Rollback, SetInactive, OnlyDatabase, PlaceOf, Idle, Marking, saverVars, dbVars,
        observations
<1>0. session = "up"
  BY DEF ToolStep, RecordWaypoint, GetPlace, CreatePlace, CreateAlias, InsertFails,
         DeactivateRefs, CommitRefs, CreateRef, Bind, AskSave, RemoveLocation, CommitRemoval
<1>1. CASE RecordWaypoint(c)
  BY <1>0, <1>1 DEF RecordWaypoint
<1>2. CASE GetPlace(c)
  BY <1>0, <1>2 DEF GetPlace
<1>3. CASE CreatePlace(c)
  BY <1>0, <1>3 DEF CreatePlace
<1>4. CASE CreateAlias(c)
  BY <1>0, <1>4 DEF CreateAlias
<1>5. CASE InsertFails(c)
  BY <1>0, <1>5 DEF InsertFails
<1>6. CASE DeactivateRefs(c)
  BY <1>0, <1>6 DEF DeactivateRefs, RefsOf
<1>7. CASE CommitRefs(c)
  BY <1>0, <1>7 DEF CommitRefs
<1>8. CASE CreateRef(c)
  BY <1>0, <1>8 DEF CreateRef
<1>9. CASE Bind(c)
  BY <1>0, <1>9 DEF Bind
<1>10. CASE AskSave(c)
  <2>1. queue' \in Seq({"save", "stop"})
    BY <1>10 DEF AskSave, Enqueue
  <2> QED
    BY <1>0, <1>10, <2>1 DEF AskSave, Enqueue
<1>11. CASE RemoveLocation(c)
  BY <1>0, <1>11 DEF RemoveLocation, RefsOf
<1>12. CASE CommitRemoval(c)
  BY <1>0, <1>12 DEF CommitRemoval
<1> QED
  BY <1>1, <1>2, <1>3, <1>4, <1>5, <1>6, <1>7, <1>8, <1>9, <1>10, <1>11, <1>12 DEF ToolStep

\* A step of the save thread: the session is open.
LEMMA SaverMapInv ==
    ASSUME MapInv, SaverStep, UNCHANGED <<graph, dbVars, processVars, observations>>
    PROVE  MapInv'
<1> USE DEF MapInv, PhaseInv, ReachInv, OnFile, Idle, Marking, dbVars, processVars, observations
<1>1. SaverTypeOK'
  <2> USE DEF TypeOK, SaverTypeOK
  <2>1. CASE TakeSave \/ TakeStop \/ Drain
    <3>1. queue # <<>> => Tail(queue) \in Seq({"save", "stop"})
      OBVIOUS
    <3> QED
      BY <2>1, <3>1 DEF TakeSave, TakeStop, Drain
  <2>2. CASE Drained \/ Download
    BY <2>2 DEF Drained, Download
  <2>3. CASE OpenFile \/ WriteFile \/ SaveFails
    BY <2>3 DEF OpenFile, WriteFile, SaveFails
  <2> QED
    BY <2>1, <2>2, <2>3 DEF SaverStep
<1>2. session = "up"
  BY DEF TypeOK, SaverStep, TakeSave, TakeStop, Drain, Drained, Download, OpenFile, WriteFile,
         SaveFails
<1> QED
  BY <1>1, <1>2 DEF TypeOK

\* What the end of a process makes of the invariant.
LEMMA EndedMapInv ==
    ASSUME MapInv, session # "down", Ended,
           UNCHANGED <<graph, downloaded, disk, torn, lastFailed, places, aliases,
                       used, leftBehind, calls, sessions>>
    PROVE  MapInv'
  BY NamesAssumption
  DEF Ended, Rollback, Idle, Unbound, MapInv, TypeOK, SaverTypeOK, PhaseInv, ReachInv, OnFile,
      Marking

\* Between two sessions and at the start of one.
LEMMA SessionMapInv ==
    ASSUME MapInv, SessionStep
    PROVE  MapInv'
<1> USE NamesAssumption, BoundsAssumption
    DEF MapInv, TypeOK, SaverTypeOK, PhaseInv, ReachInv, OnFile, Commit, Idle, Marking,
        saverVars, dbVars, processVars, observations
<1>1. CASE ProcessEnds \/ UploadFails \/ ImportFails
  BY <1>1, EndedMapInv DEF ProcessEnds, UploadFails, ImportFails
<1>2. CASE RobotRestarts
  BY <1>2 DEF RobotRestarts
<1>3. CASE OthersRecord
  BY <1>3 DEF OthersRecord
<1>4. CASE StartSession
  <2>1. queue' \in Seq({"save", "stop"})
    BY <1>4 DEF StartSession
  <2>2. sessions' \in 0..MaxSessions
    BY <1>4 DEF StartSession
  <2> QED
    BY <1>4, <2>1, <2>2 DEF StartSession
<1>5. CASE GraphOnRobot \/ Upload
  BY <1>5 DEF GraphOnRobot, Upload, AfterUpload, UnchangedByUpload
<1>6. CASE SyncBindings
  BY <1>6 DEF SyncBindings, RefsOf
<1>7. CASE ImportPlace \/ ImportAlias \/ ImportRef
  BY <1>7 DEF ImportPlace, ImportAlias, ImportRef, UnchangedByImport
<1>8. CASE Imported
  BY <1>8 DEF Imported, UnchangedByImport
<1> QED
  BY <1>1, <1>2, <1>3, <1>4, <1>5, <1>6, <1>7, <1>8 DEF SessionStep

LEMMA MapInvariant == Spec => []MapInv
<1>1. ASSUME MapInv, UNCHANGED vars PROVE MapInv'
  BY <1>1 DEF MapInv, TypeOK, SaverTypeOK, PhaseInv, ReachInv, OnFile, Idle, vars, saverVars,
              dbVars, processVars, observations
<1>2. MapInv /\ [Next]_vars => MapInv'
  BY <1>1, ToolMapInv, SaverMapInv, SessionMapInv DEF Next
<1> QED
  BY <1>2, InitMapInv, PTL DEF Spec

\* Rows, waypoints and bindings keep their types, whatever the sessions, the
\* save thread and the tools do (map_manager.py, session.py).
THEOREM MapTypeCorrect == Spec => []TypeOK
<1>1. MapInv => TypeOK
  BY DEF MapInv
<1> QED
  BY <1>1, MapInvariant, PTL

\* In an open session a place is bound to a waypoint the robot has, or lost
\* without a copy: the upload of create_robot_session brings the others back,
\* for any number of tool threads, at whatever point the last process ended.
THEOREM MapsComeBack == Spec => []SavedWaypointsReturn
<1>1. MapInv => SavedWaypointsReturn
  BY DEF MapInv, ReachInv, SavedWaypointsReturn
<1> QED
  BY <1>1, MapInvariant, PTL

-------------------------------------------------------------------------------
\* One tool thread: the transaction it leaves open is its own.
OneThread == \A c, d \in Callers : c = d

\* References and those that a rollback would restore: one for each place, of
\* places that have a row; what is pending waits for its thread; a place is
\* clear of other references as it gets one.
RefsInv ==
    /\ \A v, w \in active \union deactivated : PlaceNamed[v] = PlaceNamed[w] => v = w
    /\ \A w \in active \union deactivated : PlaceNamed[w] \in places
    /\ deactivated # {} => \E c \in Callers : pc[c] \in {"commit", "removed"}
    /\ session \in {"alias", "ref"} =>
          /\ PlaceNamed[importing] \in places
          /\ \A w \in active : PlaceNamed[w] # PlaceNamed[importing]
    /\ \A c \in Callers :
          /\ pc[c] \in {"alias", "deactivate", "commit", "ref"} => PlaceOf(c) \in places
          /\ pc[c] \in {"commit", "ref", "bind"} =>
                \A w \in active : PlaceNamed[w] = PlaceOf(c) => w = marked[c]

\* A reference is bound, or imported, or about to be bound.
BoundInv ==
    session \in {"import", "alias", "ref", "up"} =>
       \A w \in active \ imported :
          \/ bindings[PlaceNamed[w]] = w
          \/ \E c \in Callers : pc[c] = "bind" /\ marked[c] = w

LEMMA ToolRefsInv ==
    ASSUME OneThread, MapInv, RefsInv, BoundInv, NEW c \in Callers, ToolStep(c)
    PROVE  RefsInv' /\ BoundInv'
<1> USE NamesAssumption
    DEF OneThread, TypeOK, RefsInv, BoundInv, At, Goto, Begin, Commit, Rollback, SetInactive,
        OnlyDatabase, PlaceOf, Idle, Marking, saverVars, dbVars, observations
<1>0. /\ session = "up"
      /\ pc[c] \in Marking => marked[c] \in Waypoints
      /\ TypeOK
  BY DEF ToolStep, RecordWaypoint, GetPlace, CreatePlace, CreateAlias, InsertFails,
         DeactivateRefs, CommitRefs, CreateRef, Bind, AskSave, RemoveLocation, CommitRemoval,
         MapInv, PhaseInv, SaverTypeOK
<1>1. CASE RecordWaypoint(c)
  BY <1>0, <1>1 DEF RecordWaypoint
<1>2. CASE GetPlace(c)
  BY <1>0, <1>2 DEF GetPlace
<1>3. CASE CreatePlace(c)
  BY <1>0, <1>3 DEF CreatePlace
<1>4. CASE CreateAlias(c)
  BY <1>0, <1>4 DEF CreateAlias
<1>5. CASE InsertFails(c)
  BY <1>0, <1>5 DEF InsertFails
<1>6. CASE DeactivateRefs(c)
  BY <1>0, <1>6 DEF DeactivateRefs, RefsOf
<1>7. CASE CommitRefs(c)
  BY <1>0, <1>7 DEF CommitRefs
<1>8. CASE CreateRef(c)
  <2>1. /\ deactivated = {} /\ deactivated' = {} /\ active' = active \union {marked[c]}
        /\ pc[c] = "ref" /\ pc' = [pc EXCEPT ![c] = "bind"]
        /\ UNCHANGED <<places, marked, bindings, imported, session, importing>>
    BY <1>8 DEF CreateRef
  <2>2. /\ marked[c] \in Waypoints /\ PlaceNamed[marked[c]] \in places
        /\ \A w \in active : PlaceNamed[w] = PlaceNamed[marked[c]] => w = marked[c]
    BY <1>0, <2>1
  <2>3. RefsInv'
    BY <1>0, <2>1, <2>2
  <2>4. BoundInv'
    BY <1>0, <2>1
  <2> QED
    BY <2>3, <2>4
<1>9. CASE Bind(c)
  BY <1>0, <1>9 DEF Bind
<1>10. CASE AskSave(c)
  BY <1>0, <1>10 DEF AskSave, Enqueue
<1>11. CASE RemoveLocation(c)
  BY <1>0, <1>11 DEF RemoveLocation, RefsOf
<1>12. CASE CommitRemoval(c)
  BY <1>0, <1>12 DEF CommitRemoval
<1> QED
  BY <1>1, <1>2, <1>3, <1>4, <1>5, <1>6, <1>7, <1>8, <1>9, <1>10, <1>11, <1>12 DEF ToolStep

LEMMA SessionRefsInv ==
    ASSUME MapInv, RefsInv, BoundInv, SessionStep
    PROVE  RefsInv' /\ BoundInv'
<1> USE NamesAssumption
    DEF TypeOK, RefsInv, BoundInv, Commit, Rollback, Idle, PlaceOf, saverVars, dbVars,
        processVars, observations
<1>0. /\ TypeOK /\ graph \subseteq Waypoints
      /\ session # "up" => pc = Idle /\ deactivated = {}
      /\ session \in {"alias", "ref"} => importing \in Waypoints
  BY DEF MapInv, PhaseInv, SaverTypeOK
<1>1. CASE ProcessEnds \/ UploadFails \/ ImportFails
  BY <1>0, <1>1 DEF ProcessEnds, UploadFails, ImportFails, Ended
<1>2. CASE RobotRestarts \/ OthersRecord \/ StartSession
  BY <1>0, <1>2 DEF RobotRestarts, OthersRecord, StartSession
<1>3. CASE GraphOnRobot \/ Upload
  BY <1>0, <1>3 DEF GraphOnRobot, Upload, AfterUpload, UnchangedByUpload
<1>4. CASE SyncBindings
  BY <1>0, <1>4 DEF SyncBindings, RefsOf
<1>5. CASE ImportPlace
  BY <1>0, <1>5 DEF ImportPlace, UnchangedByImport
<1>6. CASE ImportAlias
  BY <1>0, <1>6 DEF ImportAlias, UnchangedByImport
<1>7. CASE ImportRef
  BY <1>0, <1>7 DEF ImportRef, UnchangedByImport
<1>8. CASE Imported
  BY <1>0, <1>8 DEF Imported, UnchangedByImport
<1> QED
  BY <1>1, <1>2, <1>3, <1>4, <1>5, <1>6, <1>7, <1>8 DEF SessionStep

LEMMA RefsInvariant ==
    ASSUME OneThread
    PROVE  Spec => [](MapInv /\ RefsInv /\ BoundInv)
<1>1. Init => RefsInv /\ BoundInv
  BY DEF Init, RefsInv, BoundInv, Idle
<1>2. ASSUME RefsInv, BoundInv, UNCHANGED <<dbVars, processVars, observations>>
      PROVE  RefsInv' /\ BoundInv'
  BY <1>2 DEF RefsInv, BoundInv, PlaceOf, dbVars, processVars, observations
<1>3. MapInv /\ RefsInv /\ BoundInv /\ [Next]_vars => RefsInv' /\ BoundInv'
  BY <1>2, ToolRefsInv, SessionRefsInv DEF Next, vars
<1> QED
  BY <1>1, <1>3, MapInvariant, PTL DEF Spec

\* With one tool thread a place never has two active references
\* (_mark_location, remove_location and sync_from_robot, map_manager.py), for
\* any places, names and aliases, and a process that may end at any step.
THEOREM OneRefEach ==
    ASSUME OneThread
    PROVE  Spec => []OneActiveRef
<1>1. RefsInv => OneActiveRef
  BY DEF RefsInv, OneActiveRef
<1> QED
  BY <1>1, RefsInvariant, PTL

\* Between the calls of one tool thread every reference is bound, but the
\* imported ones: the bindings of _sync_bindings and of the marks since agree
\* with the database the process found and what it wrote there.
THEOREM RefsAreBound ==
    ASSUME OneThread
    PROVE  Spec => []MarkedIsBound
<1>1. BoundInv => MarkedIsBound
  BY DEF BoundInv, MarkedIsBound, Idle
<1> QED
  BY <1>1, RefsInvariant, PTL

===============================================================================

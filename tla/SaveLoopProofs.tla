---------------------------- MODULE SaveLoopProofs ----------------------------
(***************************************************************************)
(* Proofs about SaveLoop, for every set of waypoints and any number of     *)
(* saves asked for.                                                        *)
(***************************************************************************)
EXTENDS SaveLoop, TLAPS

\* The graph covers every change a save was asked for: it only grows.
AskedInv == asked \subseteq graph

\* While a file is written, what was asked for is in the copy to be written,
\* or there is a message behind it.
WritingInv == saver \in {"open", "fill"} => asked \subseteq downloaded \/ queue # <<>>

\* Between two rounds it is on disk, or there is a message to be taken, or the
\* last save raised.
WaitingInv == saver = "wait" => queue # <<>> \/ lastFailed \/ (asked \subseteq disk /\ ~torn)

SaverInv == TypeOK /\ AskedInv /\ WritingInv /\ WaitingInv

LEMMA InitSaverInv == Init => SaverInv
<1> SUFFICES ASSUME Init PROVE SaverInv
  OBVIOUS
<1> USE DEF Init, SaverInit
<1>1. requests \in 0..MaxRequests
  BY MaxRequestsAssumption
<1>2. queue \in Seq({"save", "stop"})
  OBVIOUS
<1>3. torn \in BOOLEAN /\ lastFailed \in BOOLEAN
  OBVIOUS
<1>4. TypeOK
  BY <1>1, <1>2, <1>3 DEF TypeOK, SaverTypeOK
<1> QED
  BY <1>4 DEF SaverInv, AskedInv, WritingInv, WaitingInv

\* A message put on the queue keeps the saver's state and its type.
LEMMA EnqueueNonEmpty ==
  ASSUME SaverInv, NEW message \in {"save", "stop"}, Enqueue(message)
  PROVE  queue' \in Seq({"save", "stop"}) /\ queue' # <<>>
  BY DEF SaverInv, TypeOK, SaverTypeOK, Enqueue

\* The save thread: what it takes from the queue it saves, after the download.
LEMMA SaverStepInv ==
  ASSUME SaverInv, SaverStep, UNCHANGED toolVars PROVE SaverInv'
<1> USE DEF SaverInv, TypeOK, SaverTypeOK, AskedInv, WritingInv, WaitingInv, toolVars
<1>1. CASE TakeSave
  BY <1>1 DEF TakeSave
<1>2. CASE TakeStop
  BY <1>2 DEF TakeStop
<1>3. CASE Drain
  BY <1>3 DEF Drain
<1>4. CASE Drained
  BY <1>4 DEF Drained
<1>5. CASE Download
  BY <1>5 DEF Download
<1>6. CASE OpenFile
  BY <1>6 DEF OpenFile
<1>7. CASE WriteFile
  BY <1>7 DEF WriteFile
<1>8. CASE SaveFails
  BY <1>8 DEF SaveFails
<1> QED
  BY <1>1, <1>2, <1>3, <1>4, <1>5, <1>6, <1>7, <1>8 DEF SaverStep

\* The tool thread: it widens what was asked for only with a message behind.
LEMMA ToolStepInv ==
  ASSUME SaverInv, ToolStep PROVE SaverInv'
<1> USE DEF SaverInv, TypeOK, SaverTypeOK, AskedInv, WritingInv, WaitingInv, saverVars
<1>1. ASSUME NEW w \in Waypoints, RecordWaypoint(w) PROVE SaverInv'
  BY <1>1 DEF RecordWaypoint
<1>2. CASE AbandonChange
  BY <1>2 DEF AbandonChange
<1>3. CASE AskSave
  <2>1. queue' \in Seq({"save", "stop"}) /\ queue' # <<>>
    BY <1>3, EnqueueNonEmpty DEF AskSave
  <2>2. requests' \in 0..MaxRequests
    BY <1>3, MaxRequestsAssumption DEF AskSave
  <2> QED
    BY <1>3, <2>1, <2>2 DEF AskSave, Enqueue
<1>4. CASE Stop
  <2>1. queue' \in Seq({"save", "stop"}) /\ queue' # <<>>
    BY <1>4, EnqueueNonEmpty DEF Stop
  <2> QED
    BY <1>4, <2>1 DEF Stop, Enqueue
<1>5. CASE JoinReturns \/ JoinTimesOut
  BY <1>5 DEF JoinReturns, JoinTimesOut
<1>6. CASE Exit
  BY <1>6 DEF Exit, toolVars
<1> QED
  BY <1>1, <1>2, <1>3, <1>4, <1>5, <1>6 DEF ToolStep

LEMMA SaverInvariant == Spec => []SaverInv
<1>1. ASSUME SaverInv, UNCHANGED vars PROVE SaverInv'
  BY <1>1 DEF SaverInv, TypeOK, SaverTypeOK, AskedInv, WritingInv, WaitingInv,
              vars, toolVars, saverVars
<1>2. SaverInv /\ [Next]_vars => SaverInv'
  BY <1>1, SaverStepInv, ToolStepInv DEF Next
<1> QED
  BY <1>2, InitSaverInv, PTL DEF Spec

\* The graph, the queue, the file and the threads keep their types, for any
\* number of requests (_enqueue_save, _save_loop and stop, map_manager.py).
THEOREM SaverTypeCorrect == Spec => []TypeOK
<1>1. SaverInv => TypeOK
  BY DEF SaverInv
<1> QED
  BY <1>1, SaverInvariant, PTL

\* A save thread that waits on an empty queue has lost no change a save was
\* asked for (_enqueue_save and _save_loop, map_manager.py): draining the
\* queue before the download is safe for any number of requests, at any time.
THEOREM DrainLosesNothing == Spec => []IdleSaverIsCurrent
<1>1. SaverInv => IdleSaverIsCurrent
  BY DEF SaverInv, WaitingInv, IdleSaverIsCurrent
<1> QED
  BY <1>1, SaverInvariant, PTL

===============================================================================

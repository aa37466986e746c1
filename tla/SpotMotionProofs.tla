--------------------------- MODULE SpotMotionProofs ---------------------------
(***************************************************************************)
(* Proofs about SpotMotion, for every set of tool threads and stop threads *)
(* and whether or not stop commands may be lost.                           *)
(***************************************************************************)
EXTENDS SpotMotion, TLAPS

\* The places of the code at which a caller's command may be on the robot
\* while the caller still looks after it.
Attended(c) == pc[c] \in {"poll", "feedback", "halt", "moving"}

\* NoMotionAfterReturn is not inductive: a caller that is about to send its
\* command may have none on the robot, or sending it would hide the old one.
AttendedInv == \A c \in Callers : command = c => Attended(c) \/ loose

MotionInv == TypeOK /\ AttendedInv

\* The session starts with the robot at rest.
LEMMA InitMotionInv == Init => MotionInv
<1>1. ASSUME Init PROVE TypeOK
  <2>1. 0 \in 0..MaxCommands /\ 0 \in 0..MaxStops
    BY BoundsAssumption
  <2>2. loose \in BOOLEAN
    BY <1>1 DEF Init
  <2> QED
    BY <1>1, <2>1, <2>2 DEF Init, TypeOK
<1>2. Init => AttendedInv
  BY NoCallerAssumption DEF Init, AttendedInv
<1> QED
  BY <1>1, <1>2 DEF MotionInv

\* Every step keeps the types.
LEMMA NextTypeOK == TypeOK /\ [Next]_vars => TypeOK'
<1> SUFFICES ASSUME TypeOK, [Next]_vars PROVE TypeOK'
  OBVIOUS
<1> USE BoundsAssumption DEF TypeOK
<1>1. ASSUME NEW c \in Callers,
             NavigateUnderStop(c) \/ NavigateRefused(c) \/ Navigate(c) \/ Move(c) \/ MoveFails(c)
      PROVE  TypeOK'
  <2> commands' \in 0..MaxCommands
    BY <1>1 DEF NavigateUnderStop, NavigateRefused, Navigate, Move, MoveFails, Begin
  <2>1. CASE NavigateUnderStop(c) \/ NavigateRefused(c) \/ MoveFails(c)
    BY <2>1 DEF NavigateUnderStop, NavigateRefused, MoveFails, End, Goto, robotVars
  <2>2. CASE Navigate(c)
    BY <2>2 DEF Navigate, Goto, robotVars
  <2>3. CASE Move(c)
    BY <2>3 DEF Move, Goto, RobotTakes
  <2> QED
    BY <1>1, <2>1, <2>2, <2>3
<1>2. ASSUME NEW c \in Callers,
             \/ SendNavigation(c) \/ SendNavigationFails(c)
             \/ Poll(c) \/ PollStopped(c) \/ Deadline(c)
      PROVE  TypeOK'
  BY <1>2 DEF SendNavigation, SendNavigationFails, Poll, PollStopped, Deadline,
              End, EndStopping, Goto, RobotTakes, robotVars
<1>3. ASSUME NEW c \in Callers,
             \/ StillMoving(c) \/ Reached(c) \/ NavigationFault(c) \/ Overridden(c)
             \/ FeedbackRaises(c) \/ Halt(c)
      PROVE  TypeOK'
  BY <1>3 DEF StillMoving, Reached, NavigationFault, Overridden, FeedbackRaises, Halt,
              End, EndStopping, Goto, RobotEnds, StopLost, robotVars
<1>4. ASSUME NEW c \in Callers, MoveExpires(c) \/ MoveEnds(c) \/ MoveStopFails(c)
      PROVE  TypeOK'
  BY <1>4 DEF MoveExpires, MoveEnds, MoveStopFails, End, Goto, RobotEnds, robotVars
<1>5. ASSUME NEW s \in Stoppers, StopControl(s)
      PROVE  TypeOK'
  <2>1. CASE RequestStop(s)
    BY <2>1 DEF RequestStop, robotVars
  <2>2. CASE StopRobot(s)
    BY <2>2 DEF StopRobot, RobotEnds, StopLost
  <2>3. CASE ClearStop(s)
    BY <2>3 DEF ClearStop, robotVars
  <2> QED
    BY <1>5, <2>1, <2>2, <2>3 DEF StopControl
<1>6. CASE UNCHANGED vars
  BY <1>6 DEF vars, robotVars
<1> QED
  BY <1>1, <1>2, <1>3, <1>4, <1>5, <1>6 DEF Next, Continue

\* Every way out of a call takes its command off the robot or marks it loose.
LEMMA NextAttendedInv == MotionInv /\ [Next]_vars => AttendedInv'
<1> SUFFICES ASSUME MotionInv, [Next]_vars PROVE AttendedInv'
  OBVIOUS
<1> USE NoCallerAssumption DEF MotionInv, TypeOK, AttendedInv, Attended
\* Nothing of the caller was on the robot, or it is loose already.
<1>1. ASSUME NEW c \in Callers,
             NavigateUnderStop(c) \/ NavigateRefused(c) \/ Navigate(c) \/ MoveFails(c)
      PROVE  AttendedInv'
  BY <1>1 DEF NavigateUnderStop, NavigateRefused, Navigate, MoveFails,
              Begin, End, Goto, robotVars
\* The robot takes the command of a caller that goes on to look after it.
<1>2. ASSUME NEW c \in Callers, Move(c) \/ SendNavigation(c)
      PROVE  AttendedInv'
  BY <1>2 DEF Move, SendNavigation, Begin, Goto, RobotTakes
<1>3. ASSUME NEW c \in Callers, SendNavigationFails(c)
      PROVE  AttendedInv'
  BY <1>3 DEF SendNavigationFails, End, Goto, robotVars
\* The caller stays at a place where it looks after its command.
<1>4. ASSUME NEW c \in Callers,
             \/ Poll(c) \/ PollStopped(c) \/ Deadline(c)
             \/ StillMoving(c) \/ NavigationFault(c)
      PROVE  AttendedInv'
  BY <1>4 DEF Poll, PollStopped, Deadline, StillMoving, NavigationFault,
              EndStopping, Goto, robotVars
\* The robot rests afterwards.
<1>5. ASSUME NEW c \in Callers, Reached(c) \/ MoveExpires(c) \/ MoveEnds(c)
      PROVE  AttendedInv'
  BY <1>5 DEF Reached, MoveExpires, MoveEnds, RobotEnds
\* The caller leaves while the robot executes another command.
<1>6. ASSUME NEW c \in Callers, Overridden(c) \/ MoveStopFails(c)
      PROVE  AttendedInv'
  BY <1>6 DEF Overridden, MoveStopFails, End, Goto, robotVars
\* The caller leaves its command behind knowingly.
<1>7. ASSUME NEW c \in Callers, FeedbackRaises(c)
      PROVE  AttendedInv'
  BY <1>7 DEF FeedbackRaises, End, Goto
<1>8. ASSUME NEW c \in Callers, Halt(c)
      PROVE  AttendedInv'
  <2>1. CASE RobotEnds
    BY <2>1 DEF RobotEnds
  <2>2. CASE StopLost /\ loose' = (loose \/ command = c)
    BY <1>8, <2>2 DEF Halt, StopLost, Goto
  <2> QED
    BY <1>8, <2>1, <2>2 DEF Halt
<1>9. ASSUME NEW s \in Stoppers, StopControl(s)
      PROVE  AttendedInv'
  BY <1>9 DEF StopControl, RequestStop, StopRobot, ClearStop, RobotEnds, StopLost, robotVars
<1>10. CASE UNCHANGED vars
  BY <1>10 DEF vars, robotVars
<1> QED
  BY <1>1, <1>2, <1>3, <1>4, <1>5, <1>6, <1>7, <1>8, <1>9, <1>10 DEF Next, Continue

\* The inductive invariant of the adapter's motion.
LEMMA MotionInvariant == Spec => []MotionInv
<1>1. MotionInv /\ [Next]_vars => MotionInv'
  BY NextTypeOK, NextAttendedInv DEF MotionInv
<1> QED
  BY <1>1, InitMotionInv, PTL DEF Spec

\* Threads, commands and stops keep their types, for any number of tool threads
\* and stop threads (RealSpotAdapter, adapters/spot.py).
THEOREM MotionTypeCorrect == Spec => []TypeOK
<1>1. MotionInv => TypeOK
  BY DEF MotionInv
<1> QED
  BY <1>1, MotionInvariant, PTL

\* No call of navigate or move_robot that has ended leaves its command on the
\* robot, but after an exception of the feedback or a lost stop command
\* (adapters/spot.py, tools/handlers.py), whatever the threads interleave.
THEOREM MotionEnds == Spec => []NoMotionAfterReturn
<1>1. MotionInv => NoMotionAfterReturn
  BY DEF MotionInv, AttendedInv, Attended, NoMotionAfterReturn
<1> QED
  BY <1>1, MotionInvariant, PTL

===============================================================================

------------------------------ MODULE SpotMotion ------------------------------
(***************************************************************************)
(* Who moves the robot and who stops it: RealSpotAdapter.navigate with its *)
(* polling loop, request_stop and clear_stop (adapters/spot.py), the       *)
(* move_robot operation (tools/handlers.py), and the terminal stop         *)
(* controller (safety/terminal_estop.py).  They run in different threads   *)
(* on one adapter, with no lock around its stop flag.                      *)
(*                                                                         *)
(* The robot (external) executes one command at a time; a new command or a *)
(* stop command ends the one before it, whose navigation feedback then     *)
(* says "overridden".                                                      *)
(***************************************************************************)
EXTENDS Integers

CONSTANTS
    Callers,        \* threads that run navigate and move_robot
    Stoppers,       \* threads that run request_stop and clear_stop
    NoCaller,       \* the robot executes no command
    StopsAreLossy,  \* a stop command may fail; the exception is swallowed
    MaxCommands,    \* bound on navigations and moves
    MaxStops        \* bound on stop requests

ASSUME NoCallerAssumption == NoCaller \notin Callers
ASSUME LossAssumption == StopsAreLossy \in BOOLEAN
ASSUME BoundsAssumption == MaxCommands \in Nat /\ MaxStops \in Nat

VARIABLES
    \* the adapter
    stopState,      \* _stop_state
    \* the robot
    command,        \* the caller whose command the robot executes
    \* the callers
    pc, outcome,
    \* the stop threads
    stopPc,
    \* observation
    loose,          \* the robot's command was left behind by a call that ended
    commands, stops

robotVars == <<command, loose>>
vars == <<stopState, robotVars, pc, outcome, stopPc, commands, stops>>

Init ==
    /\ stopState = "clear" /\ command = NoCaller
    /\ pc = [c \in Callers |-> "idle"] /\ outcome = [c \in Callers |-> "none"]
    /\ stopPc = [s \in Stoppers |-> "idle"]
    /\ loose = FALSE /\ commands = 0 /\ stops = 0

-------------------------------------------------------------------------------
\* What the robot does next.
RobotTakes(c) == command' = c /\ loose' = FALSE
RobotEnds == command' = NoCaller /\ loose' = FALSE

\* _send_stop_to_robot: best effort.
StopLost == StopsAreLossy /\ UNCHANGED command

Goto(c, label) == pc' = [pc EXCEPT ![c] = label]

\* The call ends with this outcome; "raised" is an exception.
End(c, o) == Goto(c, "idle") /\ outcome' = [outcome EXCEPT ![c] = o]

\* The call ends with this outcome once the stop command is sent.
EndStopping(c, o) == Goto(c, "halt") /\ outcome' = [outcome EXCEPT ![c] = o]

Begin(c) == pc[c] = "idle" /\ commands < MaxCommands /\ commands' = commands + 1

\* navigate up to the command: the stop flag, then the binding and the lease.
NavigateUnderStop(c) ==
    /\ Begin(c) /\ stopState = "stop_requested"
    /\ End(c, "cancelled")
    /\ UNCHANGED <<stopState, robotVars, stopPc, stops>>

NavigateRefused(c) ==       \* no waypoint bound, or no lease held
    /\ Begin(c) /\ stopState = "clear"
    /\ End(c, "failed")
    /\ UNCHANGED <<stopState, robotVars, stopPc, stops>>

Navigate(c) ==
    /\ Begin(c) /\ stopState = "clear"
    /\ Goto(c, "send") /\ outcome' = [outcome EXCEPT ![c] = "none"]
    /\ UNCHANGED <<stopState, robotVars, stopPc, stops>>

\* navigate_to; the flag is not looked at again before the first poll.
SendNavigation(c) ==
    /\ pc[c] = "send"
    /\ RobotTakes(c)
    /\ Goto(c, "poll")
    /\ UNCHANGED <<stopState, outcome, stopPc, commands, stops>>

SendNavigationFails(c) ==
    /\ pc[c] = "send"
    /\ End(c, "failed")
    /\ UNCHANGED <<stopState, robotVars, stopPc, commands, stops>>

\* Mutant: the polling loop does not look at the stop flag.
PollIgnoringStop(c) ==
    /\ pc[c] = "poll"
    /\ Goto(c, "feedback")
    /\ UNCHANGED <<stopState, robotVars, outcome, stopPc, commands, stops>>

\* One round of the polling loop: the deadline, the flag, the feedback.
Poll(c) ==
    /\ pc[c] = "poll" /\ stopState = "clear"
    /\ Goto(c, "feedback")
    /\ UNCHANGED <<stopState, robotVars, outcome, stopPc, commands, stops>>

PollStopped(c) ==
    /\ pc[c] = "poll" /\ stopState = "stop_requested"
    /\ EndStopping(c, "cancelled")
    /\ UNCHANGED <<stopState, robotVars, stopPc, commands, stops>>

\* Mutant: a navigation that times out leaves the robot to it.
LeaveAtDeadline(c) ==
    /\ pc[c] = "poll"
    /\ End(c, "failed")
    /\ UNCHANGED <<stopState, robotVars, stopPc, commands, stops>>

\* Mutant: a status SpotActionStatus does not have.
DeadlineStatus(c) ==
    /\ pc[c] = "poll"
    /\ EndStopping(c, "timed_out")
    /\ UNCHANGED <<stopState, robotVars, stopPc, commands, stops>>

Deadline(c) ==
    /\ pc[c] = "poll"
    /\ EndStopping(c, "failed")
    /\ UNCHANGED <<stopState, robotVars, stopPc, commands, stops>>

StillMoving(c) ==
    /\ pc[c] = "feedback" /\ command = c
    /\ Goto(c, "poll")
    /\ UNCHANGED <<stopState, robotVars, outcome, stopPc, commands, stops>>

Reached(c) ==
    /\ pc[c] = "feedback" /\ command = c
    /\ RobotEnds
    /\ End(c, "succeeded")
    /\ UNCHANGED <<stopState, stopPc, commands, stops>>

\* Localization lost, or no route, stuck, impaired, fault, lease error.
NavigationFault(c) ==
    /\ pc[c] = "feedback" /\ command = c
    /\ \E o \in {"relocalization_needed", "failed"} : EndStopping(c, o)
    /\ UNCHANGED <<stopState, robotVars, stopPc, commands, stops>>

Overridden(c) ==
    /\ pc[c] = "feedback" /\ command # c
    /\ End(c, "cancelled")
    /\ UNCHANGED <<stopState, robotVars, stopPc, commands, stops>>

\* navigation_feedback raises: nothing catches it and no stop is sent.
FeedbackRaises(c) ==
    /\ pc[c] = "feedback"
    /\ End(c, "raised")
    /\ loose' = (loose \/ command = c)
    /\ UNCHANGED <<stopState, command, stopPc, commands, stops>>

Halt(c) ==
    /\ pc[c] = "halt"
    /\ RobotEnds \/ (StopLost /\ loose' = (loose \/ command = c))
    /\ Goto(c, "idle")
    /\ UNCHANGED <<stopState, outcome, stopPc, commands, stops>>

-------------------------------------------------------------------------------
\* move_robot: a velocity command that ends by itself, whatever the flag.
Move(c) ==
    /\ Begin(c)
    /\ RobotTakes(c)
    /\ Goto(c, "moving") /\ outcome' = [outcome EXCEPT ![c] = "none"]
    /\ UNCHANGED <<stopState, stopPc, stops>>

MoveFails(c) ==             \* the command raises
    /\ Begin(c)
    /\ End(c, "failed")
    /\ UNCHANGED <<stopState, robotVars, stopPc, stops>>

MoveExpires(c) ==
    /\ pc[c] = "moving" /\ command = c
    /\ RobotEnds
    /\ UNCHANGED <<stopState, pc, outcome, stopPc, commands, stops>>

\* After the sleep a stop command is sent, to whatever the robot does now.
MoveEnds(c) ==
    /\ pc[c] = "moving" /\ command # c
    /\ RobotEnds
    /\ End(c, "succeeded")
    /\ UNCHANGED <<stopState, stopPc, commands, stops>>

MoveStopFails(c) ==
    /\ pc[c] = "moving" /\ command # c
    /\ End(c, "failed")
    /\ UNCHANGED <<stopState, robotVars, stopPc, commands, stops>>

-------------------------------------------------------------------------------
\* request_stop: the flag first, then the stop command.
RequestStop(s) ==
    /\ stopPc[s] = "idle" /\ stops < MaxStops
    /\ stops' = stops + 1
    /\ stopState' = "stop_requested"
    /\ stopPc' = [stopPc EXCEPT ![s] = "send"]
    /\ UNCHANGED <<robotVars, pc, outcome, commands>>

StopRobot(s) ==
    /\ stopPc[s] = "send"
    /\ RobotEnds \/ (StopLost /\ UNCHANGED loose)
    /\ stopPc' = [stopPc EXCEPT ![s] = "idle"]
    /\ UNCHANGED <<stopState, pc, outcome, commands, stops>>

ClearStop(s) ==
    /\ stopPc[s] = "idle" /\ stopState = "stop_requested"
    /\ stopState' = "clear"
    /\ UNCHANGED <<robotVars, pc, outcome, stopPc, commands, stops>>

\* The request_stop and clear_stop tools and the terminal controller alike.
StopControl(s) == RequestStop(s) \/ StopRobot(s) \/ ClearStop(s)

-------------------------------------------------------------------------------
\* What a thread does once its call has started.
Continue(c) ==
    \/ SendNavigation(c) \/ SendNavigationFails(c)
    \/ Poll(c) \/ PollStopped(c) \/ Deadline(c)
    \/ StillMoving(c) \/ Reached(c) \/ NavigationFault(c) \/ Overridden(c)
    \/ FeedbackRaises(c) \/ Halt(c)
    \/ MoveExpires(c) \/ MoveEnds(c) \/ MoveStopFails(c)

Next ==
    \/ \E c \in Callers :
          \/ NavigateUnderStop(c) \/ NavigateRefused(c) \/ Navigate(c)
          \/ Move(c) \/ MoveFails(c)
          \/ Continue(c)
    \/ \E s \in Stoppers : StopControl(s)

Spec == Init /\ [][Next]_vars

\* Threads keep running: a feedback or a command returns or raises, and the
\* time.sleep of the loop ends.
FairSpec ==
    /\ Spec
    /\ \A c \in Callers : WF_vars(Continue(c))
    /\ \A s \in Stoppers : WF_vars(StopRobot(s))

-------------------------------------------------------------------------------
TypeOK ==
    /\ stopState \in {"clear", "stop_requested"}
    /\ command \in Callers \union {NoCaller}
    /\ pc \in [Callers -> {"idle", "send", "poll", "feedback", "halt", "moving"}]
    /\ outcome \in [Callers -> {"none", "succeeded", "failed", "cancelled",
                                "relocalization_needed", "raised"}]
    /\ stopPc \in [Stoppers -> {"idle", "send"}]
    /\ loose \in BOOLEAN
    /\ commands \in 0..MaxCommands /\ stops \in 0..MaxStops

\* A call that has ended leaves no command of its own on the robot, on any
\* way out of navigate and move_robot, but the two that leave it knowingly:
\* an exception of the feedback and a stop command that was lost.
NoMotionAfterReturn == \A c \in Callers : pc[c] = "idle" /\ command = c => loose

\* A stop that is not cleared ends every navigation, also one that had passed
\* the check of the flag and sent its command after the stop command.
Navigating(c) == pc[c] \in {"send", "poll", "feedback", "halt"}

StopEndsNavigation ==
    \A c \in Callers :
       (stopState = "stop_requested" /\ Navigating(c))
          ~> \/ pc[c] = "idle" /\ (command = c => loose)
             \/ stopState = "clear"

-------------------------------------------------------------------------------
\* A claim of the code's documentation that the code does not keep.

\* agent/tools.py, request_stop and clear_stop: a stop halts all robot motion
\* until it is cleared.
StopHolds ==
    [][(stopState = "stop_requested" /\ command = NoCaller
           /\ \A s \in Stoppers : stopPc[s] = "idle")
       => command' = NoCaller]_vars

===============================================================================

----------------------------- MODULE SpatialGate ------------------------------
(***************************************************************************)
(* Spatial awareness (perception/spatial.py): the actor's thread polls the *)
(* front depth cameras and publishes a scene, and now and then asks a      *)
(* vision model to describe it; the move_robot tool asks the scene whether *)
(* a move is blocked, and the REPL puts the scene before an instruction.   *)
(*                                                                         *)
(* The robot sees one of Views, moves, is powered and seated by others,    *)
(* and may not answer for a while.  A description is its number; the time  *)
(* _last_vlm_time holds is the number of the description it was taken for. *)
(* Poses and timestamps are left out.                                      *)
(***************************************************************************)
EXTENDS DepthScene

CONSTANT MaxDescriptions    \* bound on the answers of the vision model

ASSUME DescriptionsAssumption == MaxDescriptions \in Nat

VARIABLES
    \* the robot
    view, posture, answers,
    \* the actor's thread
    running, pc, standing, polled, frames, lastVlm,
    \* the published scene, and the one the REPL holds
    scene, held, reader, prompt,
    \* the tool thread's last move
    reply,
    \* observation: the motors at the last check, what the published readings
    \* were made from, descriptions given
    motorsOn, origin, described

pollVars == <<standing, motorsOn, polled>>
robotVars == <<view, posture, answers>>
actorVars == <<running, pc, pollVars, frames, lastVlm>>
replVars == <<held, reader, prompt>>
history == <<origin, described>>
vars == <<robotVars, actorVars, scene, replVars, reply, history>>

Postures == {"off", "sitting", "standing"}
DescriptionNumber == 0..MaxDescriptions
Velocity == {-1, 0, 1}          \* only the sign of a speed is looked at

NothingHeld == [current |-> FALSE, text |-> 0, age |-> 0]
NoPrompt == [text |-> 0, age |-> 0]

Init ==
    /\ view \in Views /\ posture \in Postures /\ answers \in BOOLEAN
    /\ running = FALSE /\ pc = "new" /\ standing = FALSE
    /\ polled = NoView /\ frames = FALSE /\ lastVlm = 0
    /\ scene = [readings |-> ReadingsOf[NoView], text |-> 0, age |-> 0]
    /\ held = NothingHeld /\ reader = "idle" /\ prompt = NoPrompt
    /\ reply = "none"
    /\ motorsOn = FALSE /\ origin = [view |-> NoView, powered |-> FALSE]
    /\ described = 0

-------------------------------------------------------------------------------
\* The robot moves or is moved, is commanded, and loses or finds the network.
ViewChanges ==
    /\ view' \in Views
    /\ UNCHANGED <<posture, answers, actorVars, scene, replVars, reply, history>>

PostureChanges ==
    /\ posture' \in Postures
    /\ UNCHANGED <<view, answers, actorVars, scene, replVars, reply, history>>

NetworkChanges ==
    /\ answers' = ~answers
    /\ UNCHANGED <<view, posture, actorVars, scene, replVars, reply, history>>

-------------------------------------------------------------------------------
\* The published object is written in place: who holds it sees the write.
HeldSees(s) ==
    held' = IF held.current THEN [held EXCEPT !.text = s.text, !.age = s.age] ELSE held

Goto(label) == pc' = label
OnlyActor == UNCHANGED <<robotVars, scene, replVars, reply, history>>

Start ==
    /\ pc = "new"
    /\ running' = TRUE /\ Goto("loop")
    /\ UNCHANGED <<pollVars, frames, lastVlm>> /\ OnlyActor

Stop ==
    /\ pc # "new" /\ running
    /\ running' = FALSE
    /\ UNCHANGED <<pc, pollVars, frames, lastVlm>> /\ OnlyActor

\* Mutant: the loop does not look at the flag.
LoopForever ==
    /\ pc = "loop"
    /\ Goto("check")
    /\ UNCHANGED <<running, pollVars, frames, lastVlm>> /\ OnlyActor

Loop ==
    /\ pc = "loop"
    /\ Goto(IF running THEN "check" ELSE "ended")
    /\ UNCHANGED <<running, pollVars, frames, lastVlm>> /\ OnlyActor

\* The locals of _poll_sensors.
PollEnds == standing' = FALSE /\ motorsOn' = FALSE /\ polled' = NoView

\* Mutant: the motors are not asked for.
CheckNothing ==
    /\ pc = "check"
    /\ standing' = TRUE /\ motorsOn' = (posture # "off")
    /\ Goto("images")
    /\ UNCHANGED <<running, polled, frames, lastVlm>> /\ OnlyActor

\* _is_standing: the motors are on, which they also are when the robot sits.
IsStanding ==
    /\ pc = "check"
    /\ standing' = (answers /\ posture # "off") /\ motorsOn' = (posture # "off")
    /\ Goto("images")
    /\ UNCHANGED <<running, polled, frames, lastVlm>> /\ OnlyActor

\* A front picture that cannot be decoded leaves the one before in place.
GetImages ==
    /\ pc = "images" /\ answers
    /\ polled' = IF standing THEN view ELSE NoView
    /\ frames' \in {frames, TRUE}
    /\ Goto("publish")
    /\ UNCHANGED <<running, standing, motorsOn, lastVlm>> /\ OnlyActor

\* Mutant: an exception ends the thread.
ImagesEndLoop ==
    /\ pc = "images" /\ ~answers
    /\ Goto("ended") /\ PollEnds
    /\ UNCHANGED <<running, frames, lastVlm>> /\ OnlyActor

\* The exception ends the poll and is swallowed; the scene stays.
ImagesRaise ==
    /\ pc = "images" /\ ~answers
    /\ Goto("sleep") /\ PollEnds
    /\ UNCHANGED <<running, frames, lastVlm>> /\ OnlyActor

\* Mutant: a poll without depth images keeps the old readings.
PublishKept ==
    /\ pc = "publish"
    /\ scene' = [readings |-> IF polled = NoView THEN scene.readings ELSE ReadingsOf[polled],
                 text |-> scene.text, age |-> lastVlm]
    /\ held' = [held EXCEPT !.current = FALSE]
    /\ origin' = [view |-> polled, powered |-> motorsOn]
    /\ Goto("describe") /\ PollEnds
    /\ UNCHANGED <<robotVars, running, frames, lastVlm, reader, prompt, reply, described>>

\* A new object with the old description; who holds the old one keeps it.
Publish ==
    /\ pc = "publish"
    /\ scene' = [readings |-> ReadingsOf[polled], text |-> scene.text, age |-> lastVlm]
    /\ held' = [held EXCEPT !.current = FALSE]
    /\ origin' = [view |-> polled, powered |-> motorsOn]
    /\ Goto("describe") /\ PollEnds
    /\ UNCHANGED <<robotVars, running, frames, lastVlm,
                   reader, prompt, reply, described>>

\* The interval has not passed, there is no picture, or the model fails.
DescribeNothing ==
    /\ pc = "describe"
    /\ Goto("sleep")
    /\ UNCHANGED <<running, pollVars, frames, lastVlm>> /\ OnlyActor

\* Mutant: the time is set before the model is asked.
DescribeStamped ==
    /\ pc = "describe" /\ frames /\ described < MaxDescriptions
    /\ described' = described + 1
    /\ lastVlm' = described + 1
    /\ Goto("text")
    /\ UNCHANGED <<robotVars, running, pollVars, frames, scene, replVars,
                   reply, origin>>

Describe ==
    /\ pc = "describe" /\ frames /\ described < MaxDescriptions
    /\ described' = described + 1
    /\ Goto("text")
    /\ UNCHANGED <<robotVars, running, pollVars, frames, lastVlm, scene, replVars,
                   reply, origin>>

SetDescription ==
    /\ pc = "text"
    /\ scene' = [scene EXCEPT !.text = described] /\ HeldSees(scene')
    /\ Goto("stamp")
    /\ UNCHANGED <<robotVars, running, pollVars, frames, lastVlm, reader, prompt,
                   reply, history>>

StampDescription ==
    /\ pc = "stamp"
    /\ lastVlm' = described
    /\ Goto("sleep")
    /\ UNCHANGED <<running, pollVars, frames>> /\ OnlyActor

Sleep ==
    /\ pc = "sleep"
    /\ Goto("loop")
    /\ UNCHANGED <<running, pollVars, frames, lastVlm>> /\ OnlyActor

ActorStep ==
    \/ Loop \/ IsStanding \/ GetImages \/ ImagesRaise \/ Publish
    \/ DescribeNothing \/ Describe \/ SetDescription \/ StampDescription \/ Sleep

-------------------------------------------------------------------------------
\* get_scene refreshes the age in the shared object.
Refreshed == [scene EXCEPT !.age = lastVlm]

\* The check of move_robot: the readings of an object never change.
MoveRobot ==
    /\ pc # "new"
    /\ \E v_x, v_y \in Velocity :
          reply' = IF IsBlocked(scene.readings, v_x, v_y) THEN "blocked" ELSE "moves"
    /\ scene' = Refreshed /\ HeldSees(scene')
    /\ UNCHANGED <<robotVars, actorVars, reader, prompt, history>>

\* The REPL takes the scene and formats it: the age is looked at first.
AskScene ==
    /\ pc # "new" /\ reader = "idle"
    /\ scene' = Refreshed
    /\ held' = [current |-> TRUE, text |-> scene.text, age |-> lastVlm]
    /\ reader' = "age" /\ prompt' = NoPrompt
    /\ UNCHANGED <<robotVars, actorVars, reply, history>>

FormatAge ==
    /\ reader = "age"
    /\ prompt' = [prompt EXCEPT !.age = held.age] /\ reader' = "text"
    /\ UNCHANGED <<robotVars, actorVars, scene, held, reply, history>>

FormatText ==
    /\ reader = "text"
    /\ prompt' = [prompt EXCEPT !.text = held.text] /\ reader' = "idle" /\ held' = NothingHeld
    /\ UNCHANGED <<robotVars, actorVars, scene, reply, history>>

RobotStep == ViewChanges \/ PostureChanges \/ NetworkChanges
ReplStep == Start \/ Stop \/ MoveRobot \/ AskScene \/ FormatAge \/ FormatText

Next == RobotStep \/ ActorStep \/ ReplStep

Spec == Init /\ [][Next]_vars

\* The operating system keeps the actor's thread running, and the requests to
\* the robot and to the vision model have timeouts.
FairSpec == Spec /\ WF_vars(ActorStep)

-------------------------------------------------------------------------------
Quadrant == [min : Nat, coverage : Int]
SceneReadings == [front : Quadrant, left : Quadrant, right : Quadrant, back : Quadrant]

\* The scene and what is being polled have their types; a scene that is
\* published is built from what the cameras saw (_poll_sensors).
TypeOK ==
    /\ view \in Views /\ posture \in Postures /\ answers \in BOOLEAN
    /\ running \in BOOLEAN /\ standing \in BOOLEAN /\ motorsOn \in BOOLEAN /\ frames \in BOOLEAN
    /\ pc \in {"new", "loop", "check", "images", "publish", "describe", "text",
               "stamp", "sleep", "ended"}
    /\ polled \in Views \union {NoView} /\ origin.view \in Views \union {NoView}
    /\ scene.readings = ReadingsOf[origin.view]
    /\ {scene.text, scene.age, lastVlm, described} \subseteq DescriptionNumber
    /\ reader \in {"idle", "age", "text"} /\ reply \in {"none", "blocked", "moves"}

\* The check of move_robot refuses no move, whatever the cameras see: what is
\* nearer than is_blocked's 300 mm never passes _quadrant_from_depth's filter
\* (spatial.py:98, tools.py:245).
GateNeverRefuses ==
    reply # "blocked" /\ \A v_x, v_y \in Velocity : ~IsBlocked(scene.readings, v_x, v_y)

\* The middle halves that left a trace in the rounded coverage.
Seen == {i \in {origin.view.left, origin.view.right} : MiddleReading(i).coverage > 0}

\* The front reading is the nearest valid pixel of both front images, not of
\* one of them, and there is one when either image has valid pixels (the merge
\* in _poll_sensors).
FrontIsNearest ==
    /\ Seen # {} => scene.readings.front.min
                      = Min(UNION {ValidDepths(i.middle) : i \in Seen})
    /\ Seen = {} <=> scene.readings.front.coverage = 0

\* A front image whose reading the merge hides: it is near, but the coverage
\* kept is that of the other image, which shows next to nothing.
HiddenByMerge(i) ==
    i # origin.view.left /\ MiddleReading(origin.view.left).coverage \in 1..10

\* No region in sight holds a valid pixel nearer than nearest_obstacle_m says,
\* except on the right of a front whose left half is all but empty
\* (_poll_sensors, what the prompt's [Scene] line shows).
SeesNearest ==
    \A i \in {origin.view.left, origin.view.right} \ {NoImage} :
       /\ MiddleReading(i).coverage > 10 /\ ~HiddenByMerge(i)
            => \A d \in ValidDepths(i.middle) : NearestObstacle(scene.readings) <= d
       /\ OuterReading(i).coverage > 10
            => \A d \in ValidDepths(i.outer) : NearestObstacle(scene.readings) <= d

\* Readings are published only by a poll that found the motors on; the robot
\* may have sat down with them, and then the cameras see the ground
\* (_is_standing, _poll_sensors).
ReadingsWithMotorsOn ==
    scene.readings # ReadingsOf[NoView] => origin.powered

\* The prompt never shows a description as younger than it is: its age is that
\* of the description itself or of an earlier one (_maybe_vlm writes the text
\* before the time; get_scene and _poll_sensors take the time under the lock).
DescriptionNotFresher ==
    reader = "idle" /\ prompt.text # 0 => prompt.age <= prompt.text

\* Once the robot stands still in one place with its motors on and answers,
\* the scene becomes what its cameras see and stays so (_loop; a failed poll is
\* swallowed and the next one runs).
SceneCatchesUp ==
    \A v \in Views :
       <>[](view = v /\ posture # "off" /\ answers /\ running)
         => <>[](scene.readings = ReadingsOf[v])

\* After stop the actor's thread ends (_loop).
ActorEnds == (pc # "new" /\ ~running) ~> (pc = "ended")

===============================================================================

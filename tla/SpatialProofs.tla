---------------------------- MODULE SpatialProofs -----------------------------
(***************************************************************************)
(* Proofs about DepthScene and SpatialGate, for every set of depths, of    *)
(* regions and of images, and any number of descriptions.                  *)
(***************************************************************************)
EXTENDS SpatialGate, WellFoundedInduction, TLAPS

\* A nonempty set of depths has a least member, and Min is one.
LEMMA MinIsMember ==
    ASSUME NEW S \in SUBSET Nat, S # {}
    PROVE  Min(S) \in S /\ \A y \in S : Min(S) =< y
<1> DEFINE Less == OpToRel(<, Nat)
<1>1. PICK x \in S : \A y \in S : ~(<<y, x>> \in Less)
  BY WFMin, NatLessThanWellFounded
<1>2. \A m, n \in Nat : m < n => <<m, n>> \in Less
  BY DEF OpToRel
<1> HIDE DEF Less
<1>3. ASSUME NEW y \in S PROVE x =< y
  <2>1. x \in Nat /\ y \in Nat
    OBVIOUS
  <2>2. ~(y < x)
    BY <1>1, <1>2, <2>1
  <2> QED
    BY <2>1, <2>2
<1> QED
  BY <1>3 DEF Min

\* A quadrant that shows something shows nothing nearer than 351 mm.
Far(q) ==
    /\ q = [min |-> q.min, coverage |-> q.coverage]
    /\ q.coverage = 0 \/ (q.min \in Nat /\ q.min > 350)

LEMMA NoReadingFar == Far(NoReading)
BY DEF Far, NoReading

\* _quadrant_from_depth: the filter comes before the minimum.
LEMMA QuadrantFar ==
    ASSUME NEW region \in Regions
    PROVE  Far(QuadrantFromDepth(region))
<1>1. CASE ValidDepths(region) = {}
  <2>1. QuadrantFromDepth(region) = NoReading
    BY <1>1 DEF QuadrantFromDepth
  <2> QED
    BY <2>1, NoReadingFar
<1>2. CASE ValidDepths(region) # {}
  <2>1. ValidDepths(region) \subseteq Depths
    BY Zenon DEF ValidDepths
  <2>2. Min(ValidDepths(region)) \in ValidDepths(region)
    BY <1>2, <2>1, DepthsAssumption, MinIsMember
  <2>3. \A d \in ValidDepths(region) : d > 350
    BY DEF ValidDepths
  <2>4. Min(ValidDepths(region)) \in Nat /\ Min(ValidDepths(region)) > 350
    BY <2>1, <2>2, <2>3, DepthsAssumption
  <2> QED
    BY <1>2, <2>4 DEF QuadrantFromDepth, Far
<1> QED
  BY <1>1, <1>2

LEMMA ImageFar ==
    ASSUME NEW image \in Image \union {NoImage}
    PROVE  Far(OuterReading(image)) /\ Far(MiddleReading(image))
<1>1. CASE image = NoImage
  BY <1>1, NoReadingFar DEF OuterReading, MiddleReading
<1>2. CASE image # NoImage
  <2>1. image.outer \in Regions /\ image.middle \in Regions
    BY <1>2 DEF Image
  <2>2. /\ OuterReading(image) = QuadrantFromDepth(image.outer)
        /\ MiddleReading(image) = QuadrantFromDepth(image.middle)
    BY <1>2, <2>1 DEF OuterReading, MiddleReading, ReadingOf
  <2> QED
    BY <2>1, <2>2, QuadrantFar
<1> QED
  BY <1>1, <1>2

\* The merge takes over only the minimum of a reading that shows something.
LEMMA MergedFar ==
    ASSUME NEW p, NEW q, Far(p), Far(q)
    PROVE  Far(Merged(p, q))
<1>1. CASE p.coverage = 0
  BY <1>1 DEF Merged
<1>2. CASE p.coverage # 0 /\ q.coverage > 0 /\ q.min < p.min
  <2>1. Merged(p, q) = [min |-> q.min, coverage |-> p.coverage]
    BY <1>2 DEF Merged, Far
  <2>2. q.coverage # 0
    BY <1>2
  <2> QED
    BY <2>1, <2>2 DEF Far
<1>3. CASE p.coverage # 0 /\ ~(q.coverage > 0 /\ q.min < p.min)
  BY <1>3 DEF Merged
<1> QED
  BY <1>1, <1>2, <1>3

LEMMA ReadingsFar ==
    ASSUME NEW v \in Views \union {NoView}
    PROVE  /\ Far(ReadingsOf[v].front) /\ Far(ReadingsOf[v].back)
           /\ Far(ReadingsOf[v].left) /\ Far(ReadingsOf[v].right)
<1>1. v.left \in Image \union {NoImage} /\ v.right \in Image \union {NoImage}
  BY ViewsAssumption DEF NoView
<1>2. ReadingsOf[v] = Readings(v)
  BY DEF ReadingsOf
<1>3. Far(MiddleReading(v.left)) /\ Far(Merged(MiddleReading(v.left), MiddleReading(v.right)))
  BY <1>1, ImageFar, MergedFar
<1> QED
  BY <1>1, <1>2, <1>3, ImageFar, NoReadingFar DEF Readings

\* What shows nothing nearer than 351 mm is never close.
LEMMA FarIsOpen ==
    ASSUME NEW q, Far(q)
    PROVE  ~Close(q)
<1>1. CASE q.coverage = 0
  BY <1>1 DEF Close
<1>2. CASE q.min \in Nat /\ q.min > 350
  BY <1>2 DEF Close
<1> QED
  BY <1>1, <1>2 DEF Far

LEMMA NothingBlocks ==
    ASSUME NEW v \in Views \union {NoView}, NEW v_x \in Velocity, NEW v_y \in Velocity
    PROVE  ~IsBlocked(ReadingsOf[v], v_x, v_y)
BY ReadingsFar, FarIsOpen DEF IsBlocked

-------------------------------------------------------------------------------
\* TypeOK with the shapes of the records that are updated in place, and the
\* locals of a poll: depth images are only there until they are published, and
\* only when the motors were on.
Shapes ==
    /\ scene = [readings |-> scene.readings, text |-> scene.text, age |-> scene.age]
    /\ origin = [view |-> origin.view, powered |-> origin.powered]
    /\ held = [current |-> held.current, text |-> held.text, age |-> held.age]
    /\ prompt = [text |-> prompt.text, age |-> prompt.age]

PolledInv ==
    /\ standing => motorsOn
    /\ polled # NoView => motorsOn /\ pc = "publish"
    /\ origin.view # NoView => origin.powered

SceneInv == TypeOK /\ Shapes /\ PolledInv

LEMMA InitSceneInv == Init => SceneInv
<1> SUFFICES ASSUME Init PROVE SceneInv
  OBVIOUS
<1>1. Shapes /\ PolledInv
  BY DEF Init, Shapes, PolledInv, NothingHeld, NoPrompt
<1>2. 0 \in DescriptionNumber
  BY DescriptionsAssumption DEF DescriptionNumber
<1> QED
  BY <1>1, <1>2 DEF Init, SceneInv, TypeOK

LEMMA RobotStepInv == SceneInv /\ RobotStep => SceneInv'
<1> SUFFICES ASSUME SceneInv, RobotStep PROVE SceneInv'
  OBVIOUS
<1>1. UNCHANGED <<actorVars, scene, replVars, reply, history>>
  BY DEF RobotStep, ViewChanges, PostureChanges, NetworkChanges
<1>2. view' \in Views /\ posture' \in Postures
  BY DEF SceneInv, TypeOK, RobotStep, ViewChanges, PostureChanges, NetworkChanges
<1>3. answers' \in BOOLEAN
  BY Zenon DEF SceneInv, TypeOK, RobotStep, ViewChanges, PostureChanges, NetworkChanges
<1> QED
  BY <1>1, <1>2, <1>3 DEF SceneInv, TypeOK, Shapes, PolledInv, actorVars, pollVars, replVars,
                          history

LEMMA ActorStepInv == SceneInv /\ ActorStep => SceneInv'
<1> SUFFICES ASSUME SceneInv, ActorStep PROVE SceneInv'
  OBVIOUS
<1> USE DEF SceneInv, TypeOK, Shapes, PolledInv, Goto, OnlyActor, PollEnds, HeldSees,
            robotVars, pollVars, replVars, history
<1>1. CASE Loop
  BY <1>1 DEF Loop
<1>2. CASE IsStanding
  <2>1. standing' \in BOOLEAN
    BY <1>2, Zenon DEF IsStanding
  <2>2. motorsOn' \in BOOLEAN
    BY <1>2, Zenon DEF IsStanding
  <2>3. standing' => motorsOn'
    BY <1>2, Zenon DEF IsStanding
  <2>4. polled' = NoView
    BY <1>2 DEF IsStanding
  <2> QED
    BY <1>2, <2>1, <2>2, <2>3, <2>4 DEF IsStanding
<1>3. CASE GetImages
  BY <1>3 DEF GetImages
<1>4. CASE ImagesRaise
  BY <1>4 DEF ImagesRaise
<1>5. CASE Publish
  BY <1>5 DEF Publish
<1>6. CASE DescribeNothing \/ Sleep
  BY <1>6 DEF DescribeNothing, Sleep
<1>7. CASE Describe
  <2>1. described' \in DescriptionNumber
    BY <1>7, DescriptionsAssumption DEF Describe, DescriptionNumber
  <2> QED
    BY <1>7, <2>1 DEF Describe
<1>8. CASE SetDescription
  BY <1>8 DEF SetDescription
<1>9. CASE StampDescription
  BY <1>9 DEF StampDescription
<1> QED
  BY <1>1, <1>2, <1>3, <1>4, <1>5, <1>6, <1>7, <1>8, <1>9 DEF ActorStep

LEMMA ReplStepInv == SceneInv /\ ReplStep => SceneInv'
<1> SUFFICES ASSUME SceneInv, ReplStep PROVE SceneInv'
  OBVIOUS
<1> USE DEF SceneInv, TypeOK, Shapes, PolledInv, Goto, OnlyActor, HeldSees, Refreshed,
            robotVars, actorVars, pollVars, replVars, history
<1>1. CASE Start \/ Stop
  <2>1. UNCHANGED <<pollVars, frames, lastVlm, robotVars, scene, replVars, reply, history>>
    BY <1>1 DEF Start, Stop
  <2>2. running' \in BOOLEAN /\ (pc' = pc \/ (pc = "new" /\ pc' = "loop"))
    BY <1>1 DEF Start, Stop
  <2> QED
    BY <2>1, <2>2
<1>2. CASE MoveRobot
  <2>1. reply' \in {"blocked", "moves"}
    BY <1>2 DEF MoveRobot
  <2>2. scene' = [readings |-> scene.readings, text |-> scene.text, age |-> lastVlm]
    BY <1>2 DEF MoveRobot
  <2>3. held' = [current |-> held'.current, text |-> held'.text, age |-> held'.age]
    BY <1>2, <2>2 DEF MoveRobot
  <2> QED
    BY <1>2, <2>1, <2>2, <2>3 DEF MoveRobot
<1>3. CASE AskScene
  BY <1>3 DEF AskScene, NoPrompt
<1>4. CASE FormatAge \/ FormatText
  BY <1>4 DEF FormatAge, FormatText, NothingHeld
<1> QED
  BY <1>1, <1>2, <1>3, <1>4 DEF ReplStep

LEMMA SceneInvariant == Spec => []SceneInv
<1>1. ASSUME SceneInv, UNCHANGED vars PROVE SceneInv'
  BY <1>1 DEF SceneInv, TypeOK, Shapes, PolledInv, vars, robotVars, actorVars, pollVars,
              replVars, history
<1>2. SceneInv /\ [Next]_vars => SceneInv'
  BY <1>1, RobotStepInv, ActorStepInv, ReplStepInv DEF Next
<1> QED
  BY <1>2, InitSceneInv, PTL DEF Spec

\* The scene and the poll keep their types, and a published scene is built from
\* what the cameras saw (_poll_sensors).
THEOREM SceneTypeCorrect == Spec => []TypeOK
<1>1. SceneInv => TypeOK
  BY DEF SceneInv
<1> QED
  BY <1>1, SceneInvariant, PTL

\* Readings are published only by a poll that found the motors on
\* (_is_standing, _poll_sensors), whatever happens between the check, the
\* images and the publication.
THEOREM ReadingsNeedMotors == Spec => []ReadingsWithMotorsOn
<1>1. SceneInv => ReadingsWithMotorsOn
  BY DEF SceneInv, TypeOK, PolledInv, ReadingsWithMotorsOn
<1> QED
  BY <1>1, SceneInvariant, PTL

-------------------------------------------------------------------------------
\* No move is ever refused.
GateInv == SceneInv /\ reply # "blocked"

LEMMA GateStepInv == GateInv /\ [Next]_vars => (reply # "blocked")'
<1> SUFFICES ASSUME GateInv, [Next]_vars PROVE reply' # "blocked"
  OBVIOUS
<1>1. CASE MoveRobot
  <2>1. \A v_x, v_y \in Velocity : ~IsBlocked(scene.readings, v_x, v_y)
    BY NothingBlocks DEF GateInv, SceneInv, TypeOK
  <2> QED
    BY <1>1, <2>1 DEF MoveRobot
<1>2. CASE RobotStep
  BY <1>2 DEF GateInv, RobotStep, ViewChanges, PostureChanges, NetworkChanges
<1>3. CASE ActorStep
  BY <1>3 DEF GateInv, ActorStep, OnlyActor, Loop, IsStanding, GetImages, ImagesRaise,
              Publish, DescribeNothing, Describe, SetDescription, StampDescription, Sleep
<1>4. CASE Start \/ Stop \/ AskScene \/ FormatAge \/ FormatText
  BY <1>4 DEF GateInv, OnlyActor, Start, Stop, AskScene, FormatAge, FormatText
<1>5. CASE UNCHANGED vars
  BY <1>5 DEF GateInv, vars
<1> QED
  BY <1>1, <1>2, <1>3, <1>4, <1>5 DEF Next, ReplStep

\* The collision check of move_robot refuses no move, whatever the cameras see
\* and whenever it is asked: the filter of _quadrant_from_depth lets no depth
\* below is_blocked's threshold through (spatial.py:98, tools.py:245).
THEOREM NoMoveIsRefused == Spec => []GateNeverRefuses
<1>1. Init => reply # "blocked"
  BY DEF Init
<1>2. SceneInv /\ reply # "blocked" => GateNeverRefuses
  BY NothingBlocks DEF SceneInv, TypeOK, GateNeverRefuses
<1> QED
  BY <1>1, <1>2, GateStepInv, SceneInvariant, PTL DEF Spec, GateInv

-------------------------------------------------------------------------------
\* Ages lag behind texts in the actor, in the scene and in what the REPL holds.
AgeInv ==
    /\ lastVlm <= scene.text /\ scene.age <= lastVlm /\ scene.text <= described
    /\ held.age <= held.text
    /\ held.current => held.text = scene.text /\ held.age = scene.age
    /\ {held.text, held.age, prompt.text, prompt.age} \subseteq DescriptionNumber
    /\ held.current \in BOOLEAN
    /\ pc = "stamp" => scene.text = described
    /\ reader = "text" => prompt.age <= held.text
    /\ DescriptionNotFresher

LEMMA InitAgeInv == Init => AgeInv
<1>1. 0 \in DescriptionNumber
  BY DescriptionsAssumption DEF DescriptionNumber
<1> QED
  BY <1>1 DEF Init, AgeInv, NothingHeld, NoPrompt, DescriptionNotFresher

\* Numbers of descriptions are ordered as integers.
LEMMA NumbersAreIntegers == \A n \in DescriptionNumber : n \in Int
BY DescriptionsAssumption DEF DescriptionNumber

LEMMA NextAgeInv == SceneInv /\ AgeInv /\ [Next]_vars => AgeInv'
<1> SUFFICES ASSUME SceneInv, AgeInv, [Next]_vars PROVE AgeInv'
  OBVIOUS
<1>0. /\ lastVlm \in Int /\ described \in Int
      /\ scene.text \in Int /\ scene.age \in Int
      /\ held.text \in Int /\ held.age \in Int
      /\ prompt.text \in Int /\ prompt.age \in Int
  BY NumbersAreIntegers DEF SceneInv, TypeOK, AgeInv
<1> USE DEF AgeInv, DescriptionNotFresher
<1>1. CASE RobotStep
  BY <1>1 DEF RobotStep, ViewChanges, PostureChanges, NetworkChanges, actorVars, replVars,
              history
<1>2. CASE Loop \/ IsStanding \/ GetImages \/ ImagesRaise \/ DescribeNothing \/ Sleep
  BY <1>2 DEF Loop, IsStanding, GetImages, ImagesRaise, DescribeNothing, Sleep, OnlyActor,
              Goto, replVars, history
<1>3. CASE Publish
  BY <1>0, <1>3 DEF Publish, Goto, SceneInv, Shapes
<1>4. CASE Describe
  BY <1>0, <1>4 DEF Describe, Goto, replVars
<1>5. CASE SetDescription
  <2>1. scene' = [readings |-> scene.readings, text |-> described, age |-> scene.age]
    BY <1>5 DEF SetDescription, SceneInv, Shapes
  <2>2. held' = IF held.current THEN [held EXCEPT !.text = scene'.text, !.age = scene'.age]
                ELSE held
    BY <1>5 DEF SetDescription, HeldSees
  <2>3. CASE held.current
    <3>1. held' = [current |-> held.current, text |-> described, age |-> scene.age]
      BY <2>1, <2>2, <2>3 DEF SceneInv, Shapes
    <3> QED
      BY <1>0, <1>5, <2>1, <2>3, <3>1 DEF SetDescription, Goto, actorVars, history, SceneInv, TypeOK
  <2>4. CASE ~held.current
    <3>1. held' = held
      BY <2>2, <2>4
    <3> QED
      BY <1>0, <1>5, <2>1, <2>4, <3>1 DEF SetDescription, Goto, actorVars, history, SceneInv, TypeOK
  <2> QED
    BY <2>3, <2>4
<1>6. CASE StampDescription
  BY <1>0, <1>6 DEF StampDescription, Goto, OnlyActor, replVars, history
<1>7. CASE MoveRobot
  <2>1. scene' = [readings |-> scene.readings, text |-> scene.text, age |-> lastVlm]
    BY <1>7 DEF MoveRobot, Refreshed, SceneInv, Shapes
  <2>2. held' = IF held.current THEN [held EXCEPT !.text = scene'.text, !.age = scene'.age]
                ELSE held
    BY <1>7 DEF MoveRobot, HeldSees
  <2>3. CASE held.current
    <3>1. held' = [current |-> held.current, text |-> scene.text, age |-> lastVlm]
      BY <2>1, <2>2, <2>3 DEF SceneInv, Shapes
    <3> QED
      BY <1>0, <1>7, <2>1, <2>3, <3>1 DEF MoveRobot, Goto, actorVars, history, SceneInv, TypeOK
  <2>4. CASE ~held.current
    <3>1. held' = held
      BY <2>2, <2>4
    <3> QED
      BY <1>0, <1>7, <2>1, <2>4, <3>1 DEF MoveRobot, Goto, actorVars, history, SceneInv, TypeOK
  <2> QED
    BY <2>3, <2>4
<1>8. CASE AskScene
  <2>1. scene' = [readings |-> scene.readings, text |-> scene.text, age |-> lastVlm]
    BY <1>8 DEF AskScene, Refreshed, SceneInv, Shapes
  <2>2. held' = [current |-> TRUE, text |-> scene.text, age |-> lastVlm]
    BY <1>8 DEF AskScene
  <2>3. prompt' = [text |-> 0, age |-> 0] /\ 0 \in DescriptionNumber
    BY <1>8, DescriptionsAssumption DEF AskScene, NoPrompt, DescriptionNumber
  <2>4. UNCHANGED <<lastVlm, pc, described>> /\ reader' = "age"
    BY <1>8 DEF AskScene, actorVars, history
  <2> QED
    BY <1>0, <2>1, <2>2, <2>3, <2>4 DEF SceneInv, TypeOK
<1>9. CASE FormatAge
  BY <1>0, <1>9 DEF FormatAge, actorVars, history, SceneInv, Shapes
<1>10. CASE FormatText
  <2>1. prompt' = [text |-> held.text, age |-> prompt.age]
    BY <1>10 DEF FormatText, SceneInv, Shapes
  <2>2. held' = [current |-> FALSE, text |-> 0, age |-> 0] /\ 0 \in DescriptionNumber
    BY <1>10, DescriptionsAssumption DEF FormatText, NothingHeld, DescriptionNumber
  <2>3. UNCHANGED <<lastVlm, pc, described, scene>> /\ reader = "text" /\ reader' = "idle"
    BY <1>10 DEF FormatText, actorVars, history
  <2> QED
    BY <1>0, <2>1, <2>2, <2>3
<1>11. CASE Start \/ Stop
  BY <1>11 DEF Start, Stop, OnlyActor, Goto, replVars, history
<1>12. CASE UNCHANGED vars
  BY <1>12 DEF vars, actorVars, replVars, history
<1> QED
  BY <1>1, <1>2, <1>3, <1>4, <1>5, <1>6, <1>7, <1>8, <1>9, <1>10, <1>11, <1>12
     DEF Next, ActorStep, ReplStep

\* The prompt never shows a description as younger than it is, whichever way
\* the actor, the tool and the REPL interleave (_maybe_vlm, get_scene,
\* format_compact).
THEOREM AgeIsHonest == Spec => []DescriptionNotFresher
<1>1. AgeInv => DescriptionNotFresher
  BY DEF AgeInv
<1> QED
  BY <1>1, InitAgeInv, NextAgeInv, SceneInvariant, PTL DEF Spec

-------------------------------------------------------------------------------
\* What the readings say of the depths they were made from.

LEMMA MinIsTheLeast ==
    ASSUME NEW S \in SUBSET Nat, NEW m \in S, \A y \in S : m =< y
    PROVE  Min(S) = m
<1>1. Min(S) \in S /\ \A y \in S : Min(S) =< y
  BY MinIsMember
<1>2. Min(S) \in Nat /\ m \in Nat /\ Min(S) =< m /\ m =< Min(S)
  BY <1>1
<1> QED
  BY <1>2

\* A reading of an image: none, or the least of the valid depths.
Reads(q, depths) ==
    /\ q = [min |-> q.min, coverage |-> q.coverage] /\ q.coverage \in Nat
    /\ q.coverage > 0 => q.min \in depths /\ \A d \in depths : q.min =< d

LEMMA DepthsAreNumbers == \A region \in Regions : ValidDepths(region) \in SUBSET Nat
<1>1. \A region \in Regions : ValidDepths(region) \subseteq Depths
  BY Zenon DEF ValidDepths
<1> QED
  BY <1>1, DepthsAssumption

LEMMA QuadrantReads ==
    ASSUME NEW region \in Regions
    PROVE  Reads(QuadrantFromDepth(region), ValidDepths(region))
<1>1. CASE ValidDepths(region) = {}
  <2>1. QuadrantFromDepth(region) = [min |-> 0, coverage |-> 0]
    BY <1>1 DEF QuadrantFromDepth, NoReading
  <2> QED
    BY <2>1 DEF Reads
<1>2. CASE ValidDepths(region) # {}
  <2> DEFINE S == ValidDepths(region)
  <2>1. Min(S) \in S /\ \A d \in S : Min(S) =< d
    BY <1>2, DepthsAreNumbers, MinIsMember
  <2>2. QuadrantFromDepth(region) = [min |-> Min(S), coverage |-> Coverage(region)]
    BY <1>2 DEF QuadrantFromDepth
  <2>3. Coverage(region) \in Nat
    BY CoverageAssumption
  <2> HIDE DEF S
  <2> QED
    BY <2>1, <2>2, <2>3 DEF Reads, S
<1> QED
  BY <1>1, <1>2

LEMMA ImageReads ==
    ASSUME NEW image \in Image
    PROVE  /\ image.outer \in Regions /\ image.middle \in Regions
           /\ Reads(OuterReading(image), ValidDepths(image.outer)) \/ image = NoImage
           /\ Reads(MiddleReading(image), ValidDepths(image.middle)) \/ image = NoImage
<1>1. image.outer \in Regions /\ image.middle \in Regions
  BY DEF Image
<1> QED
  BY <1>1, QuadrantReads DEF OuterReading, MiddleReading, ReadingOf

LEMMA NothingRead ==
    /\ MiddleReading(NoImage) = NoReading /\ OuterReading(NoImage) = NoReading
    /\ NoReading.coverage = 0 /\ NoReading.min = 0
    /\ NoReading = [min |-> NoReading.min, coverage |-> NoReading.coverage]
BY DEF MiddleReading, OuterReading, NoReading

\* The front: the left image's reading and coverage, with the nearer minimum.
LEMMA FrontReads ==
    ASSUME NEW v \in Views \union {NoView}
    PROVE  LET l == MiddleReading(v.left)
               r == MiddleReading(v.right)
               f == ReadingsOf[v].front
           IN  /\ l.coverage \in Nat /\ r.coverage \in Nat /\ f.coverage \in Nat
               /\ f.coverage = IF l.coverage > 0 THEN l.coverage ELSE r.coverage
               /\ l.coverage > 0 => l.min \in Nat /\ f.min \in Nat /\ f.min =< l.min
               /\ r.coverage > 0 => r.min \in Nat /\ f.min \in Nat /\ f.min =< r.min
               /\ f.coverage > 0 => \/ l.coverage > 0 /\ f.min = l.min
                                    \/ r.coverage > 0 /\ f.min = r.min
<1> DEFINE l == MiddleReading(v.left)
           r == MiddleReading(v.right)
           f == ReadingsOf[v].front
<1>1. v.left \in Image \union {NoImage} /\ v.right \in Image \union {NoImage}
  BY ViewsAssumption DEF NoView
<1>2. /\ l.coverage \in Nat /\ (l.coverage > 0 => l.min \in Nat)
      /\ l = [min |-> l.min, coverage |-> l.coverage]
  BY <1>1, ImageReads, DepthsAreNumbers, NothingRead DEF Reads
<1>3. /\ r.coverage \in Nat /\ (r.coverage > 0 => r.min \in Nat)
      /\ r = [min |-> r.min, coverage |-> r.coverage]
  BY <1>1, ImageReads, DepthsAreNumbers, NothingRead DEF Reads
<1>4. f = IF v.right = NoImage THEN l ELSE Merged(l, r)
  BY DEF ReadingsOf, Readings
<1>5. v.right = NoImage => r.coverage = 0
  BY NothingRead
<1> HIDE DEF l, r, f
<1>6. CASE v.right = NoImage \/ l.coverage = 0
  <2>1. f = IF v.right = NoImage THEN l ELSE r
    BY <1>4, <1>6 DEF Merged
  <2> QED
    BY <1>2, <1>3, <1>5, <1>6, <2>1 DEF l, r, f
<1>7. CASE v.right # NoImage /\ l.coverage # 0
  <2>1. f = IF r.coverage > 0 /\ r.min < l.min THEN [l EXCEPT !.min = r.min] ELSE l
    BY <1>4, <1>7 DEF Merged
  <2>2. f.coverage = l.coverage /\ f.min = IF r.coverage > 0 /\ r.min < l.min THEN r.min ELSE l.min
    BY <1>2, <2>1
  <2> QED
    BY <1>2, <1>3, <1>7, <2>2 DEF l, r, f
<1> QED
  BY <1>6, <1>7

\* The views the published readings were made from, as FrontIsNearest sees it.
LEMMA FrontOfScene ==
    ASSUME TypeOK
    PROVE  FrontIsNearest
<1> DEFINE v == origin.view
           l == MiddleReading(v.left)
           r == MiddleReading(v.right)
           f == scene.readings.front
           S == UNION {ValidDepths(i.middle) : i \in Seen}
<1>1. v \in Views \union {NoView} /\ scene.readings = ReadingsOf[v]
  BY DEF TypeOK
<1>2. v.left \in Image \union {NoImage} /\ v.right \in Image \union {NoImage}
  BY <1>1, ViewsAssumption DEF NoView
<1>3. /\ l.coverage \in Nat /\ r.coverage \in Nat /\ f.coverage \in Nat
      /\ f.coverage = IF l.coverage > 0 THEN l.coverage ELSE r.coverage
      /\ l.coverage > 0 => f.min =< l.min
      /\ r.coverage > 0 => f.min =< r.min
      /\ f.coverage > 0 => \/ l.coverage > 0 /\ f.min = l.min
                           \/ r.coverage > 0 /\ f.min = r.min
  BY <1>1, FrontReads
<1>4. /\ v.left \in Seen <=> l.coverage > 0
      /\ v.right \in Seen <=> r.coverage > 0
      /\ \A i \in Seen : i = v.left \/ i = v.right
  BY DEF Seen
<1>5. \A i \in Seen : /\ i \in Image /\ ValidDepths(i.middle) \in SUBSET Nat
                      /\ Reads(MiddleReading(i), ValidDepths(i.middle))
                      /\ MiddleReading(i).coverage > 0
  <2>1. \A i \in Seen : MiddleReading(i).coverage > 0 /\ i \in Image \union {NoImage}
    BY <1>2 DEF Seen
  <2>2. \A i \in Seen : i \in Image /\ i # NoImage
    BY <2>1, NothingRead
  <2> QED
    BY <2>1, <2>2, ImageReads, DepthsAreNumbers
<1>6. Seen = {} <=> f.coverage = 0
  BY <1>3, <1>4
<1>7. ASSUME Seen # {} PROVE f.min = Min(S)
  <2>1. PICK i \in Seen : f.min = MiddleReading(i).min
    BY <1>3, <1>4, <1>6, <1>7
  <2>2. f.min \in S
    BY <1>5, <2>1 DEF Reads
  <2>3. S \in SUBSET Nat
    BY <1>5
  <2>4. ASSUME NEW j \in Seen, NEW d \in ValidDepths(j.middle) PROVE f.min =< d
    <3>1. f.min =< MiddleReading(j).min
      BY <1>3, <1>4
    <3>2. MiddleReading(j).min =< d /\ MiddleReading(j).min \in Nat /\ d \in Nat
      BY <1>5 DEF Reads
    <3>3. f.min \in Nat
      BY <2>2, <2>3
    <3> QED
      BY <3>1, <3>2, <3>3
  <2>5. \A d \in S : f.min =< d
    BY <2>4
  <2> HIDE DEF S
  <2> QED
    BY <2>2, <2>3, <2>5, MinIsTheLeast
<1> QED
  BY <1>6, <1>7 DEF FrontIsNearest

\* The front reading is the nearest valid pixel of both front images, and there
\* is one when either image has valid pixels, whatever the images show and
\* whichever of them is missing (the merge in _poll_sensors).
THEOREM FrontIsTheNearest == Spec => []FrontIsNearest
BY SceneTypeCorrect, FrontOfScene, PTL

-------------------------------------------------------------------------------
\* What nearest_obstacle_m says of the readings it is the minimum of.

\* An outer reading has a depth when it has a coverage.
LEMMA OuterReads ==
    ASSUME NEW v \in Views \union {NoView}, NEW i \in {v.left, v.right} \ {NoImage}
    PROVE  /\ i \in Image
           /\ Reads(OuterReading(i), ValidDepths(i.outer))
           /\ Reads(MiddleReading(i), ValidDepths(i.middle))
           /\ ValidDepths(i.outer) \in SUBSET Nat /\ ValidDepths(i.middle) \in SUBSET Nat
<1>1. i \in Image /\ i # NoImage
  BY ViewsAssumption DEF NoView
<1> QED
  BY <1>1, ImageReads, DepthsAreNumbers

LEMMA SideReads ==
    ASSUME NEW v \in Views \union {NoView}
    PROVE  LET r == ReadingsOf[v]
           IN  /\ r.left = OuterReading(v.left) /\ r.right = OuterReading(v.right)
               /\ r.left.coverage > 10 => r.left.min \in Nat
               /\ r.right.coverage > 10 => r.right.min \in Nat
<1>1. ReadingsOf[v].left = OuterReading(v.left) /\ ReadingsOf[v].right = OuterReading(v.right)
  BY DEF ReadingsOf, Readings
<1>2. ASSUME NEW i \in {v.left, v.right}, OuterReading(i).coverage > 10
      PROVE  OuterReading(i).min \in Nat
  <2>1. CASE i = NoImage
    BY <1>2, <2>1, NothingRead
  <2>2. CASE i # NoImage
    <3>1. /\ OuterReading(i).coverage \in Nat
          /\ OuterReading(i).coverage > 0 => OuterReading(i).min \in ValidDepths(i.outer)
          /\ ValidDepths(i.outer) \in SUBSET Nat
      BY <2>2, OuterReads DEF Reads
    <3> QED
      BY <1>2, <3>1
  <2> QED
    BY <2>1, <2>2
<1> QED
  BY <1>1, <1>2

\* No reading that counts is nearer than the nearest obstacle.
LEMMA ObstacleIsNearest ==
    ASSUME NEW v \in Views \union {NoView},
           NEW q \in {ReadingsOf[v].front, ReadingsOf[v].left, ReadingsOf[v].right},
           q.coverage > 10
    PROVE  /\ q.min \in Nat /\ NearestObstacle(ReadingsOf[v]) \in Nat
           /\ NearestObstacle(ReadingsOf[v]) =< q.min
<1> DEFINE r == ReadingsOf[v]
           mins == {p.min : p \in {p \in {r.front, r.left, r.right} : p.coverage > 10}}
           S == {NothingNear} \union mins
<1>1. r.front.coverage > 10 => r.front.min \in Nat
  <2>1. /\ r.front.coverage \in Nat
        /\ r.front.coverage > 0 => r.front.min \in Nat
    BY FrontReads
  <2> QED
    BY <2>1
<1>2. \A p \in {r.front, r.left, r.right} : p.coverage > 10 => p.min \in Nat
  BY <1>1, SideReads
<1>3. S \in SUBSET Nat /\ S # {}
  BY <1>2 DEF NothingNear
<1>4. q.min \in S
  OBVIOUS
<1>5. NearestObstacle(ReadingsOf[v]) = Min(S)
  BY DEF NearestObstacle
<1> HIDE DEF S
<1>6. Min(S) \in S /\ \A y \in S : Min(S) =< y
  BY <1>3, MinIsMember
<1>7. Min(S) \in Nat /\ q.min \in Nat /\ Min(S) =< q.min
  BY <1>3, <1>4, <1>6
<1> QED
  BY <1>5, <1>7

\* An image whose reading counts and is not hidden by the merge is no nearer
\* than the front.
LEMMA FrontCoversMiddle ==
    ASSUME TypeOK, NEW i \in {origin.view.left, origin.view.right} \ {NoImage},
           MiddleReading(i).coverage > 10, ~HiddenByMerge(i)
    PROVE  /\ scene.readings.front.coverage > 10
           /\ scene.readings.front.min \in Nat /\ MiddleReading(i).min \in Nat
           /\ scene.readings.front.min =< MiddleReading(i).min
<1> DEFINE v == origin.view
           l == MiddleReading(v.left)
           r == MiddleReading(v.right)
           f == scene.readings.front
<1>1. v \in Views \union {NoView} /\ scene.readings = ReadingsOf[v]
  BY DEF TypeOK
<1>2. /\ l.coverage \in Nat /\ r.coverage \in Nat
      /\ f.coverage = IF l.coverage > 0 THEN l.coverage ELSE r.coverage
      /\ l.coverage > 0 => l.min \in Nat /\ f.min \in Nat /\ f.min =< l.min
      /\ r.coverage > 0 => r.min \in Nat /\ f.min \in Nat /\ f.min =< r.min
  BY <1>1, FrontReads
<1>3. CASE i = v.left
  BY <1>2, <1>3
<1>4. CASE i # v.left
  <2>1. i = v.right /\ ~(l.coverage \in 1..10) /\ r.coverage > 10
    BY <1>4 DEF HiddenByMerge
  <2>2. l.coverage = 0 \/ l.coverage > 10
    BY <1>2, <2>1
  <2> QED
    BY <1>2, <2>1, <2>2
<1> QED
  BY <1>3, <1>4

LEMMA NearestOfScene ==
    ASSUME TypeOK
    PROVE  SeesNearest
<1> DEFINE v == origin.view
           near == NearestObstacle(scene.readings)
<1>1. v \in Views \union {NoView} /\ scene.readings = ReadingsOf[v]
  BY DEF TypeOK
<1>2. ASSUME NEW i \in {v.left, v.right} \ {NoImage},
             MiddleReading(i).coverage > 10, ~HiddenByMerge(i),
             NEW d \in ValidDepths(i.middle)
      PROVE  near =< d
  <2>1. /\ scene.readings.front.coverage > 10
        /\ scene.readings.front.min \in Nat /\ MiddleReading(i).min \in Nat
        /\ scene.readings.front.min =< MiddleReading(i).min
    BY <1>2, FrontCoversMiddle
  <2>2. near \in Nat /\ near =< scene.readings.front.min
    BY <1>1, <2>1, ObstacleIsNearest
  <2>3. /\ MiddleReading(i).coverage > 0 => MiddleReading(i).min =< d
        /\ MiddleReading(i).coverage \in Nat /\ d \in Nat
    BY <1>1, <1>2, OuterReads DEF Reads
  <2> HIDE DEF near
  <2> QED
    BY <1>2, <2>1, <2>2, <2>3
<1>3. ASSUME NEW i \in {v.left, v.right} \ {NoImage}, OuterReading(i).coverage > 10,
             NEW d \in ValidDepths(i.outer)
      PROVE  near =< d
  <2>1. OuterReading(i) \in {scene.readings.left, scene.readings.right}
    BY <1>1, SideReads
  <2>2. near \in Nat /\ near =< OuterReading(i).min /\ OuterReading(i).min \in Nat
    BY <1>1, <1>3, <2>1, ObstacleIsNearest
  <2>3. /\ OuterReading(i).coverage > 0 => OuterReading(i).min =< d
        /\ OuterReading(i).coverage \in Nat /\ d \in Nat
    BY <1>1, <1>3, OuterReads DEF Reads
  <2> HIDE DEF near
  <2> QED
    BY <1>3, <2>2, <2>3
<1> QED
  BY <1>2, <1>3 DEF SeesNearest

\* No region in sight holds a valid pixel nearer than nearest_obstacle_m says,
\* but on the right of a front whose left half is all but empty, whatever the
\* cameras see (_poll_sensors, what the prompt's [Scene] line shows).
THEOREM NearestIsSeen == Spec => []SeesNearest
BY SceneTypeCorrect, NearestOfScene, PTL

===============================================================================

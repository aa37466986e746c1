------------------------------ MODULE DepthScene ------------------------------
(***************************************************************************)
(* The arithmetic of the local scene (perception/spatial.py): what is kept *)
(* of a part of a depth image, how the two front images become the front,  *)
(* left and right readings, and what a reading says about a move.          *)
(*                                                                         *)
(* A region of a depth image is the number of its pixels at each depth; a  *)
(* depth is in millimetres, a coverage in thousandths, as the code rounds  *)
(* it.  Mean and maximum depth and the clearest path are left out: nothing *)
(* decides on them.                                                        *)
(***************************************************************************)
EXTENDS Integers, FiniteSetsExt

CONSTANTS
    Depths,     \* depths a pixel may have
    Regions,    \* pixel counts of the regions the cameras see
    Views,      \* pairs of front depth images, each a pair of regions
    NoImage     \* the robot sent no depth image of the right length

ASSUME DepthsAssumption == Depths \subseteq Nat
ASSUME RegionsAssumption == Regions \subseteq [Depths -> Nat]

Image == [outer : Regions, middle : Regions]   \* outermost quarter, middle half

ASSUME ViewsAssumption ==
    Views \subseteq [left : Image \union {NoImage}, right : Image \union {NoImage}]

NoView == [left |-> NoImage, right |-> NoImage]

-------------------------------------------------------------------------------
\* QuadrantDepth(): its defaults.
NoReading == [min |-> 0, coverage |-> 0]

\* Mutant: the ground at the robot's feet is not filtered out.
PixelsFromGround(region) == {d \in Depths : region[d] > 0 /\ d > 0 /\ d < 8000}

ValidDepths(region) == {d \in Depths : region[d] > 0 /\ d > 350 /\ d < 8000}

Thousandths(part, whole) == (2000 * part + whole) \div (2 * whole)

Coverage(region) ==
    Thousandths(SumFunctionOnSet(region, ValidDepths(region)), SumFunction(region))

\* An image has finitely many pixels: their numbers add up.
ASSUME CoverageAssumption == \A region \in Regions : Coverage(region) \in Nat

QuadrantFromDepth(region) ==
    IF ValidDepths(region) = {} THEN NoReading
    ELSE [min |-> Min(ValidDepths(region)), coverage |-> Coverage(region)]

ReadingOf == [region \in Regions |-> QuadrantFromDepth(region)]

OuterReading(image) ==
    IF image = NoImage THEN NoReading ELSE ReadingOf[image.outer]

MiddleReading(image) ==
    IF image = NoImage THEN NoReading ELSE ReadingOf[image.middle]

\* Mutant: an empty second reading is merged too.
MergedUnseen(front, other) ==
    IF front.coverage = 0 THEN other
    ELSE IF other.min < front.min THEN [front EXCEPT !.min = other.min]
    ELSE front

\* The first image's reading, with the second's minimum if that is closer: the
\* coverage stays that of the first.
Merged(front, other) ==
    IF front.coverage = 0 THEN other
    ELSE IF other.coverage > 0 /\ other.min < front.min
         THEN [front EXCEPT !.min = other.min]
    ELSE front

\* Nothing ever looks behind.  A missing right image leaves the front as it is.
Readings(view) ==
    [front |-> IF view.right = NoImage THEN MiddleReading(view.left)
               ELSE Merged(MiddleReading(view.left), MiddleReading(view.right)),
     left  |-> OuterReading(view.left),
     right |-> OuterReading(view.right),
     back  |-> NoReading]

ReadingsOf == [view \in Views \union {NoView} |-> Readings(view)]

NothingNear == 99000

\* Mutant: the front is left out of the summary.
NearestBeside(r) ==
    Min({NothingNear} \union {q.min : q \in {p \in {r.left, r.right} : p.coverage > 10}})

NearestObstacle(r) ==
    Min({NothingNear}
        \union {q.min : q \in {p \in {r.front, r.left, r.right} : p.coverage > 10}})

-------------------------------------------------------------------------------
Close(q) == q.coverage > 50 /\ q.min < 300

IsBlocked(r, v_x, v_y) ==
    \/ v_x > 0 /\ Close(r.front)
    \/ v_x < 0 /\ Close(r.back)
    \/ v_y > 0 /\ Close(r.left)
    \/ v_y < 0 /\ Close(r.right)

===============================================================================

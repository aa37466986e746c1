---------------------------- MODULE MCSpatialGate -----------------------------
(***************************************************************************)
(* A finite instance of SpatialGate: depths on both sides of each limit of *)
(* the code, and pairs of images on both sides of each coverage limit.     *)
(***************************************************************************)
EXTENDS SpatialGate

\* No return, an obstacle, the ground, a desk, a wall, the ceiling.
MCDepths == {0, 250, 351, 900, 2000, 9000}

Pixels(near, ground, desk, wall) ==
    [d \in MCDepths |-> CASE d = 250 -> near [] d = 351 -> ground
                          [] d = 900 -> desk [] d = 2000 -> wall
                          [] OTHER -> (4000 - near - ground - desk - wall) \div 2]

Empty   == Pixels(0, 0, 0, 0)
Trace   == Pixels(0, 1, 0, 0)           \* rounds to no coverage
Sparse  == Pixels(0, 0, 32, 0)          \* 0.8 %: below the 1 % of the summary
Blocked == Pixels(3000, 0, 0, 400)      \* an obstacle before a wall
Desk    == Pixels(0, 0, 2000, 1000)
Wall    == Pixels(0, 0, 0, 4000)

MCRegions == {Empty, Trace, Sparse, Blocked, Desk, Wall}

Seeing(outer, middle) == [outer |-> outer, middle |-> middle]

CONSTANT None

MCViews ==
    {[left |-> Seeing(Empty, Sparse), right |-> Seeing(Wall, Desk)],
     [left |-> Seeing(Blocked, Wall), right |-> Seeing(Trace, Desk)],
     [left |-> Seeing(Desk, Wall), right |-> Seeing(Blocked, Empty)]}

===============================================================================

------------------------------ MODULE MCSaveLoop ------------------------------
\* A finite instance of SaveLoop; waypoints are interchangeable.
EXTENDS SaveLoop, TLC

WaypointSymmetry == Permutations(Waypoints)

===============================================================================

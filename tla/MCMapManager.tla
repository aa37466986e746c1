----------------------------- MODULE MCMapManager -----------------------------
\* A finite instance of MapManager: two waypoints of one name, one
\* whose name is an alias of the seeded place, and one of the seeded place.
EXTENDS MapManager, TLC

CONSTANTS w1, w2, w3, w4, lab, alpha, bench

MCWaypoints == {w1, w2, w3, w4}
MCPlaces == {lab, alpha, bench}
MCPlaceNamed == w1 :> lab @@ w2 :> lab @@ w3 :> alpha @@ w4 :> bench

===============================================================================

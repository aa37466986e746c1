\* Three pairs of images, the robot's power and network, one reader.
CONSTANTS
    Depths <- MCDepths
    Regions <- MCRegions
    Views <- MCViews
    None = None
    NoImage = None
    MaxDescriptions = 2
SPECIFICATION FairSpec
INVARIANTS TypeOK FrontIsNearest SeesNearest GateNeverRefuses ReadingsWithMotorsOn DescriptionNotFresher
PROPERTIES SceneCatchesUp ActorEnds
\* The program ends.
CHECK_DEADLOCK FALSE

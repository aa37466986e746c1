\* Two calls of any kind, two instructions, either adapter.
CONSTANTS
    Calls = {c1, c2}
    MaxTasks = 2
    PolicyLimit = 1
    bench = bench
    old = old
    scope = scope
    photo = photo
    wide = wide
    close = close
    clear = clear
    Unlisted = Unlisted
    Here = Here
    AskedPlaces = {bench, Unlisted}
    Places <- MCPlaces
    ActivePlaces <- MCActivePlaces
    Assets <- MCAssets
    Labels <- MCLabels
    NameOf <- MCNameOf
    AliasesOf <- MCAliasesOf
    Order <- MCOrder
    Similarity <- MCSimilarity
    Lookups <- MCLookups
    Kinds = {photo}
    Profiles = {wide, close}
    Conditions = {clear}
    Plans <- MCPlans
SPECIFICATION Spec
INVARIANTS ArtifactsExist    SuccessIsSure RowsOfOneTask VerdictHasSource TargetWasAccepted ResolutionIsBest TypeOK
SYMMETRY CallSymmetry
\* The calls end.
CHECK_DEADLOCK FALSE

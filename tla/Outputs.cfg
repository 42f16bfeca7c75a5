SPECIFICATION Spec
CONSTANTS
    Outputs <- OutputSet
    MaxRing = 3
    MaxPage = 2
    MaxOutput = 2
    MaxPrinted = 4
    MaxInputs = 2
    MaxStarts = 3
    Ids = {1}
    Versions = {1, 2}
    Sizes = {1, 2}
    MAX_RUNS = 2
    MAX_METADATA = 3
    MAX_REVIEWED_PATCHES = 1
    MAX_BODY_BYTES = 2
INVARIANTS
    TypeOK
    ReadersAreServed
    PtyIsHonest
    PanelIsTrue
PROPERTY
    SessionsEnd
CHECK_DEADLOCK FALSE

SPECIFICATION FairSpec
CONSTANTS
    Terminals = {t1, t2}
    MaxTerminals = 1
    Runs = {r1, r2}
    Platform = "win32"
    None = None
INVARIANTS
    TypeOK
    TerminalsAreSound
    HeardAbortsLand
PROPERTY CancelledCommandsEnd
CHECK_DEADLOCK FALSE

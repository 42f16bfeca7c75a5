SPECIFICATION Spec
CONSTANTS
    Runs = {r1, r2}
    Terminals = {t1, t2}
    MaxTerminals = 2
    Platform = "win32"
    None = None
INVARIANT OneCommandPerTerminal
CHECK_DEADLOCK FALSE

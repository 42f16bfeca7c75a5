SPECIFICATION Spec
CONSTANTS
    k1 = k1 k2 = k2 c1 = c1 c2 = c2 i1 = i1 i2 = i2 s1 = s1 d1 = d1 d2 = d2
    Calls = {k1, k2}
    Credentials = {c1, c2}
    Identities = {i1, i2}
    Unbound = Unbound
    Subject <- OneSubject
    Device <- TwoDevices
    MaxModeRevision = 3
    MaxSessionRevision = 2
SYMMETRY Symmetry
INVARIANTS
    TypeOK
    NoCommitAfterWithdrawal
    DrainedMeansQuiet
    WithdrawnCommandsAborted
    RevokedStaysOut
CHECK_DEADLOCK FALSE

SPECIFICATION FairSpec
CONSTANTS
    Runs = {r1, r2}
    MaxCalls = 2
    Batches <- SmallBatches
    MaxTurns = 2
    None = None
INVARIANTS
    TypeOK
    EffectsAreApproved
    RunsAreHeard
PROPERTIES
    NoEffectAfterCancel
    RequestsSettle
CHECK_DEADLOCK FALSE

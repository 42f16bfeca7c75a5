SPECIFICATION TaskSpec
CONSTANTS
    MaxLinks = 2
    Limits = {1, 2}
    MaxAgents = 2
    MaxDepth = 1
    MaxRounds = 2
    MaxActions = 2
INVARIANTS
    TaskTypeOK
    SlotsAreReturned
    LimitHeld
    ClosedIsQuiet
    TasksRevokeTheirLinks
    ConnectionsAreTracked
    LimitCoversSetting
PROPERTIES
    CancelledTasksEnd
    ExpiredLinksGo
    ShutdownEnds

SPECIFICATION FairSpec
CONSTANTS
    Helpers = {1, 2}
    MaxAttempts = 2
    None = None
    Requests <- RequestSet
    MaxPipe = 1
INVARIANTS TypeOK HelpersAreTracked ReadyIsTrue NoForgottenWork
PROPERTY HostSettles
CHECK_DEADLOCK FALSE

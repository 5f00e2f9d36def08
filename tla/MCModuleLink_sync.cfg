SPECIFICATION FairSpec
CONSTANTS
    MaxModules = 2
    InitModules = 2
    Size = 1
    Capacity = 1
    MaxSends = 1
    MaxEvents = 1
    Kinds <- KindsValue
    Reply = "reply"
    Told = {"string"}
    Selects <- AllSelect
    Locks <- NewestOnly
    NoGrab <- NewestOnly
    Inputs <- SyncInputs
    EventInputs <- SyncEvents
    Quits = {TRUE}
    Exits = TRUE
INVARIANTS
    UseSafe
    LockHasAnswer
PROPERTIES
    FvwmReturns
    Delivered
\* fvwm waits in select when nothing happens any more
CHECK_DEADLOCK FALSE

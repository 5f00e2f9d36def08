SPECIFICATION Spec
CONSTANTS
    MaxModules = 3
    InitModules = 2
    Size = 2
    Capacity = 3
    MaxSends = 1
    MaxEvents = 1
    Kinds <- KindsValue
    Reply = "reply"
    Told = {"string"}
    Selects <- AllSelect
    Locks <- Nobody
    NoGrab <- Nobody
    Inputs <- PlainInputs
    EventInputs <- PlainEvents
    Quits = {TRUE}
    Exits = TRUE
INVARIANTS
    StreamIntact
    IteratorSafe
    FreedOnce
    NobodySkipped
PROPERTIES
    ImplementsChannel
\* fvwm waits in select when nothing happens any more
CHECK_DEADLOCK FALSE

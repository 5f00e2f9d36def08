SPECIFICATION Spec
CONSTANTS
    MaxModules = 2
    InitModules = 2
    Size = 2
    Capacity = 3
    MaxSends = 1
    MaxEvents = 1
    Kinds <- KindsValue
    Reply = "reply"
    Told = {"string"}
    Selects <- AllSelect
    Locks <- NewestOnly
    NoGrab <- Nobody
    Inputs <- KillInputs
    EventInputs <- NoteEvents
    Quits = {TRUE, FALSE}
    Exits = TRUE
INVARIANTS
    IteratorSafe
\* fvwm waits in select when nothing happens any more
CHECK_DEADLOCK FALSE

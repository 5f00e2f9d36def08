SPECIFICATION Spec
CONSTANTS
    Windows = {w1}
    Desks = {0, 1}
    Hints = {"Normal"}
    Hasty = {"map"}
    Crossing = FALSE
    MaxBurst = 1
    MaxQueue = 12
    MaxRequests = 4
    MaxStops = 2
INVARIANTS
    MapAgrees
    ClientObeyed
    OrderObeyed
    OnlyThisDesk
    IconHidden

SPECIFICATION Spec
CONSTANTS
    Windows = {w1}
    Desks = {0, 1}
    Hints = {"Normal"}
    Hasty = {}
    Crossing = FALSE
    MaxBurst = 3
    MaxQueue = 12
    MaxRequests = 4
    MaxStops = 0
INVARIANT MapAgrees

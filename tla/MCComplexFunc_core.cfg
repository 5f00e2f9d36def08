SPECIFICATION Spec
CONSTANTS
    outer = outer
    helper = helper
    Functions = {outer, helper}
    Items <- MCItems
    MaxItems = 2
    MaxItemsRun = 3
    MaxBareWaits = 1
INVARIANTS
    InUseAlive
    CountsAgree
    BreakExact
    AllReturned
    StackBounded

SPECIFICATION Spec
CONSTANTS
    main = main
    dialog = dialog
    other = other
    grump = grump
    Windows = {main, dialog, other, grump}
    Leader <- MCLeader
    Refuses = {grump}
    ByOpen = {other}
    Keeps = {}
    Overrides = {grump}
    Skips = {}
    MaxFrames = 2
INVARIANTS
    UseSafe
    Partition
PROPERTIES
    FocusLeaves
    TourComplete

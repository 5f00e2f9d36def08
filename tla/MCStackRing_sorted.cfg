SPECIFICATION Spec
CONSTANTS
    main = main
    dialogue = dialogue
    third = third
    Root = Root
    NoHint = NoHint
    Windows = {main, dialogue, third}
    MayHint <- MCHints
    Layers = {1, 2}
    DefaultLayer = 1
    LayerStyle <- MCLayerStyle
    RaiseTransient = {main}
    LowerTransient = {main}
    StackTransientParent = {dialogue, third}
    ChecksStack = {TRUE}
INVARIANTS
    LayersSorted
    XMatchesRing
    PagerOffByOne
    ReachesEnd
PROPERTIES
    OneFamilyMoves

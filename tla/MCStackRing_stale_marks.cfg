SPECIFICATION Spec
CONSTANTS
    main = main
    dialogue = dialogue
    third = third
    Root = Root
    NoHint = NoHint
    Windows = {main, dialogue, third}
    MayHint <- MCHints
    Layers = {1, 2}
    DefaultLayer = 1
    LayerStyle <- MCLayerStyle
    RaiseTransient = {}
    LowerTransient = {main}
    StackTransientParent = {}
    ChecksStack = {TRUE}
INVARIANT
    LayersSorted

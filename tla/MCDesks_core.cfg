SPECIFICATION Spec
CONSTANTS
    editor = editor
    panel = panel
    home = home
    away = away
    N = 2
    Windows = {editor, panel}
    LastDesk = 2
    Pages = {home, away}
    Clicky = {editor}
    Pagers = {0, 1}
    Upsets = {}
INVARIANTS
    OnlyShownDesks
    DesksPerMode
    PagerKnows
PROPERTIES
    FocusShown
    BackIsLast
VIEW WithoutBack
SYMMETRY AnyPage

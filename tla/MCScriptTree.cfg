CONSTANTS
    r = r
    a = a
    g = g
    Scripts = {r, a, g}
    Parent <- Line
    Paths <- UpAndDown
    None = None
    Gone = Gone
    MaxCalls = 2
    MaxSpawns = 2
SPECIFICATION FairSpec
INVARIANTS ChildrenGoFirst OwnLineIsSafe
PROPERTIES ComesBack

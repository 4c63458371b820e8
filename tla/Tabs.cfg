SPECIFICATION TabsSpec
SYMMETRY Symmetric
CONSTANTS
    Tab = {t1, t2, t3}
    Third = t3
    Shell <- Pair
    MaxRepo = 2
    Opened <- LibraryOpened
    None = None
    Asks <- MCAsks
    Claims = {1, 2, 3}
    Locks = {TRUE, FALSE}
INVARIANTS
    OneWriter
    LibraryIsCurrent
CHECK_DEADLOCK FALSE

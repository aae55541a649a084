SPECIFICATION Spec
CONSTANTS
    Procs = {init, a, b}
    InitTask = init
    MAX_FDS = 2
    MAX_FILES = 2
    MaxOpens = 2
    Files = {f}
    Pipes = {o}
    Sockets = {s}
    NULL = NULL
    Worlds <- MCWorlds
SYMMETRY MCSymmetry
VIEW MCView
INVARIANTS
    RefcountExact
    OpensExact
    NoUseAfterClose
CHECK_DEADLOCK FALSE

CONSTANTS
    Tasks = {i, a, b, c}
    InitTask = i
    IdleTask = idle
    NULL = NULL
    MaxPid = 3
    MaxDelay = 1
    Worlds <- MCSafety
SYMMETRY MCSymmetry
SPECIFICATION Spec
INVARIANTS RingIsWhole TreeMatchesParents PidNamesOneTask WaitsForItsChild
INVARIANT CalmWaitpidAnswersAsked

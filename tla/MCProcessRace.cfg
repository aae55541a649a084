CONSTANTS
    Tasks = {i, a, b}
    InitTask = i
    IdleTask = idle
    NULL = NULL
    MaxPid = 3
    MaxDelay = 0
    Worlds <- MCRace
SPECIFICATION Spec
INVARIANT WaitpidAnswersAsked

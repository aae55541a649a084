CONSTANTS
    Tasks = {i, a, b}
    InitTask = i
    IdleTask = idle
    NULL = NULL
    MaxPid = 3
    MaxDelay = 1
    Worlds <- MCLiveness
SPECIFICATION FairSpec
PROPERTIES ReadyTaskRuns WaiterIsTold KilledTaskExits

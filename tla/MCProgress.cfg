\* SIGKILL, SIGUSR1 and SIGCHLD, which is ignored by default.
CONSTANTS Sigs = {9, 10, 17} SIGKILL = 9 Programs <- MCPrograms Terminate = {9, 10} MaxDepth = 1
CONSTANTS READ_BUFFER = 2 LINE_BUFFER = 3 Raw = TRUE MaxBytes = 4
CONSTANTS Procs = {a, b} Data = {x} PIPE_SIZE = 2 Sizes = {2}
CONSTANTS Callers = {c1, c2} Hosts = {h1} ARP_CACHE_SIZE = 1 Tries = 2 Observed = c1
SPECIFICATION Spec
PROPERTIES KillEnds ReadReturns HangUpEndsWait RequestReturns
CHECK_DEADLOCK FALSE

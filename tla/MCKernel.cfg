\* SIGKILL, SIGUSR1 and SIGCHLD, which is ignored by default.
CONSTANTS Sigs = {9, 10, 17} SIGKILL = 9 Programs <- MCPrograms Terminate = {9, 10} MaxDepth = 2
CONSTANT MaxPid = 5
CONSTANTS ALLOC_MAP_SIZE = 6 HeapPages = 7 MaxRequest = 4
CONSTANTS PAGE_SIZE = 3 USER_MAX = 23 UINTPTR_MAX = 31 initial_brk = 3 StackPage = 5
CONSTANTS READ_BUFFER = 2 LINE_BUFFER = 4 Raw = TRUE MaxBytes = 4
CONSTANTS Callers = {c1, c2} Hosts = {h1, h2} ARP_CACHE_SIZE = 2 Tries = 2 Observed = c1
CONSTANT Pingers = {c1, c2}
CONSTANTS Sockets = {s, t} Ports = {0, 1, 2} Ephemeral = {1, 2} UDP_BUFFER_SIZE = 2 Payloads = {"x"}
CONSTANTS Packets = {"p", "q", "r"} Size <- MCSize Id <- MCId FragmentSlots = 2 AreaSize = 3
CONSTANTS Bits = {1, 2} Cards = {0} MaxRoutes = 3
SPECIFICATION Spec
INVARIANTS
    ReturnsToInterrupted
    GroupInOneSession
    HeldAreDisjoint OnlyHeldMapped
    HeapEndsAtBreak
    TerminalIsFifo
    ResolvesRight PingTellsTheTruth PortsMatchSockets DatagramsIntact RouteIsBest
PROPERTY GrowsByZeroes
CHECK_DEADLOCK FALSE

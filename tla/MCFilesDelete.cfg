CONSTANTS LastCluster = 5 EntriesPerSector = 4 FatEntries = 8 ClusterSize = 2 SlotsPerCluster = 1
CONSTANTS LowClusters = 4 Sizes = {0, 1, 3, 7} Writes <- FewWrites
CONSTANTS MaxEntries = 3 Names = {a, b} MoveDirs = FALSE
CONSTANTS MaxMounts = 3 Dirs = {d, e} MaxOpen = 2
CONSTANTS PathNames = {"a", "b"} MaxTokens = 5 MaxWd = 7
CONSTANTS Modes = {"r+", "w+", "a"} BUFSIZ = 3 Byte = {1, 2} Newline = 2 MaxFile = 4
CONSTANTS Texts <- LineTexts Offsets <- NearOffsets
SPECIFICATION SpecFat
INVARIANT DeleteEnds
CHECK_DEADLOCK FALSE

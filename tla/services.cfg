CONSTANTS
    Signals = {1, 2}
    Capacity = 2
    MaxRaised = 4
    n1 = n1
    n2 = n2
    Notifiers = {n1, n2}
    MaxSkews = 2
    Bytes = Bytes
    Files = Files
    Units = {Bytes, Files}
    FirstUnit = Bytes
    Amounts = {0, 1, 2}
    MaxDepth = 3
    MaxCalls = 4
    MaxTime = 2
    MaxBackups = {0, 2, 3}
    MaxVersion = 4
    PathNames = {"l", "m", "x", "y", "f", "s", "t"}
    MountPaths <- MCMountPaths
    SymlinkDirectories <- MCSymlinkDirectories
    SymlinksToMounts <- MCSymlinksToMounts
    SymLinks <- MCSymLinks
SPECIFICATION Spec
CHECK_DEADLOCK FALSE
INVARIANTS EngineShared ProgressTold CacheTransparent
PROPERTIES SignalsReceived BackupsKept LsofReports

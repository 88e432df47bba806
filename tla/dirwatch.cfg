SPECIFICATION Spec
CONSTANTS
    Paths <- MCPaths
    Parent <- MCParent
    i1 = i1
    i2 = i2
    Instances = {i1}
    Watchable <- MCWatchable
    ModeChoices <- MCModes
    NotifyChoices = {FALSE}
    MaxWatches = 2
    MaxChanges = 2
    MaxCalls = 3
    MaxTime = 2
    NfsPaths <- MCNothing
CHECK_DEADLOCK FALSE
INVARIANTS
    EntriesSound
    WatchTableSound
    NoOrphans
    WatchesCurrent
PROPERTIES
    StaysUpToDate

CONSTANTS
    NumPages = 5
    PageSize = 4
    MaxProbe = 2
    UnmappedBytes = 1
    k1 = k1
    k2 = k2
    k3 = k3
    small = small
    medium = medium
    large = large
    Keys = {k1, k2, k3}
    Values = {small, large}
    Hash <- CollidingHash
    KeyLength <- MCKeyLength
    DataSize <- MCDataSize
    LabelLength = 2
    CullAge = 0
    Junk = Junk
    Timestamps = {50}
    Policies = {"EvictLeastRecentlyUsed"}
    MaxTime = 1
    MaxUseCount = 2
SPECIFICATION Spec
INVARIANTS ItemsKept
PROPERTIES RefinesLossyCache

CONSTANTS
    NumPages = 6
    PageSize = 4
    MaxProbe = 2
    UnmappedBytes = 0
    k1 = k1
    k2 = k2
    k3 = k3
    small = small
    medium = medium
    large = large
    Keys = {k1, k2, k3}
    Values = {small, large}
    Hash <- MCHash
    KeyLength <- MCKeyLength
    DataSize <- MCDataSize
    LabelLength = 2
    CullAge = 0
    Junk = Junk
    Timestamps = {}
    Policies = {}
    MaxTime = 1
    MaxUseCount = 1
SPECIFICATION Spec
INVARIANTS SegmentSound RoomFound FoundAfterInsert

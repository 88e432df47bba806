CONSTANTS
    p1 = p1
    p2 = p2
    p3 = p3
    Processes = {p1, p2}
    Segments = {s1, s2, s3}
    NoSegment = NoSegment
    Request <- SameRequest
    RetryLimit = 0
    NumPages = 2
    PageSize = 4
    MaxProbe = 1
    UnmappedBytes = 0
    Keys = {}
    Values = {}
    Hash <- NoItems
    KeyLength <- NoItems
    DataSize <- NoItems
    LabelLength = 0
    CullAge = 0
    Junk = Junk
SPECIFICATION MCSpec
INVARIANTS LockIsExclusive
SYMMETRY Symmetry

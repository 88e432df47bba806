CONSTANTS
    p1 = p1
    p2 = p2
    p3 = p3
    Processes = {p1, p2}
    Segments = {s1, s2, s3}
    NoSegment = NoSegment
    Request <- MixedRequest
    RetryLimit = 1
    NumPages = 7
    PageSize = 4
    MaxProbe = 2
    UnmappedBytes = 0
    Keys = {}
    Values = {}
    Hash <- NoItems
    KeyLength <- NoItems
    DataSize <- NoItems
    LabelLength = 0
    CullAge = 0
    Junk = Junk
SPECIFICATION MCSpec
INVARIANTS DefragmentSound TypeOK OperationsSeeReady SetupIsExclusive
PROPERTIES Terminates NobodyHangs

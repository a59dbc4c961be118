CONSTANTS
    s1 = s1
    s2 = s2
    s3 = s3
    NoSegment = NoSegment
    NoObject = NoObject
    Segments <- TwoSegments
    StaleThreshold = 3
    FastRetry = 1
    SlowRetry = 2
    Recreate = FALSE
    DriverFails = TRUE
SPECIFICATION FairSpec
INVARIANTS
    TypeOK
    OfferedIsNamed
    ReconnectBound
    AudioHasCapacity
PROPERTIES
    OnlySilentIsDropped
    AttachesEventually

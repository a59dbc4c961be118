CONSTANTS
    s1 = s1
    s2 = s2
    s3 = s3
    NoSegment = NoSegment
    NoObject = NoObject
    Segments <- ThreeSegments
    StaleThreshold = 3
    FastRetry = 1
    SlowRetry = 2
    Recreate = TRUE
    DriverFails = FALSE
SYMMETRY AnySegment
SPECIFICATION Spec
INVARIANTS
    OfferedIsNamed

CONSTANTS
    Mics = {m1, m2}
    Virtual = Virtual
    NoDevice = NoDevice
    MaxQueued = 2
SPECIFICATION FairSpec
INVARIANTS
    TypeOK
    CallbackSafe
    StartsFromNothing
    OffMeansOff
    CaptureFollowsSelection
PROPERTIES
    DevicesSettle
    NoChangeMissed

CONSTANTS
    FrameSize = 3
    TriggerCount = 2
    CooldownFrames = 2
    CallbackSizes <- MCCallbackSizes
    Modes <- MCModes
SPECIFICATION FairSpec
INVARIANTS
    TypeOK
    BuffersSound
    DenoiserReady
    AttenuationApplied
    DfStartsFresh
    Cushion
    LatencyBound
PROPERTIES
    NoDropout
    ImplementsDelayLine
    OverloadEnds
    TripsOnlyWhenSlow
    PassthroughExact

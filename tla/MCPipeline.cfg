CONSTANTS
    c1 = c1
    c2 = c2
    FrameSize = 3
    Capacity = 15
    StaleThreshold = 6
    Jitter = 1
    MaxDrift = 1
    CaptureSizes <- MCCaptureSizes
    RequestSizes <- MCRequestSizes
    Clients <- MCClients
SPECIFICATION FairSpec
INVARIANTS
    TypeOK
    EndToEndDelay
PROPERTIES
    KeepsLiveProducer
    GapsRunOut
    MicrophoneHeard
    AudioKeepsFlowing

CONSTANTS
    c1 = c1
    FrameSize = 15
    Capacity = 150
    StaleThreshold = 50
    Jitter = 0
    MaxDrift = 0
    CaptureSizes <- Capture4096
    RequestSizes <- Request64
    Clients <- OneClient
SPECIFICATION FairSpec
PROPERTY OnlyTheDeadAreDropped

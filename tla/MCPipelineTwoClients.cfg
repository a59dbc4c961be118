CONSTANTS
    c1 = c1
    c2 = c2
    FrameSize = 3
    Capacity = 15
    StaleThreshold = 6
    Jitter = 0
    MaxDrift = 0
    CaptureSizes <- OneSize
    RequestSizes <- OneSize
    Clients <- TwoClients
SPECIFICATION FairSpec
PROPERTY MicrophoneHeard

CONSTANTS
    FrameSize = 480
    TriggerCount = 5
    CooldownFrames = 100
    CallbackSizes <- Callbacks128
    Modes <- OneMode
SPECIFICATION Spec
INVARIANT LatencyAsDocumented

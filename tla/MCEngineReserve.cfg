CONSTANTS
    FrameSize = 480
    TriggerCount = 5
    CooldownFrames = 100
    CallbackSizes <- Callbacks1024
    Modes <- OneMode
SPECIFICATION Spec
INVARIANT NoReallocation

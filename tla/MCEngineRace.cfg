CONSTANTS
    FrameSize = 2
    CallbackSizes <- MCCallbackSizes
    Modes <- MCModes
SPECIFICATION Spec
INVARIANT NoStaleSamples
CHECK_DEADLOCK FALSE

SPECIFICATION Spec
CONSTANTS
    HostFrames <- NoFrames
    Temperatures <- MCTemperatures
    Distances <- NearFar
    OverrunBlocks = {TRUE}
    PulseWidth = 10
INVARIANT
    MotionIsMotion

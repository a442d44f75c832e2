SPECIFICATION Spec
CONSTANTS
    HostFrames <- OneDht
    Temperatures <- MCTemperatures
    Distances <- NearFar
    OverrunBlocks = {FALSE}
    PulseWidth = 1
INVARIANT
    WholeMessage
CHECK_DEADLOCK FALSE

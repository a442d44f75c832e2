SPECIFICATION FairSpec
CONSTANTS
    HostFrames <- OneSetTemperature
    Temperatures <- MCTemperatures
    Distances <- NearFar
    OverrunBlocks = {FALSE}
    PulseWidth = 1
PROPERTY
    SetTemperatureWorks
CHECK_DEADLOCK FALSE

SPECIFICATION FairSpec
CONSTANTS
    HostFrames <- InertAndCommand
    Temperatures <- MCTemperatures
    Distances <- NearFar
    OverrunBlocks = {TRUE, FALSE}
    PulseWidth = 2
INVARIANTS
    TypeOK
    LoopOutcome
    InertHost
    ReadingsVerified
    PirPulse
PROPERTIES
    LoopAlive
    RelayReleased
    TelemetrySpec
CHECK_DEADLOCK FALSE

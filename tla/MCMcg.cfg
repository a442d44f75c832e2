SPECIFICATION Spec
CONSTANTS
    Crystals <- MCCrystals
    IrcFreqs <- MCIrc
    PllSettings <- MCPll
    DRS = 1
    DMX32 = 0
    MaxLate = 1
INVARIANTS
    TypeOK
    MonitorOff
    RightMode
    FllInSpec
    RunsLocked
    CoreClockRight
    Booted

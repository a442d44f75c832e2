SPECIFICATION BootFairSpec
CONSTANTS
    Crystals <- MCCrystals
    IrcFreqs <- MCIrc
    PllSettings <- MCPll
    DRS = 1
    DMX32 = 0
    MaxLate = 1
    Requests <- MCRequests
INVARIANTS
    BootTypeOK
    SpeaksToSupervisor
    StartsRight
    BestRatio
    InTolerance
PROPERTIES
    Starts
CHECK_DEADLOCK FALSE

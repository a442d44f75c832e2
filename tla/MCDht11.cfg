SPECIFICATION Spec
CONSTANTS
    Readings <- MCReadings
    ResponseDelays <- MCResponse
    ZeroPulse <- MCZero
    OnePulse <- MCOne
    Disturbed <- MCDisturbed
    MaxDisturbed = 1
    TickModulus = 12
    CallDelay = 5
INVARIANTS
    TypeOK
    BitsRight
    OneDisturbedRefused
    UndisturbedTaken

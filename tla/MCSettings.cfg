SPECIFICATION Spec
CONSTANTS
    HumidValues <- MCHumid
    TemperatureValues <- MCTemperature
    DistanceValues <- MCDistance
    MaxQueued = 4
INVARIANTS
    TypeOK
    ConfirmedIsHeld

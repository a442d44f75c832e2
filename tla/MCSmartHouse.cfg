SPECIFICATION HouseSpec
CONSTANTS
    BoardFrames <- MCFrames
    WholeFrames = TRUE
    LineErrors = FALSE
    ReadMax = 255
    MaxQueue = 9
    MaxPosted = 2
    Temperatures <- MCTemperatures
    Distances <- MCDistances
    Humidity = 40
    FloatBytes <- MCFloatBytes
INVARIANTS
    LabelsAgree

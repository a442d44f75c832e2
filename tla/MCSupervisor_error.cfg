SPECIFICATION Spec
CONSTANTS
    BoardFrames <- TwoFrames
    WholeFrames = TRUE
    LineErrors = TRUE
    ReadMax = 255
    MaxQueue = 6
    MaxPosted = 2
INVARIANT
    ErrorPurges

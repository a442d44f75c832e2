SPECIFICATION Spec
CONSTANTS
    BoardFrames <- TwoFrames
    WholeFrames = FALSE
    LineErrors = FALSE
    ReadMax = 255
    MaxQueue = 6
    MaxPosted = 2
INVARIANT
    NothingInvented

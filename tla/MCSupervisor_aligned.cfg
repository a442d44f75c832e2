SPECIFICATION FairSpec
CONSTANTS
    BoardFrames <- MCFrames
    WholeFrames = TRUE
    LineErrors = TRUE
    ReadMax = 255
    MaxQueue = 9
    MaxPosted = 2
INVARIANTS
    TypeOK
    NoLostWakeup
    NothingFromBefore
    NothingInvented
PROPERTIES
    IsView
    WaitingIsTaken

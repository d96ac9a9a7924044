SPECIFICATION FairSpec
CONSTANTS
    Session = {"a", "b"}
    Kind = {"human", "assistant", "start", "result"}
    SliceSize = 2
    MaxAttempts = 1
    MaxLog = 4
    MaxMoves = 2
INVARIANTS
    TypeOK
    TranscriptFollowsStream
    ReplayGroupsAsWhole
PROPERTIES
    TranscriptCatchesUp
CHECK_DEADLOCK FALSE

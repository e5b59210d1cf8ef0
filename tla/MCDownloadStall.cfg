CONSTANTS
    p1 = p1
    p2 = p2
    Peers = {p1, p2}
    TotalPieces = 1
    PieceLength = 1
    Length = 1
    BlockSize = 1
    PieceIds = {0}
    MaxOutstanding = 1
    RequestTimeout = 1
    Unsolicited = {}
    MaxBatches = 3
    Holdings <- AllHold
    Fickle = {p2}
    Prompt = TRUE
    WakeCap = 10
    MaxRepeats = 2
SPECIFICATION FairSpec
PROPERTY IdleEnds
CHECK_DEADLOCK FALSE

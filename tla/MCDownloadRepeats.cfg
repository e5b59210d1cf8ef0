CONSTANTS
    p1 = p1
    p2 = p2
    Peers = {p1, p2}
    TotalPieces = 1
    PieceLength = 4
    Length = 4
    BlockSize = 1
    PieceIds = {0}
    MaxOutstanding = 4
    RequestTimeout = 1
    Unsolicited = {}
    MaxBatches = 2
    Holdings <- AllHold
    Fickle = {p1}
    Prompt = FALSE
    WakeCap = 10
    MaxRepeats = 1
SPECIFICATION Spec
INVARIANT ArrivedIsComplete

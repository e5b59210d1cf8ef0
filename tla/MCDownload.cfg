CONSTANTS
    p1 = p1
    p2 = p2
    Peers = {p1, p2}
    TotalPieces = 2
    PieceLength = 3
    Length = 6
    BlockSize = 1
    PieceIds = {0, 1}
    MaxOutstanding = 2
    RequestTimeout = 1
    Unsolicited = {}
    MaxBatches = 6
    Holdings <- PartlyHold
    Fickle = {}
    Prompt = TRUE
    WakeCap = 2
    MaxRepeats = 1
SPECIFICATION FairSpec
INVARIANTS DownloadTypeOK ReliablePeersKept
PROPERTIES DownloadCompletes

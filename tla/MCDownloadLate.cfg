CONSTANTS
    p1 = p1
    p2 = p2
    Peers = {p1, p2}
    TotalPieces = 1
    PieceLength = 2
    Length = 2
    BlockSize = 1
    PieceIds = {0}
    MaxOutstanding = 2
    RequestTimeout = 1
    Unsolicited <- LastBlock
    MaxBatches = 2
    Holdings <- AllHold
    Fickle = {p1, p2}
    Prompt = FALSE
    WakeCap = 1
    MaxRepeats = 1
SYMMETRY Sym
SPECIFICATION Spec
INVARIANTS CompletionNeverLost AnnouncedOrPending CompletedNotListed IndexesAgree NoGhosts
PROPERTY DeliveryRefined

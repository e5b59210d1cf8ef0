CONSTANTS
    TotalPieces = 2
    PieceLength = 4
    Length = 6
    BlockSize = 2
    MaxOutstanding = 2
    RequestTimeout = 2
    MaxBatches = 3
SPECIFICATION TrackerFairSpec
INVARIANTS TypeOK NoPieceLost BlocksBelongToStarted WithinCapacity Watched
PROPERTIES NothingOverdue EveryRequestResolves

CONSTANTS
    Peers = {p1, p2}
    PieceIds = {0}
    ToDeq = 4
    ChokeSize = 4
    Unreadable = {p2}
    WakeCap = 1
    MaxRequests = 3
SPECIFICATION FairSpec
INVARIANTS NoRequestLost AnsweredInOrder
PROPERTY EveryRequestAnswered

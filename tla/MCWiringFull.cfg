CONSTANTS
    Count = 2
    PeerId <- Distinct
    MaxConns = 2
    TxSize = 3
    RxSize = 1
    WakeSize = 10
    Leaving = {}
    Expiry = FALSE
    MaxIn = 2
    MaxOut = 1
SPECIFICATION Spec
INVARIANT LoopCanReturn

CONSTANTS
    Count = 2
    PeerId <- Shared
    MaxConns = 2
    TxSize = 10
    RxSize = 1
    WakeSize = 1
    Leaving = {1}
    Expiry = FALSE
    MaxIn = 2
    MaxOut = 1
SPECIFICATION FairSpec
INVARIANTS ServedUnlessShared LoopCanReturn ForgottenForGood
PROPERTIES EveryMessageHandled

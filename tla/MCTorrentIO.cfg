CONSTANTS
    TotalPieces = 2
    PieceLength = 2
    Length = 4
    BlockSize = 1
    Corrupt = {1}
SPECIFICATION BothSpec
INVARIANTS IOTypeOK FinishedIntact ReadsAreTorrentData HonestNeverMismatched StoresAgree
PROPERTIES StoreRefined

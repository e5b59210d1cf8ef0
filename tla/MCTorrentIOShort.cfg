CONSTANTS
    TotalPieces = 2
    PieceLength = 3
    Length = 5
    BlockSize = 1
    Corrupt = {}
SPECIFICATION BothSpec
INVARIANT HonestNeverMismatched

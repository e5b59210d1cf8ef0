CONSTANTS
    HashLen = 2
    Files <- MCFiles
    Answers <- MCAnswers
    Urls <- MCUrls
    NoTorrent = NoTorrent
    NoPeers = NoPeers
    PstrLen = 2
    IdLen = 2
    Hello <- MCHello
    Alphabet <- MCAlphabet
    TotalPieces = 10
    MaxSent = 2
SPECIFICATION SessionSpec
INVARIANTS TorrentAsMeant HashOfTheFile PeersAsListed
    NothingLostOrRepeated NothingHeldBack EndsForAReason
PROPERTIES EveryMessageReturned
CHECK_DEADLOCK FALSE

--------------------------- MODULE TorrentLayout ---------------------------
(***************************************************************************)
(* How a torrent is cut into pieces and blocks: TorrentAllocation of       *)
(* peer/mod.rs and the block loop of PieceBlockAllocation::new             *)
(* (peer/state/piece.rs).  Positions are byte offsets, in units as small   *)
(* as the instance wants them.                                             *)
(***************************************************************************)
EXTENDS Naturals, FiniteSets

CONSTANTS
    TotalPieces,    \* torrent.info.pieces.len()
    PieceLength,    \* torrent.info.piece_length
    Length,         \* torrent.info.length
    BlockSize       \* PIECE_BLOCK_SIZE

\* A well-formed .torrent file: every piece is full but possibly the last,
\* which holds at least one byte.
ASSUME LayoutAssumption ==
    /\ TotalPieces \in Nat \ {0}
    /\ PieceLength \in Nat \ {0}
    /\ Length \in Nat
    /\ BlockSize \in Nat \ {0}
    /\ (TotalPieces - 1) * PieceLength < Length
    /\ Length <= TotalPieces * PieceLength

Pieces == 0 .. TotalPieces - 1

LastPieceSize == Length - (TotalPieces - 1) * PieceLength

piece_len(p) == IF p = TotalPieces - 1 THEN LastPieceSize ELSE PieceLength

\* (0..piece_size).step_by(PIECE_BLOCK_SIZE)
Begins(p) == {b \in 0 .. PieceLength - 1 : b < piece_len(p) /\ b % BlockSize = 0}

\* The length asked for: a block, cut at the end of the piece.
RequestLength(p, b) ==
    IF b + BlockSize > piece_len(p) THEN piece_len(p) - b ELSE BlockSize

\* PieceToBlockKey: a block is named by its piece and its first byte.
BlockKeys == {k \in Pieces \X (0 .. PieceLength - 1) : k[2] \in Begins(k[1])}

\* The order in which generate_assignments visits blocks: a BTreeMap of
\* pieces, and ascending begins within a piece.
Before(k, l) == k[1] < l[1] \/ (k[1] = l[1] /\ k[2] < l[2])

PiecesOf(keys) == {k[1] : k \in keys}

BlocksOf(p) == {k \in BlockKeys : k[1] = p}
=============================================================================

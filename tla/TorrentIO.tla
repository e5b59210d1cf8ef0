------------------------------ MODULE TorrentIO ------------------------------
(***************************************************************************)
(* FileTorrentIO (peer/io/file.rs): the download file, the interval list   *)
(* of each piece, and the two operations the io task serves one at a time  *)
(* (peer/io/state.rs).                                                     *)
(*                                                                         *)
(* A byte of the torrent is named by its position in the torrent; the file *)
(* holds such names, Zero where nothing was written and Junk where a       *)
(* corrupt block was.  SHA-1 is taken to tell exactly the right bytes from *)
(* all others.                                                             *)
(***************************************************************************)
EXTENDS TorrentLayout, SliceOps

CONSTANT Corrupt    \* the pieces of which wrong bytes may be sent

ASSUME CorruptAssumption == Corrupt \subseteq Pieces

VARIABLES
    slices,     \* piece_to_file[p].slices
    file,       \* the bytes of the file
    finished,   \* pieces write_piece has answered Ok(true) for
    answer      \* the latest answer: <<piece, result>>

ioVars == <<slices, file, finished, answer>>

Results == {"none", "Pending", "Finished", "FileAlreadyComplete", "BadBounds",
            "BadPieceIdx", "PieceHashMismatch", "FilePieceNotFinished", "Data", "WrongData"}

Zero == -1
Junk == -2

\* Faulty: the last byte of a piece is left out.
StartOffByOne(p) == (piece_len(p) - 1) * p

\* FilePieceState.start_idx: the piece's own length times its index.
start_idx(p) == piece_len(p) * p

Offsets(p) == 0 .. piece_len(p) - 1

\* The byte the torrent has at offset o of piece p.
TorrentByte(p, o) == p * PieceLength + o

HashMatches(f, p) == \A o \in Offsets(p) : f[start_idx(p) + o] = TorrentByte(p, o)

\* The file with `len` bytes of a block written at offset b of piece p.
Written(p, b, len, good) ==
    [i \in DOMAIN file |->
        IF i \in start_idx(p) + b .. start_idx(p) + b + len - 1
        THEN IF good THEN TorrentByte(p, i - start_idx(p)) ELSE Junk
        ELSE file[i]]

\* What a read of `len` bytes at offset b of piece p finds.
Reading(p, b, len) ==
    IF \A o \in b .. b + len - 1 : file[start_idx(p) + o] = TorrentByte(p, o)
    THEN "Data" ELSE "WrongData"

-----------------------------------------------------------------------------
IOInit ==
    /\ slices = [p \in Pieces |-> <<>>]
    /\ file = [i \in 0 .. Length - 1 |-> Zero]
    /\ finished = {}
    /\ answer = <<0, "none">>

Complete(p) == IsComplete(slices[p], piece_len(p))

InBounds(p, b, len) == b + len <= piece_len(p)

\* Faulty: the bounds check is missing.
AcceptsOutside(p, b, len) == p \in Pieces /\ ~Complete(p)

\* Faulty: more is added to a complete piece.
AcceptsMore(p, b, len) == p \in Pieces /\ InBounds(p, b, len)

\* write_piece gets past its early returns.
Accepts(p, b, len) == p \in Pieces /\ ~Complete(p) /\ InBounds(p, b, len)

\* The early returns, in their order.
WriteRefused(p, b, len) ==
    /\ ~Accepts(p, b, len)
    /\ answer' = <<p, IF p \notin Pieces THEN "BadPieceIdx"
                      ELSE IF Complete(p) THEN "FileAlreadyComplete"
                      ELSE "BadBounds">>
    /\ UNCHANGED <<slices, file, finished>>

\* Faulty: no comparison.
HashIgnored(p) == TRUE

\* Faulty: the piece is read back before the last block is in the file.
HashStale(p) == HashMatches(file, p)

\* computed_hash == piece.hash
HashRight(p) == HashMatches(file', p)

\* write_piece past its early returns: the block goes to the file, then into
\* the interval list, and a complete piece is read back and hashed.  After a
\* mismatch the interval list stays complete.
WriteBlock(p, b, len, good) ==
    /\ Accepts(p, b, len)
    /\ file' = Written(p, b, len, good)
    /\ slices' = [slices EXCEPT ![p] = InsertSlice(@, b, len)]
    /\ \/ /\ ~Complete(p)'
          /\ answer' = <<p, "Pending">>
          /\ UNCHANGED finished
       \/ /\ Complete(p)'
          /\ HashRight(p)
          /\ answer' = <<p, "Finished">>
          /\ finished' = finished \cup {p}
       \/ /\ Complete(p)'
          /\ ~HashRight(p)
          /\ answer' = <<p, "PieceHashMismatch">>
          /\ UNCHANGED finished

\* Faulty: any piece may be read.
ReadUnfinished(p, b, len) ==
    /\ p \in Pieces
    /\ InBounds(p, b, len)
    /\ answer' = <<p, Reading(p, b, len)>>
    /\ UNCHANGED <<slices, file, finished>>

\* read_piece: bounds first, then the piece must be complete.
ReadPiece(p, b, len) ==
    /\ answer' = <<p, IF p \notin Pieces THEN "BadPieceIdx"
                      ELSE IF ~InBounds(p, b, len) THEN "BadBounds"
                      ELSE IF ~Complete(p) THEN "FilePieceNotFinished"
                      ELSE Reading(p, b, len)>>
    /\ UNCHANGED <<slices, file, finished>>

\* Indices and begins come from the remote peer: one piece too many and one
\* block too long stand for the bad ones.
Indexes == 0 .. TotalPieces

IONext ==
    \E p \in Indexes, b \in 0 .. PieceLength - 1, len \in {BlockSize, BlockSize + 1} :
        /\ b % BlockSize = 0
        /\ \/ WriteRefused(p, b, len)
           \/ \E good \in {TRUE, p \notin Corrupt} : WriteBlock(p, b, len, good)
           \/ ReadPiece(p, b, len)

IOSpec == IOInit /\ [][IONext]_ioVars

-----------------------------------------------------------------------------
\* The interval lists, the file and the answers have their types.
IOTypeOK ==
    /\ \A p \in Pieces : \A i \in DOMAIN slices[p] :
            slices[p][i] \in Nat \X Nat /\ slices[p][i][2] <= piece_len(p)
    /\ DOMAIN file = 0 .. Length - 1
    /\ \A i \in DOMAIN file : file[i] \in {Zero, Junk} \cup DOMAIN file
    /\ finished \subseteq Pieces
    /\ answer \in (0 .. TotalPieces) \X Results

\* A piece write_piece answered Ok(true) for stays in the file as the torrent
\* has it, at the offset the torrent gives it, whatever is written later.
FinishedIntact ==
    \A p \in finished : \A o \in Offsets(p) : file[TorrentByte(p, o)] = TorrentByte(p, o)

\* read_piece hands out torrent data only, unless wrong bytes of that very piece
\* were sent: what it lets through is complete and not overwritten by others.
ReadsAreTorrentData == answer[2] = "WrongData" => answer[1] \in Corrupt

\* write_piece never blames a piece ("Piece has a mismatched hash") all of whose
\* blocks were right, in whatever order, how often, and with whatever wrong
\* blocks of other pieces they came.
HonestNeverMismatched == answer[2] = "PieceHashMismatch" => answer[1] \in Corrupt

\* Ok(true), which marks the piece finished in the tracker and announces it,
\* is answered once per piece.
FinishedOnce ==
    [][\A p \in finished : answer' # <<p, "Finished">>]_ioVars

Abstract == INSTANCE Store WITH held <- finished, reply <- answer, Suspect <- Corrupt

\* The file store keeps the promises of Store.
StoreRefined == Abstract!StoreSpec
=============================================================================

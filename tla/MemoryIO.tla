------------------------------ MODULE MemoryIO ------------------------------
(***************************************************************************)
(* MemoryTorrentIO (peer/io/mod.rs), the other implementation of the trait *)
(* TorrentIO, given the same calls as the file store so that the two can   *)
(* be compared.                                                            *)
(***************************************************************************)
EXTENDS TorrentIO

VARIABLES
    memory,     \* memory[p].memory
    mslices,    \* memory[p].slices
    manswer     \* the latest answer; "Panic" if the io task is gone

memoryVars == <<memory, mslices, manswer>>

bothVars == <<ioVars, memoryVars>>

MemoryInit ==
    /\ memory = [p \in Pieces |-> [o \in Offsets(p) |-> Zero]]
    /\ mslices = [p \in Pieces |-> <<>>]
    /\ manswer = <<0, "none">>

\* Faulty: `begin` is left out.
CopiedToFront(p, b, len, good) ==
    [o \in Offsets(p) |-> IF o >= len THEN memory[p][o]
                          ELSE IF good THEN TorrentByte(p, b + o) ELSE Junk]

\* memory[piece_idx] = ele, for each byte of the block.
Copied(p, b, len, good) ==
    [o \in Offsets(p) |-> IF o \notin b .. b + len - 1 THEN memory[p][o]
                          ELSE IF good THEN TorrentByte(p, o) ELSE Junk]

\* write_piece: bounds, then the interval list, then the bytes.  A complete piece
\* is written to like any other, and nothing is hashed.
MemoryWrite(p, b, len, good) ==
    \/ /\ p \notin Pieces
       /\ manswer' = <<p, "BadPieceIdx">>
       /\ UNCHANGED <<memory, mslices>>
    \/ /\ p \in Pieces /\ ~InBounds(p, b, len)
       /\ manswer' = <<p, "BadBounds">>
       /\ UNCHANGED <<memory, mslices>>
    \/ /\ p \in Pieces /\ InBounds(p, b, len)
       /\ mslices' = [mslices EXCEPT ![p] = InsertSlice(@, b, len)]
       /\ memory' = [memory EXCEPT ![p] = Copied(p, b, len, good)]
       /\ manswer' = <<p, IF IsComplete(mslices'[p], piece_len(p)) THEN "Finished" ELSE "Pending">>

\* read_piece: whatever is there, complete or not; a range beyond the piece panics.
MemoryRead(p, b, len) ==
    /\ manswer' = <<p, IF p \notin Pieces THEN "BadPieceIdx"
                       ELSE IF ~InBounds(p, b, len) THEN "Panic"
                       ELSE IF \A o \in b .. b + len - 1 : memory[p][o] = TorrentByte(p, o)
                       THEN "Data" ELSE "WrongData">>
    /\ UNCHANGED <<memory, mslices>>

Gone == manswer[2] = "Panic"

\* One call, to both, for as long as the io task of the memory store lives.
BothNext ==
    \E p \in Indexes, b \in 0 .. PieceLength - 1, len \in {BlockSize, BlockSize + 1} :
        /\ b % BlockSize = 0
        /\ \/ \E good \in {TRUE, p \notin Corrupt} :
                /\ WriteRefused(p, b, len) \/ WriteBlock(p, b, len, good)
                /\ IF Gone THEN UNCHANGED memoryVars ELSE MemoryWrite(p, b, len, good)
           \/ /\ ReadPiece(p, b, len)
              /\ IF Gone THEN UNCHANGED memoryVars ELSE MemoryRead(p, b, len)

BothInit == IOInit /\ MemoryInit

BothSpec == BothInit /\ [][BothNext]_bothVars

-----------------------------------------------------------------------------
\* As long as a piece is not complete the two stores know the same of it, byte for
\* byte and interval for interval.
StoresAgree ==
    \A p \in Pieces :
        ~Gone /\ ~Complete(p) =>
            /\ mslices[p] = slices[p]
            /\ \A o \in Offsets(p) : memory[p][o] = file[start_idx(p) + o]
=============================================================================

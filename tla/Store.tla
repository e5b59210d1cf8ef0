------------------------------- MODULE Store -------------------------------
(***************************************************************************)
(* What the processor relies on in a store (trait TorrentIO of             *)
(* peer/io/mod.rs): each piece is missing until write_piece has answered   *)
(* Ok(true) for it, once, and is held from then on; only what is held is   *)
(* handed out or refused as finished.  Of a piece of which wrong bytes     *)
(* were sent less is promised: it may end in a mismatch, and then neither  *)
(* be taken again nor be withheld.                                         *)
(***************************************************************************)
EXTENDS Naturals

CONSTANTS
    Indexes,    \* the piece numbers a caller may use
    Pieces,     \* the pieces of the torrent
    Suspect     \* those of which wrong bytes may be sent

VARIABLES
    held,       \* the pieces announced as complete
    reply       \* the latest answer: <<piece, result>>

storeVars == <<held, reply>>

StoreInit == held = {} /\ reply = <<0, "none">>

\* Ok(true)
Finishes(p) ==
    /\ p \in Pieces \ held
    /\ held' = held \cup {p}
    /\ reply' = <<p, "Finished">>

\* Ok(false): the piece is not held yet.
Takes(p) ==
    /\ p \in Pieces \ held
    /\ reply' = <<p, "Pending">>
    /\ UNCHANGED held

\* A block of which nothing is kept, or one that makes the hash wrong.
Refuses(p, why) ==
    /\ \/ why \in {"BadPieceIdx", "BadBounds"}
       \/ why = "FilePieceNotFinished" /\ p \in Pieces \ held
       \/ why = "FileAlreadyComplete" /\ p \in held \cup Suspect
       \/ why = "PieceHashMismatch" /\ p \in Suspect \ held
    /\ reply' = <<p, why>>
    /\ UNCHANGED held

\* Data of the torrent, if the piece is held.
Serves(p, what) ==
    /\ \/ what = "Data" /\ p \in held \cup Suspect
       \/ what = "WrongData" /\ p \in Suspect \ held
    /\ reply' = <<p, what>>
    /\ UNCHANGED held

StoreNext ==
    \E p \in Indexes :
        \/ Finishes(p)
        \/ Takes(p)
        \/ \E why \in {"BadPieceIdx", "BadBounds", "FilePieceNotFinished", "FileAlreadyComplete",
                       "PieceHashMismatch"} : Refuses(p, why)
        \/ \E what \in {"Data", "WrongData"} : Serves(p, what)

StoreSpec == StoreInit /\ [][StoreNext]_storeVars
=============================================================================

------------------------------ MODULE Delivery ------------------------------
(***************************************************************************)
(* What downloading promises of each piece: it is stored whole once and    *)
(* for all, it counts as completed only after that, and a peer hears of it *)
(* only after that: in the bitfield it is greeted with, or in a Have.      *)
(* Nothing is ever taken back, whatever becomes of requests, connections   *)
(* and handlers.                                                           *)
(***************************************************************************)
CONSTANTS
    Pieces,         \* the pieces of the torrent
    Peers

VARIABLES
    stored,         \* pieces whose last block is written
    completed,      \* pieces_completed of the tracker
    told            \* pieces each peer knows we have

deliveryVars == <<stored, completed, told>>

DeliveryInit == stored = {} /\ completed = {} /\ told = [p \in Peers |-> {}]

\* io.write answers that the piece is complete: once for each.
Stores(i) ==
    /\ i \notin stored
    /\ stored' = stored \cup {i}
    /\ UNCHANGED <<completed, told>>

\* set_piece_finished
Completes(i) ==
    /\ i \in stored
    /\ completed' = completed \cup {i}
    /\ UNCHANGED <<stored, told>>

\* announce_piece, to those with a connection.
Announces(i, ps) ==
    /\ i \in completed
    /\ told' = [p \in Peers |-> IF p \in ps THEN told[p] \cup {i} ELSE told[p]]
    /\ UNCHANGED <<stored, completed>>

\* init_connection: the bitfield, before the peer is told anything else.
Greets(p) ==
    /\ told[p] = {}
    /\ told' = [told EXCEPT ![p] = completed]
    /\ UNCHANGED <<stored, completed>>

DeliveryNext ==
    \/ \E i \in Pieces : Stores(i) \/ Completes(i) \/ \E ps \in SUBSET Peers : Announces(i, ps)
    \/ \E p \in Peers : Greets(p)

DeliverySpec == DeliveryInit /\ [][DeliveryNext]_deliveryVars
=============================================================================

----------------------------- MODULE MCDownload -----------------------------
(* Download with two peers. *)
EXTENDS Download

CONSTANTS p1, p2

AllHold == [p \in Peers |-> Pieces]

\* p1 lacks the last piece.
PartlyHold == [p \in Peers |-> IF p = p1 THEN Pieces \ {TotalPieces - 1} ELSE Pieces]

\* Of the last piece.
LastBlock == {k \in BlockKeys : k[1] = TotalPieces - 1 /\ \A l \in BlocksOf(k[1]) : l[2] <= k[2]}

Sym == {[p \in {p1, p2} |-> IF swap THEN (IF p = p1 THEN p2 ELSE p1) ELSE p] : swap \in BOOLEAN}
=============================================================================

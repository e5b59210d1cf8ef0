--------------------------- MODULE MCPieceTracker ---------------------------
(* PieceTracker on small torrents. *)
EXTENDS PieceTracker
=============================================================================

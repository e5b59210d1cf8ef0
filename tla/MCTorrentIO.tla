----------------------------- MODULE MCTorrentIO -----------------------------
(* Both stores on small files. *)
EXTENDS MemoryIO
=============================================================================

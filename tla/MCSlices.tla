------------------------------ MODULE MCSlices ------------------------------
(* Slices on a small piece. *)
EXTENDS Slices

\* Every interval of the piece.
AllRanges ==
    {b \in (0 .. ExpectedSize - 1) \X (1 .. ExpectedSize) : b[1] + b[2] <= ExpectedSize}
=============================================================================

------------------------------- MODULE Slices -------------------------------
(***************************************************************************)
(* One Slices value (peer/io/mod.rs) receiving the blocks of a piece.      *)
(* `covered` remembers every position received so far: what the interval   *)
(* list is meant to represent.                                             *)
(***************************************************************************)
EXTENDS SliceOps

CONSTANTS
    ExpectedSize,   \* expected_size
    Blocks          \* the <<begin, len>> pairs that may arrive

ASSUME SlicesAssumption ==
    /\ ExpectedSize \in Nat \ {0}
    /\ \A b \in Blocks : b \in Nat \X Nat /\ b[2] # 0 /\ b[1] + b[2] <= ExpectedSize

VARIABLES slices, covered

slicesVars == <<slices, covered>>

Positions(b) == b[1] .. b[1] + b[2] - 1

SlicesInit == slices = <<>> /\ covered = {}

\* No position arrives twice: of one that does see ArrivedIsComplete in Download.
Receive(b) ==
    /\ Positions(b) \cap covered = {}
    /\ slices' = InsertSlice(slices, b[1], b[2])
    /\ covered' = covered \cup Positions(b)

SlicesNext == \E b \in Blocks : Receive(b)

SlicesSpec == SlicesInit /\ [][SlicesNext]_slicesVars

-----------------------------------------------------------------------------
\* The list is ordered and its intervals neither overlap nor touch, so that
\* binary_search_by_key and the two neighbour checks of Slices::insert see all
\* there is to see.
Separated ==
    /\ \A i \in DOMAIN slices : slices[i][1] < slices[i][2]
    /\ \A i, j \in DOMAIN slices : i < j => slices[i][2] < slices[j][1]

\* The list stands for exactly the positions received.
CoversReceived == Cover(slices) = covered

\* insert returns true if and only if the entire piece has been received
\* ("will return true when the entire piece is complete").
CompleteWhenCovered ==
    IsComplete(slices, ExpectedSize) <=> covered = 0 .. ExpectedSize - 1
=============================================================================

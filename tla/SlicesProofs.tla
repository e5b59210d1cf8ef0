---------------------------- MODULE SlicesProofs ----------------------------
(***************************************************************************)
(* The interval list of a piece, for every piece size and every set of     *)
(* blocks that arrive once each.                                           *)
(***************************************************************************)
EXTENDS Slices, SliceOpsProofs

\* The list is exact: what Slices::insert needs of it and leaves behind.
SlicesInv ==
    /\ Apart(slices)
    /\ CoversReceived
    /\ covered \subseteq 0 .. ExpectedSize - 1

\* The invariant holds initially, for a new piece has an empty list.
LEMMA SlicesInitInv == SlicesInit => SlicesInv
<1> SUFFICES ASSUME SlicesInit PROVE SlicesInv
  OBVIOUS
<1>1. slices = <<>> /\ covered = {}
  BY DEF SlicesInit
<1>2. slices \in Seq(Nat \X Nat) /\ DOMAIN slices = {}
  BY <1>1
<1>3. Apart(slices) /\ Cover(slices) = {}
  BY <1>2 DEF Apart, Ordered, Cover
<1>4. QED
  BY <1>1, <1>3 DEF SlicesInv, CoversReceived

\* Every block that arrives keeps it.
LEMMA ReceiveInv == SlicesInv /\ [SlicesNext]_slicesVars => SlicesInv'
<1> SUFFICES ASSUME SlicesInv, [SlicesNext]_slicesVars PROVE SlicesInv'
  OBVIOUS
<1>1. CASE UNCHANGED slicesVars
  BY <1>1 DEF SlicesInv, CoversReceived, slicesVars, Apart, Ordered, Cover
<1>2. CASE SlicesNext
  <2>1. PICK b \in Blocks : Receive(b)
    BY <1>2 DEF SlicesNext
  <2> DEFINE first == b[1]
             len == b[2]
  <2>2. first \in Nat /\ len \in Nat \ {0} /\ first + len <= ExpectedSize /\ ExpectedSize \in Nat
    BY SlicesAssumption
  <2>3. /\ slices' = InsertSlice(slices, first, len)
        /\ covered' = covered \cup (first .. first + len - 1)
        /\ (first .. first + len - 1) \cap covered = {}
    BY <2>1 DEF Receive, Positions
  <2> HIDE DEF first, len
  <2>4. PICK list : list = slices'
    OBVIOUS
  <2>5. Apart(list) /\ Cover(list) = covered'
    <3>1. Cover(slices) = covered
      BY DEF SlicesInv, CoversReceived
    <3>2. Exact(slices, list, first, first + len)
      BY <2>2, <2>3, <2>4, <3>1, NewBlock DEF SlicesInv
    <3> DEFINE block == first .. first + len - 1
    <3>3. Apart(list) /\ Cover(list) = Cover(slices) \cup block
      <4>1. (first + len) - 1 = first + len - 1
        BY <2>2
      <4>2. QED
        BY <3>2, <4>1, Zenon DEF Exact
    <3>4. covered' = covered \cup block
      BY <2>3
    <3> HIDE DEF block
    <3>5. QED
      BY <3>1, <3>3, <3>4, Zenon
  <2>6. covered' \subseteq 0 .. ExpectedSize - 1
    BY <2>2, <2>3 DEF SlicesInv
  <2>7. QED
    BY <2>4, <2>5, <2>6 DEF SlicesInv, CoversReceived
<1>3. QED
  BY <1>1, <1>2

\* So it always holds.
LEMMA SlicesInvariant == SlicesSpec => []SlicesInv
<1>1. QED
  BY SlicesInitInv, ReceiveInv, PTL DEF SlicesSpec

\* The intervals never overlap or touch, however a piece is cut into blocks and
\* in whatever order they arrive: Slices::insert may look at two neighbours only.
THEOREM ListSeparated == SlicesSpec => []Separated
<1>1. SlicesInv => Separated
  BY DEF SlicesInv, Apart, Ordered, Separated
<1>2. QED
  BY <1>1, SlicesInvariant, PTL

\* The list stands for exactly the positions received.
THEOREM ListExact == SlicesSpec => []CoversReceived
<1>1. SlicesInv => CoversReceived
  BY DEF SlicesInv
<1>2. QED
  BY <1>1, SlicesInvariant, PTL

\* Slices::insert answers true if and only if the whole piece was received.
THEOREM ListCompleteWhenCovered == SlicesSpec => []CompleteWhenCovered
<1>1. SlicesInv => CompleteWhenCovered
  BY SlicesAssumption, WholePiece DEF SlicesInv, CoversReceived, CompleteWhenCovered
<1>2. QED
  BY <1>1, SlicesInvariant, PTL
=============================================================================

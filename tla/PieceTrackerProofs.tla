------------------------- MODULE PieceTrackerProofs -------------------------
(***************************************************************************)
(* The safety properties of PieceTracker for every torrent, every limit    *)
(* and every timeout.                                                      *)
(***************************************************************************)
EXTENDS PieceTracker, FiniteSetTheorems, SequenceTheorems, TLAPS

-----------------------------------------------------------------------------
(* Facts about the layout and the operators.                               *)

\* A torrent has finitely many blocks.
LEMMA BlockKeysFinite == IsFiniteSet(BlockKeys)
<1>1. IsFiniteSet(Pieces)
  BY FS_Interval, LayoutAssumption DEF Pieces
<1>2. IsFiniteSet(0 .. PieceLength - 1)
  BY FS_Interval, LayoutAssumption
<1>3. IsFiniteSet(Pieces \X (0 .. PieceLength - 1))
  BY <1>1, <1>2, FS_Product
<1> QED
  BY <1>3, FS_Subset DEF BlockKeys

\* generate_assignments visits blocks in a strict total order.
LEMMA BeforeIsTotalOrder ==
  /\ \A k \in BlockKeys : ~Before(k, k)
  /\ \A k, l \in BlockKeys : k # l => Before(k, l) \/ Before(l, k)
  /\ \A k, l, m \in BlockKeys : Before(k, l) /\ Before(l, m) => Before(k, m)
<1>1. BlockKeys \subseteq Nat \X Nat
  BY LayoutAssumption DEF BlockKeys, Pieces
<1> QED
  BY <1>1 DEF Before

\* assign_piece stops at the capacity: the blocks with fewer than Capacity
\* predecessors are at most Capacity many, because the number of
\* predecessors tells them apart.
LEMMA FirstBlocksBound ==
  ASSUME NEW blocks \in SUBSET BlockKeys, Capacity \in Nat
  PROVE  /\ IsFiniteSet(FirstBlocks(blocks))
         /\ Cardinality(FirstBlocks(blocks)) <= Capacity
<1> DEFINE preds(k) == {l \in blocks : Before(l, k)}
           rank == [k \in FirstBlocks(blocks) |-> Cardinality(preds(k))]
<1>1. ASSUME NEW k \in blocks
      PROVE  IsFiniteSet(preds(k)) /\ Cardinality(preds(k)) \in Nat
  BY BlockKeysFinite, FS_Subset, FS_CardinalityType
<1>2. rank \in [FirstBlocks(blocks) -> 0 .. Capacity - 1]
  <2> SUFFICES ASSUME NEW k \in FirstBlocks(blocks)
               PROVE  Cardinality(preds(k)) \in 0 .. Capacity - 1
    OBVIOUS
  <2>1. k \in blocks /\ Cardinality(preds(k)) < Capacity
    BY DEF FirstBlocks
  <2> QED
    BY <2>1, <1>1
<1>3. ASSUME NEW k \in FirstBlocks(blocks), NEW l \in FirstBlocks(blocks), Before(k, l)
      PROVE  rank[k] # rank[l]
  <2>1. k \in blocks /\ l \in blocks /\ k \in BlockKeys /\ l \in BlockKeys
    BY DEF FirstBlocks
  <2>2. preds(k) \subseteq preds(l) /\ k \in preds(l) /\ k \notin preds(k)
    BY <1>3, <2>1, BeforeIsTotalOrder
  <2>3. Cardinality(preds(k)) # Cardinality(preds(l))
    BY <1>1, <2>1, <2>2, FS_Subset
  <2> QED
    BY <2>3
<1>4. rank \in Injection(FirstBlocks(blocks), 0 .. Capacity - 1)
  <2> SUFFICES ASSUME NEW k \in FirstBlocks(blocks), NEW l \in FirstBlocks(blocks),
                      k # l
               PROVE  rank[k] # rank[l]
    BY <1>2 DEF Injection, IsInjective
  <2>1. Before(k, l) \/ Before(l, k)
    BY BeforeIsTotalOrder DEF FirstBlocks
  <2> QED
    BY <2>1, <1>3
<1>5. IsFiniteSet(0 .. Capacity - 1) /\ Cardinality(0 .. Capacity - 1) = Capacity
  BY FS_Interval
<1> QED
  BY <1>4, <1>5, FS_Injection

-----------------------------------------------------------------------------
(* The inductive invariant.                                                *)

IInv ==
    /\ TypeOK
    /\ NoPieceLost
    /\ BlocksBelongToStarted
    /\ WithinCapacity
    /\ Watched
    /\ QueueOrdered

\* A fresh tracker satisfies the invariant.
LEMMA InitIInv == TrackerInit => IInv
<1> SUFFICES ASSUME TrackerInit PROVE IInv
  OBVIOUS
<1>1. TypeOK
  BY DEF TrackerInit, TypeOK
<1>2. NoPieceLost /\ BlocksBelongToStarted
  BY DEF TrackerInit, NoPieceLost, get_incomplete_pieces, BlocksBelongToStarted, PiecesOf
<1>3. WithinCapacity
  BY FS_EmptySet, TrackerAssumption DEF TrackerInit, WithinCapacity
<1>4. Watched /\ QueueOrdered
  BY DEF TrackerInit, Watched, QueueOrdered
<1> QED
  BY <1>1, <1>2, <1>3, <1>4 DEF IInv

\* What is in flight is finite, and there is room for what is not.
LEMMA CapacityIsNat ==
  ASSUME TypeOK, WithinCapacity
  PROVE  /\ IsFiniteSet(downloading)
         /\ Cardinality(downloading) \in Nat
         /\ Capacity \in Nat
<1>1. IsFiniteSet(downloading) /\ Cardinality(downloading) \in Nat
  BY BlockKeysFinite, FS_Subset, FS_CardinalityType DEF TypeOK
<1> QED
  BY <1>1, TrackerAssumption DEF WithinCapacity, Capacity

\* Dropping requests keeps the number in flight within the limit.
LEMMA FewerInFlight ==
  ASSUME TypeOK, WithinCapacity, downloading' \subseteq downloading
  PROVE  WithinCapacity'
<1>1. IsFiniteSet(downloading) /\ Cardinality(downloading) \in Nat
  BY CapacityIsNat
<1>2. IsFiniteSet(downloading') /\ Cardinality(downloading') <= Cardinality(downloading)
  BY <1>1, FS_Subset
<1>3. Cardinality(downloading') \in Nat
  BY <1>2, FS_CardinalityType
<1> QED
  BY <1>1, <1>2, <1>3, TrackerAssumption DEF WithinCapacity

\* compute_requests_for_download keeps the invariant.
LEMMA ComputeRequestsIInv ==
  ASSUME IInv,
         NEW served \in SUBSET get_incomplete_pieces,
         NEW undelivered,
         ComputeRequests(served, undelivered)
  PROVE  IInv'
<1> DEFINE batch == Assigned(served)
           new == [age |-> 0, keys |-> batch]
<1>0. TypeOK /\ NoPieceLost /\ BlocksBelongToStarted /\ WithinCapacity /\ Watched /\ QueueOrdered
  BY DEF IInv
<1>1. /\ pieces_not_started' = pieces_not_started \ PiecesOf(batch)
      /\ started' = started \cup PiecesOf(batch)
      /\ downloading' = downloading \cup (batch \ undelivered)
      /\ expirations' = IF batch = {} THEN expirations ELSE Append(expirations, new)
      /\ UNCHANGED <<done, pieces_completed>>
  BY DEF ComputeRequests, insert
<1>2. /\ batch \subseteq Unassigned(served)
      /\ batch \subseteq BlockKeys
      /\ batch \cap (downloading \cup done) = {}
      /\ PiecesOf(batch) \subseteq get_incomplete_pieces
  BY DEF Assigned, FirstBlocks, Unassigned, contains_inprogress, PiecesOf
<1>3. IsFiniteSet(batch) /\ Cardinality(batch) \in Nat /\ Cardinality(batch) <= Capacity
  <2>1. Capacity \in Nat
    BY <1>0, CapacityIsNat
  <2>2. Unassigned(served) \in SUBSET BlockKeys
    BY DEF Unassigned
  <2>3. IsFiniteSet(FirstBlocks(Unassigned(served))) /\ Cardinality(FirstBlocks(Unassigned(served))) <= Capacity
    BY <2>1, <2>2, FirstBlocksBound
  <2> QED
    BY <2>3, FS_CardinalityType DEF Assigned
<1>4. new \in Batch
  BY <1>2, TrackerAssumption DEF Batch
<1>5. expirations \in Seq(Batch)
  BY <1>0 DEF TypeOK
<1>6. /\ expirations' \in Seq(Batch)
      /\ batch # {} =>
           /\ Len(expirations') = Len(expirations) + 1
           /\ \A i \in 1 .. Len(expirations) : expirations'[i] = expirations[i]
           /\ expirations'[Len(expirations) + 1] = new
      /\ batch = {} => expirations' = expirations
  BY <1>1, <1>4, <1>5, AppendProperties
<1>7. Len(expirations) \in Nat
  BY <1>5
<1>8. PiecesOf(batch) \subseteq Pieces
  BY <1>2 DEF PiecesOf, BlockKeys
<1>9. TypeOK'
  BY <1>0, <1>1, <1>2, <1>6, <1>8 DEF TypeOK
<1>10. NoPieceLost'
  BY <1>0, <1>1, <1>8 DEF NoPieceLost, get_incomplete_pieces, TypeOK
<1>11. BlocksBelongToStarted'
  BY <1>0, <1>1, <1>2 DEF BlocksBelongToStarted, PiecesOf
<1>12. WithinCapacity'
  <2>1. IsFiniteSet(downloading) /\ Cardinality(downloading) \in Nat
    BY <1>0, CapacityIsNat
  <2>2. /\ IsFiniteSet(batch \ undelivered)
        /\ Cardinality(batch \ undelivered) \in Nat
        /\ Cardinality(batch \ undelivered) <= Cardinality(batch)
    BY <1>3, FS_Subset, FS_CardinalityType
  <2>3. downloading \cap (batch \ undelivered) = {}
    BY <1>2
  <2>4. Cardinality(downloading') = Cardinality(downloading) + Cardinality(batch \ undelivered)
    <3>1. Cardinality(downloading \cup (batch \ undelivered))
            = Cardinality(downloading) + Cardinality(batch \ undelivered)
                - Cardinality(downloading \cap (batch \ undelivered))
      BY <2>1, <2>2, FS_Union
    <3>2. Cardinality(downloading \cap (batch \ undelivered)) = 0
      BY <2>3, FS_EmptySet
    <3>3. downloading' = downloading \cup (batch \ undelivered)
      BY <1>1
    <3> HIDE DEF batch
    <3> QED
      BY <3>1, <3>2, <3>3, <2>1, <2>2
  <2> QED
    BY <2>1, <2>2, <2>4, <1>3, TrackerAssumption DEF WithinCapacity, Capacity
<1>13. Watched'
  <2> SUFFICES ASSUME NEW k \in downloading'
               PROVE  \E i \in 1 .. Len(expirations') : k \in expirations'[i].keys
    BY DEF Watched
  <2>1. CASE k \in batch
    <3>1. batch # {}
      BY <2>1
    <3>2. Len(expirations) + 1 \in 1 .. Len(expirations')
      BY <3>1, <1>6, <1>7
    <3>3. k \in expirations'[Len(expirations) + 1].keys
      BY <2>1, <3>1, <1>6
    <3> QED
      BY <3>2, <3>3
  <2>2. CASE k \notin batch
    <3>1. k \in downloading
      BY <2>2, <1>1
    <3>2. PICK i \in 1 .. Len(expirations) : k \in expirations[i].keys
      BY <3>1, <1>0 DEF Watched
    <3>3. i \in 1 .. Len(expirations') /\ expirations'[i] = expirations[i]
      BY <1>6, <1>7
    <3> QED
      BY <3>2, <3>3
  <2> QED
    BY <2>1, <2>2
<1>14. QueueOrdered'
  <2>1. CASE batch = {}
    BY <2>1, <1>0, <1>6 DEF QueueOrdered
  <2>2. CASE batch # {}
    <3> SUFFICES ASSUME NEW i \in 1 .. Len(expirations'), NEW j \in 1 .. Len(expirations'),
                        i <= j
                 PROVE  expirations'[i].age >= expirations'[j].age
      BY DEF QueueOrdered
    <3>1. CASE j \in 1 .. Len(expirations)
      <4>1. i \in 1 .. Len(expirations)
        BY <3>1, <1>7
      <4>2. expirations[i].age >= expirations[j].age
        BY <3>1, <4>1, <1>0 DEF QueueOrdered
      <4> QED
        BY <4>1, <4>2, <3>1, <2>2, <1>6
    <3>2. CASE j = Len(expirations) + 1
      <4>1. expirations'[j].age = 0
        BY <3>2, <2>2, <1>6
      <4>2. expirations'[i] \in Batch
        BY <1>6
      <4>3. expirations'[i].age \in Nat
        BY <4>2, TrackerAssumption DEF Batch
      <4> QED
        BY <4>1, <4>3
    <3> QED
      BY <3>1, <3>2, <2>2, <1>6, <1>7
  <2> QED
    BY <2>1, <2>2
<1> QED
  BY <1>9, <1>10, <1>11, <1>12, <1>13, <1>14 DEF IInv

\* set_request_finished keeps the invariant.
LEMMA SetRequestFinishedIInv ==
  ASSUME IInv, NEW k \in BlockKeys, SetRequestFinished(k)
  PROVE  IInv'
<1>0. TypeOK /\ NoPieceLost /\ BlocksBelongToStarted /\ WithinCapacity /\ Watched /\ QueueOrdered
  BY DEF IInv
<1>1. /\ k \in downloading
      /\ downloading' = downloading \ {k}
      /\ done' = done \cup {k}
      /\ UNCHANGED <<pieces_not_started, started, expirations, pieces_completed>>
  BY DEF SetRequestFinished
<1>2. TypeOK'
  BY <1>0, <1>1 DEF TypeOK
<1>3. NoPieceLost' /\ QueueOrdered' /\ Watched'
  BY <1>0, <1>1 DEF NoPieceLost, get_incomplete_pieces, QueueOrdered, Watched
<1>4. BlocksBelongToStarted'
  BY <1>0, <1>1 DEF BlocksBelongToStarted, PiecesOf
<1>5. WithinCapacity'
  BY <1>0, <1>1, FewerInFlight
<1> QED
  BY <1>2, <1>3, <1>4, <1>5 DEF IInv

\* set_piece_finished keeps the invariant.
LEMMA SetPieceFinishedIInv ==
  ASSUME IInv, NEW p \in Pieces, SetPieceFinished(p)
  PROVE  IInv'
<1>0. TypeOK /\ NoPieceLost /\ BlocksBelongToStarted /\ WithinCapacity /\ Watched /\ QueueOrdered
  BY DEF IInv
<1>1. /\ started' = started \ {p}
      /\ downloading' = {k \in downloading : k[1] # p}
      /\ done' = {k \in done : k[1] # p}
      /\ pieces_completed' = pieces_completed \cup {p}
      /\ UNCHANGED <<pieces_not_started, expirations>>
  BY DEF SetPieceFinished, remove_piece
<1>2. TypeOK'
  BY <1>0, <1>1 DEF TypeOK
<1>3. NoPieceLost' /\ QueueOrdered' /\ Watched'
  BY <1>0, <1>1 DEF NoPieceLost, get_incomplete_pieces, QueueOrdered, Watched
<1>4. BlocksBelongToStarted'
  BY <1>0, <1>1 DEF BlocksBelongToStarted, PiecesOf
<1>5. WithinCapacity'
  BY <1>0, <1>1, FewerInFlight
<1> QED
  BY <1>2, <1>3, <1>4, <1>5 DEF IInv

\* What is left of the queue after the expired prefix.
LEMMA QueueSuffix ==
  ASSUME expirations \in Seq(Batch), NEW n \in 0 .. Len(expirations)
  PROVE  LET rest == SubSeq(expirations, n + 1, Len(expirations)) IN
         /\ rest \in Seq(Batch)
         /\ Len(rest) = Len(expirations) - n
         /\ \A i \in 1 .. Len(rest) : rest[i] = expirations[n + i] /\ n + i \in 1 .. Len(expirations)
<1> DEFINE rest == SubSeq(expirations, n + 1, Len(expirations))
<1>1. Len(expirations) \in Nat /\ n \in Nat /\ n + 1 \in Int /\ Len(expirations) \in Int
  OBVIOUS
<1>2. \A i \in n + 1 .. Len(expirations) : expirations[i] \in Batch
  BY <1>1
<1>3. /\ rest \in Seq(Batch)
      /\ Len(rest) = IF n + 1 <= Len(expirations) THEN Len(expirations) - (n + 1) + 1 ELSE 0
      /\ \A i \in 1 .. Len(expirations) - (n + 1) + 1 : rest[i] = expirations[n + 1 + i - 1]
  BY <1>1, <1>2, SubSeqProperties
<1>4. Len(rest) = Len(expirations) - n
  BY <1>1, <1>3
<1>5. ASSUME NEW i \in 1 .. Len(rest)
      PROVE  rest[i] = expirations[n + i] /\ n + i \in 1 .. Len(expirations)
  <2>1. i \in 1 .. Len(expirations) - (n + 1) + 1 /\ n + 1 + i - 1 = n + i
    BY <1>1, <1>4
  <2> QED
    BY <1>1, <1>3, <2>1
<1> QED
  BY <1>3, <1>4, <1>5

\* remove_expired keeps the invariant.
LEMMA RemoveExpiredIInv ==
  ASSUME IInv, RemoveExpired
  PROVE  IInv'
<1>0. TypeOK /\ NoPieceLost /\ BlocksBelongToStarted /\ WithinCapacity /\ Watched /\ QueueOrdered
  BY DEF IInv
<1>1. PICK n \in 0 .. Len(expirations) :
        /\ downloading' = downloading \ ExpiredKeys(n)
        /\ expirations' = SubSeq(expirations, n + 1, Len(expirations))
        /\ UNCHANGED <<pieces_not_started, started, done, pieces_completed>>
  BY DEF RemoveExpired
<1>2. expirations \in Seq(Batch) /\ Len(expirations) \in Nat
  BY <1>0 DEF TypeOK
<1>3. /\ expirations' \in Seq(Batch)
      /\ Len(expirations') = Len(expirations) - n
      /\ \A i \in 1 .. Len(expirations') :
            expirations'[i] = expirations[n + i] /\ n + i \in 1 .. Len(expirations)
  BY <1>1, <1>2, QueueSuffix
<1>4. TypeOK'
  BY <1>0, <1>1, <1>3 DEF TypeOK
<1>5. NoPieceLost'
  BY <1>0, <1>1 DEF NoPieceLost, get_incomplete_pieces
<1>6. BlocksBelongToStarted'
  BY <1>0, <1>1 DEF BlocksBelongToStarted, PiecesOf
<1>7. WithinCapacity'
  BY <1>0, <1>1, FewerInFlight
<1>8. Watched'
  <2> SUFFICES ASSUME NEW k \in downloading'
               PROVE  \E i \in 1 .. Len(expirations') : k \in expirations'[i].keys
    BY DEF Watched
  <2>1. PICK i \in 1 .. Len(expirations) : k \in expirations[i].keys
    BY <1>0, <1>1 DEF Watched
  <2>2. i \notin 1 .. n
    BY <1>1, <2>1 DEF ExpiredKeys
  <2>3. i - n \in 1 .. Len(expirations') /\ n + (i - n) = i
    BY <1>2, <1>3, <2>2
  <2>4. expirations'[i - n] = expirations[i]
    BY <1>3, <2>3
  <2> QED
    BY <2>1, <2>3, <2>4
<1>9. QueueOrdered'
  <2> SUFFICES ASSUME NEW i \in 1 .. Len(expirations'), NEW j \in 1 .. Len(expirations'),
                      i <= j
               PROVE  expirations'[i].age >= expirations'[j].age
    BY DEF QueueOrdered
  <2>1. n + i \in 1 .. Len(expirations) /\ n + j \in 1 .. Len(expirations) /\ n + i <= n + j
    BY <1>2, <1>3
  <2>2. expirations[n + i].age >= expirations[n + j].age
    BY <1>0, <2>1 DEF QueueOrdered
  <2> QED
    BY <1>3, <2>2
<1> QED
  BY <1>4, <1>5, <1>6, <1>7, <1>8, <1>9 DEF IInv

\* The clock keeps the invariant.
LEMMA PassTimeIInv ==
  ASSUME IInv, PassTime
  PROVE  IInv'
<1>0. TypeOK /\ NoPieceLost /\ BlocksBelongToStarted /\ WithinCapacity /\ Watched /\ QueueOrdered
  BY DEF IInv
<1> DEFINE older(a) == IF a < RequestTimeout THEN a + 1 ELSE a
<1>1. UNCHANGED <<pieces_not_started, started, downloading, done, pieces_completed>>
  BY DEF PassTime
<1>2. expirations \in Seq(Batch) /\ Len(expirations) \in Nat
  BY <1>0 DEF TypeOK
<1>3. ASSUME NEW b \in Batch
      PROVE  /\ [b EXCEPT !.age = older(@)] \in Batch
             /\ [b EXCEPT !.age = older(@)].keys = b.keys
             /\ [b EXCEPT !.age = older(@)].age = older(b.age)
  BY TrackerAssumption DEF Batch
<1>4. expirations' = [i \in 1 .. Len(expirations) |-> [expirations[i] EXCEPT !.age = older(@)]]
  BY DEF PassTime
<1>5. \A i \in 1 .. Len(expirations) : expirations[i] \in Batch
  BY <1>2
<1>6. /\ expirations' \in Seq(Batch)
      /\ Len(expirations') = Len(expirations)
      /\ \A i \in 1 .. Len(expirations) :
            /\ expirations'[i].keys = expirations[i].keys
            /\ expirations'[i].age = older(expirations[i].age)
  <2>1. expirations' \in [1 .. Len(expirations) -> Batch]
    BY <1>3, <1>4, <1>5
  <2>2. expirations' \in Seq(Batch) /\ Len(expirations') = Len(expirations)
    BY <2>1, <1>2
  <2>3. \A i \in 1 .. Len(expirations) : expirations'[i] = [expirations[i] EXCEPT !.age = older(@)]
    BY <1>4
  <2> HIDE DEF older
  <2> QED
    BY <2>2, <2>3, <1>3, <1>5
<1>7. TypeOK'
  BY <1>0, <1>1, <1>6 DEF TypeOK
<1>8. NoPieceLost'
  BY <1>0, <1>1 DEF NoPieceLost, get_incomplete_pieces
<1>9. BlocksBelongToStarted'
  BY <1>0, <1>1 DEF BlocksBelongToStarted, PiecesOf
<1>10. WithinCapacity'
  BY <1>0, <1>1 DEF WithinCapacity
<1>11. Watched'
  BY <1>0, <1>1, <1>6 DEF Watched
<1>12. QueueOrdered'
  <2> SUFFICES ASSUME NEW i \in 1 .. Len(expirations), NEW j \in 1 .. Len(expirations),
                      i <= j
               PROVE  expirations'[i].age >= expirations'[j].age
    BY <1>6 DEF QueueOrdered
  <2>1. expirations[i].age >= expirations[j].age
    BY <1>0 DEF QueueOrdered
  <2>2. expirations[i].age \in Nat /\ expirations[j].age \in Nat
    BY <1>5, TrackerAssumption DEF Batch
  <2>3. older(expirations[i].age) >= older(expirations[j].age)
    BY <2>1, <2>2, TrackerAssumption
  <2> QED
    BY <2>3, <1>6
<1> QED
  BY <1>7, <1>8, <1>9, <1>10, <1>11, <1>12 DEF IInv

\* Every step keeps the invariant.
LEMMA NextIInv == IInv /\ [TrackerNext]_trackerVars => IInv'
<1> SUFFICES ASSUME IInv, [TrackerNext]_trackerVars PROVE IInv'
  OBVIOUS
<1>1. CASE \E served \in SUBSET get_incomplete_pieces :
             \E undelivered \in SUBSET Assigned(served) : ComputeRequests(served, undelivered)
  BY <1>1, ComputeRequestsIInv
<1>2. CASE \E k \in BlockKeys : SetRequestFinished(k)
  BY <1>2, SetRequestFinishedIInv
<1>3. CASE \E p \in Pieces : SetPieceFinished(p)
  BY <1>3, SetPieceFinishedIInv
<1>4. CASE RemoveExpired
  BY <1>4, RemoveExpiredIInv
<1>5. CASE PassTime
  BY <1>5, PassTimeIInv
<1>6. CASE UNCHANGED trackerVars
  BY <1>6 DEF trackerVars, IInv, TypeOK, NoPieceLost, get_incomplete_pieces,
              BlocksBelongToStarted, PiecesOf, WithinCapacity, Watched, QueueOrdered
<1> QED
  BY <1>1, <1>2, <1>3, <1>4, <1>5, <1>6 DEF TrackerNext

\* The inductive invariant holds in every reachable state.
THEOREM TrackerInvariant == TrackerSpec => []IInv
  BY InitIInv, NextIInv, PTL DEF TrackerSpec

-----------------------------------------------------------------------------
(* The properties.                                                         *)

\* The maps, the sets and the queue keep their types.
THEOREM TypeCorrect == TrackerSpec => []TypeOK
  BY TrackerInvariant, PTL DEF IInv

\* No piece is lost, whatever is withdrawn, timed out or finished.
THEOREM PiecesNeverLost == TrackerSpec => []NoPieceLost
  BY TrackerInvariant, PTL DEF IInv

\* The block maps hold blocks of started pieces only.
THEOREM BlocksNeverOrphaned == TrackerSpec => []BlocksBelongToStarted
  BY TrackerInvariant, PTL DEF IInv

\* assign_piece never subtracts more than max_outstanding_requests.
THEOREM CapacityNeverUnderflows == TrackerSpec => []WithinCapacity
  BY TrackerInvariant, PTL DEF IInv

\* Every request in flight can time out.
THEOREM RequestsAlwaysWatched == TrackerSpec => []Watched
  BY TrackerInvariant, PTL DEF IInv

\* The expiration queue stays ordered.
THEOREM QueueAlwaysOrdered == TrackerSpec => []QueueOrdered
  BY TrackerInvariant, PTL DEF IInv

\* One call of remove_expired leaves no overdue request: the entries it keeps
\* are all young because the queue is ordered, and every request in flight
\* is in one of them.
LEMMA RemoveExpiredLeavesYoung ==
  ASSUME IInv, RemoveExpired
  PROVE  \A k \in downloading' :
            \E i \in 1 .. Len(expirations') :
                k \in expirations'[i].keys /\ expirations'[i].age < RequestTimeout
<1>1. PICK n \in 0 .. Len(expirations) :
        /\ ExpiredPrefix(n)
        /\ expirations' = SubSeq(expirations, n + 1, Len(expirations))
  BY DEF RemoveExpired
<1>2. expirations \in Seq(Batch) /\ Len(expirations) \in Nat /\ QueueOrdered
  BY DEF IInv, TypeOK
<1>3. /\ Len(expirations') = Len(expirations) - n
      /\ \A i \in 1 .. Len(expirations') :
            expirations'[i] = expirations[n + i] /\ n + i \in 1 .. Len(expirations)
  BY <1>1, <1>2, QueueSuffix
<1>4. ASSUME NEW i \in 1 .. Len(expirations')
      PROVE  expirations'[i].age < RequestTimeout
  <2>1. n + 1 \in 1 .. Len(expirations) /\ n + i \in 1 .. Len(expirations) /\ n + 1 <= n + i
    BY <1>2, <1>3
  <2>2. expirations[n + 1].age < RequestTimeout
    BY <1>1, <1>2, <2>1 DEF ExpiredPrefix
  <2>3. expirations[n + 1].age >= expirations[n + i].age
    BY <1>2, <2>1 DEF QueueOrdered
  <2>4. expirations[n + 1].age \in Nat /\ expirations[n + i].age \in Nat
    <3>1. expirations[n + 1] \in Batch /\ expirations[n + i] \in Batch
      BY <1>2, <2>1
    <3> QED
      BY <3>1, TrackerAssumption DEF Batch
  <2>5. expirations[n + i].age < RequestTimeout
    BY <2>2, <2>3, <2>4, TrackerAssumption
  <2> QED
    BY <1>3, <2>5
<1>5. Watched'
  BY RemoveExpiredIInv DEF IInv
<1> QED
  BY <1>4, <1>5 DEF Watched

\* The early break of remove_expired never skips an overdue request.
THEOREM NothingLeftOverdue == TrackerSpec => NothingOverdue
<1>1. IInv /\ [TrackerNext]_trackerVars =>
        [RemoveExpired =>
           \A k \in downloading' :
             \E i \in 1 .. Len(expirations') :
               k \in expirations'[i].keys /\ expirations'[i].age < RequestTimeout]_trackerVars
  BY RemoveExpiredLeavesYoung
<1> QED
  BY <1>1, TrackerInvariant, PTL DEF TrackerSpec, NothingOverdue
=============================================================================

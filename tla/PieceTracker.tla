---------------------------- MODULE PieceTracker ----------------------------
(***************************************************************************)
(* PieceBlockTracker of peer/state/piece.rs: which blocks are asked for,   *)
(* which have arrived, and which requests have been out for too long.      *)
(*                                                                         *)
(* The two maps piece -> begin -> BlockDownload are kept as sets of block  *)
(* keys.  `started` holds the outer keys of the `downloading` map, which   *)
(* outlive its entries: a piece all of whose requests were withdrawn stays *)
(* started.  The expiration queue holds one entry per call of              *)
(* generate_assignments, with the keys it assigned; the Instant of an      *)
(* entry is kept as its age, which stops growing at the timeout.           *)
(*                                                                         *)
(* Every action is what the code does to the tracker under one acquisition *)
(* of the torrent lock.                                                    *)
(***************************************************************************)
EXTENDS TorrentLayout, Sequences

CONSTANTS
    MaxOutstanding,     \* max_outstanding_requests
    RequestTimeout,     \* request_timeout, in clock units
    MaxBatches          \* bound: entries of the expiration queue

ASSUME TrackerAssumption ==
    /\ MaxOutstanding \in Nat
    /\ RequestTimeout \in Nat \ {0}
    /\ MaxBatches \in Nat

VARIABLES
    pieces_not_started, started, downloading, done, expirations,
    pieces_completed

trackerVars == <<pieces_not_started, started, downloading, done,
                 expirations, pieces_completed>>

Batch == [age : 0 .. RequestTimeout, keys : SUBSET BlockKeys]

-----------------------------------------------------------------------------
(* Reading the tracker.                                                    *)

\* Started pieces, then the ones not started.
get_incomplete_pieces == started \cup pieces_not_started

\* self.max_outstanding_requests - inflight_requests, an unsigned subtraction.
Capacity == MaxOutstanding - Cardinality(downloading)

\* Faulty: a block in flight does not count.
ContainsArrived(k) == k \in done

\* Is the block in flight or here?
contains_inprogress(k) == k \in downloading \cup done

\* The blocks of the pieces in `served` that are neither in flight nor here.
Unassigned(served) ==
    {k \in BlockKeys : k[1] \in served /\ ~contains_inprogress(k)}

\* Faulty: each piece is given the capacity left before the call.
FirstPerPiece(blocks) ==
    {k \in blocks : Cardinality({l \in blocks : l[1] = k[1] /\ Before(l, k)}) < Capacity}

\* The first Capacity of the blocks.
FirstBlocks(blocks) ==
    {k \in blocks : Cardinality({l \in blocks : Before(l, k)}) < Capacity}

\* generate_assignments: what assign_piece allocates, over all served pieces.
Assigned(served) == LET free == Unassigned(served) IN FirstBlocks(free)

-----------------------------------------------------------------------------
TrackerInit ==
    /\ pieces_not_started = Pieces
    /\ started = {}
    /\ downloading = {}
    /\ done = {}
    /\ expirations = <<>>
    /\ pieces_completed = {}

\* Faulty: the requests go straight into the block map.
InsertUnwatched(batch) == expirations

\* InprogressPieceToBlockMap::insert, for all requests of one call.
insert(batch) ==
    IF batch = {} THEN expirations
    ELSE Append(expirations, [age |-> 0, keys |-> batch])

\* generate_assignments for the pieces some unchoked peer serves, followed by
\* remove_request for each request that could not be handed to its peer.  The
\* caller holds the lock from the first to the last.
ComputeRequests(served, undelivered) ==
    \E batch \in {Assigned(served)} :
    /\ undelivered \subseteq batch
    /\ batch # {} => Len(expirations) < MaxBatches
    /\ pieces_not_started' = pieces_not_started \ PiecesOf(batch)
    /\ started' = started \cup PiecesOf(batch)
    /\ downloading' = downloading \cup (batch \ undelivered)
    /\ expirations' = insert(batch)
    /\ UNCHANGED <<done, pieces_completed>>

\* Faulty: the finished request is copied, not moved.
SetRequestFinishedCopy(k) ==
    /\ k \in downloading
    /\ done' = done \cup {k}
    /\ UNCHANGED <<pieces_not_started, started, downloading, expirations,
                   pieces_completed>>

\* set_request_finished: a block that is not in flight is ignored.
SetRequestFinished(k) ==
    /\ k \in downloading
    /\ downloading' = downloading \ {k}
    /\ done' = done \cup {k}
    /\ UNCHANGED <<pieces_not_started, started, expirations, pieces_completed>>

\* Faulty: only the map of arrived blocks forgets the piece.
RemovePieceDone(p) ==
    /\ done' = {k \in done : k[1] # p}
    /\ UNCHANGED <<started, downloading>>

remove_piece(p) ==
    /\ started' = started \ {p}
    /\ downloading' = {k \in downloading : k[1] # p}
    /\ done' = {k \in done : k[1] # p}

\* Faulty: pieces counted from one.
SetPieceFinishedOneBased(p) ==
    /\ remove_piece(p)
    /\ pieces_completed' = pieces_completed \cup {p + 1}
    /\ UNCHANGED <<pieces_not_started, expirations>>

\* Faulty: the piece is not recorded as completed.
SetPieceFinishedUnrecorded(p) ==
    /\ remove_piece(p)
    /\ UNCHANGED <<pieces_not_started, expirations, pieces_completed>>

\* set_piece_finished.  It does not look at pieces_not_started: a piece no
\* request was made for stays there.
SetPieceFinished(p) ==
    /\ remove_piece(p)
    /\ pieces_completed' = pieces_completed \cup {p}
    /\ UNCHANGED <<pieces_not_started, expirations>>

\* n is the number of entries popped before the first young one.
ExpiredPrefix(n) ==
    /\ \A i \in 1 .. n : expirations[i].age >= RequestTimeout
    /\ n < Len(expirations) => expirations[n + 1].age < RequestTimeout

ExpiredKeys(n) == UNION {expirations[i].keys : i \in 1 .. n}

\* Faulty: one entry per call.
RemoveExpiredOne ==
    \E n \in 0 .. Len(expirations) :
        /\ n <= 1
        /\ \A i \in 1 .. n : expirations[i].age >= RequestTimeout
        /\ n = 0 => ExpiredPrefix(0)
        /\ downloading' = downloading \ ExpiredKeys(n)
        /\ expirations' = SubSeq(expirations, n + 1, Len(expirations))
        /\ UNCHANGED <<pieces_not_started, started, done, pieces_completed>>

\* remove_expired: what is still in flight under an expired entry is dropped
\* from `downloading`; what was finished meanwhile is left alone.
RemoveExpired ==
    \E n \in 0 .. Len(expirations) :
        /\ ExpiredPrefix(n)
        /\ downloading' = downloading \ ExpiredKeys(n)
        /\ expirations' = SubSeq(expirations, n + 1, Len(expirations))
        /\ UNCHANGED <<pieces_not_started, started, done, pieces_completed>>

\* The clock moves on.
PassTime ==
    /\ expirations' =
         [i \in 1 .. Len(expirations) |->
            [expirations[i] EXCEPT
                !.age = IF @ < RequestTimeout THEN @ + 1 ELSE @]]
    /\ UNCHANGED <<pieces_not_started, started, downloading, done,
                   pieces_completed>>

TrackerNext ==
    \/ \E served \in SUBSET get_incomplete_pieces :
         \E undelivered \in SUBSET Assigned(served) :
            ComputeRequests(served, undelivered)
    \/ \E k \in BlockKeys : SetRequestFinished(k)
    \/ \E p \in Pieces : SetPieceFinished(p)
    \/ RemoveExpired
    \/ PassTime

TrackerSpec == TrackerInit /\ [][TrackerNext]_trackerVars

\* The clock never stops, and the processor's five-second tick keeps coming.
TrackerFairSpec ==
    TrackerSpec /\ WF_trackerVars(PassTime) /\ WF_trackerVars(RemoveExpired)

-----------------------------------------------------------------------------
(* What the tracker promises.                                              *)

\* Every variable has its type.
TypeOK ==
    /\ pieces_not_started \subseteq Pieces
    /\ started \subseteq Pieces
    /\ downloading \subseteq BlockKeys
    /\ done \subseteq BlockKeys
    /\ expirations \in Seq(Batch)
    /\ pieces_completed \subseteq Pieces

\* No piece is ever lost between the three stages: withdrawing, timing out or
\* finishing requests always leaves a piece where get_incomplete_pieces finds
\* it, or completed.
NoPieceLost == Pieces = get_incomplete_pieces \cup pieces_completed

\* Every block in flight or arrived belongs to a piece get_incomplete_pieces
\* still lists, and no block is in flight and arrived at once: what is in the
\* block maps is never orphaned by set_piece_finished.
BlocksBelongToStarted ==
    /\ PiecesOf(downloading \cup done) \subseteq started
    /\ downloading \cap done = {}

\* The requests in flight never exceed max_outstanding_requests, so the
\* unsigned subtraction of assign_piece does not underflow.
WithinCapacity == Cardinality(downloading) <= MaxOutstanding

\* Each request in flight is watched by an entry of the expiration queue, so
\* a peer that never answers cannot hold a block for ever.
Watched ==
    \A k \in downloading : \E i \in 1 .. Len(expirations) : k \in expirations[i].keys

\* The expiration queue is ordered by age, which the early break of
\* remove_expired relies on.
QueueOrdered ==
    \A i, j \in 1 .. Len(expirations) :
        i <= j => expirations[i].age >= expirations[j].age

\* After remove_expired, each request still in flight has an entry younger
\* than the timeout: the break at the first young entry skips no old one.
NothingOverdue ==
    [][RemoveExpired =>
         \A k \in downloading' :
            \E i \in 1 .. Len(expirations') :
                k \in expirations'[i].keys /\ expirations'[i].age < RequestTimeout]_trackerVars

\* A request in flight is answered, withdrawn or timed out eventually.
EveryRequestResolves ==
    \A k \in BlockKeys : k \in downloading ~> k \notin downloading
=============================================================================

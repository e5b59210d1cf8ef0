--------------------------- MODULE DownloadProofs ---------------------------
(***************************************************************************)
(* The processor downloading, for every torrent, limit, set of peers and   *)
(* size of the wake-up channel: it uses the registry the way TorrentState  *)
(* allows, so that what is proved of it holds here, it loses neither a     *)
(* completion nor an announcement, it lists no completed piece it asked    *)
(* for, and it implements Delivery.  The registry comes first.             *)
(***************************************************************************)
EXTENDS Download, PieceTrackerProofs, SliceOpsProofs

-----------------------------------------------------------------------------
(* The peer registry.  Neither index invariant is inductive alone:         *)
(* remove_peer cleans pieces_to_peers through peers_to_pieces, so NoGhosts *)
(* needs IndexesAgree, and both need types.                                *)

PeersInv == PeersTypeOK /\ IndexesAgree /\ NoGhosts

\* The registry starts empty.
LEMMA PeersInitInv == PeersInit => PeersInv
BY DEF PeersInit, PeersInv, PeersTypeOK, IndexesAgree, NoGhosts

\* A Choke or Unchoke of a peer keeps the invariant.
LEMMA ChokeStep ==
    ASSUME NEW p \in Peers, NEW flag \in BOOLEAN, PeersInv, set_peer_choked_us(p, flag)
    PROVE  PeersInv'
BY DEF PeersInv, PeersTypeOK, IndexesAgree, NoGhosts, set_peer_choked_us

\* An Interested or NotInterested of a peer keeps the invariant.
LEMMA InterestStep ==
    ASSUME NEW p \in Peers, NEW flag \in BOOLEAN, PeersInv, set_peers_interested_in_us(p, flag)
    PROVE  PeersInv'
BY DEF PeersInv, PeersTypeOK, IndexesAgree, NoGhosts, set_peers_interested_in_us

\* The unchoke decision of the tick keeps the invariant.
LEMMA ChokingStep ==
    ASSUME NEW p \in Peers, NEW flag \in BOOLEAN, PeersInv, set_choking({p}, flag)
    PROVE  PeersInv'
BY DEF PeersInv, PeersTypeOK, IndexesAgree, NoGhosts, set_choking

\* A BitField or Have adds the pieces to both indexes.
LEMMA AddStep ==
    ASSUME NEW p \in Peers, NEW pieces \in SUBSET PieceIds, NEW wanted \in SUBSET PieceIds,
           PeersInv, add_pieces_for_peer(p, pieces, wanted)
    PROVE  PeersInv'
<1> USE DEF PeersInv, add_pieces_for_peer
<1>1. PeersTypeOK'
  BY DEF PeersTypeOK
<1>2. IndexesAgree'
  BY DEF PeersTypeOK, IndexesAgree
<1>3. NoGhosts'
  BY DEF PeersTypeOK, NoGhosts
<1> QED  BY <1>1, <1>2, <1>3

\* The end of a handler removes the peer from both indexes.
LEMMA RemoveStep ==
    ASSUME NEW p \in Peers, PeersInv, remove_peer(p)
    PROVE  PeersInv'
<1> USE DEF PeersInv, remove_peer
<1>1. PeersTypeOK'
  BY DEF PeersTypeOK
<1>2. IndexesAgree'
  BY DEF PeersTypeOK, IndexesAgree
<1>3. \A i \in PieceIds : p \notin pieces_to_peers'[i]
  BY DEF PeersTypeOK, IndexesAgree
<1>4. NoGhosts'
  BY <1>3 DEF PeersTypeOK, NoGhosts
<1> QED  BY <1>1, <1>2, <1>4

\* Every operation on the registry keeps the invariant.
LEMMA PeersStepInv == PeersInv /\ [PeersNext]_peerVars => PeersInv'
<1> SUFFICES ASSUME PeersInv, [PeersNext]_peerVars
             PROVE  PeersInv'
  OBVIOUS
<1>1. CASE PeersNext
  <2>1. PICK p \in Peers :
           \/ \E flag \in BOOLEAN :
                \/ set_peer_choked_us(p, flag)
                \/ set_peers_interested_in_us(p, flag)
                \/ set_choking({p}, flag)
           \/ \E pieces, wanted \in SUBSET PieceIds : add_pieces_for_peer(p, pieces, wanted)
           \/ remove_peer(p)
    BY <1>1 DEF PeersNext
  <2> QED  BY <2>1, ChokeStep, InterestStep, ChokingStep, AddStep, RemoveStep
<1>2. CASE UNCHANGED peerVars
  BY <1>2 DEF PeersInv, PeersTypeOK, IndexesAgree, NoGhosts, peerVars
<1> QED  BY <1>1, <1>2

\* In every run of the registry, for any peers and pieces, the sets and the
\* indexes have their types.
THEOREM PeersTypeCorrect == PeersSpec => []PeersTypeOK
<1>1. PeersInv => PeersTypeOK
  BY DEF PeersInv
<1> QED  BY <1>1, PeersInitInv, PeersStepInv, PTL DEF PeersSpec

\* PeerPieceMap's two indexes never disagree (PeerPieceMap::add_piece and
\* PeerPieceMap::remove_peer keep both).
THEOREM IndexesAlwaysAgree == PeersSpec => []IndexesAgree
<1>1. PeersInv => IndexesAgree
  BY DEF PeersInv
<1> QED  BY <1>1, PeersInitInv, PeersStepInv, PTL DEF PeersSpec

\* A peer that was removed is in no set and no index, so piece_id_to_peers
\* and peers_that_are_interested never name it (TorrentState::remove_peer).
THEOREM NoGhostPeers == PeersSpec => []NoGhosts
<1>1. PeersInv => NoGhosts
  BY DEF PeersInv
<1> QED  BY <1>1, PeersInitInv, PeersStepInv, PTL DEF PeersSpec

-----------------------------------------------------------------------------
(* The processor.                                                          *)

Messages == {Wakeup} \cup {PieceComplete(i) : i \in Pieces}

Places == {Idle, Recv, Exited}
            \cup {Apply(k, f) : k \in BlockKeys, f \in BOOLEAN}
            \cup {Signal(msg) : msg \in Messages}

\* The processor's own variables have their types.
Typed ==
    /\ DownloadTypeOK
    /\ handler \in [Peers -> Places]
    /\ wake \in Seq(Messages)
    /\ DOMAIN slices = Pieces

\* Only blocks of started pieces are asked for, on their way, or, unless they came
\* unasked, being noted.
AskedStarted ==
    /\ \A p \in Peers, k \in BlockKeys : sent[p][k] > 0 => k[1] \notin pieces_not_started
    /\ \A p \in Peers, k \in BlockKeys, f \in BOOLEAN :
            handler[p] = Apply(k, f) => Unasked(p, k) \/ k[1] \notin pieces_not_started

\* What a handler is about to note as finished is complete.
NotedComplete ==
    \A p \in Peers, k \in BlockKeys : handler[p] = Apply(k, TRUE) => Complete(k[1])

StoreInv == NotedComplete /\ TrackerMatchesStore /\ CompletionNeverLost

DInv == IInv /\ PeersInv /\ Typed /\ AskedStarted /\ StoreInv /\ AnnouncedOrPending

-----------------------------------------------------------------------------
\* The places of a handler, and the messages in the channel, are told apart.
LEMMA PlacesApart ==
    /\ Idle # Recv /\ Idle # Exited /\ Recv # Exited
    /\ \A k, f : Apply(k, f) \notin {Idle, Recv, Exited}
    /\ \A msg : Signal(msg) \notin {Idle, Recv, Exited}
    /\ \A k, f, msg : Apply(k, f) # Signal(msg)
    /\ \A k, f, l, g : Apply(k, f) = Apply(l, g) => k = l /\ f = g
    /\ \A msg, other : Signal(msg) = Signal(other) => msg = other
    /\ \A i : PieceComplete(i) # Wakeup
    /\ \A i, j : PieceComplete(i) = PieceComplete(j) => i = j
BY DEF Idle, Recv, Exited, Apply, Signal, PieceComplete, Wakeup

\* What a handler is about to note as finished is determined by its place.
LEMMA ApplyFinished ==
    ASSUME NEW k, NEW f \in BOOLEAN, NEW l, Apply(k, f) = Apply(l, TRUE)
    PROVE  k = l /\ f
<1>1. Apply(k, f)[2] = k /\ Apply(k, f)[3] = f
  BY DEF Apply
<1>2. Apply(l, TRUE)[2] = l /\ Apply(l, TRUE)[3] = TRUE
  BY DEF Apply
<1>3. k = l /\ f = TRUE
  BY <1>1, <1>2, Zenon
<1> QED  BY <1>3

\* A key is a piece and a position.
LEMMA KeyPiece == \A k \in BlockKeys : k[1] \in Pieces
BY DEF BlockKeys

\* The handler's first element, by which DownloadTypeOK tells the places.
LEMMA PlaceTags == \A h \in Places : h[1] \in {"none", "recv", "apply", "signal", "exited"}
BY DEF Places, Idle, Recv, Exited, Apply, Signal

-----------------------------------------------------------------------------
(* The tracker and the registry.                                           *)

\* Whatever the loop, a handler or the clock does is an operation of the
\* tracker, or leaves it alone.
LEMMA TrackerStep ==
    ASSUME [Next]_vars
    PROVE  [TrackerNext]_trackerVars
<1>1. CASE UNCHANGED vars
  BY <1>1 DEF vars
<1>2. CASE \E p \in Peers : Handles(p)
  <2>1. PICK p \in Peers : Handles(p)
    BY <1>2
  <2> QED  BY <2>1 DEF Handles, HandleFlag, HandlePieces, HandlePiece, HandlesAndSignals
<1>3. CASE \E p \in Peers : Runs(p)
  <2>1. PICK p \in Peers : Runs(p)
    BY <1>3
  <2>2. CASE ApplyPiece(p)
    <3>1. PICK k \in BlockKeys, f \in BOOLEAN : handler[p] = Apply(k, f) /\ Note(k, f)
      BY <2>2 DEF ApplyPiece
    <3>2. k[1] \in Pieces
      BY KeyPiece
    <3> QED  BY <3>1, <3>2 DEF Note, TrackerNext
  <2>3. CASE SendWake(p) \/ HandlerEnds(p)
    BY <2>3 DEF SendWake, HandlerEnds
  <2> QED  BY <2>1, <2>2, <2>3 DEF Runs
<1>4. CASE \E p \in Peers : Accept(p) \/ Reap(p) \/ Leave(p)
  BY <1>4 DEF Accept, Reap, Leave
<1>5. CASE WakeUp
  <2>1. PICK assignee \in [Served -> Peers] : Dispatch(assignee, peer_to_tx')
    BY <1>5 DEF WakeUp
  <2>2. PICK batch \in {Assigned(Served)} :
            ComputeRequests(Served, {k \in batch : assignee[k[1]] \notin peer_to_tx'})
    BY <2>1 DEF Dispatch
  <2>3. /\ Served \in SUBSET get_incomplete_pieces
        /\ {k \in batch : assignee[k[1]] \notin peer_to_tx'} \in SUBSET Assigned(Served)
    BY <2>2 DEF Served
  <2> QED  BY <2>2, <2>3 DEF TrackerNext
<1>6. CASE Tick
  BY <1>6 DEF Tick, TrackerNext
<1>7. CASE TickSends
  BY <1>7 DEF TickSends
<1>8. CASE Clock
  BY <1>8 DEF Clock, TrackerNext
<1> QED  BY <1>1, <1>2, <1>3, <1>4, <1>5, <1>6, <1>7, <1>8 DEF Next

\* ... and the same for the registry.
LEMMA RegistryStep ==
    ASSUME TypeOK, [Next]_vars
    PROVE  [PeersNext]_peerVars
<1>1. CASE UNCHANGED vars
  BY <1>1 DEF vars
<1>2. CASE \E p \in Peers : Handles(p)
  <2>1. PICK p \in Peers : Handles(p)
    BY <1>2
  <2>2. CASE \E choke \in BOOLEAN : HandleFlag(p, choke)
    BY <2>2 DEF HandleFlag, PeersNext
  <2>3. CASE \E pieces \in SUBSET Pieces : HandlePieces(p, pieces)
    BY <2>3, DownloadAssumption DEF HandlePieces, PeersNext, TypeOK
  <2>4. CASE \E k \in BlockKeys : HandlePiece(p, k)
    BY <2>4 DEF HandlePiece
  <2> QED  BY <2>1, <2>2, <2>3, <2>4 DEF Handles
<1>3. CASE \E p \in Peers : Runs(p)
  BY <1>3 DEF Runs, ApplyPiece, SendWake, HandlerEnds
<1>4. CASE \E p \in Peers : Reap(p)
  BY <1>4 DEF Reap, PeersNext
<1>5. CASE \E p \in Peers : Accept(p) \/ Leave(p)
  BY <1>5 DEF Accept, Leave
<1>6. CASE WakeUp \/ Tick \/ TickSends \/ Clock
  BY <1>6 DEF WakeUp, Tick, TickSends, Clock
<1> QED  BY <1>1, <1>2, <1>3, <1>4, <1>5, <1>6 DEF Next

\* Pieces are only ever taken off pieces_not_started, and added to the completed.
LEMMA TrackerMonotone ==
    ASSUME [TrackerNext]_trackerVars
    PROVE  pieces_not_started' \subseteq pieces_not_started /\ pieces_completed \subseteq pieces_completed'
<1>1. CASE UNCHANGED trackerVars
  BY <1>1 DEF trackerVars
<1>2. CASE TrackerNext
  BY <1>2 DEF TrackerNext, ComputeRequests, SetRequestFinished, SetPieceFinished, RemoveExpired, PassTime
<1> QED  BY <1>1, <1>2

-----------------------------------------------------------------------------
(* Types.                                                                  *)

\* A wake-up is typed when the message the loop takes is.
LEMMA HeadTail ==
    ASSUME wake \in Seq(Messages), wake # <<>>
    PROVE  /\ Head(wake) \in Messages /\ Tail(wake) \in Seq(Messages)
           /\ Len(Tail(wake)) = Len(wake) - 1 /\ Len(wake) \in Nat \ {0}
           /\ Head(wake) = wake[1]
           /\ \A n \in 1 .. Len(Tail(wake)) : Tail(wake)[n] = wake[n + 1]
BY HeadTailProperties

\* The message that announces a piece names it.
LEMMA MessageNames ==
    \A msg \in Messages : msg[1] = "PieceComplete" => \E i \in Pieces : msg = PieceComplete(i) /\ msg[2] = i
BY DEF Messages, Wakeup, PieceComplete

\* What announce_piece does to a peer that is told, by the message taken.
LEMMA AnnouncedTo ==
    ASSUME Typed, NEW msg \in Messages, NEW live \in SUBSET Peers
    PROVE  /\ Announced(msg, live) \in [Peers -> SUBSET Pieces]
           /\ \A p \in Peers : haves[p] \subseteq Announced(msg, live)[p]
           /\ \A p \in live, i \in Pieces : msg = PieceComplete(i) => i \in Announced(msg, live)[p]
<1>1. haves \in [Peers -> SUBSET Pieces]
  BY DEF Typed, DownloadTypeOK
<1>2. \A i : PieceComplete(i)[1] = "PieceComplete" /\ PieceComplete(i)[2] = i
  BY DEF PieceComplete
<1> QED  BY <1>1, <1>2, MessageNames DEF Announced

\* A handler that moves keeps the types if the place it moves to is one.
LEMMA TypedHandler ==
    ASSUME Typed, NEW p \in Peers, NEW h \in Places, handler' = [handler EXCEPT ![p] = h]
    PROVE  /\ handler' \in [Peers -> Places]
           /\ \A q \in Peers : handler'[q][1] \in {"none", "recv", "apply", "signal", "exited"}
<1>1. handler' \in [Peers -> Places]
  BY DEF Typed
<1> QED  BY <1>1, PlaceTags

\* The messages of a peer keep the types.
LEMMA HandlesTyped ==
    ASSUME Typed, NEW p \in Peers, Handles(p)
    PROVE  Typed'
<1>1. Recv \in Places /\ Exited \in Places /\ Signal(Wakeup) \in Places
  BY DEF Places, Messages
<1>2. CASE \E choke \in BOOLEAN : HandleFlag(p, choke)
  <2>1. /\ handler' = [handler EXCEPT ![p] = Signal(Wakeup)]
        /\ UNCHANGED <<conn, sent, haves, peer_to_tx, wake, main, slices>>
    BY <1>2 DEF HandleFlag, HandlesAndSignals
  <2> QED  BY <1>1, <2>1, TypedHandler DEF Typed, DownloadTypeOK
<1>3. CASE \E pieces \in SUBSET Pieces : HandlePieces(p, pieces)
  <2>1. /\ \E h \in Places : handler' = [handler EXCEPT ![p] = h]
        /\ UNCHANGED <<conn, sent, haves, peer_to_tx, wake, main, slices>>
    BY <1>1, <1>3 DEF HandlePieces, HandlesAndSignals
  <2> QED  BY <2>1, TypedHandler DEF Typed, DownloadTypeOK
<1>4. CASE \E k \in BlockKeys : HandlePiece(p, k)
  <2>1. PICK k \in BlockKeys : HandlePiece(p, k)
    BY <1>4
  <2>2. Complete(k[1])' \in BOOLEAN
    BY DEF Complete, IsComplete
  <2>3. \A f \in BOOLEAN : Apply(k, f) \in Places
    BY DEF Places
  <2>4. \E h \in Places : handler' = [handler EXCEPT ![p] = h]
    BY <1>1, <2>1, <2>2, <2>3 DEF HandlePiece
  <2>5. DOMAIN slices' = Pieces
    BY <2>1 DEF HandlePiece, Typed
  <2>6. sent' \in [Peers -> [BlockKeys -> 0 .. MaxRepeats]]
    <3>1. sent \in [Peers -> [BlockKeys -> 0 .. MaxRepeats]] /\ MaxRepeats \in Nat
      BY DownloadAssumption DEF Typed, DownloadTypeOK
    <3>2. sent[p] \in [BlockKeys -> 0 .. MaxRepeats] /\ sent[p][k] \in 0 .. MaxRepeats
      BY <3>1
    <3>3. PICK n \in 0 .. MaxRepeats : n = IF sent[p][k] > 0 THEN sent[p][k] - 1 ELSE sent[p][k]
      BY <3>1, <3>2
    <3>4. [sent[p] EXCEPT ![k] = n] \in [BlockKeys -> 0 .. MaxRepeats]
      BY <3>2, <3>3
    <3>5. sent' = [sent EXCEPT ![p] = [sent[p] EXCEPT ![k] = n]]
      BY <2>1, <3>3 DEF HandlePiece
    <3> QED  BY <3>1, <3>4, <3>5
  <2>7. UNCHANGED <<conn, haves, peer_to_tx, wake, main>>
    BY <2>1 DEF HandlePiece
  <2> QED  BY <2>4, <2>5, <2>6, <2>7, TypedHandler DEF Typed, DownloadTypeOK
<1> QED  BY <1>2, <1>3, <1>4 DEF Handles

\* So do the other steps of a handler,
LEMMA RunsTyped ==
    ASSUME Typed, NEW p \in Peers, Runs(p)
    PROVE  Typed'
<1>1. Recv \in Places /\ Exited \in Places /\ \A msg \in Messages : Signal(msg) \in Places
  BY DEF Places
<1>2. CASE ApplyPiece(p)
  <2>1. PICK k \in BlockKeys, f \in BOOLEAN :
            handler' = [handler EXCEPT ![p] = Signal(IF f THEN PieceComplete(k[1]) ELSE Wakeup)]
    BY <1>2 DEF ApplyPiece
  <2>2. Signal(IF f THEN PieceComplete(k[1]) ELSE Wakeup) \in Places
    BY <1>1, KeyPiece DEF Messages
  <2>3. UNCHANGED <<conn, sent, haves, peer_to_tx, wake, main, slices>>
    BY <1>2 DEF ApplyPiece
  <2> QED  BY <2>1, <2>2, <2>3, TypedHandler DEF Typed, DownloadTypeOK
<1>3. CASE SendWake(p)
  <2>1. PICK msg \in Messages : wake' = Append(wake, msg)
    BY <1>3 DEF SendWake, Messages
  <2>2. wake \in Seq(Messages) /\ Len(wake) < WakeCap /\ WakeCap \in Nat
    BY <1>3, DownloadAssumption DEF Typed, SendWake
  <2>3. wake' \in Seq(Messages) /\ Len(wake') <= WakeCap
    BY <2>1, <2>2, AppendProperties
  <2>4. UNCHANGED <<conn, sent, haves, peer_to_tx, main, slices>> /\ handler' = [handler EXCEPT ![p] = Recv]
    BY <1>3 DEF SendWake
  <2> QED  BY <1>1, <2>3, <2>4, TypedHandler DEF Typed, DownloadTypeOK
<1>4. CASE HandlerEnds(p)
  <2>1. /\ handler' = [handler EXCEPT ![p] = Exited]
        /\ UNCHANGED <<conn, sent, haves, peer_to_tx, wake, main, slices>>
    BY <1>4 DEF HandlerEnds
  <2> QED  BY <1>1, <2>1, TypedHandler DEF Typed, DownloadTypeOK
<1> QED  BY <1>2, <1>3, <1>4 DEF Runs

\* the coming and going of peers,
LEMMA PeerTyped ==
    ASSUME Typed, TypeOK, NEW p \in Peers, Accept(p) \/ Reap(p) \/ Leave(p)
    PROVE  Typed'
<1>1. Recv \in Places /\ Idle \in Places
  BY DEF Places
<1>2. CASE Accept(p)
  <2>1. /\ handler' = [handler EXCEPT ![p] = Recv]
        /\ conn' = [conn EXCEPT ![p] = "open"]
        /\ haves' = [haves EXCEPT ![p] = pieces_completed]
        /\ peer_to_tx' = peer_to_tx \cup {p}
        /\ UNCHANGED <<sent, wake, main, slices>>
    BY <1>2 DEF Accept
  <2>2. haves' \in [Peers -> SUBSET Pieces]
    BY <2>1 DEF Typed, DownloadTypeOK, TypeOK
  <2> QED  BY <1>1, <2>1, <2>2, TypedHandler DEF Typed, DownloadTypeOK
<1>3. CASE Reap(p)
  <2>1. /\ handler' = [handler EXCEPT ![p] = Idle]
        /\ conn' = [conn EXCEPT ![p] = "closed"]
        /\ peer_to_tx' = peer_to_tx \ {p}
        /\ UNCHANGED <<sent, haves, wake, main, slices>>
    BY <1>3 DEF Reap
  <2> QED  BY <1>1, <2>1, TypedHandler DEF Typed, DownloadTypeOK
<1>4. CASE Leave(p)
  <2>1. /\ conn' = [conn EXCEPT ![p] = "closed"]
        /\ UNCHANGED <<handler, sent, haves, peer_to_tx, wake, main, slices>>
    BY <1>4 DEF Leave
  <2> QED  BY <2>1 DEF Typed, DownloadTypeOK
<1> QED  BY <1>2, <1>3, <1>4

\* A dispatch adds a request only where one more is allowed.
LEMMA DispatchTyped ==
    ASSUME Typed, NEW live \in SUBSET Peers, NEW assignee \in [Served -> Peers], Dispatch(assignee, live)
    PROVE  sent' \in [Peers -> [BlockKeys -> 0 .. MaxRepeats]]
<1>1. PICK batch \in {Assigned(Served)} :
        /\ \A k \in batch : sent[assignee[k[1]]][k] < MaxRepeats
        /\ sent' = [p \in Peers |-> [k \in BlockKeys |->
                      IF p \in live /\ k \in batch /\ assignee[k[1]] = p
                      THEN sent[p][k] + 1 ELSE sent[p][k]]]
  BY DEF Dispatch
<1>2. \A p \in Peers, k \in BlockKeys : sent[p][k] \in 0 .. MaxRepeats
  BY DEF Typed, DownloadTypeOK
<1>3. ASSUME NEW p \in Peers, NEW k \in BlockKeys
      PROVE  (IF p \in live /\ k \in batch /\ assignee[k[1]] = p
              THEN sent[p][k] + 1 ELSE sent[p][k]) \in 0 .. MaxRepeats
  BY <1>1, <1>2, DownloadAssumption
<1> QED  BY <1>1, <1>3

\* and the select loop and the clock.
LEMMA LoopTyped ==
    ASSUME Typed, WakeUp \/ Tick \/ TickSends \/ Clock
    PROVE  Typed'
<1>1. CASE WakeUp
  <2>1. /\ wake # <<>> /\ wake' = Tail(wake)
        /\ peer_to_tx' = Open(peer_to_tx)
        /\ haves' = Announced(Head(wake), peer_to_tx')
        /\ UNCHANGED <<conn, handler, main, slices>>
    BY <1>1 DEF WakeUp
  <2>2. peer_to_tx' \in SUBSET Peers
    BY <2>1 DEF Open, Typed, DownloadTypeOK
  <2>3. wake' \in Seq(Messages) /\ Len(wake') <= WakeCap /\ Head(wake) \in Messages
    BY <2>1, HeadTail, DownloadAssumption DEF Typed, DownloadTypeOK
  <2>4. haves' \in [Peers -> SUBSET Pieces]
    BY <2>1, <2>2, <2>3, AnnouncedTo
  <2>5. sent' \in [Peers -> [BlockKeys -> 0 .. MaxRepeats]]
    BY <1>1, <2>2, DispatchTyped DEF WakeUp
  <2> QED  BY <2>1, <2>2, <2>3, <2>4, <2>5 DEF Typed, DownloadTypeOK
<1>2. CASE Tick
  BY <1>2 DEF Tick, Typed, DownloadTypeOK
<1>3. CASE TickSends
  <2>1. /\ wake' = Append(wake, Wakeup) /\ Len(wake) < WakeCap /\ main' = "select"
        /\ UNCHANGED <<conn, handler, sent, haves, peer_to_tx, slices>>
    BY <1>3 DEF TickSends
  <2>2. wake' \in Seq(Messages) /\ Len(wake') <= WakeCap
    BY <2>1, AppendProperties, DownloadAssumption DEF Typed, Messages
  <2> QED  BY <2>1, <2>2 DEF Typed, DownloadTypeOK
<1>4. CASE Clock
  BY <1>4 DEF Clock, loopVars, Typed, DownloadTypeOK
<1> QED  BY <1>1, <1>2, <1>3, <1>4

\* Every step keeps the types.
LEMMA NextTyped ==
    ASSUME Typed, TypeOK, [Next]_vars
    PROVE  Typed'
<1>1. CASE UNCHANGED vars
  BY <1>1 DEF vars, loopVars, Typed, DownloadTypeOK
<1> QED  BY <1>1, HandlesTyped, RunsTyped, PeerTyped, LoopTyped DEF Next

-----------------------------------------------------------------------------
(* What the handlers are about to note.                                    *)

\* A handler that moves from and to a place outside the noting of a block
\* changes nothing about what is being noted.
LEMMA MovesQuietly ==
    ASSUME Typed, NEW p \in Peers, NEW h, handler' = [handler EXCEPT ![p] = h],
           \A k, f : handler[p] # Apply(k, f) /\ h # Apply(k, f)
    PROVE  \A q \in Peers : \A k, f : handler'[q] = Apply(k, f) <=> handler[q] = Apply(k, f)
<1>1. handler \in [Peers -> Places]
  BY DEF Typed
<1>2. \A q \in Peers : handler'[q] = IF q = p THEN h ELSE handler[q]
  BY <1>1
<1> QED  BY <1>2

\* Every step but the arrival of a block and its noting.
Quiet ==
    /\ UNCHANGED <<slices, pieces_completed>>
    /\ \A q \in Peers : \A k, f : handler'[q] = Apply(k, f) <=> handler[q] = Apply(k, f)

\* Only HandlePiece and ApplyPiece touch the store, the completed pieces or
\* what is being noted.
LEMMA QuietSteps ==
    ASSUME Typed, [Next]_vars
    PROVE  \/ Quiet
           \/ \E p \in Peers, k \in BlockKeys : HandlePiece(p, k)
           \/ \E p \in Peers : ApplyPiece(p)
<1>1. CASE UNCHANGED vars
  BY <1>1 DEF vars, loopVars, trackerVars, Quiet
<1>2. CASE \E p \in Peers, choke \in BOOLEAN : HandleFlag(p, choke)
  <2>1. PICK p \in Peers, choke \in BOOLEAN : HandleFlag(p, choke)
    BY <1>2
  <2>2. /\ handler[p] = Recv /\ handler' = [handler EXCEPT ![p] = Signal(Wakeup)]
        /\ UNCHANGED <<slices, pieces_completed>>
    BY <2>1 DEF HandleFlag, HandlesAndSignals, trackerVars
  <2>3. \A k, f : handler[p] # Apply(k, f) /\ Signal(Wakeup) # Apply(k, f)
    BY <2>2, PlacesApart
  <2> QED  BY <2>2, <2>3, MovesQuietly DEF Quiet
<1>3. CASE \E p \in Peers, pieces \in SUBSET Pieces : HandlePieces(p, pieces)
  <2>1. PICK p \in Peers, pieces \in SUBSET Pieces : HandlePieces(p, pieces)
    BY <1>3
  <2>2. PICK h \in {Exited, Signal(Wakeup)} : handler' = [handler EXCEPT ![p] = h]
    BY <2>1 DEF HandlePieces, HandlesAndSignals
  <2>3. handler[p] = Recv /\ UNCHANGED <<slices, pieces_completed>>
    BY <2>1 DEF HandlePieces, HandlesAndSignals, trackerVars
  <2>4. \A k, f : handler[p] # Apply(k, f) /\ h # Apply(k, f)
    BY <2>2, <2>3, PlacesApart
  <2> QED  BY <2>2, <2>3, <2>4, MovesQuietly DEF Quiet
<1>4. CASE \E p \in Peers : SendWake(p)
  <2>1. PICK p \in Peers : SendWake(p)
    BY <1>4
  <2>2. PICK msg : handler[p] = Signal(msg)
    BY <2>1 DEF SendWake
  <2>3. handler' = [handler EXCEPT ![p] = Recv] /\ UNCHANGED <<slices, pieces_completed>>
    BY <2>1 DEF SendWake, trackerVars
  <2>4. \A k, f : handler[p] # Apply(k, f) /\ Recv # Apply(k, f)
    BY <2>2, PlacesApart
  <2> QED  BY <2>3, <2>4, MovesQuietly DEF Quiet
<1>5. CASE \E p \in Peers : HandlerEnds(p) \/ Accept(p) \/ Reap(p)
  <2>1. PICK p \in Peers : HandlerEnds(p) \/ Accept(p) \/ Reap(p)
    BY <1>5
  <2>2. PICK h \in {Exited, Recv, Idle} : handler' = [handler EXCEPT ![p] = h]
    BY <2>1 DEF HandlerEnds, Accept, Reap
  <2>3. handler[p] \in {Exited, Recv, Idle} /\ UNCHANGED <<slices, pieces_completed>>
    BY <2>1 DEF HandlerEnds, Accept, Reap, trackerVars
  <2>4. \A k, f : handler[p] # Apply(k, f) /\ h # Apply(k, f)
    BY <2>2, <2>3, PlacesApart
  <2> QED  BY <2>2, <2>3, <2>4, MovesQuietly DEF Quiet
<1>6. CASE \E p \in Peers : Leave(p)
  BY <1>6 DEF Leave, trackerVars, Quiet
<1>7. CASE WakeUp
  BY <1>7 DEF WakeUp, Dispatch, ComputeRequests, Quiet
<1>8. CASE Tick
  BY <1>8 DEF Tick, RemoveExpired, Quiet
<1>9. CASE TickSends
  BY <1>9 DEF TickSends, trackerVars, Quiet
<1>10. CASE Clock
  BY <1>10 DEF Clock, PassTime, loopVars, Quiet
<1> QED  BY <1>1, <1>2, <1>3, <1>4, <1>5, <1>6, <1>7, <1>8, <1>9, <1>10 DEF Next, Handles, Runs

\* A request that is out now was out before, or its piece has been started.
LEMMA SentStarted ==
    ASSUME Typed, [Next]_vars, NEW p \in Peers, NEW k \in BlockKeys, sent'[p][k] > 0
    PROVE  sent[p][k] > 0 \/ k[1] \notin pieces_not_started'
<1>0. sent \in [Peers -> [BlockKeys -> 0 .. MaxRepeats]] /\ sent[p][k] \in Nat
  BY DownloadAssumption DEF Typed, DownloadTypeOK
<1>1. CASE UNCHANGED sent
  BY <1>1
<1>2. CASE \E q \in Peers, l \in BlockKeys : HandlePiece(q, l)
  <2>1. PICK q \in Peers, l \in BlockKeys : sent' = [sent EXCEPT ![q][l] = IF @ > 0 THEN @ - 1 ELSE @]
    BY <1>2 DEF HandlePiece
  <2>2. CASE q = p /\ l = k
    <3>1. sent'[p][k] = IF sent[p][k] > 0 THEN sent[p][k] - 1 ELSE sent[p][k]
      BY <1>0, <2>1, <2>2
    <3> QED  BY <1>0, <3>1
  <2>3. CASE ~(q = p /\ l = k)
    <3>1. sent'[p][k] = sent[p][k]
      BY <1>0, <2>1, <2>3
    <3> QED  BY <3>1
  <2> QED  BY <2>2, <2>3
<1>3. CASE WakeUp
  <2>1. PICK assignee, live : Dispatch(assignee, live)
    BY <1>3 DEF WakeUp
  <2>2. PICK batch \in {Assigned(Served)} :
          /\ \E undelivered : ComputeRequests(Served, undelivered)
          /\ sent' = [q \in Peers |-> [l \in BlockKeys |->
                        IF q \in live /\ l \in batch /\ assignee[l[1]] = q
                        THEN sent[q][l] + 1 ELSE sent[q][l]]]
    BY <2>1 DEF Dispatch
  <2>3. CASE k \in batch
    <3>1. k[1] \in PiecesOf(batch)
      BY <2>3 DEF PiecesOf
    <3>2. pieces_not_started' = pieces_not_started \ PiecesOf(batch)
      BY <2>2 DEF ComputeRequests
    <3> QED  BY <3>1, <3>2
  <2>4. CASE k \notin batch
    <3>1. sent'[p][k] = sent[p][k]
      BY <2>2, <2>4
    <3> QED  BY <3>1
  <2> QED  BY <2>3, <2>4
<1>4. UNCHANGED sent \/ (\E q \in Peers, l \in BlockKeys : HandlePiece(q, l)) \/ WakeUp
  BY DEF Next, vars, loopVars, Handles, Runs, HandleFlag, HandlePieces, HandlesAndSignals,
         ApplyPiece, SendWake, HandlerEnds, Accept, Reap, Leave, Tick, TickSends, Clock
<1> QED  BY <1>1, <1>2, <1>3, <1>4

\* The arrival of a block, in full: where its handler goes and what the store holds.
LEMMA Arrival ==
    ASSUME Typed, NEW p \in Peers, NEW k \in BlockKeys, HandlePiece(p, k)
    PROVE  /\ sent[p][k] > 0 \/ Unasked(p, k)
           /\ handler[p] = Recv /\ UNCHANGED pieces_completed
           /\ \A q \in Peers \ {p} : handler'[q] = handler[q]
           /\ \/ Complete(k[1]) /\ handler'[p] = Exited /\ UNCHANGED slices
              \/ /\ ~Complete(k[1]) /\ handler'[p] = Apply(k, Complete(k[1])')
                 /\ \A i \in Pieces \ {k[1]} : slices'[i] = slices[i]
<1>1. handler \in [Peers -> Places] /\ DOMAIN slices = Pieces /\ k[1] \in Pieces
  BY KeyPiece DEF Typed
<1>2. /\ sent[p][k] > 0 \/ Unasked(p, k)
      /\ handler[p] = Recv /\ UNCHANGED pieces_completed
  BY DEF HandlePiece, trackerVars
<1>3. CASE Complete(k[1])
  <2>1. handler' = [handler EXCEPT ![p] = Exited] /\ UNCHANGED slices
    BY <1>3 DEF HandlePiece
  <2> QED  BY <1>1, <1>2, <1>3, <2>1
<1>4. CASE ~Complete(k[1])
  <2>1. /\ handler' = [handler EXCEPT ![p] = Apply(k, Complete(k[1])')]
        /\ slices' = [slices EXCEPT ![k[1]] = InsertSlice(@, k[2], RequestLength(k[1], k[2]))]
    BY <1>4 DEF HandlePiece
  <2>2. \A q \in Peers \ {p} : handler'[q] = handler[q]
    BY <1>1, <2>1
  <2>3. handler'[p] = Apply(k, Complete(k[1])')
    BY <1>1, <2>1
  <2>4. \A i \in Pieces \ {k[1]} : slices'[i] = slices[i]
    BY <1>1, <2>1
  <2> QED  BY <1>2, <1>4, <2>2, <2>3, <2>4
<1> QED  BY <1>3, <1>4

\* The noting of a block, in full.
LEMMA Noting ==
    ASSUME Typed, NEW p \in Peers, ApplyPiece(p)
    PROVE  \E k \in BlockKeys, f \in BOOLEAN :
             /\ handler[p] = Apply(k, f) /\ UNCHANGED <<slices, wake, haves, conn, peer_to_tx>>
             /\ handler'[p] = Signal(IF f THEN PieceComplete(k[1]) ELSE Wakeup)
             /\ \A q \in Peers \ {p} : handler'[q] = handler[q]
             /\ pieces_completed' = IF f THEN pieces_completed \cup {k[1]} ELSE pieces_completed
<1>1. PICK k \in BlockKeys, f \in BOOLEAN :
        /\ handler[p] = Apply(k, f) /\ Note(k, f)
        /\ handler' = [handler EXCEPT ![p] = Signal(IF f THEN PieceComplete(k[1]) ELSE Wakeup)]
  BY DEF ApplyPiece
<1>2. handler \in [Peers -> Places] /\ UNCHANGED <<slices, wake, haves, conn, peer_to_tx>>
  BY DEF Typed, ApplyPiece
<1>3. /\ handler'[p] = Signal(IF f THEN PieceComplete(k[1]) ELSE Wakeup)
      /\ \A q \in Peers \ {p} : handler'[q] = handler[q]
  BY <1>1, <1>2
<1>4. pieces_completed' = IF f THEN pieces_completed \cup {k[1]} ELSE pieces_completed
  BY <1>1 DEF Note, SetPieceFinished, SetRequestFinished, trackerVars
<1> QED  BY <1>1, <1>2, <1>3, <1>4

\* No step asks for a block of a piece that was not started, or notes one unless
\* it came unasked.
LEMMA NextAsked ==
    ASSUME Typed, AskedStarted, [Next]_vars
    PROVE  AskedStarted'
<1>1. pieces_not_started' \subseteq pieces_not_started
  BY TrackerStep, TrackerMonotone
<1>2. ASSUME NEW p \in Peers, NEW k \in BlockKeys, sent'[p][k] > 0
      PROVE  k[1] \notin pieces_not_started'
  BY <1>1, <1>2, SentStarted DEF AskedStarted
<1>3. ASSUME NEW p \in Peers, NEW k \in BlockKeys, NEW f \in BOOLEAN, handler'[p] = Apply(k, f)
      PROVE  Unasked(p, k) \/ k[1] \notin pieces_not_started'
  <2>1. CASE Quiet
    BY <1>1, <1>3, <2>1 DEF Quiet, AskedStarted
  <2>2. CASE \E q \in Peers, l \in BlockKeys : HandlePiece(q, l)
    <3>1. PICK q \in Peers, l \in BlockKeys : HandlePiece(q, l)
      BY <2>2
    <3>2. CASE q = p
      <4>1. handler'[p] = Apply(l, Complete(l[1])') /\ (sent[p][l] > 0 \/ Unasked(p, l))
        BY <1>3, <3>1, <3>2, Arrival, PlacesApart
      <4>2. k = l
        BY <1>3, <4>1, PlacesApart
      <4> QED  BY <1>1, <4>1, <4>2 DEF AskedStarted
    <3>3. CASE q # p
      BY <1>1, <1>3, <3>1, <3>3, Arrival DEF AskedStarted
    <3> QED  BY <3>2, <3>3
  <2>3. CASE \E q \in Peers : ApplyPiece(q)
    <3>1. PICK q \in Peers : ApplyPiece(q)
      BY <2>3
    <3>2. q # p
      BY <1>3, <3>1, Noting, PlacesApart
    <3>3. handler[p] = Apply(k, f)
      BY <1>3, <3>1, <3>2, Noting
    <3> QED  BY <1>1, <3>3 DEF AskedStarted
  <2> QED  BY <2>1, <2>2, <2>3, QuietSteps
<1> QED  BY <1>2, <1>3 DEF AskedStarted, Unasked

-----------------------------------------------------------------------------
(* The store and the tracker.                                              *)

\* A block arrives: the list of its piece changes only while the piece is
\* incomplete, and the handler carries what io.write returned.
LEMMA ArrivalStore ==
    ASSUME TypeOK, Typed, StoreInv, NEW p \in Peers, NEW k \in BlockKeys, HandlePiece(p, k)
    PROVE  StoreInv'
<1>0. k[1] \in Pieces /\ Complete(k[1])' \in BOOLEAN
  BY KeyPiece DEF Complete, IsComplete
<1>1. CASE Complete(k[1])
  <2>1. /\ handler[p] = Recv /\ handler'[p] = Exited /\ UNCHANGED <<slices, pieces_completed>>
        /\ \A q \in Peers \ {p} : handler'[q] = handler[q]
    BY <1>1, Arrival
  <2>2. \A q \in Peers : \A l : handler'[q] = Apply(l, TRUE) <=> handler[q] = Apply(l, TRUE)
    BY <2>1, PlacesApart, Zenon
  <2>3. NotedComplete'
    BY <2>1, <2>2 DEF StoreInv, NotedComplete, Complete
  <2>4. TrackerMatchesStore'
    BY <2>1 DEF StoreInv, TrackerMatchesStore, Complete
  <2>5. CompletionNeverLost'
    BY <2>1, <2>2 DEF StoreInv, CompletionNeverLost, Complete
  <2> QED  BY <2>3, <2>4, <2>5 DEF StoreInv
<1>2. CASE ~Complete(k[1])
  <2>1. /\ handler[p] = Recv /\ handler'[p] = Apply(k, Complete(k[1])') /\ UNCHANGED pieces_completed
        /\ \A q \in Peers \ {p} : handler'[q] = handler[q]
        /\ \A i \in Pieces \ {k[1]} : slices'[i] = slices[i]
    BY <1>2, Arrival
  <2>2. \A i \in Pieces \ {k[1]} : Complete(i)' <=> Complete(i)
    BY <2>1 DEF Complete
  <2>3. ASSUME NEW q \in Peers, NEW l \in BlockKeys, handler'[q] = Apply(l, TRUE)
        PROVE  Complete(l[1])'
    <3>1. CASE q = p
      <4>1. Apply(k, Complete(k[1])') = Apply(l, TRUE)
        BY <2>1, <2>3, <3>1
      <4>2. k = l /\ Complete(k[1])'
        BY <1>0, <4>1, ApplyFinished
      <4> QED  BY <4>2
    <3>2. CASE q # p
      <4>1. Complete(l[1])
        BY <2>1, <2>3, <3>2 DEF StoreInv, NotedComplete
      <4> QED  BY <1>2, <2>2, <4>1, KeyPiece
    <3> QED  BY <3>1, <3>2
  <2>4. ASSUME NEW i \in pieces_completed'
        PROVE  Complete(i)'
    <3>1. Complete(i)
      BY <2>1, <2>4 DEF StoreInv, TrackerMatchesStore
    <3>2. i \in Pieces \ {k[1]}
      BY <1>2, <2>1, <3>1 DEF TypeOK
    <3> QED  BY <2>2, <3>1, <3>2
  <2>5. ASSUME NEW i \in Pieces, Complete(i)'
        PROVE  \/ i \in pieces_completed'
               \/ \E q \in Peers, l \in BlocksOf(i) : handler'[q] = Apply(l, TRUE)
    <3>1. CASE i = k[1]
      <4>1. Complete(k[1])' = TRUE
        BY <1>0, <2>5, <3>1
      <4>2. handler'[p] = Apply(k, TRUE) /\ k \in BlocksOf(i)
        BY <2>1, <3>1, <4>1 DEF BlocksOf
      <4> QED  BY <4>2
    <3>2. CASE i # k[1]
      <4>1. Complete(i)
        BY <2>2, <2>5, <3>2
      <4>2. CASE i \in pieces_completed
        BY <2>1, <4>2
      <4>3. CASE \E q \in Peers, l \in BlocksOf(i) : handler[q] = Apply(l, TRUE)
        <5>1. PICK q \in Peers, l \in BlocksOf(i) : handler[q] = Apply(l, TRUE)
          BY <4>3
        <5>2. q # p
          BY <2>1, <5>1, PlacesApart
        <5> QED  BY <2>1, <5>1, <5>2
      <4> QED  BY <4>1, <4>2, <4>3 DEF StoreInv, CompletionNeverLost
    <3> QED  BY <3>1, <3>2
  <2> QED  BY <2>3, <2>4, <2>5 DEF StoreInv, NotedComplete, TrackerMatchesStore, CompletionNeverLost
<1> QED  BY <1>1, <1>2

\* The tracker is told: what was about to be completed is, and nothing else.
LEMMA NotingStore ==
    ASSUME Typed, AskedStarted, StoreInv, NEW p \in Peers, ApplyPiece(p)
    PROVE  StoreInv'
<1>1. PICK k \in BlockKeys, f \in BOOLEAN :
        /\ handler[p] = Apply(k, f) /\ UNCHANGED slices
        /\ handler'[p] = Signal(IF f THEN PieceComplete(k[1]) ELSE Wakeup)
        /\ \A q \in Peers \ {p} : handler'[q] = handler[q]
        /\ pieces_completed' = IF f THEN pieces_completed \cup {k[1]} ELSE pieces_completed
  BY Noting
<1>2. \A i : Complete(i)' <=> Complete(i)
  BY <1>1 DEF Complete
<1>3. \A q \in Peers : \A l : handler'[q] = Apply(l, TRUE) => handler[q] = Apply(l, TRUE)
  <2>1. \A l, msg : Apply(l, TRUE) # Signal(msg)
    BY PlacesApart, Zenon
  <2> QED  BY <1>1, <2>1
<1>4. NotedComplete'
  BY <1>2, <1>3 DEF StoreInv, NotedComplete
<1>5. f => Complete(k[1])
  BY <1>1 DEF StoreInv, NotedComplete
<1>6. TrackerMatchesStore'
  BY <1>1, <1>2, <1>5 DEF StoreInv, TrackerMatchesStore
<1>7. ASSUME NEW i \in Pieces, Complete(i)'
      PROVE  \/ i \in pieces_completed'
             \/ \E q \in Peers, l \in BlocksOf(i) : handler'[q] = Apply(l, TRUE)
  <2>1. CASE i \in pieces_completed
    BY <1>1, <2>1
  <2>2. CASE \E q \in Peers, l \in BlocksOf(i) : handler[q] = Apply(l, TRUE)
    <3>1. PICK q \in Peers, l \in BlocksOf(i) : handler[q] = Apply(l, TRUE)
      BY <2>2
    <3>2. CASE q = p
      <4>1. Apply(k, f) = Apply(l, TRUE)
        BY <1>1, <3>1, <3>2
      <4>2. k = l /\ f
        BY <4>1, ApplyFinished
      <4> QED  BY <1>1, <3>1, <4>2 DEF BlocksOf
    <3>3. CASE q # p
      BY <1>1, <3>1, <3>3
    <3> QED  BY <3>2, <3>3
  <2>3. Complete(i)
    BY <1>2, <1>7
  <2> QED  BY <2>1, <2>2, <2>3 DEF StoreInv, CompletionNeverLost
<1> QED  BY <1>4, <1>6, <1>7 DEF StoreInv, CompletionNeverLost

\* The store and the tracker never part.
LEMMA NextStore ==
    ASSUME TypeOK, Typed, AskedStarted, StoreInv, [Next]_vars
    PROVE  StoreInv'
<1>1. CASE Quiet
  <2>1. /\ UNCHANGED pieces_completed
        /\ \A q \in Peers : \A k : handler'[q] = Apply(k, TRUE) <=> handler[q] = Apply(k, TRUE)
    BY <1>1, Zenon DEF Quiet
  <2>2. \A i : Complete(i)' <=> Complete(i)
    BY <1>1 DEF Quiet, Complete
  <2>3. NotedComplete'
    BY <2>1, <2>2 DEF StoreInv, NotedComplete
  <2>4. TrackerMatchesStore'
    BY <2>1, <2>2 DEF StoreInv, TrackerMatchesStore
  <2>5. CompletionNeverLost'
    BY <2>1, <2>2 DEF StoreInv, CompletionNeverLost
  <2> QED  BY <2>3, <2>4, <2>5 DEF StoreInv
<1> QED  BY <1>1, QuietSteps, ArrivalStore, NotingStore

-----------------------------------------------------------------------------
(* Announcements.                                                          *)

\* Is the announcement of piece i on its way to the loop?
Pending(i) ==
    \/ \E n \in 1 .. Len(wake) : wake[n] = PieceComplete(i)
    \/ \E q \in Peers : handler[q] = Signal(PieceComplete(i))

\* Announcements stay on their way when the channel and the places of the
\* handlers that wait to send do.
LEMMA PendingKept ==
    ASSUME NEW i, Pending(i), UNCHANGED wake,
           \A q \in Peers : handler[q] = Signal(PieceComplete(i)) => handler'[q] = Signal(PieceComplete(i))
    PROVE  Pending(i)'
BY DEF Pending

\* An announcement in the channel stays there when a message is added.
LEMMA PendingAppended ==
    ASSUME wake \in Seq(Messages), NEW msg \in Messages, wake' = Append(wake, msg)
    PROVE  /\ \A i : (\E n \in 1 .. Len(wake) : wake[n] = PieceComplete(i)) => Pending(i)'
           /\ \A i : msg = PieceComplete(i) => Pending(i)'
<1>1. /\ Len(wake') = Len(wake) + 1 /\ Len(wake) \in Nat
      /\ \A n \in 1 .. Len(wake) : wake'[n] = wake[n]
      /\ wake'[Len(wake) + 1] = msg
  BY AppendProperties
<1>2. ASSUME NEW i, NEW n \in 1 .. Len(wake), wake[n] = PieceComplete(i)
      PROVE  Pending(i)'
  <2>1. n \in 1 .. Len(wake') /\ wake'[n] = PieceComplete(i)
    BY <1>1, <1>2
  <2> QED  BY <2>1 DEF Pending
<1>3. ASSUME NEW i, msg = PieceComplete(i)
      PROVE  Pending(i)'
  <2>1. Len(wake) + 1 \in 1 .. Len(wake') /\ wake'[Len(wake) + 1] = PieceComplete(i)
    BY <1>1, <1>3
  <2> QED  BY <2>1 DEF Pending
<1> QED  BY <1>2, <1>3

\* A step that sends nothing, and by which no handler stops waiting to send,
\* keeps the announcements if it adds no completed piece and no peer.
LEMMA AnnouncedKept ==
    ASSUME AnnouncedOrPending, Typed, UNCHANGED <<wake, pieces_completed, haves>>,
           Open(peer_to_tx)' \subseteq Open(peer_to_tx),
           \A q \in Peers : \A msg : handler[q] = Signal(msg) => handler'[q] = Signal(msg)
    PROVE  AnnouncedOrPending'
<1> SUFFICES ASSUME NEW p \in Open(peer_to_tx)', NEW i \in pieces_completed' \ haves'[p]
             PROVE  Pending(i)'
  BY DEF AnnouncedOrPending, Pending
<1>1. Pending(i)
  BY DEF AnnouncedOrPending, Pending
<1> QED  BY <1>1, PendingKept

\* A handler that was not waiting to send moves: the others wait as before.
LEMMA MovesUnsent ==
    ASSUME Typed, NEW p \in Peers, NEW h, handler' = [handler EXCEPT ![p] = h],
           \A msg : handler[p] # Signal(msg)
    PROVE  \A q \in Peers : \A msg : handler[q] = Signal(msg) => handler'[q] = Signal(msg)
<1>1. handler \in [Peers -> Places]
  BY DEF Typed
<1>2. \A q \in Peers : handler'[q] = IF q = p THEN h ELSE handler[q]
  BY <1>1
<1> QED  BY <1>2

\* Messages that a handler takes from its peer announce nothing.
LEMMA HandlesAnnounced ==
    ASSUME Typed, AnnouncedOrPending, NEW p \in Peers, Handles(p) \/ HandlerEnds(p)
    PROVE  AnnouncedOrPending'
<1>1. /\ handler[p] = Recv /\ \E h : handler' = [handler EXCEPT ![p] = h]
      /\ UNCHANGED <<wake, pieces_completed, haves, conn, peer_to_tx>>
  <2>1. CASE \E choke \in BOOLEAN : HandleFlag(p, choke)
    BY <2>1 DEF HandleFlag, HandlesAndSignals, trackerVars
  <2>2. CASE \E pieces \in SUBSET Pieces : HandlePieces(p, pieces)
    BY <2>2 DEF HandlePieces, HandlesAndSignals, trackerVars
  <2>3. CASE \E k \in BlockKeys : HandlePiece(p, k)
    BY <2>3 DEF HandlePiece, trackerVars
  <2>4. CASE HandlerEnds(p)
    BY <2>4 DEF HandlerEnds, trackerVars
  <2> QED  BY <2>1, <2>2, <2>3, <2>4 DEF Handles
<1>2. \A msg : handler[p] # Signal(msg)
  BY <1>1, PlacesApart
<1>3. Open(peer_to_tx)' \subseteq Open(peer_to_tx)
  BY <1>1 DEF Open
<1> QED  BY <1>1, <1>2, <1>3, MovesUnsent, AnnouncedKept

\* The handler that completes a piece waits to announce it next.
LEMMA NotingAnnounced ==
    ASSUME Typed, AskedStarted, AnnouncedOrPending, NEW p \in Peers, ApplyPiece(p)
    PROVE  AnnouncedOrPending'
<1>1. PICK k \in BlockKeys, f \in BOOLEAN :
        /\ handler[p] = Apply(k, f) /\ UNCHANGED <<wake, haves, conn, peer_to_tx>>
        /\ handler'[p] = Signal(IF f THEN PieceComplete(k[1]) ELSE Wakeup)
        /\ \A q \in Peers \ {p} : handler'[q] = handler[q]
        /\ pieces_completed' = IF f THEN pieces_completed \cup {k[1]} ELSE pieces_completed
  BY Noting
<1> SUFFICES ASSUME NEW o \in Open(peer_to_tx)', NEW i \in pieces_completed' \ haves'[o]
             PROVE  Pending(i)'
  BY DEF AnnouncedOrPending, Pending
<1>2. CASE i \in pieces_completed
  <2>1. Pending(i)
    BY <1>1, <1>2 DEF AnnouncedOrPending, Pending, Open
  <2>2. \A msg : handler[p] # Signal(msg)
    BY <1>1, PlacesApart
  <2> QED  BY <1>1, <2>1, <2>2, PendingKept
<1>3. CASE i \notin pieces_completed
  <2>1. f /\ i = k[1]
    BY <1>1, <1>3
  <2>2. handler'[p] = Signal(PieceComplete(i))
    BY <1>1, <2>1
  <2> QED  BY <2>2 DEF Pending
<1> QED  BY <1>2, <1>3

\* A handler's message enters the channel as it stops waiting to send.
LEMMA SendAnnounced ==
    ASSUME Typed, AnnouncedOrPending, NEW p \in Peers, SendWake(p)
    PROVE  AnnouncedOrPending'
<1>1. PICK msg \in Messages : handler[p] = Signal(msg) /\ wake' = Append(wake, msg)
  BY DEF SendWake, Messages
<1>2. /\ handler' = [handler EXCEPT ![p] = Recv]
      /\ UNCHANGED <<pieces_completed, haves, conn, peer_to_tx>>
      /\ wake \in Seq(Messages) /\ handler \in [Peers -> Places]
  BY DEF SendWake, Typed, trackerVars
<1> SUFFICES ASSUME NEW o \in Open(peer_to_tx)', NEW i \in pieces_completed' \ haves'[o]
             PROVE  Pending(i)'
  BY DEF AnnouncedOrPending, Pending
<1>3. Pending(i)
  BY <1>2 DEF AnnouncedOrPending, Pending, Open
<1>4. CASE \E n \in 1 .. Len(wake) : wake[n] = PieceComplete(i)
  BY <1>1, <1>2, <1>4, PendingAppended
<1>5. CASE \E q \in Peers : handler[q] = Signal(PieceComplete(i))
  <2>1. PICK q \in Peers : handler[q] = Signal(PieceComplete(i))
    BY <1>5
  <2>2. CASE q = p
    <3>1. msg = PieceComplete(i)
      BY <1>1, <2>1, <2>2, PlacesApart
    <3> QED  BY <1>1, <1>2, <3>1, PendingAppended
  <2>3. CASE q # p
    <3>1. handler'[q] = Signal(PieceComplete(i))
      BY <1>2, <2>1, <2>3
    <3> QED  BY <3>1 DEF Pending
  <2> QED  BY <2>2, <2>3
<1> QED  BY <1>3, <1>4, <1>5 DEF Pending

\* A new peer gets a bitfield with every completed piece; one that goes is
\* told nothing any more.
LEMMA PeerAnnounced ==
    ASSUME Typed, AnnouncedOrPending, NEW p \in Peers, Accept(p) \/ Reap(p) \/ Leave(p)
    PROVE  AnnouncedOrPending'
<1>1. CASE Accept(p)
  <2>1. /\ handler[p] = Idle /\ handler' = [handler EXCEPT ![p] = Recv]
        /\ conn' = [conn EXCEPT ![p] = "open"] /\ haves' = [haves EXCEPT ![p] = pieces_completed]
        /\ peer_to_tx' = peer_to_tx \cup {p} /\ UNCHANGED <<wake, pieces_completed>>
    BY <1>1 DEF Accept, trackerVars
  <2>2. /\ haves \in [Peers -> SUBSET Pieces] /\ peer_to_tx \subseteq Peers
        /\ conn \in [Peers -> {"new", "open", "closed"}]
    BY DEF Typed, DownloadTypeOK
  <2> SUFFICES ASSUME NEW o \in Open(peer_to_tx)', NEW i \in pieces_completed' \ haves'[o]
               PROVE  Pending(i)'
    BY DEF AnnouncedOrPending, Pending
  <2>3. o # p
    BY <2>1, <2>2
  <2>4. o \in Open(peer_to_tx) /\ haves'[o] = haves[o]
    BY <2>1, <2>2, <2>3 DEF Open
  <2>5. Pending(i)
    BY <2>1, <2>4 DEF AnnouncedOrPending, Pending
  <2>6. \A msg : handler[p] # Signal(msg)
    BY <2>1, PlacesApart
  <2> QED  BY <2>1, <2>5, <2>6, MovesUnsent, PendingKept
<1>2. CASE Reap(p)
  <2>1. /\ handler[p] = Exited /\ handler' = [handler EXCEPT ![p] = Idle]
        /\ conn' = [conn EXCEPT ![p] = "closed"]
        /\ peer_to_tx' = peer_to_tx \ {p} /\ UNCHANGED <<wake, pieces_completed, haves>>
    BY <1>2 DEF Reap, trackerVars
  <2>2. Open(peer_to_tx)' \subseteq Open(peer_to_tx)
    BY <2>1 DEF Open, Typed, DownloadTypeOK
  <2>3. \A msg : handler[p] # Signal(msg)
    BY <2>1, PlacesApart
  <2> QED  BY <2>1, <2>2, <2>3, MovesUnsent, AnnouncedKept
<1>3. CASE Leave(p)
  <2>1. /\ conn' = [conn EXCEPT ![p] = "closed"]
        /\ UNCHANGED <<wake, pieces_completed, haves, handler, peer_to_tx>>
    BY <1>3 DEF Leave, trackerVars
  <2>2. Open(peer_to_tx)' \subseteq Open(peer_to_tx)
    BY <2>1 DEF Open, Typed, DownloadTypeOK
  <2> QED  BY <2>1, <2>2, AnnouncedKept
<1> QED  BY <1>1, <1>2, <1>3

\* The loop takes a message: the peers that are still there hear of its piece,
\* and the other messages move up.
LEMMA WakeUpAnnounced ==
    ASSUME TypeOK, Typed, AnnouncedOrPending, WakeUp
    PROVE  AnnouncedOrPending'
<1>1. /\ wake # <<>> /\ wake' = Tail(wake) /\ peer_to_tx' = Open(peer_to_tx)
      /\ haves' = Announced(Head(wake), peer_to_tx')
      /\ UNCHANGED <<conn, handler>>
  BY DEF WakeUp
<1>2. UNCHANGED pieces_completed
  BY DEF WakeUp, Dispatch, ComputeRequests
<1>3. wake \in Seq(Messages) /\ peer_to_tx' \in SUBSET Peers
  BY <1>1 DEF Typed, DownloadTypeOK, Open
<1> SUFFICES ASSUME NEW o \in Open(peer_to_tx)', NEW i \in pieces_completed' \ haves'[o]
             PROVE  Pending(i)'
  BY DEF AnnouncedOrPending, Pending
<1>4. o \in peer_to_tx' /\ o \in Open(peer_to_tx) /\ o \in Peers /\ i \in Pieces
  BY <1>1, <1>2, <1>3 DEF Open, TypeOK
<1>5. haves[o] \subseteq haves'[o] /\ (Head(wake) = PieceComplete(i) => i \in haves'[o])
  BY <1>1, <1>3, <1>4, HeadTail, AnnouncedTo
<1>6. Pending(i)
  BY <1>2, <1>4, <1>5 DEF AnnouncedOrPending, Pending
<1>7. CASE \E n \in 1 .. Len(wake) : wake[n] = PieceComplete(i)
  <2>1. PICK n \in 1 .. Len(wake) : wake[n] = PieceComplete(i)
    BY <1>7
  <2>2. n # 1
    BY <1>1, <1>3, <1>5, <2>1, HeadTail
  <2>3. n - 1 \in 1 .. Len(wake') /\ wake'[n - 1] = PieceComplete(i)
    BY <1>1, <1>3, <2>1, <2>2, HeadTail
  <2> QED  BY <2>3 DEF Pending
<1>8. CASE \E q \in Peers : handler[q] = Signal(PieceComplete(i))
  BY <1>1, <1>8 DEF Pending
<1> QED  BY <1>6, <1>7, <1>8 DEF Pending

\* Every step keeps the announcements.
LEMMA NextAnnounced ==
    ASSUME TypeOK, Typed, AskedStarted, AnnouncedOrPending, [Next]_vars
    PROVE  AnnouncedOrPending'
<1>1. CASE UNCHANGED vars \/ Tick \/ Clock
  <2>1. UNCHANGED <<wake, pieces_completed, haves, handler, conn, peer_to_tx>>
    BY <1>1 DEF vars, loopVars, trackerVars, Tick, RemoveExpired, Clock, PassTime
  <2>2. Open(peer_to_tx)' \subseteq Open(peer_to_tx)
    BY <2>1 DEF Open
  <2> QED  BY <2>1, <2>2, AnnouncedKept
<1>2. CASE TickSends
  <2>1. /\ wake' = Append(wake, Wakeup) /\ wake \in Seq(Messages) /\ Wakeup \in Messages
        /\ UNCHANGED <<pieces_completed, haves, handler, conn, peer_to_tx>>
    BY <1>2 DEF TickSends, Typed, Messages, trackerVars
  <2> SUFFICES ASSUME NEW o \in Open(peer_to_tx)', NEW i \in pieces_completed' \ haves'[o]
               PROVE  Pending(i)'
    BY DEF AnnouncedOrPending, Pending
  <2>2. Pending(i)
    BY <2>1 DEF AnnouncedOrPending, Pending, Open
  <2>3. CASE \E n \in 1 .. Len(wake) : wake[n] = PieceComplete(i)
    BY <2>1, <2>3, PendingAppended
  <2>4. CASE \E q \in Peers : handler[q] = Signal(PieceComplete(i))
    BY <2>1, <2>4 DEF Pending
  <2> QED  BY <2>2, <2>3, <2>4 DEF Pending
<1> QED  BY <1>1, <1>2, HandlesAnnounced, NotingAnnounced, SendAnnounced, PeerAnnounced,
            WakeUpAnnounced DEF Next, Runs

-----------------------------------------------------------------------------
(* The theorems.                                                           *)

\* The first state.
LEMMA InitDInv == Init => DInv
<1> SUFFICES ASSUME Init PROVE DInv
  OBVIOUS
<1>1. IInv /\ PeersInv
  BY InitIInv, PeersInitInv DEF Init
<1>2. Typed
  <2>1. handler \in [Peers -> Places]
    BY DEF Init, Places
  <2>2. wake \in Seq(Messages) /\ Len(wake) = 0 /\ DOMAIN slices = Pieces
    BY DEF Init
  <2>3. DownloadTypeOK
    BY <2>1, <2>2, PlaceTags, DownloadAssumption DEF Init, DownloadTypeOK
  <2> QED  BY <2>1, <2>2, <2>3 DEF Typed
<1>3. \A p \in Peers : \A k, f : handler[p] # Apply(k, f)
  BY PlacesApart DEF Init
<1>4. AskedStarted
  BY <1>3 DEF AskedStarted, Init
<1>5. StoreInv
  <2>1. \A i \in Pieces : ~Complete(i)
    BY DEF Init, Complete, IsComplete
  <2>2. NotedComplete
    <3>1. \A p \in Peers : \A k : handler[p] # Apply(k, TRUE)
      BY <1>3, Zenon
    <3> QED  BY <3>1 DEF NotedComplete
  <2>3. TrackerMatchesStore
    BY DEF Init, TrackerInit, TrackerMatchesStore
  <2> QED  BY <2>1, <2>2, <2>3 DEF StoreInv, CompletionNeverLost
<1>6. AnnouncedOrPending
  BY DEF Init, AnnouncedOrPending, Open
<1> QED  BY <1>1, <1>2, <1>4, <1>5, <1>6 DEF DInv

\* Every step keeps the invariant.
LEMMA NextDInv == DInv /\ [Next]_vars => DInv'
<1> SUFFICES ASSUME DInv, [Next]_vars PROVE DInv'
  OBVIOUS
<1>1. IInv /\ TypeOK /\ PeersInv /\ Typed /\ AskedStarted /\ StoreInv /\ AnnouncedOrPending
  BY DEF DInv, IInv
<1>2. IInv'
  BY <1>1, TrackerStep, NextIInv
<1>3. PeersInv'
  BY <1>1, RegistryStep, PeersStepInv
<1> QED  BY <1>1, <1>2, <1>3, NextTyped, NextAsked, NextStore, NextAnnounced DEF DInv

\* The invariant holds in every behaviour of the processor.
THEOREM DownloadInvariant == Spec => []DInv
  BY InitDInv, NextDInv, PTL DEF Spec

\* TorrentProcessor::start uses the registry as TorrentState allows, whatever the
\* order of its handlers, ticks and wake-ups: what is proved of PeersSpec holds of
\* the registry inside the processor.
THEOREM ProcessorUsesRegistry == Spec => PeersSpec
<1>1. Init => PeersInit
  BY DEF Init
<1>2. DInv /\ [Next]_vars => [PeersNext]_peerVars
  BY RegistryStep DEF DInv, IInv
<1> QED  BY <1>1, <1>2, DownloadInvariant, PTL DEF Spec, PeersSpec

\* The processor's variables keep their types; in particular the wake-up
\* channel of start never holds more than it has room for.
THEOREM DownloadTypeCorrect == Spec => []DownloadTypeOK
<1>1. DInv => DownloadTypeOK
  BY DEF DInv, Typed
<1> QED  BY <1>1, DownloadInvariant, PTL

\* A piece set_piece_finished was called for is complete in the store, although
\* io.write and the call are separate steps of the handler.
THEOREM TrackerAlwaysMatchesStore == Spec => []TrackerMatchesStore
<1>1. DInv => TrackerMatchesStore
  BY DEF DInv, StoreInv
<1> QED  BY <1>1, DownloadInvariant, PTL

\* A piece that io.write completed reaches set_piece_finished or is on its way
\* to it, whatever becomes of the peer.
THEOREM CompletionsNeverLost == Spec => []CompletionNeverLost
<1>1. DInv => CompletionNeverLost
  BY DEF DInv, StoreInv
<1> QED  BY <1>1, DownloadInvariant, PTL

\* A connected peer knows of every completed piece, or announce_piece is still
\* to come for it.
THEOREM AnnouncementsNeverLost == Spec => []AnnouncedOrPending
<1>1. DInv => AnnouncedOrPending
  BY DEF DInv
<1> QED  BY <1>1, DownloadInvariant, PTL

-----------------------------------------------------------------------------
(* Peers that answer before the timeout and do not leave. *)

\* Blocks begin at multiples of the block size.
LEMMA BlocksDisjoint ==
    ASSUME NEW B \in Nat \ {0}, NEW a \in Nat, NEW c \in Nat, a % B = 0, c % B = 0, a < c
    PROVE  a + B <= c
<1>1. PICK x \in Nat : a = B * x
  BY Z3
<1>2. PICK y \in Nat : c = B * y
  OBVIOUS
<1>3. x < y
  <2> SUFFICES ASSUME y <= x PROVE FALSE
    BY <1>1, <1>2
  <2>1. PICK d \in Nat : x = y + d
    <3>1. x - y \in Nat /\ x = y + (x - y)
      BY <1>1, <1>2
    <3> QED BY <3>1
  <2>2. B * (y + d) = B * y + B * d
    BY <1>2, <2>1
  <2>3. B * d \in Nat
    BY <2>1
  <2> QED BY <1>1, <1>2, <2>1, <2>2, <2>3
<1>4. PICK d \in Nat : y = x + 1 + d
  <2>1. y - (x + 1) \in Nat /\ y = x + 1 + (y - (x + 1))
    BY <1>1, <1>2, <1>3
  <2> QED BY <2>1
<1>5. B * (x + 1 + d) = B * x + B + B * d /\ B * d \in Nat
  BY <1>1, <1>4
<1> QED BY <1>1, <1>2, <1>4, <1>5

-----------------------------------------------------------------------------
\* What a block covers of its piece.
Bytes(k) == k[2] .. k[2] + RequestLength(k[1], k[2]) - 1

Here(k) == k[2] \in Cover(slices[k[1]])

\* Is the handler at place h about to note block k?
Notes(h, k) == \E f \in BOOLEAN : h = Apply(k, f)

\* All peers are as reliable as ReliablePeersKept wants them.
Reliable == Prompt /\ Fickle = {}

\* Nobody leaves: a peer that has come is connected and handled.
NobodyGone ==
    \A p \in Peers :
        /\ conn[p] \in {"new", "open"}
        /\ p \in peer_to_tx <=> conn[p] = "open"
        /\ conn[p] = "new" => handler[p] = Idle
        /\ conn[p] = "open" => handler[p] \notin {Idle, Exited}
        /\ p \in peers => conn[p] = "open"

\* The store holds whole blocks.
WholeBlocks ==
    /\ \A i \in Pieces : Apart(slices[i])
    /\ \A k \in BlockKeys : ~Here(k) => Bytes(k) \cap Cover(slices[k[1]]) = {}

\* A block that is asked for is in flight, asked for once, and not here.
AskedOnce ==
    \A p \in Peers, k \in BlockKeys : sent[p][k] > 0 =>
        /\ p \in peer_to_tx /\ k \in downloading /\ ~Here(k) /\ sent[p][k] = 1
        /\ \A q \in Peers : sent[q][k] > 0 => q = p

\* A block in flight is asked for or about to be noted.
FlightsEnd ==
    \A k \in downloading :
        \E p \in Peers : sent[p][k] > 0 \/ Notes(handler[p], k)

\* A block that is about to be noted is here, and what is here is not free to be
\* assigned.
HereKnown ==
    /\ \A p \in Peers, k \in BlockKeys : Notes(handler[p], k) => Here(k)
    /\ \A k \in BlockKeys : Here(k) => contains_inprogress(k) \/ k[1] \in pieces_completed

\* What was ever assigned is not free again, and time has not passed since a
\* block in flight was assigned.
QueueFresh ==
    \A n \in 1 .. Len(expirations) : \A k \in expirations[n].keys :
        /\ contains_inprogress(k) \/ k[1] \in pieces_completed
        /\ k \in downloading => expirations[n].age = 0

\* A completed piece is not listed as incomplete.
IncompleteIsIncomplete == get_incomplete_pieces \cap pieces_completed = {}

RInv ==
    /\ NobodyGone /\ WholeBlocks /\ AskedOnce /\ FlightsEnd /\ HereKnown /\ QueueFresh
    /\ IncompleteIsIncomplete

-----------------------------------------------------------------------------
\* A block begins within its piece, is not empty and does not overlap another.
LEMMA BlockBytes ==
    ASSUME NEW k \in BlockKeys
    PROVE  /\ k[1] \in Pieces /\ k[2] \in Nat /\ RequestLength(k[1], k[2]) \in Nat \ {0}
           /\ piece_len(k[1]) \in Nat \ {0}
           /\ k[2] \in 0 .. piece_len(k[1]) - 1 /\ k[2] \in Bytes(k)
           /\ \A l \in BlockKeys : l[1] = k[1] /\ l # k => Bytes(l) \cap Bytes(k) = {}
<1>1. /\ k \in Pieces \X (0 .. PieceLength - 1) /\ k[1] \in Pieces /\ k[2] \in 0 .. PieceLength - 1
      /\ k[2] < piece_len(k[1]) /\ k[2] % BlockSize = 0
  BY DEF BlockKeys, Begins
<1>2. TotalPieces \in Nat \ {0} /\ PieceLength \in Nat \ {0} /\ Length \in Nat /\ BlockSize \in Nat \ {0}
  BY LayoutAssumption
<1>3. piece_len(k[1]) \in Nat \ {0}
  <2>1. LastPieceSize \in Int
    <3>1. (TotalPieces - 1) * PieceLength \in Int
      BY <1>2
    <3> QED  BY <1>2, <3>1 DEF LastPieceSize
  <2>2. piece_len(k[1]) \in Int
    BY <1>2, <2>1 DEF piece_len
  <2> QED  BY <1>1, <1>2, <2>2
<1>4. ASSUME NEW l \in BlockKeys, l[1] = k[1]
      PROVE  /\ l[2] \in Nat /\ RequestLength(k[1], l[2]) \in Nat \ {0}
             /\ RequestLength(k[1], l[2]) <= BlockSize /\ l[2] % BlockSize = 0
             /\ Bytes(l) = l[2] .. l[2] + RequestLength(k[1], l[2]) - 1
             /\ l = <<l[1], l[2]>>
  <2>1. l \in Pieces \X (0 .. PieceLength - 1) /\ l[2] < piece_len(k[1]) /\ l[2] % BlockSize = 0
    BY <1>4 DEF BlockKeys, Begins
  <2>2. l[2] \in Nat /\ l = <<l[1], l[2]>>
    BY <1>2, <2>1
  <2>3. PICK L \in Nat \ {0} : L = piece_len(k[1])
    BY <1>3
  <2>4. RequestLength(k[1], l[2]) = IF l[2] + BlockSize > L THEN L - l[2] ELSE BlockSize
    BY <2>3 DEF RequestLength
  <2> QED  BY <1>2, <1>4, <2>1, <2>2, <2>3, <2>4 DEF Bytes
<1>5. k[2] \in Bytes(k)
  BY <1>4
<1>6. ASSUME NEW l \in BlockKeys, l[1] = k[1], l # k, NEW x \in Bytes(l), x \in Bytes(k)
      PROVE  FALSE
  <2>1. l[2] # k[2]
    BY <1>4, <1>6
  <2>2. PICK m \in Nat, n \in Nat : m = RequestLength(k[1], l[2]) /\ n = RequestLength(k[1], k[2])
    BY <1>4, <1>6
  <2>3. /\ l[2] \in Nat /\ k[2] \in Nat /\ m <= BlockSize /\ n <= BlockSize
        /\ l[2] % BlockSize = 0 /\ k[2] % BlockSize = 0
        /\ x \in l[2] .. l[2] + m - 1 /\ x \in k[2] .. k[2] + n - 1
    BY <1>4, <1>6, <2>2
  <2>4. l[2] + BlockSize <= k[2] \/ k[2] + BlockSize <= l[2]
    <3>1. l[2] < k[2] \/ k[2] < l[2]
      BY <2>1, <2>3
    <3> QED  BY <1>2, <2>3, <3>1, BlocksDisjoint
  <2> QED  BY <1>2, <2>2, <2>3, <2>4
<1> QED  BY <1>1, <1>2, <1>3, <1>4, <1>5, <1>6

\* The places at which a block is noted.
LEMMA NotesPlaces ==
    /\ \A k, l, h : Notes(h, k) /\ Notes(h, l) => k = l
    /\ \A k : \A f \in BOOLEAN : Notes(Apply(k, f), k)
    /\ \A k : ~Notes(Idle, k) /\ ~Notes(Recv, k) /\ ~Notes(Exited, k)
    /\ \A k, msg : ~Notes(Signal(msg), k)
<1>1. \A k : ~Notes(Idle, k) /\ ~Notes(Recv, k) /\ ~Notes(Exited, k)
  BY PlacesApart, Zenon DEF Notes
<1>2. \A k, msg : ~Notes(Signal(msg), k)
  BY PlacesApart, Zenon DEF Notes
<1>3. \A k, l, h : Notes(h, k) /\ Notes(h, l) => k = l
  <2>1. \A k, f : Apply(k, f)[2] = k
    BY DEF Apply
  <2>2. \A h, k : Notes(h, k) => h[2] = k
    BY <2>1, Zenon DEF Notes
  <2> QED  BY <2>2, Zenon
<1>4. \A k : \A f \in BOOLEAN : Notes(Apply(k, f), k)
  BY Zenon DEF Notes
<1> QED  BY <1>1, <1>2, <1>3, <1>4, Zenon

\* A piece that is complete has all its blocks.
LEMMA CompleteHere ==
    ASSUME WholeBlocks, NEW k \in BlockKeys, Complete(k[1])
    PROVE  Here(k)
<1>1. /\ Apart(slices[k[1]]) /\ k[1] \in Pieces
      /\ k[2] \in 0 .. piece_len(k[1]) - 1 /\ piece_len(k[1]) \in Nat \ {0}
  BY BlockBytes DEF WholeBlocks
<1>2. Cover(slices[k[1]]) = 0 .. piece_len(k[1]) - 1
  BY <1>1, WholePiece DEF Complete
<1> QED  BY <1>1, <1>2 DEF Here

\* A block that was not here is added to the store, whole and alone.
LEMMA StoreBlock ==
    ASSUME WholeBlocks, DOMAIN slices = Pieces, NEW k \in BlockKeys, ~Here(k),
           slices' = [slices EXCEPT ![k[1]] = InsertSlice(@, k[2], RequestLength(k[1], k[2]))]
    PROVE  /\ WholeBlocks'
           /\ \A l \in BlockKeys : Here(l)' <=> Here(l) \/ l = k
           /\ Cover(slices'[k[1]]) = Cover(slices[k[1]]) \cup Bytes(k)
<1> DEFINE i == k[1]
           s == slices[i]
           len == RequestLength(k[1], k[2])
           t == InsertSlice(s, k[2], len)
<1>1. /\ i \in Pieces /\ k[2] \in Nat /\ len \in Nat \ {0} /\ k[2] \in Bytes(k)
      /\ \A l \in BlockKeys : l[1] = i /\ l # k => Bytes(l) \cap Bytes(k) = {}
  BY BlockBytes
<1>2. Bytes(k) = k[2] .. k[2] + len - 1
  BY Zenon DEF Bytes
<1>3. Apart(s) /\ Bytes(k) \cap Cover(s) = {}
  BY <1>1 DEF WholeBlocks
<1>4. slices'[i] = t /\ \A j \in Pieces : j # i => slices'[j] = slices[j]
  BY <1>1
<1> HIDE DEF i, s, len, t
<1>5. Exact(s, t, k[2], k[2] + len)
  BY <1>1, <1>2, <1>3, NewBlock DEF t
<1>6. Apart(t) /\ Cover(t) = Cover(s) \cup Bytes(k)
  <2>1. Apart(t) /\ Cover(t) = Cover(s) \cup (k[2] .. (k[2] + len) - 1)
    BY <1>5, Zenon DEF Exact
  <2>2. (k[2] + len) - 1 = k[2] + len - 1
    BY <1>1
  <2> QED  BY <1>2, <2>1, <2>2, Zenon
<1>7. ASSUME NEW l \in BlockKeys
      PROVE  /\ l[1] = i => (l[2] \in Cover(t) <=> l[2] \in Cover(s) \/ l = k)
             /\ l[1] = i /\ l[2] \notin Cover(t) => Bytes(l) \cap Cover(t) = {}
  <2>1. l[2] \in Bytes(l) /\ l[1] \in Pieces
    BY <1>7, BlockBytes
  <2>2. CASE l = k
    BY <1>1, <1>6, <2>2
  <2>3. CASE l # k /\ l[1] = i
    <3>1. Bytes(l) \cap Bytes(k) = {} /\ l[2] \notin Bytes(k)
      BY <1>1, <1>7, <2>1, <2>3
    <3>2. l[2] \notin Cover(s) => Bytes(l) \cap Cover(s) = {}
      BY <1>7, <2>3 DEF WholeBlocks, Here, s, i
    <3> QED  BY <1>6, <2>3, <3>1, <3>2
  <2> QED  BY <2>2, <2>3
<1>8. \A l \in BlockKeys : Here(l)' <=> Here(l) \/ l = k
  <2> SUFFICES ASSUME NEW l \in BlockKeys
               PROVE  l[2] \in Cover(slices'[l[1]]) <=> l[2] \in Cover(slices[l[1]]) \/ l = k
    BY DEF Here
  <2>1. l[1] \in Pieces
    BY KeyPiece
  <2>2. CASE l[1] = i
    BY <1>4, <1>7, <2>2 DEF s
  <2>3. CASE l[1] # i
    BY <1>4, <2>1, <2>3 DEF i
  <2> QED  BY <2>2, <2>3
<1>9. WholeBlocks'
  <2>1. ASSUME NEW j \in Pieces PROVE Apart(slices'[j])
    BY <1>4, <1>6, <2>1 DEF WholeBlocks
  <2>2. ASSUME NEW l \in BlockKeys, l[2] \notin Cover(slices'[l[1]])
        PROVE  Bytes(l) \cap Cover(slices'[l[1]]) = {}
    <3>1. l[1] \in Pieces
      BY <2>2, KeyPiece
    <3>2. CASE l[1] = i
      BY <1>4, <1>7, <2>2, <3>2
    <3>3. CASE l[1] # i
      BY <1>4, <2>2, <3>1, <3>3 DEF WholeBlocks, Here
    <3> QED  BY <3>2, <3>3
  <2> QED  BY <2>1, <2>2 DEF WholeBlocks, Here, Bytes
<1>10. Cover(slices'[k[1]]) = Cover(slices[k[1]]) \cup Bytes(k)
  BY <1>4, <1>6 DEF i, s
<1> QED  BY <1>8, <1>9, <1>10

\* A handler that moves from and to a place where nothing is noted.
LEMMA NotesKept ==
    ASSUME Typed, NEW p \in Peers, NEW h, handler' = [handler EXCEPT ![p] = h],
           \A k : ~Notes(handler[p], k) /\ ~Notes(h, k)
    PROVE  \A q \in Peers, k \in BlockKeys : Notes(handler'[q], k) <=> Notes(handler[q], k)
<1>1. \A q \in Peers : handler'[q] = IF q = p THEN h ELSE handler[q]
  BY DEF Typed
<1> QED  BY <1>1

\* A step that neither asks for, receives nor notes a block.
LEMMA RQuiet ==
    ASSUME RInv, TypeOK, UNCHANGED <<trackerVars, sent, slices>>, peer_to_tx \subseteq peer_to_tx',
           \A q \in Peers, k \in BlockKeys : Notes(handler'[q], k) <=> Notes(handler[q], k),
           NobodyGone'
    PROVE  RInv'
<1> USE DEF RInv, trackerVars
<1>0. \A k : Here(k)' <=> Here(k)
  BY DEF Here
<1>1. WholeBlocks'
  BY <1>0 DEF WholeBlocks, Bytes
<1>2. AskedOnce'
  BY <1>0 DEF AskedOnce
<1>3. FlightsEnd'
  BY DEF FlightsEnd, TypeOK
<1>4. HereKnown'
  BY <1>0 DEF HereKnown, contains_inprogress
<1>5. QueueFresh' /\ IncompleteIsIncomplete'
  BY DEF QueueFresh, contains_inprogress, IncompleteIsIncomplete, get_incomplete_pieces
<1> QED  BY <1>1, <1>2, <1>3, <1>4, <1>5

\* Flags and announcements of a peer.
LEMMA FlagR ==
    ASSUME Reliable, DInv, RInv, NEW p \in Peers,
           \/ \E choke \in BOOLEAN : HandleFlag(p, choke)
           \/ \E pieces \in SUBSET Pieces : HandlePieces(p, pieces)
    PROVE  RInv'
<1>1. Typed /\ TypeOK /\ handler \in [Peers -> Places] /\ NobodyGone
  BY DEF DInv, IInv, Typed, RInv
<1>2. handler[p] = Recv /\ peers' = peers \cup {p}
  BY DEF HandleFlag, HandlePieces, set_peer_choked_us, add_pieces_for_peer
<1>3. conn[p] = "open"
  BY <1>1, <1>2, PlacesApart DEF NobodyGone
<1>4. handler' = [handler EXCEPT ![p] = Signal(Wakeup)]
      /\ UNCHANGED <<trackerVars, conn, sent, peer_to_tx, slices>>
  BY <1>3 DEF HandleFlag, HandlePieces, HandlesAndSignals
<1>5. NobodyGone'
  BY <1>1, <1>2, <1>3, <1>4, PlacesApart DEF NobodyGone
<1>6. \A q \in Peers, k \in BlockKeys : Notes(handler'[q], k) <=> Notes(handler[q], k)
  BY <1>1, <1>2, <1>4, NotesPlaces, NotesKept
<1> QED  BY <1>1, <1>4, <1>5, <1>6, RQuiet

\* The other steps of a handler that concern no block: a wake-up is sent.  No handler
\* ends.
LEMMA SendR ==
    ASSUME Reliable, DInv, RInv, NEW p \in Peers, SendWake(p) \/ HandlerEnds(p)
    PROVE  RInv'
<1>1. Typed /\ TypeOK /\ handler \in [Peers -> Places] /\ NobodyGone
  BY DEF DInv, IInv, Typed, RInv
<1>2. SendWake(p)
  <2>1. ~HandlerEnds(p)
    BY <1>1 DEF NobodyGone, HandlerEnds
  <2> QED  BY <2>1
<1>3. PICK msg : handler[p] = Signal(msg)
  BY <1>2 DEF SendWake
<1>4. handler' = [handler EXCEPT ![p] = Recv]
      /\ UNCHANGED <<trackerVars, peers, conn, sent, peer_to_tx, slices>>
  BY <1>2 DEF SendWake, peerVars
<1>5. NobodyGone'
  BY <1>1, <1>3, <1>4, PlacesApart DEF NobodyGone
<1>6. \A q \in Peers, k \in BlockKeys : Notes(handler'[q], k) <=> Notes(handler[q], k)
  BY <1>1, <1>3, <1>4, NotesPlaces, NotesKept
<1> QED  BY <1>1, <1>4, <1>5, <1>6, RQuiet

\* A peer comes; none goes.
LEMMA PeerR ==
    ASSUME Reliable, DInv, RInv, NEW p \in Peers, Accept(p) \/ Reap(p) \/ Leave(p)
    PROVE  RInv'
<1>1. /\ Typed /\ TypeOK /\ handler \in [Peers -> Places] /\ NobodyGone
      /\ conn \in [Peers -> {"new", "open", "closed"}]
  BY DEF DInv, IInv, Typed, DownloadTypeOK, RInv
<1>2. Accept(p)
  <2>1. ~Leave(p)
    BY DEF Reliable, Leave
  <2>2. ~Reap(p)
    BY <1>1, PlacesApart DEF NobodyGone, Reap
  <2> QED  BY <2>1, <2>2
<1>3. /\ handler[p] = Idle /\ conn[p] = "new"
      /\ handler' = [handler EXCEPT ![p] = Recv] /\ conn' = [conn EXCEPT ![p] = "open"]
      /\ peer_to_tx' = peer_to_tx \cup {p}
      /\ UNCHANGED <<trackerVars, peers, sent, slices>>
  BY <1>2 DEF Accept, peerVars
<1>4. NobodyGone'
  BY <1>1, <1>3, PlacesApart DEF NobodyGone
<1>5. \A q \in Peers, k \in BlockKeys : Notes(handler'[q], k) <=> Notes(handler[q], k)
  BY <1>1, <1>3, NotesPlaces, NotesKept
<1> QED  BY <1>1, <1>3, <1>4, <1>5, RQuiet

\* A block arrives: it was asked for once and is not here, so its piece is not complete.
LEMMA ArrivalR ==
    ASSUME Reliable, DInv, RInv, NEW p \in Peers, NEW k \in BlockKeys, HandlePiece(p, k)
    PROVE  RInv'
<1>1. /\ Typed /\ TypeOK /\ handler \in [Peers -> Places] /\ DOMAIN slices = Pieces
      /\ sent \in [Peers -> [BlockKeys -> 0 .. MaxRepeats]] /\ MaxRepeats \in Nat
      /\ NobodyGone /\ WholeBlocks /\ AskedOnce /\ FlightsEnd /\ HereKnown /\ QueueFresh
      /\ IncompleteIsIncomplete
  BY DownloadAssumption DEF DInv, IInv, Typed, DownloadTypeOK, RInv
<1>2. /\ sent[p][k] > 0 /\ handler[p] = Recv
      /\ sent' = [sent EXCEPT ![p][k] = IF @ > 0 THEN @ - 1 ELSE @]
      /\ UNCHANGED <<trackerVars, peers, conn, peer_to_tx>>
  BY DEF HandlePiece, peerVars, Unasked, Reliable
<1>3. /\ p \in peer_to_tx /\ k \in downloading /\ ~Here(k) /\ sent[p][k] = 1
      /\ \A q \in Peers : sent[q][k] > 0 => q = p
  BY <1>1, <1>2 DEF AskedOnce
<1>4. ~Complete(k[1])
  BY <1>1, <1>3, CompleteHere
<1>5. /\ slices' = [slices EXCEPT ![k[1]] = InsertSlice(@, k[2], RequestLength(k[1], k[2]))]
      /\ \E f \in BOOLEAN : handler' = [handler EXCEPT ![p] = Apply(k, f)]
  <2>1. Complete(k[1])' \in BOOLEAN
    BY DEF Complete, IsComplete
  <2> QED  BY <1>4, <2>1 DEF HandlePiece
<1>6. WholeBlocks' /\ \A l \in BlockKeys : Here(l)' <=> Here(l) \/ l = k
  BY <1>1, <1>3, <1>5, StoreBlock
<1>7. PICK f \in BOOLEAN : handler' = [handler EXCEPT ![p] = Apply(k, f)]
  BY <1>5
<1>8. /\ handler'[p] = Apply(k, f) /\ Notes(handler'[p], k)
      /\ \A l : Notes(handler'[p], l) => l = k
      /\ \A q \in Peers : q # p => handler'[q] = handler[q]
  BY <1>1, <1>7, NotesPlaces
<1>9. \A q \in Peers, l \in BlockKeys :
          sent'[q][l] = IF q = p /\ l = k THEN 0 ELSE sent[q][l]
  BY <1>1, <1>2, <1>3
<1>10. NobodyGone'
  BY <1>1, <1>2, <1>8, PlacesApart DEF NobodyGone
<1>11. AskedOnce'
  <2> SUFFICES ASSUME NEW q \in Peers, NEW l \in BlockKeys, sent'[q][l] > 0
               PROVE  /\ q \in peer_to_tx /\ l \in downloading /\ ~Here(l)' /\ sent'[q][l] = 1
                      /\ \A r \in Peers : sent'[r][l] > 0 => r = q
    BY <1>2 DEF AskedOnce, trackerVars
  <2>1. sent[q][l] > 0 /\ l # k /\ sent'[q][l] = sent[q][l]
    BY <1>3, <1>9
  <2>2. /\ q \in peer_to_tx /\ l \in downloading /\ ~Here(l) /\ sent[q][l] = 1
        /\ \A r \in Peers : sent[r][l] > 0 => r = q
    BY <1>1, <2>1 DEF AskedOnce
  <2>3. \A r \in Peers : sent'[r][l] > 0 => sent[r][l] > 0
    BY <1>9, <2>1
  <2> QED  BY <1>6, <2>1, <2>2, <2>3
<1>12. FlightsEnd'
  <2> SUFFICES ASSUME NEW l \in downloading
               PROVE  \E q \in Peers : sent'[q][l] > 0 \/ Notes(handler'[q], l)
    BY <1>2 DEF FlightsEnd, trackerVars
  <2>1. l \in BlockKeys
    BY <1>1 DEF TypeOK
  <2>2. CASE l = k
    BY <1>8, <2>2
  <2>3. CASE l # k
    <3>1. PICK q \in Peers : sent[q][l] > 0 \/ Notes(handler[q], l)
      BY <1>1 DEF FlightsEnd
    <3>2. Notes(handler[q], l) => q # p
      BY <1>2, NotesPlaces
    <3>3. sent[q][l] > 0 => sent'[q][l] > 0
      BY <1>9, <2>1, <2>3
    <3> QED  BY <1>8, <3>1, <3>2, <3>3
  <2> QED  BY <2>2, <2>3
<1>13. HereKnown'
  <2>1. ASSUME NEW q \in Peers, NEW l \in BlockKeys, Notes(handler'[q], l)
        PROVE  Here(l)'
    BY <1>1, <1>6, <1>8, <2>1 DEF HereKnown
  <2>2. ASSUME NEW l \in BlockKeys, Here(l)'
        PROVE  contains_inprogress(l)' \/ l[1] \in pieces_completed'
    BY <1>1, <1>2, <1>3, <1>6, <2>2 DEF HereKnown, contains_inprogress, trackerVars
  <2> QED  BY <2>1, <2>2 DEF HereKnown
<1>14. QueueFresh' /\ IncompleteIsIncomplete'
  BY <1>1, <1>2 DEF QueueFresh, contains_inprogress, IncompleteIsIncomplete,
                    get_incomplete_pieces, trackerVars
<1> QED  BY <1>6, <1>10, <1>11, <1>12, <1>13, <1>14 DEF RInv

\* The expiration queue holds blocks.
LEMMA QueuedKeys ==
    ASSUME TypeOK
    PROVE  \A n \in 1 .. Len(expirations) : expirations[n].keys \subseteq BlockKeys
<1>1. \A n \in 1 .. Len(expirations) : expirations[n] \in Batch
  BY DEF TypeOK
<1>2. \A b \in Batch : b.keys \subseteq BlockKeys
  BY DEF Batch
<1> QED  BY <1>1, <1>2

\* A block is noted: it moves to the arrived ones, or its piece is completed, of which
\* nothing is asked for any more.
LEMMA NotingR ==
    ASSUME Reliable, DInv, RInv, NEW p \in Peers, ApplyPiece(p)
    PROVE  RInv'
<1>1. /\ Typed /\ TypeOK /\ handler \in [Peers -> Places]
      /\ AskedStarted /\ NotedComplete /\ BlocksBelongToStarted
      /\ NobodyGone /\ WholeBlocks /\ AskedOnce /\ FlightsEnd /\ HereKnown /\ QueueFresh
      /\ IncompleteIsIncomplete
  BY DEF DInv, IInv, Typed, StoreInv, RInv
<1>2. PICK k \in BlockKeys, f \in BOOLEAN :
        /\ handler[p] = Apply(k, f) /\ Note(k, f)
        /\ handler' = [handler EXCEPT ![p] = Signal(IF f THEN PieceComplete(k[1]) ELSE Wakeup)]
  BY DEF ApplyPiece
<1>3. UNCHANGED <<peers, conn, sent, peer_to_tx, slices>>
  BY DEF ApplyPiece, peerVars
<1>4. /\ k[1] \in Pieces /\ k[1] \notin pieces_not_started
      /\ Notes(handler[p], k) /\ \A l : Notes(handler[p], l) => l = k
      /\ \A l : ~Notes(handler'[p], l) /\ handler'[p] \notin {Idle, Exited}
      /\ \A q \in Peers : q # p => handler'[q] = handler[q]
  <2>1. k[1] \in Pieces /\ k[1] \notin pieces_not_started
    BY <1>1, <1>2, KeyPiece DEF AskedStarted, Unasked, Reliable
  <2>2. Notes(handler[p], k) /\ \A l : Notes(handler[p], l) => l = k
    BY <1>2, NotesPlaces
  <2>3. handler'[p] = Signal(IF f THEN PieceComplete(k[1]) ELSE Wakeup)
    BY <1>1, <1>2
  <2>4. \A l : ~Notes(handler'[p], l) /\ handler'[p] \notin {Idle, Exited}
    BY <2>3, NotesPlaces, PlacesApart
  <2> QED  BY <1>1, <1>2, <2>1, <2>2, <2>4
<1>5. Here(k) /\ \A l : Here(l)' <=> Here(l)
  BY <1>1, <1>3, <1>4 DEF HereKnown, Here
<1>6. NobodyGone'
  <2>1. handler[p] # Idle
    BY <1>4, NotesPlaces
  <2> QED  BY <1>1, <1>3, <1>4, <2>1 DEF NobodyGone
<1>7. WholeBlocks'
  BY <1>1, <1>3, <1>5 DEF WholeBlocks, Bytes
\* What either way of noting does to the tracker.
<1>8. ASSUME downloading' \subseteq downloading, k \notin downloading',
             \A l \in BlockKeys : l \in downloading /\ ~Here(l) => l \in downloading',
             \A l \in BlockKeys : contains_inprogress(l) \/ l[1] \in pieces_completed =>
                                  contains_inprogress(l)' \/ l[1] \in pieces_completed',
             UNCHANGED expirations, IncompleteIsIncomplete'
      PROVE  RInv'
  <2>1. AskedOnce'
    BY <1>1, <1>3, <1>5, <1>8 DEF AskedOnce
  <2>2. FlightsEnd'
    <3> SUFFICES ASSUME NEW l \in downloading'
                 PROVE  \E q \in Peers : sent[q][l] > 0 \/ Notes(handler'[q], l)
      BY <1>3 DEF FlightsEnd
    <3>1. PICK q \in Peers : sent[q][l] > 0 \/ Notes(handler[q], l)
      BY <1>1, <1>8 DEF FlightsEnd
    <3>2. Notes(handler[q], l) => q # p
      BY <1>4, <1>8
    <3> QED  BY <1>4, <3>1, <3>2
  <2>3. HereKnown'
    <3>1. ASSUME NEW q \in Peers, NEW l \in BlockKeys, Notes(handler'[q], l)
          PROVE  Here(l)'
      BY <1>1, <1>4, <1>5, <3>1 DEF HereKnown
    <3>2. ASSUME NEW l \in BlockKeys, Here(l)'
          PROVE  contains_inprogress(l)' \/ l[1] \in pieces_completed'
      BY <1>1, <1>5, <1>8, <3>2 DEF HereKnown
    <3> QED  BY <3>1, <3>2 DEF HereKnown
  <2>4. QueueFresh'
    <3>1. \A n \in 1 .. Len(expirations) : expirations[n].keys \subseteq BlockKeys
      BY <1>1, QueuedKeys
    <3> QED  BY <1>1, <1>8, <3>1 DEF QueueFresh
  <2> QED  BY <1>6, <1>7, <1>8, <2>1, <2>2, <2>3, <2>4 DEF RInv
<1>9. CASE f
  <2>1. Complete(k[1])
    <3>1. f = TRUE
      BY <1>9
    <3>2. handler[p] = Apply(k, TRUE)
      BY <1>2, <3>1, Zenon
    <3> QED  BY <1>1, <3>2 DEF NotedComplete
  <2>2. /\ started' = started \ {k[1]}
        /\ downloading' = {l \in downloading : l[1] # k[1]}
        /\ done' = {l \in done : l[1] # k[1]}
        /\ pieces_completed' = pieces_completed \cup {k[1]}
        /\ UNCHANGED <<pieces_not_started, expirations>>
    BY <1>2, <1>9 DEF Note, SetPieceFinished, remove_piece
  <2>3. \A l \in BlockKeys : l[1] = k[1] => Here(l)
    BY <1>1, <2>1, CompleteHere
  <2>4. IncompleteIsIncomplete'
    BY <1>1, <1>4, <2>2 DEF IncompleteIsIncomplete, get_incomplete_pieces
  <2>5. \A l \in BlockKeys : contains_inprogress(l) \/ l[1] \in pieces_completed =>
                             contains_inprogress(l)' \/ l[1] \in pieces_completed'
    BY <2>2 DEF contains_inprogress
  <2>6. \A l \in BlockKeys : l \in downloading /\ ~Here(l) => l \in downloading'
    BY <2>2, <2>3
  <2> QED  BY <1>8, <2>2, <2>4, <2>5, <2>6
<1>10. CASE ~f
  <2>1. CASE k \in downloading
    <3>1. /\ downloading' = downloading \ {k} /\ done' = done \cup {k}
          /\ UNCHANGED <<pieces_not_started, started, expirations, pieces_completed>>
      BY <1>2, <1>10, <2>1 DEF Note, SetRequestFinished
    <3>2. IncompleteIsIncomplete'
      BY <1>1, <3>1 DEF IncompleteIsIncomplete, get_incomplete_pieces
    <3>3. \A l \in BlockKeys : contains_inprogress(l) \/ l[1] \in pieces_completed =>
                               contains_inprogress(l)' \/ l[1] \in pieces_completed'
      BY <3>1 DEF contains_inprogress
    <3>4. \A l \in BlockKeys : l \in downloading /\ ~Here(l) => l \in downloading'
      BY <1>5, <3>1
    <3> QED  BY <1>8, <3>1, <3>2, <3>3, <3>4
  <2>2. CASE k \notin downloading
    <3>1. UNCHANGED <<pieces_not_started, started, downloading, done, expirations, pieces_completed>>
      BY <1>2, <1>10, <2>2 DEF Note, trackerVars
    <3>2. IncompleteIsIncomplete'
      BY <1>1, <3>1 DEF IncompleteIsIncomplete, get_incomplete_pieces
    <3>3. \A l \in BlockKeys : contains_inprogress(l) \/ l[1] \in pieces_completed =>
                               contains_inprogress(l)' \/ l[1] \in pieces_completed'
      BY <3>1 DEF contains_inprogress
    <3> QED  BY <1>8, <2>2, <3>1, <3>2, <3>3
  <2> QED  BY <2>1, <2>2
<1> QED  BY <1>9, <1>10

\* Nobody is asked for a block that is on its way or here, and every request is
\* delivered.
LEMMA WakeUpR ==
    ASSUME Reliable, DInv, RInv, WakeUp
    PROVE  RInv'
<1>1. /\ Typed /\ TypeOK /\ handler \in [Peers -> Places] /\ peer_to_tx \subseteq Peers
      /\ sent \in [Peers -> [BlockKeys -> 0 .. MaxRepeats]] /\ MaxRepeats \in Nat
      /\ NobodyGone /\ WholeBlocks /\ AskedOnce /\ FlightsEnd /\ HereKnown /\ QueueFresh
      /\ IncompleteIsIncomplete
  BY DownloadAssumption DEF DInv, IInv, Typed, DownloadTypeOK, RInv
<1>2. UNCHANGED <<peers, conn, handler, slices>> /\ peer_to_tx' = Open(peer_to_tx)
  BY DEF WakeUp, peerVars
<1>3. peer_to_tx' = peer_to_tx
  BY <1>1, <1>2 DEF Open, NobodyGone
<1>4. PICK assignee \in [Served -> Peers] :
        /\ \A i \in Served : assignee[i] \in piece_id_to_peers(i)
        /\ Dispatch(assignee, peer_to_tx')
  BY DEF WakeUp
<1> DEFINE batch == Assigned(Served)
<1>5. /\ ComputeRequests(Served, {k \in batch : assignee[k[1]] \notin peer_to_tx'})
      /\ sent' = [p \in Peers |-> [k \in BlockKeys |->
                    IF p \in peer_to_tx' /\ k \in batch /\ assignee[k[1]] = p
                    THEN sent[p][k] + 1 ELSE sent[p][k]]]
  BY <1>4 DEF Dispatch
<1>6. ASSUME NEW k \in batch
      PROVE  /\ k \in BlockKeys /\ ~contains_inprogress(k)
             /\ k[1] \in Served /\ k[1] \in get_incomplete_pieces /\ k[1] \notin pieces_completed
  BY <1>1, <1>6 DEF Assigned, FirstBlocks, Unassigned, Served, IncompleteIsIncomplete
<1>7. \A k \in batch : assignee[k[1]] \in peer_to_tx /\ assignee[k[1]] \in Peers
  <2>1. \A i \in Served : assignee[i] \in peers /\ assignee[i] \in Peers
    BY <1>4 DEF piece_id_to_peers, peers_that_choke
  <2> QED  BY <1>1, <1>6, <2>1 DEF NobodyGone
<1> HIDE DEF batch
<1>8. {k \in batch : assignee[k[1]] \notin peer_to_tx'} = {}
  BY <1>3, <1>7
<1>9. /\ started' = started \cup PiecesOf(batch)
      /\ pieces_not_started' = pieces_not_started \ PiecesOf(batch)
      /\ downloading' = downloading \cup batch
      /\ expirations' = insert(batch)
      /\ UNCHANGED <<done, pieces_completed>>
  BY <1>5, <1>8 DEF ComputeRequests, batch
<1>10. \A k : Here(k)' <=> Here(k)
  BY <1>2 DEF Here
<1>11. ASSUME NEW k \in batch
       PROVE  ~Here(k) /\ \A p \in Peers : sent[p][k] = 0
  <2>1. ~Here(k)
    BY <1>1, <1>6, <1>11 DEF HereKnown
  <2>2. \A p \in Peers : ~(sent[p][k] > 0)
    BY <1>1, <1>6, <1>11 DEF AskedOnce, contains_inprogress
  <2>3. \A p \in Peers : sent[p][k] \in Nat
    BY <1>1, <1>6, <1>11
  <2> QED  BY <2>1, <2>2, <2>3
<1>12. ASSUME NEW p \in Peers, NEW k \in BlockKeys
       PROVE  /\ k \notin batch => sent'[p][k] = sent[p][k]
              /\ k \in batch => sent'[p][k] = IF p = assignee[k[1]] THEN 1 ELSE 0
  BY <1>3, <1>5, <1>7, <1>11
<1>13. NobodyGone'
  BY <1>1, <1>2, <1>3 DEF NobodyGone
<1>14. WholeBlocks'
  BY <1>1, <1>2, <1>10 DEF WholeBlocks, Bytes
<1>15. AskedOnce'
  <2> SUFFICES ASSUME NEW p \in Peers, NEW k \in BlockKeys, sent'[p][k] > 0
               PROVE  /\ p \in peer_to_tx /\ k \in downloading' /\ ~Here(k) /\ sent'[p][k] = 1
                      /\ \A q \in Peers : sent'[q][k] > 0 => q = p
    BY <1>3, <1>10 DEF AskedOnce
  <2>1. CASE k \in batch
    <3>1. p = assignee[k[1]]
      BY <1>12, <2>1
    <3> QED  BY <1>7, <1>9, <1>11, <1>12, <2>1, <3>1
  <2>2. CASE k \notin batch
    BY <1>1, <1>9, <1>12, <2>2 DEF AskedOnce
  <2> QED  BY <2>1, <2>2
<1>16. FlightsEnd'
  <2> SUFFICES ASSUME NEW k \in downloading'
               PROVE  \E p \in Peers : sent'[p][k] > 0 \/ Notes(handler[p], k)
    BY <1>2 DEF FlightsEnd
  <2>1. CASE k \in batch
    BY <1>6, <1>7, <1>12, <2>1
  <2>2. CASE k \notin batch
    <3>1. k \in downloading /\ k \in BlockKeys
      BY <1>1, <1>9, <2>2 DEF TypeOK
    <3> QED  BY <1>1, <1>12, <2>2, <3>1 DEF FlightsEnd
  <2> QED  BY <2>1, <2>2
<1>17. \A k : contains_inprogress(k) => contains_inprogress(k)'
  BY <1>9 DEF contains_inprogress
<1>18. HereKnown'
  BY <1>1, <1>2, <1>9, <1>10, <1>17 DEF HereKnown
<1>19. QueueFresh'
  <2>1. CASE batch = {}
    BY <1>1, <1>9, <2>1 DEF QueueFresh, contains_inprogress, insert
  <2>2. CASE batch # {}
    <3> DEFINE e == [age |-> 0, keys |-> batch]
    <3>1. expirations' = Append(expirations, e) /\ expirations \in Seq(Batch)
      BY <1>1, <1>9, <2>2 DEF insert, TypeOK
    <3>2. e \in Batch
      <4>1. batch \in SUBSET BlockKeys /\ 0 \in 0 .. RequestTimeout
        BY <1>6, TrackerAssumption
      <4> QED  BY <4>1 DEF Batch
    <3>3. e.keys = batch /\ e.age = 0
      OBVIOUS
    <3> HIDE DEF e
    <3>4. /\ Len(expirations') = Len(expirations) + 1 /\ Len(expirations) \in Nat
          /\ expirations'[Len(expirations) + 1] = e
          /\ \A n \in 1 .. Len(expirations) : expirations'[n] = expirations[n]
      BY <3>1, <3>2, AppendProperties
    <3> SUFFICES ASSUME NEW n \in 1 .. Len(expirations'), NEW k \in expirations'[n].keys
                 PROVE  /\ contains_inprogress(k)' \/ k[1] \in pieces_completed'
                        /\ k \in downloading' => expirations'[n].age = 0
      BY DEF QueueFresh
    <3>5. CASE n = Len(expirations) + 1
      BY <1>9, <3>3, <3>4, <3>5 DEF contains_inprogress
    <3>6. CASE n \in 1 .. Len(expirations)
      <4>1. k \in expirations[n].keys /\ expirations'[n] = expirations[n]
        BY <3>4, <3>6
      <4>2. /\ contains_inprogress(k) \/ k[1] \in pieces_completed
            /\ k \in downloading => expirations[n].age = 0
        BY <1>1, <3>6, <4>1 DEF QueueFresh
      <4>3. k \notin batch
        BY <1>6, <4>2
      <4> QED  BY <1>9, <1>17, <4>1, <4>2, <4>3
    <3> QED  BY <3>4, <3>5, <3>6
  <2> QED  BY <2>1, <2>2
<1>20. IncompleteIsIncomplete'
  <2>1. PiecesOf(batch) \subseteq get_incomplete_pieces
    BY <1>6 DEF PiecesOf
  <2> QED  BY <1>1, <1>9, <2>1 DEF IncompleteIsIncomplete, get_incomplete_pieces
<1> QED  BY <1>13, <1>14, <1>15, <1>16, <1>18, <1>19, <1>20 DEF RInv

\* No request expires: what is in flight was assigned just now.
LEMMA TickR ==
    ASSUME Reliable, DInv, RInv, Tick
    PROVE  RInv'
<1>1. /\ TypeOK /\ expirations \in Seq(Batch) /\ Len(expirations) \in Nat
      /\ NobodyGone /\ WholeBlocks /\ AskedOnce /\ FlightsEnd /\ HereKnown /\ QueueFresh
      /\ IncompleteIsIncomplete
  BY DEF DInv, IInv, TypeOK, RInv
<1>2. UNCHANGED <<peers, conn, handler, sent, peer_to_tx, slices>>
  BY DEF Tick, peerVars
<1>3. PICK n \in 0 .. Len(expirations) :
        /\ \A i \in 1 .. n : expirations[i].age >= RequestTimeout
        /\ downloading' = downloading \ ExpiredKeys(n)
        /\ expirations' = SubSeq(expirations, n + 1, Len(expirations))
        /\ UNCHANGED <<pieces_not_started, started, done, pieces_completed>>
  BY DEF Tick, RemoveExpired, ExpiredPrefix
<1>4. downloading' = downloading
  <2> SUFFICES ASSUME NEW k \in downloading, k \in ExpiredKeys(n) PROVE FALSE
    BY <1>3
  <2>1. PICK i \in 1 .. n : k \in expirations[i].keys
    BY DEF ExpiredKeys
  <2>2. i \in 1 .. Len(expirations)
    BY <1>1
  <2>3. expirations[i].age = 0
    BY <1>1, <2>1, <2>2 DEF QueueFresh
  <2> QED  BY <1>3, <2>3, TrackerAssumption
<1>5. /\ Len(expirations') = Len(expirations) - n
      /\ \A i \in 1 .. Len(expirations') :
            expirations'[i] = expirations[n + i] /\ n + i \in 1 .. Len(expirations)
  BY <1>1, <1>3, QueueSuffix
<1>6. \A k : (Here(k)' <=> Here(k)) /\ (contains_inprogress(k)' <=> contains_inprogress(k))
  BY <1>2, <1>3, <1>4 DEF Here, contains_inprogress
<1>7. QueueFresh'
  <2> SUFFICES ASSUME NEW i \in 1 .. Len(expirations'), NEW k \in expirations'[i].keys
               PROVE  /\ contains_inprogress(k)' \/ k[1] \in pieces_completed'
                      /\ k \in downloading' => expirations'[i].age = 0
    BY DEF QueueFresh
  <2>1. n + i \in 1 .. Len(expirations) /\ k \in expirations[n + i].keys
        /\ expirations'[i] = expirations[n + i]
    BY <1>5
  <2> QED  BY <1>1, <1>3, <1>4, <1>6, <2>1 DEF QueueFresh
<1>8. NobodyGone' /\ WholeBlocks' /\ AskedOnce' /\ FlightsEnd'
  BY <1>1, <1>2, <1>4, <1>6 DEF NobodyGone, WholeBlocks, AskedOnce, FlightsEnd, Bytes
<1>9. HereKnown' /\ IncompleteIsIncomplete'
  BY <1>1, <1>2, <1>3, <1>6 DEF HereKnown, IncompleteIsIncomplete, get_incomplete_pieces
<1> QED  BY <1>7, <1>8, <1>9 DEF RInv

\* Time passes only while nobody owes us an answer: nothing is in flight.
LEMMA ClockR ==
    ASSUME Reliable, DInv, RInv, Clock
    PROVE  RInv'
<1>1. /\ TypeOK /\ expirations \in Seq(Batch) /\ Len(expirations) \in Nat
      /\ NobodyGone /\ WholeBlocks /\ AskedOnce /\ FlightsEnd /\ HereKnown /\ QueueFresh
      /\ IncompleteIsIncomplete
  BY DEF DInv, IInv, TypeOK, RInv
<1>2. /\ UNCHANGED <<peers, conn, handler, sent, peer_to_tx, slices>>
      /\ UNCHANGED <<pieces_not_started, started, downloading, done, pieces_completed>>
  BY DEF Clock, PassTime, peerVars, loopVars
<1>3. \A p \in Peers : handler[p] \in {Idle, Recv}
                      /\ (handler[p] = Recv => ~\E k \in BlockKeys : sent[p][k] > 0)
  BY DEF Clock, Busy, Reliable
<1>4. downloading = {}
  <2> SUFFICES ASSUME NEW k \in downloading PROVE FALSE
    OBVIOUS
  <2>1. k \in BlockKeys
    BY <1>1 DEF TypeOK
  <2>2. PICK p \in Peers : sent[p][k] > 0 \/ Notes(handler[p], k)
    BY <1>1 DEF FlightsEnd
  <2>3. ~Notes(handler[p], k)
    BY <1>3, NotesPlaces
  <2>4. p \in peer_to_tx
    BY <1>1, <2>1, <2>2, <2>3 DEF AskedOnce
  <2>5. handler[p] = Recv
    BY <1>1, <1>3, <2>4 DEF NobodyGone
  <2> QED  BY <1>3, <2>1, <2>2, <2>3, <2>5
<1>5. /\ Len(expirations') = Len(expirations)
      /\ \A i \in 1 .. Len(expirations) : expirations'[i].keys = expirations[i].keys
  <2> DEFINE older(b) == [b EXCEPT !.age = IF @ < RequestTimeout THEN @ + 1 ELSE @]
  <2>1. expirations' = [i \in 1 .. Len(expirations) |-> older(expirations[i])]
    BY DEF Clock, PassTime
  <2>2. \A b \in Batch : older(b).keys = b.keys
    BY DEF Batch
  <2>3. \A i \in 1 .. Len(expirations) : expirations[i] \in Batch
    BY <1>1
  <2> HIDE DEF older
  <2>4. Len(expirations') = Len(expirations)
    BY <1>1, <2>1
  <2>5. \A i \in 1 .. Len(expirations) : expirations'[i] = older(expirations[i])
    BY <2>1
  <2> QED  BY <2>2, <2>3, <2>4, <2>5
<1>6. \A k : (Here(k)' <=> Here(k)) /\ (contains_inprogress(k)' <=> contains_inprogress(k))
  BY <1>2 DEF Here, contains_inprogress
<1>7. QueueFresh'
  <2> SUFFICES ASSUME NEW i \in 1 .. Len(expirations'), NEW k \in expirations'[i].keys
               PROVE  /\ contains_inprogress(k)' \/ k[1] \in pieces_completed'
                      /\ k \in downloading' => expirations'[i].age = 0
    BY DEF QueueFresh
  <2>1. i \in 1 .. Len(expirations) /\ k \in expirations[i].keys
    BY <1>5
  <2> QED  BY <1>1, <1>2, <1>4, <1>6, <2>1 DEF QueueFresh
<1>8. NobodyGone' /\ WholeBlocks' /\ AskedOnce' /\ FlightsEnd'
  BY <1>1, <1>2, <1>6 DEF NobodyGone, WholeBlocks, AskedOnce, FlightsEnd, Bytes
<1>9. HereKnown' /\ IncompleteIsIncomplete'
  BY <1>1, <1>2, <1>6 DEF HereKnown, IncompleteIsIncomplete, get_incomplete_pieces
<1> QED  BY <1>7, <1>8, <1>9 DEF RInv

\* A list of no intervals.
LEMMA EmptyList == Apart(<<>>) /\ Cover(<<>>) = {}
<1>1. DOMAIN <<>> = {} /\ <<>> \in Seq(Nat \X Nat)
  OBVIOUS
<1>2. UNION {<<>>[i][1] .. <<>>[i][2] - 1 : i \in {}} = {}
  OBVIOUS
<1> QED  BY <1>1, <1>2 DEF Apart, Ordered, Cover

\* The first state.
LEMMA InitR == Init => RInv
<1> SUFFICES ASSUME Init PROVE RInv
  OBVIOUS
<1>1. /\ \A p \in Peers : conn[p] = "new" /\ handler[p] = Idle
      /\ \A p \in Peers, k \in BlockKeys : sent[p][k] = 0
      /\ peer_to_tx = {} /\ \A i \in Pieces : slices[i] = <<>>
  BY DEF Init
<1>2. peers = {}
  BY DEF Init, PeersInit
<1>3. started = {} /\ downloading = {} /\ expirations = <<>> /\ pieces_completed = {}
  BY DEF Init, TrackerInit
<1>4. Apart(<<>>) /\ Cover(<<>>) = {}
  BY EmptyList
<1>5. \A k \in BlockKeys : slices[k[1]] = <<>> /\ ~Here(k)
  BY <1>1, <1>4, KeyPiece DEF Here
<1>6. NobodyGone
  BY <1>1, <1>2, PlacesApart DEF NobodyGone
<1>7. WholeBlocks
  BY <1>1, <1>4, <1>5 DEF WholeBlocks
<1>8. AskedOnce /\ FlightsEnd
  BY <1>1, <1>3 DEF AskedOnce, FlightsEnd
<1>9. HereKnown
  BY <1>1, <1>5, NotesPlaces DEF HereKnown
<1>10. QueueFresh /\ IncompleteIsIncomplete
  BY <1>3 DEF QueueFresh, IncompleteIsIncomplete
<1> QED  BY <1>6, <1>7, <1>8, <1>9, <1>10 DEF RInv

\* Every step keeps it.
LEMMA NextR ==
    ASSUME Reliable, DInv, RInv, [Next]_vars
    PROVE  RInv'
<1>1. TypeOK /\ NobodyGone
  BY DEF DInv, IInv, RInv
<1>2. CASE TickSends \/ UNCHANGED vars
  <2>1. UNCHANGED <<trackerVars, peers, conn, handler, sent, peer_to_tx, slices>>
    BY <1>2 DEF TickSends, vars, peerVars, loopVars
  <2>2. NobodyGone'
    BY <1>1, <2>1 DEF NobodyGone
  <2> QED  BY <1>1, <2>1, <2>2, RQuiet
<1>3. CASE \E p \in Peers : Handles(p)
  BY <1>3, FlagR, ArrivalR DEF Handles
<1>4. CASE \E p \in Peers : Runs(p)
  BY <1>4, NotingR, SendR DEF Runs
<1>5. CASE \E p \in Peers : Accept(p) \/ Reap(p) \/ Leave(p)
  BY <1>5, PeerR
<1> QED  BY <1>2, <1>3, <1>4, <1>5, WakeUpR, TickR, ClockR DEF Next

\* When every peer answers before the timeout and none leaves, no handler ends in
\* an error: io.write never meets a block of a piece that is complete already,
\* because no block is asked for twice.
THEOREM ReliablePeersAlwaysKept ==
    ASSUME Reliable
    PROVE  Spec => []ReliablePeersKept
<1>1. DInv /\ RInv /\ [Next]_vars => RInv'
  BY NextR
<1>2. RInv => ReliablePeersKept
  BY PlacesApart DEF RInv, NobodyGone, ReliablePeersKept
<1> QED  BY <1>1, <1>2, InitR, DownloadInvariant, PTL DEF Spec

-----------------------------------------------------------------------------
(* Pieces that are completed and still listed.                             *)

\* Of a piece that was never asked for, the store holds nothing but blocks that
\* may come unasked.
UnaskedOnly ==
    /\ \A i \in Pieces : Ordered(slices[i])
    /\ \A k \in BlockKeys \ Unsolicited :
            k[1] \in pieces_not_started => k[2] \notin Cover(slices[k[1]])

\* A block arrives: if it may not come unasked it was asked for.
LEMMA ArrivalUnasked ==
    ASSUME DInv, UnaskedOnly, NEW p \in Peers, NEW l \in BlockKeys, HandlePiece(p, l)
    PROVE  UnaskedOnly'
<1>1. Typed /\ AskedStarted /\ DOMAIN slices = Pieces /\ UNCHANGED pieces_not_started
  BY DEF DInv, Typed, HandlePiece, trackerVars
<1>2. CASE Complete(l[1])
  BY <1>1, <1>2, Arrival DEF UnaskedOnly
<1>3. CASE ~Complete(l[1])
  <2>1. slices' = [slices EXCEPT ![l[1]] = InsertSlice(@, l[2], RequestLength(l[1], l[2]))]
    BY <1>3 DEF HandlePiece
  <2>2. l[1] \in Pieces /\ l[2] \in Nat /\ RequestLength(l[1], l[2]) \in Nat \ {0}
    BY BlockBytes
  <2>3. /\ slices'[l[1]] = InsertSlice(slices[l[1]], l[2], RequestLength(l[1], l[2]))
        /\ \A i \in Pieces : i # l[1] => slices'[i] = slices[i]
    BY <1>1, <2>1, <2>2
  <2>4. /\ Ordered(slices'[l[1]])
        /\ Cover(slices'[l[1]]) \subseteq Cover(slices[l[1]]) \cup Bytes(l)
    BY <2>2, <2>3, AnyBlock DEF UnaskedOnly, Bytes
  <2>5. ASSUME NEW k \in BlockKeys \ Unsolicited, k[1] \in pieces_not_started
        PROVE  k[2] \notin Cover(slices'[k[1]])
    <3>1. k[1] \in Pieces /\ k[2] \notin Cover(slices[k[1]])
      BY <2>5, KeyPiece DEF UnaskedOnly
    <3>2. CASE k[1] # l[1]
      BY <2>3, <3>1, <3>2
    <3>3. CASE k[1] = l[1]
      <4>1. k # l
        BY <1>1, <2>5, Arrival DEF AskedStarted, Unasked
      <4>2. k[2] \in Bytes(k) /\ Bytes(l) \cap Bytes(k) = {}
        BY <3>3, <4>1, BlockBytes
      <4> QED  BY <2>4, <3>1, <3>3, <4>2
    <3> QED  BY <3>2, <3>3
  <2> QED  BY <1>1, <2>3, <2>4, <2>5 DEF UnaskedOnly
<1> QED  BY <1>2, <1>3

\* Every step keeps it.
LEMMA NextUnasked ==
    ASSUME DInv, UnaskedOnly, [Next]_vars
    PROVE  UnaskedOnly'
<1>1. pieces_not_started' \subseteq pieces_not_started /\ Typed
  BY TrackerStep, TrackerMonotone DEF DInv
<1>2. CASE UNCHANGED slices
  BY <1>1, <1>2 DEF UnaskedOnly
<1> QED  BY <1>1, <1>2, ArrivalUnasked, QuietSteps DEF Quiet, ApplyPiece

\* A handler that notes a piece as finished: the store holds all of it.
LEMMA FinishedUnasked ==
    ASSUME DInv, UnaskedOnly, NEW p \in Peers, NEW k \in BlockKeys, handler[p] = Apply(k, TRUE),
           k[1] \in pieces_not_started
    PROVE  BlocksOf(k[1]) \subseteq Unsolicited
<1>1. k[1] \in Pieces /\ piece_len(k[1]) \in Nat \ {0}
  BY BlockBytes
<1>2. IsComplete(slices[k[1]], piece_len(k[1]))
  BY DEF DInv, StoreInv, NotedComplete, Complete
<1>3. Cover(slices[k[1]]) = 0 .. piece_len(k[1]) - 1
  BY <1>1, <1>2, CompleteCovers DEF UnaskedOnly
<1> SUFFICES ASSUME NEW l \in BlocksOf(k[1]), l \notin Unsolicited
             PROVE  FALSE
  OBVIOUS
<1>4. l \in BlockKeys /\ l[1] = k[1]
  BY DEF BlocksOf
<1>5. l[2] \in 0 .. piece_len(k[1]) - 1
  BY <1>4, BlockBytes
<1> QED  BY <1>3, <1>4, <1>5 DEF UnaskedOnly

\* Every step keeps CompletedNotListed: a piece is completed while it counts as not
\* started only when all its blocks came unasked.
LEMMA NextNotListed ==
    ASSUME DInv, UnaskedOnly, CompletedNotListed, [Next]_vars
    PROVE  CompletedNotListed'
<1>1. ASSUME NEW p \in Peers, ApplyPiece(p)
      PROVE  CompletedNotListed'
  <2>1. PICK k \in BlockKeys, f \in BOOLEAN : handler[p] = Apply(k, f) /\ Note(k, f)
    BY <1>1 DEF ApplyPiece
  <2>2. CASE f
    <3>1. f = TRUE
      BY <2>2
    <3>2. handler[p] = Apply(k, TRUE)
      BY <2>1, <3>1, Zenon
    <3>3. k[1] \in pieces_not_started => BlocksOf(k[1]) \subseteq Unsolicited
      BY <3>2, FinishedUnasked
    <3> QED  BY <2>1, <2>2, <3>3 DEF Note, SetPieceFinished, remove_piece, CompletedNotListed,
                get_incomplete_pieces
  <2>3. CASE ~f
    BY <2>1, <2>3 DEF Note, SetRequestFinished, trackerVars, CompletedNotListed, get_incomplete_pieces
  <2> QED  BY <2>2, <2>3
<1>2. ASSUME WakeUp PROVE CompletedNotListed'
  <2>1. PICK undelivered : ComputeRequests(Served, undelivered)
    BY <1>2 DEF WakeUp, Dispatch
  <2>2. PiecesOf(Assigned(Served)) \subseteq get_incomplete_pieces
    BY DEF Assigned, FirstBlocks, Unassigned, PiecesOf, Served
  <2>3. /\ pieces_not_started' = pieces_not_started \ PiecesOf(Assigned(Served))
        /\ started' = started \cup PiecesOf(Assigned(Served))
        /\ UNCHANGED pieces_completed
    BY <2>1 DEF ComputeRequests
  <2> QED  BY <2>2, <2>3 DEF CompletedNotListed, get_incomplete_pieces
<1>3. ASSUME UNCHANGED <<pieces_not_started, started, pieces_completed>>
      PROVE  CompletedNotListed'
  BY <1>3 DEF CompletedNotListed, get_incomplete_pieces
<1>4. CASE \E p \in Peers : Handles(p)
  BY <1>3, <1>4 DEF Handles, HandleFlag, HandlePieces, HandlePiece, HandlesAndSignals, trackerVars
<1>5. CASE \E p \in Peers : Runs(p)
  BY <1>1, <1>3, <1>5 DEF Runs, SendWake, HandlerEnds, trackerVars
<1>6. CASE \E p \in Peers : Accept(p) \/ Reap(p) \/ Leave(p)
  BY <1>3, <1>6 DEF Accept, Reap, Leave, trackerVars
<1>7. CASE Tick \/ TickSends \/ Clock \/ UNCHANGED vars
  BY <1>3, <1>7 DEF Tick, RemoveExpired, TickSends, Clock, PassTime, vars, trackerVars
<1> QED  BY <1>2, <1>4, <1>5, <1>6, <1>7 DEF Next

\* Whatever set of blocks the unreliable peers may send unasked, a completed piece is
\* listed by get_incomplete_pieces again only if all its blocks are among them:
\* set_piece_finished leaves pieces_not_started alone, but a piece is taken off it with
\* the first request for one of its blocks, and no piece is complete without them all.
THEOREM CompletedNeverListed == Spec => []CompletedNotListed
<1>1. Init => UnaskedOnly /\ CompletedNotListed
  <2> SUFFICES ASSUME Init PROVE UnaskedOnly /\ CompletedNotListed
    OBVIOUS
  <2>1. \A i \in Pieces : Ordered(slices[i]) /\ Cover(slices[i]) = {}
    BY EmptyList DEF Init, Apart
  <2>2. UnaskedOnly
    BY <2>1, KeyPiece DEF UnaskedOnly
  <2>3. pieces_completed = {}
    BY DEF Init, TrackerInit
  <2> QED  BY <2>2, <2>3 DEF CompletedNotListed
<1>2. DInv /\ UnaskedOnly /\ [Next]_vars => UnaskedOnly'
  BY NextUnasked
<1>3. DInv /\ UnaskedOnly /\ CompletedNotListed /\ [Next]_vars => CompletedNotListed'
  BY NextNotListed
<1> QED  BY <1>1, <1>2, <1>3, DownloadInvariant, PTL DEF Spec

-----------------------------------------------------------------------------
\* The blocks of a piece make up the piece.
LEMMA BlocksMakePiece ==
    ASSUME NEW i \in Pieces
    PROVE  /\ piece_len(i) \in Nat \ {0}
           /\ \A k \in BlocksOf(i) : Bytes(k) \subseteq 0 .. piece_len(i) - 1
           /\ \A x \in 0 .. piece_len(i) - 1 : \E k \in BlocksOf(i) : x \in Bytes(k)
<1>1. TotalPieces \in Nat \ {0} /\ PieceLength \in Nat \ {0} /\ Length \in Nat /\ BlockSize \in Nat \ {0}
  BY LayoutAssumption
<1>2. piece_len(i) \in Nat \ {0} /\ piece_len(i) <= PieceLength
  <2>1. PICK m \in Nat : m = (TotalPieces - 1) * PieceLength
    BY <1>1
  <2>2. TotalPieces * PieceLength = m + PieceLength
    BY <1>1, <2>1
  <2>3. LastPieceSize = Length - m /\ m < Length /\ Length <= m + PieceLength
    BY <2>1, <2>2, LayoutAssumption DEF LastPieceSize
  <2> QED  BY <1>1, <2>1, <2>3 DEF piece_len
<1>3. PICK L \in Nat \ {0} : L = piece_len(i) /\ L <= PieceLength
  BY <1>2
<1>4. ASSUME NEW k \in BlocksOf(i), NEW x \in Bytes(k)
      PROVE  x \in 0 .. L - 1
  <2>1. k \in BlockKeys /\ k[1] = i
    BY <1>4 DEF BlocksOf
  <2>2. k[2] \in Nat /\ k[2] < L
    BY <1>3, <2>1, BlockBytes
  <2>3. RequestLength(i, k[2]) = IF k[2] + BlockSize > L THEN L - k[2] ELSE BlockSize
    BY <1>3 DEF RequestLength
  <2>4. x \in k[2] .. k[2] + RequestLength(i, k[2]) - 1
    BY <1>4, <2>1 DEF Bytes
  <2> QED  BY <1>1, <1>3, <2>2, <2>3, <2>4
<1>5. ASSUME NEW x \in 0 .. L - 1
      PROVE  \E k \in BlocksOf(i) : x \in Bytes(k)
  <2>1. PICK b \in Nat : b <= x /\ x < b + BlockSize /\ b % BlockSize = 0
    <3>1. PICK B \in Nat \ {0} : B = BlockSize
      BY <1>1
    <3>2. x \in Nat
      BY <1>3, <1>5
    <3>3. PICK q \in Nat : x = B * q + (x % B) /\ x % B \in 0 .. B - 1
      <4>1. x % B \in 0 .. B - 1 /\ x \div B \in Int /\ x = B * (x \div B) + (x % B)
        BY <3>1, <3>2
      <4>2. x \div B \in Nat
        BY <3>1, <3>2
      <4> QED  BY <4>1, <4>2
    <3>4. B * q \in Nat /\ (B * q) % B = 0
      BY <3>1, <3>3, Z3
    <3> QED  BY <3>1, <3>2, <3>3, <3>4
  <2> DEFINE k == <<i, b>>
  <2>2. b \in 0 .. PieceLength - 1 /\ b < L
    BY <1>1, <1>3, <1>5, <2>1
  <2>3. k \in BlocksOf(i) /\ k[1] = i /\ k[2] = b
    BY <1>3, <2>1, <2>2 DEF BlocksOf, BlockKeys, Begins
  <2>4. RequestLength(i, b) = IF b + BlockSize > L THEN L - b ELSE BlockSize
    BY <1>3 DEF RequestLength
  <2>5. x \in b .. b + RequestLength(i, b) - 1
    BY <1>1, <1>3, <1>5, <2>1, <2>4
  <2>6. Bytes(k) = b .. b + RequestLength(i, b) - 1
    BY <2>3 DEF Bytes
  <2> QED  BY <2>3, <2>5, <2>6
<1> QED  BY <1>3, <1>4, <1>5

\* What the store holds of a piece is of the piece, a block that is here is here
\* entirely, and the blocks the tracker has as arrived are here.
AllHere ==
    /\ \A i \in Pieces : Cover(slices[i]) \subseteq 0 .. piece_len(i) - 1
    /\ \A k \in BlockKeys : Here(k) => Bytes(k) \subseteq Cover(slices[k[1]])
    /\ \A k \in done : Here(k)

\* Every step keeps it.
LEMMA NextAllHere ==
    ASSUME Reliable, DInv, RInv, AllHere, [Next]_vars
    PROVE  AllHere'
<1>1. /\ TypeOK /\ DOMAIN slices = Pieces
      /\ WholeBlocks /\ AskedOnce /\ HereKnown
  BY DEF DInv, IInv, Typed, RInv
<1>2. ASSUME UNCHANGED slices, \A k \in done' : k \in done \/ Here(k)
      PROVE  AllHere'
  <2>1. \A k : (Here(k)' <=> Here(k))
    BY <1>2 DEF Here
  <2>2. \A k \in done' : Here(k)
    BY <1>2 DEF AllHere
  <2> QED  BY <1>2, <2>1, <2>2 DEF AllHere, Bytes
<1>3. ASSUME NEW p \in Peers, NEW k \in BlockKeys, HandlePiece(p, k)
      PROVE  AllHere'
  <2>1. sent[p][k] > 0 /\ UNCHANGED done
    BY <1>3 DEF HandlePiece, trackerVars, Unasked, Reliable
  <2>2. ~Here(k)
    BY <1>1, <2>1 DEF AskedOnce
  <2>3. slices' = [slices EXCEPT ![k[1]] = InsertSlice(@, k[2], RequestLength(k[1], k[2]))]
    BY <1>1, <1>3, <2>2, CompleteHere DEF HandlePiece
  <2>4. /\ \A l \in BlockKeys : Here(l)' <=> Here(l) \/ l = k
        /\ Cover(slices'[k[1]]) = Cover(slices[k[1]]) \cup Bytes(k)
    BY <1>1, <2>2, <2>3, StoreBlock
  <2>5. k[1] \in Pieces /\ \A i \in Pieces : i # k[1] => slices'[i] = slices[i]
    BY <1>1, <2>3, KeyPiece
  <2>6. Bytes(k) \subseteq 0 .. piece_len(k[1]) - 1
    BY <2>5, BlocksMakePiece DEF BlocksOf
  <2>7. \A i \in Pieces : Cover(slices'[i]) \subseteq 0 .. piece_len(i) - 1
    BY <2>4, <2>5, <2>6 DEF AllHere
  <2>8. ASSUME NEW l \in BlockKeys, Here(l)'
        PROVE  Bytes(l) \subseteq Cover(slices'[l[1]])
    <3>1. l[1] \in Pieces /\ (Here(l) \/ l = k)
      BY <2>4, <2>8, KeyPiece
    <3>2. CASE l = k
      BY <2>4, <3>2
    <3>3. CASE Here(l)
      <4>1. Bytes(l) \subseteq Cover(slices[l[1]])
        BY <3>3 DEF AllHere
      <4> QED  BY <2>4, <2>5, <3>1, <4>1
    <3> QED  BY <3>1, <3>2, <3>3
  <2>9. \A l \in done' : Here(l)'
    BY <1>1, <2>1, <2>4 DEF AllHere, TypeOK
  <2> QED  BY <2>7, <2>8, <2>9 DEF AllHere, Bytes
<1>4. ASSUME NEW p \in Peers, ApplyPiece(p)
      PROVE  AllHere'
  <2>1. PICK k \in BlockKeys, f \in BOOLEAN : handler[p] = Apply(k, f) /\ Note(k, f)
    BY <1>4 DEF ApplyPiece
  <2>2. Here(k)
    <3>1. Notes(handler[p], k)
      BY <2>1, NotesPlaces
    <3> QED  BY <1>1, <3>1 DEF HereKnown
  <2>3. done' \subseteq done \cup {k}
    BY <2>1 DEF Note, SetPieceFinished, remove_piece, SetRequestFinished, trackerVars
  <2> QED  BY <1>2, <1>4, <2>2, <2>3 DEF ApplyPiece
<1>5. CASE \E p \in Peers : Handles(p)
  <2>1. PICK p \in Peers : Handles(p)
    BY <1>5
  <2>2. CASE \E k \in BlockKeys : HandlePiece(p, k)
    BY <1>3, <2>2
  <2>3. CASE \E choke \in BOOLEAN : HandleFlag(p, choke)
    BY <1>2, <2>3 DEF HandleFlag, HandlesAndSignals, trackerVars
  <2>4. CASE \E pieces \in SUBSET Pieces : HandlePieces(p, pieces)
    BY <1>2, <2>4 DEF HandlePieces, HandlesAndSignals, trackerVars
  <2> QED  BY <2>1, <2>2, <2>3, <2>4 DEF Handles
<1>6. CASE \E p \in Peers : Runs(p)
  BY <1>2, <1>4, <1>6 DEF Runs, SendWake, HandlerEnds, trackerVars
<1>7. CASE \E p \in Peers : Accept(p) \/ Reap(p) \/ Leave(p)
  BY <1>2, <1>7 DEF Accept, Reap, Leave, trackerVars
<1>8. CASE WakeUp
  BY <1>2, <1>8 DEF WakeUp, Dispatch, ComputeRequests
<1>9. CASE Tick \/ TickSends \/ Clock \/ UNCHANGED vars
  BY <1>2, <1>9 DEF Tick, RemoveExpired, TickSends, Clock, PassTime, vars, trackerVars, loopVars
<1> QED  BY <1>5, <1>6, <1>7, <1>8, <1>9 DEF Next

\* With such peers the interval list of a piece is complete as soon as the tracker
\* has all its blocks: the merges that InsertSlice misses (see ArrivedIsComplete
\* of the run where answers come late) need a block that arrives twice.
THEOREM ArrivedCompleteWhenReliable ==
    ASSUME Reliable
    PROVE  Spec => []ArrivedIsComplete
<1>1. Init => AllHere
  <2> SUFFICES ASSUME Init PROVE AllHere
    OBVIOUS
  <2>1. RInv /\ done = {} /\ \A i \in Pieces : slices[i] = <<>>
    BY InitR DEF Init, TrackerInit
  <2>2. \A i \in Pieces : Cover(slices[i]) = {}
    BY <2>1, EmptyList
  <2>3. \A k \in BlockKeys : ~Here(k)
    BY <2>2, KeyPiece DEF Here
  <2> QED  BY <2>1, <2>2, <2>3 DEF AllHere
<1>2. DInv /\ RInv /\ AllHere /\ [Next]_vars => RInv' /\ AllHere'
  BY NextR, NextAllHere
<1>3. RInv /\ AllHere => ArrivedIsComplete
  <2> SUFFICES ASSUME RInv, AllHere, NEW i \in Pieces, BlocksOf(i) \subseteq done
               PROVE  Complete(i)
    BY DEF ArrivedIsComplete
  <2>1. \A k \in BlocksOf(i) : Bytes(k) \subseteq Cover(slices[i])
    BY DEF AllHere, BlocksOf
  <2>2. \A x \in 0 .. piece_len(i) - 1 : x \in Cover(slices[i])
    BY <2>1, BlocksMakePiece
  <2>3. Cover(slices[i]) = 0 .. piece_len(i) - 1
    BY <2>2 DEF AllHere
  <2> QED  BY <2>3, BlocksMakePiece, WholePiece DEF RInv, WholeBlocks, Complete
<1> QED  BY <1>1, <1>2, <1>3, InitR, DownloadInvariant, PTL DEF Spec

-----------------------------------------------------------------------------
(* What downloading promises.                                              *)

\* Only what is completed is on its way to the peers, and a peer hears nothing
\* before its greeting.
ToldCompleted ==
    /\ \A p \in Peers : conn[p] = "new" => haves[p] = {} /\ p \notin peer_to_tx
    /\ \A n \in 1 .. Len(wake), i \in Pieces : wake[n] = PieceComplete(i) => i \in pieces_completed
    /\ \A q \in Peers, i \in Pieces : handler[q] = Signal(PieceComplete(i)) => i \in pieces_completed

\* Nothing is told to a peer before it is greeted.
LEMMA NewcomersKept ==
    ASSUME Typed, [Next]_vars,
           \A p \in Peers : conn[p] = "new" => haves[p] = {} /\ p \notin peer_to_tx
    PROVE  \A p \in Peers : conn'[p] = "new" => haves'[p] = {} /\ p \notin peer_to_tx'
<1>0. conn \in [Peers -> {"new", "open", "closed"}] /\ haves \in [Peers -> SUBSET Pieces]
  BY DEF Typed, DownloadTypeOK
<1>1. CASE UNCHANGED <<conn, haves, peer_to_tx>>
  BY <1>1
<1>2. CASE \E p \in Peers : Accept(p) \/ Reap(p) \/ Leave(p)
  <2>1. PICK p \in Peers : Accept(p) \/ Reap(p) \/ Leave(p)
    BY <1>2
  <2>2. /\ conn'[p] # "new" /\ \A q \in Peers \ {p} : conn'[q] = conn[q] /\ haves'[q] = haves[q]
        /\ peer_to_tx' \subseteq peer_to_tx \cup {p}
    BY <1>0, <2>1 DEF Accept, Reap, Leave
  <2> QED  BY <2>2
<1>3. CASE WakeUp
  <2>1. UNCHANGED conn /\ peer_to_tx' = Open(peer_to_tx) /\ haves' = Announced(Head(wake), peer_to_tx')
    BY <1>3 DEF WakeUp
  <2>2. peer_to_tx' \subseteq peer_to_tx
    BY <2>1 DEF Open
  <2>3. \A p \in Peers : p \notin peer_to_tx' => haves'[p] = haves[p]
    BY <2>1 DEF Announced
  <2> QED  BY <2>1, <2>2, <2>3
<1> QED  BY <1>1, <1>2, <1>3 DEF Next, vars, loopVars, Handles, Runs, HandleFlag, HandlePieces,
            HandlesAndSignals, HandlePiece, ApplyPiece, SendWake, HandlerEnds, Tick, TickSends, Clock

\* A handler is about to announce what it has just noted as finished.
LEMMA SignalsKept ==
    ASSUME Typed, AskedStarted, [Next]_vars, pieces_completed \subseteq pieces_completed',
           \A q \in Peers, i \in Pieces : handler[q] = Signal(PieceComplete(i)) => i \in pieces_completed
    PROVE  \A q \in Peers, i \in Pieces : handler'[q] = Signal(PieceComplete(i)) => i \in pieces_completed'
<1>0. handler \in [Peers -> Places] /\ \A i : Signal(PieceComplete(i)) # Signal(Wakeup)
  BY PlacesApart, Zenon DEF Typed
<1>1. CASE UNCHANGED handler
  BY <1>1
<1>2. ASSUME NEW p \in Peers, NEW h, handler' = [handler EXCEPT ![p] = h],
             \A i \in Pieces : h = Signal(PieceComplete(i)) => i \in pieces_completed'
      PROVE  \A q \in Peers, i \in Pieces : handler'[q] = Signal(PieceComplete(i)) => i \in pieces_completed'
  <2>1. handler'[p] = h /\ \A q \in Peers \ {p} : handler'[q] = handler[q]
    BY <1>0, <1>2
  <2> QED  BY <1>2, <2>1
<1>3. CASE \E p \in Peers : ApplyPiece(p)
  <2>1. PICK p \in Peers : ApplyPiece(p)
    BY <1>3
  <2>2. PICK k \in BlockKeys, f \in BOOLEAN :
          /\ handler'[p] = Signal(IF f THEN PieceComplete(k[1]) ELSE Wakeup)
          /\ \A q \in Peers \ {p} : handler'[q] = handler[q]
          /\ pieces_completed' = IF f THEN pieces_completed \cup {k[1]} ELSE pieces_completed
    BY <2>1, Noting
  <2>3. \A i \in Pieces : handler'[p] = Signal(PieceComplete(i)) => i \in pieces_completed'
    <3> SUFFICES ASSUME NEW i \in Pieces, handler'[p] = Signal(PieceComplete(i))
                 PROVE  i \in pieces_completed'
      OBVIOUS
    <3>1. CASE f
      <4>1. PieceComplete(k[1]) = PieceComplete(i)
        BY <2>2, <3>1, PlacesApart
      <4>2. k[1] = i
        BY <4>1, PlacesApart
      <4> QED  BY <2>2, <3>1, <4>2
    <3>2. CASE ~f
      BY <1>0, <2>2, <3>2
    <3> QED  BY <3>1, <3>2
  <2> QED  BY <2>2, <2>3
<1>4. CASE \E p \in Peers, k \in BlockKeys : HandlePiece(p, k)
  <2>1. PICK p \in Peers, k \in BlockKeys : HandlePiece(p, k)
    BY <1>4
  <2>2. /\ \A q \in Peers \ {p} : handler'[q] = handler[q]
        /\ handler'[p] = Exited \/ handler'[p] = Apply(k, Complete(k[1])')
    BY <2>1, Arrival
  <2>3. \A i : handler'[p] # Signal(PieceComplete(i))
    BY <2>2, PlacesApart
  <2> QED  BY <2>2, <2>3
<1>5. CASE \E p \in Peers : \/ \E choke \in BOOLEAN : HandleFlag(p, choke)
                            \/ \E pieces \in SUBSET Pieces : HandlePieces(p, pieces)
                            \/ SendWake(p) \/ HandlerEnds(p) \/ Accept(p) \/ Reap(p)
  <2>1. PICK p \in Peers, h \in {Signal(Wakeup), Recv, Exited, Idle} : handler' = [handler EXCEPT ![p] = h]
    BY <1>5 DEF HandleFlag, HandlePieces, HandlesAndSignals, SendWake, HandlerEnds, Accept, Reap
  <2>2. \A i : h # Signal(PieceComplete(i))
    BY <1>0, <2>1, PlacesApart
  <2> QED  BY <1>2, <2>1, <2>2
<1> QED  BY <1>1, <1>3, <1>4, <1>5 DEF Next, vars, loopVars, Handles, Runs, Leave, WakeUp, Tick, TickSends, Clock

\* The wake-up channel carries what was completed.
LEMMA WakesKept ==
    ASSUME Typed, ToldCompleted, [Next]_vars, pieces_completed \subseteq pieces_completed'
    PROVE  \A n \in 1 .. Len(wake'), i \in Pieces : wake'[n] = PieceComplete(i) => i \in pieces_completed'
<1>0. wake \in Seq(Messages) /\ \A i : PieceComplete(i) # Wakeup
  BY PlacesApart DEF Typed
<1>1. CASE UNCHANGED wake
  BY <1>1 DEF ToldCompleted
<1>2. ASSUME NEW msg \in Messages, wake' = Append(wake, msg),
             \A i \in Pieces : msg = PieceComplete(i) => i \in pieces_completed
      PROVE  \A n \in 1 .. Len(wake'), i \in Pieces : wake'[n] = PieceComplete(i) => i \in pieces_completed'
  <2> TAKE n \in 1 .. Len(wake'), i \in Pieces
  <2>1. (n \in 1 .. Len(wake) /\ wake'[n] = wake[n]) \/ wake'[n] = msg
    BY <1>0, <1>2
  <2> QED  BY <1>2, <2>1 DEF ToldCompleted
<1>3. CASE \E p \in Peers : SendWake(p)
  <2>1. PICK p \in Peers, msg \in Messages : handler[p] = Signal(msg) /\ wake' = Append(wake, msg)
    BY <1>3 DEF SendWake, Messages
  <2>2. \A i \in Pieces : msg = PieceComplete(i) => i \in pieces_completed
    BY <2>1 DEF ToldCompleted
  <2> QED  BY <1>2, <2>1, <2>2
<1>4. CASE TickSends
  <2>1. Wakeup \in Messages /\ wake' = Append(wake, Wakeup)
    BY <1>4 DEF TickSends, Messages
  <2> QED  BY <1>0, <1>2, <2>1
<1>5. CASE WakeUp
  <2>1. wake # <<>> /\ wake' = Tail(wake)
    BY <1>5 DEF WakeUp
  <2> TAKE n \in 1 .. Len(wake'), i \in Pieces
  <2>2. n + 1 \in 1 .. Len(wake) /\ wake'[n] = wake[n + 1]
    BY <1>0, <2>1
  <2> QED  BY <2>2 DEF ToldCompleted
<1> QED  BY <1>1, <1>3, <1>4, <1>5 DEF Next, vars, loopVars, Handles, Runs, HandleFlag, HandlePieces,
            HandlesAndSignals, HandlePiece, ApplyPiece, HandlerEnds, Accept, Reap, Leave, Tick, Clock

\* Every step keeps it.
LEMMA NextTold == DInv /\ ToldCompleted /\ [Next]_vars => ToldCompleted'
<1> SUFFICES ASSUME DInv, ToldCompleted, [Next]_vars PROVE ToldCompleted'
  OBVIOUS
<1>1. Typed /\ AskedStarted
  BY DEF DInv
<1>2. pieces_completed \subseteq pieces_completed'
  BY <1>1, TrackerStep, TrackerMonotone
<1>3. \A p \in Peers : conn'[p] = "new" => haves'[p] = {} /\ p \notin peer_to_tx'
  BY <1>1, NewcomersKept DEF ToldCompleted
<1>4. \A q \in Peers, i \in Pieces : handler'[q] = Signal(PieceComplete(i)) => i \in pieces_completed'
  BY <1>1, <1>2, SignalsKept DEF ToldCompleted
<1>5. \A n \in 1 .. Len(wake'), i \in Pieces : wake'[n] = PieceComplete(i) => i \in pieces_completed'
  BY <1>1, <1>2, WakesKept
<1> QED  BY <1>3, <1>4, <1>5 DEF ToldCompleted, Signal, PieceComplete

\* The first state.
LEMMA InitTold == Init => ToldCompleted /\ Promise!DeliveryInit
<1> SUFFICES ASSUME Init PROVE ToldCompleted /\ Promise!DeliveryInit
  OBVIOUS
<1>1. /\ haves = [p \in Peers |-> {}] /\ peer_to_tx = {} /\ wake = <<>>
      /\ handler = [p \in Peers |-> Idle] /\ pieces_completed = {} /\ slices = [i \in Pieces |-> <<>>]
  BY DEF Init, TrackerInit
<1>2. ToldCompleted
  <2>1. \A i : Idle # Signal(PieceComplete(i))
    BY PlacesApart, Zenon
  <2>2. Len(wake) = 0
    BY <1>1
  <2> QED  BY <1>1, <2>1, <2>2 DEF ToldCompleted
<1>3. Stored = {}
  <2>1. DInv
    BY InitDInv
  <2>2. \A i \in Pieces : ~Complete(i)
    <3>1. \A p \in Peers : \A k : handler[p] # Apply(k, TRUE)
      BY <1>1, PlacesApart, Zenon
    <3>2. CompletionNeverLost
      BY <2>1 DEF DInv, StoreInv
    <3> QED  BY <1>1, <3>1, <3>2 DEF CompletionNeverLost
  <2> QED  BY <2>2 DEF Stored
<1> QED  BY <1>1, <1>2, <1>3 DEF Promise!DeliveryInit

\* Every step keeps the promise.
LEMMA NextDelivers ==
    ASSUME DInv, ToldCompleted, [Next]_vars
    PROVE  [Promise!DeliveryNext]_(Promise!deliveryVars)
<1>1. Typed /\ AskedStarted /\ TypeOK /\ StoreInv
  BY DEF DInv, IInv
<1>2. haves \in [Peers -> SUBSET Pieces] /\ pieces_completed \subseteq Pieces
  BY <1>1 DEF Typed, DownloadTypeOK, TypeOK
<1>3. UNCHANGED slices => Stored' = Stored
  BY DEF Stored, Complete
<1>4. CASE \E p \in Peers, k \in BlockKeys : HandlePiece(p, k)
  <2>1. PICK p \in Peers, k \in BlockKeys : HandlePiece(p, k)
    BY <1>4
  <2>2. UNCHANGED <<pieces_completed, haves>> /\ k[1] \in Pieces
    BY <2>1, KeyPiece DEF HandlePiece, trackerVars
  <2>3. CASE UNCHANGED slices
    BY <1>3, <2>2, <2>3 DEF Promise!deliveryVars
  <2>4. CASE ~Complete(k[1]) /\ \A i \in Pieces \ {k[1]} : slices'[i] = slices[i]
    <3>1. \A i \in Pieces \ {k[1]} : Complete(i)' <=> Complete(i)
      BY <2>4 DEF Complete
    <3>2. CASE Complete(k[1])'
      <4>1. Stored' = Stored \cup {k[1]} /\ k[1] \notin Stored
        BY <2>2, <2>4, <3>1, <3>2 DEF Stored
      <4>2. Promise!Stores(k[1])
        BY <2>2, <4>1 DEF Promise!Stores
      <4> QED  BY <2>2, <4>2 DEF Promise!DeliveryNext
    <3>3. CASE ~Complete(k[1])'
      <4>1. Stored' = Stored
        BY <2>2, <2>4, <3>1, <3>3 DEF Stored
      <4> QED  BY <2>2, <4>1 DEF Promise!deliveryVars
    <3> QED  BY <3>2, <3>3
  <2> QED  BY <1>1, <2>1, <2>3, <2>4, Arrival
<1>5. CASE \E p \in Peers : ApplyPiece(p)
  <2>1. PICK p \in Peers : ApplyPiece(p)
    BY <1>5
  <2>2. PICK k \in BlockKeys, f \in BOOLEAN :
          /\ handler[p] = Apply(k, f) /\ UNCHANGED <<slices, wake, haves, conn, peer_to_tx>>
          /\ pieces_completed' = IF f THEN pieces_completed \cup {k[1]} ELSE pieces_completed
    BY <1>1, <2>1, Noting
  <2>3. Stored' = Stored /\ UNCHANGED haves /\ k[1] \in Pieces
    BY <1>3, <2>2, KeyPiece
  <2>4. CASE f
    <3>1. k[1] \in Stored
      BY <1>1, <2>1, <2>2, <2>3, <2>4 DEF StoreInv, NotedComplete, Stored
    <3>2. Promise!Completes(k[1])
      BY <2>2, <2>3, <2>4, <3>1 DEF Promise!Completes
    <3> QED  BY <2>3, <3>2 DEF Promise!DeliveryNext
  <2>5. CASE ~f
    BY <2>2, <2>3, <2>5 DEF Promise!deliveryVars
  <2> QED  BY <2>4, <2>5
<1>6. CASE \E p \in Peers : Accept(p)
  <2>1. PICK p \in Peers : Accept(p)
    BY <1>6
  <2>2. /\ conn[p] = "new" /\ haves' = [haves EXCEPT ![p] = pieces_completed]
        /\ UNCHANGED <<slices, pieces_completed>>
    BY <2>1 DEF Accept, trackerVars
  <2>3. Promise!Greets(p)
    BY <1>3, <2>2 DEF Promise!Greets, ToldCompleted
  <2> QED  BY <2>3 DEF Promise!DeliveryNext
<1>7. CASE WakeUp
  <2>1. /\ wake # <<>> /\ peer_to_tx' = Open(peer_to_tx) /\ UNCHANGED slices
        /\ haves' = Announced(Head(wake), peer_to_tx')
    BY <1>7 DEF WakeUp
  <2>2. UNCHANGED pieces_completed
    BY <1>7 DEF WakeUp, Dispatch, ComputeRequests
  <2>3. wake \in Seq(Messages) /\ Head(wake) \in Messages /\ Head(wake) = wake[1] /\ 1 \in 1 .. Len(wake)
        /\ peer_to_tx' \in SUBSET Peers
    BY <1>1, <2>1 DEF Typed, DownloadTypeOK, Open
  <2>4. CASE Head(wake) = Wakeup
    <3>1. haves' = haves
      BY <1>2, <2>1, <2>4 DEF Announced, Wakeup
    <3> QED  BY <1>3, <2>1, <2>2, <3>1 DEF Promise!deliveryVars
  <2>5. ASSUME NEW i \in Pieces, Head(wake) = PieceComplete(i)
        PROVE  Promise!DeliveryNext
    <3>1. i \in pieces_completed
      BY <2>3, <2>5 DEF ToldCompleted
    <3>2. PieceComplete(i)[1] = "PieceComplete" /\ PieceComplete(i)[2] = i
      BY DEF PieceComplete
    <3>3. haves' = [p \in Peers |-> IF p \in peer_to_tx' THEN haves[p] \cup {i} ELSE haves[p]]
      BY <2>1, <2>5, <3>2 DEF Announced
    <3>4. Promise!Announces(i, peer_to_tx')
      BY <1>3, <2>1, <2>2, <3>1, <3>3 DEF Promise!Announces
    <3> QED  BY <2>3, <3>4 DEF Promise!DeliveryNext
  <2> QED  BY <2>3, <2>4, <2>5 DEF Messages
<1>8. CASE UNCHANGED <<slices, pieces_completed, haves>>
  BY <1>3, <1>8 DEF Promise!deliveryVars
<1> QED  BY <1>4, <1>5, <1>6, <1>7, <1>8 DEF Next, vars, loopVars, trackerVars, Handles, Runs, HandleFlag,
            HandlePieces, HandlesAndSignals, SendWake, HandlerEnds, Reap, Leave, Tick, RemoveExpired,
            TickSends, Clock, PassTime

\* The processor keeps what Delivery promises, for every torrent, set of peers and
\* channel size.
THEOREM DownloadKeepsPromise == Spec => DeliveryRefined
<1>1. Spec => []ToldCompleted
  BY InitTold, NextTold, DownloadInvariant, PTL DEF Spec
<1>2. DInv /\ ToldCompleted /\ [Next]_vars => [Promise!DeliveryNext]_(Promise!deliveryVars)
  BY NextDelivers
<1> QED  BY <1>1, <1>2, InitTold, DownloadInvariant, PTL DEF Spec, DeliveryRefined, Promise!DeliverySpec
=============================================================================

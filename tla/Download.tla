------------------------------ MODULE Download ------------------------------
(***************************************************************************)
(* TorrentProcessor::start (peer/state/mod.rs) downloading from its peers: *)
(* the select loop, one handler per peer, the wake-up channel between      *)
(* them, and below them the piece tracker, the peer registry and the       *)
(* interval lists of the file store.                                       *)
(*                                                                         *)
(* The peers here are seeds: they announce pieces, choke and unchoke us,   *)
(* answer requests, send blocks unasked, or go away; they request nothing, *)
(* so compute_unchoke and dequeue_requests find nothing to do (module      *)
(* Upload has the rest).                                                   *)
(* Blocks are right and the last piece is full, so write_piece finds the   *)
(* hash right whenever a piece is complete (module TorrentIO).             *)
(*                                                                         *)
(* The handlers are futures the loop polls while it waits at select!, so   *)
(* no handler moves while the body of a branch runs.  The body of a branch *)
(* is one action, except that the tick may wait for room in the wake-up    *)
(* channel it shares with the handlers.  A handler gives up control where  *)
(* it awaits: for a message, for the io task, for room in the channel.     *)
(***************************************************************************)
EXTENDS PieceTracker, TorrentState, SliceOps

CONSTANTS
    Holdings,       \* the pieces each peer has
    Fickle,         \* the peers that may choke us, never answer, or leave
    Unsolicited,    \* the blocks they may send unasked
    Prompt,         \* do the other peers always answer before the timeout?
    WakeCap,        \* mpsc::channel(10) of start
    MaxRepeats      \* bound: unanswered requests for one block at one peer

ASSUME DownloadAssumption ==
    /\ PieceIds = Pieces
    /\ Holdings \in [Peers -> SUBSET Pieces]
    /\ Fickle \subseteq Peers
    /\ Unsolicited \subseteq BlockKeys
    /\ Prompt \in BOOLEAN
    /\ WakeCap \in Nat \ {0}
    /\ MaxRepeats \in Nat \ {0}

VARIABLES
    conn,           \* run_connection of each peer: "new", "open", "closed"
    handler,        \* where each inner_handle_peer_msgs is
    sent,           \* requests each peer has received and not answered
    haves,          \* pieces each peer was told we have
    peer_to_tx,     \* peers whose sender is in the map
    wake,           \* the wake-up channel
    main,           \* "select", or "sending" inside the tick
    slices          \* the interval list of each piece in the store

loopVars == <<conn, handler, sent, haves, peer_to_tx, wake, main, slices>>
vars == <<trackerVars, peerVars, loopVars>>

Wakeup == <<"Wakeup">>
PieceComplete(i) == <<"PieceComplete", i>>

Idle == <<"none">>
Recv == <<"recv">>
Apply(k, finished) == <<"apply", k, finished>>
Signal(msg) == <<"signal", msg>>
Exited == <<"exited">>

Complete(i) == IsComplete(slices[i], piece_len(i))

Open(ps) == {p \in ps : conn[p] = "open"}

\* A block that p may send although nobody asked for it.
Unasked(p, k) == p \in Fickle /\ k \in Unsolicited

Init ==
    /\ TrackerInit
    /\ PeersInit
    /\ conn = [p \in Peers |-> "new"]
    /\ handler = [p \in Peers |-> Idle]
    /\ sent = [p \in Peers |-> [k \in BlockKeys |-> 0]]
    /\ haves = [p \in Peers |-> {}]
    /\ peer_to_tx = {}
    /\ wake = <<>>
    /\ main = "select"
    /\ slices = [i \in Pieces |-> <<>>]

-----------------------------------------------------------------------------
(* The handler of peer p.                                                  *)

\* A message that only changes the peer registry.  What was received before the
\* connection closed is still handled after it.
HandlesAndSignals(p) ==
    /\ handler' = [handler EXCEPT ![p] = Signal(Wakeup)]
    /\ UNCHANGED <<trackerVars, conn, sent, haves, peer_to_tx, wake, main, slices>>

\* Faulty: an unchoke wakes nobody up.
HandleFlagSilently(p, choke) ==
    /\ p \in interested /\ p \notin peers_not_choking
    /\ main = "select" /\ handler[p] = Recv
    /\ set_peer_choked_us(p, choke)
    /\ UNCHANGED <<trackerVars, loopVars>>

\* Choke and Unchoke.  A peer unchokes those that told it of their interest.
HandleFlag(p, choke) ==
    /\ main = "select" /\ handler[p] = Recv
    /\ IF choke THEN p \in Fickle /\ p \in peers_not_choking
       ELSE p \in interested /\ p \notin peers_not_choking
    /\ set_peer_choked_us(p, choke)
    /\ HandlesAndSignals(p)

\* BitField, which comes first, and Have.  When our interest changes the peer is
\* told; the handler ends if that fails, without a wake-up.
HandlePieces(p, pieces) ==
    /\ main = "select" /\ handler[p] = Recv
    /\ \/ pieces = Holdings[p] /\ peers_to_pieces[p] = {}
       \/ \E i \in Holdings[p] \ peers_to_pieces[p] : pieces = {i}
    /\ add_pieces_for_peer(p, pieces, pieces_not_started)
    /\ IF conn[p] = "closed" /\ InterestChanges(p, pieces, pieces_not_started)
       THEN /\ handler' = [handler EXCEPT ![p] = Exited]
            /\ UNCHANGED <<trackerVars, conn, sent, haves, peer_to_tx, wake, main, slices>>
       ELSE HandlesAndSignals(p)

\* Piece, asked for or not: io.write runs without the lock; a piece that is
\* complete already makes it fail, and the `?` ends the handler.
HandlePiece(p, k) ==
    /\ main = "select"
    /\ handler[p] = Recv
    /\ sent[p][k] > 0 \/ Unasked(p, k)
    /\ sent' = [sent EXCEPT ![p][k] = IF @ > 0 THEN @ - 1 ELSE @]
    /\ \/ /\ Complete(k[1])
          /\ handler' = [handler EXCEPT ![p] = Exited]
          /\ UNCHANGED slices
       \/ /\ ~Complete(k[1])
          /\ slices' = [slices EXCEPT ![k[1]] = InsertSlice(@, k[2], RequestLength(k[1], k[2]))]
          /\ handler' = [handler EXCEPT ![p] = Apply(k, Complete(k[1])')]
    /\ UNCHANGED <<trackerVars, peerVars, conn, haves, peer_to_tx, wake, main>>

\* Faulty: the block is noted, never the piece.
NoteBlockOnly(k, finished) ==
    IF k \in downloading THEN SetRequestFinished(k) ELSE UNCHANGED trackerVars

\* Faulty: the test is inverted.
NoteInverted(k, finished) ==
    IF ~finished THEN SetPieceFinished(k[1])
    ELSE IF k \in downloading THEN SetRequestFinished(k) ELSE UNCHANGED trackerVars

\* set_piece_finished or set_request_finished, which ignores a block that is
\* no longer in flight.
Note(k, finished) ==
    IF finished THEN SetPieceFinished(k[1])
    ELSE IF k \in downloading THEN SetRequestFinished(k) ELSE UNCHANGED trackerVars

\* ... then, under the lock, the tracker is told.
ApplyPiece(p) ==
    /\ main = "select"
    /\ \E k \in BlockKeys, finished \in BOOLEAN :
        /\ handler[p] = Apply(k, finished)
        /\ Note(k, finished)
        /\ handler' = [handler EXCEPT
                ![p] = Signal(IF finished THEN PieceComplete(k[1]) ELSE Wakeup)]
    /\ UNCHANGED <<peerVars, conn, sent, haves, peer_to_tx, wake, main, slices>>

\* Faulty: the channel is taken to be unbounded.
SendWakeUnbounded(p) ==
    /\ main = "select"
    /\ \E msg \in {Wakeup} \cup {PieceComplete(i) : i \in Pieces} :
        /\ handler[p] = Signal(msg)
        /\ wake' = Append(wake, msg)
    /\ handler' = [handler EXCEPT ![p] = Recv]
    /\ UNCHANGED <<trackerVars, peerVars, conn, sent, haves, peer_to_tx, main, slices>>

\* wake_tx.send(..).await, after the lock was dropped.
SendWake(p) ==
    /\ main = "select"
    /\ Len(wake) < WakeCap
    /\ \E msg \in {Wakeup} \cup {PieceComplete(i) : i \in Pieces} :
        /\ handler[p] = Signal(msg)
        /\ wake' = Append(wake, msg)
    /\ handler' = [handler EXCEPT ![p] = Recv]
    /\ UNCHANGED <<trackerVars, peerVars, conn, sent, haves, peer_to_tx, main, slices>>

\* rx.recv() returns None once the connection is gone.
HandlerEnds(p) ==
    /\ main = "select"
    /\ handler[p] = Recv
    /\ conn[p] = "closed"
    /\ handler' = [handler EXCEPT ![p] = Exited]
    /\ UNCHANGED <<trackerVars, peerVars, conn, sent, haves, peer_to_tx, wake, main, slices>>

-----------------------------------------------------------------------------
(* The select loop.                                                        *)

\* A new connection: init_connection sends the bitfield.  (It fails when the
\* connection is gone by then; such a peer is as if it had never come.)
Accept(p) ==
    /\ main = "select"
    /\ handler[p] = Idle
    /\ conn[p] = "new"
    /\ conn' = [conn EXCEPT ![p] = "open"]
    /\ haves' = [haves EXCEPT ![p] = pieces_completed]
    /\ peer_to_tx' = peer_to_tx \cup {p}
    /\ handler' = [handler EXCEPT ![p] = Recv]
    /\ UNCHANGED <<trackerVars, peerVars, sent, wake, main, slices>>

\* A handler is over: its peer is forgotten.
Reap(p) ==
    /\ main = "select"
    /\ handler[p] = Exited
    /\ handler' = [handler EXCEPT ![p] = Idle]
    /\ conn' = [conn EXCEPT ![p] = "closed"]
    /\ peer_to_tx' = peer_to_tx \ {p}
    /\ remove_peer(p)
    /\ UNCHANGED <<trackerVars, sent, haves, wake, main, slices>>

\* Pieces some unchoked peer has.
Served == {i \in get_incomplete_pieces : piece_id_to_peers(i) # {}}

\* compute_requests_for_download: each served piece goes to one of its peers;
\* what cannot be sent is removed from the tracker again.
Dispatch(assignee, live) ==
    \E batch \in {Assigned(Served)} :
        /\ \A k \in batch : sent[assignee[k[1]]][k] < MaxRepeats
        /\ ComputeRequests(Served, {k \in batch : assignee[k[1]] \notin live})
        /\ sent' = [p \in Peers |-> [k \in BlockKeys |->
                      IF p \in live /\ k \in batch /\ assignee[k[1]] = p
                      THEN sent[p][k] + 1 ELSE sent[p][k]]]

\* Faulty: completed pieces are announced to nobody.
AnnounceNobody(msg, live) == haves

\* announce_piece
Announced(msg, live) ==
    [p \in Peers |-> IF p \in live /\ msg[1] = "PieceComplete" THEN haves[p] \cup {msg[2]}
                     ELSE haves[p]]

\* A wake-up: prune_closed_tx, announce_piece, then the dispatch.
WakeUp ==
    /\ main = "select"
    /\ wake # <<>>
    /\ wake' = Tail(wake)
    /\ peer_to_tx' = Open(peer_to_tx)
    /\ haves' = Announced(Head(wake), peer_to_tx')
    /\ \E assignee \in [Served -> Peers] :
        /\ \A i \in Served : assignee[i] \in piece_id_to_peers(i)
        /\ Dispatch(assignee, peer_to_tx')
    /\ UNCHANGED <<peerVars, conn, handler, main, slices>>

\* The five-second tick: expired requests are dropped, and if there were any,
\* the loop sends a wake-up to itself.
Tick ==
    /\ main = "select"
    /\ RemoveExpired
    /\ main' = IF downloading' # downloading THEN "sending" ELSE "select"
    /\ UNCHANGED <<peerVars, conn, handler, sent, haves, peer_to_tx, wake, slices>>

TickSends ==
    /\ main = "sending"
    /\ Len(wake) < WakeCap
    /\ wake' = Append(wake, Wakeup)
    /\ main' = "select"
    /\ UNCHANGED <<trackerVars, peerVars, conn, handler, sent, haves, peer_to_tx, slices>>

-----------------------------------------------------------------------------
(* The world.                                                              *)

\* A peer goes away.
Leave(p) ==
    /\ p \in Fickle
    /\ conn[p] = "open"
    /\ conn' = [conn EXCEPT ![p] = "closed"]
    /\ UNCHANGED <<trackerVars, peerVars, handler, sent, haves, peer_to_tx, wake, main, slices>>

\* A reliable peer has something to do.
Busy(p) ==
    /\ p \notin Fickle
    /\ \/ handler[p] \notin {Idle, Recv}
       \/ handler[p] = Recv /\ \E k \in BlockKeys : sent[p][k] > 0

Clock ==
    /\ Prompt => ~\E p \in Peers : Busy(p)
    /\ PassTime
    /\ UNCHANGED <<peerVars, loopVars>>

Handles(p) ==
    \/ \E choke \in BOOLEAN : HandleFlag(p, choke)
    \/ \E pieces \in SUBSET Pieces : HandlePieces(p, pieces)
    \/ \E k \in BlockKeys : HandlePiece(p, k)

Runs(p) == ApplyPiece(p) \/ SendWake(p) \/ HandlerEnds(p)

Next ==
    \/ \E p \in Peers : Handles(p) \/ Runs(p) \/ Accept(p) \/ Reap(p) \/ Leave(p)
    \/ WakeUp
    \/ Tick
    \/ TickSends
    \/ Clock

\* The loop keeps running: select! picks at random among the branches that are
\* ready, the timer fires for ever, and a handler that can move is polled.
\* Reliable peers announce their pieces, unchoke us and answer.
Fairness ==
    /\ WF_vars(WakeUp) /\ WF_vars(Tick) /\ WF_vars(TickSends) /\ WF_vars(Clock)
    /\ \A p \in Peers : WF_vars(Runs(p)) /\ WF_vars(Accept(p)) /\ WF_vars(Reap(p))
    /\ \A p \in Peers \ Fickle : SF_vars(Handles(p))

Spec == Init /\ [][Next]_vars
FairSpec == Spec /\ Fairness

-----------------------------------------------------------------------------
\* Every variable has its type.
DownloadTypeOK ==
    /\ conn \in [Peers -> {"new", "open", "closed"}]
    /\ \A p \in Peers : handler[p][1] \in {"none", "recv", "apply", "signal", "exited"}
    /\ sent \in [Peers -> [BlockKeys -> 0 .. MaxRepeats]]
    /\ haves \in [Peers -> SUBSET Pieces]
    /\ peer_to_tx \subseteq Peers
    /\ Len(wake) <= WakeCap
    /\ main \in {"select", "sending"}

\* A piece the tracker counts as completed is complete in the store and stays so,
\* although io.write and the tracker are updated in separate steps between
\* which requests expire and other handlers run.
TrackerMatchesStore == \A i \in pieces_completed : Complete(i)

\* When every block of a piece has arrived, by the tracker's count, its interval
\* list is complete ("will return true when the entire piece is complete"),
\* although blocks asked for again arrive twice.
ArrivedIsComplete == \A i \in Pieces : BlocksOf(i) \subseteq done => Complete(i)

\* A piece that is complete in the store is completed in the tracker, or the
\* handler that wrote its last block is about to say so: a completion is never
\* lost, whatever happens to the connection of that peer meanwhile.
CompletionNeverLost ==
    \A i \in Pieces :
        Complete(i) => \/ i \in pieces_completed
                       \/ \E p \in Peers, k \in BlocksOf(i) : handler[p] = Apply(k, TRUE)

\* Every connected peer knows of every completed piece, or the announcement is
\* still on its way through the wake-up channel.
AnnouncedOrPending ==
    \A p \in Open(peer_to_tx) : \A i \in pieces_completed \ haves[p] :
        \/ \E n \in 1 .. Len(wake) : wake[n] = PieceComplete(i)
        \/ \E q \in Peers : handler[q] = Signal(PieceComplete(i))

\* A reliable peer whose answers arrive in time is never dropped: no block is
\* asked for twice while its answer is on the way.
ReliablePeersKept ==
    \A p \in Peers \ Fickle : handler[p] # Exited

\* get_incomplete_pieces ("started, but not completed") lists a completed piece, whose
\* blocks are then requested again, only if all of them may come unasked.
\* set_piece_finished does not look at pieces_not_started: one block that had to be
\* asked for is what takes the piece off that set, before its last block is noted,
\* however late the answers are and whoever sends the others.
CompletedNotListed ==
    \A i \in get_incomplete_pieces \cap pieces_completed : BlocksOf(i) \subseteq Unsolicited

Stored == {i \in Pieces : Complete(i)}

Promise == INSTANCE Delivery WITH stored <- Stored, completed <- pieces_completed, told <- haves

\* Each piece is stored once, completed only when stored and told of only when
\* completed, and none of it is ever undone, although expiries, late answers and
\* lost peers come between the write, the tracker and the announcement.
DeliveryRefined == Promise!DeliverySpec

\* The torrent is downloaded.
DownloadCompletes == <>(pieces_completed = Pieces)

\* Nothing is in flight although a reliable, connected and unchoked peer has
\* a piece we want.
IdleWithWork ==
    /\ downloading = {}
    /\ \E i \in get_incomplete_pieces :
          (piece_id_to_peers(i) \cap Open(peer_to_tx)) \ Fickle # {}

\* Peers "with pieces we want, and that are willing to share" are asked.
IdleEnds == IdleWithWork ~> ~IdleWithWork
=============================================================================

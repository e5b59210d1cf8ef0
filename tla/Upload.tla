------------------------------- MODULE Upload -------------------------------
(***************************************************************************)
(* TorrentProcessor::start (peer/state/mod.rs) serving its peers: flags,   *)
(* the Request message, the wake-up channel, the queue of peer requests,   *)
(* and the choking the tick decides on.                                    *)
(*                                                                         *)
(* The peers here are leeches: they have no pieces, so compute_requests_-  *)
(* for_download finds nothing to ask for (module Download has the rest).   *)
(* The n-th request of peer p is <<p, n>>.  As in Download, the body of a  *)
(* select! branch is one action and no handler moves during it.            *)
(***************************************************************************)
EXTENDS TorrentState, Sequences, SequencesExt

CONSTANTS
    ToDeq,          \* to_deq: requests served per wake-up (4 in the code)
    ChokeSize,      \* ideal_stationary_choke_size (4 in the code)
    Unreadable,     \* peers that ask for pieces the store cannot read
    WakeCap,        \* mpsc::channel(10) of start
    MaxRequests     \* bound: requests made by all peers together

ASSUME UploadAssumption ==
    /\ ToDeq \in Nat \ {0} /\ ChokeSize \in Nat /\ WakeCap \in Nat \ {0}
    /\ MaxRequests \in Nat
    /\ Unreadable \subseteq Peers

VARIABLES
    conn,           \* "new", "open", "closed"
    handler,        \* where each inner_handle_peer_msgs is
    flag,           \* the last of Choke and Unchoke sent to each peer
    asked,          \* requests made by each peer
    accepted,       \* requests that were not ignored for choking
    failed,         \* requests whose own read failed
    peer_to_tx, wake,
    outstanding_peer_requests,
    answered        \* requests answered to each peer, in order

uploadVars == <<conn, handler, flag, asked, accepted, failed, peer_to_tx, wake,
                outstanding_peer_requests, answered>>
vars == <<peerVars, uploadVars>>

Requests == Peers \X (1 .. MaxRequests)

Wakeup == <<"Wakeup">>
PeerRequestedPiece(r) == <<"PeerRequestedPiece", r>>
Messages == {Wakeup} \cup {PeerRequestedPiece(r) : r \in Requests}

Idle == <<"none">>
Recv == <<"recv">>
Signal(msg) == <<"signal", msg>>
Exited == <<"exited">>

Init ==
    /\ PeersInit
    /\ conn = [p \in Peers |-> "new"]
    /\ handler = [p \in Peers |-> Idle]
    /\ flag = [p \in Peers |-> "none"]
    /\ asked = [p \in Peers |-> 0]
    /\ accepted = {}
    /\ failed = {}
    /\ peer_to_tx = {}
    /\ wake = <<>>
    /\ outstanding_peer_requests = <<>>
    /\ answered = [p \in Peers |-> <<>>]

-----------------------------------------------------------------------------
(* The handler of peer p.  What was received before the connection closed  *)
(* is still handled after it.                                              *)

\* Interested and NotInterested.
HandleInterest(p, interest) ==
    /\ handler[p] = Recv
    /\ set_peers_interested_in_us(p, interest)
    /\ handler' = [handler EXCEPT ![p] = Signal(Wakeup)]
    /\ UNCHANGED <<conn, flag, asked, accepted, failed, peer_to_tx, wake,
                   outstanding_peer_requests, answered>>

\* A peer that is not in the map yet counts as choked.
Choking(p) == p \notin peers \/ p \in choked

\* Request: ignored when we choke the peer, else handed to the loop.
HandleRequest(p) ==
    /\ handler[p] = Recv
    /\ SumFunction(asked) < MaxRequests
    /\ asked' = [asked EXCEPT ![p] = @ + 1]
    /\ \/ Choking(p) /\ UNCHANGED <<accepted, handler>>
       \/ /\ ~Choking(p)
          /\ accepted' = accepted \cup {<<p, asked'[p]>>}
          /\ handler' = [handler EXCEPT ![p] = Signal(PeerRequestedPiece(<<p, asked'[p]>>))]
    /\ UNCHANGED <<peerVars, conn, flag, failed, peer_to_tx, wake,
                   outstanding_peer_requests, answered>>

\* wake_tx.send(..).await
SendWake(p) ==
    /\ Len(wake) < WakeCap
    /\ \E msg \in Messages :
        /\ handler[p] = Signal(msg)
        /\ wake' = Append(wake, msg)
    /\ handler' = [handler EXCEPT ![p] = Recv]
    /\ UNCHANGED <<peerVars, conn, flag, asked, accepted, failed, peer_to_tx,
                   outstanding_peer_requests, answered>>

HandlerEnds(p) ==
    /\ handler[p] = Recv
    /\ conn[p] = "closed"
    /\ handler' = [handler EXCEPT ![p] = Exited]
    /\ UNCHANGED <<peerVars, conn, flag, asked, accepted, failed, peer_to_tx, wake,
                   outstanding_peer_requests, answered>>

-----------------------------------------------------------------------------
(* The select loop.                                                        *)

\* init_connection sends Choke; no entry is made in `peers`.
Accept(p) ==
    /\ handler[p] = Idle
    /\ conn[p] = "new"
    /\ conn' = [conn EXCEPT ![p] = "open"]
    /\ flag' = [flag EXCEPT ![p] = "Choke"]
    /\ peer_to_tx' = peer_to_tx \cup {p}
    /\ handler' = [handler EXCEPT ![p] = Recv]
    /\ UNCHANGED <<peerVars, asked, accepted, failed, wake, outstanding_peer_requests, answered>>

Reap(p) ==
    /\ handler[p] = Exited
    /\ handler' = [handler EXCEPT ![p] = Idle]
    /\ peer_to_tx' = peer_to_tx \ {p}
    /\ remove_peer(p)
    /\ UNCHANGED <<conn, flag, asked, accepted, failed, wake, outstanding_peer_requests, answered>>

\* Faulty: asks whether the peer is interested, not whether it is known.
QueueRequestsInterested(msg) ==
    IF msg # Wakeup /\ msg[2][1] \in peers_interested
    THEN Append(outstanding_peer_requests, msg[2])
    ELSE outstanding_peer_requests

\* queue_requests: the peer must still be known.
queue_requests(msg) ==
    IF msg # Wakeup /\ msg[2][1] \in peers
    THEN Append(outstanding_peer_requests, msg[2])
    ELSE outstanding_peer_requests

\* The requests dequeue_requests takes off the queue and serves.
Taken(queue) == SubSeq(queue, 1, IF Len(queue) < ToDeq THEN Len(queue) ELSE ToDeq)

\* Faulty: front() for pop_front().
LeftPeeked(queue) == queue

\* What is left: the loop pops once more before it looks at the counter.
Left(queue) == SubSeq(queue, ToDeq + 2, Len(queue))

\* The request io.read fails on, which ends the serving; 0 if there is none.
FirstFailure(taken, live) ==
    LET bad == {i \in 1 .. Len(taken) : taken[i][1] \in live \cap Unreadable}
    IN  IF bad = {} THEN 0 ELSE CHOOSE i \in bad : \A j \in bad : i <= j

\* What each peer has been sent once the requests in `served` are answered; those
\* of a peer that is gone are passed over.
Answers(served, live) ==
    LET after[n \in 0 .. Len(served)] ==
            IF n = 0 THEN answered
            ELSE IF served[n][1] \in live
            THEN [after[n - 1] EXCEPT ![served[n][1]] = Append(@, served[n])]
            ELSE after[n - 1]
    IN  after[Len(served)]

\* dequeue_requests
Dequeue(queue, live) ==
    LET taken == Taken(queue)
        fail == FirstFailure(taken, live)
        served == IF fail = 0 THEN taken ELSE SubSeq(taken, 1, fail - 1)
    IN  /\ outstanding_peer_requests' = Left(queue)
        /\ answered' = Answers(served, live)
        /\ failed' = IF fail = 0 THEN failed ELSE failed \cup {taken[fail]}

\* Faulty: dequeue_requests before queue_requests.
WakeUpDequeueFirst ==
    /\ wake # <<>>
    /\ wake' = Tail(wake)
    /\ peer_to_tx' = {p \in peer_to_tx : conn[p] = "open"}
    /\ outstanding_peer_requests' = queue_requests(Head(wake))
    /\ answered' = Answers(outstanding_peer_requests, Peers)
    /\ UNCHANGED <<peerVars, conn, handler, flag, asked, accepted, failed>>

\* A wake-up: prune_closed_tx, queue_requests, dequeue_requests.
WakeUp ==
    /\ wake # <<>>
    /\ wake' = Tail(wake)
    /\ peer_to_tx' = {p \in peer_to_tx : conn[p] = "open"}
    /\ Dequeue(queue_requests(Head(wake)), peer_to_tx')
    /\ UNCHANGED <<peerVars, conn, handler, flag, asked, accepted>>

\* compute_unchoke.  The stationary set holds both the unchoked and the
\* interested peers; which of several candidates are taken is up to the hash.
compute_unchoke ==
    LET interestedPeers == peers_that_are_interested(TRUE)
        unchoked == peers \ choked
        stationary == unchoked \cup interestedPeers
    IN  IF interestedPeers # {} /\ Cardinality(stationary) < ChokeSize
        THEN \E new \in SUBSET (interestedPeers \ stationary) :
                LET gone == unchoked \ stationary IN
                /\ Cardinality(new) <= ChokeSize - Cardinality(stationary)
                /\ choked' = (choked \cup gone) \ new
                /\ flag' = [p \in Peers |-> IF p \notin peer_to_tx THEN flag[p]
                                            ELSE IF p \in new THEN "Unchoke"
                                            ELSE IF p \in gone THEN "Choke" ELSE flag[p]]
        ELSE UNCHANGED <<choked, flag>>

Tick ==
    /\ compute_unchoke
    /\ UNCHANGED <<peers, interested, peers_interested, peers_not_choking,
                   peers_to_pieces, pieces_to_peers>>
    /\ UNCHANGED <<conn, handler, asked, accepted, failed, peer_to_tx, wake,
                   outstanding_peer_requests, answered>>

\* A peer goes away.
Leave(p) ==
    /\ conn[p] = "open"
    /\ conn' = [conn EXCEPT ![p] = "closed"]
    /\ UNCHANGED <<peerVars, handler, flag, asked, accepted, failed, peer_to_tx, wake,
                   outstanding_peer_requests, answered>>

Next ==
    \/ \E p \in Peers :
        \/ \E interest \in BOOLEAN : HandleInterest(p, interest)
        \/ HandleRequest(p)
        \/ SendWake(p)
        \/ HandlerEnds(p)
        \/ Accept(p)
        \/ Reap(p)
        \/ Leave(p)
    \/ WakeUp
    \/ Tick

\* select! serves every branch that stays ready and polls every handler; the
\* senders that wait for a bounded channel get its slots first come first
\* served, so one that waits gets its turn though others keep the channel full.
Fairness ==
    /\ WF_vars(WakeUp) /\ WF_vars(Tick)
    /\ \A p \in Peers : SF_vars(SendWake(p)) /\ WF_vars(HandlerEnds(p)) /\ WF_vars(Reap(p))

Spec == Init /\ [][Next]_vars
FairSpec == Spec /\ Fairness

-----------------------------------------------------------------------------
IsAnswered(r) == \E i \in 1 .. Len(answered[r[1]]) : answered[r[1]][i] = r

\* A request we did not ignore is answered, on its way through the handler,
\* the channel and the queue, unreadable itself, or its peer has left.
NoRequestLost ==
    \A r \in accepted :
        \/ IsAnswered(r)
        \/ handler[r[1]] = Signal(PeerRequestedPiece(r))
        \/ \E i \in 1 .. Len(wake) : wake[i] = PeerRequestedPiece(r)
        \/ \E i \in 1 .. Len(outstanding_peer_requests) : outstanding_peer_requests[i] = r
        \/ r \in failed
        \/ conn[r[1]] = "closed"

\* Each peer gets its answers in the order of its requests, each at most once,
\* although handlers, channel and queue are shared by all peers.
AnsweredInOrder ==
    \A p \in Peers : \A i, j \in 1 .. Len(answered[p]) :
        i < j => answered[p][i][2] < answered[p][j][2]

\* A request we did not ignore is answered, unless the store cannot read what
\* it asks for or its peer leaves; what other peers ask for is no excuse.
EveryRequestAnswered ==
    \A r \in Requests :
        r \in accepted ~> IsAnswered(r) \/ r[1] \in Unreadable \/ conn[r[1]] = "closed"
=============================================================================

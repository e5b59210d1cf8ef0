------------------------------- MODULE Wiring -------------------------------
(***************************************************************************)
(* Who waits for whom: the dialling of peers and run_connection of         *)
(* peer/net.rs, and the select loop and handlers of TorrentProcessor       *)
(* (peer/state/mod.rs) around the torrent lock and the bounded channels.   *)
(*                                                                         *)
(* The body of a select! branch, or what a handler does with a message, is *)
(* the sequence of its operations that may wait: take and release the      *)
(* lock, send into a channel, call the io task.  What they do to the       *)
(* torrent is the subject of Download and Upload.  The loop and all        *)
(* handlers are one task: a body runs until it has to wait, and while the  *)
(* loop is in a body no handler is polled.  The lock is a queue: its head  *)
(* owns it, and releasing it hands it to the next in line.                 *)
(***************************************************************************)
EXTENDS Integers, Sequences, FiniteSets, SequencesExt

CONSTANTS
    Count,          \* peers in the tracker's answer; a connection is its place there
    PeerId,         \* the peer id in the handshake of each
    MaxConns,       \* config.max_conns
    TxSize,         \* config.peer_tx_size
    RxSize,         \* config.peer_rx_size
    WakeSize,       \* mpsc::channel(10) of start
    Leaving,        \* remotes that may close, or stop reading for longer than rw_timeout
    Expiry,         \* do requests ever time out?
    MaxIn,          \* bound: messages the remotes send, all together
    MaxOut          \* bound: requests and answers the loop sends, all together

Conns == 1 .. Count
Main == 0
Procs == {Main} \cup Conns

ASSUME WiringAssumption ==
    /\ Count \in Nat
    /\ MaxConns \in Nat \ {0} /\ RxSize \in Nat \ {0} /\ WakeSize \in Nat \ {0}
    /\ TxSize \in Nat /\ TxSize >= 3
    /\ PeerId \in [Conns -> Conns]
    /\ Leaving \subseteq Conns
    /\ Expiry \in BOOLEAN
    /\ MaxIn \in Nat /\ MaxOut \in Nat

VARIABLES
    dialled,        \* how far connect_torrent_peers is in the list
    conn,           \* where each run_connection is
    starts,         \* conn_tx: the PeerStartMessages on their way
    tx, rx,         \* messages in the two channels of a connection
    peer_to_tx,     \* peer id -> the connection whose sender is in the map
    handler,        \* "none", "live", "exited", "over"
    todo,           \* what the loop and each handler have yet to do
    lock,           \* the owner of the torrent lock, then those who wait for it
    wake,           \* the wake-up channel
    arrived, handled, out   \* messages read, messages handled, MaxOut used up

netVars == <<dialled, conn, arrived>>
loopVars == <<peer_to_tx, handler, todo, lock, wake, handled, out>>
vars == <<netVars, starts, tx, rx, loopVars>>

Init ==
    /\ dialled = 0
    /\ conn = [c \in Conns |-> "listed"]
    /\ starts = <<>>
    /\ tx = [c \in Conns |-> 0]
    /\ rx = [c \in Conns |-> 0]
    /\ peer_to_tx = <<>>
    /\ handler = [c \in Conns |-> "none"]
    /\ todo = [x \in Procs |-> <<>>]
    /\ lock = <<>>
    /\ wake = <<>>
    /\ arrived = [c \in Conns |-> 0]
    /\ handled = [c \in Conns |-> 0]
    /\ out = 0

-----------------------------------------------------------------------------
(* connect_torrent_peers and run_connection.                               *)

\* The futures in active_conns.
Active == {c \in Conns : conn[c] \notin {"listed", "failed", "ended"}}

\* The dialling loop is over: the list is, or it broke off, and then some
\* run_connection has been polled or can be.
DialledAll ==
    \/ dialled = Count
    \/ Cardinality(Active) >= MaxConns
    \/ \E c \in Conns : conn[c] \notin {"listed", "failed", "queued"}

\* The next peer is connected to and its handshake read, each within a second,
\* or it is left out.  Its run_connection is not polled before the loop is over.
Dial ==
    /\ ~DialledAll
    /\ dialled' = dialled + 1
    /\ \/ conn' = [conn EXCEPT ![dialled'] = "failed"]
       \/ conn' = [conn EXCEPT ![dialled'] = "queued"]
    /\ UNCHANGED <<arrived, starts, tx, rx, loopVars>>

\* tx.send(peer_msg): conn_tx has room for one.
Start(c) ==
    /\ conn[c] = "queued"
    /\ DialledAll
    /\ starts = <<>>
    /\ starts' = <<c>>
    /\ conn' = [conn EXCEPT ![c] = "select"]
    /\ UNCHANGED <<dialled, arrived, tx, rx, loopVars>>

\* Someone still has a sender for the connection.
HasSender(c) ==
    \/ starts = <<c>>
    \/ handler[c] = "live"
    \/ \E id \in DOMAIN peer_to_tx : peer_to_tx[id] = c
    \/ \E i \in DOMAIN todo[Main] : todo[Main][i] = <<"insert", c>>

\* The receiver of rx was dropped.
NoReceiver(c) == handler[c] \in {"exited", "over"}

\* select!: a message from the processor is taken ...
TakesMessage(c) ==
    /\ conn[c] = "select"
    /\ tx[c] > 0
    /\ tx' = [tx EXCEPT ![c] = @ - 1]
    /\ conn' = [conn EXCEPT ![c] = "writing"]
    /\ UNCHANGED <<dialled, arrived, starts, rx, loopVars>>

\* ... and written, or the write fails or times out.
Writes(c) ==
    /\ conn[c] = "writing"
    /\ \/ conn' = [conn EXCEPT ![c] = "select"] /\ UNCHANGED tx
       \/ /\ c \in Leaving
          /\ conn' = [conn EXCEPT ![c] = "ended"]
          /\ tx' = [tx EXCEPT ![c] = 0]
    /\ UNCHANGED <<dialled, arrived, starts, rx, loopVars>>

\* select!: read_msg has a message, perhaps one sent before the remote closed.
ReadsMessage(c) ==
    /\ conn[c] = "select"
    /\ SumFunction(arrived) < MaxIn
    /\ arrived' = [arrived EXCEPT ![c] = @ + 1]
    /\ conn' = [conn EXCEPT ![c] = "forwarding"]
    /\ UNCHANGED <<dialled, starts, tx, rx, loopVars>>

\* send_to_processor.send(msg): waits for room, fails when the handler is gone.
Forwards(c) ==
    /\ conn[c] = "forwarding"
    /\ \/ /\ NoReceiver(c)
          /\ conn' = [conn EXCEPT ![c] = "ended"]
          /\ tx' = [tx EXCEPT ![c] = 0]
          /\ UNCHANGED rx
       \/ /\ ~NoReceiver(c)
          /\ rx[c] < RxSize
          /\ rx' = [rx EXCEPT ![c] = @ + 1]
          /\ conn' = [conn EXCEPT ![c] = "select"]
          /\ UNCHANGED tx
    /\ UNCHANGED <<dialled, arrived, starts, loopVars>>

\* The else branch: the remote has closed, and nobody is left to send.  (A remote
\* that closes is not noticed before, unless a write to it fails.)
Breaks(c) ==
    /\ conn[c] = "select"
    /\ c \in Leaving
    /\ tx[c] = 0 /\ ~HasSender(c)
    /\ conn' = [conn EXCEPT ![c] = "ended"]
    /\ UNCHANGED <<dialled, arrived, starts, tx, rx, loopVars>>

ConnStep(c) ==
    Start(c) \/ TakesMessage(c) \/ Writes(c) \/ ReadsMessage(c) \/ Forwards(c) \/ Breaks(c)

-----------------------------------------------------------------------------
(* What waits in the bodies.                                               *)

\* Faulty: the send comes before the drop.
SendThenUnlock(msg) == << <<"wake", msg>>, <<"unlock">> >>

\* The macro unlock_and_send!.
unlock_and_send(msg) == << <<"unlock">>, <<"wake", msg>> >>

\* The messages as inner_handle_peer_msgs treats them: KeepAlive and Cancel; a
\* flag; Have or BitField with and without a change of our interest (which is
\* sent under the lock); Request of a choked peer and of another; Piece, whose
\* io.write may fail.
HandlerBodies(c) ==
    { <<>>,
      << <<"lock">> >> \o unlock_and_send("Wakeup"),
      << <<"lock">>, <<"send", c>> >> \o unlock_and_send("Wakeup"),
      << <<"lock">>, <<"unlock">> >>,
      << <<"lock">> >> \o unlock_and_send("PeerRequestedPiece"),
      << <<"io">>, <<"lock">> >> \o unlock_and_send("Wakeup"),
      << <<"io">>, <<"lock">> >> \o unlock_and_send("PieceComplete"),
      << <<"io">>, <<"exit">> >> }

Locked(ops) == << <<"lock">> >> \o ops \o << <<"unlock">> >>

Sends(s) == [i \in DOMAIN s |-> <<"send", s[i]>>]

\* The connections whose sender is in a map, in some order.
Receivers(map) ==
    LET ids == SetToSeq(DOMAIN map)
    IN  [i \in DOMAIN ids |-> map[ids[i]]]

\* announce_piece or queue_requests, then compute_requests_for_download, which
\* sends under the lock, and dequeue_requests, which does not.
WakeBody(msg, map, requests, answers) ==
    (CASE msg = "PieceComplete" -> Sends(Receivers(map))
       [] msg = "PeerRequestedPiece" -> Locked(<<>>)
       [] OTHER -> <<>>)
    \o Locked(Sends(requests))
    \o Locked(<<>>)
    \o (IF answers = <<>> THEN <<>> ELSE << <<"io">> >> \o Sends(answers))

\* init_connection, then the insertion into the map and the new handler.
AcceptBody(c) ==
    << <<"lock">>, <<"init", c>>, <<"init", c>>, <<"init", c>>, <<"unlock">>, <<"insert", c>> >>

ReapBody(c) == Locked(<< <<"remove", c>> >>)

\* compute_unchoke (which as the code stands never finds anyone to send to),
\* then remove_expired, and a wake-up to itself if requests expired.
TickBody(expired) ==
    Locked(<<>>) \o << <<"lock">> >>
    \o (IF expired THEN unlock_and_send("Wakeup") ELSE << <<"unlock">> >>)

-----------------------------------------------------------------------------
(* A poll: x goes on until it has to wait.  s is what the processor's task *)
(* holds: todo, lock, wake, tx, peer_to_tx, handler.                       *)

Task == [todo |-> todo, lock |-> lock, wake |-> wake, tx |-> tx,
         peer_to_tx |-> peer_to_tx, handler |-> handler]

TaskBecomes(outcome) ==
    \E t \in outcome :
        /\ todo' = t.todo /\ lock' = t.lock /\ wake' = t.wake /\ tx' = t.tx
        /\ peer_to_tx' = t.peer_to_tx /\ handler' = t.handler

Op(s, x) == Head(s.todo[x])

\* The next operation of x does not have to wait; the io task answers later.
Passes(s, x) ==
    CASE Op(s, x)[1] = "lock" -> Head(Append(s.lock, x)) = x
      [] Op(s, x)[1] = "wake" -> Len(s.wake) < WakeSize
      [] Op(s, x)[1] \in {"send", "init"} ->
            conn[Op(s, x)[2]] = "ended" \/ s.tx[Op(s, x)[2]] < TxSize
      [] OTHER -> Op(s, x)[1] # "io"

\* The map without some ids.
Without(map, ids) == [id \in DOMAIN map \ ids |-> map[id]]

\* Faulty: only the registry forgets the peer.
RemoveOnlyState(s, c) == [s EXCEPT !.handler[c] = "over"]

\* peer_to_tx.remove, whichever connection the id stands for by now.
RemovePeer(s, c) ==
    [s EXCEPT !.peer_to_tx = Without(@, {PeerId[c]}), !.handler[c] = "over"]

\* Faulty: the handler is not pushed.
InsertUnpolled(s, c) ==
    [s EXCEPT !.peer_to_tx = [id \in DOMAIN @ \cup {PeerId[c]} |->
                                 IF id = PeerId[c] THEN c ELSE @[id]]]

\* peer_to_tx.insert replaces what the id had; the handler is pushed.
InsertPeer(s, c) ==
    [s EXCEPT !.peer_to_tx = [id \in DOMAIN @ \cup {PeerId[c]} |->
                                 IF id = PeerId[c] THEN c ELSE @[id]],
              !.handler[c] = "live"]

\* A send to a connection that is gone is ignored by the loop, ends init_connection
\* (and the new peer with it), and ends a handler; the last two drop the guard.
SendFails(s, x) ==
    IF x = Main /\ Op(s, x)[1] = "send" THEN [s EXCEPT !.todo[x] = Tail(@)]
    ELSE [s EXCEPT !.todo[x] = <<>>, !.lock = Tail(@),
                   !.handler[Op(s, x)[2]] = IF x = Main THEN "over" ELSE "exited"]

\* One operation that passes.
Exec(s, x) ==
    LET op == Op(s, x)
        t == [s EXCEPT !.todo[x] = Tail(@)]
    IN  CASE op[1] = "lock" -> [t EXCEPT !.lock = IF @ = <<>> THEN <<x>> ELSE @]
          [] op[1] = "unlock" -> [t EXCEPT !.lock = Tail(@)]
          [] op[1] = "wake" -> [t EXCEPT !.wake = Append(@, op[2])]
          [] op[1] = "exit" -> [t EXCEPT !.handler[x] = "exited"]
          [] op[1] = "insert" -> InsertPeer(t, op[2])
          [] op[1] = "remove" -> RemovePeer(t, op[2])
          [] op[1] \in {"send", "init"} ->
                IF conn[op[2]] = "ended" THEN SendFails(s, x)
                ELSE [t EXCEPT !.tx[op[2]] = @ + 1]

\* lock().await waits in line.
Waits(s, x) ==
    IF Op(s, x)[1] = "lock" /\ \A i \in DOMAIN s.lock : s.lock[i] # x
    THEN [s EXCEPT !.lock = Append(@, x)] ELSE s

\* The next operation, if there is one.
Operates(s, x) ==
    IF s.todo[x] = <<>> THEN s
    ELSE IF Passes(s, x) THEN Exec(s, x) ELSE Waits(s, x)

\* The outcome, as a set of one: as many operations as there are or as pass.
Poll(s, x) ==
    LET after[n \in 0 .. Len(s.todo[x])] ==
            IF n = 0 THEN {s} ELSE {Operates(t, x) : t \in after[n - 1]}
    IN  after[Len(s.todo[x])]

\* What x waited for is there: the lock, room, or the answer of the io task.
Resumes(x) ==
    /\ todo[x] # <<>>
    /\ Passes(Task, x) \/ Op(Task, x) = <<"io">>
    /\ TaskBecomes(Poll(IF Op(Task, x) = <<"io">> THEN [Task EXCEPT !.todo[x] = Tail(@)] ELSE Task, x))
    /\ UNCHANGED <<netVars, starts, rx, handled, out>>

-----------------------------------------------------------------------------
(* The handlers, which the loop polls while it is at select!.              *)

AtSelect == todo[Main] = <<>>

HandlerResumes(c) == AtSelect /\ Resumes(c)

\* rx.recv() yields a message.
Receives(c) ==
    /\ AtSelect
    /\ handler[c] = "live" /\ todo[c] = <<>>
    /\ rx[c] > 0
    /\ rx' = [rx EXCEPT ![c] = @ - 1]
    /\ handled' = [handled EXCEPT ![c] = @ + 1]
    /\ \E body \in HandlerBodies(c) : TaskBecomes(Poll([Task EXCEPT !.todo[c] = body], c))
    /\ UNCHANGED <<netVars, starts, out>>

\* rx.recv() yields None.
HandlerEnds(c) ==
    /\ AtSelect
    /\ handler[c] = "live" /\ todo[c] = <<>>
    /\ rx[c] = 0 /\ conn[c] = "ended"
    /\ handler' = [handler EXCEPT ![c] = "exited"]
    /\ UNCHANGED <<netVars, starts, tx, rx, peer_to_tx, todo, lock, wake, handled, out>>

-----------------------------------------------------------------------------
(* The select loop.                                                        *)

Enters(s, body) ==
    /\ TaskBecomes(Poll([s EXCEPT !.todo[Main] = body], Main))
    /\ UNCHANGED <<netVars, rx, handled>>

\* Some(new) = rx.recv()
AcceptBranch ==
    /\ AtSelect
    /\ starts # <<>>
    /\ starts' = <<>>
    /\ Enters(Task, AcceptBody(Head(starts)))
    /\ UNCHANGED out

\* Some((peer_id, res)) = handle_peer_requests_fq.next()
ReapBranch(c) ==
    /\ AtSelect
    /\ handler[c] = "exited"
    /\ Enters(Task, ReapBody(c))
    /\ UNCHANGED <<starts, out>>

\* Faulty: keeps the closed ones.
PruneOpen(map) == Without(map, {id \in DOMAIN map : conn[map[id]] # "ended"})

\* prune_closed_tx
prune_closed_tx(map) == Without(map, {id \in DOMAIN map : conn[map[id]] = "ended"})

\* Requests or answers for one connection, as many as are left.
Batches(map) ==
    {<<>>} \cup UNION { {[i \in 1 .. n |-> map[id]] : n \in 1 .. MaxOut - out} : id \in DOMAIN map }

\* Some(msg) = wake_up_rx.recv()
WakeBranch ==
    /\ AtSelect
    /\ wake # <<>>
    /\ \E map \in {prune_closed_tx(peer_to_tx)} :
       \E requests \in Batches(map), answers \in Batches(map) :
        /\ Len(requests) + Len(answers) <= MaxOut - out
        /\ answers # <<>> => Head(wake) = "PeerRequestedPiece"
        /\ out' = out + Len(requests) + Len(answers)
        /\ Enters([Task EXCEPT !.wake = Tail(@), !.peer_to_tx = map],
                  WakeBody(Head(wake), map, requests, answers))
    /\ UNCHANGED starts

\* _ = timeout_fut.tick()
TickBranch ==
    /\ AtSelect
    /\ \E expired \in {FALSE, Expiry /\ out > 0} : Enters(Task, TickBody(expired))
    /\ UNCHANGED <<starts, out>>

-----------------------------------------------------------------------------
Next ==
    \/ Dial
    \/ \E c \in Conns :
        \/ ConnStep(c)
        \/ HandlerResumes(c) \/ Receives(c) \/ HandlerEnds(c) \/ ReapBranch(c)
    \/ Resumes(Main)
    \/ AcceptBranch
    \/ WakeBranch
    \/ TickBranch

\* Timeouts end every dial and every write, and the loop goes on in its bodies.
\* select! polls its branches in random order each time it is reached, and so
\* does run_connection's: what is ready again and again gets its turn.
Fairness ==
    /\ WF_vars(Dial)
    /\ \A c \in Conns :
        /\ SF_vars(Start(c) \/ TakesMessage(c) \/ Writes(c) \/ Forwards(c) \/ Breaks(c))
        /\ SF_vars(HandlerResumes(c) \/ Receives(c) \/ HandlerEnds(c) \/ ReapBranch(c))
    /\ WF_vars(Resumes(Main)) /\ SF_vars(AcceptBranch) /\ SF_vars(WakeBranch)

Spec == Init /\ [][Next]_vars
FairSpec == Spec /\ Fairness

-----------------------------------------------------------------------------
\* What the loop waits for inside a branch can come while no handler is polled: it
\* is never the lock that a handler has or is next to get, nor room in the
\* wake-up channel, nor room at a connection that itself waits for its handler
\* ("dont hold the lock over a blocking call").
LoopCanReturn ==
    todo[Main] # <<>> /\ ~Passes(Task, Main) =>
        \/ Op(Task, Main) = <<"io">>
        \/ /\ Op(Task, Main)[1] \in {"send", "init"}
           /\ \E c \in {Op(Task, Main)[2]} : ~(conn[c] = "forwarding" /\ rx[c] = RxSize)

\* Every message read from a peer is handled, or its connection is over, although
\* all the channels on its way may be full at times.
EveryMessageHandled ==
    \A c \in Conns :
        arrived[c] > handled[c] ~> arrived[c] = handled[c] \/ conn[c] = "ended" \/ NoReceiver(c)

\* Once the processor has forgotten a connection nobody keeps a sender for it, not
\* even under the id of another, so run_connection can end.
ForgottenForGood == \A c \in Conns : handler[c] = "over" => ~HasSender(c)

\* The sender in the map under the id is that of the connection.
Reaches(id, c) == id \in DOMAIN peer_to_tx /\ peer_to_tx[id] = c

\* A peer with a handler and a connection can be sent to, unless another
\* connection with the same peer id has taken its place in the map, or has ended
\* and taken the entry of both with it.
ServedUnlessShared ==
    \A c \in Conns :
        handler[c] = "live" /\ conn[c] # "ended" =>
            \/ Reaches(PeerId[c], c)
            \/ \E d \in Conns \ {c} :
                /\ PeerId[d] = PeerId[c]
                /\ Reaches(PeerId[d], d) \/ conn[d] = "ended" \/ handler[d] = "over"
=============================================================================

---------------------------- MODULE UploadProofs ----------------------------
(***************************************************************************)
(* The processor serving its peers, for every set of peers and every       *)
(* number of requests: what was accepted is answered or accounted for, and *)
(* each peer's answers come in the order of its requests.                  *)
(*                                                                         *)
(* Both rest on the queue being empty between two wake-ups (every wake-up  *)
(* adds at most one request and serves at least one), and on a peer that   *)
(* is connected being known: the request of a peer the registry or         *)
(* peer_to_tx does not hold would be dropped.                              *)
(***************************************************************************)
EXTENDS Upload, SequenceTheorems, TLAPS

Waking == {Wakeup} \cup {PeerRequestedPiece(r) : r \in Peers \X Nat}

Places == {Idle, Recv, Exited} \cup {Signal(msg) : msg \in Waking}

\* The processor's variables have their types, and no request waits in the queue.
Typed ==
    /\ conn \in [Peers -> {"new", "open", "closed"}]
    /\ handler \in [Peers -> Places]
    /\ asked \in [Peers -> Nat]
    /\ accepted \subseteq Peers \X Nat
    /\ wake \in Seq(Waking)
    /\ outstanding_peer_requests = <<>>
    /\ answered \in [Peers -> Seq(Peers \X Nat)]

\* A connected peer has a handler and a sender, and is in the registry once a
\* request of it was accepted.
ConnectedKnown ==
    /\ \A p \in Peers : conn[p] = "new" => handler[p] = Idle
    /\ \A p \in Peers :
            conn[p] = "open" => handler[p] \notin {Idle, Exited} /\ p \in peer_to_tx
    /\ \A p \in Peers, n \in Nat : <<p, n>> \in accepted =>
            conn[p] # "new" /\ (conn[p] = "open" => p \in peers)

\* A peer's answers are older than its requests in the channel ...
ChannelInLine ==
    \A p \in Peers, n \in Nat : \A i \in 1 .. Len(wake) :
        wake[i] = PeerRequestedPiece(<<p, n>>) =>
            /\ n <= asked[p]
            /\ \A j \in 1 .. Len(answered[p]) : answered[p][j][2] < n

\* ... which are in the order they were made ...
ChannelInOrder ==
    \A p \in Peers : \A m, n \in Nat : \A i, j \in 1 .. Len(wake) :
        /\ i < j
        /\ wake[i] = PeerRequestedPiece(<<p, m>>)
        /\ wake[j] = PeerRequestedPiece(<<p, n>>)
        => m < n

\* ... and older than the one its handler is about to send, the last it made.
HandlerInLine ==
    \A q \in Peers : \A p \in Peers, n \in Nat :
        handler[q] = Signal(PeerRequestedPiece(<<p, n>>)) =>
            /\ p = q /\ n = asked[p]
            /\ \A j \in 1 .. Len(answered[p]) : answered[p][j][2] < n
            /\ \A i \in 1 .. Len(wake) : \A m \in Nat :
                    wake[i] = PeerRequestedPiece(<<p, m>>) => m < n

AnswersAsked ==
    \A p \in Peers : \A j \in 1 .. Len(answered[p]) : answered[p][j][2] <= asked[p]

\* NoRequestLost, peer by peer and with the queue known to be empty.
Accounted ==
    \A p \in Peers, n \in Nat : <<p, n>> \in accepted =>
        \/ \E j \in 1 .. Len(answered[p]) : answered[p][j] = <<p, n>>
        \/ handler[p] = Signal(PeerRequestedPiece(<<p, n>>))
        \/ \E i \in 1 .. Len(wake) : wake[i] = PeerRequestedPiece(<<p, n>>)
        \/ <<p, n>> \in failed
        \/ conn[p] = "closed"

UInv ==
    /\ Typed /\ ConnectedKnown
    /\ ChannelInLine /\ ChannelInOrder /\ HandlerInLine /\ AnswersAsked
    /\ AnsweredInOrder /\ Accounted

-----------------------------------------------------------------------------
\* The places of a handler, and the messages in the channel, are told apart.
LEMMA Apart ==
    /\ Idle # Recv /\ Idle # Exited /\ Recv # Exited
    /\ \A msg : Signal(msg) \notin {Idle, Recv, Exited}
    /\ \A msg, other : Signal(msg) = Signal(other) => msg = other
    /\ \A r : PeerRequestedPiece(r) # Wakeup
    /\ \A p, n, q, m : PeerRequestedPiece(<<p, n>>) = PeerRequestedPiece(<<q, m>>)
                            => p = q /\ n = m
BY DEF Idle, Recv, Exited, Signal, PeerRequestedPiece, Wakeup

\* Serving nothing answers nothing.
LEMMA AnswersNone == ASSUME NEW live PROVE Answers(<<>>, live) = answered
<1> DEFINE f == [n \in 0 .. 0 |-> answered]
<1>1. f = [n \in 0 .. Len(<<>>) |->
            IF n = 0 THEN answered
            ELSE IF <<>>[n][1] \in live
            THEN [f[n - 1] EXCEPT ![<<>>[n][1]] = Append(@, <<>>[n])]
            ELSE f[n - 1]]
  OBVIOUS
<1> HIDE DEF f
<1>2. \E g : g = [n \in 0 .. Len(<<>>) |->
            IF n = 0 THEN answered
            ELSE IF <<>>[n][1] \in live
            THEN [g[n - 1] EXCEPT ![<<>>[n][1]] = Append(@, <<>>[n])]
            ELSE g[n - 1]]
  BY <1>1, Zenon
<1> QED  BY <1>2 DEF Answers

\* Serving one request answers it, if its peer is still there.
LEMMA AnswersOne ==
    ASSUME NEW live, NEW r \in Peers \X Nat
    PROVE  Answers(<<r>>, live) =
             IF r[1] \in live THEN [answered EXCEPT ![r[1]] = Append(@, r)] ELSE answered
<1> DEFINE one == IF r[1] \in live THEN [answered EXCEPT ![r[1]] = Append(@, r)] ELSE answered
           s == <<r>>
           f == [n \in 0 .. Len(s) |-> IF n = 0 THEN answered ELSE one]
<1>0. Len(s) = 1 /\ s[1] = r
  OBVIOUS
<1> HIDE DEF s
<1>1. f = [n \in 0 .. Len(s) |->
            IF n = 0 THEN answered
            ELSE IF s[n][1] \in live
            THEN [f[n - 1] EXCEPT ![s[n][1]] = Append(@, s[n])]
            ELSE f[n - 1]]
  <2>1. \A n \in 0 .. Len(s) : n = 0 \/ n = 1
    BY <1>0
  <2>2. f[0] = answered /\ f[1] = one
    BY <1>0
  <2>3. \A n \in 0 .. Len(s) : (IF n = 0 THEN answered ELSE one) =
            IF n = 0 THEN answered
            ELSE IF s[n][1] \in live
            THEN [f[n - 1] EXCEPT ![s[n][1]] = Append(@, s[n])]
            ELSE f[n - 1]
    <3> HIDE DEF f
    <3> TAKE n \in 0 .. Len(s)
    <3>1. CASE n = 0
      BY <3>1
    <3>2. CASE n = 1
      <4>1. n # 0 /\ s[n] = r /\ f[n - 1] = answered
        BY <1>0, <2>2, <3>2
      <4> QED  BY <4>1, Zenon
    <3> QED  BY <2>1, <3>1, <3>2
  <2> QED  BY <2>3
<1>2. f[Len(s)] = one
  BY <1>0
<1> HIDE DEF f, one
<1>3. \E g : g = [n \in 0 .. Len(s) |->
            IF n = 0 THEN answered
            ELSE IF s[n][1] \in live
            THEN [g[n - 1] EXCEPT ![s[n][1]] = Append(@, s[n])]
            ELSE g[n - 1]]
  BY <1>1, Zenon
<1> DEFINE h == CHOOSE g : g = [n \in 0 .. Len(s) |->
            IF n = 0 THEN answered
            ELSE IF s[n][1] \in live
            THEN [g[n - 1] EXCEPT ![s[n][1]] = Append(@, s[n])]
            ELSE g[n - 1]]
<1>4. h = [n \in 0 .. Len(s) |->
            IF n = 0 THEN answered
            ELSE IF s[n][1] \in live
            THEN [h[n - 1] EXCEPT ![s[n][1]] = Append(@, s[n])]
            ELSE h[n - 1]]
  BY <1>3, Zenon
<1>5. Answers(s, live) = h[Len(s)]
  BY DEF Answers
<1> HIDE DEF h
<1>6. h[0] = answered
  BY <1>0, <1>4
<1>7. h[1] = one
  <2>1. 1 \in 0 .. Len(s) /\ 1 # 0 /\ 1 - 1 = 0
    BY <1>0
  <2>2. h[1] = IF s[1][1] \in live
               THEN [h[1 - 1] EXCEPT ![s[1][1]] = Append(@, s[1])]
               ELSE h[1 - 1]
    BY <1>4, <2>1, Zenon
  <2> QED  BY <1>0, <1>6, <2>1, <2>2, Zenon DEF one
<1> QED  BY <1>0, <1>5, <1>7 DEF one, s

\* dequeue_requests on an empty queue does nothing.
LEMMA DequeueNone ==
    ASSUME NEW live, Dequeue(<<>>, live)
    PROVE  outstanding_peer_requests' = <<>> /\ answered' = answered /\ failed' = failed
<1>1. Taken(<<>>) = <<>> /\ Left(<<>>) = <<>>
  BY UploadAssumption DEF Taken, Left
<1>2. FirstFailure(<<>>, live) = 0
  BY DEF FirstFailure
<1> QED  BY <1>1, <1>2, AnswersNone DEF Dequeue

\* dequeue_requests on a single request takes it: the request fails, is
\* answered, or is passed over because its peer is gone.
LEMMA DequeueOne ==
    ASSUME NEW live, NEW r \in Peers \X Nat, Dequeue(<<r>>, live)
    PROVE  /\ outstanding_peer_requests' = <<>>
           /\ \/ r \in failed' /\ failed \subseteq failed' /\ answered' = answered
              \/ r[1] \in live /\ failed' = failed
                    /\ answered' = [answered EXCEPT ![r[1]] = Append(@, r)]
              \/ r[1] \notin live /\ failed' = failed /\ answered' = answered
<1> DEFINE s == <<r>>
<1>0. Len(s) = 1 /\ s[1] = r /\ s \in Seq(Peers \X Nat)
  OBVIOUS
<1>1. Taken(s) = s
  <2> HIDE DEF s
  <2>1. SubSeq(s, 1, Len(s)) = s
    BY <1>0, SubSeqFull
  <2>2. ToDeq \in Nat /\ ToDeq >= 1
    BY UploadAssumption
  <2>3. (IF Len(s) < ToDeq THEN Len(s) ELSE ToDeq) = 1
    BY <1>0, <2>2
  <2> QED  BY <1>0, <2>1, <2>3 DEF Taken
<1>2. Left(s) = <<>>
  BY UploadAssumption DEF Left
<1>3. SubSeq(s, 1, 0) = <<>>
  OBVIOUS
<1> HIDE DEF s
<1>4. CASE r[1] \in live \cap Unreadable
  <2>1. FirstFailure(s, live) = 1
    BY <1>0, <1>4 DEF FirstFailure
  <2>2. answered' = Answers(SubSeq(s, 1, 0), live) /\ failed' = failed \cup {r}
    BY <1>0, <1>1, <2>1 DEF Dequeue, s
  <2> QED  BY <1>1, <1>2, <1>3, <2>2, AnswersNone DEF Dequeue, s
<1>5. CASE r[1] \notin live \cap Unreadable
  <2>1. FirstFailure(s, live) = 0
    BY <1>0, <1>5 DEF FirstFailure
  <2>2. answered' = Answers(s, live) /\ failed' = failed
    BY <1>1, <2>1 DEF Dequeue, s
  <2> QED  BY <1>1, <1>2, <2>2, AnswersOne DEF Dequeue, s
<1> QED  BY <1>4, <1>5

\* What a wake-up does to the queue and the answers: nothing but for a request
\* of a known peer, which fails, is answered, or is passed over.
LEMMA WakeUpEffect ==
    ASSUME Typed, WakeUp
    PROVE  /\ outstanding_peer_requests' = <<>>
           /\ failed \subseteq failed'
           /\ \/ answered' = answered /\ failed' = failed
                 /\ \A p \in Peers, n \in Nat :
                        wake[1] = PeerRequestedPiece(<<p, n>>) =>
                            p \notin peers \/ p \notin peer_to_tx'
              \/ \E p \in Peers, n \in Nat :
                    /\ wake[1] = PeerRequestedPiece(<<p, n>>)
                    /\ \/ <<p, n>> \in failed' /\ answered' = answered
                       \/ answered' = [answered EXCEPT ![p] = Append(@, <<p, n>>)]
<1>1. wake \in Seq(Waking) /\ wake # <<>> /\ Head(wake) = wake[1] /\ wake[1] \in Waking
  BY DEF Typed, WakeUp
<1>2. Dequeue(queue_requests(wake[1]), peer_to_tx')
  BY <1>1 DEF WakeUp
<1>3. CASE wake[1] = Wakeup
  <2>1. queue_requests(wake[1]) = <<>>
    BY <1>3 DEF Typed, queue_requests
  <2> QED  BY <1>2, <1>3, <2>1, DequeueNone, Apart
<1>4. CASE wake[1] # Wakeup
  <2>1. PICK r \in Peers \X Nat : wake[1] = PeerRequestedPiece(r)
    BY <1>1, <1>4 DEF Waking
  <2>2. r = <<r[1], r[2]>> /\ r[1] \in Peers /\ r[2] \in Nat
    OBVIOUS
  <2>3. wake[1][2] = r
    BY <2>1 DEF PeerRequestedPiece
  <2>4. wake[1] = PeerRequestedPiece(<<r[1], r[2]>>)
    BY <2>1, <2>2
  <2>5. \A p \in Peers, n \in Nat :
            wake[1] = PeerRequestedPiece(<<p, n>>) => p = r[1] /\ n = r[2]
    BY <2>4, Apart
  <2>6. CASE r[1] \in peers
    <3>1. queue_requests(wake[1]) = <<r>>
      BY <1>4, <2>3, <2>6 DEF Typed, queue_requests
    <3>2. Dequeue(<<r>>, peer_to_tx')
      BY <1>2, <3>1
    <3> HIDE DEF WakeUp
    <3> QED  BY <2>2, <2>4, <2>5, <3>2, DequeueOne
  <2>7. CASE r[1] \notin peers
    <3>1. queue_requests(wake[1]) = <<>>
      BY <2>3, <2>7 DEF Typed, queue_requests
    <3> QED  BY <1>2, <2>7, <2>5, <3>1, DequeueNone
  <2> QED  BY <2>6, <2>7
<1> QED  BY <1>3, <1>4

\* The processor starts with no peers and nothing on its way.
LEMMA InitUInv == Init => UInv
<1> SUFFICES ASSUME Init PROVE UInv
  OBVIOUS
<1> USE DEF Init
<1>1. Typed
  BY DEF Typed, Places
<1>2. ConnectedKnown
  BY DEF ConnectedKnown
<1>3. ChannelInLine /\ ChannelInOrder
  BY DEF ChannelInLine, ChannelInOrder
<1>4. HandlerInLine
  BY Apart DEF HandlerInLine
<1>5. AnswersAsked /\ AnsweredInOrder /\ Accounted
  BY DEF AnswersAsked, AnsweredInOrder, Accounted
<1> QED  BY <1>1, <1>2, <1>3, <1>4, <1>5 DEF UInv

\* A handler that notes the interest of its peer is about to send a Wakeup,
\* which carries no request.
LEMMA InterestStep ==
    ASSUME UInv, NEW p \in Peers, NEW interest \in BOOLEAN, HandleInterest(p, interest)
    PROVE  UInv'
<1> USE DEF UInv, HandleInterest, set_peers_interested_in_us
<1>1. Typed'
  BY DEF Typed, Places, Waking
<1>2. ConnectedKnown'
  BY Apart DEF Typed, ConnectedKnown
<1>3. HandlerInLine'
  BY Apart DEF Typed, HandlerInLine
<1>4. ChannelInLine' /\ ChannelInOrder' /\ AnswersAsked' /\ AnsweredInOrder'
  BY DEF ChannelInLine, ChannelInOrder, AnswersAsked, AnsweredInOrder
<1>5. Accounted'
  BY Apart DEF Typed, Accounted
<1> QED  BY <1>1, <1>2, <1>3, <1>4, <1>5

\* A request is numbered after every earlier one of its peer; if it is not
\* ignored it is accounted for by the handler that is about to send it.
LEMMA RequestStep ==
    ASSUME UInv, NEW p \in Peers, HandleRequest(p)
    PROVE  UInv'
<1> DEFINE new == asked[p] + 1
<1> USE DEF UInv
<1>1. /\ handler[p] = Recv
      /\ asked' = [asked EXCEPT ![p] = new] /\ asked'[p] = new /\ new \in Nat
      /\ \A q \in Peers : asked[q] \in Nat /\ asked'[q] \in Nat /\ asked[q] <= asked'[q]
      /\ \A q \in Peers : q # p => asked'[q] = asked[q]
      /\ handler \in [Peers -> Places]
      /\ \A q \in Peers : \A j \in 1 .. Len(answered[q]) : answered[q][j][2] \in Nat
      /\ UNCHANGED <<peers, conn, failed, peer_to_tx, wake, outstanding_peer_requests, answered>>
  BY DEF HandleRequest, Typed, peerVars
<1>2. ChannelInLine' /\ ChannelInOrder' /\ AnswersAsked' /\ AnsweredInOrder'
  <2>1. ChannelInLine'
    BY <1>1 DEF ChannelInLine
  <2>2. ChannelInOrder' /\ AnsweredInOrder'
    BY <1>1 DEF ChannelInOrder, AnsweredInOrder
  <2>3. AnswersAsked'
    BY <1>1 DEF AnswersAsked
  <2> QED  BY <2>1, <2>2, <2>3
<1>3. CASE UNCHANGED <<accepted, handler>>
  <2>1. Typed' /\ ConnectedKnown' /\ Accounted'
    BY <1>1, <1>3 DEF Typed, ConnectedKnown, Accounted
  <2>2. HandlerInLine'
    BY <1>1, <1>3, Apart DEF HandlerInLine
  <2> QED  BY <1>2, <2>1, <2>2
<1>4. CASE /\ ~Choking(p)
           /\ accepted' = accepted \cup {<<p, new>>}
           /\ handler' = [handler EXCEPT ![p] = Signal(PeerRequestedPiece(<<p, new>>))]
  <2>1. Typed'
    <3>1. Signal(PeerRequestedPiece(<<p, new>>)) \in Places /\ <<p, new>> \in Peers \X Nat
      BY <1>1 DEF Places, Waking
    <3> QED  BY <1>1, <1>4, <3>1 DEF Typed
  <2>2. ConnectedKnown'
    BY <1>1, <1>4, Apart DEF Typed, ConnectedKnown, Choking
  <2>3. HandlerInLine'
    <3>1. \A j \in 1 .. Len(answered[p]) : answered[p][j][2] < new
      BY <1>1 DEF AnswersAsked, Typed
    <3>2. \A i \in 1 .. Len(wake) : \A m \in Nat :
              wake[i] = PeerRequestedPiece(<<p, m>>) => m < new
      BY <1>1 DEF ChannelInLine
    <3>0. wake' = wake /\ answered' = answered
      BY <1>1
    <3> SUFFICES ASSUME NEW q \in Peers, NEW r \in Peers, NEW n \in Nat,
                        handler'[q] = Signal(PeerRequestedPiece(<<r, n>>))
                 PROVE  (/\ r = q /\ n = asked[r]
                         /\ \A j \in 1 .. Len(answered[r]) : answered[r][j][2] < n
                         /\ \A i \in 1 .. Len(wake) : \A m \in Nat :
                                wake[i] = PeerRequestedPiece(<<r, m>>) => m < n)'
      BY DEF HandlerInLine
    <3>3. CASE q = p
      <4>1. r = p /\ n = new
        BY <1>1, <1>4, <3>3, Apart
      <4> QED  BY <1>1, <3>0, <3>1, <3>2, <3>3, <4>1
    <3>4. CASE q # p
      BY <1>1, <1>4, <3>0, <3>4 DEF HandlerInLine
    <3> QED  BY <3>3, <3>4
  <2>4. Accounted'
    <3> SUFFICES ASSUME NEW q \in Peers, NEW n \in Nat, <<q, n>> \in accepted'
                 PROVE  \/ \E j \in 1 .. Len(answered[q]) : answered[q][j] = <<q, n>>
                        \/ handler'[q] = Signal(PeerRequestedPiece(<<q, n>>))
                        \/ \E i \in 1 .. Len(wake) : wake[i] = PeerRequestedPiece(<<q, n>>)
                        \/ <<q, n>> \in failed
                        \/ conn[q] = "closed"
      BY <1>1 DEF Accounted
    <3>1. CASE <<q, n>> \in accepted
      BY <1>1, <1>4, <3>1, Apart DEF Accounted
    <3>2. CASE <<q, n>> = <<p, new>>
      BY <1>1, <1>4, <3>2
    <3> QED  BY <1>4, <3>1, <3>2
  <2> QED  BY <1>2, <2>1, <2>2, <2>3, <2>4
<1> QED  BY <1>1, <1>3, <1>4 DEF HandleRequest

\* A request that is sent into the channel goes behind the earlier ones of its peer.
LEMMA SendStep ==
    ASSUME UInv, NEW p \in Peers, SendWake(p)
    PROVE  UInv'
<1> USE DEF UInv
<1>1. PICK msg \in Messages :
         /\ handler[p] = Signal(msg)
         /\ wake' = Append(wake, msg)
         /\ handler' = [handler EXCEPT ![p] = Recv]
         /\ UNCHANGED <<peers, conn, asked, accepted, failed, peer_to_tx,
                        outstanding_peer_requests, answered>>
  BY DEF SendWake, peerVars
<1>2. msg \in Waking
  BY <1>1 DEF Messages, Waking, Requests
<1>3. handler \in [Peers -> Places] /\ wake \in Seq(Waking)
  BY DEF Typed
<1>4. /\ wake' \in Seq(Waking) /\ Len(wake') = Len(wake) + 1 /\ Len(wake) \in Nat
      /\ wake'[Len(wake) + 1] = msg
      /\ \A i \in 1 .. Len(wake) : wake'[i] = wake[i]
  BY <1>1, <1>2, <1>3, AppendProperties
<1>5. Typed'
  BY <1>1, <1>4 DEF Typed, Places
<1>6. ConnectedKnown'
  BY <1>1, <1>3, Apart DEF ConnectedKnown
<1>7. \A i \in 1 .. Len(wake') : i \in 1 .. Len(wake) \/ i = Len(wake) + 1
  BY <1>4
<1>8. ASSUME NEW q \in Peers, NEW n \in Nat, msg = PeerRequestedPiece(<<q, n>>)
      PROVE  /\ q = p /\ n = asked[p]
             /\ \A j \in 1 .. Len(answered[p]) : answered[p][j][2] < n
             /\ \A i \in 1 .. Len(wake) : \A m \in Nat :
                    wake[i] = PeerRequestedPiece(<<p, m>>) => m < n
  BY <1>1, <1>8 DEF HandlerInLine
<1>9. ChannelInLine'
  <2> SUFFICES ASSUME NEW q \in Peers, NEW n \in Nat, NEW i \in 1 .. Len(wake'),
                      wake'[i] = PeerRequestedPiece(<<q, n>>)
               PROVE  /\ n <= asked[q]
                      /\ \A j \in 1 .. Len(answered[q]) : answered[q][j][2] < n
    BY <1>1 DEF ChannelInLine
  <2>1. CASE i \in 1 .. Len(wake)
    BY <1>4, <2>1 DEF ChannelInLine
  <2>2. CASE i = Len(wake) + 1
    BY <1>4, <1>8, <2>2
  <2> QED  BY <1>7, <2>1, <2>2
<1>10. ChannelInOrder'
  <2> SUFFICES ASSUME NEW q \in Peers, NEW m \in Nat, NEW n \in Nat,
                      NEW i \in 1 .. Len(wake'), NEW j \in 1 .. Len(wake'), i < j,
                      wake'[i] = PeerRequestedPiece(<<q, m>>),
                      wake'[j] = PeerRequestedPiece(<<q, n>>)
               PROVE  m < n
    BY DEF ChannelInOrder
  <2>1. i \in 1 .. Len(wake)
    BY <1>4
  <2>2. CASE j \in 1 .. Len(wake)
    BY <1>4, <2>1, <2>2 DEF ChannelInOrder
  <2>3. CASE j = Len(wake) + 1
    BY <1>4, <1>8, <2>1, <2>3
  <2> QED  BY <1>7, <2>2, <2>3
<1>11. HandlerInLine'
  <2> SUFFICES ASSUME NEW q \in Peers, NEW r \in Peers, NEW n \in Nat,
                      handler'[q] = Signal(PeerRequestedPiece(<<r, n>>))
               PROVE  /\ r = q /\ n = asked[r]
                      /\ \A j \in 1 .. Len(answered[r]) : answered[r][j][2] < n
                      /\ \A i \in 1 .. Len(wake') : \A m \in Nat :
                              wake'[i] = PeerRequestedPiece(<<r, m>>) => m < n
    BY <1>1 DEF HandlerInLine
  <2>1. q # p /\ handler[q] = Signal(PeerRequestedPiece(<<r, n>>))
    BY <1>1, <1>3, Apart
  <2>2. /\ r = q /\ n = asked[r]
        /\ \A j \in 1 .. Len(answered[r]) : answered[r][j][2] < n
        /\ \A i \in 1 .. Len(wake) : \A m \in Nat :
                wake[i] = PeerRequestedPiece(<<r, m>>) => m < n
    BY <2>1 DEF HandlerInLine
  <2>3. \A m \in Nat : msg # PeerRequestedPiece(<<r, m>>)
    BY <1>8, <2>1, <2>2
  <2> QED  BY <1>4, <1>7, <2>2, <2>3
<1>12. Accounted'
  <2> SUFFICES ASSUME NEW q \in Peers, NEW n \in Nat, <<q, n>> \in accepted
               PROVE  \/ \E j \in 1 .. Len(answered[q]) : answered[q][j] = <<q, n>>
                      \/ handler'[q] = Signal(PeerRequestedPiece(<<q, n>>))
                      \/ \E i \in 1 .. Len(wake') : wake'[i] = PeerRequestedPiece(<<q, n>>)
                      \/ <<q, n>> \in failed
                      \/ conn[q] = "closed"
    BY <1>1 DEF Accounted
  <2>1. CASE q = p /\ handler[p] = Signal(PeerRequestedPiece(<<p, n>>))
    <3>1. msg = PeerRequestedPiece(<<q, n>>)
      BY <1>1, <2>1, Apart
    <3>2. Len(wake) + 1 \in 1 .. Len(wake')
      BY <1>4
    <3> QED  BY <1>4, <3>1, <3>2
  <2>2. CASE \E i \in 1 .. Len(wake) : wake[i] = PeerRequestedPiece(<<q, n>>)
    <3>1. \A i \in 1 .. Len(wake) : i \in 1 .. Len(wake')
      BY <1>4
    <3> QED  BY <1>4, <2>2, <3>1
  <2>3. CASE q # p /\ handler[q] = Signal(PeerRequestedPiece(<<q, n>>))
    BY <1>1, <1>3, <2>3
  <2> QED  BY <2>1, <2>2, <2>3 DEF Accounted
<1>13. AnswersAsked' /\ AnsweredInOrder'
  BY <1>1 DEF AnswersAsked, AnsweredInOrder
<1> QED  BY <1>5, <1>6, <1>9, <1>10, <1>11, <1>12, <1>13

\* A handler ends only once its connection is closed.
LEMMA EndStep ==
    ASSUME UInv, NEW p \in Peers, HandlerEnds(p)
    PROVE  UInv'
<1> USE DEF UInv, HandlerEnds, peerVars
<1>1. Typed'
  BY DEF Typed, Places
<1>2. ConnectedKnown'
  BY Apart DEF Typed, ConnectedKnown
<1>3. HandlerInLine'
  BY Apart DEF Typed, HandlerInLine
<1>4. ChannelInLine' /\ ChannelInOrder' /\ AnswersAsked' /\ AnsweredInOrder'
  BY DEF ChannelInLine, ChannelInOrder, AnswersAsked, AnsweredInOrder
<1>5. Accounted'
  BY Apart DEF Typed, Accounted
<1> QED  BY <1>1, <1>2, <1>3, <1>4, <1>5

\* A new peer gets its handler and its sender in one step.
LEMMA AcceptStep ==
    ASSUME UInv, NEW p \in Peers, Accept(p)
    PROVE  UInv'
<1> USE DEF UInv, Accept, peerVars
<1>1. Typed'
  BY DEF Typed, Places
<1>2. ConnectedKnown'
  BY Apart DEF Typed, ConnectedKnown
<1>3. HandlerInLine'
  BY Apart DEF Typed, HandlerInLine
<1>4. ChannelInLine' /\ ChannelInOrder' /\ AnswersAsked' /\ AnsweredInOrder'
  BY DEF ChannelInLine, ChannelInOrder, AnswersAsked, AnsweredInOrder
<1>5. Accounted'
  <2>1. \A n \in Nat : <<p, n>> \notin accepted
    BY DEF ConnectedKnown
  <2> QED  BY <2>1, Apart DEF Typed, Accounted
<1> QED  BY <1>1, <1>2, <1>3, <1>4, <1>5

\* Only a peer whose connection is closed is forgotten.
LEMMA ReapStep ==
    ASSUME UInv, NEW p \in Peers, Reap(p)
    PROVE  UInv'
<1> USE DEF UInv, Reap, remove_peer
<1>1. Typed'
  BY DEF Typed, Places
<1>2. ConnectedKnown'
  <2>1. conn[p] = "closed"
    BY Apart DEF Typed, ConnectedKnown
  <2> QED  BY <2>1, Apart DEF Typed, ConnectedKnown
<1>3. HandlerInLine'
  BY Apart DEF Typed, HandlerInLine
<1>4. ChannelInLine' /\ ChannelInOrder' /\ AnswersAsked' /\ AnsweredInOrder'
  BY DEF ChannelInLine, ChannelInOrder, AnswersAsked, AnsweredInOrder
<1>5. Accounted'
  BY Apart DEF Typed, Accounted
<1> QED  BY <1>1, <1>2, <1>3, <1>4, <1>5

\* The requests of a peer that leaves are accounted for by that.
LEMMA LeaveStep ==
    ASSUME UInv, NEW p \in Peers, Leave(p)
    PROVE  UInv'
<1> USE DEF UInv, Leave, peerVars
<1>1. Typed'
  BY DEF Typed
<1>2. ConnectedKnown'
  BY DEF Typed, ConnectedKnown
<1>3. HandlerInLine'
  BY DEF HandlerInLine
<1>4. ChannelInLine' /\ ChannelInOrder' /\ AnswersAsked' /\ AnsweredInOrder'
  BY DEF ChannelInLine, ChannelInOrder, AnswersAsked, AnsweredInOrder
<1>5. Accounted'
  BY DEF Typed, Accounted
<1> QED  BY <1>1, <1>2, <1>3, <1>4, <1>5

\* The tick decides on choking alone.
LEMMA TickStep == ASSUME UInv, Tick PROVE UInv'
<1> USE DEF UInv, Tick
<1>1. Typed' /\ ConnectedKnown'
  BY DEF Typed, ConnectedKnown
<1>2. ChannelInLine' /\ ChannelInOrder' /\ HandlerInLine'
  BY DEF ChannelInLine, ChannelInOrder, HandlerInLine
<1>3. AnswersAsked' /\ AnsweredInOrder' /\ Accounted'
  BY DEF AnswersAsked, AnsweredInOrder, Accounted
<1> QED  BY <1>1, <1>2, <1>3

\* A wake-up takes the oldest request of its peer out of the channel.
LEMMA WakeUpStep == ASSUME UInv, WakeUp PROVE UInv'
<1> USE DEF UInv
<1>1. /\ wake # <<>> /\ wake \in Seq(Waking) /\ wake' = Tail(wake)
      /\ peer_to_tx' = {p \in peer_to_tx : conn[p] = "open"}
      /\ UNCHANGED <<peers, conn, handler, asked, accepted>>
      /\ answered \in [Peers -> Seq(Peers \X Nat)]
  BY DEF WakeUp, Typed, peerVars
<1>2. /\ wake' \in Seq(Waking) /\ Len(wake') = Len(wake) - 1
      /\ Len(wake) \in Nat /\ Len(wake) >= 1
      /\ \A i \in 1 .. Len(wake') : i + 1 \in 1 .. Len(wake) /\ wake'[i] = wake[i + 1]
  BY <1>1, HeadTailProperties
<1>3. \A i \in 1 .. Len(wake) : i = 1 \/ (i - 1 \in 1 .. Len(wake') /\ wake'[i - 1] = wake[i])
  BY <1>2
<1>4. ConnectedKnown'
  BY <1>1 DEF ConnectedKnown
<1>5. ChannelInOrder'
  <2> SUFFICES ASSUME NEW p \in Peers, NEW m \in Nat, NEW n \in Nat,
                      NEW i \in 1 .. Len(wake'), NEW j \in 1 .. Len(wake'), i < j,
                      wake'[i] = PeerRequestedPiece(<<p, m>>),
                      wake'[j] = PeerRequestedPiece(<<p, n>>)
               PROVE  m < n
    BY DEF ChannelInOrder
  <2>1. /\ i + 1 \in 1 .. Len(wake) /\ j + 1 \in 1 .. Len(wake) /\ i + 1 < j + 1
        /\ wake[i + 1] = PeerRequestedPiece(<<p, m>>)
        /\ wake[j + 1] = PeerRequestedPiece(<<p, n>>)
    BY <1>2
  <2> QED  BY <2>1 DEF ChannelInOrder
<1>6. \A p \in Peers, n \in Nat : \A i \in 1 .. Len(wake') :
        wake'[i] = PeerRequestedPiece(<<p, n>>) =>
            /\ n <= asked[p]
            /\ \A j \in 1 .. Len(answered[p]) : answered[p][j][2] < n
  BY <1>2 DEF ChannelInLine
<1>7. \A q \in Peers : \A p \in Peers, n \in Nat :
        handler[q] = Signal(PeerRequestedPiece(<<p, n>>)) =>
            \A i \in 1 .. Len(wake') : \A m \in Nat :
                wake'[i] = PeerRequestedPiece(<<p, m>>) => m < n
  BY <1>2 DEF HandlerInLine
<1>8. outstanding_peer_requests' = <<>> /\ failed \subseteq failed'
  BY WakeUpEffect
<1>9. ASSUME NEW p \in Peers, NEW n \in Nat, <<p, n>> \in accepted,
             wake[1] # PeerRequestedPiece(<<p, n>>),
             ~ \E j \in 1 .. Len(answered[p]) : answered[p][j] = <<p, n>>
      PROVE  \/ handler[p] = Signal(PeerRequestedPiece(<<p, n>>))
             \/ \E i \in 1 .. Len(wake') : wake'[i] = PeerRequestedPiece(<<p, n>>)
             \/ <<p, n>> \in failed'
             \/ conn[p] = "closed"
  BY <1>3, <1>8, <1>9 DEF Accounted
<1>10. ASSUME UNCHANGED answered,
              \A p \in Peers, n \in Nat : wake[1] = PeerRequestedPiece(<<p, n>>) =>
                  p \notin peers \/ p \notin peer_to_tx' \/ <<p, n>> \in failed'
       PROVE  UInv'
  <2>1. Typed'
    BY <1>1, <1>2, <1>8, <1>10 DEF Typed
  <2>2. ChannelInLine' /\ AnswersAsked' /\ AnsweredInOrder'
    BY <1>1, <1>6, <1>10 DEF ChannelInLine, AnswersAsked, AnsweredInOrder
  <2>3. HandlerInLine'
    BY <1>1, <1>7, <1>10 DEF HandlerInLine
  <2>4. ASSUME NEW p \in Peers, NEW n \in Nat, <<p, n>> \in accepted,
               wake[1] = PeerRequestedPiece(<<p, n>>)
        PROVE  \/ \E j \in 1 .. Len(answered[p]) : answered[p][j] = <<p, n>>
               \/ <<p, n>> \in failed'
               \/ conn[p] = "closed"
    <3>1. conn[p] \in {"open", "closed"} /\ (conn[p] = "open" => p \in peers /\ p \in peer_to_tx)
      BY <2>4 DEF ConnectedKnown, Typed
    <3> QED  BY <1>1, <1>10, <2>4, <3>1
  <2>5. Accounted'
    BY <1>1, <1>9, <1>10, <2>4 DEF Accounted
  <2> QED  BY <1>4, <1>5, <2>1, <2>2, <2>3, <2>5
<1>11. ASSUME NEW p \in Peers, NEW n \in Nat,
              wake[1] = PeerRequestedPiece(<<p, n>>),
              answered' = [answered EXCEPT ![p] = Append(@, <<p, n>>)]
       PROVE  UInv'
  <2>1. /\ answered' \in [Peers -> Seq(Peers \X Nat)]
        /\ \A q \in Peers : q # p => answered'[q] = answered[q]
        /\ answered'[p] = Append(answered[p], <<p, n>>)
    BY <1>1, <1>11
  <2>2. /\ Len(answered'[p]) = Len(answered[p]) + 1 /\ Len(answered[p]) \in Nat
        /\ answered'[p][Len(answered[p]) + 1] = <<p, n>>
        /\ \A j \in 1 .. Len(answered[p]) : answered'[p][j] = answered[p][j]
    BY <1>1, <2>1, AppendProperties
  <2>3. \A j \in 1 .. Len(answered'[p]) : j \in 1 .. Len(answered[p]) \/ j = Len(answered[p]) + 1
    BY <2>2
  <2>4. Len(wake) >= 1 /\ 1 \in 1 .. Len(wake)
    BY <1>2
  <2>5. n <= asked[p] /\ \A j \in 1 .. Len(answered[p]) : answered[p][j][2] < n
    BY <1>11, <2>4 DEF ChannelInLine
  <2>6. Typed'
    BY <1>1, <1>2, <1>8, <2>1 DEF Typed
  <2>7. AnswersAsked'
    <3>1. \A j \in 1 .. Len(answered'[p]) : answered'[p][j][2] <= asked[p]
      BY <2>2, <2>3, <2>5 DEF AnswersAsked
    <3> QED  BY <1>1, <2>1, <3>1 DEF AnswersAsked
  <2>8. AnsweredInOrder'
    <3>1. ASSUME NEW i \in 1 .. Len(answered'[p]), NEW j \in 1 .. Len(answered'[p]), i < j
          PROVE  answered'[p][i][2] < answered'[p][j][2]
      <4>1. i \in 1 .. Len(answered[p])
        BY <2>2, <3>1
      <4>2. CASE j \in 1 .. Len(answered[p])
        BY <2>2, <3>1, <4>1, <4>2 DEF AnsweredInOrder
      <4>3. CASE j = Len(answered[p]) + 1
        BY <2>2, <2>5, <4>1, <4>3
      <4> QED  BY <2>3, <4>2, <4>3
    <3> QED  BY <2>1, <3>1 DEF AnsweredInOrder
  <2>9. ChannelInLine'
    <3>1. ASSUME NEW m \in Nat, NEW i \in 1 .. Len(wake'),
                 wake'[i] = PeerRequestedPiece(<<p, m>>),
                 NEW j \in 1 .. Len(answered'[p])
          PROVE  answered'[p][j][2] < m
      <4>1. i + 1 \in 1 .. Len(wake) /\ 1 < i + 1 /\ wake[i + 1] = PeerRequestedPiece(<<p, m>>)
        BY <1>2, <3>1
      <4>2. n < m
        BY <1>11, <2>4, <4>1 DEF ChannelInOrder
      <4>3. CASE j \in 1 .. Len(answered[p])
        BY <1>6, <2>2, <3>1, <4>3
      <4>4. CASE j = Len(answered[p]) + 1
        BY <2>2, <4>2, <4>4
      <4> QED  BY <2>3, <4>3, <4>4
    <3> SUFFICES ASSUME NEW q \in Peers, NEW m \in Nat, NEW i \in 1 .. Len(wake'),
                        wake'[i] = PeerRequestedPiece(<<q, m>>)
                 PROVE  m <= asked[q] /\ \A j \in 1 .. Len(answered'[q]) : answered'[q][j][2] < m
      BY <1>1 DEF ChannelInLine
    <3>2. CASE q = p
      BY <1>6, <3>1, <3>2
    <3>3. CASE q # p
      BY <1>6, <2>1, <3>3
    <3> QED  BY <3>2, <3>3
  <2>10. HandlerInLine'
    <3> SUFFICES ASSUME NEW q \in Peers, NEW r \in Peers, NEW m \in Nat,
                        handler'[q] = Signal(PeerRequestedPiece(<<r, m>>))
                 PROVE  (/\ r = q /\ m = asked[r]
                         /\ \A j \in 1 .. Len(answered[r]) : answered[r][j][2] < m
                         /\ \A i \in 1 .. Len(wake) : \A l \in Nat :
                                wake[i] = PeerRequestedPiece(<<r, l>>) => l < m)'
      BY DEF HandlerInLine
    <3>0. handler[q] = Signal(PeerRequestedPiece(<<r, m>>)) /\ asked' = asked
      BY <1>1
    <3>1. /\ r = q /\ m = asked[r]
          /\ \A j \in 1 .. Len(answered[r]) : answered[r][j][2] < m
      BY <3>0 DEF HandlerInLine
    <3>2. r = p => n < m
      BY <1>11, <2>4, <3>0 DEF HandlerInLine
    <3>3. \A j \in 1 .. Len(answered'[r]) : answered'[r][j][2] < m
      <4>1. CASE r = p
        BY <2>2, <2>3, <3>1, <3>2, <4>1
      <4>2. CASE r # p
        BY <2>1, <3>1, <4>2
      <4> QED  BY <4>1, <4>2
    <3> QED  BY <1>7, <3>0, <3>1, <3>3
  <2>11. Accounted'
    <3> SUFFICES ASSUME NEW q \in Peers, NEW m \in Nat, <<q, m>> \in accepted
                 PROVE  \/ \E j \in 1 .. Len(answered'[q]) : answered'[q][j] = <<q, m>>
                        \/ handler[q] = Signal(PeerRequestedPiece(<<q, m>>))
                        \/ \E i \in 1 .. Len(wake') : wake'[i] = PeerRequestedPiece(<<q, m>>)
                        \/ <<q, m>> \in failed'
                        \/ conn[q] = "closed"
      BY <1>1 DEF Accounted
    <3>1. CASE wake[1] = PeerRequestedPiece(<<q, m>>)
      <4>1. q = p /\ m = n
        BY <1>11, <3>1, Apart
      <4>2. Len(answered[p]) + 1 \in 1 .. Len(answered'[p])
        BY <2>2
      <4> QED  BY <2>2, <4>1, <4>2
    <3>2. CASE \E j \in 1 .. Len(answered[q]) : answered[q][j] = <<q, m>>
      <4>1. CASE q = p
        <5>1. \A j \in 1 .. Len(answered[p]) : j \in 1 .. Len(answered'[p])
          BY <2>2
        <5> QED  BY <2>2, <3>2, <4>1, <5>1
      <4>2. CASE q # p
        BY <2>1, <3>2, <4>2
      <4> QED  BY <4>1, <4>2
    <3> QED  BY <1>9, <3>1, <3>2
  <2> QED  BY <1>4, <1>5, <2>6, <2>7, <2>8, <2>9, <2>10, <2>11
<1>12. \/ /\ UNCHANGED answered
          /\ \A p \in Peers, n \in Nat : wake[1] = PeerRequestedPiece(<<p, n>>) =>
                p \notin peers \/ p \notin peer_to_tx' \/ <<p, n>> \in failed'
       \/ \E p \in Peers, n \in Nat :
             /\ wake[1] = PeerRequestedPiece(<<p, n>>)
             /\ answered' = [answered EXCEPT ![p] = Append(@, <<p, n>>)]
  <2>1. CASE /\ UNCHANGED answered
             /\ \A p \in Peers, n \in Nat : wake[1] = PeerRequestedPiece(<<p, n>>) =>
                    p \notin peers \/ p \notin peer_to_tx'
    BY <2>1
  <2>2. ASSUME NEW p \in Peers, NEW n \in Nat, wake[1] = PeerRequestedPiece(<<p, n>>),
               <<p, n>> \in failed', UNCHANGED answered
        PROVE  \A q \in Peers, m \in Nat :
                   wake[1] = PeerRequestedPiece(<<q, m>>) => <<q, m>> \in failed'
    BY <2>2, Apart
  <2> QED  BY <2>1, <2>2, WakeUpEffect
<1> QED  BY <1>10, <1>11, <1>12

\* Every step of the processor keeps the invariant.
LEMMA StepUInv == UInv /\ [Next]_vars => UInv'
<1> SUFFICES ASSUME UInv, [Next]_vars PROVE UInv'
  OBVIOUS
<1>1. CASE \E p \in Peers :
             \/ \E interest \in BOOLEAN : HandleInterest(p, interest)
             \/ HandleRequest(p) \/ SendWake(p) \/ HandlerEnds(p)
             \/ Accept(p) \/ Reap(p) \/ Leave(p)
  BY <1>1, InterestStep, RequestStep, SendStep, EndStep, AcceptStep, ReapStep, LeaveStep
<1>2. CASE WakeUp \/ Tick
  BY <1>2, WakeUpStep, TickStep
<1>3. CASE UNCHANGED vars
  <2> USE <1>3 DEF UInv, vars, peerVars, uploadVars
  <2>1. Typed' /\ ConnectedKnown'
    BY DEF Typed, ConnectedKnown
  <2>2. ChannelInLine' /\ ChannelInOrder' /\ HandlerInLine'
    BY DEF ChannelInLine, ChannelInOrder, HandlerInLine
  <2>3. AnswersAsked' /\ AnsweredInOrder' /\ Accounted'
    BY DEF AnswersAsked, AnsweredInOrder, Accounted
  <2> QED  BY <2>1, <2>2, <2>3
<1> QED  BY <1>1, <1>2, <1>3 DEF Next

-----------------------------------------------------------------------------
\* No request a peer made while we did not choke it is lost between its
\* handler, the channel, queue_requests and dequeue_requests, whatever other
\* peers come, go and ask for.
THEOREM NoRequestEverLost == Spec => []NoRequestLost
<1>1. UInv => NoRequestLost
  <2> SUFFICES ASSUME UInv, NEW r \in accepted
               PROVE  \/ IsAnswered(r)
                      \/ handler[r[1]] = Signal(PeerRequestedPiece(r))
                      \/ \E i \in 1 .. Len(wake) : wake[i] = PeerRequestedPiece(r)
                      \/ r \in failed
                      \/ conn[r[1]] = "closed"
    BY DEF NoRequestLost
  <2>1. r[1] \in Peers /\ r[2] \in Nat /\ r = <<r[1], r[2]>>
    BY DEF UInv, Typed
  <2> QED  BY <2>1 DEF UInv, Accounted, IsAnswered
<1> QED  BY <1>1, InitUInv, StepUInv, PTL DEF Spec

\* Each peer gets its answers in the order of its requests, each at most once.
THEOREM AnswersInOrder == Spec => []AnsweredInOrder
<1>1. UInv => AnsweredInOrder
  BY DEF UInv
<1> QED  BY <1>1, InitUInv, StepUInv, PTL DEF Spec

\* The queue of peer requests is empty between two wake-ups.  This is why the
\* request dequeue_requests pops without serving it, when its counter runs
\* out, is never a request at all.
THEOREM QueueDrained == Spec => [](outstanding_peer_requests = <<>>)
<1>1. UInv => outstanding_peer_requests = <<>>
  BY DEF UInv, Typed
<1> QED  BY <1>1, InitUInv, StepUInv, PTL DEF Spec
=============================================================================

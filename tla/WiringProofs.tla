---------------------------- MODULE WiringProofs ----------------------------
(***************************************************************************)
(* What becomes of a connection inside the processor, for any number of    *)
(* peers, any sizes of the channels and any peer ids.                      *)
(*                                                                         *)
(* A connection goes through stages: it is dialled, handed to the loop,    *)
(* accepted, handled, and forgotten.  The invariant says that it is in one *)
(* of them at a time, that the map of senders holds connections that are   *)
(* handled, under their own ids, and what is left to do in the bodies      *)
(* agrees with the stages.  A poll runs several operations of a body; each *)
(* of them keeps the invariant, and so, by induction, does the poll.       *)
(*                                                                         *)
(* The last part is about the lock: while no channel is full, a body comes *)
(* to wait only where it does not hold it, so the loop never waits for one *)
(* of its handlers.                                                        *)
(***************************************************************************)
EXTENDS Wiring, FiniteSetTheorems, SequenceTheorems, WellFoundedInduction, TLAPS

Stages == {"none", "live", "exited", "over"}
Messages == {"Wakeup", "PieceComplete", "PeerRequestedPiece"}

\* What the loop and a handler may have to do.
MainOps ==
    {<<"lock">>, <<"unlock">>, <<"io">>} \cup ({"wake"} \X Messages)
    \cup ({"send", "init", "insert", "remove"} \X Conns)
HandlerOps(c) ==
    {<<"lock">>, <<"unlock">>, <<"io">>, <<"exit">>, <<"send", c>>} \cup ({"wake"} \X Messages)
Ops == MainOps \cup {<<"exit">>}

Has(body, op) == \E i \in 1 .. Len(body) : body[i] = op

\* Nothing comes after an operation of this kind.
AtEnd(kind, body) == \A i \in 1 .. Len(body) : body[i][1] = kind => i = Len(body)

BodiesFit(todos) ==
    /\ todos \in [Procs -> Seq(Ops)]
    /\ todos[Main] \in Seq(MainOps) /\ AtEnd("insert", todos[Main])
    /\ \A c \in Conns : todos[c] \in Seq(HandlerOps(c)) /\ AtEnd("exit", todos[c])

\* The loop accepts c.
Accepting(todos, c) == Has(todos[Main], <<"init", c>>) \/ Has(todos[Main], <<"insert", c>>)

\* A connection is handed to the loop once, accepted once, and handled only then.
StagesFit(todos, stage, handed) ==
    \A c \in Conns :
        /\ Accepting(todos, c) => stage[c] = "none" /\ handed # <<c>>
        /\ handed = <<c>> => stage[c] = "none"
        /\ conn[c] \in {"listed", "failed", "queued"} =>
              stage[c] = "none" /\ handed # <<c>> /\ ~Accepting(todos, c)
        /\ todos[c] # <<>> => stage[c] = "live"
        /\ Has(todos[Main], <<"remove", c>>) => stage[c] \in {"exited", "over"}

\* A sender in the map is that of a connection with a handler, under its id.
MapFits(stage, map) ==
    /\ map \in [DOMAIN map -> Conns]
    /\ \A id \in DOMAIN map : PeerId[map[id]] = id /\ stage[map[id]] \in {"live", "exited"}

\* Who has a handler and a connection has the map's entry, or shares its id.
MapServes(stage, map) ==
    \A c \in Conns : stage[c] = "live" /\ conn[c] # "ended" =>
        \/ PeerId[c] \in DOMAIN map
        \/ \E d \in Conns \ {c} : PeerId[d] = PeerId[c] /\ (conn[d] = "ended" \/ stage[d] = "over")

Fits(todos, stage, map, handed) ==
    /\ BodiesFit(todos)
    /\ stage \in [Conns -> Stages]
    /\ StagesFit(todos, stage, handed)
    /\ MapFits(stage, map)
    /\ MapServes(stage, map)

\* Peers are dialled in the order of the list.
DialFits ==
    /\ dialled \in 0 .. Count
    /\ conn \in [Conns -> {"listed", "failed", "queued", "select", "writing", "forwarding", "ended"}]
    /\ \A c \in Conns : c > dialled => conn[c] = "listed"

WInv ==
    /\ DialFits
    /\ out \in Nat
    /\ starts = <<>> \/ \E c \in Conns : starts = <<c>>
    /\ Fits(todo, handler, peer_to_tx, starts)

-----------------------------------------------------------------------------
(* Induction over the operations of a body.                                *)

\* A set of numbers that is not empty has a least one.
LEMMA LeastNumber ==
    ASSUME NEW T \in SUBSET Nat, T # {}
    PROVE  \E m \in T : \A k \in T : m <= k
<1> DEFINE R == {ss \in Nat \X Nat : ss[1] < ss[2]}
<1>1. IsWellFoundedOn(R, Nat)
  BY NatLessThanWellFounded DEF OpToRel
<1> HIDE DEF R
<1>2. \E x \in T : \A y \in T : ~ (<<y, x>> \in R)
  BY <1>1, WFMin
<1>3. PICK x \in T : \A y \in T : ~ (<<y, x>> \in R)
  BY <1>2
<1>4. \A y \in T : ~(y < x)
  BY <1>3 DEF R
<1> QED  BY <1>4

\* A set that holds 0 and with every number the next one holds them all.
LEMMA Induction ==
    ASSUME NEW S, 0 \in S, \A n \in Nat : n \in S => n + 1 \in S
    PROVE  Nat \subseteq S
<1> SUFFICES ASSUME Nat \ S # {} PROVE FALSE
  OBVIOUS
<1>1. PICK m \in Nat \ S : \A k \in Nat \ S : m <= k
  BY LeastNumber
<1>2. m # 0 /\ m - 1 \in Nat /\ m - 1 \notin Nat \ S
  BY <1>1
<1> QED  BY <1>1, <1>2

-----------------------------------------------------------------------------
(* Bodies.                                                                 *)

\* The loop is none of the connections.
LEMMA MainApart == Main \in Procs /\ Main \notin Conns /\ Conns \subseteq Procs /\ Conns \subseteq Nat
  BY WiringAssumption DEF Main, Procs, Conns

\* What is left of a body after its first operation.
LEMMA TailOps ==
    ASSUME NEW S, NEW q \in Seq(S), q # <<>>
    PROVE  /\ Tail(q) \in Seq(S) /\ Head(q) \in S /\ Has(q, Head(q)) /\ Head(q) = q[1]
           /\ \A op : Has(Tail(q), op) => Has(q, op)
           /\ \A kind : AtEnd(kind, q) => AtEnd(kind, Tail(q))
           /\ \A kind : AtEnd(kind, q) /\ Head(q)[1] = kind => Tail(q) = <<>>
<1>0. /\ Len(q) \in Nat \ {0} /\ Tail(q) \in Seq(S) /\ Len(Tail(q)) = Len(q) - 1
      /\ Head(q) = q[1] /\ Head(q) \in S
      /\ \A i \in 1 .. Len(q) - 1 : Tail(q)[i] = q[i + 1]
  BY HeadTailProperties
<1>1. PICK t \in {Tail(q)}, n \in {Len(q) - 1} :
        /\ n \in Nat /\ t = Tail(q) /\ n + 1 = Len(q) /\ Len(t) = n
        /\ \A i \in 1 .. n : t[i] = q[i + 1]
  BY <1>0
<1>2. Has(q, Head(q))
  BY <1>0 DEF Has
<1>3. ASSUME NEW op, Has(t, op)
      PROVE  Has(q, op)
  <2>1. PICK i \in 1 .. n : t[i] = op
    BY <1>1, <1>3 DEF Has
  <2>2. i + 1 \in 1 .. n + 1 /\ q[i + 1] = op
    BY <1>1, <2>1
  <2> QED  BY <1>1, <2>2 DEF Has
<1>4. ASSUME NEW kind, AtEnd(kind, q)
      PROVE  AtEnd(kind, t)
  <2> SUFFICES ASSUME NEW i \in 1 .. n, t[i][1] = kind
               PROVE  i = n
    BY <1>1 DEF AtEnd
  <2>1. i + 1 \in 1 .. n + 1 /\ q[i + 1] = t[i]
    BY <1>1
  <2>2. i + 1 = n + 1
    BY <1>1, <1>4, <2>1 DEF AtEnd
  <2> QED  BY <2>2
<1>5. ASSUME NEW kind, AtEnd(kind, q), Head(q)[1] = kind
      PROVE  t = <<>>
  <2>1. 1 \in 1 .. n + 1 /\ q[1][1] = kind
    BY <1>0, <1>5
  <2>2. 1 = n + 1
    BY <1>1, <1>5, <2>1 DEF AtEnd
  <2>3. Len(t) = 0 /\ t \in Seq(S)
    BY <1>0, <1>1, <2>2
  <2> QED  BY <2>3, EmptySeq
<1> QED  BY <1>0, <1>1, <1>2, <1>3, <1>4, <1>5

\* An empty body.
LEMMA NothingToDo ==
    /\ \A op : ~Has(<<>>, op)
    /\ \A kind : AtEnd(kind, <<>>)
    /\ \A S : <<>> \in Seq(S)
<1>1. Len(<<>>) = 0
  OBVIOUS
<1>2. \A S : <<>> \in Seq(S)
  OBVIOUS
<1> QED  BY <1>1, <1>2 DEF Has, AtEnd

\* Bodies with less to do fit as well.
LEMMA LessToDo ==
    ASSUME NEW todos, NEW stage, NEW map, NEW handed, Fits(todos, stage, map, handed),
           NEW x \in Procs, NEW q, q = <<>> \/ (todos[x] # <<>> /\ q = Tail(todos[x]))
    PROVE  Fits([todos EXCEPT ![x] = q], stage, map, handed)
<1> DEFINE less == [todos EXCEPT ![x] = q]
<1>1. /\ BodiesFit(todos) /\ StagesFit(todos, stage, handed)
      /\ todos \in [Procs -> Seq(Ops)] /\ todos[Main] \in Seq(MainOps)
      /\ \A c \in Conns : todos[c] \in Seq(HandlerOps(c))
  BY DEF Fits, BodiesFit
<1>2. less[x] = q /\ \A y \in Procs : y # x => less[y] = todos[y]
  BY <1>1
<1>3. /\ \A op : Has(q, op) => Has(todos[x], op)
      /\ \A kind : AtEnd(kind, todos[x]) => AtEnd(kind, q)
      /\ \A S : todos[x] \in Seq(S) => q \in Seq(S)
      /\ q # <<>> => todos[x] # <<>>
  <2>1. CASE q = <<>>
    BY <2>1, NothingToDo
  <2>2. CASE todos[x] # <<>> /\ q = Tail(todos[x])
    <3>1. todos[x] \in Seq(Ops)
      BY <1>1
    <3> QED  BY <2>2, <3>1, TailOps
  <2> QED  BY <2>1, <2>2
<1>4. \A op : Has(less[Main], op) => Has(todos[Main], op)
  BY <1>2, <1>3, MainApart
<1>5. BodiesFit(less)
  <2>1. less \in [Procs -> Seq(Ops)]
    BY <1>1, <1>3
  <2>2. less[Main] \in Seq(MainOps) /\ AtEnd("insert", less[Main])
    BY <1>1, <1>2, <1>3, MainApart DEF BodiesFit
  <2>3. ASSUME NEW c \in Conns
        PROVE  less[c] \in Seq(HandlerOps(c)) /\ AtEnd("exit", less[c])
    BY <1>1, <1>2, <1>3, <2>3, MainApart DEF BodiesFit
  <2> HIDE DEF less
  <2> QED  BY <2>1, <2>2, <2>3 DEF BodiesFit
<1>6. \A c \in Conns : less[c] # <<>> => todos[c] # <<>>
  BY <1>2, <1>3, MainApart
<1> HIDE DEF less
<1>7. StagesFit(less, stage, handed)
  BY <1>1, <1>4, <1>6 DEF StagesFit, Accepting
<1> QED  BY <1>5, <1>7 DEF Fits, less
-----------------------------------------------------------------------------
(* One operation.                                                          *)

\* A state of the task, and the parts of it the invariant is about.
Shaped(s) ==
    /\ DOMAIN s = {"todo", "lock", "wake", "tx", "peer_to_tx", "handler"}
    /\ s = [f \in DOMAIN s |-> s[f]]
Is(s, todos, stage, map) ==
    Shaped(s) /\ s.todo = todos /\ s.handler = stage /\ s.peer_to_tx = map

\* peer_to_tx with the connection c in it.
With(map, c) ==
    [id \in DOMAIN map \cup {PeerId[c]} |-> IF id = PeerId[c] THEN c ELSE map[id]]

\* What an operation of x may do to the parts.
Outcome(s, x, r) ==
    LET op == Op(s, x)
        rest == [s.todo EXCEPT ![x] = Tail(@)]
        none == [s.todo EXCEPT ![x] = <<>>]
    IN  \/ Is(r, s.todo, s.handler, s.peer_to_tx)
        \/ /\ op[1] \in {"lock", "unlock", "wake", "send", "init"}
           /\ Is(r, rest, s.handler, s.peer_to_tx)
        \/ op[1] = "exit" /\ Is(r, rest, [s.handler EXCEPT ![x] = "exited"], s.peer_to_tx)
        \/ /\ op[1] = "insert"
           /\ Is(r, rest, [s.handler EXCEPT ![op[2]] = "live"], With(s.peer_to_tx, op[2]))
        \/ /\ op[1] = "remove"
           /\ Is(r, rest, [s.handler EXCEPT ![op[2]] = "over"], Without(s.peer_to_tx, {PeerId[op[2]]}))
        \/ /\ op[1] = "init" /\ x = Main
           /\ Is(r, none, [s.handler EXCEPT ![op[2]] = "over"], s.peer_to_tx)
        \/ /\ op[1] \in {"send", "init"} /\ x # Main
           /\ Is(r, none, [s.handler EXCEPT ![op[2]] = "exited"], s.peer_to_tx)

\* What the two operations on the map do to the parts.
LEMMA MapOperations ==
    ASSUME NEW s, Shaped(s), NEW c
    PROVE  /\ Is(InsertPeer(s, c), s.todo, [s.handler EXCEPT ![c] = "live"], With(s.peer_to_tx, c))
           /\ Is(RemovePeer(s, c), s.todo, [s.handler EXCEPT ![c] = "over"],
                 Without(s.peer_to_tx, {PeerId[c]}))
<1>1. Is(InsertPeer(s, c), s.todo, [s.handler EXCEPT ![c] = "live"], With(s.peer_to_tx, c))
  BY DEF Shaped, Is, InsertPeer, With
<1>2. Is(RemovePeer(s, c), s.todo, [s.handler EXCEPT ![c] = "over"],
         Without(s.peer_to_tx, {PeerId[c]}))
  BY DEF Shaped, Is, RemovePeer
<1> QED  BY <1>1, <1>2

\* Operates does one of these.
LEMMA OperatesOutcome ==
    ASSUME NEW s, Shaped(s), NEW x, s.todo[x] # <<>>,
           Op(s, x)[1] \in {"lock", "unlock", "io", "wake", "send", "init", "insert", "remove", "exit"}
    PROVE  Outcome(s, x, Operates(s, x))
<1> DEFINE op == Op(s, x)
           t == [s EXCEPT !.todo[x] = Tail(@)]
           rest == [s.todo EXCEPT ![x] = Tail(@)]
           none == [s.todo EXCEPT ![x] = <<>>]
<1>1. Is(t, rest, s.handler, s.peer_to_tx)
  BY DEF Shaped, Is
<1>2. \A e : Is([t EXCEPT !.lock = e], rest, s.handler, s.peer_to_tx)
  BY <1>1 DEF Shaped, Is
<1>3. \A e : Is([t EXCEPT !.wake = e], rest, s.handler, s.peer_to_tx)
  BY <1>1 DEF Shaped, Is
<1>6. \A c : Is(InsertPeer(t, c), rest, [s.handler EXCEPT ![c] = "live"], With(s.peer_to_tx, c))
  <2> TAKE c
  <2> HIDE DEF t, rest
  <2>1. Shaped(t) /\ t.todo = rest /\ t.handler = s.handler /\ t.peer_to_tx = s.peer_to_tx
    BY <1>1 DEF Is
  <2>2. Is(InsertPeer(t, c), t.todo, [t.handler EXCEPT ![c] = "live"], With(t.peer_to_tx, c))
    BY <2>1, MapOperations
  <2> QED  BY <2>1, <2>2
<1>7. \A c : Is(RemovePeer(t, c), rest, [s.handler EXCEPT ![c] = "over"],
                Without(s.peer_to_tx, {PeerId[c]}))
  <2> TAKE c
  <2> HIDE DEF t, rest
  <2>1. Shaped(t) /\ t.todo = rest /\ t.handler = s.handler /\ t.peer_to_tx = s.peer_to_tx
    BY <1>1 DEF Is
  <2>2. Is(RemovePeer(t, c), t.todo, [t.handler EXCEPT ![c] = "over"],
           Without(t.peer_to_tx, {PeerId[c]}))
    BY <2>1, MapOperations
  <2> QED  BY <2>1, <2>2
<1>9. \A e : Is([s EXCEPT !.lock = e], s.todo, s.handler, s.peer_to_tx)
  BY DEF Shaped, Is
<1>10. Is(s, s.todo, s.handler, s.peer_to_tx)
  BY DEF Is
<1>11. CASE ~Passes(s, x)
  <2>1. Operates(s, x) = Waits(s, x)
    BY <1>11 DEF Operates
  <2>2. Is(Waits(s, x), s.todo, s.handler, s.peer_to_tx)
    BY <1>9, <1>10 DEF Waits
  <2> QED  BY <2>1, <2>2 DEF Outcome
<1>12. CASE Passes(s, x)
  <2>1. Operates(s, x) = Exec(s, x) /\ op[1] # "io"
    BY <1>12 DEF Operates, Passes
  <2>2. CASE op[1] = "lock"
    BY <1>2, <2>1, <2>2 DEF Exec, Outcome
  <2>3. CASE op[1] = "unlock"
    BY <1>2, <2>1, <2>3 DEF Exec, Outcome
  <2>4. CASE op[1] = "wake"
    BY <1>3, <2>1, <2>4 DEF Exec, Outcome
  <2>5. CASE op[1] = "exit"
    <3>1. Operates(s, x) = [t EXCEPT !.handler[x] = "exited"]
      BY <2>1, <2>5 DEF Exec
    <3>2. Is(Operates(s, x), rest, [s.handler EXCEPT ![x] = "exited"], s.peer_to_tx)
      BY <3>1 DEF Shaped, Is
    <3> HIDE DEF t
    <3> QED  BY <2>5, <3>2 DEF Outcome
  <2>6. CASE op[1] = "insert"
    BY <1>6, <2>1, <2>6 DEF Exec, Outcome
  <2>7. CASE op[1] = "remove"
    BY <1>7, <2>1, <2>7 DEF Exec, Outcome
  <2>8. CASE op[1] \in {"send", "init"}
    <3>1. CASE conn[op[2]] # "ended"
      <4>1. Operates(s, x) = [t EXCEPT !.tx[op[2]] = @ + 1]
        BY <2>1, <2>8, <3>1 DEF Exec
      <4>2. Is(Operates(s, x), rest, s.handler, s.peer_to_tx)
        BY <4>1 DEF Shaped, Is
      <4> HIDE DEF t
      <4> QED  BY <2>8, <4>2 DEF Outcome
    <3>2. CASE conn[op[2]] = "ended"
      <4>1. Operates(s, x) = SendFails(s, x)
        BY <2>1, <2>8, <3>2 DEF Exec
      <4>2. CASE x = Main /\ op[1] = "send"
        BY <1>1, <4>1, <4>2 DEF SendFails, Outcome
      <4>3. CASE x = Main /\ op[1] = "init"
        <5>1. Operates(s, x) = [s EXCEPT !.todo[x] = <<>>, !.lock = Tail(@), !.handler[op[2]] = "over"]
          BY <4>1, <4>3 DEF SendFails
        <5>2. Is(Operates(s, x), none, [s.handler EXCEPT ![op[2]] = "over"], s.peer_to_tx)
          BY <5>1 DEF Shaped, Is
        <5> QED  BY <4>3, <5>2 DEF Outcome
      <4>4. CASE x # Main
        <5>1. Operates(s, x) = [s EXCEPT !.todo[x] = <<>>, !.lock = Tail(@), !.handler[op[2]] = "exited"]
          BY <4>1, <4>4 DEF SendFails
        <5>2. Is(Operates(s, x), none, [s.handler EXCEPT ![op[2]] = "exited"], s.peer_to_tx)
          BY <5>1 DEF Shaped, Is
        <5> QED  BY <2>8, <4>4, <5>2 DEF Outcome
      <4> QED  BY <2>8, <4>2, <4>3, <4>4
    <3> QED  BY <3>1, <3>2
  <2> QED  BY <2>1, <2>2, <2>3, <2>4, <2>5, <2>6, <2>7, <2>8
<1> QED  BY <1>11, <1>12

-----------------------------------------------------------------------------
(* What an operation does fits.                                            *)

\* A handler ends: it has nothing to do.
LEMMA ExitFits ==
    ASSUME NEW todos, NEW stage, NEW map, NEW handed, Fits(todos, stage, map, handed),
           NEW c \in Conns, todos[c] = <<>>, stage[c] = "live"
    PROVE  Fits(todos, [stage EXCEPT ![c] = "exited"], map, handed)
<1> DEFINE next == [stage EXCEPT ![c] = "exited"]
<1>1. /\ BodiesFit(todos) /\ StagesFit(todos, stage, handed) /\ MapFits(stage, map)
      /\ MapServes(stage, map) /\ stage \in [Conns -> Stages]
  BY DEF Fits
<1>2. next \in [Conns -> Stages] /\ \A d \in Conns : next[d] = IF d = c THEN "exited" ELSE stage[d]
  BY <1>1 DEF Stages
<1> HIDE DEF next
<1>3. StagesFit(todos, next, handed)
  BY <1>1, <1>2 DEF StagesFit
<1>4. MapFits(next, map)
  BY <1>1, <1>2 DEF MapFits
<1>5. MapServes(next, map)
  BY <1>1, <1>2 DEF MapServes
<1> QED  BY <1>1, <1>2, <1>3, <1>4, <1>5 DEF Fits, next

\* init_connection fails: the peer was not in the map, and is forgotten.
LEMMA InitFailsFits ==
    ASSUME NEW todos, NEW stage, NEW map, NEW handed, Fits(todos, stage, map, handed),
           NEW c \in Conns, Accepting(todos, c)
    PROVE  Fits([todos EXCEPT ![Main] = <<>>], [stage EXCEPT ![c] = "over"], map, handed)
<1> DEFINE next == [stage EXCEPT ![c] = "over"]
           none == [todos EXCEPT ![Main] = <<>>]
<1>0. stage[c] = "none" /\ handed # <<c>> /\ conn[c] \notin {"listed", "failed", "queued"}
  BY DEF Fits, StagesFit
<1>1. /\ BodiesFit(none) /\ StagesFit(none, stage, handed) /\ MapFits(stage, map)
      /\ MapServes(stage, map) /\ stage \in [Conns -> Stages] /\ none[Main] = <<>>
  <2>1. Fits(none, stage, map, handed)
    BY LessToDo, MainApart
  <2>2. todos \in [Procs -> Seq(Ops)]
    BY DEF Fits, BodiesFit
  <2> QED  BY <2>1, <2>2, MainApart DEF Fits
<1>2. next \in [Conns -> Stages] /\ \A d \in Conns : next[d] = IF d = c THEN "over" ELSE stage[d]
  BY <1>1 DEF Stages
<1> HIDE DEF next, none
<1>3. StagesFit(none, next, handed)
  BY <1>0, <1>1, <1>2, NothingToDo DEF StagesFit, Accepting
<1>4. MapFits(next, map)
  BY <1>0, <1>1, <1>2 DEF MapFits
<1>5. MapServes(next, map)
  BY <1>0, <1>1, <1>2 DEF MapServes
<1> QED  BY <1>1, <1>2, <1>3, <1>4, <1>5 DEF Fits, next, none

\* The connection is accepted: it takes the place of its id in the map.
LEMMA InsertFits ==
    ASSUME NEW todos, NEW stage, NEW map, NEW handed, Fits(todos, stage, map, handed),
           NEW c \in Conns, Accepting(todos, c)
    PROVE  Fits([todos EXCEPT ![Main] = <<>>], [stage EXCEPT ![c] = "live"], With(map, c), handed)
<1> DEFINE next == [stage EXCEPT ![c] = "live"]
           none == [todos EXCEPT ![Main] = <<>>]
           m == With(map, c)
<1>0. stage[c] = "none" /\ handed # <<c>> /\ conn[c] \notin {"listed", "failed", "queued"}
  BY DEF Fits, StagesFit
<1>1. /\ BodiesFit(none) /\ StagesFit(none, stage, handed) /\ MapFits(stage, map)
      /\ MapServes(stage, map) /\ stage \in [Conns -> Stages] /\ none[Main] = <<>>
  <2>1. Fits(none, stage, map, handed)
    BY LessToDo, MainApart
  <2>2. todos \in [Procs -> Seq(Ops)]
    BY DEF Fits, BodiesFit
  <2> QED  BY <2>1, <2>2, MainApart DEF Fits
<1>2. next \in [Conns -> Stages] /\ \A d \in Conns : next[d] = IF d = c THEN "live" ELSE stage[d]
  BY <1>1 DEF Stages
<1>3. /\ DOMAIN m = DOMAIN map \cup {PeerId[c]}
      /\ m \in [DOMAIN m -> Conns]
      /\ m[PeerId[c]] = c /\ \A id \in DOMAIN map : id # PeerId[c] => m[id] = map[id]
  BY <1>1 DEF With, MapFits
<1> HIDE DEF next, none, m
<1>4. StagesFit(none, next, handed)
  BY <1>0, <1>1, <1>2, NothingToDo DEF StagesFit, Accepting
<1>5. MapFits(next, m)
  <2> SUFFICES ASSUME NEW id \in DOMAIN m
               PROVE  PeerId[m[id]] = id /\ next[m[id]] \in {"live", "exited"}
    BY <1>3 DEF MapFits
  <2>1. CASE id = PeerId[c]
    BY <1>2, <1>3, <2>1
  <2>2. CASE id # PeerId[c]
    <3>1. id \in DOMAIN map /\ m[id] = map[id]
      BY <1>3, <2>2
    <3> QED  BY <1>1, <1>2, <3>1 DEF MapFits
  <2> QED  BY <2>1, <2>2
<1>6. MapServes(next, m)
  BY <1>0, <1>1, <1>2, <1>3 DEF MapServes
<1> QED  BY <1>1, <1>2, <1>4, <1>5, <1>6 DEF Fits, next, none, m

\* The loop forgets a connection, and whatever the map has under its id.
LEMMA RemoveFits ==
    ASSUME NEW todos, NEW stage, NEW map, NEW handed, Fits(todos, stage, map, handed),
           NEW c \in Conns, stage[c] \in {"exited", "over"}
    PROVE  Fits(todos, [stage EXCEPT ![c] = "over"], Without(map, {PeerId[c]}), handed)
<1> DEFINE next == [stage EXCEPT ![c] = "over"]
           m == Without(map, {PeerId[c]})
<1>1. /\ BodiesFit(todos) /\ StagesFit(todos, stage, handed) /\ MapFits(stage, map)
      /\ MapServes(stage, map) /\ stage \in [Conns -> Stages]
  BY DEF Fits
<1>2. next \in [Conns -> Stages] /\ \A d \in Conns : next[d] = IF d = c THEN "over" ELSE stage[d]
  BY <1>1 DEF Stages
<1>3. /\ DOMAIN m = DOMAIN map \ {PeerId[c]} /\ m \in [DOMAIN m -> Conns]
      /\ \A id \in DOMAIN m : m[id] = map[id]
  BY <1>1 DEF Without, MapFits
<1> HIDE DEF next, m
<1>4. StagesFit(todos, next, handed)
  BY <1>1, <1>2 DEF StagesFit
<1>5. MapFits(next, m)
  <2> SUFFICES ASSUME NEW id \in DOMAIN m
               PROVE  PeerId[m[id]] = id /\ next[m[id]] \in {"live", "exited"}
    BY <1>3 DEF MapFits
  <2>1. /\ PeerId[map[id]] = id /\ stage[map[id]] \in {"live", "exited"} /\ m[id] = map[id]
        /\ map[id] \in Conns /\ id # PeerId[c]
    BY <1>1, <1>3 DEF MapFits
  <2> QED  BY <1>2, <2>1
<1>6. MapServes(next, m)
  <2> SUFFICES ASSUME NEW d \in Conns, next[d] = "live", conn[d] # "ended"
               PROVE  \/ PeerId[d] \in DOMAIN m
                      \/ \E e \in Conns \ {d} : PeerId[e] = PeerId[d]
                                                /\ (conn[e] = "ended" \/ next[e] = "over")
    BY DEF MapServes
  <2>1. d # c /\ stage[d] = "live"
    BY <1>2
  <2>2. CASE PeerId[d] = PeerId[c]
    BY <1>2, <2>1, <2>2
  <2>3. CASE PeerId[d] # PeerId[c]
    BY <1>1, <1>2, <1>3, <2>1, <2>3 DEF MapServes
  <2> QED  BY <2>2, <2>3
<1> QED  BY <1>1, <1>2, <1>4, <1>5, <1>6 DEF Fits, next, m
\* The state of a task fits.
TaskFits(s, handed) == Shaped(s) /\ Fits(s.todo, s.handler, s.peer_to_tx, handed)

\* The operations, by who has them to do.
LEMMA OpsOf ==
    ASSUME NEW todos, BodiesFit(todos), NEW x \in Procs, todos[x] # <<>>
    PROVE  LET op == Head(todos[x]) IN
           /\ op[1] \in {"lock", "unlock", "io", "wake", "send", "init", "insert", "remove", "exit"}
           /\ Has(todos[x], op)
           /\ op[1] \in {"init", "insert", "remove"} =>
                 x = Main /\ \E c \in Conns : op = <<op[1], c>> /\ op[2] = c
           /\ op[1] = "exit" => x \in Conns /\ Tail(todos[x]) = <<>>
           /\ op[1] = "insert" => Tail(todos[x]) = <<>>
           /\ op[1] = "send" /\ x # Main => x \in Conns /\ op[2] = x
<1> DEFINE op == Head(todos[x])
<1>1. CASE x = Main
  <2>1. todos[x] \in Seq(MainOps) /\ AtEnd("insert", todos[x])
    BY <1>1 DEF BodiesFit
  <2>2. op \in MainOps /\ Has(todos[x], op) /\ (op[1] = "insert" => Tail(todos[x]) = <<>>)
    BY <2>1, TailOps
  <2> HIDE DEF op
  <2>3. /\ op[1] \in {"lock", "unlock", "io", "wake", "send", "init", "insert", "remove"}
        /\ op[1] \in {"init", "insert", "remove"} => \E c \in Conns : op = <<op[1], c>> /\ op[2] = c
    BY <2>2 DEF MainOps
  <2> QED  BY <1>1, <2>2, <2>3 DEF op
<1>2. CASE x \in Conns
  <2>1. todos[x] \in Seq(HandlerOps(x)) /\ AtEnd("exit", todos[x])
    BY <1>2 DEF BodiesFit
  <2>2. op \in HandlerOps(x) /\ Has(todos[x], op) /\ (op[1] = "exit" => Tail(todos[x]) = <<>>)
    BY <2>1, TailOps
  <2> HIDE DEF op
  <2>3. op[1] \in {"lock", "unlock", "io", "wake", "send", "exit"} /\ (op[1] = "send" => op[2] = x)
    BY <2>2 DEF HandlerOps
  <2> QED  BY <1>2, <2>2, <2>3 DEF op
<1> QED  BY <1>1, <1>2 DEF Procs

\* An operation keeps what fits.
LEMMA OperationFits ==
    ASSUME NEW s, NEW handed, TaskFits(s, handed), NEW x \in Procs
    PROVE  TaskFits(Operates(s, x), handed)
<1> DEFINE r == Operates(s, x)
           op == Op(s, x)
           rest == [s.todo EXCEPT ![x] = Tail(@)]
           none == [s.todo EXCEPT ![x] = <<>>]
<1>1. /\ Shaped(s) /\ Fits(s.todo, s.handler, s.peer_to_tx, handed) /\ BodiesFit(s.todo)
      /\ s.todo \in [Procs -> Seq(Ops)]
      /\ StagesFit(s.todo, s.handler, handed)
  BY DEF TaskFits, Fits, BodiesFit
<1>2. CASE s.todo[x] = <<>>
  BY <1>1, <1>2 DEF Operates
<1>3. CASE s.todo[x] # <<>>
  <2>1. /\ op[1] \in {"lock", "unlock", "io", "wake", "send", "init", "insert", "remove", "exit"}
        /\ Has(s.todo[x], op)
        /\ op[1] \in {"init", "insert", "remove"} =>
              x = Main /\ \E c \in Conns : op = <<op[1], c>> /\ op[2] = c
        /\ op[1] = "exit" => x \in Conns /\ Tail(s.todo[x]) = <<>>
        /\ op[1] = "insert" => Tail(s.todo[x]) = <<>>
        /\ op[1] = "send" /\ x # Main => x \in Conns /\ op[2] = x
    BY <1>1, <1>3, OpsOf DEF Op
  <2>2. Outcome(s, x, r)
    BY <1>1, <1>3, <2>1, OperatesOutcome
  <2>3. Fits(rest, s.handler, s.peer_to_tx, handed) /\ Fits(none, s.handler, s.peer_to_tx, handed)
    BY <1>1, <1>3, LessToDo
  <2>4. rest[x] = Tail(s.todo[x]) /\ none[x] = <<>> /\ (Tail(s.todo[x]) = <<>> => rest = none)
    BY <1>1
  <2> HIDE DEF r, op, rest, none
  <2>5. CASE Is(r, s.todo, s.handler, s.peer_to_tx)
    BY <1>1, <2>5 DEF Is, TaskFits, r
  <2>6. CASE Is(r, rest, s.handler, s.peer_to_tx)
    BY <2>3, <2>6 DEF Is, TaskFits, r
  <2>7. CASE op[1] = "exit" /\ Is(r, rest, [s.handler EXCEPT ![x] = "exited"], s.peer_to_tx)
    <3>1. x \in Conns /\ rest[x] = <<>> /\ s.handler[x] = "live"
      BY <1>1, <1>3, <2>1, <2>4, <2>7 DEF StagesFit
    <3>2. Fits(rest, [s.handler EXCEPT ![x] = "exited"], s.peer_to_tx, handed)
      BY <2>3, <3>1, ExitFits
    <3> QED  BY <2>7, <3>2 DEF Is, TaskFits, r
  <2>8. CASE /\ op[1] = "insert"
             /\ Is(r, rest, [s.handler EXCEPT ![op[2]] = "live"], With(s.peer_to_tx, op[2]))
    <3>1. PICK c \in Conns : op = <<"insert", c>> /\ op[2] = c /\ x = Main
      BY <2>1, <2>8
    <3>2. Accepting(s.todo, c) /\ rest = [s.todo EXCEPT ![Main] = <<>>]
      BY <2>1, <2>4, <2>8, <3>1 DEF Accepting, none
    <3>3. Fits(rest, [s.handler EXCEPT ![c] = "live"], With(s.peer_to_tx, c), handed)
      BY <1>1, <3>2, InsertFits
    <3> QED  BY <2>8, <3>1, <3>3 DEF Is, TaskFits, r
  <2>9. CASE /\ op[1] = "remove"
             /\ Is(r, rest, [s.handler EXCEPT ![op[2]] = "over"], Without(s.peer_to_tx, {PeerId[op[2]]}))
    <3>1. PICK c \in Conns : op = <<"remove", c>> /\ op[2] = c /\ x = Main
      BY <2>1, <2>9
    <3>2. s.handler[c] \in {"exited", "over"}
      BY <1>1, <2>1, <3>1 DEF StagesFit
    <3>3. Fits(rest, [s.handler EXCEPT ![c] = "over"], Without(s.peer_to_tx, {PeerId[c]}), handed)
      BY <2>3, <3>2, RemoveFits
    <3> QED  BY <2>9, <3>1, <3>3 DEF Is, TaskFits, r
  <2>10. CASE /\ op[1] = "init" /\ x = Main
              /\ Is(r, none, [s.handler EXCEPT ![op[2]] = "over"], s.peer_to_tx)
    <3>1. PICK c \in Conns : op = <<"init", c>> /\ op[2] = c
      BY <2>1, <2>10
    <3>2. Accepting(s.todo, c) /\ none = [s.todo EXCEPT ![Main] = <<>>]
      BY <2>1, <2>10, <3>1 DEF Accepting, none
    <3>3. Fits(none, [s.handler EXCEPT ![c] = "over"], s.peer_to_tx, handed)
      BY <1>1, <3>2, InitFailsFits
    <3> QED  BY <2>10, <3>1, <3>3 DEF Is, TaskFits, r
  <2>11. CASE /\ op[1] \in {"send", "init"} /\ x # Main
              /\ Is(r, none, [s.handler EXCEPT ![op[2]] = "exited"], s.peer_to_tx)
    <3>1. x \in Conns /\ op[2] = x /\ s.handler[x] = "live"
      BY <1>1, <1>3, <2>1, <2>11 DEF StagesFit
    <3>2. Fits(none, [s.handler EXCEPT ![x] = "exited"], s.peer_to_tx, handed)
      BY <2>3, <2>4, <3>1, ExitFits
    <3> QED  BY <2>11, <3>1, <3>2 DEF Is, TaskFits, r
  <2> QED  BY <2>2, <2>5, <2>6, <2>7, <2>8, <2>9, <2>10, <2>11 DEF Outcome, op, rest, none
<1> QED  BY <1>2, <1>3

\* The states one operation later.
Later(states, x) == {Operates(t, x) : t \in states}

\* The states after n operations, as Poll defines them.
IsRun(g, s, x, N) ==
    g = [n \in 0 .. N |-> IF n = 0 THEN {s} ELSE {Operates(t, x) : t \in g[n - 1]}]

\* Repeating an operation N times is well defined: such a recursive function exists.
LEMMA RunExists ==
    ASSUME NEW s, NEW x, NEW N \in Nat
    PROVE  \E g : IsRun(g, s, x, N)
<1> DEFINE step(G) == {Operates(t, x) : t \in G}
           run(g, k) == g = [n \in 0 .. k |-> IF n = 0 THEN {s} ELSE step(g[n - 1])]
           S == {k \in Nat : \E g : run(g, k)}
<1> HIDE DEF step
<1>1. 0 \in S
  <2> DEFINE g == [n \in 0 .. 0 |-> {s}]
  <2>1. \A n \in 0 .. 0 : {s} = IF n = 0 THEN {s} ELSE step(g[n - 1])
    OBVIOUS
  <2>2. run(g, 0)
    BY <2>1
  <2> HIDE DEF g, run
  <2> QED  BY <2>2
<1>2. ASSUME NEW k \in Nat, k \in S
      PROVE  k + 1 \in S
  <2>1. PICK g : run(g, k)
    BY <1>2
  <2>2. DOMAIN g = 0 .. k /\ \A n \in 0 .. k : g[n] = IF n = 0 THEN {s} ELSE step(g[n - 1])
    BY <2>1
  <2> DEFINE h == [n \in 0 .. k + 1 |-> IF n <= k THEN g[n] ELSE step(g[k])]
  <2>3. \A n \in 0 .. k + 1 : h[n] = IF n <= k THEN g[n] ELSE step(g[k])
    BY <1>2
  <2>4. \A n \in 0 .. k + 1 : (IF n <= k THEN g[n] ELSE step(g[k])) =
                              IF n = 0 THEN {s} ELSE step(h[n - 1])
    <3> HIDE DEF h
    <3> TAKE n \in 0 .. k + 1
    <3>1. CASE n = 0
      BY <1>2, <2>2, <3>1
    <3>2. CASE n \in 1 .. k
      <4>1. n - 1 \in 0 .. k + 1 /\ n - 1 <= k /\ n # 0 /\ n <= k /\ n \in 0 .. k
        BY <1>2, <3>2
      <4>2. h[n - 1] = g[n - 1] /\ g[n] = step(g[n - 1])
        BY <2>2, <2>3, <4>1
      <4> QED  BY <4>1, <4>2
    <3>3. CASE n = k + 1
      <4>1. n - 1 = k /\ k \in 0 .. k + 1 /\ k <= k /\ ~(n <= k) /\ n # 0
        BY <1>2, <3>3
      <4>2. h[n - 1] = g[k]
        BY <2>3, <4>1
      <4> QED  BY <4>1, <4>2
    <3> QED  BY <1>2, <3>1, <3>2, <3>3
  <2>5. run(h, k + 1)
    BY <2>4
  <2> HIDE DEF h, run
  <2> QED  BY <1>2, <2>5
<1> HIDE DEF S
<1>3. N \in S
  BY <1>1, <1>2, Induction
<1> QED  BY <1>3 DEF S, step, IsRun

\* A run of operations that Poll ends with.
PollRuns(after, s, x, N) ==
    /\ Poll(s, x) = after[N]
    /\ after[0] = {s}
    /\ \A n \in 1 .. N : after[n] = Later(after[n - 1], x)

\* The states after n operations, for every n up to the length of the body.
LEMMA PollUnfolded ==
    ASSUME NEW s, NEW x, NEW N \in Nat, N = Len(s.todo[x])
    PROVE  \E after : PollRuns(after, s, x, N)
<1> DEFINE h == CHOOSE g : IsRun(g, s, x, N)
<1>1. Poll(s, x) = h[N]
  BY DEF Poll, IsRun
<1>2. h = [n \in 0 .. N |-> IF n = 0 THEN {s} ELSE {Operates(t, x) : t \in h[n - 1]}]
  <2>1. \E g : IsRun(g, s, x, N)
    BY RunExists
  <2>2. IsRun(h, s, x, N)
    BY <2>1, Zenon
  <2> HIDE DEF h
  <2> QED  BY <2>2, Zenon DEF IsRun
<1> HIDE DEF h
<1>3. h[0] = {s}
  <2>1. 0 \in 0 .. N
    OBVIOUS
  <2> QED  BY <1>2, <2>1, Zenon
<1>4. \A n \in 1 .. N : h[n] = Later(h[n - 1], x)
  <2>1. \A n \in 1 .. N : n \in 0 .. N /\ n # 0
    OBVIOUS
  <2> QED  BY <1>2, <2>1, Zenon DEF Later
<1> QED  BY <1>1, <1>3, <1>4, Zenon DEF PollRuns

\* A poll keeps what fits.
LEMMA PollFits ==
    ASSUME NEW s, NEW handed, TaskFits(s, handed), NEW x \in Procs
    PROVE  \A t \in Poll(s, x) : TaskFits(t, handed)
<1>1. PICK N \in Nat : N = Len(s.todo[x])
  <2>1. s.todo[x] \in Seq(Ops)
    BY DEF TaskFits, Fits, BodiesFit
  <2> QED  BY <2>1
<1>2. PICK after : PollRuns(after, s, x, N)
  BY <1>1, PollUnfolded
<1> DEFINE S == {n \in Nat : n <= N => \A t \in after[n] : TaskFits(t, handed)}
<1>3. 0 \in S
  BY <1>2 DEF PollRuns
<1>4. ASSUME NEW n \in Nat, n \in S
      PROVE  n + 1 \in S
  <2> SUFFICES ASSUME n + 1 <= N, NEW t \in after[n + 1]
               PROVE  TaskFits(t, handed)
    BY <1>4
  <2>1. n + 1 \in 1 .. N /\ (n + 1) - 1 = n /\ n <= N
    BY <1>4
  <2>2. PICK u \in after[n] : t = Operates(u, x)
    BY <1>2, <2>1 DEF Later, PollRuns
  <2> QED  BY <1>4, <2>1, <2>2, OperationFits
<1> HIDE DEF S
<1>5. N \in S
  BY <1>3, <1>4, Induction
<1> QED  BY <1>2, <1>5 DEF S, PollRuns
-----------------------------------------------------------------------------
(* The bodies of the handlers and of the branches.                         *)

\* What neither accepts, removes nor ends anything.
PlainOps ==
    {<<"lock">>, <<"unlock">>, <<"io">>} \cup ({"wake"} \X Messages) \cup ({"send"} \X Conns)

\* A body of operations of other kinds.
LEMMA NoSuchOp ==
    ASSUME NEW S, NEW q \in Seq(S)
    PROVE  /\ \A op : op \notin S => ~Has(q, op)
           /\ \A kind : (\A op \in S : op[1] # kind) => AtEnd(kind, q)
<1>1. \A i \in 1 .. Len(q) : q[i] \in S
  OBVIOUS
<1> QED  BY <1>1 DEF Has, AtEnd

\* Sequences of one set are sequences of a larger one.
LEMMA SeqOfMore ==
    ASSUME NEW S, NEW T, S \subseteq T, NEW q \in Seq(S)
    PROVE  q \in Seq(T)
  OBVIOUS

\* The kinds of operations tell them apart.
LEMMA KindsApart ==
    /\ \A op \in PlainOps : op[1] \notin {"init", "insert", "remove", "exit"}
    /\ \A c : \A op \in HandlerOps(c) \ {<<"exit">>} : op[1] # "exit"
    /\ \A c : <<"init", c>>[1] = "init" /\ <<"insert", c>>[1] = "insert" /\ <<"remove", c>>[1] = "remove"
    /\ PlainOps \subseteq MainOps /\ PlainOps \subseteq Ops
<1>1. \A op \in PlainOps : op[1] \notin {"init", "insert", "remove", "exit"}
  BY DEF PlainOps
<1>2. \A c : \A op \in HandlerOps(c) \ {<<"exit">>} : op[1] # "exit"
  BY DEF HandlerOps
<1>3. PlainOps \subseteq MainOps /\ PlainOps \subseteq Ops
  BY DEF PlainOps, MainOps, Ops
<1> QED  BY <1>1, <1>2, <1>3

\* The operations of a handler are among all operations.
LEMMA HandlerOpsAreOps == \A c \in Conns : HandlerOps(c) \subseteq Ops
  BY DEF HandlerOps, MainOps, Ops

\* unlock_and_send! and what runs under the lock.
LEMMA BodyParts ==
    ASSUME NEW S, {<<"lock">>, <<"unlock">>, <<"io">>} \subseteq S
    PROVE  /\ << <<"lock">> >> \in Seq(S) /\ << <<"io">> >> \in Seq(S) /\ << <<"unlock">> >> \in Seq(S)
           /\ << <<"io">>, <<"lock">> >> \in Seq(S) /\ << <<"lock">>, <<"unlock">> >> \in Seq(S)
           /\ \A msg : <<"wake", msg>> \in S => unlock_and_send(msg) \in Seq(S)
           /\ \A q \in Seq(S) : Locked(q) \in Seq(S)
<1>1. /\ << <<"lock">> >> \in Seq(S) /\ << <<"io">> >> \in Seq(S) /\ << <<"unlock">> >> \in Seq(S)
      /\ << <<"io">>, <<"lock">> >> \in Seq(S) /\ << <<"lock">>, <<"unlock">> >> \in Seq(S)
  OBVIOUS
<1>2. \A msg : <<"wake", msg>> \in S => unlock_and_send(msg) \in Seq(S)
  BY DEF unlock_and_send
<1>3. \A q \in Seq(S) : Locked(q) \in Seq(S)
  BY <1>1, ConcatProperties DEF Locked
<1> QED  BY <1>1, <1>2, <1>3

\* What a handler does with a message.
LEMMA HandlerBodiesFit ==
    ASSUME NEW c \in Conns, NEW body \in HandlerBodies(c)
    PROVE  body \in Seq(HandlerOps(c)) /\ AtEnd("exit", body)
<1> DEFINE S == HandlerOps(c) \ {<<"exit">>}
<1>1. /\ {<<"lock">>, <<"unlock">>, <<"io">>} \subseteq S /\ <<"send", c>> \in S
      /\ \A msg \in Messages : <<"wake", msg>> \in S
      /\ S \subseteq HandlerOps(c) /\ \A op \in S : op[1] # "exit"
  BY DEF HandlerOps
<1> HIDE DEF S
<1>2. "Wakeup" \in Messages /\ "PieceComplete" \in Messages /\ "PeerRequestedPiece" \in Messages
  BY DEF Messages
<1>3. CASE body \in Seq(S)
  BY <1>1, <1>3, NoSuchOp, SeqOfMore
<1>4. CASE body = << <<"io">>, <<"exit">> >>
  <2>1. body \in Seq(HandlerOps(c))
    BY <1>4 DEF HandlerOps
  <2>2. Len(body) = 2 /\ body[1] = <<"io">>
    BY <1>4
  <2>3. \A i \in 1 .. 2 : i = 1 \/ i = 2
    OBVIOUS
  <2>4. AtEnd("exit", body)
    BY <2>2, <2>3 DEF AtEnd
  <2> QED  BY <2>1, <2>4
<1>5. body \in Seq(S) \/ body = << <<"io">>, <<"exit">> >>
  <2>1. <<>> \in Seq(S) /\ << <<"lock">>, <<"send", c>> >> \in Seq(S)
    BY <1>1
  <2>2. \A msg \in Messages : /\ << <<"lock">> >> \o unlock_and_send(msg) \in Seq(S)
                              /\ << <<"io">>, <<"lock">> >> \o unlock_and_send(msg) \in Seq(S)
                              /\ << <<"lock">>, <<"send", c>> >> \o unlock_and_send(msg) \in Seq(S)
    BY <1>1, <2>1, BodyParts, ConcatProperties
  <2>3. << <<"lock">>, <<"unlock">> >> \in Seq(S)
    BY <1>1, BodyParts
  <2> QED  BY <1>2, <2>1, <2>2, <2>3 DEF HandlerBodies
<1> QED  BY <1>3, <1>4, <1>5

\* The receivers of an announcement are connections.
LEMMA ReceiversAreConns ==
    ASSUME NEW stage, NEW map, MapFits(stage, map)
    PROVE  Receivers(map) \in Seq(Conns)
<1> DEFINE D == DOMAIN map
<1>1. map \in [D -> Conns] /\ D \subseteq Conns
  BY WiringAssumption DEF MapFits
<1>2. IsFiniteSet(D)
  <2>1. IsFiniteSet(Conns)
    BY WiringAssumption, FS_Interval DEF Conns
  <2> QED  BY <1>1, <2>1, FS_Subset
<1>3. Cardinality(D) \in Nat /\ \E f \in [1 .. Cardinality(D) -> D] : IsInjective(f)
  <2>1. Cardinality(D) \in Nat /\ ExistsBijection(1 .. Cardinality(D), D)
    BY <1>2, FS_CardinalityType
  <2> QED  BY <2>1 DEF ExistsBijection, Bijection, Injection
<1>4. SetToSeq(D) \in [1 .. Cardinality(D) -> D]
  BY <1>3 DEF SetToSeq
<1>5. PICK n \in Nat : n = Cardinality(D)
  BY <1>3
<1>6. PICK ids \in [1 .. n -> D] : ids = SetToSeq(D)
  BY <1>4, <1>5
<1>7. Receivers(map) = [i \in 1 .. n |-> map[ids[i]]]
  BY <1>6 DEF Receivers
<1>8. \A i \in 1 .. n : map[ids[i]] \in Conns
  BY <1>1, <1>6
<1> QED  BY <1>5, <1>7, <1>8

\* Sending is plain.
LEMMA SendsPlain == ASSUME NEW s \in Seq(Conns) PROVE Sends(s) \in Seq(PlainOps)
<1>1. PICK n \in Nat : n = Len(s) /\ DOMAIN s = 1 .. n
  OBVIOUS
<1>2. \A i \in 1 .. n : <<"send", s[i]>> \in PlainOps
  BY <1>1 DEF PlainOps
<1> QED  BY <1>1, <1>2 DEF Sends

\* The bodies of the wake-up and of the tick are plain.
LEMMA WakeBodyPlain ==
    ASSUME NEW stage, NEW map, MapFits(stage, map), NEW msg,
           NEW requests \in Seq(Conns), NEW answers \in Seq(Conns)
    PROVE  WakeBody(msg, map, requests, answers) \in Seq(PlainOps)
<1>1. {<<"lock">>, <<"unlock">>, <<"io">>} \subseteq PlainOps
  BY DEF PlainOps
<1>2. /\ Sends(Receivers(map)) \in Seq(PlainOps) /\ Sends(requests) \in Seq(PlainOps)
      /\ Sends(answers) \in Seq(PlainOps) /\ <<>> \in Seq(PlainOps)
  BY ReceiversAreConns, SendsPlain
<1>3. /\ Locked(<<>>) \in Seq(PlainOps) /\ Locked(Sends(requests)) \in Seq(PlainOps)
      /\ << <<"io">> >> \in Seq(PlainOps)
  BY <1>1, <1>2, BodyParts
<1> DEFINE a == CASE msg = "PieceComplete" -> Sends(Receivers(map))
                  [] msg = "PeerRequestedPiece" -> Locked(<<>>)
                  [] OTHER -> <<>>
           b == IF answers = <<>> THEN <<>> ELSE << <<"io">> >> \o Sends(answers)
           d == Locked(Sends(requests))
           e == Locked(<<>>)
<1>4. a \in Seq(PlainOps)
  BY <1>2, <1>3
<1>5. b \in Seq(PlainOps)
  BY <1>2, <1>3, ConcatProperties
<1>6. WakeBody(msg, map, requests, answers) = a \o d \o e \o b
  BY DEF WakeBody
<1> HIDE DEF a, b, d, e
<1>7. d \in Seq(PlainOps) /\ e \in Seq(PlainOps)
  BY <1>3 DEF d, e
<1> QED  BY <1>4, <1>5, <1>6, <1>7, ConcatProperties

\* ... whether requests expired or not.
LEMMA TickBodyPlain == \A expired \in BOOLEAN : TickBody(expired) \in Seq(PlainOps)
<1>1. {<<"lock">>, <<"unlock">>, <<"io">>} \subseteq PlainOps /\ <<"wake", "Wakeup">> \in PlainOps
  BY DEF PlainOps, Messages
<1>2. /\ Locked(<<>>) \in Seq(PlainOps) /\ << <<"lock">> >> \in Seq(PlainOps)
      /\ unlock_and_send("Wakeup") \in Seq(PlainOps) /\ << <<"unlock">> >> \in Seq(PlainOps)
  <2>1. <<>> \in Seq(PlainOps)
    OBVIOUS
  <2> QED  BY <1>1, <2>1, BodyParts
<1> SUFFICES ASSUME NEW expired \in BOOLEAN PROVE TickBody(expired) \in Seq(PlainOps)
  OBVIOUS
<1> DEFINE a == Locked(<<>>)
           b == IF expired THEN unlock_and_send("Wakeup") ELSE << <<"unlock">> >>
           d == << <<"lock">> >>
<1>3. a \in Seq(PlainOps) /\ b \in Seq(PlainOps) /\ d \in Seq(PlainOps)
  BY <1>2
<1>4. TickBody(expired) = a \o d \o b
  BY DEF TickBody
<1> HIDE DEF a, b, d
<1> QED  BY <1>3, <1>4, ConcatProperties
-----------------------------------------------------------------------------
(* Entering a body.                                                        *)

\* The parts of the task as it is, with a body for x and another map.
LEMMA TaskParts ==
    ASSUME NEW x, NEW body, NEW w, NEW map
    PROVE  /\ Is(Task, todo, handler, peer_to_tx)
           /\ Is([Task EXCEPT !.todo[x] = body], [todo EXCEPT ![x] = body], handler, peer_to_tx)
           /\ Is([Task EXCEPT !.todo[x] = Tail(@)], [todo EXCEPT ![x] = Tail(@)], handler, peer_to_tx)
           /\ Is([[Task EXCEPT !.wake = w, !.peer_to_tx = map] EXCEPT !.todo[x] = body],
                 [todo EXCEPT ![x] = body], handler, map)
<1>1. Is(Task, todo, handler, peer_to_tx)
  BY DEF Task, Is, Shaped
<1>2. Is([Task EXCEPT !.todo[x] = body], [todo EXCEPT ![x] = body], handler, peer_to_tx)
  BY DEF Task, Is, Shaped
<1>3. Is([Task EXCEPT !.todo[x] = Tail(@)], [todo EXCEPT ![x] = Tail(@)], handler, peer_to_tx)
  BY DEF Task, Is, Shaped
<1>4. Is([[Task EXCEPT !.wake = w, !.peer_to_tx = map] EXCEPT !.todo[x] = body],
         [todo EXCEPT ![x] = body], handler, map)
  BY DEF Task, Is, Shaped
<1> QED  BY <1>1, <1>2, <1>3, <1>4

\* Polling a task that fits leads to one that fits.
LEMMA PolledFits ==
    ASSUME NEW s, NEW todos, NEW map, Is(s, todos, handler, map), NEW x \in Procs,
           Fits(todos, handler, map, starts'), TaskBecomes(Poll(s, x)), UNCHANGED conn
    PROVE  Fits(todo, handler, peer_to_tx, starts)'
<1>1. TaskFits(s, starts')
  BY DEF Is, TaskFits
<1>2. PICK t \in Poll(s, x) : todo' = t.todo /\ peer_to_tx' = t.peer_to_tx /\ handler' = t.handler
  BY DEF TaskBecomes
<1>3. TaskFits(t, starts')
  BY <1>1, <1>2, PollFits
<1>4. Fits(todo', handler', peer_to_tx', starts')
  BY <1>2, <1>3 DEF TaskFits
<1> QED  BY <1>4 DEF Fits, BodiesFit, StagesFit, MapFits, MapServes, Accepting, Has, AtEnd

\* A new body fits if it agrees with the stages.
LEMMA BodyFits ==
    ASSUME NEW map, NEW handed, Fits(todo, handler, map, handed),
           NEW x \in Procs, NEW body \in Seq(Ops), NEW handed2, handed2 = handed \/ handed2 = <<>>,
           x = Main => /\ body \in Seq(MainOps) /\ AtEnd("insert", body)
                       /\ \A c \in Conns :
                            /\ Has(body, <<"init", c>>) \/ Has(body, <<"insert", c>>) =>
                                  /\ handler[c] = "none" /\ handed2 # <<c>>
                                  /\ conn[c] \notin {"listed", "failed", "queued"}
                            /\ Has(body, <<"remove", c>>) => handler[c] \in {"exited", "over"},
           x # Main => body \in Seq(HandlerOps(x)) /\ AtEnd("exit", body) /\ handler[x] = "live"
    PROVE  Fits([todo EXCEPT ![x] = body], handler, map, handed2)
<1> DEFINE more == [todo EXCEPT ![x] = body]
<1>1. BodiesFit(todo) /\ StagesFit(todo, handler, handed) /\ todo \in [Procs -> Seq(Ops)]
  BY DEF Fits, BodiesFit
<1>2. more \in [Procs -> Seq(Ops)] /\ more[x] = body /\ \A y \in Procs : y # x => more[y] = todo[y]
  BY <1>1
<1> HIDE DEF more
<1>3. BodiesFit(more)
  <2>1. more[Main] \in Seq(MainOps) /\ AtEnd("insert", more[Main])
    BY <1>1, <1>2, MainApart DEF BodiesFit
  <2>2. \A c \in Conns : more[c] \in Seq(HandlerOps(c)) /\ AtEnd("exit", more[c])
    BY <1>1, <1>2, MainApart DEF BodiesFit
  <2> QED  BY <1>2, <2>1, <2>2 DEF BodiesFit
<1>4. StagesFit(more, handler, handed2)
  <2> SUFFICES ASSUME NEW c \in Conns
               PROVE  /\ Accepting(more, c) => handler[c] = "none" /\ handed2 # <<c>>
                      /\ handed2 = <<c>> => handler[c] = "none"
                      /\ conn[c] \in {"listed", "failed", "queued"} =>
                            handler[c] = "none" /\ handed2 # <<c>> /\ ~Accepting(more, c)
                      /\ more[c] # <<>> => handler[c] = "live"
                      /\ Has(more[Main], <<"remove", c>>) => handler[c] \in {"exited", "over"}
    BY DEF StagesFit
  <2>1. /\ Accepting(todo, c) => handler[c] = "none" /\ handed # <<c>>
        /\ handed = <<c>> => handler[c] = "none"
        /\ conn[c] \in {"listed", "failed", "queued"} =>
              handler[c] = "none" /\ handed # <<c>> /\ ~Accepting(todo, c)
        /\ todo[c] # <<>> => handler[c] = "live"
        /\ Has(todo[Main], <<"remove", c>>) => handler[c] \in {"exited", "over"}
    BY <1>1 DEF StagesFit
  <2>2. handed2 = <<c>> => handed = <<c>>
    OBVIOUS
  <2>3. CASE x = Main
    <3>1. more[Main] = body /\ more[c] = todo[c] /\ c \in Procs
      BY <1>2, <2>3, MainApart
    <3>2. Accepting(more, c) => Has(body, <<"init", c>>) \/ Has(body, <<"insert", c>>)
      BY <3>1 DEF Accepting
    <3> QED  BY <2>1, <2>2, <2>3, <3>1, <3>2
  <2>4. CASE x # Main
    <3>1. more[Main] = todo[Main] /\ (c # x => more[c] = todo[c])
      BY <1>2, <2>4, MainApart
    <3>2. Accepting(more, c) => Accepting(todo, c)
      BY <3>1 DEF Accepting
    <3> QED  BY <2>1, <2>2, <2>4, <3>1, <3>2
  <2> QED  BY <2>3, <2>4
<1> QED  BY <1>3, <1>4 DEF Fits, more

\* A plain body of the loop fits.
LEMMA PlainFits ==
    ASSUME NEW map, NEW handed, Fits(todo, handler, map, handed), NEW body \in Seq(PlainOps)
    PROVE  Fits([todo EXCEPT ![Main] = body], handler, map, handed)
<1>1. body \in Seq(MainOps) /\ body \in Seq(Ops) /\ AtEnd("insert", body)
  BY SeqOfMore, KindsApart, NoSuchOp
<1>2. \A c : ~Has(body, <<"init", c>>) /\ ~Has(body, <<"insert", c>>) /\ ~Has(body, <<"remove", c>>)
  BY KindsApart, NoSuchOp
<1> QED  BY <1>1, <1>2, MainApart, BodyFits

\* prune_closed_tx takes entries of connections that have ended only.
LEMMA PruneFits ==
    ASSUME NEW handed, Fits(todo, handler, peer_to_tx, handed)
    PROVE  Fits(todo, handler, prune_closed_tx(peer_to_tx), handed)
<1> DEFINE m == prune_closed_tx(peer_to_tx)
<1>1. MapFits(handler, peer_to_tx) /\ MapServes(handler, peer_to_tx)
  BY DEF Fits
<1>2. /\ \A id : id \in DOMAIN m <=> id \in DOMAIN peer_to_tx /\ conn[peer_to_tx[id]] # "ended"
      /\ m \in [DOMAIN m -> Conns] /\ \A id \in DOMAIN m : m[id] = peer_to_tx[id]
  BY <1>1 DEF prune_closed_tx, Without, MapFits
<1> HIDE DEF m
<1>3. MapFits(handler, m)
  BY <1>1, <1>2 DEF MapFits
<1>4. MapServes(handler, m)
  <2> SUFFICES ASSUME NEW c \in Conns, handler[c] = "live", conn[c] # "ended", PeerId[c] \notin DOMAIN m
               PROVE  \E d \in Conns \ {c} : PeerId[d] = PeerId[c]
                                             /\ (conn[d] = "ended" \/ handler[d] = "over")
    BY DEF MapServes
  <2>1. CASE PeerId[c] \in DOMAIN peer_to_tx
    <3> DEFINE d == peer_to_tx[PeerId[c]]
    <3>1. d \in Conns /\ PeerId[d] = PeerId[c] /\ conn[d] = "ended"
      BY <1>1, <1>2, <2>1 DEF MapFits
    <3> QED  BY <3>1
  <2>2. CASE PeerId[c] \notin DOMAIN peer_to_tx
    BY <1>1, <2>2 DEF MapServes
  <2> QED  BY <2>1, <2>2
<1> QED  BY <1>3, <1>4 DEF Fits, m
-----------------------------------------------------------------------------
(* The steps.                                                              *)

\* A connection moves on: it never comes back from its end, and is handed to the loop
\* when it leaves the queue.
LEMMA ConnMoves ==
    ASSUME WInv, NEW c \in Conns, NEW v, conn' = [conn EXCEPT ![c] = v], conn[c] # "ended",
           v \in {"failed", "queued", "select", "writing", "forwarding", "ended"},
           v \in {"failed", "queued"} => conn[c] = "listed",
           \/ dialled' = dialled /\ conn[c] # "listed"
           \/ dialled' = dialled + 1 /\ c = dialled' /\ dialled # Count,
           UNCHANGED <<out, peer_to_tx, handler, todo>>,
           starts' = starts \/ (starts' = <<c>> /\ conn[c] = "queued" /\ v = "select")
    PROVE  WInv'
<1>1. /\ dialled \in 0 .. Count /\ Count \in Nat
      /\ conn \in [Conns -> {"listed", "failed", "queued", "select", "writing", "forwarding", "ended"}]
      /\ \A d \in Conns : d > dialled => conn[d] = "listed"
      /\ BodiesFit(todo) /\ handler \in [Conns -> Stages]
      /\ StagesFit(todo, handler, starts) /\ MapFits(handler, peer_to_tx)
      /\ MapServes(handler, peer_to_tx)
  BY WiringAssumption DEF WInv, DialFits, Fits
<1>2. conn'[c] = v /\ \A d \in Conns : d # c => conn'[d] = conn[d]
  BY <1>1
<1>3. DialFits'
  <2>1. dialled' \in 0 .. Count
    BY <1>1
  <2>2. conn' \in [Conns -> {"listed", "failed", "queued", "select", "writing", "forwarding", "ended"}]
    BY <1>1
  <2>3. ASSUME NEW d \in Conns, d > dialled' PROVE conn'[d] = "listed"
    <3>1. d > dialled /\ d # c
      BY <1>1, <2>3, MainApart
    <3> QED  BY <1>1, <1>2, <3>1
  <2> QED  BY <2>1, <2>2, <2>3 DEF DialFits
<1>4. StagesFit(todo, handler, starts)'
  <2>1. ASSUME NEW d \in Conns
        PROVE  /\ Accepting(todo, d) => handler[d] = "none" /\ starts' # <<d>>
               /\ starts' = <<d>> => handler[d] = "none"
               /\ conn'[d] \in {"listed", "failed", "queued"} =>
                     handler[d] = "none" /\ starts' # <<d>> /\ ~Accepting(todo, d)
               /\ todo[d] # <<>> => handler[d] = "live"
               /\ Has(todo[Main], <<"remove", d>>) => handler[d] \in {"exited", "over"}
    <3>1. /\ Accepting(todo, d) => handler[d] = "none" /\ starts # <<d>>
          /\ starts = <<d>> => handler[d] = "none"
          /\ conn[d] \in {"listed", "failed", "queued"} =>
                handler[d] = "none" /\ starts # <<d>> /\ ~Accepting(todo, d)
          /\ todo[d] # <<>> => handler[d] = "live"
          /\ Has(todo[Main], <<"remove", d>>) => handler[d] \in {"exited", "over"}
      BY <1>1 DEF StagesFit
    <3>2. conn'[d] \in {"listed", "failed", "queued"} => conn[d] \in {"listed", "failed", "queued"}
      BY <1>2
    <3>3. starts' = <<d>> => starts = <<d>> \/ (d = c /\ conn[d] = "queued" /\ conn'[d] = "select")
      BY <1>2
    <3> QED  BY <3>1, <3>2, <3>3
  <2> QED  BY <2>1 DEF StagesFit, Accepting, Has
<1>5. MapServes(handler, peer_to_tx)'
  <2>1. \A d \in Conns : conn[d] = "ended" => conn'[d] = "ended"
    BY <1>2
  <2> QED  BY <1>1, <2>1 DEF MapServes
<1>6. BodiesFit(todo)' /\ (handler \in [Conns -> Stages])' /\ MapFits(handler, peer_to_tx)'
  BY <1>1 DEF BodiesFit, MapFits, AtEnd
<1>7. (starts = <<>> \/ \E d \in Conns : starts = <<d>>)' /\ (out \in Nat)'
  BY DEF WInv
<1> QED  BY <1>3, <1>4, <1>5, <1>6, <1>7 DEF WInv, Fits

\* Dialling and the steps of a connection.
LEMMA ConnStepFits ==
    ASSUME WInv, Dial \/ \E c \in Conns : ConnStep(c)
    PROVE  WInv'
<1>1. dialled \in 0 .. Count /\ Count \in Nat
  BY WiringAssumption DEF WInv, DialFits
<1>2. CASE Dial
  <2>1. dialled # Count /\ dialled' = dialled + 1 /\ dialled' \in Conns /\ conn[dialled'] = "listed"
    <3>1. dialled # Count /\ dialled' = dialled + 1
      BY <1>2 DEF Dial, DialledAll
    <3>2. dialled' \in Conns /\ dialled' > dialled
      BY <1>1, <3>1 DEF Conns
    <3> QED  BY <3>1, <3>2 DEF WInv, DialFits
  <2>2. UNCHANGED <<starts, out, peer_to_tx, handler, todo>>
    BY <1>2 DEF Dial, loopVars
  <2>3. PICK v \in {"failed", "queued"} : conn' = [conn EXCEPT ![dialled'] = v]
    BY <1>2 DEF Dial
  <2> QED  BY <2>1, <2>2, <2>3, ConnMoves
<1>3. ASSUME NEW c \in Conns, ConnStep(c)
      PROVE  WInv'
  <2>1. UNCHANGED <<dialled, out, peer_to_tx, handler, todo>>
    BY <1>3 DEF ConnStep, Start, TakesMessage, Writes, ReadsMessage, Forwards, Breaks, loopVars
  <2>2. conn[c] \in {"queued", "select", "writing", "forwarding"}
    BY <1>3 DEF ConnStep, Start, TakesMessage, Writes, ReadsMessage, Forwards, Breaks
  <2>3. \E v \in {"select", "writing", "forwarding", "ended"} :
            /\ conn' = [conn EXCEPT ![c] = v]
            /\ starts' = starts \/ (starts' = <<c>> /\ conn[c] = "queued" /\ v = "select")
    BY <1>3 DEF ConnStep, Start, TakesMessage, Writes, ReadsMessage, Forwards, Breaks
  <2> QED  BY <2>1, <2>2, <2>3, ConnMoves
<1> QED  BY <1>2, <1>3

\* What remains when the task has moved.
LEMMA TaskMoved ==
    ASSUME WInv, Fits(todo, handler, peer_to_tx, starts)', UNCHANGED netVars, out' \in Nat,
           starts' = starts \/ starts' = <<>>
    PROVE  WInv'
  BY DEF WInv, DialFits, netVars

\* The loop or a handler goes on in its body.
LEMMA ResumesFits ==
    ASSUME WInv, NEW x \in Procs, Resumes(x)
    PROVE  WInv'
<1>1. Fits(todo, handler, peer_to_tx, starts) /\ out \in Nat
  BY DEF WInv
<1>2. todo[x] # <<>> /\ UNCHANGED netVars /\ UNCHANGED starts /\ UNCHANGED out /\ UNCHANGED conn
  BY DEF Resumes, netVars
<1>3. CASE Op(Task, x) = <<"io">>
  <2> DEFINE s == [Task EXCEPT !.todo[x] = Tail(@)]
  <2>1. TaskBecomes(Poll(s, x))
    BY <1>3 DEF Resumes
  <2>2. Is(s, [todo EXCEPT ![x] = Tail(@)], handler, peer_to_tx)
    BY TaskParts
  <2>3. Fits([todo EXCEPT ![x] = Tail(@)], handler, peer_to_tx, starts')
    BY <1>1, <1>2, LessToDo
  <2> HIDE DEF s
  <2>4. Fits(todo, handler, peer_to_tx, starts)'
    BY <1>2, <2>1, <2>2, <2>3, PolledFits
  <2> QED  BY <1>1, <1>2, <2>4, TaskMoved
<1>4. CASE Op(Task, x) # <<"io">>
  <2>1. TaskBecomes(Poll(Task, x))
    BY <1>4 DEF Resumes
  <2>2. Is(Task, todo, handler, peer_to_tx)
    BY TaskParts
  <2>3. Fits(todo, handler, peer_to_tx, starts')
    BY <1>1, <1>2
  <2>4. Fits(todo, handler, peer_to_tx, starts)'
    BY <1>2, <2>1, <2>2, <2>3, PolledFits
  <2> QED  BY <1>1, <1>2, <2>4, TaskMoved
<1> QED  BY <1>3, <1>4

\* A handler receives a message, or ends.
LEMMA HandlerFits ==
    ASSUME WInv, NEW c \in Conns, Receives(c) \/ HandlerEnds(c)
    PROVE  WInv'
<1>1. Fits(todo, handler, peer_to_tx, starts) /\ out \in Nat
  BY DEF WInv
<1>2. CASE Receives(c)
  <2>1. PICK body \in HandlerBodies(c) : TaskBecomes(Poll([Task EXCEPT !.todo[c] = body], c))
    BY <1>2 DEF Receives
  <2>2. /\ handler[c] = "live" /\ UNCHANGED netVars /\ UNCHANGED starts /\ UNCHANGED out
        /\ UNCHANGED conn
    BY <1>2 DEF Receives, netVars
  <2>3. body \in Seq(HandlerOps(c)) /\ body \in Seq(Ops) /\ AtEnd("exit", body)
    BY HandlerBodiesFit, HandlerOpsAreOps, SeqOfMore
  <2>4. c \in Procs /\ c # Main
    BY MainApart
  <2>5. Fits([todo EXCEPT ![c] = body], handler, peer_to_tx, starts')
    BY <1>1, <2>2, <2>3, <2>4, BodyFits
  <2>6. Is([Task EXCEPT !.todo[c] = body], [todo EXCEPT ![c] = body], handler, peer_to_tx)
    BY TaskParts
  <2>7. Fits(todo, handler, peer_to_tx, starts)'
    BY <2>1, <2>2, <2>4, <2>5, <2>6, PolledFits
  <2> QED  BY <1>1, <2>2, <2>7, TaskMoved
<1>3. CASE HandlerEnds(c)
  <2>1. /\ handler[c] = "live" /\ todo[c] = <<>> /\ handler' = [handler EXCEPT ![c] = "exited"]
        /\ UNCHANGED netVars /\ UNCHANGED <<starts, out, todo, peer_to_tx, conn>>
    BY <1>3 DEF HandlerEnds, netVars
  <2>2. Fits(todo, [handler EXCEPT ![c] = "exited"], peer_to_tx, starts)
    BY <1>1, <2>1, ExitFits
  <2>3. Fits(todo', handler', peer_to_tx', starts')
    BY <2>1, <2>2
  <2>4. Fits(todo, handler, peer_to_tx, starts)'
    BY <2>1, <2>3 DEF Fits, BodiesFit, StagesFit, MapFits, MapServes, Accepting, Has, AtEnd
  <2> QED  BY <1>1, <2>1, <2>4, TaskMoved
<1> QED  BY <1>2, <1>3

\* The body of the accepting branch.
LEMMA AcceptBodyOps ==
    ASSUME NEW c \in Conns
    PROVE  /\ AcceptBody(c) \in Seq(MainOps) /\ AcceptBody(c) \in Seq(Ops)
           /\ AtEnd("insert", AcceptBody(c))
           /\ \A d : Has(AcceptBody(c), <<"init", d>>) \/ Has(AcceptBody(c), <<"insert", d>>) => d = c
           /\ \A d : ~Has(AcceptBody(c), <<"remove", d>>)
<1> DEFINE b == AcceptBody(c)
<1>1. /\ <<"lock">> \in MainOps /\ <<"unlock">> \in MainOps
      /\ <<"init", c>> \in MainOps /\ <<"insert", c>> \in MainOps
  BY DEF MainOps
<1>2. b = << <<"lock">>, <<"init", c>>, <<"init", c>>, <<"init", c>>, <<"unlock">>, <<"insert", c>> >>
  BY DEF AcceptBody
<1>3. b \in Seq(MainOps)
  BY <1>1, <1>2
<1>4. /\ Len(b) = 6 /\ b[1] = <<"lock">> /\ b[2] = <<"init", c>> /\ b[3] = <<"init", c>>
      /\ b[4] = <<"init", c>> /\ b[5] = <<"unlock">> /\ b[6] = <<"insert", c>>
  BY <1>2
<1> HIDE DEF b
<1>5. \A i \in 1 .. 6 : i = 1 \/ i = 2 \/ i = 3 \/ i = 4 \/ i = 5 \/ i = 6
  OBVIOUS
<1>6. AtEnd("insert", b)
  BY <1>4, <1>5 DEF AtEnd
<1>7. \A i \in 1 .. 6 : b[i] \in {<<"lock">>, <<"unlock">>, <<"init", c>>, <<"insert", c>>}
  BY <1>4, <1>5
<1>8. \A op : Has(b, op) => op \in {<<"lock">>, <<"unlock">>, <<"init", c>>, <<"insert", c>>}
  BY <1>4, <1>7 DEF Has
<1>9. \A d : Has(b, <<"init", d>>) \/ Has(b, <<"insert", d>>) => d = c
  BY <1>8
<1>10. \A d : ~Has(b, <<"remove", d>>)
  BY <1>8
<1>11. b \in Seq(Ops)
  BY <1>3, SeqOfMore DEF Ops
<1> QED  BY <1>3, <1>6, <1>9, <1>10, <1>11 DEF b

\* The body of the reaping branch.
LEMMA ReapBodyOps ==
    ASSUME NEW c \in Conns
    PROVE  /\ ReapBody(c) \in Seq(MainOps) /\ ReapBody(c) \in Seq(Ops)
           /\ AtEnd("insert", ReapBody(c))
           /\ \A d : ~Has(ReapBody(c), <<"init", d>>) /\ ~Has(ReapBody(c), <<"insert", d>>)
           /\ \A d : Has(ReapBody(c), <<"remove", d>>) => d = c
<1> DEFINE S == {<<"lock">>, <<"unlock">>, <<"io">>, <<"remove", c>>}
<1>1. S \subseteq MainOps /\ S \subseteq Ops /\ {<<"lock">>, <<"unlock">>, <<"io">>} \subseteq S
  BY DEF MainOps, Ops
<1>2. << <<"remove", c>> >> \in Seq(S)
  OBVIOUS
<1>3. \A d : /\ <<"init", d>> \notin S /\ <<"insert", d>> \notin S
             /\ <<"remove", d>> \in S => d = c
  OBVIOUS
<1>4. \A op \in S : op[1] # "insert"
  OBVIOUS
<1> HIDE DEF S
<1>5. ReapBody(c) \in Seq(S)
  BY <1>1, <1>2, BodyParts DEF ReapBody
<1> QED  BY <1>1, <1>3, <1>4, <1>5, NoSuchOp, SeqOfMore

\* The batches of a wake-up are for connections.
LEMMA BatchesAreConns ==
    ASSUME out \in Nat, NEW map, map \in [DOMAIN map -> Conns]
    PROVE  \A q \in Batches(map) : q \in Seq(Conns)
<1>1. MaxOut - out \in Int
  BY WiringAssumption
<1>2. \A n \in 1 .. MaxOut - out, id \in DOMAIN map : [i \in 1 .. n |-> map[id]] \in Seq(Conns)
  BY <1>1
<1> TAKE q \in Batches(map)
<1>3. q = <<>> \/ \E id \in DOMAIN map : q \in {[i \in 1 .. n |-> map[id]] : n \in 1 .. MaxOut - out}
  BY DEF Batches
<1>4. CASE q = <<>>
  BY <1>4
<1>5. CASE \E id \in DOMAIN map : q \in {[i \in 1 .. n |-> map[id]] : n \in 1 .. MaxOut - out}
  <2>1. PICK id \in DOMAIN map, n \in 1 .. MaxOut - out : q = [i \in 1 .. n |-> map[id]]
    BY <1>5
  <2> QED  BY <1>2, <2>1
<1> QED  BY <1>3, <1>4, <1>5

\* The branches of the loop.
LEMMA BranchFits ==
    ASSUME WInv, AcceptBranch \/ (\E c \in Conns : ReapBranch(c)) \/ WakeBranch \/ TickBranch
    PROVE  WInv'
<1>1. Fits(todo, handler, peer_to_tx, starts) /\ out \in Nat /\ MapFits(handler, peer_to_tx)
  BY DEF WInv, Fits
<1>2. Main \in Procs
  BY MainApart
<1>3. CASE AcceptBranch
  <2>1. starts # <<>> /\ starts' = <<>> /\ UNCHANGED out
    BY <1>3 DEF AcceptBranch
  <2>2. PICK c \in Conns : starts = <<c>>
    BY <2>1 DEF WInv
  <2>3. Head(starts) = c
    BY <2>2
  <2>4. /\ TaskBecomes(Poll([Task EXCEPT !.todo[Main] = AcceptBody(c)], Main))
        /\ UNCHANGED netVars /\ UNCHANGED conn
    BY <1>3, <2>3 DEF AcceptBranch, Enters, netVars
  <2>5. handler[c] = "none" /\ conn[c] \notin {"listed", "failed", "queued"}
    BY <1>1, <2>2 DEF Fits, StagesFit
  <2>6. <<>> # <<c>>
    OBVIOUS
  <2>7. Fits([todo EXCEPT ![Main] = AcceptBody(c)], handler, peer_to_tx, starts')
    BY <1>1, <1>2, <2>1, <2>5, <2>6, AcceptBodyOps, BodyFits
  <2>8. Is([Task EXCEPT !.todo[Main] = AcceptBody(c)], [todo EXCEPT ![Main] = AcceptBody(c)],
           handler, peer_to_tx)
    BY TaskParts
  <2>9. Fits(todo, handler, peer_to_tx, starts)'
    BY <1>2, <2>4, <2>7, <2>8, PolledFits
  <2> QED  BY <1>1, <2>1, <2>4, <2>9, TaskMoved
<1>4. ASSUME NEW c \in Conns, ReapBranch(c)
      PROVE  WInv'
  <2>1. /\ handler[c] = "exited" /\ UNCHANGED starts /\ UNCHANGED out
        /\ TaskBecomes(Poll([Task EXCEPT !.todo[Main] = ReapBody(c)], Main))
        /\ UNCHANGED netVars /\ UNCHANGED conn
    BY <1>4 DEF ReapBranch, Enters, netVars
  <2>2. Fits([todo EXCEPT ![Main] = ReapBody(c)], handler, peer_to_tx, starts')
    BY <1>1, <1>2, <2>1, ReapBodyOps, BodyFits
  <2>3. Is([Task EXCEPT !.todo[Main] = ReapBody(c)], [todo EXCEPT ![Main] = ReapBody(c)],
           handler, peer_to_tx)
    BY TaskParts
  <2>4. Fits(todo, handler, peer_to_tx, starts)'
    BY <1>2, <2>1, <2>2, <2>3, PolledFits
  <2> QED  BY <1>1, <2>1, <2>4, TaskMoved
<1>5. CASE WakeBranch
  <2> DEFINE map == prune_closed_tx(peer_to_tx)
  <2>1. PICK requests \in Batches(map), answers \in Batches(map) :
          /\ out' = out + Len(requests) + Len(answers)
          /\ Enters([Task EXCEPT !.wake = Tail(@), !.peer_to_tx = map],
                    WakeBody(Head(wake), map, requests, answers))
    BY <1>5 DEF WakeBranch
  <2> DEFINE body == WakeBody(Head(wake), map, requests, answers)
             s == [[Task EXCEPT !.wake = Tail(@), !.peer_to_tx = map] EXCEPT !.todo[Main] = body]
  <2>2. TaskBecomes(Poll(s, Main)) /\ UNCHANGED netVars /\ UNCHANGED conn
    BY <2>1 DEF Enters, netVars
  <2>3. UNCHANGED starts
    BY <1>5 DEF WakeBranch
  <2>4. Fits(todo, handler, map, starts) /\ MapFits(handler, map)
    <3>1. Fits(todo, handler, map, starts)
      BY <1>1, PruneFits
    <3> HIDE DEF map
    <3> QED  BY <3>1 DEF Fits
  <2>5. \A q \in Batches(map) : q \in Seq(Conns) /\ Len(q) \in Nat
    <3> HIDE DEF map
    <3>1. map \in [DOMAIN map -> Conns]
      BY <2>4 DEF MapFits
    <3> QED  BY <1>1, <3>1, BatchesAreConns
  <2>6. out' \in Nat
    BY <1>1, <2>1, <2>5
  <2>7. body \in Seq(PlainOps)
    <3> HIDE DEF map
    <3> QED  BY <2>1, <2>4, <2>5, WakeBodyPlain
  <2>8. Is(s, [todo EXCEPT ![Main] = body], handler, map)
    <3> HIDE DEF map, body
    <3>1. s = [[Task EXCEPT !.wake = Tail(wake), !.peer_to_tx = map] EXCEPT !.todo[Main] = body]
      BY DEF Task
    <3>2. Is([[Task EXCEPT !.wake = Tail(wake), !.peer_to_tx = map] EXCEPT !.todo[Main] = body],
             [todo EXCEPT ![Main] = body], handler, map)
      BY TaskParts
    <3> HIDE DEF s
    <3> QED  BY <3>1, <3>2
  <2> HIDE DEF map, body, s
  <2>9. Fits([todo EXCEPT ![Main] = body], handler, map, starts')
    BY <2>3, <2>4, <2>7, PlainFits
  <2>10. Fits(todo, handler, peer_to_tx, starts)'
    BY <1>2, <2>2, <2>8, <2>9, PolledFits
  <2> QED  BY <2>2, <2>3, <2>6, <2>10, TaskMoved
<1>6. CASE TickBranch
  <2>1. PICK expired \in BOOLEAN : Enters(Task, TickBody(expired))
    <3>1. (Expiry /\ out > 0) \in BOOLEAN
      OBVIOUS
    <3> QED  BY <1>6, <3>1 DEF TickBranch
  <2>2. /\ TaskBecomes(Poll([Task EXCEPT !.todo[Main] = TickBody(expired)], Main))
        /\ UNCHANGED netVars /\ UNCHANGED conn /\ UNCHANGED starts /\ UNCHANGED out
    BY <1>6, <2>1 DEF TickBranch, Enters, netVars
  <2>3. Fits([todo EXCEPT ![Main] = TickBody(expired)], handler, peer_to_tx, starts')
    BY <1>1, <2>2, TickBodyPlain, PlainFits
  <2>4. Is([Task EXCEPT !.todo[Main] = TickBody(expired)], [todo EXCEPT ![Main] = TickBody(expired)],
           handler, peer_to_tx)
    BY TaskParts
  <2>5. Fits(todo, handler, peer_to_tx, starts)'
    BY <1>2, <2>2, <2>3, <2>4, PolledFits
  <2> QED  BY <1>1, <2>2, <2>5, TaskMoved
<1> QED  BY <1>3, <1>4, <1>5, <1>6

\* The first state.
LEMMA InitWInv == Init => WInv
<1> SUFFICES ASSUME Init PROVE WInv
  OBVIOUS
<1>1. /\ todo = [x \in Procs |-> <<>>] /\ handler = [c \in Conns |-> "none"] /\ starts = <<>>
      /\ out = 0 /\ dialled = 0 /\ conn = [c \in Conns |-> "listed"] /\ peer_to_tx = <<>>
  BY DEF Init
<1>2. DialFits
  BY <1>1, WiringAssumption DEF DialFits
<1>3. \A x \in Procs : todo[x] = <<>>
  BY <1>1
<1>4. BodiesFit(todo)
  <2>1. todo \in [Procs -> Seq(Ops)]
    BY <1>1, NothingToDo
  <2>2. todo[Main] = <<>> /\ \A c \in Conns : todo[c] = <<>>
    BY <1>3, MainApart
  <2> QED  BY <2>1, <2>2, NothingToDo DEF BodiesFit
<1>5. \A c \in Conns : handler[c] = "none" /\ starts # <<c>> /\ todo[c] = <<>>
  BY <1>1, <1>3, MainApart
<1>6. StagesFit(todo, handler, starts)
  <2>1. todo[Main] = <<>>
    BY <1>3, MainApart
  <2> QED  BY <1>5, <2>1, NothingToDo DEF StagesFit, Accepting
<1>7. MapFits(handler, peer_to_tx) /\ MapServes(handler, peer_to_tx)
  <2>1. DOMAIN peer_to_tx = {} /\ peer_to_tx \in [{} -> Conns]
    BY <1>1
  <2> QED  BY <1>5, <2>1 DEF MapFits, MapServes
<1>8. handler \in [Conns -> Stages]
  BY <1>1 DEF Stages
<1> QED  BY <1>1, <1>2, <1>4, <1>6, <1>7, <1>8 DEF WInv, Fits

\* Every step keeps the invariant.
LEMMA NextWInv == WInv /\ [Next]_vars => WInv'
<1> SUFFICES ASSUME WInv, [Next]_vars PROVE WInv'
  OBVIOUS
<1>1. CASE Dial \/ \E c \in Conns : ConnStep(c)
  BY <1>1, ConnStepFits
<1>2. CASE \E x \in Procs : Resumes(x)
  BY <1>2, ResumesFits
<1>3. CASE \E c \in Conns : Receives(c) \/ HandlerEnds(c)
  BY <1>3, HandlerFits
<1>4. CASE AcceptBranch \/ (\E c \in Conns : ReapBranch(c)) \/ WakeBranch \/ TickBranch
  BY <1>4, BranchFits
<1>5. CASE UNCHANGED vars
  <2>1. UNCHANGED <<dialled, conn, starts, out, todo, handler, peer_to_tx>>
    BY <1>5 DEF vars, netVars, loopVars
  <2> QED  BY <2>1 DEF WInv, DialFits, Fits, BodiesFit, StagesFit, MapFits, MapServes,
                       Accepting, Has, AtEnd
<1> QED  BY <1>1, <1>2, <1>3, <1>4, <1>5, MainApart DEF Next, HandlerResumes

-----------------------------------------------------------------------------
(* The theorems.                                                           *)

\* The invariant holds in every behaviour of the connections and the loop.
THEOREM WiringInvariant == Spec => []WInv
  BY InitWInv, NextWInv, PTL DEF Spec

\* Once the loop has removed a peer, or failed to accept it, no sender of its
\* connection is left anywhere, however many connections share its id: the tx.recv
\* of run_connection can yield None.
THEOREM ForgottenAlwaysForGood == Spec => []ForgottenForGood
<1>1. WInv => ForgottenForGood
  <2> SUFFICES ASSUME WInv, NEW c \in Conns, handler[c] = "over"
               PROVE  ~HasSender(c)
    BY DEF ForgottenForGood
  <2>1. /\ StagesFit(todo, handler, starts) /\ MapFits(handler, peer_to_tx)
        /\ todo[Main] \in Seq(MainOps)
    BY DEF WInv, Fits, BodiesFit
  <2>2. starts # <<c>> /\ ~Accepting(todo, c)
    BY <2>1 DEF StagesFit
  <2>3. \A id \in DOMAIN peer_to_tx : peer_to_tx[id] # c
    BY <2>1 DEF MapFits
  <2>4. \A i \in DOMAIN todo[Main] : todo[Main][i] # <<"insert", c>>
    BY <2>1, <2>2 DEF Accepting, Has
  <2> QED  BY <2>2, <2>3, <2>4 DEF HasSender
<1> QED  BY <1>1, WiringInvariant, PTL

\* A peer with a handler and a connection can be sent to, unless its id is shared by
\* a connection that took its place or took the entry away.
THEOREM AlwaysServedUnlessShared == Spec => []ServedUnlessShared
<1>1. WInv => ServedUnlessShared
  <2> SUFFICES ASSUME WInv, NEW c \in Conns, handler[c] = "live", conn[c] # "ended",
                      ~Reaches(PeerId[c], c)
               PROVE  \E d \in Conns \ {c} :
                        /\ PeerId[d] = PeerId[c]
                        /\ Reaches(PeerId[d], d) \/ conn[d] = "ended" \/ handler[d] = "over"
    BY DEF ServedUnlessShared
  <2>1. MapFits(handler, peer_to_tx) /\ MapServes(handler, peer_to_tx)
    BY DEF WInv, Fits
  <2>2. CASE PeerId[c] \in DOMAIN peer_to_tx
    <3> DEFINE d == peer_to_tx[PeerId[c]]
    <3>1. d \in Conns /\ PeerId[d] = PeerId[c] /\ d # c
      BY <2>1, <2>2 DEF MapFits, Reaches
    <3>2. Reaches(PeerId[d], d)
      BY <2>2, <3>1 DEF Reaches
    <3> QED  BY <3>1, <3>2
  <2>3. CASE PeerId[c] \notin DOMAIN peer_to_tx
    BY <2>1, <2>3 DEF MapServes
  <2> QED  BY <2>2, <2>3
<1> QED  BY <1>1, WiringInvariant, PTL
-----------------------------------------------------------------------------
(* The loop does not wait for its own handlers while channels have room.   *)

\* No channel to a connection is full, nor, where the tick sends into it, the
\* wake-up channel.
Room ==
    /\ \A c \in Conns : conn[c] = "ended" \/ tx[c] < TxSize
    /\ Expiry => Len(wake) < WakeSize

\* Before the operation at i the lock is held: it is released before it is taken.
HoldsAt(q, i) ==
    \E j \in i .. Len(q) : q[j][1] = "unlock" /\ \A k \in i .. j : q[k][1] # "lock"

\* What is taken is released once; nobody calls the io task or sends a wake-up
\* with the lock, and only the loop sends to a connection without it.
Calm(x, q) ==
    \A i \in 1 .. Len(q) :
        /\ q[i][1] = "lock" => HoldsAt(q, i + 1)
        /\ q[i][1] = "unlock" => ~HoldsAt(q, i + 1)
        /\ q[i][1] \in {"io", "wake"} => ~HoldsAt(q, i)
        /\ q[i][1] = "init" \/ (x # Main /\ q[i][1] = "send") => HoldsAt(q, i)
        /\ x = Main /\ q[i][1] = "wake" => Expiry

\* Where x may be left by a poll.
Resting(x, q) == q = <<>> \/ q[1][1] = "io" \/ (x # Main /\ q[1][1] = "wake")

\* The lock is free whenever the loop and the handlers wait.
LockFree ==
    /\ tx \in [Conns -> Nat] /\ wake \in Seq(Messages) /\ lock = <<>>
    /\ \A x \in Procs : Calm(x, todo[x]) /\ Resting(x, todo[x])

\* The lock is held before the first operation of what is left, or it is not, as
\* before.
LEMMA TailHolds ==
    ASSUME NEW q \in Seq(Ops), q # <<>>
    PROVE  \A i \in Nat \ {0} : HoldsAt(Tail(q), i) <=> HoldsAt(q, i + 1)
<1>1. PICK r \in Seq(Ops), N \in Nat : /\ r = Tail(q) /\ N = Len(r) /\ Len(q) = N + 1
                                      /\ \A i \in 1 .. N : r[i] = q[i + 1]
  <2>1. /\ Tail(q) \in Seq(Ops) /\ Len(Tail(q)) \in Nat /\ Len(q) = Len(Tail(q)) + 1
        /\ \A i \in 1 .. Len(Tail(q)) : Tail(q)[i] = q[i + 1]
    OBVIOUS
  <2> QED  BY <2>1, Zenon
<1> TAKE i \in Nat \ {0}
<1>2. ASSUME HoldsAt(r, i) PROVE HoldsAt(q, i + 1)
  <2>1. PICK j \in i .. N : r[j][1] = "unlock" /\ \A k \in i .. j : r[k][1] # "lock"
    BY <1>1, <1>2 DEF HoldsAt
  <2>2. j + 1 \in i + 1 .. N + 1 /\ q[j + 1][1] = "unlock"
    BY <1>1, <2>1
  <2>3. \A k \in i + 1 .. j + 1 : q[k][1] # "lock"
    <3> TAKE k \in i + 1 .. j + 1
    <3>1. k - 1 \in i .. j /\ k - 1 \in 1 .. N /\ (k - 1) + 1 = k
      BY <2>1
    <3> QED  BY <1>1, <2>1, <3>1
  <2> QED  BY <1>1, <2>2, <2>3 DEF HoldsAt
<1>3. ASSUME HoldsAt(q, i + 1) PROVE HoldsAt(r, i)
  <2>1. PICK j \in i + 1 .. N + 1 : q[j][1] = "unlock" /\ \A k \in i + 1 .. j : q[k][1] # "lock"
    BY <1>1, <1>3 DEF HoldsAt
  <2>2. j - 1 \in i .. N /\ j - 1 \in 1 .. N /\ (j - 1) + 1 = j
    BY <2>1
  <2>3. r[j - 1][1] = "unlock"
    BY <1>1, <2>1, <2>2
  <2>4. \A k \in i .. j - 1 : r[k][1] # "lock"
    <3> TAKE k \in i .. j - 1
    <3>1. k \in 1 .. N /\ k + 1 \in i + 1 .. j
      BY <2>1
    <3> QED  BY <1>1, <2>1, <3>1
  <2> QED  BY <1>1, <2>2, <2>3, <2>4 DEF HoldsAt
<1> QED  BY <1>1, <1>2, <1>3

\* After an operation that neither takes nor releases it the lock is held as before.
LEMMA HoldsNext ==
    ASSUME NEW q \in Seq(Ops), NEW i \in 1 .. Len(q)
    PROVE  /\ q[i][1] = "lock" => ~HoldsAt(q, i)
           /\ q[i][1] = "unlock" => HoldsAt(q, i)
           /\ q[i][1] \notin {"lock", "unlock"} => (HoldsAt(q, i) <=> HoldsAt(q, i + 1))
<1>1. PICK N \in Nat : N = Len(q)
  OBVIOUS
<1>2. q[i][1] = "lock" => ~HoldsAt(q, i)
  BY <1>1 DEF HoldsAt
<1>3. q[i][1] = "unlock" => HoldsAt(q, i)
  <2>1. i \in i .. Len(q) /\ \A k \in i .. i : k = i
    BY <1>1
  <2> QED  BY <2>1 DEF HoldsAt
<1>4. ASSUME q[i][1] \notin {"lock", "unlock"}, HoldsAt(q, i) PROVE HoldsAt(q, i + 1)
  <2>1. PICK j \in i .. N : q[j][1] = "unlock" /\ \A k \in i .. j : q[k][1] # "lock"
    BY <1>1, <1>4 DEF HoldsAt
  <2>2. j # i
    BY <1>4, <2>1
  <2>3. j \in i + 1 .. N /\ \A k \in i + 1 .. j : k \in i .. j
    BY <1>1, <2>1, <2>2
  <2> QED  BY <1>1, <2>1, <2>3 DEF HoldsAt
<1>5. ASSUME q[i][1] \notin {"lock", "unlock"}, HoldsAt(q, i + 1) PROVE HoldsAt(q, i)
  <2>1. PICK j \in i + 1 .. N : q[j][1] = "unlock" /\ \A k \in i + 1 .. j : q[k][1] # "lock"
    BY <1>1, <1>5 DEF HoldsAt
  <2>2. j \in i .. N /\ \A k \in i .. j : k = i \/ k \in i + 1 .. j
    BY <1>1, <2>1
  <2> QED  BY <1>1, <1>5, <2>1, <2>2 DEF HoldsAt
<1> QED  BY <1>2, <1>3, <1>4, <1>5

\* What is left of a calm body is calm.
LEMMA TailCalm ==
    ASSUME NEW x, NEW q \in Seq(Ops), q # <<>>, Calm(x, q)
    PROVE  /\ Calm(x, Tail(q)) /\ Tail(q) \in Seq(Ops) /\ Len(Tail(q)) = Len(q) - 1
           /\ HoldsAt(Tail(q), 1) <=> HoldsAt(q, 2)
<1>1. PICK r \in Seq(Ops), N \in Nat : /\ r = Tail(q) /\ N = Len(r) /\ Len(q) = N + 1
                                      /\ \A i \in 1 .. N : r[i] = q[i + 1]
  <2>1. /\ Tail(q) \in Seq(Ops) /\ Len(Tail(q)) \in Nat /\ Len(q) = Len(Tail(q)) + 1
        /\ \A i \in 1 .. Len(Tail(q)) : Tail(q)[i] = q[i + 1]
    OBVIOUS
  <2> QED  BY <2>1, Zenon
<1>2. \A i \in Nat \ {0} : HoldsAt(r, i) <=> HoldsAt(q, i + 1)
  BY <1>1, TailHolds
<1>3. ASSUME NEW i \in 1 .. N
      PROVE  /\ r[i][1] = "lock" => HoldsAt(r, i + 1)
             /\ r[i][1] = "unlock" => ~HoldsAt(r, i + 1)
             /\ r[i][1] \in {"io", "wake"} => ~HoldsAt(r, i)
             /\ r[i][1] = "init" \/ (x # Main /\ r[i][1] = "send") => HoldsAt(r, i)
             /\ x = Main /\ r[i][1] = "wake" => Expiry
  <2>1. PICK k \in 1 .. Len(q) : k = i + 1 /\ i \in Nat \ {0} /\ k \in Nat \ {0} /\ r[i] = q[k]
    BY <1>1
  <2>2. (HoldsAt(r, i) <=> HoldsAt(q, k)) /\ (HoldsAt(r, i + 1) <=> HoldsAt(q, k + 1))
    BY <1>2, <2>1
  <2>3. /\ q[k][1] = "lock" => HoldsAt(q, k + 1)
        /\ q[k][1] = "unlock" => ~HoldsAt(q, k + 1)
        /\ q[k][1] \in {"io", "wake"} => ~HoldsAt(q, k)
        /\ q[k][1] = "init" \/ (x # Main /\ q[k][1] = "send") => HoldsAt(q, k)
        /\ x = Main /\ q[k][1] = "wake" => Expiry
    BY <2>1 DEF Calm
  <2> QED  BY <2>1, <2>2, <2>3, Zenon
<1>4. Calm(x, r)
  BY <1>1, <1>3 DEF Calm
<1>5. HoldsAt(r, 1) <=> HoldsAt(q, 2)
  <2>1. 1 \in Nat \ {0} /\ 1 + 1 = 2
    OBVIOUS
  <2> QED  BY <1>2, <2>1
<1> QED  BY <1>1, <1>4, <1>5

\* Nobody who rests holds the lock.
LEMMA RestingHoldsNot ==
    ASSUME NEW x, NEW q \in Seq(Ops), Calm(x, q), Resting(x, q)
    PROVE  ~HoldsAt(q, 1)
<1>1. CASE q = <<>>
  BY <1>1 DEF HoldsAt
<1>2. CASE q # <<>>
  <2>1. 1 \in 1 .. Len(q)
    BY <1>2
  <2> QED  BY <1>2, <2>1 DEF Calm, Resting
<1> QED  BY <1>1, <1>2
-----------------------------------------------------------------------------
(* The bodies are calm.                                                    *)

\* A body that takes no lock it does not release, and starts without it.
Closed(x, q) == q \in Seq(Ops) /\ Calm(x, q) /\ ~HoldsAt(q, 1)

\* One body after another.
LEMMA ClosedJoin ==
    ASSUME NEW x, NEW p, NEW q, Closed(x, p), Closed(x, q)
    PROVE  Closed(x, p \o q)
<1>1. PICK M \in Nat, N \in Nat, r \in Seq(Ops) :
        /\ r = p \o q /\ M = Len(p) /\ N = Len(q) /\ Len(r) = M + N
        /\ \A i \in 1 .. M : r[i] = p[i]
        /\ \A i \in 1 .. N : r[M + i] = q[i]
  <2>1. p \in Seq(Ops) /\ q \in Seq(Ops)
    BY DEF Closed
  <2>2. /\ p \o q \in Seq(Ops) /\ Len(p) \in Nat /\ Len(q) \in Nat /\ Len(p \o q) = Len(p) + Len(q)
        /\ \A i \in 1 .. Len(p) : (p \o q)[i] = p[i]
        /\ \A i \in 1 .. Len(q) : (p \o q)[Len(p) + i] = q[i]
    BY <2>1
  <2> QED  BY <2>2, Zenon
<1>2. ASSUME NEW i \in 1 .. M + 1, HoldsAt(p, i) PROVE HoldsAt(r, i)
  <2>1. PICK j \in i .. M : p[j][1] = "unlock" /\ \A k \in i .. j : p[k][1] # "lock"
    BY <1>1, <1>2 DEF HoldsAt
  <2>2. j \in 1 .. M /\ j \in i .. M + N /\ \A k \in i .. j : k \in 1 .. M
    BY <2>1
  <2>3. r[j][1] = "unlock" /\ \A k \in i .. j : r[k][1] # "lock"
    BY <1>1, <2>1, <2>2
  <2> QED  BY <1>1, <2>2, <2>3 DEF HoldsAt
<1>3. ASSUME NEW i \in 1 .. M + 1, HoldsAt(r, i) PROVE HoldsAt(p, i)
  <2>1. PICK j \in i .. M + N : r[j][1] = "unlock" /\ \A k \in i .. j : r[k][1] # "lock"
    BY <1>1, <1>3 DEF HoldsAt
  <2>2. CASE j <= M
    <3>1. j \in i .. M /\ j \in 1 .. M /\ \A k \in i .. j : k \in 1 .. M
      BY <2>1, <2>2
    <3> QED  BY <1>1, <2>1, <3>1 DEF HoldsAt
  <2>3. CASE j > M
    <3>1. j - M \in 1 .. N /\ M + (j - M) = j
      BY <2>1, <2>3
    <3>2. q[j - M][1] = "unlock"
      BY <1>1, <2>1, <3>1
    <3>3. \A k \in 1 .. j - M : q[k][1] # "lock"
      <4> TAKE k \in 1 .. j - M
      <4>1. k \in 1 .. N /\ M + k \in i .. j
        BY <2>1, <2>3
      <4> QED  BY <1>1, <2>1, <4>1
    <3>4. HoldsAt(q, 1)
      BY <1>1, <3>1, <3>2, <3>3 DEF HoldsAt
    <3> QED  BY <3>4 DEF Closed
  <2> QED  BY <2>1, <2>2, <2>3
<1>4. ASSUME NEW i \in 1 .. N + 1, HoldsAt(q, i) PROVE HoldsAt(r, M + i)
  <2>1. PICK j \in i .. N : q[j][1] = "unlock" /\ \A k \in i .. j : q[k][1] # "lock"
    BY <1>1, <1>4 DEF HoldsAt
  <2>2. M + j \in M + i .. M + N /\ j \in 1 .. N
    BY <2>1
  <2>3. \A k \in M + i .. M + j : r[k][1] # "lock"
    <3> TAKE k \in M + i .. M + j
    <3>1. k - M \in i .. j /\ k - M \in 1 .. N /\ M + (k - M) = k
      BY <2>1
    <3> QED  BY <1>1, <2>1, <3>1
  <2> QED  BY <1>1, <2>1, <2>2, <2>3 DEF HoldsAt
<1>5. ASSUME NEW i \in 1 .. N + 1, HoldsAt(r, M + i) PROVE HoldsAt(q, i)
  <2>1. PICK j \in M + i .. M + N : r[j][1] = "unlock" /\ \A k \in M + i .. j : r[k][1] # "lock"
    BY <1>1, <1>5 DEF HoldsAt
  <2>2. j - M \in i .. N /\ j - M \in 1 .. N /\ M + (j - M) = j
    BY <2>1
  <2>3. q[j - M][1] = "unlock"
    BY <1>1, <2>1, <2>2
  <2>4. \A k \in i .. j - M : q[k][1] # "lock"
    <3> TAKE k \in i .. j - M
    <3>1. k \in 1 .. N /\ M + k \in M + i .. j
      BY <2>1
    <3> QED  BY <1>1, <2>1, <3>1
  <2> QED  BY <1>1, <2>2, <2>3, <2>4 DEF HoldsAt
<1>6. ASSUME NEW i \in 1 .. M + N
      PROVE  /\ r[i][1] = "lock" => HoldsAt(r, i + 1)
             /\ r[i][1] = "unlock" => ~HoldsAt(r, i + 1)
             /\ r[i][1] \in {"io", "wake"} => ~HoldsAt(r, i)
             /\ r[i][1] = "init" \/ (x # Main /\ r[i][1] = "send") => HoldsAt(r, i)
             /\ x = Main /\ r[i][1] = "wake" => Expiry
  <2>1. CASE i <= M
    <3>1. i \in 1 .. M /\ i \in 1 .. M + 1 /\ i + 1 \in 1 .. M + 1 /\ r[i] = p[i]
      BY <1>1, <2>1
    <3>2. (HoldsAt(r, i) <=> HoldsAt(p, i)) /\ (HoldsAt(r, i + 1) <=> HoldsAt(p, i + 1))
      BY <1>2, <1>3, <3>1
    <3>3. /\ p[i][1] = "lock" => HoldsAt(p, i + 1)
          /\ p[i][1] = "unlock" => ~HoldsAt(p, i + 1)
          /\ p[i][1] \in {"io", "wake"} => ~HoldsAt(p, i)
          /\ p[i][1] = "init" \/ (x # Main /\ p[i][1] = "send") => HoldsAt(p, i)
          /\ x = Main /\ p[i][1] = "wake" => Expiry
      BY <1>1, <3>1 DEF Closed, Calm
    <3> QED  BY <3>1, <3>2, <3>3, Zenon
  <2>2. CASE i > M
    <3>1. PICK m \in 1 .. N : i = M + m /\ i + 1 = M + (m + 1) /\ m + 1 \in 1 .. N + 1
                              /\ m \in 1 .. N + 1
      <4>1. i - M \in 1 .. N
        BY <2>2
      <4> QED  BY <4>1
    <3>2. (HoldsAt(r, i) <=> HoldsAt(q, m)) /\ (HoldsAt(r, i + 1) <=> HoldsAt(q, m + 1))
      BY <1>4, <1>5, <3>1
    <3>3. /\ q[m][1] = "lock" => HoldsAt(q, m + 1)
          /\ q[m][1] = "unlock" => ~HoldsAt(q, m + 1)
          /\ q[m][1] \in {"io", "wake"} => ~HoldsAt(q, m)
          /\ q[m][1] = "init" \/ (x # Main /\ q[m][1] = "send") => HoldsAt(q, m)
          /\ x = Main /\ q[m][1] = "wake" => Expiry
      BY <1>1, <3>1 DEF Closed, Calm
    <3>4. r[i] = q[m]
      BY <1>1, <3>1
    <3> QED  BY <3>2, <3>3, <3>4, Zenon
  <2> QED  BY <2>1, <2>2
<1>7. Calm(x, r)
  BY <1>1, <1>6 DEF Calm
<1>8. ~HoldsAt(r, 1)
  <2>1. 1 \in 1 .. M + 1
    OBVIOUS
  <2> QED  BY <1>3, <2>1 DEF Closed
<1> QED  BY <1>1, <1>7, <1>8 DEF Closed

\* What runs without the lock throughout.
LEMMA ClosedOpen ==
    ASSUME NEW x, NEW q \in Seq(Ops),
           \A i \in 1 .. Len(q) :
              /\ q[i][1] \notin {"lock", "unlock", "init"}
              /\ q[i][1] = "send" => x = Main
              /\ q[i][1] = "wake" => x # Main \/ Expiry
    PROVE  Closed(x, q)
<1>1. PICK N \in Nat : N = Len(q)
  OBVIOUS
<1>2. \A i \in Nat \ {0} : ~HoldsAt(q, i)
  <2> SUFFICES ASSUME NEW i \in Nat \ {0}, NEW j \in i .. N, q[j][1] = "unlock" PROVE FALSE
    BY <1>1 DEF HoldsAt
  <2>1. j \in 1 .. N
    OBVIOUS
  <2> QED  BY <1>1, <2>1
<1>3. \A i \in 1 .. N : i \in Nat \ {0} /\ i + 1 \in Nat \ {0}
  OBVIOUS
<1>4. Calm(x, q)
  BY <1>1, <1>2, <1>3 DEF Calm
<1> QED  BY <1>2, <1>4 DEF Closed

\* What runs with it.
LEMMA ClosedLocked ==
    ASSUME NEW x, NEW r \in Seq(Ops), NEW n \in Nat, Len(r) = n + 2,
           r[1][1] = "lock", r[n + 2][1] = "unlock",
           \A i \in 2 .. n + 1 : r[i][1] \in {"send", "init", "remove"}
    PROVE  Closed(x, r)
<1>1. \A i \in 1 .. n + 2 : i = 1 \/ i = n + 2 \/ i \in 2 .. n + 1
  OBVIOUS
<1>2. ~HoldsAt(r, 1)
  <2>1. \A j \in 1 .. n + 2 : 1 \in 1 .. j
    OBVIOUS
  <2> QED  BY <2>1 DEF HoldsAt
<1>3. ~HoldsAt(r, n + 3)
  BY DEF HoldsAt
<1>4. ASSUME NEW i \in 2 .. n + 2 PROVE HoldsAt(r, i)
  <2>1. n + 2 \in i .. n + 2
    OBVIOUS
  <2>2. \A k \in i .. n + 2 : k = n + 2 \/ k \in 2 .. n + 1
    OBVIOUS
  <2> QED  BY <2>1, <2>2 DEF HoldsAt
<1>5. ASSUME NEW i \in 1 .. n + 2
      PROVE  /\ r[i][1] = "lock" => HoldsAt(r, i + 1)
             /\ r[i][1] = "unlock" => ~HoldsAt(r, i + 1)
             /\ r[i][1] \in {"io", "wake"} => ~HoldsAt(r, i)
             /\ r[i][1] = "init" \/ (x # Main /\ r[i][1] = "send") => HoldsAt(r, i)
             /\ x = Main /\ r[i][1] = "wake" => Expiry
  <2>1. CASE i = 1
    <3>1. HoldsAt(r, i + 1) /\ r[i][1] = "lock"
      BY <1>4, <2>1
    <3> QED  BY <3>1
  <2>2. CASE i = n + 2
    <3>1. ~HoldsAt(r, i + 1) /\ r[i][1] = "unlock"
      BY <1>3, <2>2
    <3> QED  BY <3>1
  <2>3. CASE i \in 2 .. n + 1
    <3>1. HoldsAt(r, i) /\ r[i][1] \in {"send", "init", "remove"}
      BY <1>4, <2>3
    <3> QED  BY <3>1
  <2> QED  BY <1>1, <2>1, <2>2, <2>3
<1>6. Calm(x, r)
  BY <1>5 DEF Calm
<1> QED  BY <1>2, <1>6 DEF Closed

\* Locked(q), where q sends or removes.
LEMMA LockedClosed ==
    ASSUME NEW x, NEW q \in Seq(Ops),
           \A i \in 1 .. Len(q) : q[i][1] \in {"send", "init", "remove"}
    PROVE  Closed(x, Locked(q))
<1>1. <<"lock">> \in Ops /\ <<"unlock">> \in Ops
  BY DEF Ops, MainOps
<1>2. PICK n \in Nat, r \in Seq(Ops) :
        /\ n = Len(q) /\ r = Locked(q) /\ Len(r) = n + 2
        /\ r[1] = <<"lock">> /\ r[n + 2] = <<"unlock">>
        /\ \A i \in 2 .. n + 1 : r[i] = q[i - 1]
  <2>1. << <<"lock">> >> \in Seq(Ops) /\ << <<"unlock">> >> \in Seq(Ops)
    BY <1>1
  <2>2. PICK a \in Seq(Ops), b \in Seq(Ops) : a = << <<"lock">> >> /\ b = << <<"unlock">> >>
                                              /\ Len(a) = 1 /\ Len(b) = 1 /\ a[1] = <<"lock">> /\ b[1] = <<"unlock">>
    BY <2>1
  <2>3. Locked(q) = (a \o q) \o b
    BY <2>2 DEF Locked
  <2>4. PICK u \in Seq(Ops), n \in Nat : /\ u = a \o q /\ n = Len(q) /\ Len(u) = n + 1 /\ u[1] = <<"lock">>
                               /\ \A i \in 2 .. n + 1 : u[i] = q[i - 1]
    <3>1. PICK n \in Nat, u \in Seq(Ops) :
            /\ n = Len(q) /\ u = a \o q /\ Len(u) = 1 + n
            /\ \A i \in 1 .. 1 + n : u[i] = IF i <= 1 THEN a[i] ELSE q[i - 1]
      <4>1. /\ Len(q) \in Nat /\ a \o q \in Seq(Ops) /\ Len(a \o q) = Len(a) + Len(q)
            /\ \A i \in 1 .. Len(a) + Len(q) : (a \o q)[i] = IF i <= Len(a) THEN a[i] ELSE q[i - Len(a)]
        BY ConcatProperties
      <4> QED  BY <2>2, <4>1
    <3>2. 1 \in 1 .. 1 + n /\ \A i \in 2 .. n + 1 : i \in 1 .. 1 + n /\ ~(i <= 1)
      OBVIOUS
    <3>3. u[1] = <<"lock">> /\ \A i \in 2 .. n + 1 : u[i] = q[i - 1]
      BY <2>2, <3>1, <3>2
    <3>4. Len(u) = n + 1
      BY <3>1
    <3> QED  BY <3>1, <3>3, <3>4
  <2>5. u \o b \in Seq(Ops) /\ Len(u \o b) = n + 2 /\ (u \o b)[1] = <<"lock">>
        /\ (u \o b)[n + 2] = <<"unlock">> /\ \A i \in 2 .. n + 1 : (u \o b)[i] = u[i]
    BY <2>2, <2>4
  <2> QED  BY <2>3, <2>4, <2>5
<1>3. r[1][1] = "lock" /\ r[n + 2][1] = "unlock"
  BY <1>2
<1>4. \A i \in 2 .. n + 1 : r[i][1] \in {"send", "init", "remove"}
  <2> TAKE i \in 2 .. n + 1
  <2>1. i - 1 \in 1 .. n
    OBVIOUS
  <2> QED  BY <1>2, <2>1
<1>5. Closed(x, r)
  BY <1>2, <1>3, <1>4, ClosedLocked
<1> QED  BY <1>2, <1>5

\* The pieces the bodies are put together from.
LEMMA ClosedPieces ==
    ASSUME NEW x
    PROVE  /\ Closed(x, <<>>) /\ Closed(x, << <<"io">> >>) /\ Closed(x, << <<"exit">> >>)
           /\ \A m \in Messages : x # Main \/ Expiry => Closed(x, << <<"wake", m>> >>)
           /\ \A c \in Conns : Closed(x, << <<"insert", c>> >>)
<1>1. \A op \in Ops : << op >> \in Seq(Ops) /\ Len(<< op >>) = 1 /\ << op >>[1] = op
  OBVIOUS
<1>2. \A i \in 1 .. 1 : i = 1
  OBVIOUS
<1>3. ASSUME NEW op \in Ops, op[1] \notin {"lock", "unlock", "init", "send"},
             op[1] = "wake" => x # Main \/ Expiry
      PROVE  Closed(x, << op >>)
  <2>1. PICK q \in Seq(Ops) : q = << op >> /\ Len(q) = 1 /\ q[1] = op
    BY <1>1
  <2>2. \A i \in 1 .. Len(q) : q[i] = op
    BY <1>2, <2>1
  <2>3. Closed(x, q)
    BY <1>3, <2>2, ClosedOpen
  <2> QED  BY <2>1, <2>3
<1>4. Closed(x, <<>>)
  <2>1. <<>> \in Seq(Ops) /\ \A i \in 1 .. Len(<<>>) : FALSE
    OBVIOUS
  <2> QED  BY <2>1, ClosedOpen
<1>5. /\ <<"io">> \in Ops /\ <<"exit">> \in Ops
      /\ \A m \in Messages : <<"wake", m>> \in Ops
      /\ \A c \in Conns : <<"insert", c>> \in Ops
  BY DEF Ops, MainOps
<1>6. /\ <<"io">>[1] = "io" /\ <<"exit">>[1] = "exit"
      /\ \A m : <<"wake", m>>[1] = "wake" /\ <<"insert", m>>[1] = "insert"
  OBVIOUS
<1>7. Closed(x, << <<"io">> >>)
  BY <1>3, <1>5, <1>6
<1>8. Closed(x, << <<"exit">> >>)
  BY <1>3, <1>5, <1>6
<1>9. \A m \in Messages : x # Main \/ Expiry => Closed(x, << <<"wake", m>> >>)
  BY <1>3, <1>5, <1>6
<1>10. \A c \in Conns : Closed(x, << <<"insert", c>> >>)
  BY <1>3, <1>5, <1>6
<1> QED  BY <1>4, <1>7, <1>8, <1>9, <1>10

\* Bodies are put together in any order.
Associate(p, q, r) == (p \o q) \o r = p \o (q \o r)

\* ... of the three.
LEMMA OpsAssociate == \A p, q, r \in Seq(Ops) : Associate(p, q, r)
  BY ConcatAssociative DEF Associate

\* What a handler does with a message.
LEMMA HandlerBodiesClosed ==
    ASSUME NEW c \in Conns, NEW body \in HandlerBodies(c)
    PROVE  Closed(c, body)
<1>1. c # Main
  BY MainApart
<1>2. << <<"send", c>> >> \in Seq(Ops) /\ \A i \in 1 .. Len(<< <<"send", c>> >>) : << <<"send", c>> >>[i][1] = "send"
  <2>1. <<"send", c>> \in Ops
    BY DEF Ops, MainOps
  <2>2. \A i \in 1 .. 1 : i = 1
    OBVIOUS
  <2> QED  BY <2>1, <2>2
<1>3. <<>> \in Seq(Ops) /\ \A i \in 1 .. Len(<<>>) : FALSE
  OBVIOUS
<1>4. Closed(c, Locked(<<>>)) /\ Closed(c, Locked(<< <<"send", c>> >>))
  <2>1. Closed(c, Locked(<<>>))
    BY <1>3, LockedClosed
  <2>2. PICK z \in Seq(Ops) : z = << <<"send", c>> >> /\ \A i \in 1 .. Len(z) : z[i][1] = "send"
    BY <1>2
  <2>3. Closed(c, Locked(z))
    BY <2>2, LockedClosed
  <2> QED  BY <2>1, <2>2, <2>3
<1>5. PICK l \in Seq(Ops), u \in Seq(Ops), i \in Seq(Ops), z \in Seq(Ops) :
        /\ l = << <<"lock">> >> /\ u = << <<"unlock">> >> /\ i = << <<"io">> >>
        /\ z = << <<"send", c>> >>
  <2>1. <<"lock">> \in Ops /\ <<"unlock">> \in Ops /\ <<"io">> \in Ops
    BY DEF Ops, MainOps
  <2>2. << <<"lock">> >> \in Seq(Ops) /\ << <<"unlock">> >> \in Seq(Ops) /\ << <<"io">> >> \in Seq(Ops)
    BY <2>1
  <2> QED  BY <1>2, <2>2, Zenon
<1>6. Locked(<<>>) = l \o u /\ Locked(z) = (l \o z) \o u
  BY <1>5, ConcatEmptySeq DEF Locked
<1>7. Closed(c, i) /\ Closed(c, << <<"exit">> >>) /\ Closed(c, <<>>)
      /\ \A m \in Messages : Closed(c, << <<"wake", m>> >>)
  BY <1>1, <1>5, ClosedPieces
<1>8. /\ << <<"lock">>, <<"send", c>> >> = l \o z /\ << <<"io">>, <<"lock">> >> = i \o l
      /\ << <<"lock">>, <<"unlock">> >> = l \o u
      /\ << <<"io">>, <<"exit">> >> = << <<"io">> >> \o << <<"exit">> >>
  BY <1>5
<1>9. ASSUME NEW m \in Messages
      PROVE  /\ l \o unlock_and_send(m) = Locked(<<>>) \o << <<"wake", m>> >>
             /\ (l \o z) \o unlock_and_send(m) = Locked(z) \o << <<"wake", m>> >>
             /\ (i \o l) \o unlock_and_send(m) = i \o (Locked(<<>>) \o << <<"wake", m>> >>)
  <2>1. PICK w \in Seq(Ops) : w = << <<"wake", m>> >>
    BY <1>7 DEF Closed
  <2>2. unlock_and_send(m) = u \o w
    BY <1>5, <2>1 DEF unlock_and_send
  <2>3. l \o z \in Seq(Ops) /\ l \o u \in Seq(Ops) /\ u \o w \in Seq(Ops)
    BY ConcatProperties
  <2>4. /\ l \o (u \o w) = (l \o u) \o w
        /\ (l \o z) \o (u \o w) = ((l \o z) \o u) \o w
        /\ (i \o l) \o (u \o w) = i \o (l \o (u \o w))
    <3>1. Associate(l, u, w) /\ Associate(l \o z, u, w) /\ Associate(i, l, u \o w)
      BY <2>3, OpsAssociate, Zenon
    <3> QED  BY <3>1, Zenon DEF Associate
  <2> QED  BY <1>6, <2>1, <2>2, <2>4, Zenon
<1>12. \A m \in Messages : Closed(c, Locked(<<>>) \o << <<"wake", m>> >>)
                           /\ Closed(c, Locked(z) \o << <<"wake", m>> >>)
                           /\ Closed(c, i \o (Locked(<<>>) \o << <<"wake", m>> >>))
  BY <1>4, <1>5, <1>7, ClosedJoin
<1>13. Closed(c, << <<"io">> >> \o << <<"exit">> >>)
  BY <1>5, <1>7, ClosedJoin
<1>14. "Wakeup" \in Messages /\ "PieceComplete" \in Messages /\ "PeerRequestedPiece" \in Messages
  BY DEF Messages
<1> DEFINE a(m) == << <<"lock">> >> \o unlock_and_send(m)
           b(m) == << <<"lock">>, <<"send", c>> >> \o unlock_and_send(m)
           d(m) == << <<"io">>, <<"lock">> >> \o unlock_and_send(m)
           e == << <<"io">>, <<"exit">> >>
           f == << <<"lock">>, <<"unlock">> >>
<1>15. \A m \in Messages : Closed(c, a(m)) /\ Closed(c, b(m)) /\ Closed(c, d(m))
  BY <1>5, <1>8, <1>9, <1>12, Zenon
<1>16. Closed(c, e) /\ Closed(c, f)
  BY <1>4, <1>6, <1>8, <1>13, Zenon
<1>17. body \in {<<>>, a("Wakeup"), b("Wakeup"), f, a("PeerRequestedPiece"), d("Wakeup"), d("PieceComplete"), e}
  BY DEF HandlerBodies
<1> HIDE DEF a, b, d, e, f
<1> QED  BY <1>7, <1>14, <1>15, <1>16, <1>17

\* Sending to connections, without the lock and with it.
LEMMA SendsClosed ==
    ASSUME NEW s \in Seq(Conns)
    PROVE  Closed(Main, Sends(s)) /\ Closed(Main, Locked(Sends(s)))
<1>1. PICK q \in Seq(Ops), n \in Nat : q = Sends(s) /\ n = Len(q) /\ \A i \in 1 .. n : q[i][1] = "send"
  <2>1. PICK n \in Nat : n = Len(s) /\ DOMAIN s = 1 .. n
    OBVIOUS
  <2>2. Sends(s) \in Seq(Ops)
    BY SendsPlain, SeqOfMore, KindsApart
  <2>3. Sends(s) = [i \in 1 .. n |-> <<"send", s[i]>>]
    BY <2>1 DEF Sends
  <2>4. Len(Sends(s)) = n /\ \A i \in 1 .. n : Sends(s)[i][1] = "send"
    BY <2>2, <2>3
  <2> QED  BY <2>2, <2>4
<1>2. Closed(Main, q)
  BY <1>1, ClosedOpen
<1>3. Closed(Main, Locked(q))
  BY <1>1, LockedClosed
<1> QED  BY <1>1, <1>2, <1>3

\* The body of the wake-up branch.
LEMMA WakeBodyClosed ==
    ASSUME NEW stage, NEW map, MapFits(stage, map), NEW msg,
           NEW requests \in Seq(Conns), NEW answers \in Seq(Conns)
    PROVE  Closed(Main, WakeBody(msg, map, requests, answers))
<1> DEFINE a == CASE msg = "PieceComplete" -> Sends(Receivers(map))
                  [] msg = "PeerRequestedPiece" -> Locked(<<>>)
                  [] OTHER -> <<>>
           b == IF answers = <<>> THEN <<>> ELSE << <<"io">> >> \o Sends(answers)
           d == Locked(Sends(requests))
           e == Locked(<<>>)
<1>1. Closed(Main, <<>>) /\ Closed(Main, << <<"io">> >>)
  BY ClosedPieces
<1>2. Closed(Main, Locked(<<>>))
  <2>1. <<>> \in Seq(Ops) /\ \A i \in 1 .. Len(<<>>) : FALSE
    OBVIOUS
  <2> QED  BY <2>1, LockedClosed
<1>3. Receivers(map) \in Seq(Conns)
  BY ReceiversAreConns
<1>4. /\ Closed(Main, Sends(Receivers(map))) /\ Closed(Main, Sends(answers))
      /\ Closed(Main, Locked(Sends(requests)))
  BY <1>3, SendsClosed
<1>5. Closed(Main, << <<"io">> >> \o Sends(answers))
  BY <1>1, <1>4, ClosedJoin
<1>6. Closed(Main, a) /\ Closed(Main, b) /\ Closed(Main, d) /\ Closed(Main, e)
  BY <1>1, <1>2, <1>4, <1>5
<1>7. WakeBody(msg, map, requests, answers) = ((a \o d) \o e) \o b
  BY DEF WakeBody
<1> HIDE DEF a, b, d, e
<1>8. Closed(Main, a \o d)
  BY <1>6, ClosedJoin
<1>9. Closed(Main, (a \o d) \o e)
  BY <1>6, <1>8, ClosedJoin
<1>10. Closed(Main, ((a \o d) \o e) \o b)
  BY <1>6, <1>9, ClosedJoin
<1> QED  BY <1>7, <1>10

\* The body of the tick: it sends a wake-up only where requests expire.
LEMMA TickBodyClosed ==
    ASSUME NEW expired \in BOOLEAN, expired => Expiry
    PROVE  Closed(Main, TickBody(expired))
<1>1. <<>> \in Seq(Ops) /\ \A i \in 1 .. Len(<<>>) : FALSE
  OBVIOUS
<1>2. Closed(Main, Locked(<<>>))
  BY <1>1, LockedClosed
<1>3. PICK l \in Seq(Ops), u \in Seq(Ops), k \in Seq(Ops) :
        l = << <<"lock">> >> /\ u = << <<"unlock">> >> /\ k = Locked(<<>>)
  <2>1. <<"lock">> \in Ops /\ <<"unlock">> \in Ops
    BY DEF Ops, MainOps
  <2>2. << <<"lock">> >> \in Seq(Ops) /\ << <<"unlock">> >> \in Seq(Ops)
    BY <2>1
  <2> QED  BY <1>2, <2>2, Zenon DEF Closed
<1>4. k = l \o u
  BY <1>3, ConcatEmptySeq DEF Locked
<1>5. Closed(Main, k \o k)
  BY <1>2, <1>3, ClosedJoin
<1>6. CASE ~expired
  <2>1. TickBody(expired) = (k \o l) \o u
    BY <1>3, <1>6 DEF TickBody
  <2>2. Associate(k, l, u)
    BY OpsAssociate, Zenon
  <2> QED  BY <1>4, <1>5, <2>1, <2>2, Zenon DEF Associate
<1>7. CASE expired
  <2>1. "Wakeup" \in Messages
    BY DEF Messages
  <2>2. PICK w \in Seq(Ops) : w = << <<"wake", "Wakeup">> >> /\ Closed(Main, w)
    BY <1>7, <2>1, ClosedPieces DEF Closed
  <2>3. unlock_and_send("Wakeup") = u \o w
    BY <1>3, <2>2 DEF unlock_and_send
  <2>4. TickBody(expired) = (k \o l) \o (u \o w)
    BY <1>3, <1>7, <2>3 DEF TickBody
  <2>5. k \o l \in Seq(Ops)
    BY ConcatProperties
  <2>6. Associate(k \o l, u, w) /\ Associate(k, l, u)
    BY <2>5, OpsAssociate, Zenon
  <2>7. TickBody(expired) = (k \o k) \o w
    BY <1>4, <2>4, <2>6, Zenon DEF Associate
  <2>8. Closed(Main, (k \o k) \o w)
    BY <1>5, <2>2, ClosedJoin
  <2> QED  BY <2>7, <2>8
<1> QED  BY <1>6, <1>7

\* The body of the accepting branch.
LEMMA AcceptBodyClosed == ASSUME NEW c \in Conns PROVE Closed(Main, AcceptBody(c))
<1>1. PICK r \in Seq(Ops) :
        /\ r = << <<"lock">>, <<"init", c>>, <<"init", c>>, <<"init", c>>, <<"unlock">> >>
        /\ Len(r) = 5 /\ r[1][1] = "lock" /\ r[5][1] = "unlock"
        /\ r[2][1] = "init" /\ r[3][1] = "init" /\ r[4][1] = "init"
  <2>1. <<"lock">> \in Ops /\ <<"unlock">> \in Ops /\ <<"init", c>> \in Ops
    BY DEF Ops, MainOps
  <2> DEFINE b == << <<"lock">>, <<"init", c>>, <<"init", c>>, <<"init", c>>, <<"unlock">> >>
  <2>2. b \in Seq(Ops)
    BY <2>1
  <2>3. /\ Len(b) = 5 /\ b[1][1] = "lock" /\ b[5][1] = "unlock"
        /\ b[2][1] = "init" /\ b[3][1] = "init" /\ b[4][1] = "init"
    OBVIOUS
  <2> QED  BY <2>2, <2>3, Zenon
<1>2. \A i \in 2 .. 3 + 1 : i = 2 \/ i = 3 \/ i = 4
  OBVIOUS
<1>3. 3 \in Nat /\ 3 + 2 = 5
  OBVIOUS
<1>4. \A i \in 2 .. 3 + 1 : r[i][1] \in {"send", "init", "remove"}
  BY <1>1, <1>2
<1>5. Closed(Main, r)
  BY <1>1, <1>3, <1>4, ClosedLocked
<1>6. Closed(Main, << <<"insert", c>> >>)
  BY ClosedPieces
<1>7. AcceptBody(c) = r \o << <<"insert", c>> >>
  BY <1>1 DEF AcceptBody
<1> QED  BY <1>5, <1>6, <1>7, ClosedJoin

\* The body of the reaping branch.
LEMMA ReapBodyClosed == ASSUME NEW c \in Conns PROVE Closed(Main, ReapBody(c))
<1>1. <<"remove", c>> \in Ops
  BY DEF Ops, MainOps
<1>2. PICK q \in Seq(Ops) : q = << <<"remove", c>> >> /\ \A i \in 1 .. Len(q) : q[i][1] = "remove"
  <2>1. \A i \in 1 .. 1 : i = 1
    OBVIOUS
  <2> DEFINE b == << <<"remove", c>> >>
  <2>2. b \in Seq(Ops) /\ Len(b) = 1 /\ b[1][1] = "remove"
    BY <1>1
  <2>3. \A i \in 1 .. Len(b) : b[i][1] = "remove"
    BY <2>1, <2>2
  <2> HIDE DEF b
  <2>4. b = << <<"remove", c>> >>
    BY DEF b
  <2> QED  BY <2>2, <2>3, <2>4, Zenon
<1>3. Closed(Main, Locked(q))
  BY <1>2, LockedClosed
<1> QED  BY <1>2, <1>3 DEF ReapBody
-----------------------------------------------------------------------------
(* One operation, and the lock and the channels.                           *)

\* The parts of a state of the task that Outcome leaves out.
Channels(r, todos, lk, wk, txs) ==
    Shaped(r) /\ r.todo = todos /\ r.lock = lk /\ r.wake = wk /\ r.tx = txs

\* What an operation of x does to them.
Effect(s, x, r) ==
    LET op == Op(s, x)
        rest == [s.todo EXCEPT ![x] = Tail(@)]
        none == [s.todo EXCEPT ![x] = <<>>]
    IN  \/ /\ ~Passes(s, x)
           /\ op[1] # "lock" => r = s
           /\ \E lk : Channels(r, s.todo, lk, s.wake, s.tx)
        \/ /\ Passes(s, x) /\ op[1] = "lock"
           /\ Channels(r, rest, IF s.lock = <<>> THEN <<x>> ELSE s.lock, s.wake, s.tx)
        \/ /\ op[1] = "unlock"
           /\ Channels(r, rest, Tail(s.lock), s.wake, s.tx)
        \/ /\ Passes(s, x) /\ op[1] = "wake"
           /\ Channels(r, rest, s.lock, Append(s.wake, op[2]), s.tx)
        \/ /\ op[1] \in {"exit", "insert", "remove"}
           /\ Channels(r, rest, s.lock, s.wake, s.tx)
        \/ /\ op[1] \in {"send", "init"} /\ conn[op[2]] # "ended"
           /\ Channels(r, rest, s.lock, s.wake, [s.tx EXCEPT ![op[2]] = @ + 1])
        \/ /\ op[1] = "send" /\ x = Main
           /\ Channels(r, rest, s.lock, s.wake, s.tx)
        \/ /\ op[1] = "init" \/ (x # Main /\ op[1] = "send")
           /\ Channels(r, none, Tail(s.lock), s.wake, s.tx)

\* Operates has one of these effects.
LEMMA OperatesEffect ==
    ASSUME NEW s, Shaped(s), NEW x, s.todo[x] # <<>>,
           Op(s, x)[1] \in {"lock", "unlock", "io", "wake", "send", "init", "insert", "remove", "exit"}
    PROVE  Effect(s, x, Operates(s, x))
<1> DEFINE op == Op(s, x)
           t == [s EXCEPT !.todo[x] = Tail(@)]
           rest == [s.todo EXCEPT ![x] = Tail(@)]
           none == [s.todo EXCEPT ![x] = <<>>]
<1>1. Channels(t, rest, s.lock, s.wake, s.tx)
  BY DEF Shaped, Channels
<1>2. \A e : Channels([t EXCEPT !.lock = e], rest, e, s.wake, s.tx)
  <2> HIDE DEF t, rest
  <2> QED  BY <1>1 DEF Shaped, Channels
<1>3. \A e : Channels([t EXCEPT !.wake = e], rest, s.lock, e, s.tx)
  <2> HIDE DEF t, rest
  <2> QED  BY <1>1 DEF Shaped, Channels
<1>9. \A e : Channels([s EXCEPT !.lock = e], s.todo, e, s.wake, s.tx)
  BY DEF Shaped, Channels
<1>10. Channels(s, s.todo, s.lock, s.wake, s.tx)
  BY DEF Channels
<1>11. CASE ~Passes(s, x)
  <2>1. Operates(s, x) = Waits(s, x)
    BY <1>11 DEF Operates
  <2>2. \E lk : Channels(Waits(s, x), s.todo, lk, s.wake, s.tx)
    BY <1>9, <1>10 DEF Waits
  <2>3. op[1] # "lock" => Waits(s, x) = s
    BY DEF Waits
  <2> QED  BY <1>11, <2>1, <2>2, <2>3 DEF Effect
<1>12. CASE Passes(s, x)
  <2>1. Operates(s, x) = Exec(s, x) /\ op[1] # "io"
    BY <1>12 DEF Operates, Passes
  <2>2. CASE op[1] = "lock"
    <3>1. Operates(s, x) = [t EXCEPT !.lock = IF @ = <<>> THEN <<x>> ELSE @]
      BY <2>1, <2>2 DEF Exec
    <3>2. Operates(s, x) = [t EXCEPT !.lock = IF s.lock = <<>> THEN <<x>> ELSE s.lock]
      BY <1>1, <3>1 DEF Channels
    <3>3. Channels(Operates(s, x), rest, IF s.lock = <<>> THEN <<x>> ELSE s.lock, s.wake, s.tx)
      BY <1>2, <3>2
    <3> QED  BY <1>12, <2>2, <3>3 DEF Effect
  <2>3. CASE op[1] = "unlock"
    <3>1. Operates(s, x) = [t EXCEPT !.lock = Tail(s.lock)]
      BY <1>1, <2>1, <2>3 DEF Exec, Channels
    <3> QED  BY <1>2, <2>3, <3>1 DEF Effect
  <2>4. CASE op[1] = "wake"
    <3>1. Operates(s, x) = [t EXCEPT !.wake = Append(s.wake, op[2])]
      BY <1>1, <2>1, <2>4 DEF Exec, Channels
    <3> QED  BY <1>3, <1>12, <2>4, <3>1 DEF Effect
  <2>5. CASE op[1] = "exit"
    <3>1. Operates(s, x) = [t EXCEPT !.handler[x] = "exited"]
      BY <2>1, <2>5 DEF Exec
    <3>2. Channels(Operates(s, x), rest, s.lock, s.wake, s.tx)
      BY <3>1 DEF Shaped, Channels
    <3> HIDE DEF t
    <3> QED  BY <2>5, <3>2 DEF Effect
  <2>6. CASE op[1] = "insert"
    <3>1. Operates(s, x) = InsertPeer(t, op[2])
      BY <2>1, <2>6 DEF Exec
    <3>2. Channels(Operates(s, x), rest, s.lock, s.wake, s.tx)
      <4> HIDE DEF t, rest
      <4> QED  BY <1>1, <3>1 DEF Shaped, Channels, InsertPeer
    <3> HIDE DEF t
    <3> QED  BY <2>6, <3>2 DEF Effect
  <2>7. CASE op[1] = "remove"
    <3>1. Operates(s, x) = RemovePeer(t, op[2])
      BY <2>1, <2>7 DEF Exec
    <3>2. Channels(Operates(s, x), rest, s.lock, s.wake, s.tx)
      <4> HIDE DEF t, rest
      <4> QED  BY <1>1, <3>1 DEF Shaped, Channels, RemovePeer
    <3> HIDE DEF t
    <3> QED  BY <2>7, <3>2 DEF Effect
  <2>8. CASE op[1] \in {"send", "init"}
    <3>1. CASE conn[op[2]] # "ended"
      <4>1. Operates(s, x) = [t EXCEPT !.tx[op[2]] = @ + 1]
        BY <2>1, <2>8, <3>1 DEF Exec
      <4>2. Channels(Operates(s, x), rest, s.lock, s.wake, [s.tx EXCEPT ![op[2]] = @ + 1])
        BY <4>1 DEF Shaped, Channels
      <4> HIDE DEF t
      <4> QED  BY <2>8, <3>1, <4>2 DEF Effect
    <3>2. CASE conn[op[2]] = "ended"
      <4>1. Operates(s, x) = SendFails(s, x)
        BY <2>1, <2>8, <3>2 DEF Exec
      <4>2. CASE x = Main /\ op[1] = "send"
        BY <1>1, <4>1, <4>2 DEF SendFails, Effect
      <4>3. CASE x = Main /\ op[1] = "init"
        <5>1. Operates(s, x) = [s EXCEPT !.todo[x] = <<>>, !.lock = Tail(@), !.handler[op[2]] = "over"]
          BY <4>1, <4>3 DEF SendFails
        <5>2. Channels(Operates(s, x), none, Tail(s.lock), s.wake, s.tx)
          BY <5>1 DEF Shaped, Channels
        <5> QED  BY <4>3, <5>2 DEF Effect
      <4>4. CASE x # Main
        <5>1. Operates(s, x) = [s EXCEPT !.todo[x] = <<>>, !.lock = Tail(@), !.handler[op[2]] = "exited"]
          BY <4>1, <4>4 DEF SendFails
        <5>2. Channels(Operates(s, x), none, Tail(s.lock), s.wake, s.tx)
          BY <5>1 DEF Shaped, Channels
        <5> QED  BY <2>8, <4>4, <5>2 DEF Effect
      <4> QED  BY <2>8, <4>2, <4>3, <4>4
    <3> QED  BY <3>1, <3>2
  <2> QED  BY <2>1, <2>2, <2>3, <2>4, <2>5, <2>6, <2>7, <2>8
<1> QED  BY <1>11, <1>12

\* The types of the channels, and room in them.
TypedTask(t) ==
    /\ Shaped(t) /\ t.todo \in [Procs -> Seq(Ops)]
    /\ t.tx \in [Conns -> Nat] /\ t.wake \in Seq(Messages)
RoomyTask(t) ==
    /\ \A c \in Conns : conn[c] = "ended" \/ t.tx[c] < TxSize
    /\ Expiry => Len(t.wake) < WakeSize

\* While x is polled the lock is taken by x or by nobody, and all others rest.
Poised(t, x) ==
    /\ \A y \in Procs : Calm(y, t.todo[y]) /\ (y # x => Resting(y, t.todo[y]))
    /\ t.lock = IF HoldsAt(t.todo[x], 1) THEN <<x>> ELSE <<>>

\* x has no more than k operations left, or has to wait where it may.
Stopped(t, x) == t.todo[x] # <<>> /\ Resting(x, t.todo[x]) /\ ~Passes(t, x)
Near(t, x, k) == Len(t.todo[x]) <= k \/ Stopped(t, x)

\* The operations of everyone.
LEMMA KindsOfOps ==
    ASSUME NEW op \in Ops
    PROVE  /\ op[1] \in {"lock", "unlock", "io", "wake", "send", "init", "insert", "remove", "exit"}
           /\ op[1] \in {"send", "init"} => op[2] \in Conns
           /\ op[1] = "wake" => op[2] \in Messages
  BY DEF Ops, MainOps

\* An operation puts into the channels and takes nothing out.
LEMMA OperatesTyped ==
    ASSUME NEW s, TypedTask(s), NEW x \in Procs
    PROVE  TypedTask(Operates(s, x)) /\ (RoomyTask(Operates(s, x)) => RoomyTask(s))
<1> DEFINE r == Operates(s, x)
           op == Op(s, x)
           rest == [s.todo EXCEPT ![x] = Tail(@)]
           none == [s.todo EXCEPT ![x] = <<>>]
<1>1. /\ Shaped(s) /\ s.todo \in [Procs -> Seq(Ops)]
      /\ s.tx \in [Conns -> Nat] /\ s.wake \in Seq(Messages)
  BY DEF TypedTask
<1>2. CASE s.todo[x] = <<>>
  BY <1>2 DEF Operates
<1>3. CASE s.todo[x] # <<>>
  <2>1. s.todo[x] \in Seq(Ops) /\ op \in Ops
    BY <1>1, <1>3 DEF Op
  <2>2. /\ op[1] \in {"lock", "unlock", "io", "wake", "send", "init", "insert", "remove", "exit"}
        /\ op[1] \in {"send", "init"} => op[2] \in Conns
        /\ op[1] = "wake" => op[2] \in Messages
    BY <2>1, KindsOfOps
  <2>3. Effect(s, x, r)
    BY <1>1, <1>3, <2>2, OperatesEffect
  <2>4. rest \in [Procs -> Seq(Ops)] /\ none \in [Procs -> Seq(Ops)]
    BY <1>1, <1>3
  <2> HIDE DEF r, op, rest, none
  <2>5. ASSUME NEW lk, NEW todos \in [Procs -> Seq(Ops)], Channels(r, todos, lk, s.wake, s.tx)
        PROVE  TypedTask(r) /\ (RoomyTask(r) => RoomyTask(s))
    BY <1>1, <2>5 DEF Channels, TypedTask, RoomyTask
  <2>6. CASE op[1] = "wake" /\ Channels(r, rest, s.lock, Append(s.wake, op[2]), s.tx)
    <3>1. /\ Append(s.wake, op[2]) \in Seq(Messages) /\ Len(Append(s.wake, op[2])) = Len(s.wake) + 1
          /\ Len(s.wake) \in Nat /\ WakeSize \in Nat
      BY <1>1, <2>2, <2>6, WiringAssumption
    <3>2. TypedTask(r)
      BY <1>1, <2>4, <2>6, <3>1 DEF Channels, TypedTask
    <3>3. Len(s.wake) + 1 < WakeSize => Len(s.wake) < WakeSize
      BY <3>1
    <3>4. RoomyTask(r) => RoomyTask(s)
      BY <2>6, <3>1, <3>3 DEF Channels, RoomyTask
    <3> QED  BY <3>2, <3>4 DEF r
  <2>7. CASE /\ op[1] \in {"send", "init"}
             /\ Channels(r, rest, s.lock, s.wake, [s.tx EXCEPT ![op[2]] = @ + 1])
    <3> DEFINE more == [s.tx EXCEPT ![op[2]] = @ + 1]
    <3>1. more \in [Conns -> Nat] /\ \A c \in Conns : s.tx[c] <= more[c]
      BY <1>1, <2>2, <2>7
    <3>2. r.tx = more /\ r.wake = s.wake /\ r.todo = rest /\ Shaped(r)
      BY <2>7 DEF Channels
    <3> HIDE DEF more
    <3>3. TypedTask(r)
      BY <1>1, <2>4, <3>1, <3>2 DEF TypedTask
    <3>4. TxSize \in Nat /\ \A c \in Conns : s.tx[c] \in Nat /\ more[c] \in Nat
      BY <1>1, <3>1, WiringAssumption
    <3>5. \A c \in Conns : more[c] < TxSize => s.tx[c] < TxSize
      BY <3>1, <3>4
    <3>6. RoomyTask(r) => RoomyTask(s)
      BY <3>2, <3>5 DEF RoomyTask
    <3> QED  BY <3>3, <3>6 DEF r
  <2> QED  BY <1>1, <2>3, <2>4, <2>5, <2>6, <2>7 DEF Effect, r, op, rest, none
<1> QED  BY <1>2, <1>3

\* After an operation x is as before, with less to do.
LEMMA RestPoised ==
    ASSUME NEW s, TypedTask(s), NEW x \in Procs, Poised(s, x), s.todo[x] # <<>>, NEW r, NEW q,
           r.todo = [s.todo EXCEPT ![x] = q], q \in Seq(Ops), Calm(x, q),
           r.lock = IF HoldsAt(q, 1) THEN <<x>> ELSE <<>>
    PROVE  Poised(r, x)
<1>1. r.todo[x] = q /\ \A y \in Procs : y # x => r.todo[y] = s.todo[y]
  BY DEF TypedTask
<1>2. \A y \in Procs : Calm(y, r.todo[y]) /\ (y # x => Resting(y, r.todo[y]))
  BY <1>1 DEF Poised
<1>3. r.lock = IF HoldsAt(r.todo[x], 1) THEN <<x>> ELSE <<>>
  BY <1>1
<1> QED  BY <1>2, <1>3 DEF Poised

\* With room, an operation that does not pass is one x may wait at.
LEMMA OperatesPoised ==
    ASSUME NEW s, TypedTask(s), NEW x \in Procs, Poised(s, x), RoomyTask(s), NEW k \in Int, Near(s, x, k)
    PROVE  Poised(Operates(s, x), x) /\ (Near(Operates(s, x), x, k - 1) \/ Operates(s, x).todo[x] = <<>>)
<1> DEFINE r == Operates(s, x)
           op == Op(s, x)
           q == s.todo[x]
           rest == [s.todo EXCEPT ![x] = Tail(@)]
           none == [s.todo EXCEPT ![x] = <<>>]
<1>1. /\ Shaped(s) /\ s.todo \in [Procs -> Seq(Ops)] /\ q \in Seq(Ops)
      /\ s.tx \in [Conns -> Nat] /\ s.wake \in Seq(Messages)
  BY DEF TypedTask
<1>2. CASE q = <<>>
  <2>1. r = s
    BY <1>2 DEF Operates
  <2> QED  BY <1>2, <2>1
<1>3. CASE q # <<>>
  <2>1. op = q[1] /\ op \in Ops /\ 1 \in 1 .. Len(q) /\ 1 + 1 = 2
    BY <1>1, <1>3 DEF Op
  <2>2. /\ op[1] \in {"lock", "unlock", "io", "wake", "send", "init", "insert", "remove", "exit"}
        /\ op[1] \in {"send", "init"} => op[2] \in Conns
        /\ op[1] = "wake" => op[2] \in Messages
    BY <2>1, KindsOfOps
  <2>3. Effect(s, x, r)
    BY <1>1, <1>3, <2>2, OperatesEffect
  <2>4. Calm(x, q) /\ s.lock = IF HoldsAt(q, 1) THEN <<x>> ELSE <<>>
    BY DEF Poised
  <2> HIDE DEF q
  <2>5. /\ Calm(x, Tail(q)) /\ Tail(q) \in Seq(Ops) /\ Len(Tail(q)) = Len(q) - 1
        /\ HoldsAt(Tail(q), 1) <=> HoldsAt(q, 2)
    BY <1>1, <1>3, <2>4, TailCalm
  <2>6. /\ op[1] = "lock" => ~HoldsAt(q, 1)
        /\ op[1] = "unlock" => HoldsAt(q, 1)
        /\ op[1] \notin {"lock", "unlock"} => (HoldsAt(q, 1) <=> HoldsAt(q, 2))
    BY <1>1, <2>1, HoldsNext
  <2>7. /\ op[1] = "lock" => HoldsAt(q, 2)
        /\ op[1] = "unlock" => ~HoldsAt(q, 2)
        /\ op[1] \in {"io", "wake"} => ~HoldsAt(q, 1)
        /\ op[1] = "init" \/ (x # Main /\ op[1] = "send") => HoldsAt(q, 1)
        /\ x = Main /\ op[1] = "wake" => Expiry
    BY <2>1, <2>4 DEF Calm
  <2>8. ~Passes(s, x) => op[1] = "io" \/ (op[1] = "wake" /\ x # Main)
    <3>1. op[1] = "lock" => Head(Append(s.lock, x)) = x
      BY <2>4, <2>6
    <3>2. op[1] = "wake" /\ x = Main => Len(s.wake) < WakeSize
      BY <2>7 DEF RoomyTask
    <3>3. op[1] \in {"send", "init"} => conn[op[2]] = "ended" \/ s.tx[op[2]] < TxSize
      BY <2>2 DEF RoomyTask
    <3> QED  BY <2>2, <3>1, <3>2, <3>3 DEF Passes
  <2>9. CASE ~Passes(s, x)
    <3>1. r = s
      BY <2>2, <2>3, <2>8, <2>9 DEF Effect, Operates, Waits
    <3>2. Resting(x, q)
      BY <1>3, <2>1, <2>8, <2>9 DEF Resting
    <3>3. Stopped(s, x)
      BY <1>3, <2>9, <3>2 DEF Stopped, q
    <3> QED  BY <3>1, <3>3 DEF Near
  <2>10. CASE Passes(s, x)
    <3>0. ~Stopped(s, x) /\ Len(q) <= k /\ Len(q) \in Nat
      BY <1>1, <2>10 DEF Near, Stopped, q
    <3>1. ASSUME NEW lk, NEW wk, NEW txs, Channels(r, rest, lk, wk, txs),
                 lk = IF HoldsAt(q, 2) THEN <<x>> ELSE <<>>
          PROVE  Poised(r, x) /\ Near(r, x, k - 1)
      <4>1. r.todo = [s.todo EXCEPT ![x] = Tail(q)] /\ r.lock = lk
        BY <3>1 DEF Channels, q
      <4>2. r.todo[x] = Tail(q)
        BY <1>1, <4>1
      <4>3. lk = IF HoldsAt(Tail(q), 1) THEN <<x>> ELSE <<>>
        BY <2>5, <3>1
      <4> HIDE DEF r
      <4>4. Poised(r, x)
        BY <1>3, <2>5, <4>1, <4>3, RestPoised DEF q
      <4>5. Len(r.todo[x]) <= k - 1
        BY <2>5, <3>0, <4>2
      <4> QED  BY <4>4, <4>5 DEF Near
    <3>2. ASSUME NEW wk, NEW txs, Channels(r, none, <<>>, wk, txs)
          PROVE  Poised(r, x) /\ r.todo[x] = <<>>
      <4>1. r.todo = [s.todo EXCEPT ![x] = <<>>] /\ r.lock = <<>>
        BY <3>2 DEF Channels
      <4>2. r.todo[x] = <<>>
        BY <1>1, <4>1
      <4>3. <<>> \in Seq(Ops) /\ Calm(x, <<>>) /\ ~HoldsAt(<<>>, 1)
        BY ClosedPieces DEF Closed
      <4> HIDE DEF r
      <4>4. Poised(r, x)
        BY <1>3, <4>1, <4>3, RestPoised DEF q
      <4> QED  BY <4>2, <4>4
    <3> HIDE DEF r, op, rest, none
    <3>3. CASE op[1] = "lock"
      <4>1. Channels(r, rest, <<x>>, s.wake, s.tx)
        BY <2>3, <2>4, <2>6, <2>10, <3>3 DEF Effect, op, rest
      <4> QED  BY <2>7, <3>1, <3>3, <4>1 DEF r
    <3>4. CASE op[1] = "unlock"
      <4>1. Channels(r, rest, Tail(s.lock), s.wake, s.tx) /\ Tail(s.lock) = <<>>
        BY <2>3, <2>4, <2>6, <2>10, <3>4 DEF Effect, op, rest
      <4> QED  BY <2>7, <3>1, <3>4, <4>1 DEF r
    <3>5. CASE op[1] \notin {"lock", "unlock"}
      <4>1. s.lock = IF HoldsAt(q, 2) THEN <<x>> ELSE <<>>
        BY <2>4, <2>6, <3>5
      <4>2. CASE \E wk, txs : Channels(r, rest, s.lock, wk, txs)
        BY <3>1, <4>1, <4>2 DEF r
      <4>3. CASE /\ op[1] = "init" \/ (x # Main /\ op[1] = "send")
                 /\ Channels(r, none, Tail(s.lock), s.wake, s.tx)
        <5>1. Tail(s.lock) = <<>>
          BY <2>4, <2>7, <4>3
        <5> QED  BY <3>2, <4>3, <5>1 DEF r
      <4> QED  BY <2>3, <2>10, <3>5, <4>2, <4>3 DEF Effect, op, rest, none
    <3> QED  BY <3>3, <3>4, <3>5 DEF r
  <2> QED  BY <2>9, <2>10
<1> QED  BY <1>2, <1>3

\* A poll that leaves room ends with nobody at the lock.
LEMMA PollRests ==
    ASSUME NEW s, TypedTask(s), NEW x \in Procs, Poised(s, x)
    PROVE  \A t \in Poll(s, x) :
              TypedTask(t) /\ (RoomyTask(t) => Poised(t, x) /\ Resting(x, t.todo[x]))
<1>1. PICK N \in Nat : N = Len(s.todo[x])
  <2>1. s.todo[x] \in Seq(Ops)
    BY DEF TypedTask
  <2> QED  BY <2>1
<1>2. PICK after : PollRuns(after, s, x, N)
  BY <1>1, PollUnfolded
<1> DEFINE G(t, n) == TypedTask(t) /\ (RoomyTask(t) => Poised(t, x) /\ Near(t, x, N - n))
           S == {n \in Nat : n <= N => \A t \in after[n] : G(t, n)}
<1>3. 0 \in S
  <2>1. N - 0 = N /\ Near(s, x, N)
    BY <1>1 DEF Near
  <2> QED  BY <1>2, <2>1 DEF PollRuns
<1>4. ASSUME NEW n \in Nat, n \in S
      PROVE  n + 1 \in S
  <2> SUFFICES ASSUME n + 1 <= N, NEW t \in after[n + 1]
               PROVE  G(t, n + 1)
    BY <1>4
  <2>1. n + 1 \in 1 .. N /\ (n + 1) - 1 = n /\ n <= N /\ N - n \in Int /\ (N - n) - 1 = N - (n + 1)
        /\ 0 <= N - (n + 1)
    BY <1>4
  <2>2. PICK u \in after[n] : t = Operates(u, x)
    BY <1>2, <2>1 DEF Later, PollRuns
  <2>3. G(u, n)
    BY <1>4, <2>1, <2>2
  <2>4. TypedTask(t) /\ (RoomyTask(t) => RoomyTask(u))
    BY <2>2, <2>3, OperatesTyped
  <2>5. ASSUME RoomyTask(t) PROVE Poised(t, x) /\ Near(t, x, N - (n + 1))
    <3>1. Poised(u, x) /\ Near(u, x, N - n) /\ TypedTask(u) /\ RoomyTask(u)
      BY <2>3, <2>4, <2>5
    <3>2. Poised(t, x) /\ (Near(t, x, (N - n) - 1) \/ t.todo[x] = <<>>)
      BY <2>1, <2>2, <3>1, OperatesPoised
    <3>3. t.todo[x] = <<>> => Near(t, x, N - (n + 1))
      BY <2>1 DEF Near
    <3> QED  BY <2>1, <3>2, <3>3
  <2> QED  BY <2>4, <2>5
<1> HIDE DEF S
<1>5. N \in S
  BY <1>3, <1>4, Induction
<1> TAKE t \in Poll(s, x)
<1>6. TypedTask(t) /\ (RoomyTask(t) => Poised(t, x) /\ Near(t, x, N - N))
  BY <1>2, <1>5 DEF S, PollRuns
<1>7. ASSUME Near(t, x, N - N) PROVE Resting(x, t.todo[x])
  <2>1. CASE Stopped(t, x)
    BY <2>1 DEF Stopped
  <2>2. CASE Len(t.todo[x]) <= N - N
    <3>1. t.todo[x] \in Seq(Ops)
      BY <1>6 DEF TypedTask
    <3>2. t.todo[x] = <<>>
      BY <2>2, <3>1
    <3> QED  BY <3>2 DEF Resting
  <2> QED  BY <1>7, <2>1, <2>2 DEF Near
<1> QED  BY <1>6, <1>7

\* So does one that starts with the lock free and a body that is closed.
LEMMA PolledRests ==
    ASSUME NEW s, TypedTask(s), NEW x \in Procs, s.lock = <<>>,
           \A y \in Procs : y # x => Calm(y, s.todo[y]) /\ Resting(y, s.todo[y]),
           Closed(x, s.todo[x]),
           TaskBecomes(Poll(s, x)), UNCHANGED conn, Room'
    PROVE  LockFree'
<1>1. Poised(s, x)
  BY DEF Poised, Closed
<1>2. PICK t \in Poll(s, x) : /\ todo' = t.todo /\ lock' = t.lock /\ wake' = t.wake /\ tx' = t.tx
  BY DEF TaskBecomes
<1>3. TypedTask(t) /\ (RoomyTask(t) => Poised(t, x) /\ Resting(x, t.todo[x]))
  BY <1>1, PollRests
<1>4. RoomyTask(t)
  BY <1>2 DEF Room, RoomyTask
<1>5. \A y \in Procs : Calm(y, t.todo[y]) /\ Resting(y, t.todo[y])
  BY <1>3, <1>4 DEF Poised
<1>6. t.lock = <<>>
  <2>1. t.todo[x] \in Seq(Ops)
    BY <1>3 DEF TypedTask
  <2>2. ~HoldsAt(t.todo[x], 1)
    BY <1>5, <2>1, RestingHoldsNot
  <2> QED  BY <1>3, <1>4, <2>2 DEF Poised
<1>7. /\ tx' \in [Conns -> Nat] /\ wake' \in Seq(Messages) /\ lock' = <<>>
      /\ \A y \in Procs : Calm(y, todo'[y]) /\ Resting(y, todo'[y])
  BY <1>2, <1>3, <1>5, <1>6 DEF TypedTask
<1> QED  BY <1>7 DEF LockFree, Calm, Resting, HoldsAt

\* The task as it is, with another body for x.
LEMMA TaskTyped ==
    ASSUME WInv, LockFree, NEW x \in Procs, NEW body \in Seq(Ops)
    PROVE  /\ TypedTask(Task) /\ Task.todo = todo /\ Task.lock = <<>>
           /\ TypedTask([Task EXCEPT !.todo[x] = body])
           /\ [Task EXCEPT !.todo[x] = body].todo = [todo EXCEPT ![x] = body]
           /\ [Task EXCEPT !.todo[x] = body].lock = <<>>
<1>1. todo \in [Procs -> Seq(Ops)] /\ tx \in [Conns -> Nat] /\ wake \in Seq(Messages) /\ lock = <<>>
  BY DEF WInv, Fits, BodiesFit, LockFree
<1>2. [todo EXCEPT ![x] = body] \in [Procs -> Seq(Ops)]
  BY <1>1
<1>3. TypedTask(Task) /\ Task.todo = todo /\ Task.lock = <<>>
  BY <1>1 DEF Task, TypedTask, Shaped
<1>4. /\ TypedTask([Task EXCEPT !.todo[x] = body])
      /\ [Task EXCEPT !.todo[x] = body].todo = [todo EXCEPT ![x] = body]
      /\ [Task EXCEPT !.todo[x] = body].lock = <<>>
  BY <1>1, <1>2 DEF Task, TypedTask, Shaped
<1> QED  BY <1>3, <1>4

\* ... and with another map, when a wake-up has been taken.
Woken(w, map, body) == [[Task EXCEPT !.wake = w, !.peer_to_tx = map] EXCEPT !.todo[Main] = body]

\* It has the types as well.
LEMMA WokenTyped ==
    ASSUME WInv, LockFree, NEW body \in Seq(Ops), NEW map, NEW w \in Seq(Messages)
    PROVE  /\ TypedTask(Woken(w, map, body))
           /\ Woken(w, map, body).todo = [todo EXCEPT ![Main] = body]
           /\ Woken(w, map, body).lock = <<>>
<1>1. todo \in [Procs -> Seq(Ops)] /\ tx \in [Conns -> Nat] /\ lock = <<>>
  BY DEF WInv, Fits, BodiesFit, LockFree
<1>2. [todo EXCEPT ![Main] = body] \in [Procs -> Seq(Ops)]
  BY <1>1
<1> QED  BY <1>1, <1>2 DEF Woken, Task, TypedTask, Shaped

\* x enters a closed body, or goes on in one.
LEMMA EntersRests ==
    ASSUME WInv, LockFree, NEW x \in Procs, NEW body, Closed(x, body), NEW s, TypedTask(s),
           s.todo = [todo EXCEPT ![x] = body], s.lock = <<>>,
           TaskBecomes(Poll(s, x)), UNCHANGED conn, Room'
    PROVE  LockFree'
<1>1. todo \in [Procs -> Seq(Ops)]
  BY DEF WInv, Fits, BodiesFit
<1>2. s.todo[x] = body /\ \A y \in Procs : y # x => s.todo[y] = todo[y]
  BY <1>1
<1>3. \A y \in Procs : y # x => Calm(y, s.todo[y]) /\ Resting(y, s.todo[y])
  BY <1>2 DEF LockFree
<1>4. Closed(x, s.todo[x])
  BY <1>2
<1> QED  BY <1>3, <1>4, PolledRests

\* x goes on.
LEMMA ResumesRests ==
    ASSUME WInv, LockFree, NEW x \in Procs, Resumes(x), Room'
    PROVE  LockFree'
<1>1. /\ todo[x] # <<>> /\ todo \in [Procs -> Seq(Ops)] /\ todo[x] \in Seq(Ops)
      /\ UNCHANGED conn /\ wake \in Seq(Messages)
  BY DEF Resumes, netVars, WInv, Fits, BodiesFit, LockFree
<1>2. PICK q \in Seq(Ops) : q = todo[x]
  BY <1>1
<1>3. Calm(x, q) /\ Resting(x, q) /\ ~HoldsAt(q, 1)
  BY <1>2, RestingHoldsNot DEF LockFree
<1>4. CASE Op(Task, x) = <<"io">>
  <2>1. /\ Calm(x, Tail(q)) /\ Tail(q) \in Seq(Ops)
        /\ HoldsAt(Tail(q), 1) <=> HoldsAt(q, 2)
    BY <1>1, <1>2, <1>3, TailCalm
  <2>2. q[1] = <<"io">> /\ 1 \in 1 .. Len(q) /\ 1 + 1 = 2
    BY <1>1, <1>2, <1>4 DEF Op, Task
  <2>3. q[1][1] \notin {"lock", "unlock"}
    BY <2>2
  <2>4. HoldsAt(q, 1) <=> HoldsAt(q, 2)
    BY <2>2, <2>3, HoldsNext
  <2>5. Closed(x, Tail(q))
    BY <1>3, <2>1, <2>4 DEF Closed
  <2>6. TaskBecomes(Poll([Task EXCEPT !.todo[x] = Tail(@)], x))
    BY <1>4 DEF Resumes
  <2>7. [Task EXCEPT !.todo[x] = Tail(@)] = [Task EXCEPT !.todo[x] = Tail(q)]
    BY <1>2 DEF Task
  <2>8. PICK s : s = [Task EXCEPT !.todo[x] = Tail(q)]
    OBVIOUS
  <2>9. TypedTask(s) /\ s.todo = [todo EXCEPT ![x] = Tail(q)] /\ s.lock = <<>>
    BY <1>1, <2>1, <2>8, TaskTyped
  <2>10. TaskBecomes(Poll(s, x))
    BY <2>6, <2>7, <2>8
  <2> QED  BY <1>1, <2>5, <2>9, <2>10, EntersRests
<1>5. CASE Op(Task, x) # <<"io">>
  <2>1. TaskBecomes(Poll(Task, x))
    BY <1>5 DEF Resumes
  <2>2. TypedTask(Task) /\ Task.todo = todo /\ Task.lock = <<>>
    BY <1>1, TaskTyped
  <2>3. Closed(x, q)
    BY <1>3 DEF Closed
  <2>4. todo = [todo EXCEPT ![x] = q]
    BY <1>1, <1>2
  <2> QED  BY <1>1, <2>1, <2>2, <2>3, <2>4, EntersRests
<1> QED  BY <1>4, <1>5

\* A handler receives a message.
LEMMA ReceivesRests ==
    ASSUME WInv, LockFree, NEW c \in Conns, Receives(c), Room'
    PROVE  LockFree'
<1>1. PICK body \in HandlerBodies(c) : TaskBecomes(Poll([Task EXCEPT !.todo[c] = body], c))
  BY DEF Receives
<1>2. c \in Procs /\ UNCHANGED conn /\ wake \in Seq(Messages)
  BY MainApart DEF Receives, netVars, LockFree
<1>3. Closed(c, body) /\ body \in Seq(Ops)
  BY HandlerBodiesClosed DEF Closed
<1>4. PICK s : s = [Task EXCEPT !.todo[c] = body]
  OBVIOUS
<1>5. TypedTask(s) /\ s.todo = [todo EXCEPT ![c] = body] /\ s.lock = <<>>
  BY <1>2, <1>3, <1>4, TaskTyped
<1>6. TaskBecomes(Poll(s, c))
  BY <1>1, <1>4
<1> QED  BY <1>2, <1>3, <1>5, <1>6, EntersRests

\* A branch of the loop.
LEMMA BranchRests ==
    ASSUME WInv, LockFree, Room',
           AcceptBranch \/ (\E c \in Conns : ReapBranch(c)) \/ WakeBranch \/ TickBranch
    PROVE  LockFree'
<1>1. Main \in Procs /\ wake \in Seq(Messages)
  BY MainApart DEF LockFree
<1>2. ASSUME NEW body, Closed(Main, body), Enters(Task, body)
      PROVE  LockFree'
  <2>1. body \in Seq(Ops)
    BY <1>2 DEF Closed
  <2>2. PICK s : s = [Task EXCEPT !.todo[Main] = body]
    OBVIOUS
  <2>3. TypedTask(s) /\ s.todo = [todo EXCEPT ![Main] = body] /\ s.lock = <<>>
    BY <1>1, <2>1, <2>2, TaskTyped
  <2>4. TaskBecomes(Poll(s, Main)) /\ UNCHANGED conn
    BY <1>2, <2>2 DEF Enters, netVars
  <2> QED  BY <1>1, <1>2, <2>3, <2>4, EntersRests
<1>3. CASE AcceptBranch
  <2>1. PICK c \in Conns : starts = <<c>>
    BY <1>3 DEF AcceptBranch, WInv
  <2>2. Enters(Task, AcceptBody(c))
    BY <1>3, <2>1 DEF AcceptBranch
  <2> QED  BY <1>2, <2>2, AcceptBodyClosed
<1>4. ASSUME NEW c \in Conns, ReapBranch(c)
      PROVE  LockFree'
  <2>1. Enters(Task, ReapBody(c))
    BY <1>4 DEF ReapBranch
  <2> QED  BY <1>2, <2>1, ReapBodyClosed
<1>5. CASE TickBranch
  <2>1. PICK expired \in BOOLEAN : (expired => Expiry) /\ Enters(Task, TickBody(expired))
    <3>1. (Expiry /\ out > 0) \in BOOLEAN /\ (Expiry /\ out > 0 => Expiry)
      OBVIOUS
    <3> QED  BY <1>5, <3>1 DEF TickBranch
  <2> QED  BY <1>2, <2>1, TickBodyClosed
<1>6. CASE WakeBranch
  <2> DEFINE map == prune_closed_tx(peer_to_tx)
  <2>1. PICK requests \in Batches(map), answers \in Batches(map) :
          Enters([Task EXCEPT !.wake = Tail(@), !.peer_to_tx = map],
                 WakeBody(Head(wake), map, requests, answers))
    BY <1>6 DEF WakeBranch
  <2> DEFINE body == WakeBody(Head(wake), map, requests, answers)
  <2>2. MapFits(handler, map) /\ out \in Nat
    <3>1. Fits(todo, handler, map, starts)
      BY PruneFits DEF WInv
    <3> HIDE DEF map
    <3> QED  BY <3>1 DEF Fits, WInv
  <2>3. PICK w \in Seq(Messages) : w = Tail(wake)
    <3>1. wake # <<>>
      BY <1>6 DEF WakeBranch
    <3>2. Tail(wake) \in Seq(Messages)
      BY <1>1, <3>1
    <3> QED  BY <3>2
  <2>4. PICK s : s = Woken(w, map, body)
    OBVIOUS
  <2>5. TaskBecomes(Poll(s, Main)) /\ UNCHANGED conn
    <3>1. Task.wake = wake
      BY DEF Task
    <3> HIDE DEF map, body
    <3>2. [Task EXCEPT !.wake = Tail(@), !.peer_to_tx = map] = [Task EXCEPT !.wake = w, !.peer_to_tx = map]
      BY <2>3, <3>1
    <3> QED  BY <2>1, <2>4, <3>2 DEF Enters, netVars, body, Woken
  <2> HIDE DEF map
  <2>6. requests \in Seq(Conns) /\ answers \in Seq(Conns)
    BY <2>1, <2>2, BatchesAreConns DEF MapFits
  <2>7. Closed(Main, body) /\ body \in Seq(Ops)
    BY <2>2, <2>6, WakeBodyClosed DEF Closed
  <2> HIDE DEF body
  <2>8. TypedTask(s) /\ s.todo = [todo EXCEPT ![Main] = body] /\ s.lock = <<>>
    BY <2>4, <2>7, WokenTyped
  <2> QED  BY <1>1, <2>5, <2>7, <2>8, EntersRests
<1> QED  BY <1>3, <1>4, <1>5, <1>6

\* A step of a connection takes from its channel.
LEMMA ConnStepRests ==
    ASSUME WInv, LockFree, Dial \/ \E c \in Conns : ConnStep(c) \/ HandlerEnds(c)
    PROVE  LockFree'
<1>1. UNCHANGED <<todo, lock, wake>>
  BY DEF Dial, ConnStep, Start, TakesMessage, Writes, ReadsMessage, Forwards, Breaks, HandlerEnds, loopVars
<1>2. tx \in [Conns -> Nat]
  BY DEF LockFree
<1>3. tx' \in [Conns -> Nat]
  BY <1>2 DEF Dial, ConnStep, Start, TakesMessage, Writes, ReadsMessage, Forwards, Breaks, HandlerEnds
<1>4. \A x \in Procs : Calm(x, todo[x]) /\ Resting(x, todo[x])
  BY DEF LockFree
<1>5. \A x \in Procs : Calm(x, todo'[x]) /\ Resting(x, todo'[x])
  BY <1>1, <1>4
<1>6. wake' \in Seq(Messages) /\ lock' = <<>>
  BY <1>1 DEF LockFree
<1> QED  BY <1>3, <1>5, <1>6 DEF LockFree, Calm, Resting, HoldsAt

\* At first nobody has anything to do.
LEMMA InitRests == Init => LockFree
<1> SUFFICES ASSUME Init PROVE LockFree
  OBVIOUS
<1>1. tx = [c \in Conns |-> 0] /\ wake = <<>> /\ lock = <<>> /\ todo = [x \in Procs |-> <<>>]
  BY DEF Init
<1>2. tx \in [Conns -> Nat] /\ wake \in Seq(Messages)
  BY <1>1
<1>3. \A x \in Procs : todo[x] = <<>>
  BY <1>1
<1>4. \A x \in Procs : Calm(x, <<>>) /\ Resting(x, <<>>)
  BY ClosedPieces DEF Closed, Resting
<1> QED  BY <1>1, <1>2, <1>3, <1>4 DEF LockFree

\* Every step that leaves room leaves the lock free.
LEMMA NextRests == WInv /\ LockFree /\ Room' /\ [Next]_vars => LockFree'
<1> SUFFICES ASSUME WInv, LockFree, Room', [Next]_vars PROVE LockFree'
  OBVIOUS
<1>1. CASE Dial \/ \E c \in Conns : ConnStep(c) \/ HandlerEnds(c)
  BY <1>1, ConnStepRests
<1>2. CASE \E x \in Procs : Resumes(x)
  BY <1>2, ResumesRests
<1>3. CASE \E c \in Conns : Receives(c)
  BY <1>3, ReceivesRests
<1>4. CASE AcceptBranch \/ (\E c \in Conns : ReapBranch(c)) \/ WakeBranch \/ TickBranch
  BY <1>4, BranchRests
<1>5. CASE UNCHANGED vars
  <2>1. UNCHANGED <<todo, lock, wake, tx>>
    BY <1>5 DEF vars, loopVars
  <2>2. tx' \in [Conns -> Nat] /\ wake' \in Seq(Messages) /\ lock' = <<>>
    BY <2>1 DEF LockFree
  <2>3. \A x \in Procs : Calm(x, todo[x]) /\ Resting(x, todo[x])
    BY DEF LockFree
  <2>4. \A x \in Procs : Calm(x, todo'[x]) /\ Resting(x, todo'[x])
    BY <2>1, <2>3
  <2> QED  BY <2>2, <2>4 DEF LockFree, Calm, Resting, HoldsAt
<1> QED  BY <1>1, <1>2, <1>3, <1>4, <1>5, MainApart DEF Next, HandlerResumes

\* As long as the channels to the peers have room, and the wake-up channel where
\* requests expire, nobody keeps the torrent lock over a wait.
THEOREM LockFreeWithRoom == Spec /\ []Room => []LockFree
  BY InitRests, NextRests, WiringInvariant, PTL DEF Spec

\* ... and then the loop comes to wait inside a branch for the io task only, never
\* for a handler that it does not poll meanwhile: the lock-up needs a full channel.
THEOREM LoopReturnsWithRoom == Spec /\ []Room => []LoopCanReturn
<1>1. WInv /\ LockFree => LoopCanReturn
  <2> SUFFICES ASSUME WInv, LockFree, todo[Main] # <<>>
               PROVE  Op(Task, Main) = <<"io">>
    BY DEF LoopCanReturn
  <2>1. todo[Main] \in Seq(MainOps) /\ Resting(Main, todo[Main])
    BY MainApart DEF WInv, Fits, BodiesFit, LockFree
  <2>2. todo[Main][1][1] = "io" /\ todo[Main][1] \in MainOps
    BY <2>1 DEF Resting
  <2>3. todo[Main][1] = <<"io">>
    BY <2>2 DEF MainOps
  <2> QED  BY <2>1, <2>3 DEF Op, Task
<1> QED  BY <1>1, LockFreeWithRoom, WiringInvariant, PTL
=============================================================================

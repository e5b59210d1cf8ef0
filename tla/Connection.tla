----------------------------- MODULE Connection -----------------------------
(***************************************************************************)
(* Reading from a peer: Connection::read_msg (peer/net.rs) with the two    *)
(* decoders and the encoders of peer/protocol.rs and the bit field of      *)
(* peer/bitfield.rs.  The peer sends its handshake and messages as a       *)
(* stream of bytes, which arrives cut anywhere.                            *)
(*                                                                         *)
(* A message is the tuple of its kind and its fields; a BitField's is the  *)
(* set of pieces it names.  What the peer sends need not be a message of   *)
(* ours: it may have another id, or one of ours and a body of the wrong    *)
(* length, from which the decoder may not find back to the next message.   *)
(***************************************************************************)
EXTENDS Integers, Sequences, FiniteSets, SequencesExt

CONSTANTS
    PstrLen,    \* HANDSHAKE_PROTOCOL_ID.len(), 19
    IdLen,      \* the 20 bytes of an info hash or a peer id
    Hello,      \* the peer's handshake: <<"Handshake", info_hash, peer_id>>
    Alphabet,   \* the messages the peer may send after it
    TotalPieces,    \* the torrent's pieces
    MaxSent     \* bound: messages the peer sends after its handshake

Bytes == 0 .. 255

VARIABLES
    sent,       \* what the peer has sent so far
    wire,       \* the bytes of it still to arrive
    closed,     \* has the peer closed the connection, perhaps within a message?
    buffer,     \* Connection.buffer
    needs,      \* the local of read_msg
    at,         \* "decode", "read" (stream.read_buf), or how reading has ended
    got         \* what read_msg has returned

connVars == <<sent, wire, closed, buffer, needs, at, got>>

-----------------------------------------------------------------------------
(* bitfield.rs                                                             *)

\* MASK.shr(bit_pos)
Mask(n) == <<128, 64, 32, 16, 8, 4, 2, 1>>[(n % 8) + 1]

\* What put_bit adds to the last byte for the bit of piece n.
put_bit(bits, length, n) == IF n \in bits /\ n < length THEN Mask(n) ELSE 0

\* put_bit for each of 0 .. length - 1: a byte is added at every eighth.
put_bit_set(bits, length) ==
    [k \in 1 .. (length + 7) \div 8 |->
        LET bit(i) == put_bit(bits, length, 8 * (k - 1) + i)
        IN  bit(0) + bit(1) + bit(2) + bit(3) + bit(4) + bit(5) + bit(6) + bit(7)]

get_bit(bytes, n) == (bytes[n \div 8 + 1] \div Mask(n)) % 2 = 1

\* BitFieldReaderIter, which ends with the bytes, enumerated and filtered.
BitsIn(bytes) == {n \in 0 .. 8 * Len(bytes) - 1 : get_bit(bytes, n)}

-----------------------------------------------------------------------------
(* protocol.rs                                                             *)

put_u32(n) == <<n \div (256 * 256 * 256), (n \div (256 * 256)) % 256, (n \div 256) % 256, n % 256>>

\* try_get_u32, of the bytes from position k on.
get_u32(b, k) == 256 * (256 * (256 * b[k] + b[k + 1]) + b[k + 2]) + b[k + 3]

\* A length, an id, and what follows them.
Frame(id, body) == put_u32(1 + Len(body)) \o <<id>> \o body

FlagId == [Choke |-> 0, Unchoke |-> 1, Interested |-> 2, NotInterested |-> 3]

\* Encode for Handshake, of the info hash and the peer id.
encode_handshake(info_hash, peer_id) ==
    <<PstrLen>> \o [i \in 1 .. PstrLen |-> 66] \o [i \in 1 .. 8 |-> 0] \o info_hash \o peer_id

\* Encode for Messages.  A message of another kind ("Other") is what newer clients
\* send; a "Malformed" one has an id of ours and a body that id does not have.
encode_msg(m) ==
    CASE m[1] = "Handshake" -> encode_handshake(m[2], m[3])
      [] m[1] = "KeepAlive" -> put_u32(0)
      [] m[1] = "Flag" -> Frame(FlagId[m[2]], <<>>)
      [] m[1] = "Have" -> Frame(4, put_u32(m[2]))
      [] m[1] = "BitField" -> Frame(5, put_bit_set(m[2], TotalPieces))
      [] m[1] = "Request" -> Frame(6, put_u32(m[2]) \o put_u32(m[3]) \o put_u32(m[4]))
      [] m[1] = "Piece" -> Frame(7, put_u32(m[2]) \o put_u32(m[3]) \o m[4])
      [] m[1] = "Cancel" -> Frame(8, put_u32(m[2]) \o put_u32(m[3]) \o put_u32(m[4]))
      [] m[1] \in {"Other", "Malformed"} -> Frame(m[2], m[3])

\* What a u32 holds.
U32 == {n \in Nat : n \div (256 * 256 * 256) \in Bytes}

\* Is there a message of ours with this id and this body?
FitsId(id, body) ==
    CASE id = 4 -> Len(body) = 4
      [] id = 5 -> \E bits \in SUBSET (0 .. TotalPieces - 1) : body = put_bit_set(bits, TotalPieces)
      [] id \in {6, 8} -> Len(body) = 12
      [] id = 7 -> Len(body) >= 8

\* The frames there are: numbers and lengths fit a u32, and one of another kind has
\* an id, or a flag's id with a length, that no message of ours has.
IsMessage(m) ==
    \/ m = <<"KeepAlive">>
    \/ m[1] = "Flag" /\ m = <<"Flag", m[2]>> /\ m[2] \in DOMAIN FlagId
    \/ m[1] = "Have" /\ m = <<"Have", m[2]>> /\ m[2] \in U32
    \/ m[1] = "BitField" /\ m = <<"BitField", m[2]>> /\ m[2] \subseteq 0 .. TotalPieces - 1
    \/ /\ m[1] \in {"Request", "Cancel"} /\ m = <<m[1], m[2], m[3], m[4]>>
       /\ m[2] \in U32 /\ m[3] \in U32 /\ m[4] \in U32
    \/ /\ m[1] = "Piece" /\ m = <<"Piece", m[2], m[3], m[4]>>
       /\ m[2] \in U32 /\ m[3] \in U32 /\ m[4] \in Seq(Bytes) /\ 9 + Len(m[4]) \in U32
    \/ /\ m[1] = "Other" /\ m = <<"Other", m[2], m[3]>>
       /\ m[2] \in Bytes \ (4 .. 8) /\ m[3] \in Seq(Bytes) /\ 1 + Len(m[3]) \in U32
       /\ m[2] \in 0 .. 3 => m[3] # <<>>
    \/ /\ m[1] = "Malformed" /\ m = <<"Malformed", m[2], m[3]>>
       /\ m[2] \in 4 .. 8 /\ m[3] \in Seq(Bytes) /\ 1 + Len(m[3]) \in U32
       /\ ~FitsId(m[2], m[3])

ASSUME ConnectionAssumption ==
    /\ PstrLen \in Bytes /\ IdLen \in Nat /\ MaxSent \in Nat
    /\ TotalPieces \in Nat /\ 1 + (TotalPieces + 7) \div 8 \in U32
    /\ Hello = <<"Handshake", Hello[2], Hello[3]>>
    /\ \A i \in 2 .. 3 : Hello[i] \in Seq(Bytes) /\ Len(Hello[i]) = IdLen
    /\ \A m \in Alphabet : IsMessage(m)

\* The outcomes of a decoder.
Ok(m, used) == [is |-> "Ok", msg |-> m, used |-> used]
Need(n) == [is |-> "TryGetError", requested |-> n]
BadId == [is |-> "BadId"]
Panic == [is |-> "Panic"]

\* Faulty: the reserved bytes are skipped first.
HandshakeSkipsFirst(b) ==
    IF Len(b) < 8 THEN Panic
    ELSE IF Len(b) < 9 + PstrLen + 2 * IdLen THEN Need(IdLen)
    ELSE Ok(Hello, 9 + PstrLen + 2 * IdLen)

\* HandshakeDecoder: advance(8) panics when fewer bytes are left.
decode_handshake(b) ==
    IF b = <<>> THEN Need(1)
    ELSE LET n == 1 + b[1]
         IN  IF Len(b) < n THEN Need(b[1])
             ELSE IF Len(b) < n + 8 THEN Panic
             ELSE IF Len(b) < n + 8 + 2 * IdLen THEN Need(IdLen)
             ELSE Ok(<<"Handshake", SubSeq(b, n + 9, n + 8 + IdLen),
                       SubSeq(b, n + 9 + IdLen, n + 8 + 2 * IdLen)>>, n + 8 + 2 * IdLen)

\* Three numbers after the id, two of the messages that have them.
Triple(kind, b) ==
    IF Len(b) < 17 THEN Need(4)
    ELSE Ok(<<kind, get_u32(b, 6), get_u32(b, 10), get_u32(b, 14)>>, 17)

\* The match on the id.
decode_body(b, len) ==
    CASE b[5] = 4 -> IF Len(b) < 9 THEN Need(4) ELSE Ok(<<"Have", get_u32(b, 6)>>, 9)
      [] b[5] = 5 -> Ok(<<"BitField", BitsIn(SubSeq(b, 6, 4 + len))>>, 4 + len)
      [] b[5] = 6 -> Triple("Request", b)
      [] b[5] = 7 -> IF Len(b) < 13 THEN Need(4)
                     ELSE IF len < 9 THEN Panic
                     ELSE Ok(<<"Piece", get_u32(b, 6), get_u32(b, 10), SubSeq(b, 14, 4 + len)>>, 4 + len)
      [] b[5] = 8 -> Triple("Cancel", b)
      [] OTHER ->
            IF len = 1 /\ \E f \in DOMAIN FlagId : FlagId[f] = b[5]
            THEN Ok(<<"Flag", CHOOSE f \in DOMAIN FlagId : FlagId[f] = b[5]>>, 5)
            ELSE BadId

\* Faulty: asks for the length and its own four bytes twice.
DecodeAsksForMore(b) ==
    IF Len(b) < 4 THEN Need(4)
    ELSE IF get_u32(b, 1) = 0 THEN Ok(<<"KeepAlive">>, 4)
    ELSE IF get_u32(b, 1) > Len(b) - 4 THEN Need(get_u32(b, 1) + 8)
    ELSE decode_body(b, get_u32(b, 1))

\* MessagesDecoder.  What it requests leaves out the four bytes of the length.
decode(b) ==
    IF Len(b) < 4 THEN Need(4)
    ELSE IF get_u32(b, 1) = 0 THEN Ok(<<"KeepAlive">>, 4)
    ELSE IF get_u32(b, 1) > Len(b) - 4 THEN Need(get_u32(b, 1))
    ELSE decode_body(b, get_u32(b, 1))

-----------------------------------------------------------------------------
ConnInit ==
    /\ sent = <<>> /\ wire = <<>> /\ closed = FALSE
    /\ buffer = <<>> /\ needs = 0 /\ at = "decode" /\ got = <<>>

\* The peer's next message leaves.
Sends ==
    /\ ~closed /\ Len(sent) <= MaxSent
    /\ \E m \in IF sent = <<>> THEN {Hello} ELSE Alphabet :
        /\ sent' = Append(sent, m)
        /\ wire' = wire \o encode_msg(m)
    /\ UNCHANGED <<closed, buffer, needs, at, got>>

\* The peer closes, or is gone: some of what is on its way may not arrive.
Closes ==
    /\ ~closed
    /\ closed' = TRUE
    /\ \E n \in 0 .. Len(wire) : wire' = SubSeq(wire, 1, n)
    /\ UNCHANGED <<sent, buffer, needs, at, got>>

\* D::decode on the buffer: translate keeps the buffer and changes the decoder.
Decoded == IF got = <<>> THEN decode_handshake(buffer) ELSE decode(buffer)

\* Faulty: whatever has arrived after the message goes with it.
Clears(outcome) == buffer' = <<>>

\* self.buffer.advance(advance)
Advances(outcome) == buffer' = SubSeq(buffer, outcome.used + 1, Len(buffer))

\* One round of read_msg's loop, up to its await.  After a BadId every later call
\* fails in the same way: run_connection reads nothing more from this peer.
Attempt ==
    /\ at = "decode"
    /\ \/ /\ Len(buffer) < needs
          /\ at' = "read"
          /\ UNCHANGED <<buffer, needs, got>>
       \/ /\ Len(buffer) >= needs
          /\ \E outcome \in {Decoded} :
                \/ /\ outcome.is = "Ok"
                   /\ got' = Append(got, outcome.msg)
                   /\ Advances(outcome)
                   /\ needs' = 0
                   /\ UNCHANGED at
                \/ /\ outcome.is = "TryGetError"
                   /\ needs' = outcome.requested
                   /\ at' = "read"
                   /\ UNCHANGED <<buffer, got>>
                \/ /\ outcome.is \in {"BadId", "Panic"}
                   /\ at' = outcome.is
                   /\ UNCHANGED <<buffer, needs, got>>
    /\ UNCHANGED <<sent, wire, closed>>

\* stream.read_buf returns some bytes.
ReadBytes ==
    /\ at = "read"
    /\ \E n \in 1 .. Len(wire) :
        /\ buffer' = buffer \o SubSeq(wire, 1, n)
        /\ wire' = SubSeq(wire, n + 1, Len(wire))
    /\ at' = "decode"
    /\ UNCHANGED <<sent, closed, needs, got>>

\* stream.read_buf returns 0.
ReadEnd ==
    /\ at = "read"
    /\ closed /\ wire = <<>>
    /\ at' = IF buffer = <<>> THEN "Closed" ELSE "Reset"
    /\ UNCHANGED <<sent, wire, closed, buffer, needs, got>>

\* select! takes the other branch and drops read_msg where it awaits; the next
\* call starts anew.
Dropped ==
    /\ at = "read" /\ got # <<>>
    /\ at' = "decode" /\ needs' = 0
    /\ UNCHANGED <<sent, wire, closed, buffer, got>>

\* The timeout around do_handshake.
HandshakeTimesOut ==
    /\ at = "read" /\ got = <<>>
    /\ at' = "TimedOut"
    /\ UNCHANGED <<sent, wire, closed, buffer, needs, got>>

\* Reading ends by an error: read_buf's where it awaits, after which nothing more is
\* read as after a BadId, or, between two calls of read_msg, the one of write_msg or
\* of a send to the processor, whose `?` ends do_handshake or run_connection.
Fails ==
    /\ at = "read" \/ (at = "decode" /\ needs = 0)
    /\ at' = "Failed"
    /\ UNCHANGED <<sent, wire, closed, buffer, needs, got>>

ConnNext ==
    \/ Sends \/ Closes \/ Attempt \/ ReadBytes \/ ReadEnd
    \/ Dropped \/ HandshakeTimesOut \/ Fails

\* The connection alone; Session has the fairness.
ConnSpec == ConnInit /\ [][ConnNext]_connVars

-----------------------------------------------------------------------------
\* What is sent and not returned yet.
Pending == SubSeq(sent, Len(got) + 1, Len(sent))

PendingBytes == FlattenSeq([i \in DOMAIN Pending |-> encode_msg(Pending[i])])

Malformed(m) == m[1] = "Malformed"

\* read_msg has taken a malformed frame for a message: the bytes it took need not
\* be those of the frame.
Derailed == \E i \in DOMAIN got \cap DOMAIN sent : Malformed(sent[i])

\* Up to the first malformed frame read_msg has returned what the peer sent, each
\* message with its fields and in its place; and as long as it has met none, the
\* bytes of the rest are all there: in the buffer and under way, however the
\* stream was cut, whenever read_msg was dropped, and across the change of decoders.
NothingLostOrRepeated ==
    /\ \A n \in DOMAIN got :
        \/ \E i \in (1 .. n) \cap DOMAIN sent : Malformed(sent[i])
        \/ n \in DOMAIN sent /\ got[n] = sent[n]
    /\ \/ Derailed
       \/ /\ IsPrefix(buffer \o wire, PendingBytes)
          /\ closed \/ buffer \o wire = PendingBytes

\* read_msg awaits more bytes only when the next message is not in the buffer, and
\* not for more than that message has.  (A malformed frame may be shorter than what
\* its id makes the decoder look for.)
NothingHeldBack ==
    at = "read" /\ Pending # <<>> /\ ~Derailed =>
        /\ Malformed(Head(Pending)) \/ Len(buffer) < Len(encode_msg(Head(Pending)))
        /\ needs <= Len(encode_msg(Head(Pending)))

\* Until a malformed frame was taken for a message, reading ends for the reason it
\* gives: "connection reset by peer" within a message the peer did not finish, or
\* behind a malformed frame, BadId at a message of another kind and never at a
\* malformed one.  It panics nowhere but at a handshake cut in its reserved bytes
\* and at a Piece frame too short for its two numbers.
EndsForAReason ==
    ~Derailed =>
        /\ at = "Reset" =>
            /\ Pending # <<>>
            /\ Malformed(Head(Pending)) \/ Len(buffer) < Len(encode_msg(Head(Pending)))
        /\ at = "BadId" => Pending # <<>> /\ Head(Pending)[1] = "Other"
        /\ at = "Panic" =>
            \/ got = <<>> /\ Len(buffer) \in 1 + PstrLen .. 8 + PstrLen
            \/ /\ Pending # <<>> /\ Malformed(Head(Pending))
               /\ Head(Pending)[2] = 7 /\ Len(Head(Pending)[3]) < 8

\* What the peer sends is returned in the end, unless a malformed frame is before it
\* or reading ended.
EveryMessageReturned ==
    \A n \in 1 .. MaxSent + 1 :
        Len(sent) >= n /\ (\A i \in 1 .. n : ~Malformed(sent[i]))
            ~> Len(got) >= n \/ closed \/ at \in {"BadId", "Panic", "TimedOut", "Failed"}
=============================================================================

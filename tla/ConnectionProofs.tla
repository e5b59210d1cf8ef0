-------------------------- MODULE ConnectionProofs --------------------------
(***************************************************************************)
(* Reading from a peer, for every handshake, every set of frames (also     *)
(* malformed ones) and every way to cut the stream.  First each decoder    *)
(* undoes its encoder, whatever follows the message, and asks for no more  *)
(* than the message has while some of it is missing; then messages one     *)
(* after the other are a message and the others; then the invariant: until *)
(* a malformed frame was taken for a message, what is in the buffer and    *)
(* under way begins the bytes of what is still to be returned.             *)
(***************************************************************************)
EXTENDS Connection, NaturalsInduction, WellFoundedInduction, SequenceTheorems, TLAPS

-----------------------------------------------------------------------------
(* Numbers, bits and bytes.                                                *)

\* A number comes out of its four bytes.
LEMMA NumberBack ==
    ASSUME NEW n \in U32
    PROVE  /\ put_u32(n) \in Seq(Bytes) /\ Len(put_u32(n)) = 4
           /\ \A i \in 1 .. 4 : put_u32(n)[i] \in Bytes
           /\ get_u32(put_u32(n), 1) = n
<1>1. PICK a \in Nat, b \in Nat, c \in Nat :
        /\ a = n \div 256 /\ b = n \div (256 * 256) /\ c = n \div (256 * 256 * 256) /\ c \in Bytes
  BY DEF U32
<1>2. n = 256 * a + (n % 256) /\ n % 256 \in Bytes
  BY <1>1 DEF U32, Bytes
<1>3. a = 256 * b + (a % 256) /\ a % 256 \in Bytes
  BY <1>1 DEF U32, Bytes
<1>4. b = 256 * c + (b % 256) /\ b % 256 \in Bytes
  BY <1>1 DEF U32, Bytes
<1>5. put_u32(n) = <<c, b % 256, a % 256, n % 256>>
  BY <1>1 DEF put_u32
<1> QED  BY <1>1, <1>2, <1>3, <1>4, <1>5 DEF get_u32

\* The eight bits of a byte can be told apart.
LEMMA EightBits ==
    ASSUME NEW b0 \in {0, 128}, NEW b1 \in {0, 64}, NEW b2 \in {0, 32}, NEW b3 \in {0, 16},
           NEW b4 \in {0, 8}, NEW b5 \in {0, 4}, NEW b6 \in {0, 2}, NEW b7 \in {0, 1},
           NEW x, x = b0 + b1 + b2 + b3 + b4 + b5 + b6 + b7
    PROVE  /\ x \in Bytes
           /\ (x \div 128) % 2 = 1 <=> b0 # 0
           /\ (x \div 64) % 2 = 1 <=> b1 # 0
           /\ (x \div 32) % 2 = 1 <=> b2 # 0
           /\ (x \div 16) % 2 = 1 <=> b3 # 0
           /\ (x \div 8) % 2 = 1 <=> b4 # 0
           /\ (x \div 4) % 2 = 1 <=> b5 # 0
           /\ (x \div 2) % 2 = 1 <=> b6 # 0
           /\ (x \div 1) % 2 = 1 <=> b7 # 0
  BY DEF Bytes

\* The masks of a byte.
LEMMA Masks ==
    ASSUME NEW q \in Nat
    PROVE  /\ Mask(8 * q + 0) = 128 /\ Mask(8 * q + 1) = 64 /\ Mask(8 * q + 2) = 32
           /\ Mask(8 * q + 3) = 16 /\ Mask(8 * q + 4) = 8 /\ Mask(8 * q + 5) = 4
           /\ Mask(8 * q + 6) = 2 /\ Mask(8 * q + 7) = 1
  BY DEF Mask

\* What is written for a set of pieces is read as that set: the spare bits of the
\* last byte name none.
LEMMA BitFieldBack ==
    ASSUME NEW s \in SUBSET (0 .. TotalPieces - 1)
    PROVE  /\ put_bit_set(s, TotalPieces) \in Seq(Bytes)
           /\ Len(put_bit_set(s, TotalPieces)) = (TotalPieces + 7) \div 8
           /\ BitsIn(put_bit_set(s, TotalPieces)) = s
<1>0. TotalPieces \in Nat
  BY ConnectionAssumption
<1>1. PICK K \in Nat : K = (TotalPieces + 7) \div 8 /\ TotalPieces <= 8 * K
  BY <1>0
<1> DEFINE bit(n) == put_bit(s, TotalPieces, n)
           byte(q) == bit(8 * q + 0) + bit(8 * q + 1) + bit(8 * q + 2) + bit(8 * q + 3)
                      + bit(8 * q + 4) + bit(8 * q + 5) + bit(8 * q + 6) + bit(8 * q + 7)
<1>2. PICK bytes : bytes = put_bit_set(s, TotalPieces)
  OBVIOUS
<1>3. bytes = [k \in 1 .. K |-> byte(k - 1)]
  BY <1>1, <1>2 DEF put_bit_set
<1> HIDE DEF bit
<1>4. ASSUME NEW q \in Nat
      PROVE  /\ byte(q) \in Bytes
             /\ \A r \in 0 .. 7 : (byte(q) \div Mask(8 * q + r)) % 2 = 1 <=> 8 * q + r \in s
  <2>1. \A n \in Nat : Mask(n) \in Nat \ {0} =>
            bit(n) \in {0, Mask(n)} /\ (bit(n) # 0 <=> n \in s)
    BY <1>0 DEF bit, put_bit
  <2>2. PICK b0 \in {0, 128}, b1 \in {0, 64}, b2 \in {0, 32}, b3 \in {0, 16},
             b4 \in {0, 8}, b5 \in {0, 4}, b6 \in {0, 2}, b7 \in {0, 1} :
          /\ b0 = bit(8 * q + 0) /\ b1 = bit(8 * q + 1) /\ b2 = bit(8 * q + 2) /\ b3 = bit(8 * q + 3)
          /\ b4 = bit(8 * q + 4) /\ b5 = bit(8 * q + 5) /\ b6 = bit(8 * q + 6) /\ b7 = bit(8 * q + 7)
    BY <2>1, Masks, SMT
  <2>3. /\ b0 # 0 <=> 8 * q + 0 \in s
        /\ b1 # 0 <=> 8 * q + 1 \in s
        /\ b2 # 0 <=> 8 * q + 2 \in s
        /\ b3 # 0 <=> 8 * q + 3 \in s
        /\ b4 # 0 <=> 8 * q + 4 \in s
        /\ b5 # 0 <=> 8 * q + 5 \in s
        /\ b6 # 0 <=> 8 * q + 6 \in s
        /\ b7 # 0 <=> 8 * q + 7 \in s
    BY <2>1, <2>2, Masks, SMT
  <2>4. byte(q) = b0 + b1 + b2 + b3 + b4 + b5 + b6 + b7
    BY <2>2
  <2> HIDE DEF byte
  <2>5. /\ byte(q) \in Bytes
        /\ (byte(q) \div 128) % 2 = 1 <=> b0 # 0
        /\ (byte(q) \div 64) % 2 = 1 <=> b1 # 0
        /\ (byte(q) \div 32) % 2 = 1 <=> b2 # 0
        /\ (byte(q) \div 16) % 2 = 1 <=> b3 # 0
        /\ (byte(q) \div 8) % 2 = 1 <=> b4 # 0
        /\ (byte(q) \div 4) % 2 = 1 <=> b5 # 0
        /\ (byte(q) \div 2) % 2 = 1 <=> b6 # 0
        /\ (byte(q) \div 1) % 2 = 1 <=> b7 # 0
    BY <2>4, EightBits
  <2>6. \A r \in 0 .. 7 : (byte(q) \div Mask(8 * q + r)) % 2 = 1 <=> 8 * q + r \in s
    BY <2>3, <2>5, Masks
  <2> QED  BY <2>5, <2>6
<1> HIDE DEF byte
<1>5. bytes \in Seq(Bytes) /\ Len(bytes) = K /\ \A k \in 1 .. K : bytes[k] = byte(k - 1)
  BY <1>3, <1>4
<1>6. ASSUME NEW n \in 0 .. 8 * K - 1
      PROVE  get_bit(bytes, n) <=> n \in s
  <2>1. PICK q \in Nat, r \in 0 .. 7 : q = n \div 8 /\ n = 8 * q + r /\ q + 1 \in 1 .. K
    OBVIOUS
  <2>2. bytes[q + 1] = byte(q)
    BY <2>1, <1>5
  <2> QED  BY <2>1, <2>2, <1>4 DEF get_bit
<1>7. BitsIn(bytes) = s
  <2>1. \A n \in s : n \in 0 .. 8 * K - 1
    BY <1>0, <1>1
  <2>2. BitsIn(bytes) = {n \in 0 .. 8 * K - 1 : get_bit(bytes, n)}
    BY <1>5 DEF BitsIn
  <2> QED  BY <2>1, <2>2, <1>6
<1> QED  BY <1>1, <1>2, <1>5, <1>7

-----------------------------------------------------------------------------
(* What the decoders see.                                                  *)

\* The bytes in b are those of e, as far as both go.
Agrees(b, e) == \A i \in 1 .. Len(b) : i <= Len(e) => b[i] = e[i]

\* The parts of a frame.
LEMMA FrameParts ==
    ASSUME NEW id \in Bytes, NEW body \in Seq(Bytes), 1 + Len(body) \in U32
    PROVE  /\ Frame(id, body) \in Seq(Bytes) /\ Len(Frame(id, body)) = 5 + Len(body)
           /\ \A i \in 1 .. 4 : Frame(id, body)[i] = put_u32(1 + Len(body))[i]
           /\ Frame(id, body)[5] = id
           /\ \A i \in 1 .. Len(body) : Frame(id, body)[5 + i] = body[i]
<1>1. PICK h \in Seq(Bytes) : h = put_u32(1 + Len(body)) /\ Len(h) = 4
  BY NumberBack
<1>2. PICK p \in Seq(Bytes) : p = h \o <<id>> /\ Len(p) = 5 /\ p[5] = id /\ \A i \in 1 .. 4 : p[i] = h[i]
  <2>0. <<id>> \in Seq(Bytes) /\ Len(<<id>>) = 1 /\ <<id>>[1] = id
    OBVIOUS
  <2>1. PICK t \in {<<id>>} : t \in Seq(Bytes) /\ t = <<id>> /\ Len(t) = 1 /\ t[1] = id
    BY <2>0
  <2>2. /\ h \o t \in Seq(Bytes) /\ Len(h \o t) = 5
        /\ \A i \in 1 .. 5 : (h \o t)[i] = IF i <= 4 THEN h[i] ELSE t[i - 4]
    BY <1>1, <2>1, ConcatProperties
  <2>3. PICK p \in {h \o t} : /\ p = h \o <<id>> /\ p \in Seq(Bytes) /\ Len(p) = 5
                             /\ \A i \in 1 .. 5 : p[i] = IF i <= 4 THEN h[i] ELSE t[i - 4]
    BY <2>1, <2>2
  <2>4. p[5] = id /\ \A i \in 1 .. 4 : p[i] = h[i]
    BY <2>1, <2>3
  <2> QED  BY <2>3, <2>4, Zenon
<1>3. Frame(id, body) = p \o body
  BY <1>1, <1>2 DEF Frame
<1> QED  BY <1>1, <1>2, <1>3

\* Four bytes within a buffer are a number.
LEMMA NumberAt ==
    ASSUME NEW n \in U32, NEW b, NEW k \in Nat,
           b[k] = put_u32(n)[1], b[k + 1] = put_u32(n)[2],
           b[k + 2] = put_u32(n)[3], b[k + 3] = put_u32(n)[4]
    PROVE  get_u32(b, k) = n
<1>1. PICK w : w = put_u32(n) /\ get_u32(w, 1) = n
  BY NumberBack
<1>2. b[k] = w[1] /\ b[k + 1] = w[2] /\ b[k + 2] = w[3] /\ b[k + 3] = w[4]
  BY <1>1
<1>3. 1 + 1 = 2 /\ 1 + 2 = 3 /\ 1 + 3 = 4
  OBVIOUS
<1> QED  BY <1>1, <1>2, <1>3 DEF get_u32

\* The decoder waits for a frame to be there, asking for no more than it has, and
\* then looks at what is in it.
LEMMA FrameSeen ==
    ASSUME NEW id \in Bytes, NEW body \in Seq(Bytes), 1 + Len(body) \in U32,
           NEW b \in Seq(Bytes), Agrees(b, Frame(id, body))
    PROVE  /\ Len(b) < 5 + Len(body) => \E n \in 0 .. 5 + Len(body) : decode(b) = Need(n)
           /\ Len(b) >= 5 + Len(body) =>
                /\ decode(b) = decode_body(b, 1 + Len(body))
                /\ b[5] = id /\ \A i \in 1 .. Len(body) : b[5 + i] = body[i]
<1>1. PICK f : /\ f = Frame(id, body) /\ Len(f) = 5 + Len(body)
               /\ \A i \in 1 .. 4 : f[i] = put_u32(1 + Len(body))[i]
               /\ f[5] = id /\ \A i \in 1 .. Len(body) : f[5 + i] = body[i]
  BY FrameParts
<1>2. \A i \in 1 .. Len(b) : i <= 5 + Len(body) => b[i] = f[i]
  BY <1>1 DEF Agrees
<1>3. CASE Len(b) < 4
  BY <1>3 DEF decode
<1>4. CASE Len(b) >= 4
  <2>1. \A i \in 1 .. 4 : b[i] = put_u32(1 + Len(body))[i]
    BY <1>1, <1>2, <1>4
  <2>2. get_u32(b, 1) = 1 + Len(body)
    BY <2>1, NumberAt
  <2>3. decode(b) = IF 1 + Len(body) > Len(b) - 4 THEN Need(1 + Len(body))
                    ELSE decode_body(b, 1 + Len(body))
    BY <2>2, <1>4 DEF decode
  <2>4. CASE Len(b) < 5 + Len(body)
    BY <2>3, <2>4
  <2>5. CASE Len(b) >= 5 + Len(body)
    <3>1. decode(b) = decode_body(b, 1 + Len(body))
      BY <2>3, <2>5
    <3>2. b[5] = id /\ \A i \in 1 .. Len(body) : b[5 + i] = body[i]
      BY <1>1, <1>2, <2>5
    <3> QED  BY <2>5, <3>1, <3>2
  <2> QED  BY <2>4, <2>5
<1> QED  BY <1>3, <1>4

\* What decode answers when a whole message is there.
Answer(m) == IF m[1] = "Other" THEN BadId ELSE Ok(m, Len(encode_msg(m)))

\* A message is answered when it is there; before that, no more is asked for than
\* it has.
Recognised(m) ==
    /\ encode_msg(m) \in Seq(Bytes) /\ Len(encode_msg(m)) >= 4
    /\ \A b \in Seq(Bytes) : Agrees(b, encode_msg(m)) =>
        /\ Len(b) < Len(encode_msg(m)) => \E n \in 0 .. Len(encode_msg(m)) : decode(b) = Need(n)
        /\ Len(b) >= Len(encode_msg(m)) => decode(b) = Answer(m)

\* b holds a frame.
Holds(b, id, body) ==
    Len(b) >= 5 + Len(body) /\ b[5] = id /\ \A i \in 1 .. Len(body) : b[5 + i] = body[i]

\* A message in a frame is recognised if what is in the frame is.
LEMMA Framed ==
    ASSUME NEW m, NEW id \in Bytes, NEW body \in Seq(Bytes), 1 + Len(body) \in U32,
           encode_msg(m) = Frame(id, body),
           \A b \in Seq(Bytes) : Holds(b, id, body) => decode_body(b, 1 + Len(body)) = Answer(m)
    PROVE  Recognised(m)
<1>1. encode_msg(m) \in Seq(Bytes) /\ Len(encode_msg(m)) = 5 + Len(body)
  BY FrameParts
<1>2. ASSUME NEW b \in Seq(Bytes), Agrees(b, encode_msg(m))
      PROVE  /\ Len(b) < 5 + Len(body) => \E n \in 0 .. 5 + Len(body) : decode(b) = Need(n)
             /\ Len(b) >= 5 + Len(body) => decode(b) = Answer(m)
  <2>1. Agrees(b, Frame(id, body))
    BY <1>2
  <2>2. /\ Len(b) < 5 + Len(body) => \E n \in 0 .. 5 + Len(body) : decode(b) = Need(n)
        /\ Len(b) >= 5 + Len(body) =>
              Holds(b, id, body) /\ decode(b) = decode_body(b, 1 + Len(body))
    BY <2>1, FrameSeen DEF Holds
  <2> QED  BY <2>2
<1> QED  BY <1>1, <1>2 DEF Recognised

\* Small numbers fit.
LEMMA SmallFits == 0 .. 255 \subseteq U32
  BY DEF U32, Bytes

\* A keep-alive is four zeros.
LEMMA KeepAliveBack == Recognised(<<"KeepAlive">>)
<1>1. PICK m : m = <<"KeepAlive">>
  OBVIOUS
<1>2. encode_msg(m) = put_u32(0) /\ 0 \in U32
  BY <1>1, SmallFits DEF encode_msg
<1>3. encode_msg(m) \in Seq(Bytes) /\ Len(encode_msg(m)) = 4
  BY <1>2, NumberBack
<1>4. ASSUME NEW b \in Seq(Bytes), Agrees(b, encode_msg(m))
      PROVE  /\ Len(b) < 4 => \E n \in 0 .. 4 : decode(b) = Need(n)
             /\ Len(b) >= 4 => decode(b) = Answer(m)
  <2>1. CASE Len(b) < 4
    BY <2>1 DEF decode
  <2>2. CASE Len(b) >= 4
    <3>1. \A i \in 1 .. 4 : b[i] = put_u32(0)[i]
      BY <1>2, <1>3, <1>4, <2>2 DEF Agrees
    <3>2. get_u32(b, 1) = 0
      BY <1>2, <3>1, NumberAt
    <3>3. Answer(m) = Ok(<<"KeepAlive">>, 4)
      BY <1>1, <1>3 DEF Answer
    <3>4. decode(b) = Ok(<<"KeepAlive">>, 4)
      BY <2>2, <3>2 DEF decode
    <3> QED  BY <2>2, <3>3, <3>4
  <2> QED  BY <2>1, <2>2
<1>5. Recognised(m)
  BY <1>3, <1>4 DEF Recognised
<1> QED  BY <1>1, <1>5

\* The four messages without a field are told apart by their ids.
LEMMA FlagBack ==
    ASSUME NEW f \in DOMAIN FlagId
    PROVE  Recognised(<<"Flag", f>>)
<1>1. PICK m : m = <<"Flag", f>>
  OBVIOUS
<1>2. /\ encode_msg(m) = Frame(FlagId[f], <<>>) /\ FlagId[f] \in 0 .. 3
      /\ \A g \in DOMAIN FlagId : FlagId[g] = FlagId[f] => g = f
  BY <1>1 DEF encode_msg, FlagId
<1>3. FlagId[f] \in Bytes /\ <<>> \in Seq(Bytes) /\ Len(<<>>) = 0 /\ 1 + 0 \in U32
  BY <1>2, SmallFits DEF Bytes
<1>4. PICK body \in Seq(Bytes) : body = <<>> /\ Len(body) = 0 /\ 1 + Len(body) \in U32
  BY <1>3
<1>5. Answer(m) = Ok(<<"Flag", f>>, 5)
  <2>1. Len(Frame(FlagId[f], body)) = 5 + Len(body)
    BY <1>3, <1>4, FrameParts
  <2>2. Len(encode_msg(m)) = 5 /\ m[1] # "Other"
    BY <1>1, <1>2, <1>4, <2>1
  <2> QED  BY <1>1, <2>2 DEF Answer
<1>6. ASSUME NEW b \in Seq(Bytes), Holds(b, FlagId[f], body)
      PROVE  decode_body(b, 1 + Len(body)) = Answer(m)
  <2>1. b[5] = FlagId[f]
    BY <1>6 DEF Holds
  <2>2. f = CHOOSE g \in DOMAIN FlagId : FlagId[g] = b[5]
    BY <1>2, <2>1
  <2>3. \E g \in DOMAIN FlagId : FlagId[g] = b[5]
    BY <2>1
  <2>4. b[5] \notin 4 .. 8 /\ 1 + Len(body) = 1
    BY <1>2, <1>4, <2>1
  <2>5. decode_body(b, 1) = Ok(<<"Flag", CHOOSE g \in DOMAIN FlagId : FlagId[g] = b[5]>>, 5)
    BY <2>3, <2>4 DEF decode_body
  <2> QED  BY <1>5, <2>2, <2>4, <2>5, Zenon
<1>7. encode_msg(m) = Frame(FlagId[f], body)
  BY <1>2, <1>4
<1>8. Recognised(m)
  BY <1>3, <1>4, <1>6, <1>7, Framed
<1> QED  BY <1>1, <1>8

\* A Have comes back with its piece.
LEMMA HaveBack ==
    ASSUME NEW x \in U32
    PROVE  Recognised(<<"Have", x>>)
<1>1. PICK m : m = <<"Have", x>>
  OBVIOUS
<1>2. PICK body \in Seq(Bytes) : body = put_u32(x) /\ Len(body) = 4
  BY NumberBack
<1>3. encode_msg(m) = Frame(4, body) /\ 4 \in Bytes /\ 1 + Len(body) \in U32
  BY <1>1, <1>2, SmallFits DEF encode_msg, Bytes
<1>4. Answer(m) = Ok(<<"Have", x>>, 9)
  <2>1. Len(Frame(4, body)) = 5 + Len(body)
    BY <1>3, FrameParts
  <2>2. Len(encode_msg(m)) = 9 /\ m[1] # "Other"
    BY <1>1, <1>2, <1>3, <2>1
  <2> QED  BY <1>1, <2>2 DEF Answer
<1>5. ASSUME NEW b \in Seq(Bytes), Holds(b, 4, body)
      PROVE  decode_body(b, 1 + Len(body)) = Answer(m)
  <2>1. /\ Len(b) >= 9 /\ b[5] = 4
        /\ b[6] = body[1] /\ b[7] = body[2] /\ b[8] = body[3] /\ b[9] = body[4]
    BY <1>2, <1>5 DEF Holds
  <2>2. get_u32(b, 6) = x
    BY <1>2, <2>1, NumberAt
  <2>3. decode_body(b, 1 + Len(body)) = Ok(<<"Have", get_u32(b, 6)>>, 9)
    BY <2>1 DEF decode_body
  <2> QED  BY <1>4, <2>2, <2>3, Zenon
<1>6. Recognised(m)
  BY <1>3, <1>5, Framed
<1> QED  BY <1>1, <1>6

\* A part of a buffer.
LEMMA PartOf ==
    ASSUME NEW b \in Seq(Bytes), NEW part \in Seq(Bytes), NEW k \in Nat, NEW j, NEW l,
           j = k + 1, l = k + Len(part), Len(b) >= l,
           \A i \in 1 .. Len(part) : b[k + i] = part[i]
    PROVE  SubSeq(b, j, l) = part
<1>1. PICK N \in Nat : N = Len(part)
  OBVIOUS
<1>2. PICK s \in {SubSeq(b, j, l)} : s = SubSeq(b, j, l)
  OBVIOUS
<1>3. s \in Seq(Bytes) /\ Len(s) = N /\ \A i \in 1 .. N : s[i] = b[k + i]
  <2>1. \A i \in 1 .. N : k + i = j + i - 1
    BY <1>1
  <2> QED  BY <1>1, <1>2, <2>1
<1>4. \A i \in 1 .. N : s[i] = part[i]
  BY <1>1, <1>3
<1> QED  BY <1>1, <1>2, <1>3, <1>4, SeqEqual

\* A BitField comes back with its pieces and no others.
LEMMA BitFieldRead ==
    ASSUME NEW s \in SUBSET (0 .. TotalPieces - 1)
    PROVE  Recognised(<<"BitField", s>>)
<1>1. PICK m : m = <<"BitField", s>>
  OBVIOUS
<1>2. PICK body \in Seq(Bytes) :
        /\ body = put_bit_set(s, TotalPieces) /\ 1 + Len(body) \in U32 /\ BitsIn(body) = s
  BY BitFieldBack, ConnectionAssumption
<1>3. encode_msg(m) = Frame(5, body) /\ 5 \in Bytes
  BY <1>1, <1>2 DEF encode_msg, Bytes
<1>4. Answer(m) = Ok(<<"BitField", s>>, 5 + Len(body))
  <2>1. Len(Frame(5, body)) = 5 + Len(body)
    BY <1>2, <1>3, FrameParts
  <2>2. Len(encode_msg(m)) = 5 + Len(body) /\ m[1] # "Other"
    BY <1>1, <1>3, <2>1
  <2> QED  BY <1>1, <2>2 DEF Answer
<1>5. ASSUME NEW b \in Seq(Bytes), Holds(b, 5, body)
      PROVE  decode_body(b, 1 + Len(body)) = Answer(m)
  <2>1. b[5] = 5 /\ 4 + (1 + Len(body)) = 5 + Len(body) /\ Len(b) >= 5 + Len(body)
    BY <1>5 DEF Holds
  <2>2. SubSeq(b, 6, 5 + Len(body)) = body
    BY <1>5, <2>1, PartOf DEF Holds
  <2>3. decode_body(b, 1 + Len(body)) =
          Ok(<<"BitField", BitsIn(SubSeq(b, 6, 4 + (1 + Len(body))))>>, 4 + (1 + Len(body)))
    BY <2>1 DEF decode_body
  <2> QED  BY <1>2, <1>4, <2>1, <2>2, <2>3, Zenon
<1>6. Recognised(m)
  BY <1>2, <1>3, <1>5, Framed
<1> QED  BY <1>1, <1>6

\* Two sequences of bytes, one after the other.
LEMMA Joined ==
    ASSUME NEW p \in Seq(Bytes), NEW q \in Seq(Bytes)
    PROVE  /\ p \o q \in Seq(Bytes) /\ Len(p \o q) = Len(p) + Len(q)
           /\ \A i \in 1 .. Len(p) : (p \o q)[i] = p[i]
           /\ \A i \in 1 .. Len(q) : (p \o q)[Len(p) + i] = q[i]
<1>1. PICK r \in {p \o q}, N \in Nat, M \in Nat : r = p \o q /\ N = Len(p) /\ M = Len(q)
  OBVIOUS
<1>2. r \in Seq(Bytes) /\ Len(r) = N + M /\ \A i \in 1 .. N + M : r[i] = IF i <= N THEN p[i] ELSE q[i - N]
  BY <1>1, ConcatProperties
<1>3. \A i \in 1 .. N : r[i] = p[i]
  BY <1>2
<1>4. \A i \in 1 .. M : r[N + i] = q[i]
  BY <1>2
<1> QED  BY <1>1, <1>2, <1>3, <1>4

\* The bytes of a number, from position k on.
Number(b, k, n) ==
    /\ b[k] = put_u32(n)[1] /\ b[k + 1] = put_u32(n)[2]
    /\ b[k + 2] = put_u32(n)[3] /\ b[k + 3] = put_u32(n)[4]

\* The numbers in a frame are read back.
LEMMA NumberIn ==
    ASSUME NEW n \in U32, NEW b, NEW id, NEW body \in Seq(Bytes), Holds(b, id, body)
    PROVE  /\ Len(body) >= 4 /\ Number(body, 1, n) => get_u32(b, 6) = n
           /\ Len(body) >= 8 /\ Number(body, 5, n) => get_u32(b, 10) = n
           /\ Len(body) >= 12 /\ Number(body, 9, n) => get_u32(b, 14) = n
<1>1. \A i \in 1 .. Len(body) : b[5 + i] = body[i]
  BY DEF Holds
<1>2. ASSUME Len(body) >= 4, Number(body, 1, n) PROVE get_u32(b, 6) = n
  <2>1. b[6] = body[1] /\ b[7] = body[2] /\ b[8] = body[3] /\ b[9] = body[4]
    BY <1>1, <1>2
  <2> QED  BY <1>2, <2>1, NumberAt DEF Number
<1>3. ASSUME Len(body) >= 8, Number(body, 5, n) PROVE get_u32(b, 10) = n
  <2>1. b[10] = body[5] /\ b[11] = body[6] /\ b[12] = body[7] /\ b[13] = body[8]
    BY <1>1, <1>3
  <2> QED  BY <1>3, <2>1, NumberAt DEF Number
<1>4. ASSUME Len(body) >= 12, Number(body, 9, n) PROVE get_u32(b, 14) = n
  <2>1. b[14] = body[9] /\ b[15] = body[10] /\ b[16] = body[11] /\ b[17] = body[12]
    <3>1. \A i \in 9 .. 12 : i \in 1 .. Len(body)
      BY <1>4
    <3>2. \A i \in 9 .. 12 : b[5 + i] = body[i]
      BY <1>1, <3>1
    <3>3. b[5 + 9] = body[9] /\ b[5 + 10] = body[10] /\ b[5 + 11] = body[11] /\ b[5 + 12] = body[12]
      BY <3>2, SMT
    <3> QED  BY <3>3
  <2> QED  BY <1>4, <2>1, NumberAt DEF Number
<1> QED  BY <1>2, <1>3, <1>4

\* Two numbers and what follows them.
LEMMA TwoNumbers ==
    ASSUME NEW x \in U32, NEW y \in U32, NEW rest \in Seq(Bytes)
    PROVE  \E body \in Seq(Bytes) :
             /\ body = put_u32(x) \o put_u32(y) \o rest /\ Len(body) = 8 + Len(rest)
             /\ Number(body, 1, x) /\ Number(body, 5, y)
             /\ \A i \in 1 .. Len(rest) : body[8 + i] = rest[i]
<1>1. PICK p \in Seq(Bytes), q \in Seq(Bytes) :
        p = put_u32(x) /\ q = put_u32(y) /\ Len(p) = 4 /\ Len(q) = 4
  BY NumberBack
<1>2. PICK r \in Seq(Bytes) :
        /\ r = p \o q /\ Len(r) = Len(p) + Len(q)
        /\ \A i \in 1 .. Len(p) : r[i] = p[i]
        /\ \A i \in 1 .. Len(q) : r[Len(p) + i] = q[i]
  BY Joined, Zenon
<1>3. Len(r) = 8 /\ (\A i \in 1 .. 4 : r[i] = p[i]) /\ \A i \in 1 .. 4 : r[4 + i] = q[i]
  BY <1>1, <1>2
<1>4. PICK body \in Seq(Bytes) :
        /\ body = r \o rest /\ Len(body) = Len(r) + Len(rest)
        /\ \A i \in 1 .. Len(r) : body[i] = r[i]
        /\ \A i \in 1 .. Len(rest) : body[Len(r) + i] = rest[i]
  BY Joined, Zenon
<1>5. /\ Len(body) = 8 + Len(rest)
      /\ \A i \in 1 .. 8 : body[i] = r[i]
      /\ \A i \in 1 .. Len(rest) : body[8 + i] = rest[i]
  BY <1>3, <1>4
<1>6. Number(body, 1, x)
  BY <1>1, <1>3, <1>5 DEF Number
<1>7. Number(body, 5, y)
  <2>1. r[5] = q[1] /\ r[6] = q[2] /\ r[7] = q[3] /\ r[8] = q[4]
    BY <1>3
  <2> QED  BY <1>1, <1>5, <2>1 DEF Number
<1>8. body = put_u32(x) \o put_u32(y) \o rest
  BY <1>1, <1>2, <1>4
<1> QED  BY <1>5, <1>6, <1>7, <1>8, Zenon

\* The messages of three numbers.
LEMMA TripleBack ==
    ASSUME NEW kind \in {"Request", "Cancel"}, NEW x \in U32, NEW y \in U32, NEW z \in U32
    PROVE  Recognised(<<kind, x, y, z>>)
<1>1. PICK m : m = <<kind, x, y, z>>
  OBVIOUS
<1>2. PICK rest \in Seq(Bytes) : rest = put_u32(z) /\ Len(rest) = 4
  BY NumberBack
<1>3. PICK body \in Seq(Bytes) :
        /\ body = put_u32(x) \o put_u32(y) \o rest /\ Len(body) = 8 + Len(rest)
        /\ Number(body, 1, x) /\ Number(body, 5, y)
        /\ \A i \in 1 .. Len(rest) : body[8 + i] = rest[i]
  BY TwoNumbers
<1>4. Len(body) = 12 /\ Number(body, 9, z)
  <2>1. \A i \in 1 .. 4 : body[8 + i] = rest[i]
    BY <1>2, <1>3
  <2>2. body[9] = rest[1] /\ body[10] = rest[2] /\ body[11] = rest[3] /\ body[12] = rest[4]
    <3>1. body[8 + 1] = rest[1] /\ body[8 + 2] = rest[2] /\ body[8 + 3] = rest[3] /\ body[8 + 4] = rest[4]
      BY <2>1, SMT
    <3> QED  BY <3>1
  <2>3. Number(body, 9, z)
    BY <1>2, <2>2 DEF Number
  <2>4. Len(body) = 12
    BY <1>2, <1>3
  <2> QED  BY <2>3, <2>4
<1>5. PICK id \in {6, 8} : id = IF kind = "Request" THEN 6 ELSE 8
  OBVIOUS
<1>6. encode_msg(m) = Frame(id, body) /\ id \in Bytes /\ 1 + Len(body) \in U32
  <2>1. m[1] = kind /\ m[2] = x /\ m[3] = y /\ m[4] = z
    BY <1>1
  <2>2. encode_msg(m) = Frame(id, put_u32(x) \o put_u32(y) \o put_u32(z))
    BY <1>5, <2>1 DEF encode_msg
  <2> QED  BY <1>2, <1>3, <1>4, <1>5, <2>2, SmallFits DEF Bytes
<1>7. Answer(m) = Ok(<<kind, x, y, z>>, 17)
  <2>1. Len(Frame(id, body)) = 5 + Len(body)
    BY <1>6, FrameParts
  <2>2. Len(encode_msg(m)) = 17 /\ m[1] # "Other"
    BY <1>1, <1>4, <1>6, <2>1
  <2> QED  BY <1>1, <2>2 DEF Answer
<1>8. ASSUME NEW b \in Seq(Bytes), Holds(b, id, body)
      PROVE  decode_body(b, 1 + Len(body)) = Answer(m)
  <2>1. Len(b) >= 17 /\ b[5] = id
    BY <1>4, <1>8 DEF Holds
  <2>0. Len(body) >= 4 /\ Len(body) >= 8 /\ Len(body) >= 12
    BY <1>4
  <2>2. get_u32(b, 6) = x
    BY <2>0, <1>3, <1>8, NumberIn, Zenon
  <2>3. get_u32(b, 10) = y
    BY <2>0, <1>3, <1>8, NumberIn, Zenon
  <2>4. get_u32(b, 14) = z
    BY <2>0, <1>4, <1>8, NumberIn, Zenon
  <2>5. decode_body(b, 1 + Len(body)) = Triple(kind, b)
    <3>1. CASE kind = "Request"
      BY <1>5, <2>1, <3>1 DEF decode_body
    <3>2. CASE kind = "Cancel"
      BY <1>5, <2>1, <3>2 DEF decode_body
    <3> QED  BY <3>1, <3>2
  <2>6. Triple(kind, b) = Ok(<<kind, get_u32(b, 6), get_u32(b, 10), get_u32(b, 14)>>, 17)
    BY <2>1 DEF Triple
  <2> QED  BY <1>7, <2>2, <2>3, <2>4, <2>5, <2>6, Zenon
<1>9. Recognised(m)
  BY <1>6, <1>8, Framed
<1> QED  BY <1>1, <1>9

\* A Piece comes back with its numbers and its block.
LEMMA PieceBack ==
    ASSUME NEW x \in U32, NEW y \in U32, NEW block \in Seq(Bytes), 9 + Len(block) \in U32
    PROVE  Recognised(<<"Piece", x, y, block>>)
<1>1. PICK m : m = <<"Piece", x, y, block>>
  OBVIOUS
<1>3. PICK body \in Seq(Bytes) :
        /\ body = put_u32(x) \o put_u32(y) \o block /\ Len(body) = 8 + Len(block)
        /\ Number(body, 1, x) /\ Number(body, 5, y)
        /\ \A i \in 1 .. Len(block) : body[8 + i] = block[i]
  BY TwoNumbers
<1>5. encode_msg(m) = Frame(7, body) /\ 7 \in Bytes /\ 1 + Len(body) \in U32
  <2>1. 1 + Len(body) = 9 + Len(block)
    BY <1>3
  <2> QED  BY <1>1, <1>3, <2>1 DEF encode_msg, Bytes
<1>6. Answer(m) = Ok(<<"Piece", x, y, block>>, 13 + Len(block))
  <2>1. Len(Frame(7, body)) = 5 + Len(body)
    BY <1>5, FrameParts
  <2>2. Len(encode_msg(m)) = 13 + Len(block) /\ m[1] # "Other"
    BY <1>1, <1>3, <1>5, <2>1
  <2> QED  BY <1>1, <2>2 DEF Answer
<1>7. ASSUME NEW b \in Seq(Bytes), Holds(b, 7, body)
      PROVE  decode_body(b, 1 + Len(body)) = Answer(m)
  <2>1. Len(b) >= 13 + Len(block) /\ b[5] = 7
    BY <1>3, <1>7 DEF Holds
  <2>0. Len(body) >= 4 /\ Len(body) >= 8
    BY <1>3
  <2>2. get_u32(b, 6) = x
    BY <2>0, <1>3, <1>7, NumberIn, Zenon
  <2>3. get_u32(b, 10) = y
    BY <2>0, <1>3, <1>7, NumberIn, Zenon
  <2>4. \A i \in 1 .. Len(block) : b[13 + i] = block[i]
    <3>1. \A i \in 1 .. Len(block) : 8 + i \in 1 .. Len(body) /\ 5 + (8 + i) = 13 + i
      BY <1>3
    <3>2. \A i \in 1 .. Len(body) : b[5 + i] = body[i]
      BY <1>7 DEF Holds
    <3>3. \A i \in 1 .. Len(block) : b[13 + i] = body[8 + i]
      BY <3>1, <3>2
    <3> QED  BY <1>3, <3>3
  <2>5. SubSeq(b, 14, 13 + Len(block)) = block
    <3>1. PICK k \in {13}, l \in {13 + Len(block)} :
            k \in Nat /\ l \in Nat /\ k = 13 /\ l = 13 + Len(block)
      OBVIOUS
    <3>2. /\ 14 = k + 1 /\ l = k + Len(block) /\ Len(b) >= l
          /\ \A i \in 1 .. Len(block) : b[k + i] = block[i]
      BY <2>1, <2>4, <3>1
    <3> QED  BY <3>1, <3>2, PartOf
  <2>6. 4 + (1 + Len(body)) = 13 + Len(block) /\ ~(1 + Len(body) < 9) /\ ~(Len(b) < 13)
    BY <1>3, <2>1
  <2>7. decode_body(b, 1 + Len(body)) =
          Ok(<<"Piece", get_u32(b, 6), get_u32(b, 10), SubSeq(b, 14, 4 + (1 + Len(body)))>>,
             4 + (1 + Len(body)))
    BY <2>1, <2>6 DEF decode_body
  <2> QED  BY <1>6, <2>2, <2>3, <2>5, <2>6, <2>7, Zenon
<1>8. Recognised(m)
  BY <1>5, <1>7, Framed
<1> QED  BY <1>1, <1>8

\* A message of another kind is refused when all of it is there.
LEMMA OtherRefused ==
    ASSUME NEW id \in Bytes \ (4 .. 8), NEW body \in Seq(Bytes), 1 + Len(body) \in U32,
           id \in 0 .. 3 => body # <<>>
    PROVE  Recognised(<<"Other", id, body>>)
<1>1. PICK m : m = <<"Other", id, body>>
  OBVIOUS
<1>2. encode_msg(m) = Frame(id, body) /\ m[1] = "Other"
  BY <1>1 DEF encode_msg
<1>3. ASSUME NEW b \in Seq(Bytes), Holds(b, id, body)
      PROVE  decode_body(b, 1 + Len(body)) = Answer(m)
  <2>1. b[5] = id /\ b[5] \notin 4 .. 8
    BY <1>3 DEF Holds
  <2>2. ~(1 + Len(body) = 1 /\ \E f \in DOMAIN FlagId : FlagId[f] = b[5])
    <3>1. \A f \in DOMAIN FlagId : FlagId[f] \in 0 .. 3
      BY DEF FlagId
    <3>2. Len(body) = 0 => body = <<>>
      BY EmptySeq
    <3> QED  BY <2>1, <3>1, <3>2
  <2>3. decode_body(b, 1 + Len(body)) = BadId
    BY <2>1, <2>2 DEF decode_body
  <2> QED  BY <1>2, <2>3 DEF Answer
<1>4. Recognised(m)
  BY <1>2, <1>3, Framed
<1> QED  BY <1>1, <1>4

\* What a malformed frame makes the decoder do when all of it is there: take some
\* message for it, look for bytes it does not have, or panic when the length of a
\* Piece is too short for its two numbers.  It is never refused.
Misread(outcome, id, body) ==
    \/ outcome.is = "Ok"
    \/ outcome = Need(4)
    \/ outcome = Panic /\ id = 7 /\ Len(body) < 8

\* A frame with an id of ours and any body.
LEMMA MalformedSeen ==
    ASSUME NEW id \in 4 .. 8, NEW body \in Seq(Bytes), 1 + Len(body) \in U32,
           NEW b \in Seq(Bytes), Agrees(b, Frame(id, body))
    PROVE  /\ Len(b) < 5 + Len(body) => \E n \in 0 .. 5 + Len(body) : decode(b) = Need(n)
           /\ Len(b) >= 5 + Len(body) => Misread(decode(b), id, body)
<1>1. id \in Bytes
  BY DEF Bytes
<1>2. /\ Len(b) < 5 + Len(body) => \E n \in 0 .. 5 + Len(body) : decode(b) = Need(n)
      /\ Len(b) >= 5 + Len(body) => decode(b) = decode_body(b, 1 + Len(body)) /\ b[5] = id
  BY <1>1, FrameSeen
<1>3. ASSUME b[5] = id
      PROVE  Misread(decode_body(b, 1 + Len(body)), id, body)
  <2>1. \A x, n : Ok(x, n).is = "Ok"
    BY DEF Ok
  <2>2. PICK o : o = decode_body(b, 1 + Len(body))
    OBVIOUS
  <2>3. CASE id = 4
    <3>1. o = IF Len(b) < 9 THEN Need(4) ELSE Ok(<<"Have", get_u32(b, 6)>>, 9)
      BY <1>3, <2>2, <2>3 DEF decode_body
    <3> QED  BY <2>1, <2>2, <3>1, Zenon DEF Misread
  <2>4. CASE id = 5
    <3>1. o = Ok(<<"BitField", BitsIn(SubSeq(b, 6, 4 + (1 + Len(body))))>>, 4 + (1 + Len(body)))
      BY <1>3, <2>2, <2>4 DEF decode_body
    <3> QED  BY <2>1, <2>2, <3>1, Zenon DEF Misread
  <2>5. CASE id = 6
    <3>1. o = Triple("Request", b)
      BY <1>3, <2>2, <2>5 DEF decode_body
    <3> QED  BY <2>1, <2>2, <3>1, Zenon DEF Misread, Triple
  <2>6. CASE id = 7
    <3>1. o = IF Len(b) < 13 THEN Need(4)
              ELSE IF 1 + Len(body) < 9 THEN Panic
              ELSE Ok(<<"Piece", get_u32(b, 6), get_u32(b, 10), SubSeq(b, 14, 4 + (1 + Len(body)))>>,
                      4 + (1 + Len(body)))
      BY <1>3, <2>2, <2>6 DEF decode_body
    <3>2. 1 + Len(body) < 9 => Len(body) < 8
      OBVIOUS
    <3> QED  BY <2>1, <2>2, <2>6, <3>1, <3>2, Zenon DEF Misread
  <2>7. CASE id = 8
    <3>1. o = Triple("Cancel", b)
      BY <1>3, <2>2, <2>7 DEF decode_body
    <3> QED  BY <2>1, <2>2, <3>1, Zenon DEF Misread, Triple
  <2> QED  BY <2>3, <2>4, <2>5, <2>6, <2>7
<1> QED  BY <1>2, <1>3

\* The same, of a malformed message.
LEMMA MalformedIs ==
    ASSUME NEW m, IsMessage(m), Malformed(m)
    PROVE  /\ m[2] \in 4 .. 8 /\ m[3] \in Seq(Bytes) /\ 1 + Len(m[3]) \in U32
           /\ encode_msg(m) = Frame(m[2], m[3])
           /\ encode_msg(m) \in Seq(Bytes) /\ Len(encode_msg(m)) = 5 + Len(m[3])
<1>1. m[1] = "Malformed" /\ m[2] \in 4 .. 8 /\ m[3] \in Seq(Bytes) /\ 1 + Len(m[3]) \in U32
  BY DEF IsMessage, Malformed
<1>2. encode_msg(m) = Frame(m[2], m[3])
  BY <1>1 DEF encode_msg
<1>3. m[2] \in Bytes
  BY <1>1 DEF Bytes
<1> QED  BY <1>1, <1>2, <1>3, FrameParts

\* Every other message is recognised.
LEMMA MessagesBack ==
    ASSUME NEW m, IsMessage(m), ~Malformed(m)
    PROVE  Recognised(m)
<1>1. CASE m = <<"KeepAlive">>
  BY <1>1, KeepAliveBack
<1>2. CASE m[1] = "Flag" /\ m = <<"Flag", m[2]>> /\ m[2] \in DOMAIN FlagId
  BY <1>2, FlagBack, Zenon
<1>3. CASE m[1] = "Have" /\ m = <<"Have", m[2]>> /\ m[2] \in U32
  BY <1>3, HaveBack, Zenon
<1>4. CASE m[1] = "BitField" /\ m = <<"BitField", m[2]>> /\ m[2] \subseteq 0 .. TotalPieces - 1
  BY <1>4, BitFieldRead, Zenon
<1>5. CASE /\ m[1] \in {"Request", "Cancel"} /\ m = <<m[1], m[2], m[3], m[4]>>
           /\ m[2] \in U32 /\ m[3] \in U32 /\ m[4] \in U32
  BY <1>5, TripleBack, Zenon
<1>6. CASE /\ m[1] = "Piece" /\ m = <<"Piece", m[2], m[3], m[4]>>
           /\ m[2] \in U32 /\ m[3] \in U32 /\ m[4] \in Seq(Bytes) /\ 9 + Len(m[4]) \in U32
  BY <1>6, PieceBack, Zenon
<1>7. CASE /\ m[1] = "Other" /\ m = <<"Other", m[2], m[3]>>
           /\ m[2] \in Bytes \ (4 .. 8) /\ m[3] \in Seq(Bytes) /\ 1 + Len(m[3]) \in U32
           /\ m[2] \in 0 .. 3 => m[3] # <<>>
  BY <1>7, OtherRefused, Zenon
<1> QED  BY <1>1, <1>2, <1>3, <1>4, <1>5, <1>6, <1>7, Zenon DEF IsMessage, Malformed

\* The handshake as it is sent.
LEMMA HelloParts ==
    \E e \in Seq(Bytes) :
        /\ e = encode_msg(Hello) /\ Len(e) = 9 + PstrLen + 2 * IdLen /\ e[1] = PstrLen
        /\ \A i \in 1 .. IdLen : e[9 + PstrLen + i] = Hello[2][i]
        /\ \A i \in 1 .. IdLen : e[9 + PstrLen + IdLen + i] = Hello[3][i]
<1>0. /\ PstrLen \in Nat /\ PstrLen \in Bytes /\ IdLen \in Nat
      /\ Hello[2] \in Seq(Bytes) /\ Hello[3] \in Seq(Bytes)
      /\ Len(Hello[2]) = IdLen /\ Len(Hello[3]) = IdLen /\ Hello[1] = "Handshake"
  BY ConnectionAssumption DEF Bytes
<1>1. PICK h \in Seq(Bytes), k \in Seq(Bytes) : h = Hello[2] /\ k = Hello[3] /\ Len(h) = IdLen /\ Len(k) = IdLen
  BY <1>0
<1>2. PICK p \in Seq(Bytes) : p = <<PstrLen>> /\ Len(p) = 1 /\ p[1] = PstrLen
  <2>1. <<PstrLen>> \in Seq(Bytes) /\ Len(<<PstrLen>>) = 1 /\ <<PstrLen>>[1] = PstrLen
    BY <1>0
  <2> QED  BY <2>1, Zenon
<1>3. PICK q \in Seq(Bytes) : q = [j \in 1 .. PstrLen |-> 66] /\ Len(q) = PstrLen
  <2>1. PICK q : q = [j \in 1 .. PstrLen |-> 66]
    OBVIOUS
  <2>2. q \in Seq(Bytes) /\ Len(q) = PstrLen
    BY <1>0, <2>1 DEF Bytes
  <2> QED  BY <2>1, <2>2, Zenon
<1>4. PICK z \in Seq(Bytes) : z = [j \in 1 .. 8 |-> 0] /\ Len(z) = 8
  <2>1. PICK z : z = [j \in 1 .. 8 |-> 0]
    OBVIOUS
  <2>2. z \in Seq(Bytes) /\ Len(z) = 8
    BY <2>1 DEF Bytes
  <2> QED  BY <2>1, <2>2, Zenon
<1>5. encode_msg(Hello) = p \o q \o z \o h \o k
  BY <1>0, <1>1, <1>2, <1>3, <1>4 DEF encode_msg, encode_handshake
<1>6. PICK a \in Seq(Bytes) : a = p \o q /\ Len(a) = 1 + PstrLen /\ a[1] = PstrLen
  <2>1. /\ p \o q \in Seq(Bytes) /\ Len(p \o q) = Len(p) + Len(q)
        /\ \A j \in 1 .. Len(p) : (p \o q)[j] = p[j]
    BY Joined, Zenon
  <2>a. Len(p) = 1 /\ Len(q) = PstrLen
    BY <1>2, <1>3, Zenon
  <2>2. 1 \in 1 .. Len(p) /\ Len(p) + Len(q) = 1 + PstrLen
    BY <2>a
  <2>3. (p \o q)[1] = PstrLen /\ Len(p \o q) = 1 + PstrLen
    BY <1>2, <2>1, <2>2, Zenon
  <2> QED  BY <2>1, <2>3, Zenon
<1>7. PICK c \in Seq(Bytes) : c = a \o z /\ Len(c) = 9 + PstrLen /\ c[1] = PstrLen
  <2>1. /\ a \o z \in Seq(Bytes) /\ Len(a \o z) = Len(a) + Len(z)
        /\ \A j \in 1 .. Len(a) : (a \o z)[j] = a[j]
    BY Joined, Zenon
  <2>2. (a \o z)[1] = PstrLen /\ Len(a \o z) = 9 + PstrLen
    BY <1>0, <1>4, <1>6, <2>1
  <2> QED  BY <2>1, <2>2, Zenon
<1>8. PICK d \in Seq(Bytes) :
        /\ d = c \o h /\ Len(d) = 9 + PstrLen + IdLen /\ d[1] = PstrLen
        /\ \A j \in 1 .. IdLen : d[9 + PstrLen + j] = h[j]
  <2>1. PICK d \in Seq(Bytes) :
          /\ d = c \o h /\ Len(d) = Len(c) + Len(h)
          /\ \A j \in 1 .. Len(c) : d[j] = c[j]
          /\ \A j \in 1 .. Len(h) : d[Len(c) + j] = h[j]
    BY Joined, Zenon
  <2>2. d[1] = PstrLen
    BY <1>0, <1>7, <2>1
  <2>3. \A j \in 1 .. IdLen : d[9 + PstrLen + j] = h[j]
    BY <1>0, <1>1, <1>7, <2>1
  <2>4. Len(d) = 9 + PstrLen + IdLen
    BY <1>0, <1>1, <1>7, <2>1
  <2> QED  BY <2>1, <2>2, <2>3, <2>4, Zenon
<1>9. PICK e \in Seq(Bytes) :
        /\ e = d \o k /\ Len(e) = 9 + PstrLen + 2 * IdLen /\ e[1] = PstrLen
        /\ \A j \in 1 .. IdLen : e[9 + PstrLen + j] = h[j]
        /\ \A j \in 1 .. IdLen : e[9 + PstrLen + IdLen + j] = k[j]
  <2>0. /\ d \o k \in Seq(Bytes) /\ Len(d \o k) = Len(d) + Len(k)
        /\ \A j \in 1 .. Len(d) : (d \o k)[j] = d[j]
        /\ \A j \in 1 .. Len(k) : (d \o k)[Len(d) + j] = k[j]
    BY Joined
  <2>1. PICK e \in Seq(Bytes) :
          /\ e = d \o k /\ Len(e) = Len(d) + Len(k)
          /\ \A j \in 1 .. Len(d) : e[j] = d[j]
          /\ \A j \in 1 .. Len(k) : e[Len(d) + j] = k[j]
    BY <2>0, Zenon
  <2>2. e[1] = PstrLen
    BY <1>0, <1>8, <2>1
  <2>3. \A j \in 1 .. IdLen : e[9 + PstrLen + j] = h[j]
    <3>1. \A j \in 1 .. IdLen : 9 + PstrLen + j \in 1 .. Len(d)
      BY <1>0, <1>8
    <3>2. \A j \in 1 .. IdLen : e[9 + PstrLen + j] = d[9 + PstrLen + j]
      BY <2>1, <3>1
    <3> QED  BY <1>8, <3>2
  <2>4. \A j \in 1 .. IdLen : e[9 + PstrLen + IdLen + j] = k[j]
    BY <1>0, <1>1, <1>8, <2>1
  <2>5. Len(e) = 9 + PstrLen + 2 * IdLen
    BY <1>0, <1>1, <1>8, <2>1
  <2> QED  BY <2>1, <2>2, <2>3, <2>4, <2>5, Zenon
<1>10. e = encode_msg(Hello)
  BY <1>5, <1>6, <1>7, <1>8, <1>9
<1> QED  BY <1>1, <1>9, <1>10, Zenon

\* The handshake comes back when it is there.  Before that the decoder asks for no
\* more than it has, or panics within the reserved bytes.
LEMMA HelloBack ==
    ASSUME NEW b \in Seq(Bytes), Agrees(b, encode_msg(Hello))
    PROVE  /\ encode_msg(Hello) \in Seq(Bytes)
           /\ Len(encode_msg(Hello)) = 9 + PstrLen + 2 * IdLen
           /\ Len(b) >= 9 + PstrLen + 2 * IdLen =>
                decode_handshake(b) = Ok(Hello, 9 + PstrLen + 2 * IdLen)
           /\ Len(b) < 9 + PstrLen + 2 * IdLen =>
                \/ \E n \in 0 .. 9 + PstrLen + 2 * IdLen : decode_handshake(b) = Need(n)
                \/ decode_handshake(b) = Panic /\ Len(b) \in 1 + PstrLen .. 8 + PstrLen
<1>0. /\ PstrLen \in Nat /\ IdLen \in Nat /\ Hello = <<"Handshake", Hello[2], Hello[3]>>
      /\ Hello[2] \in Seq(Bytes) /\ Hello[3] \in Seq(Bytes)
      /\ Len(Hello[2]) = IdLen /\ Len(Hello[3]) = IdLen
  BY ConnectionAssumption DEF Bytes
<1>1. PICK e \in Seq(Bytes) :
        /\ e = encode_msg(Hello) /\ Len(e) = 9 + PstrLen + 2 * IdLen /\ e[1] = PstrLen
        /\ \A i \in 1 .. IdLen : e[9 + PstrLen + i] = Hello[2][i]
        /\ \A i \in 1 .. IdLen : e[9 + PstrLen + IdLen + i] = Hello[3][i]
  BY HelloParts
<1>2. \A i \in 1 .. Len(b) : i <= 9 + PstrLen + 2 * IdLen => b[i] = e[i]
  BY <1>1 DEF Agrees
<1>3. CASE b = <<>>
  <2>1. decode_handshake(b) = Need(1) /\ 1 \in 0 .. 9 + PstrLen + 2 * IdLen /\ Len(b) = 0
    BY <1>0, <1>3 DEF decode_handshake
  <2> QED  BY <1>0, <1>1, <2>1
<1>4. CASE b # <<>>
  <2>1. Len(b) \in Nat \ {0}
    BY <1>4, EmptySeq
  <2>2. b[1] = PstrLen
    BY <1>0, <1>1, <1>2, <2>1
  <2>3. CASE Len(b) < 1 + PstrLen
    <3>1. decode_handshake(b) = Need(PstrLen) /\ PstrLen \in 0 .. 9 + PstrLen + 2 * IdLen
      BY <1>0, <1>4, <2>2, <2>3 DEF decode_handshake
    <3> QED  BY <1>0, <1>1, <2>3, <3>1
  <2>4. CASE Len(b) >= 1 + PstrLen /\ Len(b) < 9 + PstrLen
    <3>1. decode_handshake(b) = Panic /\ Len(b) \in 1 + PstrLen .. 8 + PstrLen
      BY <1>0, <1>4, <2>1, <2>2, <2>4 DEF decode_handshake
    <3> QED  BY <1>0, <1>1, <2>4, <3>1
  <2>5. CASE Len(b) >= 9 + PstrLen /\ Len(b) < 9 + PstrLen + 2 * IdLen
    <3>1. decode_handshake(b) = Need(IdLen) /\ IdLen \in 0 .. 9 + PstrLen + 2 * IdLen
      BY <1>0, <1>4, <2>1, <2>2, <2>5 DEF decode_handshake
    <3> QED  BY <1>0, <1>1, <2>5, <3>1
  <2>6. CASE Len(b) >= 9 + PstrLen + 2 * IdLen
    <3>1. PICK k \in Nat, j \in Nat, u \in Nat, l \in Nat :
            /\ k = 9 + PstrLen /\ j = k + 1 /\ u = k + IdLen /\ l = u + IdLen
            /\ l = 9 + PstrLen + 2 * IdLen /\ u + 1 \in Nat
      BY <1>0
    <3>2. SubSeq(b, j, u) = Hello[2]
      <4>1. \A i \in 1 .. Len(Hello[2]) : b[k + i] = Hello[2][i]
        BY <1>0, <1>1, <1>2, <2>6, <3>1
      <4> QED  BY <1>0, <2>6, <3>1, <4>1, PartOf
    <3>3. SubSeq(b, u + 1, l) = Hello[3]
      <4>1. \A i \in 1 .. Len(Hello[3]) : b[u + i] = Hello[3][i]
        BY <1>0, <1>1, <1>2, <2>6, <3>1
      <4>2. PICK w \in Nat : w = u + 1
        BY <3>1
      <4>3. l = u + Len(Hello[3]) /\ Len(b) >= l
        BY <1>0, <2>6, <3>1
      <4>4. SubSeq(b, w, l) = Hello[3]
        BY <1>0, <4>1, <4>2, <4>3, PartOf
      <4> QED  BY <4>2, <4>4
    <3>4. decode_handshake(b) = Ok(<<"Handshake", SubSeq(b, j, u), SubSeq(b, u + 1, l)>>, l)
      <4>1. /\ (1 + b[1]) + 9 = j /\ (1 + b[1]) + 8 + IdLen = u /\ (1 + b[1]) + 9 + IdLen = u + 1
            /\ (1 + b[1]) + 8 + 2 * IdLen = l /\ ~(Len(b) < 1 + b[1]) /\ ~(Len(b) < (1 + b[1]) + 8)
            /\ ~(Len(b) < (1 + b[1]) + 8 + 2 * IdLen)
        BY <1>0, <2>1, <2>2, <2>6, <3>1
      <4> QED  BY <1>4, <4>1 DEF decode_handshake
    <3>5. decode_handshake(b) = Ok(Hello, l)
      BY <1>0, <3>2, <3>3, <3>4, Zenon
    <3> QED  BY <1>0, <1>1, <2>1, <2>6, <3>1, <3>5
  <2> QED  BY <1>0, <2>1, <2>3, <2>4, <2>5, <2>6
<1> QED  BY <1>3, <1>4

-----------------------------------------------------------------------------
(* Messages one after the other.                                           *)

\* A set of numbers that holds 0 and with every number the next one holds them all.
LEMMA Induction ==
    ASSUME NEW S, 0 \in S, \A n \in Nat : n \in S => n + 1 \in S
    PROVE  Nat \subseteq S
<1> DEFINE R == {ss \in Nat \X Nat : ss[1] < ss[2]}
<1> SUFFICES ASSUME Nat \ S # {} PROVE FALSE
  OBVIOUS
<1>1. IsWellFoundedOn(R, Nat)
  BY NatLessThanWellFounded DEF OpToRel
<1> HIDE DEF R
<1>2. PICK m \in Nat \ S : \A k \in Nat \ S : ~ (<<k, m>> \in R)
  BY <1>1, WFMin
<1>3. \A k \in Nat \ S : ~(k < m)
  BY <1>2 DEF R
<1>4. m # 0 /\ m - 1 \in Nat /\ m - 1 \notin Nat \ S
  BY <1>2, <1>3
<1> QED  BY <1>2, <1>4

\* The sequences joined so far, as FlattenSeq defines them.
IsFlat(g, q, N) == g = [i \in 1 .. N |-> IF i = 1 THEN q[i] ELSE g[i - 1] \o q[i]]

\* Joining N sequences is well defined: such a recursive function exists.
LEMMA FlatExists ==
    ASSUME NEW q, NEW N \in Nat
    PROVE  \E g : IsFlat(g, q, N)
<1> DEFINE flat(g, k) == g = [i \in 1 .. k |-> IF i = 1 THEN q[i] ELSE g[i - 1] \o q[i]]
           S == {k \in Nat : \E g : flat(g, k)}
<1>1. 0 \in S
  <2> DEFINE g == [i \in 1 .. 0 |-> q[i]]
  <2>1. \A i \in 1 .. 0 : q[i] = IF i = 1 THEN q[i] ELSE g[i - 1] \o q[i]
    OBVIOUS
  <2>2. flat(g, 0)
    BY <2>1
  <2> HIDE DEF g, flat
  <2> QED  BY <2>2
<1>2. ASSUME NEW k \in Nat, k \in S
      PROVE  k + 1 \in S
  <2>1. PICK g : flat(g, k)
    BY <1>2
  <2>2. \A i \in 1 .. k : g[i] = IF i = 1 THEN q[i] ELSE g[i - 1] \o q[i]
    BY <2>1
  <2> DEFINE last == IF k = 0 THEN q[k + 1] ELSE g[k] \o q[k + 1]
             h == [i \in 1 .. k + 1 |-> IF i <= k THEN g[i] ELSE last]
  <2>3. \A i \in 1 .. k + 1 : h[i] = IF i <= k THEN g[i] ELSE last
    BY <1>2
  <2>4. \A i \in 1 .. k + 1 : (IF i <= k THEN g[i] ELSE last) =
                              IF i = 1 THEN q[i] ELSE h[i - 1] \o q[i]
    <3> HIDE DEF h
    <3> TAKE i \in 1 .. k + 1
    <3>1. CASE i = 1 /\ i <= k
      BY <1>2, <2>2, <3>1
    <3>2. CASE i \in 2 .. k
      <4>1. i - 1 \in 1 .. k + 1 /\ i - 1 <= k /\ i # 1 /\ i <= k /\ i \in 1 .. k
        BY <1>2, <3>2
      <4>2. h[i - 1] = g[i - 1] /\ g[i] = g[i - 1] \o q[i]
        BY <2>2, <2>3, <4>1
      <4> QED  BY <4>1, <4>2
    <3>3. CASE i = k + 1 /\ k # 0
      <4>1. i - 1 = k /\ k \in 1 .. k + 1 /\ k <= k /\ ~(i <= k) /\ i # 1
        BY <1>2, <3>3
      <4>2. h[i - 1] = g[k] /\ last = g[k] \o q[i]
        BY <2>3, <3>3, <4>1
      <4> QED  BY <4>1, <4>2
    <3>4. CASE i = 1 /\ k = 0
      BY <3>4
    <3> QED  BY <1>2, <3>1, <3>2, <3>3, <3>4
  <2>5. flat(h, k + 1)
    BY <2>4
  <2> HIDE DEF h, flat
  <2> QED  BY <1>2, <2>5
<1> HIDE DEF S
<1>3. N \in S
  BY <1>1, <1>2, Induction
<1> QED  BY <1>3 DEF S, IsFlat

\* The steps by which q is joined.
Flattens(g, q) ==
    /\ FlattenSeq(q) = g[Len(q)] /\ g[1] = q[1]
    /\ \A n \in 1 .. Len(q) - 1 : g[n + 1] = g[n] \o q[n + 1]

\* FlattenSeq joins one sequence after the other.
LEMMA FlatUnfolded ==
    ASSUME NEW T, NEW q \in Seq(T), Len(q) # 0
    PROVE  \E g : Flattens(g, q)
<1> DEFINE h == CHOOSE g : IsFlat(g, q, Len(q))
<1>1. FlattenSeq(q) = h[Len(q)]
  BY DEF FlattenSeq, IsFlat
<1>2. h = [i \in 1 .. Len(q) |-> IF i = 1 THEN q[i] ELSE h[i - 1] \o q[i]]
  <2>1. \E g : IsFlat(g, q, Len(q))
    BY FlatExists
  <2>2. IsFlat(h, q, Len(q))
    BY <2>1, Zenon
  <2> HIDE DEF h
  <2> QED  BY <2>2, Zenon DEF IsFlat
<1> HIDE DEF h
<1>3. \A i \in 1 .. Len(q) : h[i] = IF i = 1 THEN q[i] ELSE h[i - 1] \o q[i]
  BY <1>2, Zenon
<1>4. h[1] = q[1]
  BY <1>3
<1>5. \A n \in 1 .. Len(q) - 1 : h[n + 1] = h[n] \o q[n + 1]
  <2> TAKE n \in 1 .. Len(q) - 1
  <2>1. n + 1 \in 1 .. Len(q) /\ n + 1 # 1 /\ (n + 1) - 1 = n
    OBVIOUS
  <2> QED  BY <1>3, <2>1
<1> QED  BY <1>1, <1>4, <1>5 DEF Flattens

\* Nothing joined is nothing.
LEMMA FlatEmpty == FlattenSeq(<<>>) = <<>>
  BY DEF FlattenSeq

\* A sequence joined at the end.
LEMMA FlatAppend ==
    ASSUME NEW T, NEW q \in Seq(Seq(T)), NEW e \in Seq(T)
    PROVE  FlattenSeq(Append(q, e)) = FlattenSeq(q) \o e
<1>1. PICK r \in Seq(Seq(T)), N \in Nat :
        /\ r = Append(q, e) /\ N = Len(q) /\ Len(r) = N + 1 /\ r[N + 1] = e
        /\ \A i \in 1 .. N : r[i] = q[i]
  <2>1. /\ Append(q, e) \in Seq(Seq(T)) /\ Len(Append(q, e)) = Len(q) + 1
        /\ Append(q, e)[Len(q) + 1] = e /\ \A i \in 1 .. Len(q) : Append(q, e)[i] = q[i]
    OBVIOUS
  <2>2. Len(q) \in Nat
    OBVIOUS
  <2> QED  BY <2>1, <2>2, Zenon
<1>2. PICK h : Flattens(h, r)
  <2>1. Len(r) # 0
    BY <1>1
  <2> QED  BY <2>1, FlatUnfolded
<1>3. /\ FlattenSeq(r) = h[N + 1] /\ h[1] = r[1]
      /\ \A n \in 1 .. N : h[n + 1] = h[n] \o r[n + 1]
  <2>1. Len(r) = N + 1 /\ Len(r) - 1 = N
    BY <1>1
  <2> QED  BY <1>2, <2>1 DEF Flattens
<1>4. CASE q = <<>>
  <2>1. FlattenSeq(r) = e
    BY <1>1, <1>3, <1>4
  <2>2. FlattenSeq(q) \o e = e
    BY <1>4, FlatEmpty, ConcatEmptySeq
  <2> QED  BY <1>1, <2>1, <2>2
<1>5. CASE q # <<>>
  <2>1. N \in Nat \ {0}
    BY <1>1, <1>5, EmptySeq
  <2>2. PICK g : Flattens(g, q)
    BY <1>1, <2>1, FlatUnfolded
  <2>3. /\ FlattenSeq(q) = g[N] /\ g[1] = q[1]
        /\ \A n \in 1 .. N - 1 : g[n + 1] = g[n] \o q[n + 1]
    BY <1>1, <2>2 DEF Flattens
  <2> DEFINE S == {n \in Nat : n + 1 <= N => h[n + 1] = g[n + 1]}
  <2>4. 0 \in S
    BY <1>1, <1>3, <2>1, <2>3
  <2>5. ASSUME NEW n \in Nat, n \in S PROVE n + 1 \in S
    <3> SUFFICES ASSUME n + 2 <= N PROVE h[n + 2] = g[n + 2]
      OBVIOUS
    <3>1. PICK k \in Nat : k = n + 1
      OBVIOUS
    <3>2. k \in 1 .. N /\ k \in 1 .. N - 1 /\ k + 1 \in 1 .. N /\ n + 2 = k + 1 /\ h[k] = g[k]
      BY <2>5, <3>1
    <3>3. h[k + 1] = h[k] \o r[k + 1] /\ g[k + 1] = g[k] \o q[k + 1] /\ r[k + 1] = q[k + 1]
      BY <1>1, <1>3, <2>3, <3>2
    <3> QED  BY <3>2, <3>3
  <2> HIDE DEF S
  <2>6. N - 1 \in S
    <3>1. Nat \subseteq S
      BY <2>4, <2>5, Induction
    <3>2. N - 1 \in Nat
      BY <2>1
    <3> QED  BY <3>1, <3>2
  <2>7. h[N] = g[N]
    BY <2>1, <2>6 DEF S
  <2>8. h[N + 1] = h[N] \o r[N + 1]
    <3>1. N \in 1 .. N
      BY <2>1
    <3> QED  BY <1>3, <3>1
  <2> QED  BY <1>1, <1>3, <1>5, <2>3, <2>7, <2>8
<1> QED  BY <1>4, <1>5

\* A set of sequences that holds the empty one, and with each sequence those that
\* are one longer, holds them all.
LEMMA SeqInduction ==
    ASSUME NEW T, NEW S, <<>> \in S, \A q \in Seq(T), e \in T : q \in S => Append(q, e) \in S
    PROVE  Seq(T) \subseteq S
<1> DEFINE U == {n \in Nat : \A q \in Seq(T) : Len(q) = n => q \in S}
<1>1. 0 \in U
  <2>1. \A q \in Seq(T) : Len(q) = 0 => q = <<>>
    BY EmptySeq
  <2> QED  BY <2>1
<1>2. ASSUME NEW n \in Nat, n \in U PROVE n + 1 \in U
  <2> SUFFICES ASSUME NEW q \in Seq(T), Len(q) = n + 1 PROVE q \in S
    BY <1>2
  <2>1. q # <<>>
    BY <1>2
  <2>2. PICK p \in Seq(T), e \in T : q = Append(p, e)
    BY <2>1, SequenceEmptyOrAppend
  <2>3. Len(p) = n
    BY <1>2, <2>2
  <2> QED  BY <1>2, <2>2, <2>3
<1> HIDE DEF U
<1>3. Nat \subseteq U
  BY <1>1, <1>2, Induction
<1>4. \A q \in Seq(T) : Len(q) \in U
  BY <1>3
<1> QED  BY <1>4 DEF U

\* What is joined is a sequence of the same elements.
LEMMA FlatTyped ==
    ASSUME NEW T, NEW q \in Seq(Seq(T))
    PROVE  FlattenSeq(q) \in Seq(T)
<1> DEFINE S == {r \in Seq(Seq(T)) : FlattenSeq(r) \in Seq(T)}
<1>1. <<>> \in S
  BY FlatEmpty, EmptySeq
<1>2. ASSUME NEW r \in Seq(Seq(T)), NEW e \in Seq(T), r \in S
      PROVE  Append(r, e) \in S
  <2>1. FlattenSeq(r) \o e \in Seq(T)
    BY <1>2
  <2> QED  BY <2>1, FlatAppend, AppendProperties
<1> HIDE DEF S
<1>3. Seq(Seq(T)) \subseteq S
  BY <1>1, <1>2, SeqInduction, Zenon
<1> QED  BY <1>3 DEF S

\* What is joined begins with the first sequence.
LEMMA FlatHead ==
    ASSUME NEW T, NEW q \in Seq(Seq(T)), q # <<>>
    PROVE  FlattenSeq(q) = Head(q) \o FlattenSeq(Tail(q))
<1> DEFINE S == {r \in Seq(Seq(T)) : r # <<>> => FlattenSeq(r) = Head(r) \o FlattenSeq(Tail(r))}
<1>1. <<>> \in S
  BY EmptySeq
<1>2. ASSUME NEW r \in Seq(Seq(T)), NEW e \in Seq(T), r \in S
      PROVE  Append(r, e) \in S
  <2>1. /\ Append(r, e) \in Seq(Seq(T)) /\ FlattenSeq(Append(r, e)) = FlattenSeq(r) \o e
        /\ Head(Append(r, e)) = IF r = <<>> THEN e ELSE Head(r)
        /\ Tail(Append(r, e)) = IF r = <<>> THEN <<>> ELSE Append(Tail(r), e)
    BY FlatAppend, AppendProperties, HeadTailAppend
  <2>2. CASE r = <<>>
    <3>1. FlattenSeq(Append(r, e)) = e
      BY <2>1, <2>2, FlatEmpty, ConcatEmptySeq
    <3>2. Head(Append(r, e)) \o FlattenSeq(Tail(Append(r, e))) = e
      BY <2>1, <2>2, FlatEmpty, ConcatEmptySeq
    <3> QED  BY <2>1, <3>1, <3>2
  <2>3. CASE r # <<>>
    <3>1. /\ Head(r) \in Seq(T) /\ Tail(r) \in Seq(Seq(T))
          /\ FlattenSeq(r) = Head(r) \o FlattenSeq(Tail(r))
      BY <1>2, <2>3, HeadTailProperties
    <3>2. FlattenSeq(Tail(r)) \in Seq(T) /\ FlattenSeq(Append(Tail(r), e)) = FlattenSeq(Tail(r)) \o e
      BY <3>1, FlatTyped, FlatAppend
    <3>3. (Head(r) \o FlattenSeq(Tail(r))) \o e = Head(r) \o (FlattenSeq(Tail(r)) \o e)
      <4>1. PICK h \in Seq(T), f \in Seq(T) : h = Head(r) /\ f = FlattenSeq(Tail(r))
        BY <3>1, <3>2
      <4>2. (h \o f) \o e = h \o (f \o e)
        BY SMT
      <4> QED  BY <4>1, <4>2
    <3> QED  BY <2>1, <2>3, <3>1, <3>2, <3>3
  <2> QED  BY <2>2, <2>3
<1> HIDE DEF S
<1>3. Seq(Seq(T)) \subseteq S
  BY <1>1, <1>2, SeqInduction, Zenon
<1> QED  BY <1>3 DEF S

\* What a peer may send.
Msgs == {Hello} \cup Alphabet

\* The bytes of a sequence of messages.
Encoded(s) == FlattenSeq([i \in DOMAIN s |-> encode_msg(s[i])])

\* A message has bytes; those after the handshake have at least four.
LEMMA Encodes ==
    ASSUME NEW m \in Msgs
    PROVE  /\ encode_msg(m) \in Seq(Bytes) /\ Len(encode_msg(m)) >= 1
           /\ m \in Alphabet => Len(encode_msg(m)) >= 4
<1>1. CASE m \in Alphabet
  <2>1. IsMessage(m)
    BY <1>1, ConnectionAssumption
  <2>2. CASE Malformed(m)
    BY <2>1, <2>2, MalformedIs
  <2>3. CASE ~Malformed(m)
    <3>1. Recognised(m)
      BY <2>1, <2>3, MessagesBack
    <3> QED  BY <3>1 DEF Recognised
  <2> QED  BY <2>2, <2>3
<1>2. CASE m = Hello /\ m \notin Alphabet
  <2>1. PICK e \in Seq(Bytes) : e = encode_msg(Hello) /\ Len(e) = 9 + PstrLen + 2 * IdLen
    BY HelloParts
  <2>2. PstrLen \in Nat /\ IdLen \in Nat
    BY ConnectionAssumption DEF Bytes
  <2> QED  BY <1>2, <2>1, <2>2
<1> QED  BY <1>1, <1>2 DEF Msgs

\* The messages, each encoded.
LEMMA Mapped ==
    ASSUME NEW s \in Seq(Msgs)
    PROVE  \E q \in Seq(Seq(Bytes)) :
             /\ q = [i \in DOMAIN s |-> encode_msg(s[i])] /\ Len(q) = Len(s)
             /\ \A i \in 1 .. Len(s) : q[i] = encode_msg(s[i])
<1>1. PICK q : q = [i \in 1 .. Len(s) |-> encode_msg(s[i])]
  OBVIOUS
<1>2. \A i \in 1 .. Len(s) : encode_msg(s[i]) \in Seq(Bytes)
  BY Encodes
<1>3. q \in Seq(Seq(Bytes)) /\ Len(q) = Len(s) /\ \A i \in 1 .. Len(s) : q[i] = encode_msg(s[i])
  BY <1>1, <1>2
<1>4. q = [i \in DOMAIN s |-> encode_msg(s[i])]
  BY <1>1
<1> QED  BY <1>3, <1>4, Zenon

\* Messages have bytes, and no messages have none.
LEMMA EncodedTyped ==
    ASSUME NEW s \in Seq(Msgs)
    PROVE  Encoded(s) \in Seq(Bytes) /\ (s = <<>> => Encoded(s) = <<>>)
<1>1. PICK q \in Seq(Seq(Bytes)) :
        /\ q = [i \in DOMAIN s |-> encode_msg(s[i])] /\ Len(q) = Len(s)
  BY Mapped
<1>2. Encoded(s) = FlattenSeq(q)
  BY <1>1 DEF Encoded
<1>3. s = <<>> => q = <<>>
  BY <1>1, EmptySeq
<1> QED  BY <1>2, <1>3, FlatTyped, FlatEmpty

\* A message more.
LEMMA EncodedAppend ==
    ASSUME NEW s \in Seq(Msgs), NEW m \in Msgs
    PROVE  Encoded(Append(s, m)) = Encoded(s) \o encode_msg(m)
<1>0. PICK r \in Seq(Msgs) : /\ r = Append(s, m) /\ Len(r) = Len(s) + 1 /\ r[Len(s) + 1] = m
                            /\ \A i \in 1 .. Len(s) : r[i] = s[i]
  <2>1. /\ Append(s, m) \in Seq(Msgs) /\ Len(Append(s, m)) = Len(s) + 1
        /\ Append(s, m)[Len(s) + 1] = m /\ \A i \in 1 .. Len(s) : Append(s, m)[i] = s[i]
    BY AppendProperties
  <2> QED  BY <2>1, Zenon
<1>1. PICK q \in Seq(Seq(Bytes)) :
        /\ q = [i \in DOMAIN s |-> encode_msg(s[i])] /\ Len(q) = Len(s)
        /\ \A i \in 1 .. Len(s) : q[i] = encode_msg(s[i])
  BY Mapped
<1>2. PICK p \in Seq(Seq(Bytes)) :
        /\ p = [i \in DOMAIN r |-> encode_msg(r[i])] /\ Len(p) = Len(r)
        /\ \A i \in 1 .. Len(r) : p[i] = encode_msg(r[i])
  BY Mapped
<1>3. encode_msg(m) \in Seq(Bytes)
  BY Encodes
<1>4. PICK t \in Seq(Seq(Bytes)) :
        /\ t = Append(q, encode_msg(m)) /\ Len(t) = Len(q) + 1 /\ t[Len(q) + 1] = encode_msg(m)
        /\ \A i \in 1 .. Len(q) : t[i] = q[i]
  <2>1. PICK e \in Seq(Bytes) : e = encode_msg(m)
    BY <1>3
  <2>2. /\ Append(q, e) \in Seq(Seq(Bytes)) /\ Len(Append(q, e)) = Len(q) + 1
        /\ Append(q, e)[Len(q) + 1] = e /\ \A i \in 1 .. Len(q) : Append(q, e)[i] = q[i]
    BY AppendProperties
  <2> QED  BY <2>1, <2>2, Zenon
<1>5. p = t
  <2>1. \A i \in 1 .. Len(p) : p[i] = t[i]
    BY <1>0, <1>1, <1>2, <1>4
  <2>2. Len(p) = Len(t)
    BY <1>0, <1>1, <1>2, <1>4
  <2> QED  BY <2>1, <2>2, SeqEqual
<1>6. FlattenSeq(t) = FlattenSeq(q) \o encode_msg(m)
  BY <1>3, <1>4, FlatAppend
<1> QED  BY <1>0, <1>1, <1>2, <1>5, <1>6 DEF Encoded

\* The first message and the others.
LEMMA EncodedHead ==
    ASSUME NEW s \in Seq(Msgs), s # <<>>
    PROVE  Encoded(s) = encode_msg(Head(s)) \o Encoded(Tail(s))
<1>0. PICK r \in Seq(Msgs) : /\ r = Tail(s) /\ Len(r) = Len(s) - 1
                            /\ \A i \in 1 .. Len(r) : r[i] = s[i + 1]
  BY HeadTailProperties
<1>1. PICK q \in Seq(Seq(Bytes)) :
        /\ q = [i \in DOMAIN s |-> encode_msg(s[i])] /\ Len(q) = Len(s)
        /\ \A i \in 1 .. Len(s) : q[i] = encode_msg(s[i])
  BY Mapped
<1>2. PICK p \in Seq(Seq(Bytes)) :
        /\ p = [i \in DOMAIN r |-> encode_msg(r[i])] /\ Len(p) = Len(r)
        /\ \A i \in 1 .. Len(r) : p[i] = encode_msg(r[i])
  BY Mapped
<1>3. q # <<>> /\ Len(s) \in Nat \ {0}
  BY <1>1, EmptySeq
<1>4. PICK t \in Seq(Seq(Bytes)) :
        t = Tail(q) /\ Len(t) = Len(q) - 1 /\ \A i \in 1 .. Len(t) : t[i] = q[i + 1]
  BY <1>3, HeadTailProperties
<1>5. p = t
  <2>1. \A i \in 1 .. Len(p) : p[i] = t[i]
    BY <1>0, <1>1, <1>2, <1>3, <1>4
  <2>2. Len(p) = Len(t)
    BY <1>0, <1>1, <1>2, <1>4
  <2> QED  BY <2>1, <2>2, SeqEqual
<1>6. Head(q) = encode_msg(Head(s))
  BY <1>1, <1>3
<1>7. FlattenSeq(q) = Head(q) \o FlattenSeq(Tail(q))
  BY <1>3, FlatHead
<1> QED  BY <1>0, <1>1, <1>2, <1>4, <1>5, <1>6, <1>7 DEF Encoded

-----------------------------------------------------------------------------
(* Beginnings of sequences of bytes.                                       *)

\* Element by element.
LEMMA PrefixOf ==
    ASSUME NEW T, NEW x \in Seq(T), NEW y \in Seq(T)
    PROVE  IsPrefix(x, y) <=> Len(x) <= Len(y) /\ \A i \in 1 .. Len(x) : x[i] = y[i]
<1>1. CASE ~(Len(x) <= Len(y))
  BY <1>1 DEF IsPrefix
<1>2. CASE Len(x) <= Len(y)
  <2>1. SubSeq(x, 1, Len(x)) = x
    OBVIOUS
  <2>2. PICK z \in Seq(T) : z = SubSeq(y, 1, Len(x)) /\ Len(z) = Len(x) /\ \A i \in 1 .. Len(x) : z[i] = y[i]
    <3>1. PICK z : z = SubSeq(y, 1, Len(x))
      OBVIOUS
    <3>2. z \in Seq(T) /\ Len(z) = Len(x) /\ \A i \in 1 .. Len(x) : z[i] = y[i]
      BY <1>2, <3>1
    <3> QED  BY <3>1, <3>2, Zenon
  <2>3. x = z <=> \A i \in 1 .. Len(x) : x[i] = z[i]
    BY <2>2, SeqEqual
  <2> QED  BY <1>2, <2>1, <2>2, <2>3 DEF IsPrefix
<1> QED  BY <1>1, <1>2

\* c is what is left of b after e, and goes on as b did.
LeftOver(c, b, w, e, r) ==
    /\ c = SubSeq(b, Len(e) + 1, Len(b))
    /\ IsPrefix(b \o w, e \o r) => IsPrefix(c \o w, r)
    /\ b \o w = e \o r => c \o w = r

\* A message that was in the buffer is taken off both.
LEMMA TakenOff ==
    ASSUME NEW e \in Seq(Bytes), NEW b \in Seq(Bytes), NEW w \in Seq(Bytes), NEW r \in Seq(Bytes),
           Len(b) >= Len(e), Agrees(b, e)
    PROVE  \E c \in Seq(Bytes) : LeftOver(c, b, w, e, r)
<1>1. PICK c : c = SubSeq(b, Len(e) + 1, Len(b))
  OBVIOUS
<1>2. /\ c \in Seq(Bytes) /\ Len(c) = Len(b) - Len(e)
      /\ \A i \in 1 .. Len(c) : c[i] = b[Len(e) + i]
  BY <1>1
<1>3. PICK N \in Nat, M \in Nat : N = Len(e) /\ M = Len(c) /\ Len(b) = N + M
  <2>1. Len(e) \in Nat /\ Len(c) \in Nat /\ Len(b) = Len(e) + Len(c)
    BY <1>2
  <2> QED  BY <2>1, Zenon
<1>4. b = e \o c
  <2>1. /\ e \o c \in Seq(Bytes) /\ Len(e \o c) = Len(e) + Len(c)
        /\ \A i \in 1 .. Len(e) : (e \o c)[i] = e[i]
        /\ \A i \in 1 .. Len(c) : (e \o c)[Len(e) + i] = c[i]
    BY <1>2, Joined
  <2>2. PICK a \in Seq(Bytes) :
          /\ a = e \o c /\ Len(a) = N + M
          /\ \A i \in 1 .. N : a[i] = e[i]
          /\ \A i \in 1 .. M : a[N + i] = c[i]
    BY <1>3, <2>1, Zenon
  <2>3. \A i \in 1 .. N + M : b[i] = a[i]
    <3> TAKE i \in 1 .. N + M
    <3>1. CASE i <= N
      <4>1. i \in 1 .. N /\ i \in 1 .. Len(b) /\ i <= Len(e)
        BY <1>3, <3>1
      <4>2. b[i] = e[i]
        BY <4>1 DEF Agrees
      <4> QED  BY <2>2, <4>1, <4>2
    <3>2. CASE i > N
      <4>1. i - N \in 1 .. M /\ N + (i - N) = i
        BY <3>2
      <4>2. PICK j \in 1 .. M : N + j = i
        BY <4>1, Zenon
      <4>3. c[j] = b[N + j] /\ a[N + j] = c[j]
        BY <1>2, <1>3, <2>2
      <4> QED  BY <4>2, <4>3
    <3> QED  BY <3>1, <3>2
  <2> QED  BY <1>3, <2>2, <2>3, SeqEqual
<1>5. PICK x \in Seq(Bytes) : x = c \o w
  <2>1. c \o w \in Seq(Bytes)
    BY <1>2
  <2> QED  BY <2>1, Zenon
<1>6. b \o w = e \o x
  <2>1. PICK d \in Seq(Bytes) : d = c
    BY <1>2
  <2>2. (e \o d) \o w = e \o (d \o w)
    BY SMT
  <2> QED  BY <1>4, <1>5, <2>1, <2>2
<1>7. PICK l \in Seq(Bytes), K \in Nat :
        /\ l = e \o x /\ K = Len(x) /\ Len(l) = N + K
        /\ \A i \in 1 .. K : l[N + i] = x[i]
  <2>1. /\ e \o x \in Seq(Bytes) /\ Len(e \o x) = Len(e) + Len(x)
        /\ \A i \in 1 .. Len(x) : (e \o x)[Len(e) + i] = x[i]
    BY Joined
  <2>2. Len(x) \in Nat
    OBVIOUS
  <2> QED  BY <1>3, <2>1, <2>2, Zenon
<1>8. PICK k \in Seq(Bytes), R \in Nat :
        /\ k = e \o r /\ R = Len(r) /\ Len(k) = N + R
        /\ \A i \in 1 .. R : k[N + i] = r[i]
  <2>1. /\ e \o r \in Seq(Bytes) /\ Len(e \o r) = Len(e) + Len(r)
        /\ \A i \in 1 .. Len(r) : (e \o r)[Len(e) + i] = r[i]
    BY Joined
  <2>2. Len(r) \in Nat
    OBVIOUS
  <2> QED  BY <1>3, <2>1, <2>2, Zenon
<1>9. ASSUME IsPrefix(l, k) PROVE IsPrefix(x, r)
  <2>1. Len(l) <= Len(k) /\ \A i \in 1 .. Len(l) : l[i] = k[i]
    BY <1>9, PrefixOf
  <2>2. K <= R
    BY <1>7, <1>8, <2>1
  <2>3. \A i \in 1 .. K : x[i] = r[i]
    <3> TAKE i \in 1 .. K
    <3>1. N + i \in 1 .. Len(l) /\ i \in 1 .. R
      BY <1>7, <2>2
    <3>2. l[N + i] = x[i] /\ k[N + i] = r[i]
      BY <1>7, <1>8, <3>1
    <3> QED  BY <2>1, <3>1, <3>2
  <2> QED  BY <1>7, <1>8, <2>2, <2>3, PrefixOf
<1>10. ASSUME l = k PROVE x = r
  <2>1. K = R
    BY <1>7, <1>8, <1>10
  <2>2. \A i \in 1 .. K : x[i] = r[i]
    BY <1>7, <1>8, <1>10, <2>1
  <2> QED  BY <1>7, <1>8, <2>1, <2>2, SeqEqual
<1>11. PICK d \in Seq(Bytes) : d = c
  BY <1>2
<1>12. LeftOver(d, b, w, e, r)
  BY <1>1, <1>5, <1>6, <1>7, <1>8, <1>9, <1>10, <1>11, Zenon DEF LeftOver
<1> QED  BY <1>12

-----------------------------------------------------------------------------
(* What is sent and what is returned of it.                                *)

\* The handshake first, then messages.
InTurn(s) == \A i \in 1 .. Len(s) : IF i = 1 THEN s[i] = Hello ELSE s[i] \in Alphabet

\* What is in s after g.
Rest(s, g) == SubSeq(s, Len(g) + 1, Len(s))

\* What is left of s: the handshake is first in it exactly when nothing of s is gone.
LEMMA RestIs ==
    ASSUME NEW s \in Seq(Msgs), NEW g \in Seq(Msgs), InTurn(s), IsPrefix(g, s)
    PROVE  /\ Len(g) <= Len(s) /\ Rest(s, g) \in Seq(Msgs) /\ Len(Rest(s, g)) = Len(s) - Len(g)
           /\ \A i \in 1 .. Len(s) - Len(g) : Rest(s, g)[i] = s[Len(g) + i]
           /\ Rest(s, g) # <<>> =>
                /\ Len(g) < Len(s) /\ Head(Rest(s, g)) = s[Len(g) + 1]
                /\ Head(Rest(s, g)) \in Msgs
                /\ IF g = <<>> THEN Head(Rest(s, g)) = Hello ELSE Head(Rest(s, g)) \in Alphabet
           /\ Rest(s, g) = <<>> => Len(g) = Len(s)
<1>1. PICK N \in Nat, M \in Nat : N = Len(s) /\ M = Len(g) /\ M <= N
  <2>1. Len(g) <= Len(s) /\ Len(s) \in Nat /\ Len(g) \in Nat
    BY PrefixOf
  <2> QED  BY <2>1, Zenon
<1>2. PICK r : r = SubSeq(s, M + 1, N)
  OBVIOUS
<1>3. r \in Seq(Msgs) /\ Len(r) = N - M /\ \A i \in 1 .. N - M : r[i] = s[M + i]
  BY <1>1, <1>2
<1>4. r = <<>> => N = M
  BY <1>1, <1>3
<1>5. ASSUME r # <<>>
      PROVE  /\ M < N /\ Head(r) = s[M + 1] /\ Head(r) \in Msgs
             /\ IF g = <<>> THEN Head(r) = Hello ELSE Head(r) \in Alphabet
  <2>1. Len(r) # 0
    BY <1>3, <1>5, EmptySeq
  <2>2. M < N /\ 1 \in 1 .. N - M /\ M + 1 \in 1 .. N
    BY <1>1, <1>3, <2>1
  <2>3. Head(r) = r[1] /\ r[1] = s[M + 1]
    BY <1>3, <1>5, <2>2
  <2>4. IF M + 1 = 1 THEN s[M + 1] = Hello ELSE s[M + 1] \in Alphabet
    BY <1>1, <2>2 DEF InTurn
  <2>5. g = <<>> <=> M = 0
    BY <1>1, EmptySeq
  <2> QED  BY <2>2, <2>3, <2>4, <2>5 DEF Msgs
<1>6. r = Rest(s, g)
  BY <1>1, <1>2 DEF Rest
<1> QED  BY <1>1, <1>3, <1>4, <1>5, <1>6

\* A message more is sent.
LEMMA RestSent ==
    ASSUME NEW s \in Seq(Msgs), NEW g \in Seq(Msgs), InTurn(s), IsPrefix(g, s),
           NEW m, m \in IF s = <<>> THEN {Hello} ELSE Alphabet
    PROVE  /\ Append(s, m) \in Seq(Msgs) /\ InTurn(Append(s, m)) /\ IsPrefix(g, Append(s, m))
           /\ Rest(Append(s, m), g) = Append(Rest(s, g), m)
<1>0. m \in Msgs
  BY DEF Msgs
<1>1. PICK N \in Nat, M \in Nat : N = Len(s) /\ M = Len(g) /\ M <= N
  <2>1. Len(g) <= Len(s) /\ Len(s) \in Nat /\ Len(g) \in Nat
    BY PrefixOf
  <2> QED  BY <2>1, Zenon
<1>2. PICK t \in Seq(Msgs) : /\ t = Append(s, m) /\ Len(t) = N + 1 /\ t[N + 1] = m
                            /\ \A i \in 1 .. N : t[i] = s[i]
  <2>1. /\ Append(s, m) \in Seq(Msgs) /\ Len(Append(s, m)) = Len(s) + 1
        /\ Append(s, m)[Len(s) + 1] = m /\ \A i \in 1 .. Len(s) : Append(s, m)[i] = s[i]
    BY <1>0, AppendProperties
  <2> QED  BY <1>1, <2>1, Zenon
<1>3. InTurn(t)
  <2> SUFFICES ASSUME NEW i \in 1 .. N + 1
               PROVE  IF i = 1 THEN t[i] = Hello ELSE t[i] \in Alphabet
    BY <1>2 DEF InTurn
  <2>1. CASE i \in 1 .. N
    BY <1>1, <1>2, <2>1 DEF InTurn
  <2>2. CASE i = N + 1
    <3>1. s = <<>> <=> N = 0
      BY <1>1, EmptySeq
    <3> QED  BY <1>2, <2>2, <3>1
  <2> QED  BY <2>1, <2>2
<1>4. IsPrefix(g, t)
  <2>1. \A i \in 1 .. M : g[i] = s[i]
    BY <1>1, PrefixOf
  <2>2. \A i \in 1 .. M : g[i] = t[i]
    BY <1>1, <1>2, <2>1
  <2>3. Len(g) <= Len(t) /\ \A i \in 1 .. Len(g) : g[i] = t[i]
    BY <1>1, <1>2, <2>2
  <2> QED  BY <2>3, PrefixOf
<1>5. PICK r \in Seq(Msgs) : r = Rest(s, g) /\ Len(r) = N - M /\ \A i \in 1 .. N - M : r[i] = s[M + i]
  <2>1. /\ Rest(s, g) \in Seq(Msgs) /\ Len(Rest(s, g)) = Len(s) - Len(g)
        /\ \A i \in 1 .. Len(s) - Len(g) : Rest(s, g)[i] = s[Len(g) + i]
    BY RestIs
  <2> QED  BY <1>1, <2>1, Zenon
<1>6. PICK q \in Seq(Msgs) : q = Rest(t, g) /\ Len(q) = N + 1 - M /\ \A i \in 1 .. N + 1 - M : q[i] = t[M + i]
  <2>1. /\ Rest(t, g) \in Seq(Msgs) /\ Len(Rest(t, g)) = Len(t) - Len(g)
        /\ \A i \in 1 .. Len(t) - Len(g) : Rest(t, g)[i] = t[Len(g) + i]
    BY <1>3, <1>4, RestIs
  <2>2. Len(t) - Len(g) = N + 1 - M
    BY <1>1, <1>2
  <2> QED  BY <1>1, <2>1, <2>2, Zenon
<1>7. PICK p \in Seq(Msgs) : /\ p = Append(r, m) /\ Len(p) = (N - M) + 1 /\ p[(N - M) + 1] = m
                            /\ \A i \in 1 .. N - M : p[i] = r[i]
  <2>1. /\ Append(r, m) \in Seq(Msgs) /\ Len(Append(r, m)) = Len(r) + 1
        /\ Append(r, m)[Len(r) + 1] = m /\ \A i \in 1 .. Len(r) : Append(r, m)[i] = r[i]
    BY <1>0, AppendProperties
  <2> QED  BY <1>5, <2>1, Zenon
<1>8. q = p
  <2>1. Len(q) = Len(p)
    BY <1>1, <1>6, <1>7
  <2>2. \A i \in 1 .. (N - M) + 1 : q[i] = p[i]
    <3> TAKE i \in 1 .. (N - M) + 1
    <3>1. i \in 1 .. N + 1 - M /\ q[i] = t[M + i]
      BY <1>1, <1>6
    <3>2. CASE i \in 1 .. N - M
      <4>1. M + i \in 1 .. N
        BY <1>1, <3>2
      <4> QED  BY <1>2, <1>5, <1>7, <3>1, <3>2, <4>1
    <3>3. CASE i = (N - M) + 1
      <4>1. M + i = N + 1
        BY <1>1, <3>3
      <4> QED  BY <1>2, <1>7, <3>1, <3>3, <4>1
    <3> QED  BY <1>1, <3>2, <3>3
  <2> QED  BY <1>7, <2>1, <2>2, SeqEqual
<1> QED  BY <1>2, <1>3, <1>4, <1>5, <1>6, <1>7, <1>8

\* The next message is returned.
LEMMA RestReturned ==
    ASSUME NEW s \in Seq(Msgs), NEW g \in Seq(Msgs), InTurn(s), IsPrefix(g, s), Rest(s, g) # <<>>,
           NEW m, m = Head(Rest(s, g))
    PROVE  /\ Append(g, m) \in Seq(Msgs) /\ IsPrefix(Append(g, m), s)
           /\ Rest(s, Append(g, m)) = Tail(Rest(s, g))
<1>1. /\ Len(g) < Len(s) /\ m = s[Len(g) + 1] /\ m \in Msgs
      /\ Rest(s, g) \in Seq(Msgs) /\ Len(Rest(s, g)) = Len(s) - Len(g)
      /\ \A i \in 1 .. Len(s) - Len(g) : Rest(s, g)[i] = s[Len(g) + i]
  BY RestIs
<1>2. PICK N \in Nat, M \in Nat : N = Len(s) /\ M = Len(g) /\ M < N
  <2>1. Len(s) \in Nat /\ Len(g) \in Nat
    OBVIOUS
  <2> QED  BY <1>1, <2>1, Zenon
<1>3. PICK r \in Seq(Msgs) : r = Rest(s, g) /\ Len(r) = N - M /\ \A i \in 1 .. N - M : r[i] = s[M + i]
  BY <1>1, <1>2, Zenon
<1>4. PICK t \in Seq(Msgs) : /\ t = Append(g, m) /\ Len(t) = M + 1 /\ t[M + 1] = m
                            /\ \A i \in 1 .. M : t[i] = g[i]
  <2>1. /\ Append(g, m) \in Seq(Msgs) /\ Len(Append(g, m)) = Len(g) + 1
        /\ Append(g, m)[Len(g) + 1] = m /\ \A i \in 1 .. Len(g) : Append(g, m)[i] = g[i]
    BY <1>1, AppendProperties
  <2> QED  BY <1>2, <2>1, Zenon
<1>5. IsPrefix(t, s)
  <2>1. \A i \in 1 .. M : g[i] = s[i]
    BY <1>2, PrefixOf
  <2>2. \A i \in 1 .. M + 1 : t[i] = s[i]
    <3> TAKE i \in 1 .. M + 1
    <3>1. CASE i \in 1 .. M
      BY <1>4, <2>1, <3>1
    <3>2. CASE i = M + 1
      BY <1>1, <1>2, <1>4, <3>2
    <3> QED  BY <3>1, <3>2
  <2>3. Len(t) <= Len(s) /\ \A i \in 1 .. Len(t) : t[i] = s[i]
    BY <1>2, <1>4, <2>2
  <2> QED  BY <2>3, PrefixOf
<1>6. PICK q \in Seq(Msgs) : /\ q = Rest(s, t) /\ Len(q) = N - (M + 1)
                            /\ \A i \in 1 .. N - (M + 1) : q[i] = s[(M + 1) + i]
  <2>1. /\ Rest(s, t) \in Seq(Msgs) /\ Len(Rest(s, t)) = Len(s) - Len(t)
        /\ \A i \in 1 .. Len(s) - Len(t) : Rest(s, t)[i] = s[Len(t) + i]
    BY <1>5, RestIs
  <2>2. Len(s) - Len(t) = N - (M + 1) /\ Len(t) = M + 1
    BY <1>2, <1>4
  <2> QED  BY <2>1, <2>2, Zenon
<1>7. PICK p \in Seq(Msgs) : p = Tail(r) /\ Len(p) = Len(r) - 1 /\ \A i \in 1 .. Len(p) : p[i] = r[i + 1]
  <2>1. r # <<>>
    BY <1>3
  <2>2. /\ Tail(r) \in Seq(Msgs) /\ Len(Tail(r)) = Len(r) - 1
        /\ \A i \in 1 .. Len(Tail(r)) : Tail(r)[i] = r[i + 1]
    BY <2>1, HeadTailProperties
  <2> QED  BY <2>2, Zenon
<1>8. q = p
  <2>1. Len(q) = Len(p) /\ Len(p) = N - (M + 1)
    <3>1. (N - M) - 1 = N - (M + 1)
      BY <1>2
    <3> QED  BY <1>3, <1>6, <1>7, <3>1, Zenon
  <2>2. \A i \in 1 .. N - (M + 1) : q[i] = p[i]
    <3> TAKE i \in 1 .. N - (M + 1)
    <3>1. i + 1 \in 1 .. N - M /\ M + (i + 1) = (M + 1) + i
      BY <1>2
    <3>2. p[i] = r[i + 1] /\ r[i + 1] = s[M + (i + 1)]
      BY <1>3, <1>7, <2>1, <3>1
    <3> QED  BY <1>6, <3>1, <3>2
  <2> QED  BY <2>1, <2>2, SeqEqual
<1> QED  BY <1>3, <1>4, <1>5, <1>6, <1>7, <1>8

-----------------------------------------------------------------------------
(* The invariant.                                                          *)

\* The types, and the order in which the peer sends.
InLine ==
    /\ sent \in Seq(Msgs) /\ got \in Seq(Msgs) /\ wire \in Seq(Bytes) /\ buffer \in Seq(Bytes)
    /\ needs \in Nat /\ closed \in BOOLEAN
    /\ InTurn(sent)

\* No more is asked for than the next message has, or could have.
Enough == IF Pending # <<>> THEN Len(encode_msg(Head(Pending)))
          ELSE IF got = <<>> THEN 1 ELSE 4

NeedsFit == needs <= Enough

\* What is returned was sent, and the bytes of the rest are all there.
InStep ==
    /\ IsPrefix(got, sent)
    /\ IsPrefix(buffer \o wire, PendingBytes)
    /\ closed \/ buffer \o wire = PendingBytes

\* The whole of a message that is no malformed frame is not waited for,
Short == Malformed(Head(Pending)) \/ Len(buffer) < Len(encode_msg(Head(Pending)))

Patient ==
    at = "read" /\ Pending # <<>> => Short /\ needs <= Len(encode_msg(Head(Pending)))

\* and reading ends for a reason.
CutHello == got = <<>> /\ Len(buffer) \in 1 + PstrLen .. 8 + PstrLen

ShortPiece ==
    /\ Pending # <<>> /\ Malformed(Head(Pending))
    /\ Head(Pending)[2] = 7 /\ Len(Head(Pending)[3]) < 8

Reasoned ==
    /\ at = "Reset" => Pending # <<>> /\ Short
    /\ at = "BadId" => Pending # <<>> /\ Head(Pending)[1] = "Other"
    /\ at = "Panic" => CutHello \/ ShortPiece

\* What holds until a malformed frame was taken for a message.
Clean == InLine /\ NeedsFit /\ InStep /\ Patient /\ Reasoned

\* What read_msg returned is what was sent, up to a malformed frame.
InPlace ==
    \A n \in DOMAIN got :
        \/ \E i \in (1 .. n) \cap DOMAIN sent : Malformed(sent[i])
        \/ n \in DOMAIN sent /\ got[n] = sent[n]

CInv ==
    /\ sent \in Seq(Msgs) /\ \E T : got \in Seq(T)
    /\ InPlace
    /\ Derailed \/ Clean

\* What is still to be returned, and its bytes.
LEMMA PendingIs ==
    ASSUME InLine, InStep
    PROVE  /\ Pending = Rest(sent, got) /\ Pending \in Seq(Msgs)
           /\ PendingBytes = Encoded(Pending) /\ PendingBytes \in Seq(Bytes)
           /\ Pending = <<>> => PendingBytes = <<>> /\ Len(got) = Len(sent)
           /\ Pending # <<>> =>
                /\ Head(Pending) \in Msgs /\ Tail(Pending) \in Seq(Msgs)
                /\ IF got = <<>> THEN Head(Pending) = Hello ELSE Head(Pending) \in Alphabet
                /\ PendingBytes = encode_msg(Head(Pending)) \o Encoded(Tail(Pending))
                /\ encode_msg(Head(Pending)) \in Seq(Bytes)
                /\ Encoded(Tail(Pending)) \in Seq(Bytes)
<1>1. sent \in Seq(Msgs) /\ got \in Seq(Msgs) /\ InTurn(sent) /\ IsPrefix(got, sent)
  BY DEF InLine, InStep
<1>2. Pending = Rest(sent, got)
  BY DEF Pending, Rest
<1>3. /\ Pending \in Seq(Msgs) /\ (Pending = <<>> => Len(got) = Len(sent))
      /\ Pending # <<>> =>
           /\ Head(Pending) \in Msgs
           /\ IF got = <<>> THEN Head(Pending) = Hello ELSE Head(Pending) \in Alphabet
  BY <1>1, <1>2, RestIs
<1>4. PendingBytes = Encoded(Pending)
  BY DEF PendingBytes, Encoded
<1>5. Encoded(Pending) \in Seq(Bytes) /\ (Pending = <<>> => Encoded(Pending) = <<>>)
  BY <1>3, EncodedTyped
<1>6. ASSUME Pending # <<>>
      PROVE  /\ Tail(Pending) \in Seq(Msgs)
             /\ Encoded(Pending) = encode_msg(Head(Pending)) \o Encoded(Tail(Pending))
             /\ encode_msg(Head(Pending)) \in Seq(Bytes)
             /\ Encoded(Tail(Pending)) \in Seq(Bytes)
  <2>1. Tail(Pending) \in Seq(Msgs)
    BY <1>3, <1>6, HeadTailProperties
  <2>2. Encoded(Pending) = encode_msg(Head(Pending)) \o Encoded(Tail(Pending))
    BY <1>3, <1>6, EncodedHead
  <2>3. encode_msg(Head(Pending)) \in Seq(Bytes) /\ Encoded(Tail(Pending)) \in Seq(Bytes)
    BY <1>3, <1>6, <2>1, Encodes, EncodedTyped
  <2> QED  BY <2>1, <2>2, <2>3
<1> QED  BY <1>2, <1>3, <1>4, <1>5, <1>6

\* The buffer holds the beginning of what is still to be returned.
LEMMA FrontAgrees ==
    ASSUME InLine, InStep
    PROVE  /\ Pending = <<>> => buffer = <<>> /\ wire = <<>>
           /\ Pending # <<>> => Agrees(buffer, encode_msg(Head(Pending)))
<1>1. PICK f \in Seq(Bytes) :
        /\ f = buffer \o wire /\ Len(f) = Len(buffer) + Len(wire)
        /\ \A i \in 1 .. Len(buffer) : f[i] = buffer[i]
  <2>1. buffer \in Seq(Bytes) /\ wire \in Seq(Bytes)
    BY DEF InLine
  <2>2. /\ buffer \o wire \in Seq(Bytes) /\ Len(buffer \o wire) = Len(buffer) + Len(wire)
        /\ \A i \in 1 .. Len(buffer) : (buffer \o wire)[i] = buffer[i]
    BY <2>1, Joined
  <2> QED  BY <2>2, Zenon
<1>2. PICK p \in Seq(Bytes) : p = PendingBytes
  BY PendingIs
<1>3. Len(f) <= Len(p) /\ \A i \in 1 .. Len(f) : f[i] = p[i]
  <2>1. IsPrefix(f, p)
    BY <1>1, <1>2 DEF InStep
  <2> QED  BY <2>1, PrefixOf
<1>4. Len(buffer) \in Nat /\ Len(wire) \in Nat
  BY DEF InLine
<1>5. ASSUME Pending = <<>> PROVE buffer = <<>> /\ wire = <<>>
  <2>1. p = <<>>
    BY <1>2, <1>5, PendingIs
  <2>2. Len(buffer) = 0 /\ Len(wire) = 0
    BY <1>1, <1>3, <1>4, <2>1
  <2> QED  BY <2>2, EmptySeq DEF InLine
<1>6. ASSUME Pending # <<>> PROVE Agrees(buffer, encode_msg(Head(Pending)))
  <2>1. PICK e \in Seq(Bytes), r \in Seq(Bytes) : e = encode_msg(Head(Pending)) /\ p = e \o r
    BY <1>2, <1>6, PendingIs
  <2>2. \A i \in 1 .. Len(e) : p[i] = e[i]
    BY <2>1, Joined
  <2>3. ASSUME NEW i \in 1 .. Len(buffer), i <= Len(e) PROVE buffer[i] = e[i]
    <3>1. i \in 1 .. Len(f) /\ i \in 1 .. Len(e)
      BY <1>1, <1>4, <2>3
    <3> QED  BY <1>1, <1>3, <2>2, <3>1
  <2> QED  BY <2>1, <2>3 DEF Agrees
<1> QED  BY <1>5, <1>6

\* The whole of the next message is in the buffer.
Whole == Pending # <<>> /\ Len(buffer) >= Len(encode_msg(Head(Pending)))

\* What the decoder answers: the next message exactly when all of it is there, unless
\* it is malformed.
LEMMA Decoding ==
    ASSUME InLine, InStep
    PROVE  \/ Whole /\ Decoded = Ok(Head(Pending), Len(encode_msg(Head(Pending))))
           \/ Whole /\ Decoded = BadId /\ Head(Pending)[1] = "Other"
           \/ ~Whole /\ \E n \in 0 .. Enough : Decoded = Need(n)
           \/ Decoded = Panic /\ CutHello
           \/ Pending # <<>> /\ Malformed(Head(Pending)) /\ Decoded.is = "Ok"
           \/ Pending # <<>> /\ Malformed(Head(Pending)) /\ \E n \in 0 .. Enough : Decoded = Need(n)
           \/ Decoded = Panic /\ ShortPiece
<1>0. buffer \in Seq(Bytes) /\ Len(buffer) \in Nat
  BY DEF InLine
<1>1. CASE Pending = <<>>
  <2>1. buffer = <<>> /\ Len(buffer) = 0
    BY <1>1, FrontAgrees
  <2>2. CASE got = <<>>
    <3>1. Decoded = Need(1) /\ Enough = 1
      BY <1>1, <2>1, <2>2 DEF Decoded, decode_handshake, Enough
    <3> QED  BY <1>1, <3>1 DEF Whole
  <2>3. CASE got # <<>>
    <3>1. Decoded = Need(4) /\ Enough = 4
      BY <1>1, <2>1, <2>3 DEF Decoded, decode, Enough
    <3> QED  BY <1>1, <3>1 DEF Whole
  <2> QED  BY <2>2, <2>3
<1>2. CASE Pending # <<>>
  <2>1. Agrees(buffer, encode_msg(Head(Pending)))
    BY <1>2, FrontAgrees
  <2>2. PICK m \in Msgs, L \in Nat : m = Head(Pending) /\ L = Len(encode_msg(m)) /\ Enough = L
    <3>1. Head(Pending) \in Msgs /\ Len(encode_msg(Head(Pending))) \in Nat
      BY <1>2, PendingIs
    <3>2. Enough = Len(encode_msg(Head(Pending)))
      BY <1>2 DEF Enough
    <3> QED  BY <3>1, <3>2, Zenon
  <2>3. Whole <=> Len(buffer) >= L
    BY <1>2, <2>2 DEF Whole
  <2>4. CASE got = <<>>
    <3>1. m = Hello /\ Decoded = decode_handshake(buffer)
      BY <1>2, <2>2, <2>4, PendingIs DEF Decoded
    <3>2. PICK k \in Nat : k = 9 + PstrLen + 2 * IdLen
      BY ConnectionAssumption DEF Bytes
    <3>3. /\ L = k
          /\ Len(buffer) >= k => decode_handshake(buffer) = Ok(Hello, k)
          /\ Len(buffer) < k =>
               \/ \E n \in 0 .. k : decode_handshake(buffer) = Need(n)
               \/ decode_handshake(buffer) = Panic /\ Len(buffer) \in 1 + PstrLen .. 8 + PstrLen
      BY <1>0, <2>1, <2>2, <3>1, <3>2, HelloBack
    <3>4. Len(buffer) >= k \/ Len(buffer) < k
      BY <1>0
    <3> QED  BY <1>0, <2>2, <2>3, <2>4, <3>1, <3>3, <3>4 DEF CutHello
  <2>5. CASE got # <<>> /\ Malformed(m)
    <3>1. IsMessage(m) /\ Decoded = decode(buffer)
      BY <1>2, <2>2, <2>5, PendingIs, ConnectionAssumption DEF Decoded
    <3>2. /\ m[2] \in 4 .. 8 /\ m[3] \in Seq(Bytes) /\ 1 + Len(m[3]) \in U32
          /\ encode_msg(m) = Frame(m[2], m[3]) /\ L = 5 + Len(m[3])
      BY <2>2, <2>5, <3>1, MalformedIs
    <3>3. /\ Len(buffer) < L => \E n \in 0 .. L : Decoded = Need(n)
          /\ Len(buffer) >= L => Misread(Decoded, m[2], m[3])
      BY <1>0, <2>1, <2>2, <3>1, <3>2, MalformedSeen
    <3>4. CASE Len(buffer) < L
      BY <1>0, <2>2, <2>3, <3>3, <3>4
    <3>5. CASE Len(buffer) >= L
      <4>1. 4 \in 0 .. L
        BY <3>2
      <4>2. \/ Decoded.is = "Ok" \/ Decoded = Need(4)
            \/ Decoded = Panic /\ m[2] = 7 /\ Len(m[3]) < 8
        BY <3>3, <3>5 DEF Misread
      <4> QED  BY <1>2, <2>2, <2>5, <4>1, <4>2 DEF ShortPiece
    <3> QED  BY <1>0, <2>2, <3>4, <3>5
  <2>6. CASE got # <<>> /\ ~Malformed(m)
    <3>1. m \in Alphabet /\ Decoded = decode(buffer)
      BY <1>2, <2>2, <2>6, PendingIs DEF Decoded
    <3>2. Recognised(m)
      BY <2>6, <3>1, ConnectionAssumption, MessagesBack
    <3>3. /\ Len(buffer) < L => \E n \in 0 .. L : decode(buffer) = Need(n)
          /\ Len(buffer) >= L => decode(buffer) = Answer(m)
      BY <1>0, <2>1, <2>2, <3>2 DEF Recognised
    <3>4. Len(buffer) >= L \/ Len(buffer) < L
      BY <1>0, <2>2
    <3>5. CASE Len(buffer) >= L
      <4>1. Whole /\ Decoded = Answer(m)
        BY <2>3, <3>1, <3>3, <3>5
      <4>2. Decoded = Ok(m, L) \/ (Decoded = BadId /\ m[1] = "Other")
        BY <2>2, <4>1, Zenon DEF Answer
      <4> QED  BY <2>2, <4>1, <4>2, Zenon
    <3>6. CASE Len(buffer) < L
      BY <1>0, <2>2, <2>3, <3>1, <3>3, <3>6
    <3> QED  BY <3>4, <3>5, <3>6
  <2> QED  BY <2>4, <2>5, <2>6
<1> QED  BY <1>1, <1>2

-----------------------------------------------------------------------------
(* The steps.                                                              *)

\* At the start nothing is sent.
LEMMA StartsClean == ConnInit => Clean
<1> SUFFICES ASSUME ConnInit PROVE Clean
  OBVIOUS
<1>1. /\ sent = <<>> /\ got = <<>> /\ buffer = <<>> /\ wire = <<>>
      /\ needs = 0 /\ at = "decode" /\ closed = FALSE
  BY DEF ConnInit
<1>2. InLine
  <2>1. <<>> \in Seq(Msgs) /\ <<>> \in Seq(Bytes) /\ Len(<<>>) = 0
    OBVIOUS
  <2>2. InTurn(<<>>)
    BY <2>1 DEF InTurn
  <2> QED  BY <1>1, <2>1, <2>2 DEF InLine
<1>3. Rest(sent, got) = <<>>
  BY <1>1 DEF Rest
<1>4. Pending = <<>>
  BY <1>3 DEF Pending, Rest
<1>5. PendingBytes = <<>>
  <2>1. Pending \in Seq(Msgs)
    BY <1>4
  <2>2. Encoded(Pending) = <<>>
    BY <1>4, <2>1, EncodedTyped
  <2> QED  BY <2>2 DEF PendingBytes, Encoded
<1>6. InStep
  <2>1. buffer \o wire = <<>>
    BY <1>1
  <2>2. IsPrefix(<<>>, <<>>)
    BY DEF IsPrefix
  <2> QED  BY <1>1, <1>5, <2>1, <2>2 DEF InStep
<1>7. NeedsFit /\ Patient /\ Reasoned
  BY <1>1, <1>4 DEF NeedsFit, Enough, Patient, Reasoned
<1> QED  BY <1>2, <1>6, <1>7 DEF Clean

\* A step that leaves what is sent and what is returned leaves what is pending.
LEMMA PendingKept ==
    ASSUME UNCHANGED <<sent, got>>
    PROVE  Pending' = Pending /\ PendingBytes' = PendingBytes /\ Enough' = Enough
<1>1. Pending' = Pending
  BY DEF Pending
<1> QED  BY <1>1 DEF PendingBytes, Enough

\* A message leaves: it is next if nothing was pending, and then none of it is in
\* the buffer.
LEMMA SendsKeep ==
    ASSUME Clean, Sends
    PROVE  Clean'
<1>1. /\ InLine /\ InStep /\ NeedsFit /\ Patient /\ Reasoned
      /\ closed = FALSE /\ UNCHANGED <<closed, buffer, needs, at, got>>
  BY DEF Clean, Sends, InLine
<1>2. PICK m : /\ m \in IF sent = <<>> THEN {Hello} ELSE Alphabet
              /\ sent' = Append(sent, m) /\ wire' = wire \o encode_msg(m)
  BY DEF Sends
<1>3. sent \in Seq(Msgs) /\ got \in Seq(Msgs) /\ InTurn(sent) /\ IsPrefix(got, sent) /\ m \in Msgs
  BY <1>1, <1>2 DEF InLine, InStep, Msgs
<1>4. /\ sent' \in Seq(Msgs) /\ InTurn(sent') /\ IsPrefix(got, sent')
      /\ Pending' = Append(Pending, m)
  BY <1>1, <1>2, <1>3, RestSent DEF Pending, Rest
<1>5. PICK e \in Seq(Bytes) : e = encode_msg(m) /\ Len(e) >= 1 /\ (m \in Alphabet => Len(e) >= 4)
  BY <1>3, Encodes
<1>6. Pending \in Seq(Msgs) /\ Pending' \in Seq(Msgs)
  BY <1>1, <1>3, <1>4, PendingIs
<1>7. PendingBytes' = PendingBytes \o e
  <2>1. Encoded(Append(Pending, m)) = Encoded(Pending) \o e
    BY <1>3, <1>5, <1>6, EncodedAppend
  <2>2. PendingBytes = Encoded(Pending) /\ PendingBytes' = Encoded(Pending')
    BY DEF PendingBytes, Encoded
  <2> QED  BY <1>4, <2>1, <2>2
<1>8. InLine'
  <2>1. wire \o e \in Seq(Bytes)
    BY <1>1 DEF InLine
  <2> QED  BY <1>1, <1>2, <1>4, <1>5, <2>1 DEF InLine
<1>9. InStep'
  <2>1. buffer \in Seq(Bytes) /\ wire \in Seq(Bytes)
    BY <1>1 DEF InLine
  <2>2. buffer \o (wire \o e) = (buffer \o wire) \o e
    BY <2>1, SMT
  <2>3. buffer \o wire = PendingBytes
    BY <1>1 DEF InStep
  <2>4. (buffer \o wire)' = PendingBytes'
    BY <1>1, <1>2, <1>5, <1>7, <2>2, <2>3
  <2>5. PendingBytes' \in Seq(Bytes)
    <3>1. PendingBytes \in Seq(Bytes)
      BY <1>1, PendingIs
    <3> QED  BY <1>7, <3>1
  <2>6. IsPrefix(PendingBytes', PendingBytes')
    BY <2>5, PrefixOf
  <2>7. IsPrefix(got', sent')
    BY <1>1, <1>4
  <2> QED  BY <2>4, <2>6, <2>7 DEF InStep
<1>10. Pending' # <<>>
  BY <1>4, <1>6, AppendProperties
<1>11. CASE Pending # <<>>
  <2>1. Head(Pending') = Head(Pending)
    BY <1>3, <1>4, <1>6, <1>11, HeadTailAppend
  <2>2. Enough' = Enough
    BY <1>10, <1>11, <2>1 DEF Enough
  <2>3. NeedsFit' /\ Patient' /\ Reasoned'
    BY <1>1, <1>10, <1>11, <2>1, <2>2 DEF NeedsFit, Patient, Reasoned, Short, CutHello, ShortPiece
  <2> QED  BY <1>8, <1>9, <2>3 DEF Clean
<1>12. CASE Pending = <<>>
  <2>1. Head(Pending') = m
    BY <1>3, <1>4, <1>6, <1>12, HeadTailAppend
  <2>2. buffer = <<>> /\ Len(buffer) = 0 /\ Len(got) = Len(sent)
    BY <1>1, <1>12, FrontAgrees, PendingIs
  <2>3. Enough' = Len(e)
    BY <1>5, <1>10, <2>1 DEF Enough
  <2>4. needs <= Len(e)
    <3>1. got = <<>> <=> sent = <<>>
      BY <1>3, <2>2, EmptySeq
    <3>2. needs \in Nat /\ needs <= IF got = <<>> THEN 1 ELSE 4
      BY <1>1, <1>12 DEF NeedsFit, Enough, InLine
    <3>3. got = <<>> \/ m \in Alphabet
      BY <1>2, <3>1
    <3>4. Len(e) \in Nat
      OBVIOUS
    <3> QED  BY <1>5, <3>2, <3>3, <3>4
  <2>5. NeedsFit'
    BY <1>1, <2>3, <2>4 DEF NeedsFit
  <2>6. Patient'
    BY <1>1, <1>5, <2>1, <2>2, <2>4 DEF Patient, Short
  <2>7. Reasoned'
    BY <1>1, <1>12 DEF Reasoned, CutHello, ShortPiece
  <2> QED  BY <1>8, <1>9, <2>5, <2>6, <2>7 DEF Clean
<1> QED  BY <1>11, <1>12

\* The end of what is under way is lost.
LEMMA ClosesKeep ==
    ASSUME Clean, Closes
    PROVE  Clean'
<1>1. /\ InLine /\ InStep /\ NeedsFit /\ Patient /\ Reasoned
      /\ closed' = TRUE /\ UNCHANGED <<sent, buffer, needs, at, got>>
  BY DEF Clean, Closes
<1>2. Pending' = Pending /\ PendingBytes' = PendingBytes /\ Enough' = Enough
  BY <1>1, PendingKept
<1>3. buffer \in Seq(Bytes) /\ wire \in Seq(Bytes) /\ Len(buffer) \in Nat /\ Len(wire) \in Nat
  BY <1>1 DEF InLine
<1>4. PICK n \in 0 .. Len(wire) : wire' = SubSeq(wire, 1, n)
  BY DEF Closes
<1>5. PICK w \in Seq(Bytes) : w = wire' /\ Len(w) = n /\ \A i \in 1 .. n : w[i] = wire[i]
  <2>1. PICK w : w = SubSeq(wire, 1, n)
    OBVIOUS
  <2>2. w \in Seq(Bytes) /\ Len(w) = n /\ \A i \in 1 .. n : w[i] = wire[i]
    BY <1>3, <2>1
  <2> QED  BY <1>4, <2>1, <2>2, Zenon
<1>6. InLine'
  BY <1>1, <1>5 DEF InLine
<1>7. PICK N \in Nat, M \in Nat : N = Len(buffer) /\ M = Len(wire) /\ n <= M
  BY <1>3
<1>8. PICK f \in Seq(Bytes) :
        /\ f = buffer \o wire /\ Len(f) = N + M
        /\ \A i \in 1 .. N : f[i] = buffer[i]
        /\ \A i \in 1 .. M : f[N + i] = wire[i]
  <2>1. /\ buffer \o wire \in Seq(Bytes) /\ Len(buffer \o wire) = Len(buffer) + Len(wire)
        /\ \A i \in 1 .. Len(buffer) : (buffer \o wire)[i] = buffer[i]
        /\ \A i \in 1 .. Len(wire) : (buffer \o wire)[Len(buffer) + i] = wire[i]
    BY <1>3, Joined
  <2> QED  BY <1>7, <2>1, Zenon
<1>9. PICK h \in Seq(Bytes) :
        /\ h = buffer \o w /\ Len(h) = N + n
        /\ \A i \in 1 .. N : h[i] = buffer[i]
        /\ \A i \in 1 .. n : h[N + i] = w[i]
  <2>1. /\ buffer \o w \in Seq(Bytes) /\ Len(buffer \o w) = Len(buffer) + Len(w)
        /\ \A i \in 1 .. Len(buffer) : (buffer \o w)[i] = buffer[i]
        /\ \A i \in 1 .. Len(w) : (buffer \o w)[Len(buffer) + i] = w[i]
    BY <1>3, Joined
  <2> QED  BY <1>5, <1>7, <2>1, Zenon
<1>10. PICK p \in Seq(Bytes) : p = PendingBytes
  BY <1>1, PendingIs
<1>11. Len(f) <= Len(p) /\ \A i \in 1 .. Len(f) : f[i] = p[i]
  <2>1. IsPrefix(f, p)
    BY <1>1, <1>8, <1>10 DEF InStep
  <2> QED  BY <2>1, PrefixOf
<1>12. IsPrefix(h, p)
  <2>1. \A i \in 1 .. N + n : h[i] = p[i]
    <3> TAKE i \in 1 .. N + n
    <3>1. CASE i <= N
      <4>1. i \in 1 .. N /\ i \in 1 .. Len(f)
        BY <1>7, <1>8, <3>1
      <4> QED  BY <1>8, <1>9, <1>11, <4>1
    <3>2. CASE i > N
      <4>1. i - N \in 1 .. n /\ N + (i - N) = i
        BY <1>7, <3>2
      <4>2. PICK j \in 1 .. n : N + j = i
        BY <4>1, Zenon
      <4>3. j \in 1 .. M /\ i \in 1 .. Len(f)
        BY <1>7, <1>8, <4>2
      <4>4. h[N + j] = w[j] /\ f[N + j] = wire[j] /\ w[j] = wire[j]
        BY <1>5, <1>8, <1>9, <4>2, <4>3
      <4> QED  BY <1>11, <4>2, <4>3, <4>4
    <3> QED  BY <1>7, <3>1, <3>2
  <2>2. Len(h) <= Len(p)
    BY <1>7, <1>8, <1>9, <1>11
  <2> QED  BY <1>9, <2>1, <2>2, PrefixOf
<1>13. InStep'
  BY <1>1, <1>2, <1>5, <1>9, <1>10, <1>12 DEF InStep
<1>14. NeedsFit' /\ Patient' /\ Reasoned'
  BY <1>1, <1>2 DEF NeedsFit, Patient, Reasoned, Short, CutHello, ShortPiece
<1> QED  BY <1>6, <1>13, <1>14 DEF Clean

\* A round of the loop: the next message is returned when it is there, and whatever
\* else the decoder answers fits what is there.
LEMMA AttemptKeeps ==
    ASSUME Clean, Attempt
    PROVE  Clean' \/ Derailed'
<1>1. /\ InLine /\ InStep /\ NeedsFit /\ Patient /\ Reasoned
      /\ at = "decode" /\ UNCHANGED <<sent, wire, closed>>
  BY DEF Clean, Attempt
<1>2. ASSUME UNCHANGED <<buffer, got>>, needs' \in Nat PROVE InLine' /\ InStep'
  <2>1. PendingBytes' = PendingBytes
    BY <1>1, <1>2, PendingKept
  <2> QED  BY <1>1, <1>2, <2>1 DEF InLine, InStep
<1>3. CASE Len(buffer) < needs /\ at' = "read" /\ UNCHANGED <<buffer, needs, got>>
  <2>1. Pending' = Pending /\ Enough' = Enough
    BY <1>1, <1>3, PendingKept
  <2>2. needs \in Nat /\ Len(buffer) \in Nat
    BY <1>1 DEF InLine
  <2>3. Pending # <<>> => Enough = Len(encode_msg(Head(Pending))) /\ Enough \in Nat
    BY <1>1, PendingIs DEF Enough
  <2>4. NeedsFit' /\ Reasoned'
    BY <1>1, <1>3, <2>1 DEF NeedsFit, Reasoned
  <2>5. Pending # <<>> => Len(buffer) < Enough /\ needs <= Enough
    BY <1>1, <1>3, <2>2, <2>3 DEF NeedsFit
  <2>6. Patient'
    BY <1>3, <2>1, <2>3, <2>5 DEF Patient, Short
  <2> QED  BY <1>2, <1>3, <2>2, <2>4, <2>6 DEF Clean
<1>4. CASE /\ Decoded.is = "Ok" /\ got' = Append(got, Decoded.msg) /\ Advances(Decoded)
           /\ needs' = 0 /\ UNCHANGED at
           /\ Whole /\ Decoded = Ok(Head(Pending), Len(encode_msg(Head(Pending))))
  <2>1. Whole /\ Decoded = Ok(Head(Pending), Len(encode_msg(Head(Pending))))
    BY <1>4
  <2>2. Pending # <<>> /\ Len(buffer) >= Len(encode_msg(Head(Pending)))
    BY <2>1 DEF Whole
  <2>3. PICK m \in Msgs, e \in Seq(Bytes) : m = Head(Pending) /\ e = encode_msg(m)
    BY <1>1, <2>2, PendingIs
  <2>4. Decoded.msg = m /\ Decoded.used = Len(e)
    BY <2>1, <2>3 DEF Ok
  <2>5. /\ got' \in Seq(Msgs) /\ IsPrefix(got', sent') /\ Pending' = Tail(Pending)
    <3>1. /\ sent \in Seq(Msgs) /\ got \in Seq(Msgs) /\ InTurn(sent) /\ IsPrefix(got, sent)
          /\ Pending = Rest(sent, got)
      BY <1>1, PendingIs DEF InLine, InStep
    <3>2. got' = Append(got, m)
      BY <1>4, <2>4
    <3>3. /\ Append(got, m) \in Seq(Msgs) /\ IsPrefix(Append(got, m), sent)
          /\ Rest(sent, Append(got, m)) = Tail(Rest(sent, got))
      BY <2>2, <2>3, <3>1, RestReturned
    <3>4. Pending' = Rest(sent', got')
      BY DEF Pending, Rest
    <3> QED  BY <1>1, <3>1, <3>2, <3>3, <3>4
  <2>6. PICK r \in Seq(Bytes) : r = Encoded(Tail(Pending)) /\ PendingBytes = e \o r
    BY <1>1, <2>2, <2>3, PendingIs
  <2>7. PendingBytes' = r
    <3>1. PendingBytes' = Encoded(Pending')
      BY DEF PendingBytes, Encoded
    <3> QED  BY <2>5, <2>6, <3>1
  <2>8. buffer' = SubSeq(buffer, Len(e) + 1, Len(buffer))
    BY <1>4, <2>4 DEF Advances
  <2>9. buffer \in Seq(Bytes) /\ wire \in Seq(Bytes) /\ Agrees(buffer, e)
    BY <1>1, <2>2, <2>3, FrontAgrees DEF InLine
  <2>10. /\ buffer' \in Seq(Bytes)
         /\ IsPrefix(buffer \o wire, e \o r) => IsPrefix(buffer' \o wire, r)
         /\ buffer \o wire = e \o r => buffer' \o wire = r
    <3>1. Len(buffer) >= Len(e)
      BY <2>2, <2>3
    <3>2. \E c \in Seq(Bytes) : LeftOver(c, buffer, wire, e, r)
      BY <2>9, <3>1, TakenOff
    <3> QED  BY <2>8, <3>2, Zenon DEF LeftOver
  <2>11. InLine'
    BY <1>1, <1>4, <2>5, <2>10 DEF InLine
  <2>12. InStep'
    BY <1>1, <2>5, <2>6, <2>7, <2>10 DEF InStep
  <2>13. NeedsFit'
    <3>1. (Pending # <<>> => Len(encode_msg(Head(Pending))) \in Nat)'
      BY <2>11, <2>12, PendingIs
    <3> QED  BY <1>4, <3>1 DEF NeedsFit, Enough
  <2>14. Patient' /\ Reasoned'
    BY <1>1, <1>4 DEF Patient, Reasoned
  <2> QED  BY <2>11, <2>12, <2>13, <2>14 DEF Clean
<1>5. CASE /\ Decoded.is = "TryGetError" /\ needs' = Decoded.requested
           /\ at' = "read" /\ UNCHANGED <<buffer, got>>
  <2>1. /\ ~Whole \/ (Pending # <<>> /\ Malformed(Head(Pending)))
        /\ \E n \in 0 .. Enough : Decoded = Need(n)
    BY <1>1, <1>5, Decoding DEF Ok, Need, BadId, Panic
  <2>2. PICK n \in 0 .. Enough : needs' = n
    BY <1>5, <2>1 DEF Need
  <2>3. Pending' = Pending /\ Enough' = Enough
    BY <1>1, <1>5, PendingKept
  <2>4. Enough \in Nat /\ (Pending # <<>> => Enough = Len(encode_msg(Head(Pending))))
    BY <1>1, PendingIs DEF Enough
  <2>5. NeedsFit' /\ Reasoned' /\ needs' \in Nat
    BY <1>5, <2>2, <2>3, <2>4 DEF NeedsFit, Reasoned
  <2>6. Patient'
    <3>1. Len(buffer) \in Nat
      BY <1>1 DEF InLine
    <3>2. Pending # <<>> => Malformed(Head(Pending)) \/ Len(buffer) < Enough
      BY <2>1, <2>4, <3>1 DEF Whole
    <3> QED  BY <1>5, <2>2, <2>3, <2>4, <3>2 DEF Patient, Short
  <2> QED  BY <1>2, <1>5, <2>5, <2>6 DEF Clean
<1>6. CASE /\ Decoded.is \in {"BadId", "Panic"} /\ at' = Decoded.is
           /\ UNCHANGED <<buffer, needs, got>>
  <2>1. Pending' = Pending /\ Enough' = Enough
    BY <1>1, <1>6, PendingKept
  <2>2. \/ at' = "BadId" /\ Pending # <<>> /\ Head(Pending)[1] = "Other"
        \/ at' = "Panic" /\ (CutHello \/ ShortPiece)
    BY <1>1, <1>6, Decoding DEF Ok, Need, BadId, Panic, Whole
  <2>3. NeedsFit' /\ Patient' /\ needs' \in Nat
    BY <1>1, <1>6, <2>1, <2>2 DEF NeedsFit, Patient, InLine
  <2>4. Reasoned'
    BY <1>6, <2>1, <2>2 DEF Reasoned, CutHello, ShortPiece
  <2> QED  BY <1>2, <1>6, <2>3, <2>4 DEF Clean
<1>7. CASE /\ got' = Append(got, Decoded.msg)
           /\ Pending # <<>> /\ Malformed(Head(Pending)) /\ Decoded.is = "Ok"
  <2>1. PICK k \in Nat : k = Len(got) /\ k < Len(sent) /\ Head(Pending) = sent[k + 1]
    <3>1. /\ sent \in Seq(Msgs) /\ got \in Seq(Msgs) /\ InTurn(sent) /\ IsPrefix(got, sent)
          /\ Rest(sent, got) = Pending
      BY <1>1, PendingIs DEF InLine, InStep
    <3>2. Len(got) \in Nat /\ Len(got) < Len(sent) /\ Head(Pending) = sent[Len(got) + 1]
      BY <1>7, <3>1, RestIs
    <3> QED  BY <3>2
  <2>2. k + 1 \in DOMAIN sent
    BY <1>1, <2>1 DEF InLine
  <2>3. k + 1 \in DOMAIN got'
    <3>1. got \in Seq(Msgs)
      BY <1>1 DEF InLine
    <3> QED  BY <1>7, <2>1, <3>1
  <2>4. Malformed(sent'[k + 1]) /\ k + 1 \in DOMAIN got' \cap DOMAIN sent'
    BY <1>1, <1>7, <2>1, <2>2, <2>3
  <2> QED  BY <2>4 DEF Derailed
<1>8. ASSUME Decoded.is = "Ok"
      PROVE  \/ Whole /\ Decoded = Ok(Head(Pending), Len(encode_msg(Head(Pending))))
             \/ Pending # <<>> /\ Malformed(Head(Pending))
  BY <1>1, <1>8, Decoding DEF Ok, Need, BadId, Panic
<1>9. \/ Len(buffer) < needs /\ at' = "read" /\ UNCHANGED <<buffer, needs, got>>
      \/ /\ Decoded.is = "Ok" /\ got' = Append(got, Decoded.msg) /\ Advances(Decoded)
         /\ needs' = 0 /\ UNCHANGED at
      \/ /\ Decoded.is = "TryGetError" /\ needs' = Decoded.requested
         /\ at' = "read" /\ UNCHANGED <<buffer, got>>
      \/ /\ Decoded.is \in {"BadId", "Panic"} /\ at' = Decoded.is
         /\ UNCHANGED <<buffer, needs, got>>
  BY DEF Attempt
<1> QED  BY <1>3, <1>4, <1>5, <1>6, <1>7, <1>8, <1>9

\* What arrives moves from the wire into the buffer.
LEMMA ReadBytesKeeps ==
    ASSUME Clean, ReadBytes
    PROVE  Clean'
<1>1. /\ InLine /\ InStep /\ NeedsFit /\ Reasoned
      /\ at' = "decode" /\ UNCHANGED <<sent, closed, needs, got>>
  BY DEF Clean, ReadBytes
<1>2. Pending' = Pending /\ PendingBytes' = PendingBytes /\ Enough' = Enough
  BY <1>1, PendingKept
<1>3. PICK n \in 1 .. Len(wire) : /\ buffer' = buffer \o SubSeq(wire, 1, n)
                                 /\ wire' = SubSeq(wire, n + 1, Len(wire))
  BY DEF ReadBytes
<1>4. buffer \in Seq(Bytes) /\ wire \in Seq(Bytes)
  BY <1>1 DEF InLine
<1>5. PICK p \in Seq(Bytes), w \in Seq(Bytes) :
        p = SubSeq(wire, 1, n) /\ w = SubSeq(wire, n + 1, Len(wire)) /\ p \o w = wire
  <2>1. SubSeq(wire, 1, n) \in Seq(Bytes) /\ SubSeq(wire, n + 1, Len(wire)) \in Seq(Bytes)
    BY <1>4
  <2>2. SubSeq(wire, 1, n) \o SubSeq(wire, n + 1, Len(wire)) = wire
    BY <1>4
  <2> QED  BY <2>1, <2>2, Zenon
<1>6. buffer' \o wire' = buffer \o wire
  <2>1. (buffer \o p) \o w = buffer \o (p \o w)
    BY <1>4, SMT
  <2> QED  BY <1>3, <1>5, <2>1
<1>7. buffer' \in Seq(Bytes) /\ wire' \in Seq(Bytes)
  <2>1. buffer \o p \in Seq(Bytes)
    BY <1>4
  <2> QED  BY <1>3, <1>5, <2>1
<1>8. InLine' /\ InStep'
  BY <1>1, <1>2, <1>6, <1>7 DEF InLine, InStep
<1>9. NeedsFit' /\ Patient' /\ Reasoned'
  BY <1>1, <1>2 DEF NeedsFit, Patient, Reasoned
<1> QED  BY <1>8, <1>9 DEF Clean

\* The steps that change neither the stream nor what is returned of it.
LEMMA OthersKeep ==
    ASSUME Clean, ReadEnd \/ Dropped \/ HandshakeTimesOut \/ Fails
    PROVE  Clean'
<1>1. /\ InLine /\ InStep /\ NeedsFit /\ Patient /\ Reasoned
      /\ UNCHANGED <<sent, wire, closed, buffer, got>>
      /\ needs' \in {needs, 0}
  BY DEF Clean, ReadEnd, Dropped, HandshakeTimesOut, Fails
<1>2. Pending' = Pending /\ PendingBytes' = PendingBytes /\ Enough' = Enough
  BY <1>1, PendingKept
<1>3. InLine' /\ InStep'
  BY <1>1, <1>2 DEF InLine, InStep
<1>4. NeedsFit'
  <2>1. Enough \in Nat
    BY <1>1, PendingIs DEF Enough
  <2> QED  BY <1>1, <1>2, <2>1 DEF NeedsFit, InLine
<1>5. /\ at' \in {"Closed", "Reset", "decode", "TimedOut", "Failed"}
      /\ at' = "Reset" => at = "read" /\ buffer # <<>>
  BY DEF ReadEnd, Dropped, HandshakeTimesOut, Fails
<1>6. Patient'
  BY <1>5 DEF Patient
<1>7. Reasoned'
  <2>1. buffer # <<>> => Pending # <<>>
    BY <1>1, FrontAgrees
  <2>2. at = "read" /\ Pending # <<>> => Short
    BY <1>1 DEF Patient
  <2>3. Short' = Short
    BY <1>1, <1>2 DEF Short
  <2> QED  BY <1>1, <1>2, <1>5, <2>1, <2>2, <2>3 DEF Reasoned
<1> QED  BY <1>3, <1>4, <1>6, <1>7 DEF Clean

\* What is sent stays sent, and what is returned stays returned, one message at a
\* time.
LEMMA Grows ==
    ASSUME CInv, [ConnNext]_connVars
    PROVE  /\ sent' \in Seq(Msgs) /\ \E T : got' \in Seq(T)
           /\ \A i \in DOMAIN sent : i \in DOMAIN sent' /\ sent'[i] = sent[i]
           /\ \A i \in DOMAIN got : i \in DOMAIN got' /\ got'[i] = got[i]
           /\ Len(got') <= Len(got) + 1
<1>1. sent \in Seq(Msgs)
  BY DEF CInv
<1>2. PICK T : got \in Seq(T)
  BY DEF CInv
<1>3. \/ UNCHANGED sent
      \/ \E m \in Msgs : sent' = Append(sent, m)
  BY DEF ConnNext, connVars, Sends, Closes, Attempt, ReadBytes, ReadEnd, Dropped,
         HandshakeTimesOut, Fails, Msgs
<1>4. \/ UNCHANGED got
      \/ \E m : got' = Append(got, m)
  BY DEF ConnNext, connVars, Sends, Closes, Attempt, ReadBytes, ReadEnd, Dropped,
         HandshakeTimesOut, Fails
<1>5. sent' \in Seq(Msgs) /\ \A i \in DOMAIN sent : i \in DOMAIN sent' /\ sent'[i] = sent[i]
  <2>1. CASE UNCHANGED sent
    BY <1>1, <2>1
  <2>2. ASSUME NEW m \in Msgs, sent' = Append(sent, m)
        PROVE  sent' \in Seq(Msgs) /\ \A i \in DOMAIN sent : i \in DOMAIN sent' /\ sent'[i] = sent[i]
    BY <1>1, <2>2
  <2> QED  BY <1>3, <2>1, <2>2
<1>6. /\ \E U : got' \in Seq(U)
      /\ \A i \in DOMAIN got : i \in DOMAIN got' /\ got'[i] = got[i]
      /\ Len(got') <= Len(got) + 1
  <2>1. CASE UNCHANGED got
    BY <1>2, <2>1
  <2>2. ASSUME NEW m, got' = Append(got, m)
        PROVE  /\ got' \in Seq(T \cup {m})
               /\ \A i \in DOMAIN got : i \in DOMAIN got' /\ got'[i] = got[i]
               /\ Len(got') <= Len(got) + 1
    <3>1. PICK U \in {T \cup {m}} : U = T \cup {m} /\ m \in U
      BY Zenon
    <3>2. got \in Seq(U)
      <4>1. DOMAIN got = 1 .. Len(got) /\ Len(got) \in Nat /\ \A i \in 1 .. Len(got) : got[i] \in U
        BY <1>2, <3>1
      <4> QED  BY <1>2, <4>1, IsASeq
    <3> QED  BY <2>2, <3>1, <3>2
  <2> QED  BY <1>4, <2>1, <2>2
<1> QED  BY <1>5, <1>6

\* Every step keeps the invariant: a malformed frame taken for a message stays
\* taken, and what is returned after it is after it.
LEMMA ConnStep == CInv /\ [ConnNext]_connVars => CInv'
<1> SUFFICES ASSUME CInv, [ConnNext]_connVars PROVE CInv'
  OBVIOUS
<1>1. /\ sent' \in Seq(Msgs) /\ \E T : got' \in Seq(T)
      /\ \A i \in DOMAIN sent : i \in DOMAIN sent' /\ sent'[i] = sent[i]
      /\ \A i \in DOMAIN got : i \in DOMAIN got' /\ got'[i] = got[i]
      /\ Len(got') <= Len(got) + 1
  BY Grows
<1>2. Derailed => Derailed'
  BY <1>1 DEF Derailed
<1>3. Clean => Clean' \/ Derailed'
  <2> SUFFICES ASSUME Clean PROVE Clean' \/ Derailed'
    OBVIOUS
  <2>1. CASE ConnNext
    BY <2>1, SendsKeep, ClosesKeep, AttemptKeeps, ReadBytesKeeps, OthersKeep DEF ConnNext
  <2>2. CASE UNCHANGED connVars
    <3>1. Pending' = Pending /\ PendingBytes' = PendingBytes /\ Enough' = Enough
      BY <2>2, PendingKept DEF connVars
    <3> QED  BY <2>2, <3>1 DEF connVars, Clean, InLine, NeedsFit, InStep, Patient, Reasoned,
               Short, CutHello, ShortPiece
  <2> QED  BY <2>1, <2>2
<1>4. Derailed' \/ Clean'
  BY <1>2, <1>3 DEF CInv
<1>5. InPlace'
  <2>1. ASSUME NEW n \in DOMAIN got'
        PROVE  \/ \E i \in (1 .. n) \cap DOMAIN sent' : Malformed(sent'[i])
               \/ n \in DOMAIN sent' /\ got'[n] = sent'[n]
    <3>0. n \in 1 .. Len(got') /\ Len(got') \in Nat
      BY <1>1
    <3>1. CASE Clean'
      <4>1. sent' \in Seq(Msgs) /\ got' \in Seq(Msgs) /\ IsPrefix(got', sent')
        BY <3>1 DEF Clean, InLine, InStep
      <4>2. PICK s \in Seq(Msgs), g \in Seq(Msgs) : s = sent' /\ g = got' /\ IsPrefix(g, s)
        BY <4>1
      <4>3. Len(g) <= Len(s) /\ \A i \in 1 .. Len(g) : g[i] = s[i]
        BY <4>2, PrefixOf
      <4>4. n \in DOMAIN s /\ g[n] = s[n]
        BY <3>0, <4>2, <4>3
      <4> QED  BY <4>2, <4>4
    <3>2. CASE n \in DOMAIN got
      <4>1. \/ \E i \in (1 .. n) \cap DOMAIN sent : Malformed(sent[i])
            \/ n \in DOMAIN sent /\ got[n] = sent[n]
        BY <3>2 DEF CInv, InPlace
      <4> QED  BY <1>1, <3>2, <4>1
    <3>3. CASE n \notin DOMAIN got /\ Derailed'
      <4>1. PICK i \in DOMAIN got' \cap DOMAIN sent' : Malformed(sent'[i])
        BY <3>3 DEF Derailed
      <4>2. PICK T : got \in Seq(T)
        BY DEF CInv
      <4>3. Len(got) \in Nat /\ DOMAIN got = 1 .. Len(got)
        BY <4>2
      <4>4. n = Len(got')
        BY <1>1, <3>0, <3>3, <4>3
      <4>5. i \in 1 .. n
        BY <1>1, <4>1, <4>4
      <4> QED  BY <4>1, <4>5
    <3> QED  BY <1>4, <3>1, <3>2, <3>3
  <2> QED  BY <2>1 DEF InPlace
<1> QED  BY <1>1, <1>4, <1>5 DEF CInv

\* At the start nothing is returned.
LEMMA Starts == ConnInit => CInv
<1> SUFFICES ASSUME ConnInit PROVE CInv
  OBVIOUS
<1>1. sent = <<>> /\ got = <<>>
  BY DEF ConnInit
<1>2. sent \in Seq(Msgs) /\ got \in Seq(Msgs) /\ DOMAIN got = {}
  BY <1>1
<1>3. InPlace
  BY <1>2 DEF InPlace
<1> QED  BY <1>2, <1>3, StartsClean DEF CInv

\* The invariant holds throughout.
THEOREM ConnInvariant == ConnSpec => []CInv
  BY Starts, ConnStep, PTL DEF ConnSpec

\* Whatever frames the peer sends, and however its bytes are cut, read_msg has
\* returned what the peer sent, each message with its fields and in its place, up to
\* the first malformed frame; and until that one is taken for a message the bytes of
\* the rest are in the buffer and under way (net.rs, Connection::read_msg;
\* protocol.rs, the decoders and encoders).
THEOREM NothingEverLostOrRepeated == ConnSpec => []NothingLostOrRepeated
<1>1. CInv => NothingLostOrRepeated
  BY DEF CInv, InPlace, Clean, InStep, NothingLostOrRepeated
<1> QED  BY <1>1, ConnInvariant, PTL

\* read_msg awaits only when the next message is not in the buffer or is a malformed
\* frame, and never for more bytes than that message or frame has.
THEOREM NothingEverHeldBack == ConnSpec => []NothingHeldBack
<1>1. CInv => NothingHeldBack
  BY DEF CInv, Clean, Patient, Short, NothingHeldBack
<1> QED  BY <1>1, ConnInvariant, PTL

\* Until a malformed frame was taken for a message, reading ends with a reset, a bad
\* id or a panic only where the stream gives cause; the two places that panic are
\* the handshake's advance(8) and the Piece's len - 9 (protocol.rs).
THEOREM AlwaysEndsForAReason == ConnSpec => []EndsForAReason
<1>1. CInv => EndsForAReason
  BY DEF CInv, Clean, Reasoned, Short, CutHello, ShortPiece, EndsForAReason
<1> QED  BY <1>1, ConnInvariant, PTL
=============================================================================

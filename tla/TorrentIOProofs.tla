--------------------------- MODULE TorrentIOProofs ---------------------------
(***************************************************************************)
(* The file store, and its agreement with the memory store, for every      *)
(* number and length of pieces, every block size and every set of corrupt  *)
(* pieces, of a torrent whose last piece is full: of another one           *)
(* HonestNeverMismatched is false (run io_short).                          *)
(***************************************************************************)
EXTENDS MemoryIO, SliceOpsProofs

\* The last piece is as long as the others.
FullPieces == Length = TotalPieces * PieceLength

Whole == 0 .. PieceLength - 1

\* Piece p is in f as the torrent has it.
Right(f, p) == \A o \in Whole : f[TorrentByte(p, o)] = TorrentByte(p, o)

-----------------------------------------------------------------------------
\* A piece ends before the next one begins.
LEMMA PieceEnds ==
    ASSUME NEW p \in Nat, NEW q \in Nat, p < q, NEW len \in Nat
    PROVE  p * len + len <= q * len
<1>1. PICK d \in Nat : q = p + 1 + d
  <2>1. q - (p + 1) \in Nat /\ q = p + 1 + (q - (p + 1))
    OBVIOUS
  <2>2. QED
    BY <2>1
<1>2. (p + 1 + d) * len = p * len + len + d * len
  OBVIOUS
<1>3. d * len \in Nat /\ p * len \in Nat
  OBVIOUS
<1>4. QED
  BY <1>1, <1>2, <1>3

\* Where the pieces are: each at the place the torrent gives it, one behind the
\* other.
LEMMA Layout ==
    ASSUME FullPieces
    PROVE  /\ \A p \in Pieces : /\ p \in Nat /\ piece_len(p) = PieceLength /\ Offsets(p) = Whole
                                /\ start_idx(p) = TorrentByte(p, 0)
           /\ \A p \in Pieces, o \in Int : TorrentByte(p, o) = TorrentByte(p, 0) + o
           /\ \A p \in Pieces : TorrentByte(p, 0) \in Nat /\ TorrentByte(p, 0) + PieceLength <= Length
           /\ \A p, q \in Pieces : p # q =>
                 \/ TorrentByte(p, 0) + PieceLength <= TorrentByte(q, 0)
                 \/ TorrentByte(q, 0) + PieceLength <= TorrentByte(p, 0)
<1>1. TotalPieces \in Nat \ {0} /\ PieceLength \in Nat \ {0} /\ Length \in Nat
  BY LayoutAssumption
<1>2. LastPieceSize = PieceLength
  <2>1. TotalPieces * PieceLength = (TotalPieces - 1) * PieceLength + PieceLength
    BY <1>1
  <2>2. (TotalPieces - 1) * PieceLength \in Int
    BY <1>1
  <2>3. QED
    BY <1>1, <2>1, <2>2 DEF LastPieceSize, FullPieces
<1>3. \A p \in Pieces : p \in Nat /\ piece_len(p) = PieceLength /\ Offsets(p) = Whole
  BY <1>1, <1>2 DEF Pieces, piece_len, Offsets, Whole
<1>4. ASSUME NEW p \in Pieces
      PROVE  p * PieceLength \in Nat /\ TorrentByte(p, 0) = p * PieceLength
  BY <1>1, <1>3 DEF TorrentByte
<1>5. ASSUME NEW p \in Pieces
      PROVE  start_idx(p) = TorrentByte(p, 0)
  <2>1. PieceLength * p = p * PieceLength
    BY <1>1, <1>3
  <2>2. QED
    BY <1>3, <1>4, <2>1 DEF start_idx
<1>6. ASSUME NEW p \in Pieces, NEW o \in Int
      PROVE  TorrentByte(p, o) = TorrentByte(p, 0) + o
  BY <1>4 DEF TorrentByte
<1>7. ASSUME NEW p \in Pieces
      PROVE  TorrentByte(p, 0) + PieceLength <= Length
  <2>1. p < TotalPieces
    BY <1>1, <1>3 DEF Pieces
  <2>2. p * PieceLength + PieceLength <= TotalPieces * PieceLength
    BY <1>1, <1>3, <2>1, PieceEnds
  <2>3. QED
    BY <1>4, <2>2 DEF FullPieces
<1>8. ASSUME NEW p \in Pieces, NEW q \in Pieces, p # q
      PROVE  \/ TorrentByte(p, 0) + PieceLength <= TorrentByte(q, 0)
             \/ TorrentByte(q, 0) + PieceLength <= TorrentByte(p, 0)
  <2>1. p < q \/ q < p
    BY <1>3, <1>8
  <2>2. CASE p < q
    BY <1>1, <1>3, <1>4, <2>2, PieceEnds
  <2>3. CASE q < p
    BY <1>1, <1>3, <1>4, <2>3, PieceEnds
  <2>4. QED
    BY <2>1, <2>2, <2>3
<1>9. QED
  BY <1>3, <1>4, <1>5, <1>6, <1>7, <1>8

\* What write_all leaves in the file: the block at its place, the rest of the
\* piece and all other pieces as they were.
LEMMA WrittenFacts ==
    ASSUME FullPieces, NEW p \in Pieces, NEW b \in Nat, NEW len \in Nat \ {0},
           b + len <= PieceLength, NEW good \in BOOLEAN,
           file \in [0 .. Length - 1 -> {Zero, Junk} \cup (0 .. Length - 1)]
    PROVE  /\ Written(p, b, len, good) \in [0 .. Length - 1 -> {Zero, Junk} \cup (0 .. Length - 1)]
           /\ \A q \in Pieces, o \in Whole :
                 Written(p, b, len, good)[TorrentByte(q, o)] =
                     IF q = p /\ o \in b .. b + len - 1
                     THEN IF good THEN TorrentByte(p, o) ELSE Junk
                     ELSE file[TorrentByte(q, o)]
<1> DEFINE f == Written(p, b, len, good)
           at(q) == TorrentByte(q, 0)
<1>1. Length \in Nat /\ PieceLength \in Nat \ {0}
  BY LayoutAssumption
<1>2. /\ start_idx(p) = at(p)
      /\ \A q \in Pieces, o \in Int : TorrentByte(q, o) = at(q) + o
      /\ \A q \in Pieces : at(q) \in Nat /\ at(q) + PieceLength <= Length
      /\ \A q \in Pieces : q # p => at(p) + PieceLength <= at(q) \/ at(q) + PieceLength <= at(p)
  BY Layout
<1> HIDE DEF at
<1>3. f = [i \in 0 .. Length - 1 |->
             IF i \in at(p) + b .. at(p) + b + len - 1
             THEN IF good THEN TorrentByte(p, i - at(p)) ELSE Junk
             ELSE file[i]]
  <2>1. DOMAIN file = 0 .. Length - 1
    OBVIOUS
  <2>2. QED
    BY <1>2, <2>1 DEF Written
<1>4. \A i \in 0 .. Length - 1 : i - at(p) \in Int /\ TorrentByte(p, i - at(p)) = i
  <2>1. TAKE i \in 0 .. Length - 1
  <2>2. i \in Int /\ at(p) \in Nat
    BY <1>1, <1>2
  <2>3. i - at(p) \in Int /\ at(p) + (i - at(p)) = i
    BY <2>2
  <2>4. QED
    BY <1>2, <2>3
<1>5. f \in [0 .. Length - 1 -> {Zero, Junk} \cup (0 .. Length - 1)]
  BY <1>3, <1>4
<1>6. ASSUME NEW q \in Pieces, NEW o \in Whole
      PROVE  f[TorrentByte(q, o)] = IF q = p /\ o \in b .. b + len - 1
                                    THEN IF good THEN TorrentByte(p, o) ELSE Junk
                                    ELSE file[TorrentByte(q, o)]
  <2> DEFINE i == TorrentByte(q, o)
  <2>1. o \in Int /\ 0 <= o /\ o < PieceLength
    BY <1>1 DEF Whole
  <2>2. i = at(q) + o
    BY <1>2, <2>1
  <2> HIDE DEF i
  <2>3. PICK x \in Nat : x = at(p)
    BY <1>2
  <2>4. PICK y \in Nat : y = at(q) /\ y + PieceLength <= Length
    BY <1>2
  <2>5. q # p => x + PieceLength <= y \/ y + PieceLength <= x
    BY <1>2, <2>3, <2>4
  <2>6. i = y + o /\ i \in 0 .. Length - 1
    BY <1>1, <2>1, <2>2, <2>4
  <2>7. i \in at(p) + b .. at(p) + b + len - 1 <=> q = p /\ o \in b .. b + len - 1
    <3>1. CASE q = p
      <4>1. x = y
        BY <2>3, <2>4, <3>1
      <4>2. i \in x + b .. x + b + len - 1 <=> o \in b .. b + len - 1
        BY <2>1, <2>6, <4>1
      <4>3. QED
        BY <2>3, <3>1, <4>2
    <3>2. CASE q # p
      <4>1. ~(i \in x + b .. x + b + len - 1)
        BY <1>1, <2>1, <2>6, <2>5, <3>2
      <4>2. QED
        BY <2>3, <3>2, <4>1
    <3>3. QED
      BY <3>1, <3>2
  <2>8. f[i] = IF q = p /\ o \in b .. b + len - 1
               THEN IF good THEN i ELSE Junk ELSE file[i]
    BY <1>3, <1>4, <2>6, <2>7
  <2>9. q = p => TorrentByte(p, o) = i
    BY DEF i
  <2>10. QED
    BY <2>8, <2>9 DEF i
<1>7. QED
  BY <1>5, <1>6

-----------------------------------------------------------------------------
Typed ==
    /\ slices \in [Pieces -> Seq(Nat \X Nat)]
    /\ file \in [0 .. Length - 1 -> {Zero, Junk} \cup (0 .. Length - 1)]
    /\ finished \subseteq Pieces
    /\ answer \in (0 .. TotalPieces) \X Results

\* The interval lists are ordered and stay within their pieces.
ListsOrdered == \A p \in Pieces : Ordered(slices[p]) /\ Cover(slices[p]) \subseteq Whole

\* What the list of an honest piece covers is right in the file.
HonestRight ==
    \A p \in Pieces \ Corrupt : \A o \in Cover(slices[p]) :
        file[TorrentByte(p, o)] = TorrentByte(p, o)

\* A finished piece is complete, hence closed to further blocks, and right.
FinishedRight == \A p \in finished : Complete(p) /\ Right(file, p)

\* An honest piece that is complete was announced.
HonestFinished == \A p \in Pieces \ Corrupt : Complete(p) => p \in finished

AnswersRight == HonestNeverMismatched /\ ReadsAreTorrentData

DataInv == ListsOrdered /\ HonestRight /\ FinishedRight /\ HonestFinished

IOInv == Typed /\ DataInv /\ AnswersRight

\* The store starts empty.
LEMMA IOInitInv == IOInit => IOInv
<1> SUFFICES ASSUME IOInit PROVE IOInv
  OBVIOUS
<1>1. /\ slices = [p \in Pieces |-> <<>>]
      /\ file = [i \in 0 .. Length - 1 |-> Zero]
      /\ finished = {}
      /\ answer = <<0, "none">>
  BY DEF IOInit
<1>2. <<>> \in Seq(Nat \X Nat) /\ Len(<<>>) = 0
  OBVIOUS
<1>3. Typed
  <2>1. answer \in (0 .. TotalPieces) \X Results
    BY <1>1, LayoutAssumption DEF Results
  <2>2. QED
    BY <1>1, <1>2, <2>1 DEF Typed
<1>4. Ordered(<<>>) /\ Cover(<<>>) = {}
  BY <1>2 DEF Ordered, Cover
<1>5. \A E : ~IsComplete(<<>>, E)
  <2>1. TAKE E
  <2>2. Len(<< <<0, E>> >>) = 1
    OBVIOUS
  <2>3. QED
    BY <1>2, <2>2 DEF IsComplete
<1>6. \A p \in Pieces : slices[p] = <<>>
  BY <1>1
<1>7. ListsOrdered /\ HonestRight
  BY <1>4, <1>6 DEF ListsOrdered, HonestRight
<1>8. FinishedRight /\ HonestFinished
  BY <1>1, <1>5, <1>6 DEF FinishedRight, HonestFinished, Complete
<1>9. AnswersRight
  <2>1. answer[2] = "none"
    BY <1>1
  <2>2. QED
    BY <2>1 DEF AnswersRight, HonestNeverMismatched, ReadsAreTorrentData
<1>10. QED
  BY <1>3, <1>7, <1>8, <1>9 DEF IOInv, DataInv

\* Answers that change nothing else.
LEMMA AnswerOnly ==
    ASSUME IOInv, UNCHANGED <<slices, file, finished>>,
           NEW p \in Indexes, NEW r \in Results, answer' = <<p, r>>,
           r \in {"PieceHashMismatch", "WrongData"} => p \in Corrupt
    PROVE  IOInv'
<1>1. Typed'
  <2>1. answer' \in (0 .. TotalPieces) \X Results
    BY DEF Indexes
  <2>2. QED
    BY <2>1 DEF Typed, IOInv
<1>2. DataInv'
  BY DEF IOInv, DataInv, ListsOrdered, HonestRight, FinishedRight, HonestFinished, Complete,
         Right, Ordered, Cover
<1>3. AnswersRight'
  <2>1. answer'[1] = p /\ answer'[2] = r
    OBVIOUS
  <2>2. QED
    BY <2>1 DEF AnswersRight, HonestNeverMismatched, ReadsAreTorrentData
<1>4. QED
  BY <1>1, <1>2, <1>3 DEF IOInv

\* A block write_piece refuses.
LEMMA RefusedStep ==
    ASSUME IOInv, NEW p \in Indexes, NEW b \in Nat, NEW len \in Nat, WriteRefused(p, b, len)
    PROVE  IOInv' /\ Abstract!StoreNext
<1>1. PICK r : /\ answer' = <<p, r>> /\ r \in {"BadPieceIdx", "FileAlreadyComplete", "BadBounds"}
               /\ r = "FileAlreadyComplete" => p \in Pieces /\ Complete(p)
  BY DEF WriteRefused
<1>2. UNCHANGED <<slices, file, finished>>
  BY DEF WriteRefused
<1>3. r \in Results /\ r \notin {"PieceHashMismatch", "WrongData"}
  BY <1>1 DEF Results
<1>4. IOInv'
  BY <1>1, <1>2, <1>3, AnswerOnly
<1>5. r = "FileAlreadyComplete" => p \in finished \cup Corrupt
  BY <1>1 DEF IOInv, DataInv, HonestFinished
<1>6. Abstract!Refuses(p, r)
  BY <1>1, <1>2, <1>5 DEF Abstract!Refuses
<1>7. QED
  BY <1>1, <1>4, <1>6 DEF Abstract!StoreNext

\* A read.
LEMMA ReadStep ==
    ASSUME FullPieces, IOInv, NEW p \in Indexes, NEW b \in Nat, NEW len \in Nat \ {0},
           ReadPiece(p, b, len)
    PROVE  IOInv' /\ Abstract!StoreNext
<1>1. UNCHANGED <<slices, file, finished>>
  BY DEF ReadPiece
<1>2. PICK r : /\ answer' = <<p, r>>
               /\ \/ r \in {"BadPieceIdx", "BadBounds"}
                  \/ r = "FilePieceNotFinished" /\ p \in Pieces /\ ~Complete(p)
                  \/ p \in Pieces /\ InBounds(p, b, len) /\ Complete(p) /\ r = Reading(p, b, len)
  BY DEF ReadPiece
<1>3. CASE r \in {"BadPieceIdx", "BadBounds"}
  <2>1. r \in Results /\ r \notin {"PieceHashMismatch", "WrongData"}
    BY <1>3 DEF Results
  <2>2. Abstract!Refuses(p, r)
    BY <1>1, <1>2, <1>3 DEF Abstract!Refuses
  <2>3. QED
    BY <1>1, <1>2, <1>3, <2>1, <2>2, AnswerOnly DEF Abstract!StoreNext
<1>4. CASE r = "FilePieceNotFinished" /\ p \in Pieces /\ ~Complete(p)
  <2>1. r \in Results /\ r \notin {"PieceHashMismatch", "WrongData"}
    BY <1>4 DEF Results
  <2>2. p \notin finished
    BY <1>4 DEF IOInv, DataInv, FinishedRight
  <2>3. Abstract!Refuses(p, r)
    BY <1>1, <1>2, <1>4, <2>2 DEF Abstract!Refuses
  <2>4. QED
    BY <1>1, <1>2, <1>4, <2>1, <2>3, AnswerOnly DEF Abstract!StoreNext
<1>5. CASE p \in Pieces /\ InBounds(p, b, len) /\ Complete(p) /\ r = Reading(p, b, len)
  <2>1. p \in finished \cup Corrupt
    BY <1>5 DEF IOInv, DataInv, HonestFinished
  <2>2. r \in {"Data", "WrongData"} /\ r \in Results
    BY <1>5 DEF Reading, Results
  <2>3. r = "WrongData" => p \notin finished
    <3> SUFFICES ASSUME p \in finished PROVE r # "WrongData"
      OBVIOUS
    <3>1. Right(file, p)
      BY DEF IOInv, DataInv, FinishedRight
    <3>2. PieceLength \in Nat /\ b + len <= PieceLength
      BY <1>5, Layout, LayoutAssumption DEF InBounds
    <3>3. ASSUME NEW o \in b .. b + len - 1
          PROVE  file[start_idx(p) + o] = TorrentByte(p, o)
      <4>1. o \in Whole /\ o \in Int
        BY <3>2 DEF Whole
      <4>2. start_idx(p) + o = TorrentByte(p, o)
        BY <1>5, <4>1, Layout
      <4>3. QED
        BY <3>1, <4>1, <4>2 DEF Right
    <3>4. QED
      BY <1>5, <3>3 DEF Reading
  <2>4. Abstract!Serves(p, r)
    BY <1>1, <1>2, <2>1, <2>2, <2>3 DEF Abstract!Serves
  <2>5. r \in {"PieceHashMismatch", "WrongData"} => p \in Corrupt
    BY <2>1, <2>2, <2>3
  <2>6. IOInv'
    BY <1>1, <1>2, <2>2, <2>5, AnswerOnly
  <2>7. QED
    BY <2>2, <2>4, <2>6 DEF Abstract!StoreNext
<1>6. QED
  BY <1>2, <1>3, <1>4, <1>5

\* A block write_piece takes.  It is written over no other piece, so what was right
\* stays right; the list of an honest piece covers right bytes only, and a list
\* that is complete covers the whole piece.
LEMMA WriteStep ==
    ASSUME FullPieces, IOInv, NEW p \in Indexes, NEW b \in Nat, NEW len \in Nat \ {0},
           NEW good \in {TRUE, p \notin Corrupt}, WriteBlock(p, b, len, good)
    PROVE  IOInv' /\ Abstract!StoreNext
<1> DEFINE s == slices[p]
           t == InsertSlice(slices[p], b, len)
<1>1. /\ p \in Pieces /\ ~Complete(p) /\ b + len <= PieceLength
      /\ PieceLength \in Nat \ {0} /\ good \in BOOLEAN
      /\ p \notin Corrupt => good
  BY Layout, LayoutAssumption DEF WriteBlock, Accepts, InBounds
<1>2. p \notin finished
  BY <1>1 DEF IOInv, DataInv, FinishedRight
<1>3. /\ file \in [0 .. Length - 1 -> {Zero, Junk} \cup (0 .. Length - 1)]
      /\ slices \in [Pieces -> Seq(Nat \X Nat)]
  BY DEF IOInv, Typed
<1>4. PICK f : f = file'
  OBVIOUS
<1>5. /\ f \in [0 .. Length - 1 -> {Zero, Junk} \cup (0 .. Length - 1)]
      /\ \A q \in Pieces, o \in Whole :
            f[TorrentByte(q, o)] = IF q = p /\ o \in b .. b + len - 1
                                   THEN IF good THEN TorrentByte(p, o) ELSE Junk
                                   ELSE file[TorrentByte(q, o)]
  <2>1. f = Written(p, b, len, good)
    BY <1>4 DEF WriteBlock
  <2>2. QED
    BY <1>1, <1>3, <2>1, WrittenFacts
<1>6. Ordered(s) /\ Cover(s) \subseteq Whole
  BY <1>1 DEF IOInv, DataInv, ListsOrdered
<1>7. Ordered(t) /\ Cover(t) \subseteq Cover(s) \cup (b .. b + len - 1)
  BY <1>6, AnyBlock
<1>8. Cover(t) \subseteq Whole
  <2>1. b .. b + len - 1 \subseteq Whole
    BY <1>1 DEF Whole
  <2>2. QED
    BY <1>6, <1>7, <2>1
<1>9. slices' = [slices EXCEPT ![p] = t]
  BY DEF WriteBlock
<1> HIDE DEF s, t
<1>10. /\ slices'[p] = t
       /\ \A q \in Pieces : q # p => slices'[q] = slices[q]
       /\ slices' \in [Pieces -> Seq(Nat \X Nat)]
  BY <1>1, <1>3, <1>7, <1>9 DEF Ordered
<1>11. ListsOrdered'
  <2>1. ASSUME NEW q \in Pieces
        PROVE  Ordered(slices'[q]) /\ Cover(slices'[q]) \subseteq Whole
    <3>1. CASE q = p
      BY <1>7, <1>8, <1>10, <3>1
    <3>2. CASE q # p
      BY <1>10, <3>2 DEF IOInv, DataInv, ListsOrdered
    <3>3. QED
      BY <3>1, <3>2
  <2>2. QED
    BY <2>1 DEF ListsOrdered
\* What the write leaves alone, and what it makes right.
<1>12. \A q \in Pieces, o \in Whole : q # p => f[TorrentByte(q, o)] = file[TorrentByte(q, o)]
  BY <1>5
<1>13. ASSUME p \notin Corrupt, NEW o \in Cover(t)
       PROVE  f[TorrentByte(p, o)] = TorrentByte(p, o)
  <2>1. o \in Whole /\ (o \in Cover(s) \/ o \in b .. b + len - 1)
    BY <1>7, <1>8, <1>13
  <2>2. o \in Cover(s) => file[TorrentByte(p, o)] = TorrentByte(p, o)
    BY <1>1, <1>13 DEF IOInv, DataInv, HonestRight, s
  <2>3. QED
    BY <1>1, <1>5, <1>13, <2>1, <2>2
<1>14. HonestRight'
  <2>1. ASSUME NEW q \in Pieces \ Corrupt, NEW o \in Cover(slices'[q])
        PROVE  f[TorrentByte(q, o)] = TorrentByte(q, o)
    <3>1. CASE q = p
      BY <1>10, <1>13, <2>1, <3>1
    <3>2. CASE q # p
      <4>1. o \in Cover(slices[q]) /\ o \in Whole
        BY <1>10, <2>1, <3>2 DEF IOInv, DataInv, ListsOrdered
      <4>2. QED
        BY <1>12, <3>2, <4>1 DEF IOInv, DataInv, HonestRight
    <3>3. QED
      BY <3>1, <3>2
  <2>2. QED
    BY <1>4, <2>1 DEF HonestRight
<1>15. HashRight(p) <=> Right(f, p)
  <2>1. Offsets(p) = Whole /\ \A o \in Whole : start_idx(p) + o = TorrentByte(p, o)
    <3>1. \A o \in Whole : o \in Int
      BY <1>1 DEF Whole
    <3>2. QED
      BY <1>1, <3>1, Layout
  <2>2. QED
    BY <1>4, <2>1 DEF HashRight, HashMatches, Right
<1>16. Complete(p)' <=> IsComplete(t, PieceLength)
  BY <1>1, <1>10, Layout DEF Complete
<1>17. \A q \in Pieces : q # p => (Complete(q)' <=> Complete(q))
  BY <1>10 DEF Complete
<1>18. Complete(p)' /\ p \notin Corrupt => Right(f, p)
  <2> SUFFICES ASSUME Complete(p)', p \notin Corrupt PROVE Right(f, p)
    OBVIOUS
  <2>1. Cover(t) = Whole
    BY <1>1, <1>7, <1>16, CompleteCovers DEF Whole
  <2>2. QED
    BY <1>13, <2>1 DEF Right
<1>19. \A q \in finished : Complete(q)' /\ Right(f, q)
  <2>1. TAKE q \in finished
  <2>2. q \in Pieces /\ q # p /\ Complete(q) /\ Right(file, q)
    BY <1>2 DEF IOInv, Typed, DataInv, FinishedRight
  <2>3. QED
    BY <1>12, <1>17, <2>2 DEF Right
<1>20. \A q \in Pieces \ Corrupt : q # p => (Complete(q)' => q \in finished)
  BY <1>17 DEF IOInv, DataInv, HonestFinished
<1>21. ASSUME NEW r \in Results, answer' = <<p, r>>,
              r \in {"PieceHashMismatch", "WrongData"} => p \in Corrupt,
              finished' \subseteq Pieces,
              \A q \in finished' : Complete(q)' /\ Right(f, q),
              \A q \in Pieces \ Corrupt : Complete(q)' => q \in finished'
       PROVE  IOInv'
  <2>1. Typed'
    <3>1. answer' \in (0 .. TotalPieces) \X Results
      BY <1>21 DEF Indexes
    <3>2. QED
      BY <1>4, <1>5, <1>10, <1>21, <3>1 DEF Typed
  <2>2. FinishedRight' /\ HonestFinished'
    BY <1>4, <1>21 DEF FinishedRight, HonestFinished, Right
  <2>3. AnswersRight'
    <3>1. answer'[1] = p /\ answer'[2] = r
      BY <1>21
    <3>2. QED
      BY <1>21, <3>1 DEF AnswersRight, HonestNeverMismatched, ReadsAreTorrentData
  <2>4. QED
    BY <1>11, <1>14, <2>1, <2>2, <2>3 DEF IOInv, DataInv
<1>22. finished \subseteq Pieces
  BY DEF IOInv, Typed
<1>23. CASE ~Complete(p)' /\ answer' = <<p, "Pending">> /\ UNCHANGED finished
  <2>1. "Pending" \in Results /\ "Pending" \notin {"PieceHashMismatch", "WrongData"}
    BY DEF Results
  <2>2. \A q \in Pieces \ Corrupt : Complete(q)' => q \in finished'
    BY <1>20, <1>23
  <2>3. IOInv'
    BY <1>19, <1>21, <1>22, <1>23, <2>1, <2>2
  <2>4. Abstract!Takes(p)
    BY <1>1, <1>2, <1>23 DEF Abstract!Takes
  <2>5. QED
    BY <2>3, <2>4 DEF Abstract!StoreNext
<1>24. CASE /\ Complete(p)' /\ HashRight(p)
            /\ answer' = <<p, "Finished">> /\ finished' = finished \cup {p}
  <2>1. "Finished" \in Results /\ "Finished" \notin {"PieceHashMismatch", "WrongData"}
    BY DEF Results
  <2>2. \A q \in Pieces \ Corrupt : Complete(q)' => q \in finished'
    BY <1>20, <1>24
  <2>3. \A q \in finished' : Complete(q)' /\ Right(f, q)
    BY <1>15, <1>19, <1>24
  <2>4. IOInv'
    BY <1>1, <1>21, <1>22, <1>24, <2>1, <2>2, <2>3
  <2>5. Abstract!Finishes(p)
    BY <1>1, <1>2, <1>24 DEF Abstract!Finishes
  <2>6. QED
    BY <2>4, <2>5 DEF Abstract!StoreNext
<1>25. CASE /\ Complete(p)' /\ ~HashRight(p)
            /\ answer' = <<p, "PieceHashMismatch">> /\ UNCHANGED finished
  <2>1. "PieceHashMismatch" \in Results
    BY DEF Results
  <2>2. p \in Corrupt
    BY <1>15, <1>18, <1>25
  <2>3. \A q \in Pieces \ Corrupt : Complete(q)' => q \in finished'
    BY <1>20, <1>25, <2>2
  <2>4. IOInv'
    BY <1>19, <1>21, <1>22, <1>25, <2>1, <2>2, <2>3
  <2>5. Abstract!Refuses(p, "PieceHashMismatch")
    BY <1>2, <1>25, <2>2 DEF Abstract!Refuses
  <2>6. QED
    BY <2>4, <2>5 DEF Abstract!StoreNext
<1>26. QED
  BY <1>23, <1>24, <1>25 DEF WriteBlock

\* Every step keeps the invariant and is a step of Store.
LEMMA IOStep ==
    ASSUME FullPieces, IOInv, IONext
    PROVE  IOInv' /\ Abstract!StoreNext
<1>1. PICK p \in Indexes, b \in 0 .. PieceLength - 1, len \in {BlockSize, BlockSize + 1} :
        \/ WriteRefused(p, b, len)
        \/ \E good \in {TRUE, p \notin Corrupt} : WriteBlock(p, b, len, good)
        \/ ReadPiece(p, b, len)
  BY DEF IONext
<1>2. b \in Nat /\ len \in Nat \ {0}
  BY LayoutAssumption
<1>3. QED
  BY <1>1, <1>2, RefusedStep, WriteStep, ReadStep

\* A step that changes nothing keeps it too.
LEMMA IOStutter == IOInv /\ UNCHANGED ioVars => IOInv'
  BY DEF IOInv, Typed, DataInv, ListsOrdered, HonestRight, FinishedRight, HonestFinished,
         AnswersRight, HonestNeverMismatched, ReadsAreTorrentData, Complete, Right, Ordered,
         Cover, ioVars

\* The inductive invariant of the file store.
LEMMA IOInvariant ==
    ASSUME FullPieces
    PROVE  IOSpec => []IOInv
<1>1. IOInv /\ [IONext]_ioVars => IOInv'
  BY IOStep, IOStutter
<1>2. QED
  BY <1>1, IOInitInv, PTL DEF IOSpec

\* Interval lists, file and answers keep their types.
THEOREM IOTypes ==
    ASSUME FullPieces
    PROVE  IOSpec => []IOTypeOK
<1>1. IOInv => IOTypeOK
  <2> SUFFICES ASSUME IOInv PROVE IOTypeOK
    OBVIOUS
  <2>1. PieceLength \in Nat
    BY LayoutAssumption
  <2>2. ASSUME NEW p \in Pieces, NEW i \in DOMAIN slices[p]
        PROVE  slices[p][i] \in Nat \X Nat /\ slices[p][i][2] <= piece_len(p)
    <3> DEFINE s == slices[p]
    <3>1. Ordered(s) /\ s \in Seq(Nat \X Nat) /\ Cover(s) \subseteq Whole
      BY <2>2 DEF IOInv, DataInv, ListsOrdered, Ordered
    <3>2. piece_len(p) = PieceLength
      BY <2>2, Layout
    <3> HIDE DEF s
    <3>3. PICK N \in Nat : N = Len(s) /\ OrderedTo(s, N)
      BY <3>1, OrderedAs
    <3>4. i \in 1 .. N
      BY <2>2, <3>1, <3>3 DEF s
    <3>5. s[i] \in Nat \X Nat /\ s[i][1] \in Nat /\ s[i][2] \in Nat /\ s[i][1] < s[i][2]
      BY <3>1, <3>3, <3>4, Entries DEF OrderedTo
    <3>6. s[i][2] - 1 \in Nat /\ s[i][1] <= s[i][2] - 1 /\ s[i][2] - 1 < s[i][2]
      BY <3>5
    <3>7. In(s[i][2] - 1, s, N)
      BY <3>4, <3>6 DEF In
    <3>8. s[i][2] - 1 \in Whole
      BY <3>1, <3>3, <3>7, OrderedAs
    <3>9. s[i][2] <= PieceLength
      BY <2>1, <3>5, <3>8 DEF Whole
    <3>10. QED
      BY <3>2, <3>5, <3>9 DEF s
  <2>3. QED
    BY <2>2 DEF IOInv, Typed, IOTypeOK
<1>2. QED
  BY <1>1, IOInvariant, PTL

\* A piece write_piece answered Ok(true) for stays in the file as the torrent has it.
THEOREM FileIntact ==
    ASSUME FullPieces
    PROVE  IOSpec => []FinishedIntact
<1>1. IOInv => FinishedIntact
  <2> SUFFICES ASSUME IOInv, NEW p \in finished, NEW o \in Offsets(p)
               PROVE  file[TorrentByte(p, o)] = TorrentByte(p, o)
    BY DEF FinishedIntact
  <2>1. p \in Pieces /\ Right(file, p)
    BY DEF IOInv, Typed, DataInv, FinishedRight
  <2>2. QED
    BY <2>1, Layout DEF Right
<1>2. QED
  BY <1>1, IOInvariant, PTL

\* read_piece hands out torrent data only, unless wrong bytes of that piece were sent.
THEOREM ReadsRight ==
    ASSUME FullPieces
    PROVE  IOSpec => []ReadsAreTorrentData
<1>1. IOInv => ReadsAreTorrentData
  BY DEF IOInv, AnswersRight
<1>2. QED
  BY <1>1, IOInvariant, PTL

\* write_piece blames no piece all of whose blocks were right.
THEOREM HonestNotBlamed ==
    ASSUME FullPieces
    PROVE  IOSpec => []HonestNeverMismatched
<1>1. IOInv => HonestNeverMismatched
  BY DEF IOInv, AnswersRight
<1>2. QED
  BY <1>1, IOInvariant, PTL

\* The file store implements the abstract store.
THEOREM FileStoreRefinesStore ==
    ASSUME FullPieces
    PROVE  IOSpec => StoreRefined
<1>1. IOInit => Abstract!StoreInit
  BY DEF IOInit, Abstract!StoreInit
<1>2. IOInv /\ [IONext]_ioVars => [Abstract!StoreNext]_(Abstract!storeVars)
  <2>1. IOInv /\ IONext => Abstract!StoreNext
    BY IOStep
  <2>2. UNCHANGED ioVars => UNCHANGED Abstract!storeVars
    BY DEF ioVars, Abstract!storeVars
  <2>3. QED
    BY <2>1, <2>2
<1>3. QED
  BY <1>1, <1>2, IOInvariant, PTL DEF IOSpec, StoreRefined, Abstract!StoreSpec

\* Ok(true) is answered once per piece.
THEOREM FinishedAnsweredOnce ==
    ASSUME FullPieces
    PROVE  IOSpec => FinishedOnce
<1>1. IOInv /\ [IONext]_ioVars =>
        [\A p \in finished : answer' # <<p, "Finished">>]_ioVars
  <2> SUFFICES ASSUME IOInv, IONext, NEW p \in finished
               PROVE  answer' # <<p, "Finished">>
    OBVIOUS
  <2>1. Abstract!StoreNext
    BY IOStep
  <2>2. QED
    BY <2>1 DEF Abstract!StoreNext, Abstract!Finishes, Abstract!Takes, Abstract!Refuses,
                Abstract!Serves
<1>2. QED
  BY <1>1, IOInvariant, PTL DEF IOSpec, FinishedOnce

-----------------------------------------------------------------------------
\* The two stores side by side.

BothInv ==
    /\ IOInv
    /\ DOMAIN memory = Pieces /\ DOMAIN mslices = Pieces
    /\ StoresAgree

\* What the file store does beside the memory store is what it does alone.
LEMMA BothIsIO == BothNext => IONext
BY DEF BothNext, IONext

\* Both stores start empty.
LEMMA BothInitInv == ASSUME FullPieces PROVE BothInit => BothInv
<1> SUFFICES ASSUME BothInit PROVE BothInv
  OBVIOUS
<1>1. IOInv
  BY IOInitInv DEF BothInit
<1>2. DOMAIN memory = Pieces /\ DOMAIN mslices = Pieces
  BY DEF BothInit, MemoryInit
<1>3. ASSUME NEW p \in Pieces
      PROVE  mslices[p] = slices[p]
  BY DEF BothInit, MemoryInit, IOInit
<1>4. ASSUME NEW p \in Pieces, NEW o \in Offsets(p)
      PROVE  memory[p][o] = file[start_idx(p) + o]
  <2>1. memory[p][o] = Zero
    BY <1>4 DEF BothInit, MemoryInit
  <2>2. start_idx(p) + o \in 0 .. Length - 1
    <3>1. PICK x \in Nat : x = start_idx(p) /\ x + PieceLength <= Length
      BY <1>4, Layout
    <3>2. o \in 0 .. PieceLength - 1
      BY <1>4, Layout DEF Whole
    <3> QED  BY <3>1, <3>2, LayoutAssumption
  <2> QED  BY <2>1, <2>2 DEF BothInit, IOInit
<1> QED  BY <1>1, <1>2, <1>3, <1>4 DEF BothInv, StoresAgree

\* A step that leaves both stores as they are, but for their answers and for
\* what the memory store has of complete pieces.
LEMMA AgreeUnlessComplete ==
    ASSUME BothInv, UNCHANGED <<slices, file>>, Gone => Gone',
           \A p \in Pieces : ~Gone /\ ~Complete(p) =>
                mslices'[p] = mslices[p] /\ memory'[p] = memory[p]
    PROVE  StoresAgree'
BY DEF BothInv, StoresAgree, Complete

\* A block both stores take.
LEMMA BothWrite ==
    ASSUME FullPieces, BothInv, NEW p \in Indexes, NEW b \in Nat, NEW len \in Nat \ {0},
           NEW good \in {TRUE, p \notin Corrupt},
           WriteBlock(p, b, len, good), MemoryWrite(p, b, len, good), ~Gone
    PROVE  StoresAgree'
<1>1. p \in Pieces /\ ~Complete(p) /\ InBounds(p, b, len) /\ b + len <= PieceLength
      /\ good \in BOOLEAN
  BY Layout DEF WriteBlock, Accepts, InBounds
<1>2. /\ mslices' = [mslices EXCEPT ![p] = InsertSlice(@, b, len)]
      /\ memory' = [memory EXCEPT ![p] = Copied(p, b, len, good)]
      /\ DOMAIN mslices = Pieces /\ DOMAIN memory = Pieces
  BY <1>1 DEF MemoryWrite, BothInv
<1>3. /\ slices' = [slices EXCEPT ![p] = InsertSlice(@, b, len)] /\ DOMAIN slices = Pieces
      /\ file' = Written(p, b, len, good)
  BY DEF WriteBlock, BothInv, IOInv, Typed
<1>4. /\ mslices[p] = slices[p]
      /\ \A o \in Offsets(p) : memory[p][o] = file[start_idx(p) + o]
  BY <1>1 DEF BothInv, StoresAgree
<1>5. /\ \A q \in Pieces : Offsets(q) = Whole
      /\ \A q \in Pieces, o \in Whole : start_idx(q) + o = TorrentByte(q, o)
  BY Layout, LayoutAssumption DEF Whole
<1>6. \A q \in Pieces, o \in Whole :
         file'[TorrentByte(q, o)] = IF q = p /\ o \in b .. b + len - 1
                                    THEN IF good THEN TorrentByte(p, o) ELSE Junk
                                    ELSE file[TorrentByte(q, o)]
  <2>1. file \in [0 .. Length - 1 -> {Zero, Junk} \cup (0 .. Length - 1)]
    BY DEF BothInv, IOInv, Typed
  <2>2. PICK f : f = Written(p, b, len, good)
    OBVIOUS
  <2>3. \A q \in Pieces, o \in Whole :
           f[TorrentByte(q, o)] = IF q = p /\ o \in b .. b + len - 1
                                  THEN IF good THEN TorrentByte(p, o) ELSE Junk
                                  ELSE file[TorrentByte(q, o)]
    BY <1>1, <2>1, <2>2, WrittenFacts
  <2> QED  BY <1>3, <2>2, <2>3
<1> SUFFICES ASSUME NEW q \in Pieces, ~Complete(q)'
             PROVE  /\ mslices'[q] = slices'[q]
                    /\ \A o \in Offsets(q) : memory'[q][o] = file'[start_idx(q) + o]
  BY DEF StoresAgree
<1>7. CASE q = p
  <2>1. mslices'[p] = slices'[p]
    BY <1>1, <1>2, <1>3, <1>4
  <2>2. ASSUME NEW o \in Whole
        PROVE  memory'[p][o] = file'[TorrentByte(p, o)]
    <3>1. memory'[p][o] = IF o \notin b .. b + len - 1 THEN memory[p][o]
                          ELSE IF good THEN TorrentByte(p, o) ELSE Junk
      BY <1>1, <1>2, <1>5, <2>2 DEF Copied
    <3>2. memory[p][o] = file[TorrentByte(p, o)]
      BY <1>1, <1>4, <1>5, <2>2
    <3> QED  BY <1>1, <1>6, <2>2, <3>1, <3>2
  <2> QED  BY <1>5, <1>7, <2>1, <2>2
<1>8. CASE q # p
  <2>1. slices'[q] = slices[q] /\ mslices'[q] = mslices[q] /\ memory'[q] = memory[q]
    BY <1>2, <1>3, <1>8
  <2>2. ~Complete(q)
    BY <2>1 DEF Complete
  <2>3. mslices[q] = slices[q] /\ \A o \in Whole : memory[q][o] = file[TorrentByte(q, o)]
    BY <1>5, <2>2 DEF BothInv, StoresAgree
  <2>4. \A o \in Whole : file'[TorrentByte(q, o)] = file[TorrentByte(q, o)]
    BY <1>6, <1>8
  <2> QED  BY <1>5, <2>1, <2>3, <2>4
<1> QED  BY <1>7, <1>8

\* Every call keeps the invariant.
LEMMA BothStepInv == ASSUME FullPieces PROVE BothInv /\ [BothNext]_bothVars => BothInv'
<1> SUFFICES ASSUME BothInv, [BothNext]_bothVars PROVE BothInv'
  OBVIOUS
<1>1. CASE UNCHANGED bothVars
  <2>1. IOInv'
    BY <1>1, IOStutter DEF BothInv, bothVars
  <2>2. StoresAgree'
    BY <1>1, AgreeUnlessComplete DEF bothVars, ioVars, memoryVars, Gone
  <2> QED  BY <1>1, <2>1, <2>2 DEF BothInv, bothVars, memoryVars
<1>2. CASE BothNext
  <2>1. IOInv'
    BY <1>2, BothIsIO, IOStep DEF BothInv
  <2>2. PICK p \in Indexes, b \in 0 .. PieceLength - 1, len \in {BlockSize, BlockSize + 1} :
           \/ \E good \in {TRUE, p \notin Corrupt} :
                /\ WriteRefused(p, b, len) \/ WriteBlock(p, b, len, good)
                /\ IF Gone THEN UNCHANGED memoryVars ELSE MemoryWrite(p, b, len, good)
           \/ /\ ReadPiece(p, b, len)
              /\ IF Gone THEN UNCHANGED memoryVars ELSE MemoryRead(p, b, len)
    BY <1>2 DEF BothNext
  <2>3. b \in Nat /\ len \in Nat \ {0}
    BY LayoutAssumption
  <2>4. DOMAIN memory' = Pieces /\ DOMAIN mslices' = Pieces
    BY <2>2 DEF BothInv, memoryVars, MemoryWrite, MemoryRead
  <2>5. CASE Gone
    <3>1. Gone' /\ UNCHANGED memoryVars
      BY <2>2, <2>5 DEF Gone, memoryVars
    <3>2. StoresAgree'
      BY <3>1 DEF StoresAgree
    <3> QED  BY <2>1, <2>4, <3>2 DEF BothInv
  <2>6. ASSUME NEW good \in {TRUE, p \notin Corrupt}, ~Gone,
               WriteRefused(p, b, len), MemoryWrite(p, b, len, good)
        PROVE  StoresAgree'
    <3>1. UNCHANGED <<slices, file>>
      BY <2>6 DEF WriteRefused
    <3>2. \A q \in Pieces : ~Complete(q) => mslices'[q] = mslices[q] /\ memory'[q] = memory[q]
      <4>1. p \notin Pieces \/ Complete(p) \/ ~InBounds(p, b, len)
        BY <2>6 DEF WriteRefused, Accepts
      <4>2. \/ UNCHANGED <<memory, mslices>>
            \/ /\ p \in Pieces /\ InBounds(p, b, len)
               /\ \A q \in Pieces : q # p => mslices'[q] = mslices[q] /\ memory'[q] = memory[q]
        BY <2>6 DEF MemoryWrite, BothInv
      <4> QED  BY <4>1, <4>2
    <3> QED  BY <2>6, <3>1, <3>2, AgreeUnlessComplete
  <2>7. ASSUME NEW good \in {TRUE, p \notin Corrupt}, ~Gone,
               WriteBlock(p, b, len, good), MemoryWrite(p, b, len, good)
        PROVE  StoresAgree'
    BY <2>3, <2>7, BothWrite
  <2>8. CASE ~Gone /\ ReadPiece(p, b, len) /\ MemoryRead(p, b, len)
    <3>1. UNCHANGED <<slices, file>>
      BY <2>8 DEF ReadPiece
    <3>2. UNCHANGED <<memory, mslices>>
      BY <2>8 DEF MemoryRead
    <3>3. StoresAgree'
      BY <2>8, <3>1, <3>2, AgreeUnlessComplete
    <3> QED  BY <2>1, <2>4, <3>3 DEF BothInv
  <2> QED  BY <2>1, <2>2, <2>4, <2>5, <2>6, <2>7, <2>8 DEF BothInv
<1> QED  BY <1>1, <1>2

\* Until a piece is complete the file store and the memory store know the same of
\* it, byte for byte and interval for interval, under the same calls.
THEOREM StoresAlwaysAgree ==
    ASSUME FullPieces
    PROVE  BothSpec => []StoresAgree
<1>1. BothInv => StoresAgree
  BY DEF BothInv
<1> QED  BY <1>1, BothInitInv, BothStepInv, PTL DEF BothSpec

\* Run beside the memory store, the file store behaves as it does alone, so what is
\* proved of IOSpec holds of BothSpec.
THEOREM BothImplementsIO == BothSpec => IOSpec
<1>1. BothInit => IOInit
  BY DEF BothInit
<1>2. [BothNext]_bothVars => [IONext]_ioVars
  BY BothIsIO DEF bothVars
<1> QED  BY <1>1, <1>2, PTL DEF BothSpec, IOSpec
=============================================================================

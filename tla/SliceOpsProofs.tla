--------------------------- MODULE SliceOpsProofs ---------------------------
(***************************************************************************)
(* What Slices::insert does to the interval list, for every list and every *)
(* block.  A block that arrives once keeps the list separated and exact    *)
(* (NewBlock); any block keeps it ordered and adds no position that was    *)
(* not received (AnyBlock), which is what the file store rests on.  The    *)
(* lemmas about order and cover are stated without sequences, of the first *)
(* N entries of a function, and put together case by case.                 *)
(***************************************************************************)
EXTENDS SliceOps, FiniteSetTheorems, SequenceTheorems, TLAPS

\* The starts ascend and no interval is empty.
Ordered(s) ==
    /\ s \in Seq(Nat \X Nat)
    /\ \A i \in DOMAIN s : s[i][1] < s[i][2]
    /\ \A i, j \in DOMAIN s : i < j => s[i][1] < s[j][1]

\* ... and the intervals do not touch.
Apart(s) ==
    /\ Ordered(s)
    /\ \A i, j \in DOMAIN s : i < j => s[i][2] < s[j][1]

-----------------------------------------------------------------------------
\* A set of positions that has all positions before any of its own is an initial
\* segment.
LEMMA InitialSegment ==
    ASSUME NEW N \in Nat, NEW S \in SUBSET (1 .. N),
           \A i \in S : \A k \in 1 .. i : k \in S
    PROVE  Cardinality(S) \in 0 .. N /\ S = 1 .. Cardinality(S)
<1> DEFINE n == Cardinality(S)
<1>1. IsFiniteSet(1 .. N) /\ Cardinality(1 .. N) = N
  BY FS_Interval
<1>2. IsFiniteSet(S) /\ n \in Nat /\ n <= N
  BY <1>1, FS_Subset, FS_CardinalityType
<1>3. ASSUME NEW i \in S
      PROVE  i <= n
  <2>1. i \in Nat /\ i > 0 /\ 1 .. i \subseteq S
    BY <1>3
  <2>2. Cardinality(1 .. i) = i
    BY <2>1, FS_Interval
  <2>3. QED
    BY <1>2, <2>1, <2>2, FS_Subset
<1>4. S \subseteq 1 .. n
  BY <1>2, <1>3
<1>5. IsFiniteSet(1 .. n) /\ Cardinality(1 .. n) = n
  BY <1>2, FS_Interval
<1>6. S = 1 .. n
  <2> HIDE DEF n
  <2>1. S \in SUBSET (1 .. n) /\ Cardinality(S) = Cardinality(1 .. n)
    BY <1>4, <1>5 DEF n
  <2>2. QED
    BY <1>5, <2>1, FS_Subset
<1>7. QED
  BY <1>2, <1>6

\* What binary_search_by_key finds: the intervals that start before b come first.
LEMMA SplitPoint ==
    ASSUME NEW s, Ordered(s), NEW b \in Nat
    PROVE  /\ StartsBefore(s, b) \in 0 .. Len(s)
           /\ \A i \in 1 .. StartsBefore(s, b) : s[i][1] < b
           /\ \A i \in StartsBefore(s, b) + 1 .. Len(s) : s[i][1] >= b
<1> DEFINE S == {i \in DOMAIN s : s[i][1] < b}
<1>1. PICK N \in Nat : N = Len(s) /\ DOMAIN s = 1 .. N
  BY DEF Ordered
<1>2. \A i \in 1 .. N : s[i] \in Nat \X Nat /\ s[i][1] \in Nat
  BY <1>1 DEF Ordered
<1>3. ASSUME NEW i \in S, NEW k \in 1 .. i
      PROVE  k \in S
  <2>1. i \in 1 .. N /\ k \in 1 .. N /\ s[i][1] < b
    BY <1>1, <1>3
  <2>2. CASE k = i
    BY <2>2
  <2>3. CASE k < i
    <3>1. s[k][1] < s[i][1]
      BY <1>1, <2>1, <2>3 DEF Ordered
    <3>2. QED
      BY <1>1, <1>2, <2>1, <3>1
  <2>4. QED
    BY <2>1, <2>2, <2>3
<1>4. Cardinality(S) \in 0 .. N /\ S = 1 .. Cardinality(S)
  <2>1. S \in SUBSET (1 .. N)
    BY <1>1
  <2>2. QED
    BY <1>3, <2>1, InitialSegment
<1> HIDE DEF S
<1>5. ASSUME NEW i \in Cardinality(S) + 1 .. N
      PROVE  s[i][1] >= b
  <2>1. i \in 1 .. N /\ i \notin S
    BY <1>4
  <2>2. ~(s[i][1] < b)
    BY <1>1, <2>1 DEF S
  <2>3. QED
    BY <1>2, <2>1, <2>2
<1>6. \A i \in 1 .. Cardinality(S) : s[i][1] < b
  BY <1>4 DEF S
<1>7. StartsBefore(s, b) = Cardinality(S)
  BY DEF StartsBefore, S
<1>8. QED
  BY <1>1, <1>4, <1>5, <1>6, <1>7

\* The sequence with an element inserted behind position n.
LEMMA InsertedAt ==
    ASSUME NEW T, NEW s \in Seq(T), NEW n \in 0 .. Len(s), NEW e \in T
    PROVE  /\ InsertAt(s, n + 1, e) \in Seq(T)
           /\ Len(InsertAt(s, n + 1, e)) = Len(s) + 1
           /\ \A i \in 1 .. Len(s) + 1 :
                InsertAt(s, n + 1, e)[i] =
                    IF i <= n THEN s[i] ELSE IF i = n + 1 THEN e ELSE s[i - 1]
<1> DEFINE front == SubSeq(s, 1, n)
           back == SubSeq(s, n + 1, Len(s))
<1>1. front \in Seq(T) /\ Len(front) = n /\ \A i \in 1 .. n : front[i] = s[i]
  BY SubSeqProperties
<1>2. /\ back \in Seq(T) /\ Len(back) = Len(s) - n
      /\ \A i \in 1 .. Len(s) - n : back[i] = s[n + i]
  BY SubSeqProperties
<1>3. <<e>> \in Seq(T) /\ Len(<<e>>) = 1 /\ <<e>>[1] = e
  OBVIOUS
<1>4. InsertAt(s, n + 1, e) = (front \o <<e>>) \o back
  <2>1. (n + 1) - 1 = n
    OBVIOUS
  <2>2. QED
    BY <2>1, Zenon DEF InsertAt
<1> HIDE DEF front, back
<1>5. /\ front \o <<e>> \in Seq(T) /\ Len(front \o <<e>>) = n + 1
      /\ \A i \in 1 .. n + 1 : (front \o <<e>>)[i] = IF i <= n THEN s[i] ELSE e
  BY <1>1, <1>3, ConcatProperties
<1> DEFINE t == InsertAt(s, n + 1, e)
<1>6. /\ t \in Seq(T) /\ Len(t) = Len(s) + 1
      /\ \A i \in 1 .. n + 1 : t[i] = (front \o <<e>>)[i]
      /\ \A i \in n + 2 .. Len(s) + 1 : t[i] = back[i - (n + 1)]
  <2> DEFINE mid == front \o <<e>>
  <2>1. mid \in Seq(T) /\ Len(mid) = n + 1
    BY <1>5
  <2> HIDE DEF mid
  <2>2. /\ mid \o back \in Seq(T) /\ Len(mid \o back) = Len(mid) + Len(back)
        /\ \A i \in 1 .. Len(mid) + Len(back) :
              (mid \o back)[i] = IF i <= Len(mid) THEN mid[i] ELSE back[i - Len(mid)]
    BY <1>2, <2>1, ConcatProperties
  <2>3. Len(mid) + Len(back) = Len(s) + 1 /\ Len(s) \in Nat
    BY <1>2, <2>1
  <2>4. t = mid \o back
    BY <1>4 DEF mid
  <2> HIDE DEF t
  <2>5. QED
    BY <2>1, <2>2, <2>3, <2>4 DEF mid
<1> HIDE DEF t
<1>7. ASSUME NEW i \in 1 .. Len(s) + 1
      PROVE  t[i] = IF i <= n THEN s[i] ELSE IF i = n + 1 THEN e ELSE s[i - 1]
  <2> Len(s) \in Nat
    OBVIOUS
  <2>1. CASE i <= n + 1
    BY <1>5, <1>6, <2>1
  <2>2. CASE i > n + 1
    <3>1. i - (n + 1) \in 1 .. Len(s) - n /\ n + (i - (n + 1)) = i - 1
      BY <2>2
    <3>2. back[i - (n + 1)] = s[i - 1]
      BY <1>2, <3>1
    <3>3. i \in n + 2 .. Len(s) + 1
      BY <2>2
    <3>4. t[i] = back[i - (n + 1)]
      BY <1>6, <3>3
    <3>5. QED
      BY <2>2, <3>2, <3>4
  <2>3. QED
    BY <2>1, <2>2
<1>8. QED
  BY <1>6, <1>7 DEF t

\* The sequence without the element at position k.
LEMMA RemovedAt ==
    ASSUME NEW T, NEW s \in Seq(T), NEW k \in 1 .. Len(s)
    PROVE  /\ RemoveAt(s, k) \in Seq(T)
           /\ Len(RemoveAt(s, k)) = Len(s) - 1
           /\ \A i \in 1 .. Len(s) - 1 : RemoveAt(s, k)[i] = IF i < k THEN s[i] ELSE s[i + 1]
<1> DEFINE front == SubSeq(s, 1, k - 1)
           back == SubSeq(s, k + 1, Len(s))
<1>1. front \in Seq(T) /\ Len(front) = k - 1 /\ \A i \in 1 .. k - 1 : front[i] = s[i]
  BY SubSeqProperties
<1>2. /\ back \in Seq(T) /\ Len(back) = Len(s) - k
      /\ \A i \in 1 .. Len(s) - k : back[i] = s[k + i]
  BY SubSeqProperties
<1>3. RemoveAt(s, k) = front \o back
  BY DEF RemoveAt
<1> HIDE DEF front, back
<1>4. /\ front \o back \in Seq(T) /\ Len(front \o back) = Len(s) - 1
      /\ \A i \in 1 .. Len(s) - 1 :
            (front \o back)[i] = IF i <= k - 1 THEN front[i] ELSE back[i - (k - 1)]
  <2>1. /\ front \o back \in Seq(T) /\ Len(front \o back) = Len(front) + Len(back)
        /\ \A i \in 1 .. Len(front) + Len(back) :
              (front \o back)[i] = IF i <= Len(front) THEN front[i] ELSE back[i - Len(front)]
    BY <1>1, <1>2, ConcatProperties
  <2>2. Len(front) + Len(back) = Len(s) - 1 /\ Len(front) = k - 1 /\ Len(s) \in Nat
    BY <1>1, <1>2
  <2>3. QED
    BY <2>1, <2>2
<1>5. ASSUME NEW i \in 1 .. Len(s) - 1
      PROVE  RemoveAt(s, k)[i] = IF i < k THEN s[i] ELSE s[i + 1]
  <2> Len(s) \in Nat
    OBVIOUS
  <2>1. CASE i < k
    BY <1>1, <1>3, <1>4, <2>1
  <2>2. CASE i >= k
    <3>1. i - (k - 1) \in 1 .. Len(s) - k /\ k + (i - (k - 1)) = i + 1
      BY <2>2
    <3>2. back[i - (k - 1)] = s[i + 1]
      BY <1>2, <3>1
    <3>3. ~(i <= k - 1)
      BY <2>2
    <3>4. (front \o back)[i] = back[i - (k - 1)]
      BY <1>4, <3>3
    <3>5. ~(i < k)
      BY <2>2
    <3>6. QED
      BY <1>3, <3>2, <3>4, <3>5
  <2>3. QED
    BY <2>1, <2>2
<1>6. QED
  BY <1>3, <1>4, <1>5

\* Of the first N intervals, interval k is replaced by <<c, d>>.
ReplacedTo(s, k, c, d, t, N) == \A i \in 1 .. N : t[i] = IF i = k THEN <<c, d>> ELSE s[i]

\* ... <<c, d>> is inserted behind position n.
InsertedTo(s, n, c, d, t, N) ==
    \A i \in 1 .. N + 1 :
        t[i] = IF i <= n THEN s[i] ELSE IF i = n + 1 THEN <<c, d>> ELSE s[i - 1]

\* ... the intervals k and k + 1 become one.
JoinedTo(s, k, t, N) ==
    \A i \in 1 .. N - 1 :
        t[i] = IF i < k THEN s[i] ELSE IF i = k THEN <<s[k][1], s[k + 1][2]>> ELSE s[i + 1]

\* The same of whole lists.
Replaced(s, k, c, d, t) ==
    t \in Seq(Nat \X Nat) /\ Len(t) = Len(s) /\ ReplacedTo(s, k, c, d, t, Len(s))

Inserted(s, n, c, d, t) ==
    t \in Seq(Nat \X Nat) /\ Len(t) = Len(s) + 1 /\ InsertedTo(s, n, c, d, t, Len(s))

Joined(s, k, t) ==
    t \in Seq(Nat \X Nat) /\ Len(t) = Len(s) - 1 /\ JoinedTo(s, k, t, Len(s))

\* EXCEPT replaces one interval.
LEMMA ReplacedBy ==
    ASSUME NEW s \in Seq(Nat \X Nat), NEW k \in 1 .. Len(s), NEW c \in Nat, NEW d \in Nat
    PROVE  Replaced(s, k, c, d, [s EXCEPT ![k] = <<c, d>>])
<1>1. <<c, d>> \in Nat \X Nat
  OBVIOUS
<1> DEFINE e == <<c, d>>
           t == [s EXCEPT ![k] = e]
<1> HIDE DEF e
<1>2. /\ t \in Seq(Nat \X Nat) /\ Len(t) = Len(s)
      /\ \A i \in 1 .. Len(s) : t[i] = IF i = k THEN e ELSE s[i]
  BY <1>1, ExceptSeq DEF e
<1>3. QED
  BY <1>2 DEF Replaced, ReplacedTo, e

\* What Slices::insert returns, in its five cases.
LEMMA InsertCases ==
    ASSUME NEW s, Ordered(s), NEW b \in Nat, NEW len \in Nat \ {0}
    PROVE  LET n == StartsBefore(s, b)
               t == InsertSlice(s, b, len)
           IN  \/ /\ n + 1 \in 1 .. Len(s) /\ s[n + 1][1] = b
                  /\ \/ s[n + 1][2] < b + len /\ Replaced(s, n + 1, b, b + len, t)
                     \/ s[n + 1][2] >= b + len /\ Replaced(s, n + 1, b, s[n + 1][2], t)
               \/ /\ \A i \in 1 .. Len(s) : s[i][1] # b
                  /\ \/ /\ n \in 1 .. Len(s) /\ n + 1 \in 1 .. Len(s)
                        /\ s[n][2] >= b /\ s[n + 1][1] = b + len
                        /\ Joined(s, n, t)
                     \/ /\ n \in 1 .. Len(s) /\ s[n][2] >= b
                        /\ n + 1 \in 1 .. Len(s) => s[n + 1][1] # b + len
                        /\ Replaced(s, n, s[n][1], b + len, t)
                     \/ /\ n + 1 \in 1 .. Len(s) /\ s[n + 1][1] = b + len
                        /\ n \in 1 .. Len(s) => s[n][2] < b
                        /\ Replaced(s, n + 1, b, s[n + 1][2], t)
                     \/ /\ n \in 0 .. Len(s)
                        /\ n \in 1 .. Len(s) => s[n][2] < b
                        /\ n + 1 \in 1 .. Len(s) => s[n + 1][1] # b + len
                        /\ Inserted(s, n, b, b + len, t)
<1> DEFINE n == StartsBefore(s, b)
           t == InsertSlice(s, b, len)
           end == b + len
           right == n < Len(s) /\ s[n + 1][1] = end
           left == n > 0 /\ s[n][2] >= b
<1>1. /\ n \in 0 .. Len(s)
      /\ \A i \in 1 .. n : s[i][1] < b
      /\ \A i \in n + 1 .. Len(s) : s[i][1] >= b
  BY SplitPoint
<1>2. s \in Seq(Nat \X Nat) /\ Len(s) \in Nat /\ DOMAIN s = 1 .. Len(s)
  BY DEF Ordered
<1>3. \A i \in 1 .. Len(s) : s[i] \in Nat \X Nat /\ s[i][1] \in Nat /\ s[i][2] \in Nat
  BY <1>2
<1>4. end \in Nat
  OBVIOUS
<1>5. t = IF \E i \in DOMAIN s : s[i][1] = b
          THEN [s EXCEPT ![n + 1] = <<b, IF s[n + 1][2] < end THEN end ELSE s[n + 1][2]>>]
          ELSE IF left /\ right THEN RemoveAt([s EXCEPT ![n] = <<s[n][1], s[n + 1][2]>>], n + 1)
          ELSE IF left THEN [s EXCEPT ![n] = <<s[n][1], end>>]
          ELSE IF right THEN [s EXCEPT ![n + 1] = <<b, s[n + 1][2]>>]
          ELSE InsertAt(s, n + 1, <<b, end>>)
  BY Zenon DEF InsertSlice
<1> HIDE DEF n, t, end
<1>6. CASE \E i \in DOMAIN s : s[i][1] = b
  <2>1. PICK i \in 1 .. Len(s) : s[i][1] = b
    BY <1>2, <1>6
  <2>2. i > n
    BY <1>1, <1>3, <2>1
  <2>3. n + 1 \in 1 .. Len(s) /\ s[n + 1][1] >= b
    BY <1>1, <1>2, <2>2
  <2>4. n + 1 < i => s[n + 1][1] < s[i][1]
    BY <1>2, <2>1, <2>3 DEF Ordered
  <2>5. s[n + 1][1] = b
    BY <1>1, <1>3, <2>1, <2>2, <2>3, <2>4
  <2>6. s[n + 1][2] \in Nat
    BY <1>3, <2>3
  <2>7. CASE s[n + 1][2] < end
    <3>1. t = [s EXCEPT ![n + 1] = <<b, end>>]
      BY <1>5, <1>6, <2>7
    <3>2. Replaced(s, n + 1, b, end, t)
      BY <1>2, <1>4, <2>3, <3>1, ReplacedBy
    <3>3. QED
      BY <2>3, <2>5, <2>7, <3>2 DEF n, t, end
  <2>8. CASE ~(s[n + 1][2] < end)
    <3>1. t = [s EXCEPT ![n + 1] = <<b, s[n + 1][2]>>]
      BY <1>5, <1>6, <2>8
    <3>2. Replaced(s, n + 1, b, s[n + 1][2], t)
      BY <1>2, <2>3, <2>6, <3>1, ReplacedBy
    <3>3. s[n + 1][2] >= end
      BY <1>4, <2>6, <2>8
    <3>4. QED
      BY <2>3, <2>5, <3>2, <3>3 DEF n, t, end
  <2>9. QED
    BY <2>7, <2>8
<1>7. CASE ~\E i \in DOMAIN s : s[i][1] = b
  <2>1. \A i \in 1 .. Len(s) : s[i][1] # b
    BY <1>2, <1>7
  <2>2. CASE left /\ right
    <3>1. n \in 1 .. Len(s) /\ n + 1 \in 1 .. Len(s) /\ s[n][2] >= b /\ s[n + 1][1] = end
      BY <1>1, <1>2, <2>2
    <3> DEFINE u == [s EXCEPT ![n] = <<s[n][1], s[n + 1][2]>>]
    <3>2. t = RemoveAt(u, n + 1)
      BY <1>5, <1>7, <2>2
    <3>3. Replaced(s, n, s[n][1], s[n + 1][2], u)
      BY <1>2, <1>3, <3>1, ReplacedBy
    <3> HIDE DEF u
    <3>4. u \in Seq(Nat \X Nat) /\ Len(u) = Len(s)
      BY <3>3 DEF Replaced
    <3> DEFINE k == n + 1
    <3>5. /\ t \in Seq(Nat \X Nat) /\ Len(t) = Len(u) - 1
          /\ \A i \in 1 .. Len(u) - 1 : t[i] = IF i < k THEN u[i] ELSE u[i + 1]
      <4>1. k \in 1 .. Len(u) /\ t = RemoveAt(u, k)
        BY <3>1, <3>2, <3>4
      <4> HIDE DEF k
      <4>2. QED
        BY <3>4, <4>1, RemovedAt
    <3>6. ASSUME NEW i \in 1 .. Len(s) - 1
          PROVE  t[i] = IF i < n THEN s[i] ELSE IF i = n THEN <<s[n][1], s[n + 1][2]>> ELSE s[i + 1]
      <4>1. t[i] = IF i < k THEN u[i] ELSE u[i + 1]
        BY <3>4, <3>5
      <4>2. i \in 1 .. Len(s) /\ i + 1 \in 1 .. Len(s) /\ (i < k <=> i <= n) /\ n \in Nat
        BY <1>1, <1>2
      <4>3. /\ u[i] = IF i = n THEN <<s[n][1], s[n + 1][2]>> ELSE s[i]
            /\ u[i + 1] = IF i + 1 = n THEN <<s[n][1], s[n + 1][2]>> ELSE s[i + 1]
        BY <3>3, <4>2 DEF Replaced, ReplacedTo
      <4> HIDE DEF k
      <4>4. CASE i <= n
        BY <4>1, <4>2, <4>3, <4>4
      <4>5. CASE i > n
        BY <4>1, <4>2, <4>3, <4>5
      <4>6. QED
        BY <4>2, <4>4, <4>5
    <3>7. Joined(s, n, t)
      BY <3>4, <3>5, <3>6 DEF Joined, JoinedTo
    <3>8. QED
      BY <2>1, <3>1, <3>7 DEF n, t, end
  <2>3. CASE left /\ ~right
    <3>1. n \in 1 .. Len(s) /\ s[n][2] >= b /\ (n + 1 \in 1 .. Len(s) => s[n + 1][1] # end)
      BY <1>1, <1>2, <2>3
    <3>2. t = [s EXCEPT ![n] = <<s[n][1], end>>]
      BY <1>5, <1>7, <2>3
    <3>3. Replaced(s, n, s[n][1], end, t)
      BY <1>2, <1>3, <1>4, <3>1, <3>2, ReplacedBy
    <3>4. QED
      BY <2>1, <3>1, <3>3 DEF n, t, end
  <2>4. CASE ~left /\ right
    <3>1. n + 1 \in 1 .. Len(s) /\ s[n + 1][1] = end /\ (n \in 1 .. Len(s) => s[n][2] < b)
      BY <1>1, <1>2, <1>3, <2>4
    <3>2. t = [s EXCEPT ![n + 1] = <<b, s[n + 1][2]>>]
      BY <1>5, <1>7, <2>4
    <3>3. Replaced(s, n + 1, b, s[n + 1][2], t)
      BY <1>2, <1>3, <3>1, <3>2, ReplacedBy
    <3>4. QED
      BY <2>1, <3>1, <3>3 DEF n, t, end
  <2>5. CASE ~left /\ ~right
    <3>1. /\ n \in 1 .. Len(s) => s[n][2] < b
          /\ n + 1 \in 1 .. Len(s) => s[n + 1][1] # end
      BY <1>1, <1>2, <1>3, <2>5
    <3>2. t = InsertAt(s, n + 1, <<b, end>>)
      BY <1>5, <1>7, <2>5
    <3> DEFINE e == <<b, end>>
    <3>3. e \in Nat \X Nat
      BY <1>4
    <3>4. Inserted(s, n, b, end, t)
      <4> HIDE DEF e
      <4>1. /\ t \in Seq(Nat \X Nat) /\ Len(t) = Len(s) + 1
            /\ \A i \in 1 .. Len(s) + 1 :
                 t[i] = IF i <= n THEN s[i] ELSE IF i = n + 1 THEN e ELSE s[i - 1]
        <5>1. t = InsertAt(s, n + 1, e)
          BY <3>2 DEF e
        <5>2. n \in 0 .. Len(s) /\ s \in Seq(Nat \X Nat)
          BY <1>1, <1>2
        <5> DEFINE P == Nat \X Nat
        <5>3. s \in Seq(P) /\ e \in P
          BY <3>3, <5>2
        <5>4. InsertAt(s, n + 1, e) \in Seq(P)
          <6> HIDE DEF P
          <6>1. QED
            BY <5>2, <5>3, InsertedAt
        <5>5. Len(InsertAt(s, n + 1, e)) = Len(s) + 1
          <6> HIDE DEF P
          <6>1. QED
            BY <5>2, <5>3, InsertedAt
        <5>6. \A i \in 1 .. Len(s) + 1 :
                InsertAt(s, n + 1, e)[i] =
                    IF i <= n THEN s[i] ELSE IF i = n + 1 THEN e ELSE s[i - 1]
          <6> HIDE DEF P
          <6>1. QED
            BY <5>2, <5>3, InsertedAt
        <5>7. QED
          BY <5>1, <5>4, <5>5, <5>6
      <4>2. QED
        BY <4>1 DEF Inserted, InsertedTo, e
    <3>5. QED
      BY <1>1, <2>1, <3>1, <3>4 DEF n, t, end
  <2>6. QED
    BY <2>2, <2>3, <2>4, <2>5
<1>8. QED
  BY <1>6, <1>7

-----------------------------------------------------------------------------
\* The same of the first N intervals, without the sequence.
OrderedTo(s, N) ==
    /\ \A i \in 1 .. N : s[i][1] \in Nat /\ s[i][2] \in Nat /\ s[i][1] < s[i][2]
    /\ \A i, j \in 1 .. N : i < j => s[i][1] < s[j][1]

\* Position x is in one of the first N intervals.
In(x, s, N) == x \in Nat /\ \E i \in 1 .. N : s[i][1] <= x /\ x < s[i][2]

\* An interval that starts at c fits in behind position n, or in place k.
FitsBehind(s, n, c, N) ==
    /\ \A i \in 1 .. N : i <= n => s[i][1] < c
    /\ \A i \in 1 .. N : n < i => c < s[i][1]

FitsAt(s, k, c, N) ==
    /\ \A i \in 1 .. N : i < k => s[i][1] < c
    /\ \A i \in 1 .. N : k < i => c < s[i][1]

\* The interval <<c, d>>, or the first M intervals of t, hold positions of the
\* first N of s and of <<b, e>> only.
Fills(c, d, s, N, b, e) == \A x \in c .. d - 1 : In(x, s, N) \/ x \in b .. e - 1
Within(t, M, s, N, b, e) == \A x : In(x, t, M) => In(x, s, N) \/ x \in b .. e - 1

\* The entries of a list are pairs of numbers.
LEMMA Entries ==
    ASSUME NEW s \in Seq(Nat \X Nat)
    PROVE  /\ Len(s) \in Nat /\ DOMAIN s = 1 .. Len(s)
           /\ \A i \in 1 .. Len(s) : s[i] \in Nat \X Nat /\ s[i][1] \in Nat /\ s[i][2] \in Nat
  OBVIOUS

\* Order and cover, seen without the sequence.
LEMMA OrderedAs ==
    ASSUME NEW s \in Seq(Nat \X Nat)
    PROVE  /\ Ordered(s) <=> OrderedTo(s, Len(s))
           /\ \A x : x \in Cover(s) <=> In(x, s, Len(s))
<1>1. Ordered(s) <=> OrderedTo(s, Len(s))
  BY Entries DEF Ordered, OrderedTo
<1>2. ASSUME NEW x
      PROVE  x \in Cover(s) <=> In(x, s, Len(s))
  <2>1. \A i \in 1 .. Len(s) :
          x \in s[i][1] .. s[i][2] - 1 <=> x \in Nat /\ s[i][1] <= x /\ x < s[i][2]
    BY Entries
  <2>2. x \in Cover(s) <=> \E i \in 1 .. Len(s) : x \in s[i][1] .. s[i][2] - 1
    BY Entries DEF Cover
  <2>3. QED
    BY <2>1, <2>2 DEF In
<1>3. QED
  BY <1>1, <1>2

\* A replaced interval that stays between its neighbours keeps the order.
LEMMA ReplacedOrdered ==
    ASSUME NEW s, NEW t, NEW N \in Nat, NEW k \in 1 .. N, NEW c \in Nat, NEW d \in Nat,
           OrderedTo(s, N), c < d, ReplacedTo(s, k, c, d, t, N), FitsAt(s, k, c, N)
    PROVE  /\ OrderedTo(t, N)
           /\ Within(t, N, s, N, c, d)
           /\ \A x : In(x, s, N) => In(x, t, N) \/ x \in s[k][1] .. s[k][2] - 1
           /\ \A x \in c .. d - 1 : In(x, t, N)
<1>1. /\ t[k][1] = c /\ t[k][2] = d
      /\ \A i \in 1 .. N : i # k => t[i][1] = s[i][1] /\ t[i][2] = s[i][2]
  <2>1. t[k] = <<c, d>> /\ \A i \in 1 .. N : i # k => t[i] = s[i]
    BY DEF ReplacedTo
  <2>2. QED
    BY <2>1
<1>2. \A i \in 1 .. N : s[i][1] \in Nat /\ s[i][2] \in Nat /\ s[i][1] < s[i][2]
  BY DEF OrderedTo
<1>3. OrderedTo(t, N)
  <2>1. \A i \in 1 .. N : t[i][1] \in Nat /\ t[i][2] \in Nat /\ t[i][1] < t[i][2]
    BY <1>1, <1>2
  <2>2. ASSUME NEW i \in 1 .. N, NEW j \in 1 .. N, i < j
        PROVE  t[i][1] < t[j][1]
    <3>1. s[i][1] < s[j][1]
      BY <2>2 DEF OrderedTo
    <3>2. QED
      BY <1>1, <2>2, <3>1 DEF FitsAt
  <2>3. QED
    BY <2>1, <2>2 DEF OrderedTo
<1>4. ASSUME NEW x, In(x, t, N)
      PROVE  In(x, s, N) \/ x \in c .. d - 1
  <2>1. PICK i \in 1 .. N : x \in Nat /\ t[i][1] <= x /\ x < t[i][2]
    BY <1>4 DEF In
  <2>2. QED
    BY <1>1, <2>1 DEF In
<1>5. ASSUME NEW x, In(x, s, N)
      PROVE  In(x, t, N) \/ x \in s[k][1] .. s[k][2] - 1
  <2>1. PICK i \in 1 .. N : x \in Nat /\ s[i][1] <= x /\ x < s[i][2]
    BY <1>5 DEF In
  <2>2. QED
    BY <1>1, <1>2, <2>1 DEF In
<1>6. ASSUME NEW x \in c .. d - 1
      PROVE  In(x, t, N)
  BY <1>1 DEF In
<1>7. QED
  BY <1>3, <1>4, <1>5, <1>6 DEF Within

\* An inserted interval between its neighbours keeps the order.
LEMMA InsertedOrdered ==
    ASSUME NEW s, NEW t, NEW N \in Nat, NEW n \in 0 .. N, NEW c \in Nat, NEW d \in Nat,
           OrderedTo(s, N), c < d, InsertedTo(s, n, c, d, t, N), FitsBehind(s, n, c, N)
    PROVE  /\ OrderedTo(t, N + 1)
           /\ Within(t, N + 1, s, N, c, d)
           /\ \A x : In(x, s, N) \/ x \in c .. d - 1 => In(x, t, N + 1)
<1> DEFINE old(i) == IF i <= n THEN i ELSE i - 1
<1>1. n + 1 \in 1 .. N + 1 /\ t[n + 1][1] = c /\ t[n + 1][2] = d
  <2>1. n + 1 \in 1 .. N + 1 /\ ~(n + 1 <= n)
    OBVIOUS
  <2>2. t[n + 1] = <<c, d>>
    BY <2>1 DEF InsertedTo
  <2>3. QED
    BY <2>1, <2>2
<1>2. ASSUME NEW i \in 1 .. N + 1, i # n + 1
      PROVE  old(i) \in 1 .. N /\ t[i] = s[old(i)]
  BY <1>2 DEF InsertedTo
<1>3. \A i \in 1 .. N : s[i][1] \in Nat /\ s[i][2] \in Nat /\ s[i][1] < s[i][2]
  BY DEF OrderedTo
<1>4. OrderedTo(t, N + 1)
  <2>1. ASSUME NEW i \in 1 .. N + 1
        PROVE  t[i][1] \in Nat /\ t[i][2] \in Nat /\ t[i][1] < t[i][2]
    <3> HIDE DEF old
    <3>1. QED
      BY <1>1, <1>2, <1>3
  <2>2. ASSUME NEW i \in 1 .. N + 1, NEW j \in 1 .. N + 1, i < j
        PROVE  t[i][1] < t[j][1]
    <3>1. CASE i = n + 1
      <4>1. j # n + 1 /\ n < old(j)
        BY <2>2, <3>1
      <4> HIDE DEF old
      <4>2. QED
        BY <1>1, <1>2, <3>1, <4>1 DEF FitsBehind
    <3>2. CASE j = n + 1
      <4>1. i # n + 1 /\ old(i) <= n
        BY <2>2, <3>2
      <4> HIDE DEF old
      <4>2. QED
        BY <1>1, <1>2, <3>2, <4>1 DEF FitsBehind
    <3>3. CASE i # n + 1 /\ j # n + 1
      <4>1. old(i) < old(j)
        BY <2>2, <3>3
      <4> HIDE DEF old
      <4>2. s[old(i)][1] < s[old(j)][1]
        BY <1>2, <3>3, <4>1 DEF OrderedTo
      <4>3. QED
        BY <1>2, <3>3, <4>2
    <3>4. QED
      BY <3>1, <3>2, <3>3
  <2>3. QED
    BY <2>1, <2>2 DEF OrderedTo
<1>5. ASSUME NEW x, In(x, t, N + 1)
      PROVE  In(x, s, N) \/ x \in c .. d - 1
  <2>1. PICK i \in 1 .. N + 1 : x \in Nat /\ t[i][1] <= x /\ x < t[i][2]
    BY <1>5 DEF In
  <2> HIDE DEF old
  <2>2. QED
    BY <1>1, <1>2, <2>1 DEF In
<1>6. ASSUME NEW x, In(x, s, N)
      PROVE  In(x, t, N + 1)
  <2>1. PICK i \in 1 .. N : x \in Nat /\ s[i][1] <= x /\ x < s[i][2]
    BY <1>6 DEF In
  <2>2. PICK j \in 1 .. N + 1 : j # n + 1 /\ old(j) = i
    <3>1. CASE i <= n
      BY <3>1
    <3>2. CASE i > n
      <4>1. i + 1 \in 1 .. N + 1 /\ i + 1 # n + 1 /\ old(i + 1) = i
        BY <3>2
      <4>2. QED
        BY <4>1
    <3>3. QED
      BY <3>1, <3>2
  <2> HIDE DEF old
  <2>3. t[j] = s[i]
    BY <1>2, <2>2
  <2>4. QED
    BY <2>1, <2>3 DEF In
<1>7. ASSUME NEW x \in c .. d - 1
      PROVE  In(x, t, N + 1)
  BY <1>1 DEF In
<1>8. QED
  BY <1>4, <1>5, <1>6, <1>7 DEF Within

\* Two neighbours joined into one interval keep the order.
LEMMA JoinedOrdered ==
    ASSUME NEW s, NEW t, NEW N \in Nat, NEW k \in 1 .. N - 1,
           OrderedTo(s, N), JoinedTo(s, k, t, N)
    PROVE  /\ OrderedTo(t, N - 1)
           /\ Within(t, N - 1, s, N, s[k][2], s[k + 1][1])
           /\ \A x : In(x, s, N) => In(x, t, N - 1) \/ x \in s[k + 1][2] .. s[k][2] - 1
           /\ \A x \in s[k][1] .. s[k + 1][2] - 1 : In(x, t, N - 1)
<1> DEFINE old(i) == IF i < k THEN i ELSE i + 1
<1>1. t[k][1] = s[k][1] /\ t[k][2] = s[k + 1][2]
  <2>1. t[k] = <<s[k][1], s[k + 1][2]>>
    BY DEF JoinedTo
  <2>2. QED
    BY <2>1
<1>2. ASSUME NEW i \in 1 .. N - 1, i # k
      PROVE  old(i) \in 1 .. N /\ t[i] = s[old(i)]
  BY <1>2 DEF JoinedTo
<1>3. \A i \in 1 .. N : s[i][1] \in Nat /\ s[i][2] \in Nat /\ s[i][1] < s[i][2]
  BY DEF OrderedTo
<1>4. k \in 1 .. N /\ k + 1 \in 1 .. N /\ k < k + 1
  OBVIOUS
<1>5. s[k][1] < s[k + 1][1] /\ s[k][1] < s[k + 1][2]
  <2>1. s[k][1] < s[k + 1][1]
    BY <1>4 DEF OrderedTo
  <2>2. QED
    BY <1>3, <1>4, <2>1
<1>6. OrderedTo(t, N - 1)
  <2>1. ASSUME NEW i \in 1 .. N - 1
        PROVE  t[i][1] \in Nat /\ t[i][2] \in Nat /\ t[i][1] < t[i][2]
    <3> HIDE DEF old
    <3>1. QED
      BY <1>1, <1>2, <1>3, <1>4, <1>5
  <2>2. ASSUME NEW i \in 1 .. N - 1, NEW j \in 1 .. N - 1, i < j
        PROVE  t[i][1] < t[j][1]
    <3>1. CASE i = k
      <4>1. j # k /\ k < old(j)
        BY <2>2, <3>1
      <4>2. old(j) \in 1 .. N /\ t[j] = s[old(j)]
        BY <1>2, <4>1
      <4> HIDE DEF old
      <4>3. s[k][1] < s[old(j)][1]
        BY <1>4, <4>1, <4>2 DEF OrderedTo
      <4>4. QED
        BY <1>1, <3>1, <4>2, <4>3
    <3>2. CASE j = k
      <4>1. i # k /\ old(i) < k
        BY <2>2, <3>2
      <4>2. old(i) \in 1 .. N /\ t[i] = s[old(i)]
        BY <1>2, <4>1
      <4> HIDE DEF old
      <4>3. s[old(i)][1] < s[k][1]
        BY <1>4, <4>1, <4>2 DEF OrderedTo
      <4>4. QED
        BY <1>1, <3>2, <4>2, <4>3
    <3>3. CASE i # k /\ j # k
      <4>1. old(i) < old(j)
        BY <2>2, <3>3
      <4> HIDE DEF old
      <4>2. s[old(i)][1] < s[old(j)][1]
        BY <1>2, <3>3, <4>1 DEF OrderedTo
      <4>3. QED
        BY <1>2, <3>3, <4>2
    <3>4. QED
      BY <3>1, <3>2, <3>3
  <2>3. QED
    BY <2>1, <2>2 DEF OrderedTo
<1>7. ASSUME NEW x, In(x, t, N - 1)
      PROVE  In(x, s, N) \/ x \in s[k][2] .. s[k + 1][1] - 1
  <2>1. PICK i \in 1 .. N - 1 : x \in Nat /\ t[i][1] <= x /\ x < t[i][2]
    BY <1>7 DEF In
  <2>2. CASE i = k
    <3>1. \/ s[k][1] <= x /\ x < s[k][2]
          \/ x \in s[k][2] .. s[k + 1][1] - 1
          \/ s[k + 1][1] <= x /\ x < s[k + 1][2]
      BY <1>1, <1>3, <1>4, <2>1, <2>2
    <3>2. QED
      BY <1>4, <2>1, <3>1 DEF In
  <2>3. CASE i # k
    <3> HIDE DEF old
    <3>1. QED
      BY <1>2, <2>1, <2>3 DEF In
  <2>4. QED
    BY <2>2, <2>3
<1>8. ASSUME NEW x \in s[k][1] .. s[k + 1][2] - 1
      PROVE  In(x, t, N - 1)
  <2>1. x \in Nat /\ t[k][1] <= x /\ x < t[k][2]
    BY <1>1, <1>3, <1>4, <1>8
  <2>2. QED
    BY <2>1 DEF In
<1>9. ASSUME NEW x, In(x, s, N)
      PROVE  In(x, t, N - 1) \/ x \in s[k + 1][2] .. s[k][2] - 1
  <2>1. PICK i \in 1 .. N : x \in Nat /\ s[i][1] <= x /\ x < s[i][2]
    BY <1>9 DEF In
  <2>2. CASE i = k \/ i = k + 1
    <3>1. x \in s[k][1] .. s[k + 1][2] - 1 \/ x \in s[k + 1][2] .. s[k][2] - 1
      <4>1. CASE i = k
        BY <1>3, <1>4, <2>1, <4>1
      <4>2. CASE i = k + 1
        BY <1>3, <1>4, <1>5, <2>1, <4>2
      <4>3. QED
        BY <2>2, <4>1, <4>2
    <3>2. QED
      BY <1>8, <3>1
  <2>3. CASE i # k /\ i # k + 1
    <3>1. PICK j \in 1 .. N - 1 : j # k /\ old(j) = i
      <4>1. CASE i < k
        BY <4>1
      <4>2. CASE i > k + 1
        <5>1. i - 1 \in 1 .. N - 1 /\ i - 1 # k /\ old(i - 1) = i
          BY <4>2
        <5>2. QED
          BY <5>1
      <4>3. QED
        BY <2>3, <4>1, <4>2
    <3> HIDE DEF old
    <3>2. t[j] = s[i]
      BY <1>2, <3>1
    <3>3. QED
      BY <2>1, <3>2 DEF In
  <2>4. QED
    BY <2>2, <2>3
<1>10. QED
  BY <1>6, <1>7, <1>8, <1>9 DEF Within

\* The list t holds what s holds and the positions of <<b, e>>, at most.
Grown(s, t, b, e) == Ordered(t) /\ Cover(t) \subseteq Cover(s) \cup (b .. e - 1)

\* Any block, received before or not, keeps the list ordered and adds nothing to
\* it but its own positions.
LEMMA AnyBlock ==
    ASSUME NEW s, Ordered(s), NEW b \in Nat, NEW len \in Nat \ {0}
    PROVE  /\ Ordered(InsertSlice(s, b, len))
           /\ Cover(InsertSlice(s, b, len)) \subseteq Cover(s) \cup (b .. b + len - 1)
<1> DEFINE n == StartsBefore(s, b)
           t == InsertSlice(s, b, len)
           end == b + len
<1>1. s \in Seq(Nat \X Nat)
  BY DEF Ordered
<1>2. PICK N \in Nat : N = Len(s)
  BY <1>1
<1>3. OrderedTo(s, N) /\ \A x : x \in Cover(s) <=> In(x, s, N)
  BY <1>1, <1>2, OrderedAs
<1>4. /\ n \in 0 .. N
      /\ \A i \in 1 .. n : s[i][1] < b
      /\ \A i \in n + 1 .. N : s[i][1] >= b
  BY <1>2, SplitPoint
<1>5. \A i \in 1 .. N : s[i][1] \in Nat /\ s[i][2] \in Nat /\ s[i][1] < s[i][2]
  BY <1>3 DEF OrderedTo
<1>6. end \in Nat /\ b < end
  OBVIOUS
<1>7. \/ /\ n + 1 \in 1 .. N /\ s[n + 1][1] = b
         /\ \/ s[n + 1][2] < end /\ Replaced(s, n + 1, b, end, t)
            \/ s[n + 1][2] >= end /\ Replaced(s, n + 1, b, s[n + 1][2], t)
      \/ /\ \A i \in 1 .. N : s[i][1] # b
         /\ \/ /\ n \in 1 .. N /\ n + 1 \in 1 .. N
               /\ s[n][2] >= b /\ s[n + 1][1] = end
               /\ Joined(s, n, t)
            \/ n \in 1 .. N /\ s[n][2] >= b /\ Replaced(s, n, s[n][1], end, t)
            \/ /\ n + 1 \in 1 .. N /\ s[n + 1][1] = end
               /\ Replaced(s, n + 1, b, s[n + 1][2], t)
            \/ Inserted(s, n, b, end, t)
  BY <1>2, InsertCases, Zenon
<1> SUFFICES Grown(s, t, b, end)
  BY DEF Grown
<1> HIDE DEF n, t, end
<1>8. ASSUME NEW M \in Nat, t \in Seq(Nat \X Nat), Len(t) = M, OrderedTo(t, M),
             Within(t, M, s, N, b, end)
      PROVE  Grown(s, t, b, end)
  <2>1. Ordered(t) /\ \A x : x \in Cover(t) <=> In(x, t, M)
    BY <1>8, OrderedAs
  <2>2. QED
    BY <1>3, <1>8, <2>1 DEF Within, Grown
<1>9. ASSUME NEW k \in 1 .. N, NEW c \in Nat, NEW d \in Nat, Replaced(s, k, c, d, t), c < d,
             FitsAt(s, k, c, N), Fills(c, d, s, N, b, end)
      PROVE  Grown(s, t, b, end)
  <2>1. t \in Seq(Nat \X Nat) /\ Len(t) = N /\ ReplacedTo(s, k, c, d, t, N)
    BY <1>2, <1>9 DEF Replaced
  <2>2. OrderedTo(t, N) /\ Within(t, N, s, N, c, d)
    BY <1>3, <1>9, <2>1, ReplacedOrdered
  <2>3. Within(t, N, s, N, b, end)
    BY <1>9, <2>2 DEF Within, Fills
  <2>4. QED
    BY <1>8, <2>1, <2>2, <2>3
<1> DEFINE k == n + 1
<1>10. CASE /\ n + 1 \in 1 .. N /\ s[n + 1][1] = b
            /\ \/ s[n + 1][2] < end /\ Replaced(s, n + 1, b, end, t)
               \/ s[n + 1][2] >= end /\ Replaced(s, n + 1, b, s[n + 1][2], t)
  <2>1. k \in 1 .. N /\ s[k][2] \in Nat /\ b < s[k][2] /\ s[k][1] = b
    BY <1>5, <1>10
  <2>2. Replaced(s, k, b, end, t) \/ Replaced(s, k, b, s[k][2], t)
    BY <1>10
  <2> HIDE DEF k
  <2>3. FitsAt(s, k, b, N)
    BY <1>3, <2>1 DEF OrderedTo, FitsAt
  <2>4. Fills(b, s[k][2], s, N, b, end)
    BY <1>5, <2>1 DEF In, Fills
  <2>5. Fills(b, end, s, N, b, end)
    BY DEF Fills
  <2>6. QED
    BY <1>6, <1>9, <2>1, <2>2, <2>3, <2>4, <2>5
<1>11. CASE /\ n \in 1 .. N /\ n + 1 \in 1 .. N
            /\ s[n][2] >= b /\ s[n + 1][1] = end
            /\ Joined(s, n, t)
  <2>1. t \in Seq(Nat \X Nat) /\ Len(t) = N - 1 /\ n \in 1 .. N - 1 /\ N - 1 \in Nat
    BY <1>2, <1>11 DEF Joined
  <2>2. JoinedTo(s, n, t, N)
    BY <1>2, <1>11 DEF Joined
  <2>3. OrderedTo(t, N - 1) /\ Within(t, N - 1, s, N, s[n][2], s[n + 1][1])
    BY <1>3, <2>1, <2>2, JoinedOrdered
  <2>4. \A x \in s[n][2] .. s[n + 1][1] - 1 : x \in b .. end - 1
    BY <1>5, <1>6, <1>11
  <2>5. Within(t, N - 1, s, N, b, end)
    BY <2>3, <2>4 DEF Within
  <2>6. QED
    BY <1>8, <2>1, <2>3, <2>5
<1>12. CASE n \in 1 .. N /\ s[n][2] >= b /\ Replaced(s, n, s[n][1], end, t)
  <2>1. FitsAt(s, n, s[n][1], N)
    BY <1>3, <1>12 DEF OrderedTo, FitsAt
  <2>2. s[n][1] \in Nat /\ s[n][1] < end
    BY <1>4, <1>5, <1>6, <1>12
  <2>3. Fills(s[n][1], end, s, N, b, end)
    BY <1>5, <1>6, <1>12, <2>2 DEF In, Fills
  <2>4. QED
    BY <1>6, <1>9, <1>12, <2>1, <2>2, <2>3
<1>13. CASE /\ \A i \in 1 .. N : s[i][1] # b
            /\ n + 1 \in 1 .. N /\ s[n + 1][1] = end
            /\ Replaced(s, n + 1, b, s[n + 1][2], t)
  <2>1. /\ k \in 1 .. N /\ s[k][2] \in Nat /\ b < s[k][2] /\ s[k][1] = end
        /\ Replaced(s, k, b, s[k][2], t)
    BY <1>5, <1>6, <1>13
  <2>2. FitsAt(s, k, b, N)
    BY <1>4, <1>5, <1>13 DEF FitsAt
  <2> HIDE DEF k
  <2>3. Fills(b, s[k][2], s, N, b, end)
    BY <1>5, <1>6, <2>1 DEF In, Fills
  <2>4. QED
    BY <1>9, <2>1, <2>2, <2>3
<1>14. CASE (\A i \in 1 .. N : s[i][1] # b) /\ Inserted(s, n, b, end, t)
  <2>1. t \in Seq(Nat \X Nat) /\ Len(t) = N + 1 /\ N + 1 \in Nat
    BY <1>2, <1>14 DEF Inserted
  <2>2. InsertedTo(s, n, b, end, t, N)
    BY <1>2, <1>14 DEF Inserted
  <2>3. FitsBehind(s, n, b, N)
    BY <1>4, <1>5, <1>14 DEF FitsBehind
  <2>4. OrderedTo(t, N + 1) /\ Within(t, N + 1, s, N, b, end)
    BY <1>3, <1>4, <1>6, <2>2, <2>3, InsertedOrdered
  <2>5. QED
    BY <1>8, <2>1, <2>4
<1>15. QED
  BY <1>7, <1>10, <1>11, <1>12, <1>13, <1>14

-----------------------------------------------------------------------------
\* The first N intervals do not touch.
ApartTo(s, N) == \A i, j \in 1 .. N : i < j => s[i][2] < s[j][1]

\* Nothing touches <<c, d>> behind position n, or in place k.
FreeBehind(s, n, c, d, N) ==
    /\ \A i \in 1 .. N : i <= n => s[i][2] < c
    /\ \A i \in 1 .. N : n < i => d < s[i][1]

FreeAt(s, k, c, d, N) ==
    /\ \A i \in 1 .. N : i < k => s[i][2] < c
    /\ \A i \in 1 .. N : k < i => d < s[i][1]

\* A replaced interval nothing touches keeps the intervals apart.
LEMMA ReplacedApart ==
    ASSUME NEW s, NEW t, NEW N \in Nat, NEW k \in 1 .. N, NEW c \in Nat, NEW d \in Nat,
           ApartTo(s, N), ReplacedTo(s, k, c, d, t, N), FreeAt(s, k, c, d, N)
    PROVE  ApartTo(t, N)
<1>1. t[k] = <<c, d>> /\ \A i \in 1 .. N : i # k => t[i] = s[i]
  BY DEF ReplacedTo
<1>2. t[k][1] = c /\ t[k][2] = d
  BY <1>1
<1>3. ASSUME NEW i \in 1 .. N, NEW j \in 1 .. N, i < j
      PROVE  t[i][2] < t[j][1]
  <2>1. s[i][2] < s[j][1]
    BY <1>3 DEF ApartTo
  <2>2. QED
    BY <1>1, <1>2, <1>3, <2>1 DEF FreeAt
<1>4. QED
  BY <1>3 DEF ApartTo

\* So does an inserted one.
LEMMA InsertedApart ==
    ASSUME NEW s, NEW t, NEW N \in Nat, NEW n \in 0 .. N, NEW c \in Nat, NEW d \in Nat,
           ApartTo(s, N), InsertedTo(s, n, c, d, t, N), FreeBehind(s, n, c, d, N)
    PROVE  ApartTo(t, N + 1)
<1> DEFINE old(i) == IF i <= n THEN i ELSE i - 1
<1>1. t[n + 1][1] = c /\ t[n + 1][2] = d
  <2>1. n + 1 \in 1 .. N + 1 /\ ~(n + 1 <= n)
    OBVIOUS
  <2>2. t[n + 1] = <<c, d>>
    BY <2>1 DEF InsertedTo
  <2>3. QED
    BY <2>2
<1>2. ASSUME NEW i \in 1 .. N + 1, i # n + 1
      PROVE  old(i) \in 1 .. N /\ t[i] = s[old(i)]
  BY <1>2 DEF InsertedTo
<1>3. ASSUME NEW i \in 1 .. N + 1, NEW j \in 1 .. N + 1, i < j
      PROVE  t[i][2] < t[j][1]
  <2>1. CASE i = n + 1
    <3>1. j # n + 1 /\ n < old(j)
      BY <1>3, <2>1
    <3> HIDE DEF old
    <3>2. QED
      BY <1>1, <1>2, <2>1, <3>1 DEF FreeBehind
  <2>2. CASE j = n + 1
    <3>1. i # n + 1 /\ old(i) <= n
      BY <1>3, <2>2
    <3> HIDE DEF old
    <3>2. QED
      BY <1>1, <1>2, <2>2, <3>1 DEF FreeBehind
  <2>3. CASE i # n + 1 /\ j # n + 1
    <3>1. old(i) < old(j)
      BY <1>3, <2>3
    <3> HIDE DEF old
    <3>2. QED
      BY <1>2, <2>3, <3>1 DEF ApartTo
  <2>4. QED
    BY <2>1, <2>2, <2>3
<1>4. QED
  BY <1>3 DEF ApartTo

\* Two neighbours made one stay apart from the others.
LEMMA JoinedApart ==
    ASSUME NEW s, NEW t, NEW N \in Nat, NEW k \in 1 .. N - 1,
           ApartTo(s, N), JoinedTo(s, k, t, N)
    PROVE  ApartTo(t, N - 1)
<1> DEFINE first(i) == IF i <= k THEN i ELSE i + 1
           last(i) == IF i < k THEN i ELSE i + 1
<1>1. ASSUME NEW i \in 1 .. N - 1
      PROVE  /\ first(i) \in 1 .. N /\ t[i][1] = s[first(i)][1]
             /\ last(i) \in 1 .. N /\ t[i][2] = s[last(i)][2]
  <2>1. CASE i = k
    <3>1. t[i] = <<s[k][1], s[k + 1][2]>>
      BY <2>1 DEF JoinedTo
    <3>2. QED
      BY <2>1, <3>1
  <2>2. CASE i # k
    BY <2>2 DEF JoinedTo
  <2>3. QED
    BY <2>1, <2>2
<1>2. ASSUME NEW i \in 1 .. N - 1, NEW j \in 1 .. N - 1, i < j
      PROVE  t[i][2] < t[j][1]
  <2>1. last(i) < first(j)
    BY <1>2
  <2> HIDE DEF first, last
  <2>2. s[last(i)][2] < s[first(j)][1]
    BY <1>1, <2>1 DEF ApartTo
  <2>3. QED
    BY <1>1, <2>2
<1>3. QED
  BY <1>2 DEF ApartTo

\* The list t holds exactly what s holds and the positions of <<b, e>>.
Exact(s, t, b, e) == Apart(t) /\ Cover(t) = Cover(s) \cup (b .. e - 1)

\* The first M intervals of t hold what the first N of s hold.
Keeps(t, M, s, N) == \A x : In(x, s, N) => In(x, t, M)

\* They hold the positions of <<b, e>>.
Has(t, M, b, e) == \A x \in b .. e - 1 : In(x, t, M)

\* A block that was not received before keeps the intervals apart, and adds
\* exactly its own positions.
LEMMA NewBlock ==
    ASSUME NEW s, Apart(s), NEW b \in Nat, NEW len \in Nat \ {0},
           (b .. b + len - 1) \cap Cover(s) = {}
    PROVE  Exact(s, InsertSlice(s, b, len), b, b + len)
<1> DEFINE n == StartsBefore(s, b)
           t == InsertSlice(s, b, len)
           end == b + len
<1>1. Ordered(s) /\ s \in Seq(Nat \X Nat)
  BY DEF Apart, Ordered
<1>2. PICK N \in Nat : N = Len(s)
  BY <1>1
<1>3. /\ OrderedTo(s, N) /\ \A x : x \in Cover(s) <=> In(x, s, N)
      /\ ApartTo(s, N)
  BY <1>1, <1>2, OrderedAs, Entries DEF Apart, ApartTo
<1>4. /\ n \in 0 .. N
      /\ \A i \in 1 .. n : s[i][1] < b
      /\ \A i \in n + 1 .. N : s[i][1] >= b
  BY <1>1, <1>2, SplitPoint
<1>5. \A i \in 1 .. N : s[i][1] \in Nat /\ s[i][2] \in Nat /\ s[i][1] < s[i][2]
  BY <1>3 DEF OrderedTo
<1>6. end \in Nat /\ b < end /\ \A x \in b .. end - 1 : ~In(x, s, N)
  BY <1>3
<1>7. \/ n + 1 \in 1 .. N /\ s[n + 1][1] = b
      \/ /\ n \in 1 .. N /\ n + 1 \in 1 .. N
         /\ s[n][2] >= b /\ s[n + 1][1] = end
         /\ Joined(s, n, t)
      \/ /\ n \in 1 .. N /\ s[n][2] >= b
         /\ n + 1 \in 1 .. N => s[n + 1][1] # end
         /\ Replaced(s, n, s[n][1], end, t)
      \/ /\ n + 1 \in 1 .. N /\ s[n + 1][1] = end
         /\ n \in 1 .. N => s[n][2] < b
         /\ Replaced(s, n + 1, b, s[n + 1][2], t)
      \/ /\ n \in 1 .. N => s[n][2] < b
         /\ n + 1 \in 1 .. N => s[n + 1][1] # end
         /\ Inserted(s, n, b, end, t)
  BY <1>1, <1>2, InsertCases, Zenon
<1> SUFFICES Exact(s, t, b, end)
  OBVIOUS
<1> HIDE DEF n, t, end
\* What disjointness says of the neighbours.
<1>8. ASSUME NEW i \in 1 .. N
      PROVE  (i <= n => s[i][2] <= b) /\ (n < i => s[i][1] >= end)
  <2>1. i <= n => s[i][1] < b
    BY <1>4
  <2>2. n < i => s[i][1] >= b
    BY <1>4
  <2>3. b \in b .. end - 1 /\ (s[i][1] >= b /\ s[i][1] < end => s[i][1] \in b .. end - 1)
    BY <1>5, <1>6
  <2>4. (i <= n /\ s[i][2] > b => In(b, s, N)) /\ In(s[i][1], s, N)
    BY <1>5, <2>1 DEF In
  <2>5. QED
    BY <1>5, <1>6, <2>2, <2>3, <2>4
<1>9. ASSUME NEW M \in Nat, t \in Seq(Nat \X Nat), Len(t) = M, OrderedTo(t, M), ApartTo(t, M),
             Within(t, M, s, N, b, end), Keeps(t, M, s, N), Has(t, M, b, end)
      PROVE  Exact(s, t, b, end)
  <2>1. Ordered(t) /\ \A x : x \in Cover(t) <=> In(x, t, M)
    BY <1>9, OrderedAs
  <2>2. Apart(t)
    BY <1>9, <2>1, Entries DEF Apart, ApartTo
  <2>3. \A x : In(x, t, M) <=> In(x, s, N) \/ x \in b .. end - 1
    BY <1>9 DEF Within, Keeps, Has
  <2>4. QED
    BY <1>3, <2>1, <2>2, <2>3 DEF Exact
<1>10. ASSUME NEW k \in 1 .. N, NEW c \in Nat, NEW d \in Nat, Replaced(s, k, c, d, t), c < d,
              FitsAt(s, k, c, N), FreeAt(s, k, c, d, N), Fills(c, d, s, N, b, end),
              c <= s[k][1], s[k][2] <= d, c <= b, end <= d
       PROVE  Exact(s, t, b, end)
  <2>1. t \in Seq(Nat \X Nat) /\ Len(t) = N /\ ReplacedTo(s, k, c, d, t, N)
    BY <1>2, <1>10 DEF Replaced
  <2>2. OrderedTo(t, N) /\ Within(t, N, s, N, c, d)
    BY <1>3, <1>10, <2>1, ReplacedOrdered
  <2>3. ApartTo(t, N)
    BY <1>3, <1>10, <2>1, ReplacedApart
  <2>4. Within(t, N, s, N, b, end)
    BY <1>10, <2>2 DEF Within, Fills
  <2>5. \A x \in c .. d - 1 : In(x, t, N)
    BY <1>3, <1>10, <2>1, ReplacedOrdered
  <2>6. \A x : In(x, s, N) => In(x, t, N) \/ x \in s[k][1] .. s[k][2] - 1
    BY <1>3, <1>10, <2>1, ReplacedOrdered
  <2>7. Keeps(t, N, s, N)
    <3>1. \A x \in s[k][1] .. s[k][2] - 1 : x \in c .. d - 1
      BY <1>5, <1>10
    <3>2. QED
      BY <2>5, <2>6, <3>1 DEF Keeps
  <2>8. Has(t, N, b, end)
    <3>1. \A x \in b .. end - 1 : x \in c .. d - 1
      BY <1>6, <1>10
    <3>2. QED
      BY <2>5, <3>1 DEF Has
  <2>9. QED
    BY <1>9, <2>1, <2>2, <2>3, <2>4, <2>7, <2>8
<1> DEFINE k == n + 1
<1>11. ~(n + 1 \in 1 .. N /\ s[n + 1][1] = b)
  <2>1. n < n + 1
    BY <1>4
  <2>2. QED
    BY <1>6, <1>8, <2>1
<1>12. CASE /\ n \in 1 .. N /\ n + 1 \in 1 .. N
            /\ s[n][2] >= b /\ s[n + 1][1] = end
            /\ Joined(s, n, t)
  <2>1. t \in Seq(Nat \X Nat) /\ Len(t) = N - 1 /\ n \in 1 .. N - 1 /\ N - 1 \in Nat
    BY <1>2, <1>12 DEF Joined
  <2>2. JoinedTo(s, n, t, N)
    BY <1>2, <1>12 DEF Joined
  <2>3. s[n][2] = b /\ s[n][1] < b /\ end < s[n + 1][2]
    <3>1. n <= n /\ s[n][2] \in Nat /\ s[n][1] < s[n][2] /\ s[n + 1][1] < s[n + 1][2]
      BY <1>5, <1>12
    <3>2. s[n][2] <= b
      BY <1>8, <1>12, <3>1
    <3>3. QED
      BY <1>12, <3>1, <3>2
  <2>4. OrderedTo(t, N - 1) /\ Within(t, N - 1, s, N, b, end)
    BY <1>3, <1>12, <2>1, <2>2, <2>3, JoinedOrdered
  <2>5. ApartTo(t, N - 1)
    BY <1>3, <2>1, <2>2, JoinedApart
  <2>6. Keeps(t, N - 1, s, N)
    <3>1. \A x : In(x, s, N) => In(x, t, N - 1) \/ x \in s[n + 1][2] .. s[n][2] - 1
      BY <1>3, <2>1, <2>2, JoinedOrdered
    <3>2. \A x : x \notin s[n + 1][2] .. s[n][2] - 1
      BY <1>5, <1>6, <1>12, <2>3
    <3>3. QED
      BY <3>1, <3>2 DEF Keeps
  <2>7. Has(t, N - 1, b, end)
    <3>1. \A x \in s[n][1] .. s[n + 1][2] - 1 : In(x, t, N - 1)
      BY <1>3, <2>1, <2>2, JoinedOrdered
    <3>2. \A x \in b .. end - 1 : x \in s[n][1] .. s[n + 1][2] - 1
      BY <1>5, <1>6, <1>12, <2>3
    <3>3. QED
      BY <3>1, <3>2 DEF Has
  <2>8. QED
    BY <1>9, <2>1, <2>4, <2>5, <2>6, <2>7
<1>13. CASE /\ n \in 1 .. N /\ s[n][2] >= b
            /\ n + 1 \in 1 .. N => s[n + 1][1] # end
            /\ Replaced(s, n, s[n][1], end, t)
  <2>1. FitsAt(s, n, s[n][1], N)
    BY <1>3, <1>13 DEF OrderedTo, FitsAt
  <2>2. s[n][1] \in Nat /\ s[n][1] < b /\ s[n][1] < end /\ s[n][2] = b
    <3>1. n <= n /\ s[n][2] \in Nat /\ s[n][1] \in Nat
      BY <1>5, <1>13
    <3>2. s[n][2] <= b /\ s[n][1] < b
      BY <1>4, <1>8, <1>13, <3>1
    <3>3. QED
      BY <1>6, <1>13, <3>1, <3>2
  <2>3. FreeAt(s, n, s[n][1], end, N)
    <3>1. ASSUME NEW i \in 1 .. N, n < i
          PROVE  end < s[i][1]
      <4>1. CASE i = n + 1
        BY <1>5, <1>6, <1>8, <1>13, <3>1, <4>1
      <4>2. CASE i > n + 1
        <5>1. n + 1 \in 1 .. N /\ n < n + 1
          BY <1>4, <4>2
        <5>2. s[n + 1][1] < s[i][1] /\ s[n + 1][1] >= end
          BY <1>3, <1>8, <4>2, <5>1 DEF OrderedTo
        <5>3. QED
          BY <1>5, <1>6, <5>1, <5>2
      <4>3. QED
        BY <1>4, <3>1, <4>1, <4>2
    <3>2. QED
      BY <1>3, <1>13, <3>1 DEF ApartTo, FreeAt
  <2>4. Fills(s[n][1], end, s, N, b, end)
    BY <1>5, <1>6, <1>13, <2>2 DEF In, Fills
  <2>5. s[n][1] <= s[n][1] /\ s[n][2] <= end /\ s[n][1] <= b /\ end <= end
    BY <1>6, <2>2
  <2>6. QED
    BY <1>6, <1>10, <1>13, <2>1, <2>2, <2>3, <2>4, <2>5
<1>14. CASE /\ n + 1 \in 1 .. N /\ s[n + 1][1] = end
            /\ n \in 1 .. N => s[n][2] < b
            /\ Replaced(s, n + 1, b, s[n + 1][2], t)
  <2>1. /\ k \in 1 .. N /\ s[k][2] \in Nat /\ end < s[k][2] /\ b < s[k][2] /\ s[k][1] = end
        /\ Replaced(s, k, b, s[k][2], t)
    BY <1>5, <1>6, <1>14
  <2>2. FitsAt(s, k, b, N)
    <3>1. \A i \in 1 .. N : i < k => s[i][1] < b
      BY <1>4
    <3>2. \A i \in 1 .. N : k < i => b < s[i][1]
      BY <1>4, <1>5, <1>6, <1>8
    <3>3. QED
      BY <3>1, <3>2 DEF FitsAt
  <2>3. FreeAt(s, k, b, s[k][2], N)
    <3>1. ASSUME NEW i \in 1 .. N, i < k
          PROVE  s[i][2] < b
      <4>1. CASE i = n
        BY <1>14, <4>1
      <4>2. CASE i < n
        <5>1. n \in 1 .. N
          BY <1>4, <4>2
        <5>2. s[i][2] < s[n][1] /\ s[n][1] < b
          BY <1>3, <1>4, <4>2, <5>1 DEF ApartTo
        <5>3. QED
          BY <1>5, <5>1, <5>2
      <4>3. QED
        BY <1>4, <3>1, <4>1, <4>2
    <3>2. \A i \in 1 .. N : k < i => s[k][2] < s[i][1]
      BY <1>3, <2>1 DEF ApartTo
    <3>3. QED
      BY <3>1, <3>2 DEF FreeAt
  <2>4. b <= s[k][1] /\ s[k][2] <= s[k][2] /\ b <= b /\ end <= s[k][2]
    BY <1>6, <2>1
  <2> HIDE DEF k
  <2>5. Fills(b, s[k][2], s, N, b, end)
    BY <1>5, <1>6, <2>1 DEF In, Fills
  <2>6. QED
    BY <1>10, <2>1, <2>2, <2>3, <2>4, <2>5
<1>15. CASE /\ n \in 1 .. N => s[n][2] < b
            /\ n + 1 \in 1 .. N => s[n + 1][1] # end
            /\ Inserted(s, n, b, end, t)
  <2>1. t \in Seq(Nat \X Nat) /\ Len(t) = N + 1 /\ N + 1 \in Nat
    BY <1>2, <1>15 DEF Inserted
  <2>2. InsertedTo(s, n, b, end, t, N)
    BY <1>2, <1>15 DEF Inserted
  <2>3. ASSUME NEW i \in 1 .. N, i <= n
        PROVE  s[i][2] < b
    <3>1. CASE i = n
      BY <1>15, <3>1
    <3>2. CASE i < n
      <4>1. n \in 1 .. N
        BY <1>4, <3>2
      <4>2. s[i][2] < s[n][1] /\ s[n][1] < b
        BY <1>3, <1>4, <3>2, <4>1 DEF ApartTo
      <4>3. QED
        BY <1>5, <4>1, <4>2
    <3>3. QED
      BY <1>4, <2>3, <3>1, <3>2
  <2>4. ASSUME NEW i \in 1 .. N, n < i
        PROVE  end < s[i][1]
    <3>1. CASE i = n + 1
      BY <1>5, <1>6, <1>8, <1>15, <2>4, <3>1
    <3>2. CASE i > n + 1
      <4>1. n + 1 \in 1 .. N /\ n < n + 1
        BY <1>4, <3>2
      <4>2. s[n + 1][1] < s[i][1] /\ s[n + 1][1] >= end
        BY <1>3, <1>8, <3>2, <4>1 DEF OrderedTo
      <4>3. QED
        BY <1>5, <1>6, <4>1, <4>2
    <3>3. QED
      BY <1>4, <2>4, <3>1, <3>2
  <2>5. FreeBehind(s, n, b, end, N)
    BY <2>3, <2>4 DEF FreeBehind
  <2>6. FitsBehind(s, n, b, N)
    BY <1>5, <1>6, <2>3, <2>4 DEF FitsBehind
  <2>7. OrderedTo(t, N + 1) /\ Within(t, N + 1, s, N, b, end)
    BY <1>3, <1>4, <1>6, <2>2, <2>6, InsertedOrdered
  <2>8. ApartTo(t, N + 1)
    BY <1>3, <1>4, <1>6, <2>2, <2>5, InsertedApart
  <2>9. Keeps(t, N + 1, s, N) /\ Has(t, N + 1, b, end)
    <3>1. \A x : In(x, s, N) \/ x \in b .. end - 1 => In(x, t, N + 1)
      BY <1>3, <1>4, <1>6, <2>2, <2>6, InsertedOrdered
    <3>2. QED
      BY <3>1 DEF Keeps, Has
  <2>10. QED
    BY <1>9, <2>1, <2>7, <2>8, <2>9
<1>16. QED
  BY <1>7, <1>11, <1>12, <1>13, <1>14, <1>15

-----------------------------------------------------------------------------
\* A list is_complete accepts covers the piece.
LEMMA CompleteCovers ==
    ASSUME NEW s, Ordered(s), NEW E \in Nat \ {0}, IsComplete(s, E)
    PROVE  Cover(s) = 0 .. E - 1
<1>1. s \in Seq(Nat \X Nat)
  BY DEF Ordered
<1>2. Len(s) = 1 /\ s[1] = <<0, E>>
  BY DEF IsComplete
<1>3. s[1][1] = 0 /\ s[1][2] = E
  BY <1>2
<1>4. ASSUME NEW x
      PROVE  In(x, s, Len(s)) <=> x \in 0 .. E - 1
  BY <1>2, <1>3 DEF In
<1>5. QED
  BY <1>1, <1>4, OrderedAs

\* Intervals that do not touch hold a whole piece if and only if the list is the
\* one interval is_complete compares it with.
LEMMA WholePiece ==
    ASSUME NEW s, Apart(s), NEW E \in Nat \ {0}
    PROVE  IsComplete(s, E) <=> Cover(s) = 0 .. E - 1
<1>1. Ordered(s) /\ s \in Seq(Nat \X Nat)
  BY DEF Apart, Ordered
<1>2. PICK N \in Nat : N = Len(s)
  BY <1>1
<1>3. /\ OrderedTo(s, N) /\ \A x : x \in Cover(s) <=> In(x, s, N)
      /\ ApartTo(s, N)
  BY <1>1, <1>2, OrderedAs, Entries DEF Apart, ApartTo
<1>4. \A i \in 1 .. N : s[i][1] \in Nat /\ s[i][2] \in Nat /\ s[i][1] < s[i][2]
  BY <1>3 DEF OrderedTo
<1>5. ASSUME IsComplete(s, E)
      PROVE  Cover(s) = 0 .. E - 1
  BY <1>1, <1>5, CompleteCovers
<1>6. ASSUME Cover(s) = 0 .. E - 1
      PROVE  IsComplete(s, E)
  <2>1. \A x : In(x, s, N) <=> x \in 0 .. E - 1
    BY <1>3, <1>6
  <2>2. PICK i \in 1 .. N : s[i][1] <= 0 /\ 0 < s[i][2]
    BY <2>1 DEF In
  <2>3. ASSUME NEW j \in 1 .. N
        PROVE  s[j][2] <= E
    <3>1. s[j][2] - 1 \in Nat /\ s[j][1] <= s[j][2] - 1 /\ s[j][2] - 1 < s[j][2]
      BY <1>4
    <3>2. In(s[j][2] - 1, s, N)
      BY <3>1 DEF In
    <3>3. s[j][2] - 1 \in 0 .. E - 1
      BY <2>1, <3>2
    <3>4. QED
      BY <1>4, <3>3
  <2>4. ASSUME NEW j \in 1 .. N, NEW m \in 1 .. N, j < m
        PROVE  FALSE
    <3>1. s[j][2] < s[m][1]
      BY <1>3, <2>4 DEF ApartTo
    <3>2. s[j][2] \in 0 .. E - 1
      BY <1>4, <2>3, <3>1
    <3>3. PICK l \in 1 .. N : s[l][1] <= s[j][2] /\ s[j][2] < s[l][2]
      BY <2>1, <3>2 DEF In
    <3>4. l < j => s[l][2] < s[j][1]
      BY <1>3 DEF ApartTo
    <3>5. j < l => s[j][2] < s[l][1]
      BY <1>3 DEF ApartTo
    <3>6. l = j \/ l < j \/ j < l
      OBVIOUS
    <3>7. QED
      BY <1>4, <3>3, <3>4, <3>5, <3>6
  <2>5. N = 1 /\ i = 1
    <3>1. ~(1 < N)
      BY <2>4
    <3>2. QED
      BY <2>2, <3>1
  <2>6. s[1][1] = 0
    BY <1>4, <2>2, <2>5
  <2>7. s[1][2] = E
    <3>1. E - 1 \in 0 .. E - 1
      OBVIOUS
    <3>2. PICK j \in 1 .. N : E - 1 < s[j][2]
      BY <2>1, <3>1 DEF In
    <3>3. j = 1 /\ s[1][2] \in Nat /\ s[1][2] <= E
      BY <1>4, <2>3, <2>5, <3>2
    <3>4. QED
      BY <3>2, <3>3
  <2>8. s[1] = <<0, E>>
    <3>1. s[1] \in Nat \X Nat
      BY <1>1, <1>2, <2>5, Entries
    <3>2. QED
      BY <2>6, <2>7, <3>1
  <2>9. s = << <<0, E>> >>
    <3> DEFINE e == <<0, E>>
               P == Nat \X Nat
    <3>1. e \in P /\ s[1] = e /\ s \in Seq(P) /\ Len(s) = 1
      BY <1>1, <1>2, <2>5, <2>8
    <3> HIDE DEF e, P
    <3>2. <<e>> \in Seq(P) /\ Len(<<e>>) = 1 /\ <<e>>[1] = e
      BY <3>1
    <3>3. s = <<e>>
      BY <3>1, <3>2, SeqEqual
    <3>4. QED
      BY <3>3 DEF e
  <2>10. QED
    BY <2>9 DEF IsComplete
<1>7. QED
  BY <1>5, <1>6
=============================================================================

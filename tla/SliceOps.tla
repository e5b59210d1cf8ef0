------------------------------ MODULE SliceOps ------------------------------
(***************************************************************************)
(* The interval list of peer/io/mod.rs: struct Slices, a vector of         *)
(* half-open intervals (start, end) ordered by start.                      *)
(***************************************************************************)
EXTENDS Integers, Sequences, FiniteSets, SequencesExt

\* binary_search_by_key on the starts: how many intervals start before b.
StartsBefore(s, b) == Cardinality({i \in DOMAIN s : s[i][1] < b})

\* Faulty: an interval that fills a gap leaves its right neighbour in place.
InsertSliceNoRemove(s, begin, len) ==
    LET end == begin + len
        n == StartsBefore(s, begin)
        right == n < Len(s) /\ s[n + 1][1] = end
        left == n > 0 /\ s[n][2] >= begin
    IN  CASE \E i \in DOMAIN s : s[i][1] = begin ->
               [s EXCEPT ![n + 1][2] = IF @ < end THEN end ELSE @]
          [] OTHER ->
               CASE left  -> [s EXCEPT ![n][2] = IF right THEN s[n + 1][2] ELSE end]
                 [] right -> [s EXCEPT ![n + 1][1] = begin]
                 [] OTHER -> InsertAt(s, n + 1, <<begin, end>>)

\* Faulty: neighbours are joined only when they overlap, not when they touch.
InsertSliceGap(s, begin, len) ==
    LET end == begin + len
        n == StartsBefore(s, begin)
    IN  IF \E i \in DOMAIN s : s[i][1] = begin
        THEN [s EXCEPT ![n + 1][2] = IF @ < end THEN end ELSE @]
        ELSE InsertAt(s, n + 1, <<begin, end>>)

\* Faulty: a left neighbour is grown to the end of the new interval although
\* the interval was joined to the right neighbour, which is then removed.
InsertSliceShort(s, begin, len) ==
    LET end == begin + len
        n == StartsBefore(s, begin)
        right == n < Len(s) /\ s[n + 1][1] = end
        left == n > 0 /\ s[n][2] >= begin
    IN  CASE \E i \in DOMAIN s : s[i][1] = begin ->
               [s EXCEPT ![n + 1][2] = IF @ < end THEN end ELSE @]
          [] OTHER ->
               CASE left /\ right -> RemoveAt([s EXCEPT ![n][2] = end], n + 1)
                 [] left /\ ~right -> [s EXCEPT ![n][2] = end]
                 [] ~left /\ right -> [s EXCEPT ![n + 1][1] = begin]
                 [] OTHER -> InsertAt(s, n + 1, <<begin, end>>)

\* Slices::insert.  An interval with a known start is grown.  Otherwise the new
\* one is joined to the right neighbour it ends at and to the left neighbour
\* it starts within or right behind, whose end is overwritten; it is inserted
\* when it joins none, and the right neighbour goes when it joins both.
InsertSlice(s, begin, len) ==
    LET end == begin + len
        n == StartsBefore(s, begin)
        known == \E i \in DOMAIN s : s[i][1] = begin
        right == n < Len(s) /\ s[n + 1][1] = end
        left == n > 0 /\ s[n][2] >= begin
    IN  IF known THEN [s EXCEPT ![n + 1] = <<begin, IF @[2] < end THEN end ELSE @[2]>>]
        ELSE IF left /\ right THEN RemoveAt([s EXCEPT ![n] = <<@[1], s[n + 1][2]>>], n + 1)
        ELSE IF left THEN [s EXCEPT ![n] = <<@[1], end>>]
        ELSE IF right THEN [s EXCEPT ![n + 1] = <<begin, @[2]>>]
        ELSE InsertAt(s, n + 1, <<begin, end>>)

\* Slices::is_complete
IsComplete(s, expected_size) == s = << <<0, expected_size>> >>

\* The positions a list of intervals stands for.
Cover(s) == UNION {s[i][1] .. s[i][2] - 1 : i \in DOMAIN s}
=============================================================================

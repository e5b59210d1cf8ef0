------------------------------ MODULE Bencode ------------------------------
(***************************************************************************)
(* The printer and the parser of file/bencode.rs.  A byte is its code.  A  *)
(* value is a pair of its kind and its content: <<"int", i>>, <<"bs", s>>, *)
(* <<"list", s>>, or <<"dict", f>> with f a function from byte strings to  *)
(* values.  A parser yields <<leftover, value>>, or Failed.                *)
(***************************************************************************)
EXTENDS Integers, Sequences, FiniteSets, SequencesExt

Digits == 48 .. 57
Plus == 43
Minus == 45
Colon == 58
DictTag == 100
EndTag == 101
IntTag == 105
ListTag == 108

\* The decimal form of a natural number.
Decimal[n \in Nat] ==
    IF n < 10 THEN <<48 + n>> ELSE Append(Decimal[n \div 10], 48 + (n % 10))

\* The order of a BTreeMap's keys.
KeyBefore(k, l) ==
    \/ IsStrictPrefix(k, l)
    \/ \E i \in 1 .. Len(k) :
        /\ i <= Len(l)
        /\ k[i] < l[i]
        /\ \A j \in 1 .. i - 1 : k[j] = l[j]

-----------------------------------------------------------------------------
encode_int(i) ==
    <<IntTag>> \o (IF i < 0 THEN <<Minus>> \o Decimal[-i] ELSE Decimal[i]) \o <<EndTag>>

encode_bs(bs) == Decimal[Len(bs)] \o <<Colon>> \o bs

RECURSIVE encode(_)

encode_list(l) == <<ListTag>> \o FlattenSeq([i \in DOMAIN l |-> encode(l[i])]) \o <<EndTag>>

\* Faulty: not in the order of the keys.
EncodeDictionaryAnyOrder(d) ==
    LET keys == Reverse(SetToSortSeq(DOMAIN d, KeyBefore))
    IN  <<DictTag>> \o FlattenSeq([i \in DOMAIN keys |-> encode_bs(keys[i]) \o encode(d[keys[i]])])
        \o <<EndTag>>

encode_dictionary(d) ==
    LET keys == SetToSortSeq(DOMAIN d, KeyBefore)
    IN  <<DictTag>> \o FlattenSeq([i \in DOMAIN keys |-> encode_bs(keys[i]) \o encode(d[keys[i]])])
        \o <<EndTag>>

encode(bc) ==
    CASE bc[1] = "int" -> encode_int(bc[2])
      [] bc[1] = "bs" -> encode_bs(bc[2])
      [] bc[1] = "list" -> encode_list(bc[2])
      [] bc[1] = "dict" -> encode_dictionary(bc[2])

-----------------------------------------------------------------------------
Failed == <<>>

Drop(i, n) == SubSeq(i, n + 1, Len(i))

StartsWith(i, bytes) == i # <<>> /\ i[1] \in bytes

\* How many digits i starts with, and the number they stand for.
DigitsAhead(i) ==
    CHOOSE n \in 0 .. Len(i) :
        /\ \A k \in 1 .. n : i[k] \in Digits
        /\ n < Len(i) => i[n + 1] \notin Digits

Number(s) == FoldLeft(LAMBDA acc, c : 10 * acc + c - 48, 0, s)

\* delimited(tag("i"), i64, tag("e")): a sign may come first, plus included.
parse_int(i) ==
    LET signed == StartsWith(Drop(i, 1), {Plus, Minus})
        from == IF signed THEN 2 ELSE 1
        n == DigitsAhead(Drop(i, from))
        number == Number(SubSeq(i, from + 1, from + n))
    IN  IF StartsWith(i, {IntTag}) /\ n > 0 /\ StartsWith(Drop(i, from + n), {EndTag})
        THEN <<Drop(i, from + n + 1),
               <<"int", IF signed /\ i[2] = Minus THEN -number ELSE number>>>>
        ELSE Failed

inner_parse_bytestring(i) ==
    LET n == DigitsAhead(i)
        len == Number(SubSeq(i, 1, n))
    IN  IF n > 0 /\ StartsWith(Drop(i, n), {Colon}) /\ Len(i) >= n + 1 + len
        THEN <<Drop(i, n + 1 + len), SubSeq(i, n + 2, n + 1 + len)>>
        ELSE Failed

parse_bytestring(i) ==
    LET r == inner_parse_bytestring(i)
    IN  IF r = Failed THEN Failed ELSE <<r[1], <<"bs", r[2]>>>>

RECURSIVE parse_type(_), many_till_end(_, _, _)

parse_pair(i) ==
    LET k == inner_parse_bytestring(i)
        v == parse_type(k[1])
    IN  IF k = Failed THEN Failed
        ELSE IF v = Failed THEN Failed
        ELSE <<v[1], <<k[2], v[2]>>>>

\* many_till(parse_type or parse_pair, tag("e")), after the elements seen so far.
many_till_end(i, pairs, eles) ==
    LET r == IF pairs THEN parse_pair(i) ELSE parse_type(i)
    IN  IF StartsWith(i, {EndTag}) THEN <<Drop(i, 1), eles>>
        ELSE IF r = Failed THEN Failed
        ELSE many_till_end(r[1], pairs, Append(eles, r[2]))

parse_list(i) ==
    LET r == many_till_end(Drop(i, 1), FALSE, <<>>)
    IN  IF ~StartsWith(i, {ListTag}) THEN Failed
        ELSE IF r = Failed THEN Failed ELSE <<r[1], <<"list", r[2]>>>>

\* collect: of two pairs with one key the later stays.
CollectPairs(eles) ==
    [k \in {eles[i][1] : i \in DOMAIN eles} |->
        eles[CHOOSE i \in DOMAIN eles :
                eles[i][1] = k /\ \A j \in DOMAIN eles : eles[j][1] = k => j <= i][2]]

parse_dictionary(i) ==
    LET r == many_till_end(Drop(i, 1), TRUE, <<>>)
    IN  IF ~StartsWith(i, {DictTag}) THEN Failed
        ELSE IF r = Failed THEN Failed ELSE <<r[1], <<"dict", CollectPairs(r[2])>>>>

\* alt: the first of the four that succeeds.  Each starts with a byte of its own.
parse_type(i) ==
    CASE StartsWith(i, {IntTag}) -> parse_int(i)
      [] StartsWith(i, {ListTag}) -> parse_list(i)
      [] StartsWith(i, {DictTag}) -> parse_dictionary(i)
      [] OTHER -> parse_bytestring(i)

\* What is left over after the value is ignored.  A set of at most one value.
parse_bencode(i) == {r[2] : r \in {parse_type(i)} \ {Failed}}
=============================================================================

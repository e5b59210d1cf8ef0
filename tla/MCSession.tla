----------------------------- MODULE MCSession -----------------------------
(* Session with small files, answers and messages, spelt out by hand. *)
EXTENDS Session

\* "3:abc" for up to nine bytes, "l...e", "d...e", and numbers in several spellings.
Text(s) == <<48 + Len(s), 58>> \o s
Number1(n) == <<105, 48 + n, 101>>
Padded(n) == <<105, 48, 48 + n, 101>>
Signed(n) == <<105, 43, 48 + n, 101>>
Below(n) == <<105, 45, 49, 48 + n, 101>>
Entry(key, v) == Text(key) \o v
InDict(s) == <<100>> \o s \o <<101>>
InList(s) == <<108>> \o s \o <<101>>

\* The info part: length 5, piece length 3, pieces, name, and keys not looked at.
Len5 == Entry(<<108>>, Number1(5))
Name == Entry(<<110>>, Text(<<97, 98>>))
Pieces(n) == Entry(<<112>>, Text([i \in 1 .. n |-> i]))
PieceLen3 == Entry(<<112, 108>>, Number1(3))
Extra == Entry(<<120>>, InList(Below(2) \o InDict(Entry(<<>>, Text(<<101, 58>>))) \o InList(<<>>)))

AnyName(s) == InDict(Len5 \o Entry(<<110>>, Text(s)) \o Pieces(4) \o PieceLen3)
Plain(n) == InDict(Len5 \o Name \o Pieces(n) \o PieceLen3)
Full(n) == InDict(Len5 \o Name \o Pieces(n) \o PieceLen3 \o Extra)
Unsorted == InDict(PieceLen3 \o Pieces(4) \o Name \o Len5)
Odd == InDict(Entry(<<108>>, Padded(5)) \o Name \o Pieces(4) \o Entry(<<112, 108>>, Signed(3)))
Twice == InDict(Entry(<<108>>, Number1(7)) \o Len5 \o Name \o Pieces(4) \o PieceLen3)

\* Two announces that are URLs, and one that is none.
Url == <<104>>
OddUrl == <<104, 239, 191, 189>>
NoUrl == <<120>>
MCUrls == {Url, OddUrl}
AnnouncedAs(s) == Entry(<<97>>, Text(s))
Announced == AnnouncedAs(Url)

Meant(raw, n) ==
    [info |-> [length |-> 5, piece_length |-> 3, name |-> <<97, 98>>, info_hash |-> raw,
               pieces |-> [i \in 1 .. n |-> <<2 * i - 1, 2 * i>>]],
     announce |-> Url]

Spelt(before, raw, after, n, canonical) ==
    [bytes |-> <<100>> \o before \o Entry(<<105>>, raw) \o after,
     torrent |-> Meant(raw, n), canonical |-> canonical]

\* A name, or an announce, that is read as another.
Named(s, read) ==
    [Spelt(Announced, AnyName(s), <<101>>, 2, TRUE) EXCEPT !.torrent.info.name = read]

AnnouncedRead(s, read) ==
    [Spelt(AnnouncedAs(s), Plain(4), <<101>>, 2, TRUE) EXCEPT !.torrent.announce = read]

Unusable(bytes) == [bytes |-> bytes, torrent |-> NoTorrent, canonical |-> TRUE]

MCFiles ==
    {Spelt(Announced, raw, <<101>>, 2, TRUE) : raw \in {Plain(4), Full(4)}}
    \cup {Spelt(<<>>, Full(4), Announced \o <<101, 10>>, 2, TRUE)}
    \cup {Spelt(Announced, raw, <<101>>, 2, FALSE) : raw \in {Unsorted, Odd, Twice}}
    \cup {Spelt(Announced, Plain(0), <<101>>, 0, TRUE), Spelt(Announced, Plain(6), <<101>>, 3, TRUE)}
    \cup { Named(<<195, 169, 226, 130, 97>>, <<195, 169, 239, 191, 189, 97>>),
           Named(<<237, 160, 240, 159, 152, 128, 255>>,
                 <<239, 191, 189, 239, 191, 189, 240, 159, 152, 128, 239, 191, 189>>),
           AnnouncedRead(<<104, 255>>, OddUrl), AnnouncedRead(NoUrl, NoUrl) }
    \cup {Unusable(b) : b \in
            { <<>>, Url, InDict(Announced), InDict(Entry(<<105>>, Plain(4))),
              InDict(Announced \o Entry(<<105>>, Number1(1))),
              InDict(Announced \o Entry(<<105>>, Plain(3))),
              InDict(Announced \o Entry(<<105>>, InDict(Len5 \o Name \o Pieces(4)))),
              <<100>> \o Announced \o Entry(<<105>>, Plain(4)) } }

\* A tracker's answer: interval and a list of peers.
Ip(s) == Entry(<<105>>, Text(s))
Port(n) == Entry(<<112>>, Number1(n))
WidePort == Entry(<<112>>, <<105>> \o Decimal[65536 + 7] \o <<101>>)
Good(n) == InDict(Ip(<<49>>) \o Port(n))
Interval == Entry(<<105>>, Number1(9))
Listed(s) == InDict(Interval \o Entry(<<112>>, InList(s)))
At(n) == [address |-> <<49>>, port |-> n]

MCAnswers ==
    { [bytes |-> Listed(Good(6)), peers |-> <<At(6)>>],
      [bytes |-> Listed(<<>>), peers |-> <<>>],
      [bytes |-> Listed(InDict(Ip(<<>>) \o Port(1)) \o Good(2) \o InDict(Port(3)) \o Number1(4) \o Good(5)),
       peers |-> <<At(2), At(5)>>],
      [bytes |-> Listed(InDict(Ip(<<49>>) \o WidePort)), peers |-> <<At(7)>>],
      [bytes |-> InDict(Interval \o Entry(<<112>>, Text(<<1, 2, 3, 4, 5, 6>>))), peers |-> NoPeers],
      [bytes |-> InDict(Entry(<<112>>, InList(Good(6)))), peers |-> NoPeers],
      [bytes |-> Url, peers |-> NoPeers] }

MCHello == <<"Handshake", <<11, 12>>, <<21, 22>>>>

MCAlphabet ==
    { <<"KeepAlive">>, <<"Flag", "Unchoke">>, <<"Have", 258>>,
      <<"BitField", {0, 7, 9}>>, <<"Request", 1, 256, 3>>,
      <<"Piece", 1, 2, <<0, 9>>>>, <<"Cancel", 1, 256, 3>>,
      <<"Other", 20, <<0, 1>>>>, <<"Malformed", 4, <<>>>>,
      <<"Malformed", 4, <<0, 0, 0, 0, 0>>>>, <<"Malformed", 7, <<0, 0>>>> }
=============================================================================

------------------------------ MODULE Startup ------------------------------
(***************************************************************************)
(* From the torrent file to the list of peers: main, V1Torrent and         *)
(* V1TorrentInfo::try_from (model/torrent.rs), TorrentAllocation           *)
(* (peer/mod.rs), get_announce (peer/tracker.rs), TrackerResponse and      *)
(* TrackerPeer::try_from (model/tracker.rs).                               *)
(*                                                                         *)
(* Keys are shortened to their initials.  SHA-1 is taken to be injective:  *)
(* a hash is what was hashed.  A conversion yields the set of its result,  *)
(* which is empty for Err.                                                 *)
(***************************************************************************)
EXTENDS Bencode

CONSTANTS
    HashLen,    \* the 20 of a SHA-1 hash
    Files,      \* torrent files: the bytes, the torrent its author meant, whose
                \* info_hash is the info part as it stands in the file, or
                \* NoTorrent, and whether that part is spelt the canonical way
    Answers,    \* the tracker's: the bytes, and the peers meant, or NoPeers
    Urls,       \* the texts that Url::parse accepts
    NoTorrent, NoPeers

VARIABLES
    stage,      \* how far start-up is
    source,     \* the file
    torrent,    \* the V1Torrent made of it
    reply,      \* the tracker's answer
    peers       \* TrackerResponse.peers

startupVars == <<stage, source, torrent, reply, peers>>

info == <<105>>
announce == <<97>>
length == <<108>>
piece_length == <<112, 108>>
pieces == <<112>>
name == <<110>>
interval == <<105>>
ip == <<105>>
port == <<112>>
peers_key == <<112>>

\* if let Some(Bencode::Kind(v)) = conv.get(key)
Field(bc, key, kind) ==
    IF bc[1] = "dict"
    THEN IF key \in DOMAIN bc[2]
         THEN IF bc[2][key][1] = kind THEN {bc[2][key][2]} ELSE {}
         ELSE {}
    ELSE {}

\* How many bytes a character has that begins with b, none if none does, and what
\* its second may be.
Width(b) ==
    CASE b < 128 -> 1 [] b \in 194 .. 223 -> 2 [] b \in 224 .. 239 -> 3
      [] b \in 240 .. 244 -> 4 [] OTHER -> 0

Second(b) ==
    CASE b = 224 -> 160 .. 191 [] b = 237 -> 128 .. 159 [] b = 240 -> 144 .. 191
      [] b = 244 -> 128 .. 143 [] OTHER -> 128 .. 191

\* How many bytes at the front of s belong together: a character or its beginning.
Together(s) ==
    Max({n \in 1 .. Len(s) : n > 1 =>
            n <= Width(s[1]) /\ s[2] \in Second(s[1]) /\ \A k \in 3 .. n : s[k] \in 128 .. 191})

\* String::from_utf8_lossy: what is no whole character becomes U+FFFD.
RECURSIVE from_utf8_lossy(_)
from_utf8_lossy(s) ==
    IF s = <<>> THEN <<>>
    ELSE LET n == Together(s)
         IN  (IF n = Width(s[1]) THEN SubSeq(s, 1, n) ELSE <<239, 191, 189>>)
             \o from_utf8_lossy(Drop(s, n))

\* as_chunks::<20>
Chunks(s) == [i \in 1 .. Len(s) \div HashLen |-> SubSeq(s, (i - 1) * HashLen + 1, i * HashLen)]

\* Faulty: a rest shorter than a hash is let through.
InfoWithRest(bc) ==
    { [length |-> l, piece_length |-> pl, pieces |-> Chunks(ps),
       name |-> from_utf8_lossy(n), info_hash |-> encode(bc)] :
        l \in Field(bc, length, "int"), pl \in Field(bc, piece_length, "int"),
        ps \in Field(bc, pieces, "bs"), n \in Field(bc, name, "bs") }

\* V1TorrentInfo::try_from.  The hash is that of the dictionary printed again.
V1TorrentInfo(bc) ==
    { [length |-> l, piece_length |-> pl, pieces |-> Chunks(ps),
       name |-> from_utf8_lossy(n), info_hash |-> encode(bc)] :
        l \in Field(bc, length, "int"), pl \in Field(bc, piece_length, "int"),
        ps \in {s \in Field(bc, pieces, "bs") : Len(s) % HashLen = 0}, n \in Field(bc, name, "bs") }

\* V1Torrent::try_from
V1Torrent(bc) ==
    { [info |-> i, announce |-> from_utf8_lossy(a)] :
        i \in UNION {V1TorrentInfo(<<"dict", d>>) : d \in Field(bc, info, "dict")},
        a \in Field(bc, announce, "bs") }

\* The unsigned subtractions of allocate_torrent stay above zero.
Allocatable(t) ==
    /\ Len(t.info.pieces) > 0
    /\ t.info.length >= (Len(t.info.pieces) - 1) * t.info.piece_length

\* TrackerPeer::try_from; an address is one that IpAddr::from_str takes.  `port as _`
\* keeps 16 bits.
TrackerPeer(bc) ==
    { [address |-> a, port |-> p % 65536] :
        a \in {s \in Field(bc, ip, "bs") : s # <<>>}, p \in Field(bc, port, "int") }

\* Faulty: one peer that does not convert fails them all.
AllOrNothing(bc) ==
    { FlattenSeq([i \in DOMAIN ps |-> SetToSeq(TrackerPeer(ps[i]))]) :
        n \in Field(bc, interval, "int"),
        ps \in {s \in Field(bc, peers_key, "list") : \A i \in DOMAIN s : TrackerPeer(s[i]) # {}} }

\* TrackerResponse::try_from: peers that do not convert are left out.
TrackerResponse(bc) ==
    { FlattenSeq([i \in DOMAIN ps |-> SetToSeq(TrackerPeer(ps[i]))]) :
        n \in Field(bc, interval, "int"), ps \in Field(bc, peers_key, "list") }

-----------------------------------------------------------------------------
StartupInit ==
    /\ stage = "reading"
    /\ source \in Files
    /\ torrent = NoTorrent
    /\ reply = NoPeers
    /\ peers = <<>>

\* main and start_processing: a file that does not parse is reported, a
\* dictionary that is no torrent ends in unwrap.  A layout that does not fit
\* panics, or wraps around in a build without overflow checks.
ReadTorrent ==
    /\ stage = "reading"
    /\ \E parsed \in {parse_bencode(source.bytes)} :
        \/ /\ parsed = {}
           /\ stage' = "rejected"
           /\ UNCHANGED torrent
        \/ \E bc \in parsed : \E found \in {V1Torrent(bc)} :
            \/ /\ found = {}
               /\ stage' = "panicked"
               /\ UNCHANGED torrent
            \/ \E t \in found :
                /\ torrent' = t
                /\ stage' \in IF Allocatable(t) THEN {"announcing"} ELSE {"panicked", "announcing"}
    /\ UNCHANGED <<source, reply, peers>>

\* get_announce: tracker_url panics on an announce that is no URL; else the request
\* fails, the answer does not convert, or it names peers.
Announce ==
    /\ stage = "announcing"
    /\ \/ /\ torrent.announce \notin Urls
          /\ stage' = "panicked"
          /\ UNCHANGED <<reply, peers>>
       \/ /\ torrent.announce \in Urls
          /\ stage' = "failed"
          /\ UNCHANGED <<reply, peers>>
       \/ \E r \in Answers :
            /\ torrent.announce \in Urls
            /\ reply' = r
            /\ \E found \in {UNION {TrackerResponse(bc) : bc \in parse_bencode(r.bytes)}} :
                \/ found = {} /\ stage' = "failed" /\ UNCHANGED peers
                \/ stage' = "connecting" /\ peers' \in found
    /\ UNCHANGED <<source, torrent>>

StartupNext == ReadTorrent \/ Announce

-----------------------------------------------------------------------------
\* A file that says all that V1Torrent::try_from needs is understood as it was
\* meant, whatever the order of its keys, the spelling of its numbers, the keys
\* it has besides, the bytes that follow, and the bytes of its name and announce
\* that are no UTF-8, for which U+FFFD is meant.  Only a file that does not, whose
\* layout does not fit, or whose announce is no URL stops the client before it has
\* asked the tracker.
TorrentAsMeant ==
    /\ stage \in {"announcing", "connecting"} =>
        /\ source.torrent # NoTorrent
        /\ torrent = [source.torrent EXCEPT !.info.info_hash = torrent.info.info_hash]
    /\ stage \in {"rejected", "panicked"} =>
        IF source.torrent = NoTorrent THEN TRUE
        ELSE ~Allocatable(source.torrent) \/ source.torrent.announce \notin Urls

\* The info hash, by which tracker and peers know the torrent, is that of the bytes
\* in the file although V1TorrentInfo::info_hash prints the dictionary again,
\* provided the file spells that part the canonical way.
HashOfTheFile ==
    stage = "announcing" /\ source.canonical =>
        torrent.info.info_hash = source.torrent.info.info_hash

\* The peers to dial are the usable ones of the tracker's answer, in its order: an
\* entry without address or port costs only itself.  (A port beyond 16 bits is
\* usable: the one meant by it is its last 16 bits, as `port as _` has it.)
PeersAsListed ==
    /\ stage = "connecting" => peers = reply.peers
    /\ stage = "failed" => reply = NoPeers \/ reply.peers = NoPeers
=============================================================================

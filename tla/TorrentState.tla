---------------------------- MODULE TorrentState ----------------------------
(***************************************************************************)
(* What the client knows of its peers: struct TorrentState and             *)
(* PeerPieceMap of peer/state/mod.rs, without the piece tracker and the    *)
(* queue of peer requests.  The map `peers` is its key set plus the keys   *)
(* with each of the two flags of InternalPeerState; an absent entry of an  *)
(* index is the empty set.  Each operation runs under the torrent lock.    *)
(***************************************************************************)
EXTENDS Naturals, FiniteSets

CONSTANTS Peers, PieceIds

VARIABLES
    peers,              \* keys of `peers`
    choked,             \* ... with choked: "we are choking"
    interested,         \* ... with interested: "we are interested"
    peers_interested,   \* they are interested in us
    peers_not_choking,  \* they do not choke us
    peers_to_pieces, pieces_to_peers    \* PeerPieceMap

peerVars == <<peers, choked, interested, peers_interested, peers_not_choking,
              peers_to_pieces, pieces_to_peers>>

PeersInit ==
    /\ peers = {}
    /\ choked = {}
    /\ interested = {}
    /\ peers_interested = {}
    /\ peers_not_choking = {}
    /\ peers_to_pieces = [p \in Peers |-> {}]
    /\ pieces_to_peers = [i \in PieceIds |-> {}]

-----------------------------------------------------------------------------
set_peer_choked_us(p, choke) ==
    /\ peers' = peers \cup {p}
    /\ peers_not_choking' =
         IF choke THEN peers_not_choking \ {p} ELSE peers_not_choking \cup {p}
    /\ UNCHANGED <<choked, interested, peers_interested, peers_to_pieces, pieces_to_peers>>

set_peers_interested_in_us(p, interest) ==
    /\ peers' = peers \cup {p}
    /\ peers_interested' =
         IF interest THEN peers_interested \cup {p} ELSE peers_interested \ {p}
    /\ UNCHANGED <<choked, interested, peers_not_choking, peers_to_pieces, pieces_to_peers>>

peer_interest(p, pieces) == pieces \cap peers_to_pieces[p]

\* add_pieces_for_peer returns Some: the peer's pieces now touch `wanted`, the
\* pieces not started, and did not before.  (Pieces are only ever added, so the
\* new interest is never false.)
InterestChanges(p, pieces, wanted) ==
    peer_interest(p, wanted) = {} /\ wanted \cap (peers_to_pieces[p] \cup pieces) # {}

\* The pieces are added to both indexes; `interested` follows a change.
add_pieces_for_peer(p, pieces, wanted) ==
    /\ peers' = peers \cup {p}
    /\ interested' = IF InterestChanges(p, pieces, wanted) THEN interested \cup {p}
                     ELSE interested
    /\ peers_to_pieces' = [peers_to_pieces EXCEPT ![p] = @ \cup pieces]
    /\ pieces_to_peers' =
         [i \in PieceIds |-> IF i \in pieces THEN pieces_to_peers[i] \cup {p}
                             ELSE pieces_to_peers[i]]
    /\ UNCHANGED <<choked, peers_interested, peers_not_choking>>

\* Faulty: only one of the two indexes forgets the peer.
RemovePeerHalf(p) ==
    /\ peers' = peers \ {p}
    /\ choked' = choked \ {p}
    /\ interested' = interested \ {p}
    /\ peers_interested' = peers_interested \ {p}
    /\ peers_not_choking' = peers_not_choking \ {p}
    /\ peers_to_pieces' = [peers_to_pieces EXCEPT ![p] = {}]
    /\ UNCHANGED pieces_to_peers

\* Faulty: the peer stays among those that do not choke us.
RemovePeerUnchoked(p) ==
    /\ peers' = peers \ {p}
    /\ choked' = choked \ {p}
    /\ interested' = interested \ {p}
    /\ peers_interested' = peers_interested \ {p}
    /\ peers_to_pieces' = [peers_to_pieces EXCEPT ![p] = {}]
    /\ pieces_to_peers' =
         [i \in PieceIds |-> IF i \in peers_to_pieces[p] THEN pieces_to_peers[i] \ {p}
                             ELSE pieces_to_peers[i]]
    /\ UNCHANGED peers_not_choking

\* TorrentState::remove_peer and PeerPieceMap::remove_peer.
remove_peer(p) ==
    /\ peers' = peers \ {p}
    /\ choked' = choked \ {p}
    /\ interested' = interested \ {p}
    /\ peers_interested' = peers_interested \ {p}
    /\ peers_not_choking' = peers_not_choking \ {p}
    /\ peers_to_pieces' = [peers_to_pieces EXCEPT ![p] = {}]
    /\ pieces_to_peers' =
         [i \in PieceIds |-> IF i \in peers_to_pieces[p] THEN pieces_to_peers[i] \ {p}
                             ELSE pieces_to_peers[i]]

\* compute_unchoke's peer.choked = choke, for the peers still in the map.
set_choking(ps, choke) ==
    /\ choked' = IF choke THEN choked \cup (ps \cap peers) ELSE choked \ ps
    /\ UNCHANGED <<peers, interested, peers_interested, peers_not_choking,
                   peers_to_pieces, pieces_to_peers>>

peers_that_choke(choke) ==
    IF choke THEN peers \ peers_not_choking ELSE peers \cap peers_not_choking

peers_that_are_interested(interest) ==
    IF interest THEN peers \cap peers_interested ELSE peers \ peers_interested

\* piece_id_to_peers, at one piece: who can be asked for it.
piece_id_to_peers(i) == peers_that_choke(FALSE) \cap pieces_to_peers[i]

-----------------------------------------------------------------------------
\* Any operation for any peer, with any set of pieces not started.
PeersNext ==
    \E p \in Peers :
        \/ \E flag \in BOOLEAN :
             \/ set_peer_choked_us(p, flag)
             \/ set_peers_interested_in_us(p, flag)
             \/ set_choking({p}, flag)
        \/ \E pieces, wanted \in SUBSET PieceIds : add_pieces_for_peer(p, pieces, wanted)
        \/ remove_peer(p)

PeersSpec == PeersInit /\ [][PeersNext]_peerVars

-----------------------------------------------------------------------------
\* The sets of peers and both indexes have their types.
PeersTypeOK ==
    /\ peers \subseteq Peers
    /\ choked \subseteq Peers /\ interested \subseteq Peers
    /\ peers_interested \subseteq Peers /\ peers_not_choking \subseteq Peers
    /\ peers_to_pieces \in [Peers -> SUBSET PieceIds]
    /\ pieces_to_peers \in [PieceIds -> SUBSET Peers]

\* The two indexes of PeerPieceMap say the same: removal through the one
\* cleans the other.
IndexesAgree ==
    \A p \in Peers, i \in PieceIds : i \in peers_to_pieces[p] <=> p \in pieces_to_peers[i]

\* Nothing is remembered of a peer that was removed and not heard of since,
\* so it is never chosen for a request or an unchoke.
NoGhosts ==
    /\ choked \cup interested \cup peers_interested \cup peers_not_choking \subseteq peers
    /\ \A i \in PieceIds : pieces_to_peers[i] \subseteq peers
=============================================================================

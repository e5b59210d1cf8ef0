# Bentorrent in TLA+

TLA+ models of the BitTorrent client in this repository, model-checked with TLC
on small instances, with proofs checked by TLAPS for every instance.
`PROJECT.json` holds the same material in a form tools can read: components,
runs, the map from definitions to source lines, hazards, findings, theorems.

## The system

| Part | Source | State | Operations |
|---|---|---|---|
| Torrent layout | `peer/mod.rs`, `peer/state/piece.rs` | none | piece lengths, blocks of a piece |
| Piece tracker | `peer/state/piece.rs` | pieces not started, blocks in flight and arrived, expiration queue, completed pieces | assign blocks, finish a block, finish a piece, withdraw a request, expire requests |
| Interval list | `peer/io/mod.rs` (`Slices`) | sorted intervals of a piece | insert, is_complete |
| File store | `peer/io/file.rs`, `peer/io/state.rs` | the file, an interval list per piece | write a block, read a block; one task serves both |
| Memory store | `peer/io/mod.rs` | the same in memory | the same |
| Peer registry | `peer/state/mod.rs` (`TorrentState`, `PeerPieceMap`) | known peers, who chokes, who is interested, who has what (two indexes) | flags, pieces, removal |
| Torrent processor | `peer/state/mod.rs` | the registry, the tracker, the request queue (one lock), a sender per peer, the wake-up channel | the select loop: accept, reap, wake-up, tick; one handler per peer |
| Peer connections | `peer/net.rs` | a socket and two bounded channels per peer | connect, handshake, copy messages both ways |
| Wire protocol | `peer/protocol.rs`, `peer/bitfield.rs` | none | encode, decode |
| Tracker client | `peer/tracker.rs`, `model/tracker.rs` | none | one announce |
| Torrent file | `file/bencode.rs`, `model/torrent.rs` | none | parse, print |
| Start-up | `main.rs`, `config.rs`, `lib.rs` | none | start the tasks |

How they interact. `connect_torrent_peers` opens connections and hands each to
the processor. The processor runs one task: a `select!` over new connections,
the futures of the handlers, the wake-up channel, and a five-second tick.
A handler takes the messages of its peer, changes the registry or the tracker
under the lock, or writes to the store (another task) without it, and then sends
a wake-up. On a wake-up the loop prunes closed senders, announces completed
pieces, queues and serves requests of peers, and assigns blocks to peers. The
tick decides on choking and expires requests.

What is hard. The state is changed by several handlers that suspend between the
store's answer and the tracker's update; progress rests on wake-ups through a
channel of ten; requests expire, are made again and are answered late; peers
leave at any time; the loop and its handlers are one task that sends to itself,
takes one lock and waits for channels its own peers must empty; what peers send
arrives cut anywhere; intervals, capacities and offsets have edges. The hazards
in `PROJECT.json` list each of these at its line.

What makes the parts correct. No piece is lost, none that was asked for is listed
once complete, no request is unwatched, the request limit holds (tracker). The interval list is
exact (`Slices`). A finished piece is the torrent's and stays so, and readers get
nothing else (stores). Removed peers leave no trace (registry). Completions and
announcements survive late answers and leaving peers, the download ends,
requests are answered in order (processor). The loop never waits for itself and
no message is stuck (wiring). Messages come out of the stream as they went in
(protocol). File and answer are understood as meant, and the info hash is the
file's (start-up).

## Modules

| Module | Models | Extends |
|---|---|---|
| `TorrentLayout` | layout | |
| `PieceTracker`, `PieceTrackerProofs` | piece tracker, theorems about it | `TorrentLayout` |
| `SliceOps`, `SliceOpsProofs` | interval list: the operators, lemmas about them | |
| `Slices`, `SlicesProofs` | one list that receives blocks, theorems about it | `SliceOps` |
| `Store` | what the processor relies on in a store | |
| `TorrentIO`, `TorrentIOProofs` | file store, theorems about both stores; implements `Store` | `TorrentLayout`, `SliceOps` |
| `MemoryIO` | memory store, beside the file store | `TorrentIO` |
| `TorrentState` | peer registry | |
| `Delivery` | what downloading promises of each piece | |
| `Download`, `DownloadProofs` | the processor towards seeds: tracker, registry and store composed, theorems about it and about the registry; implements `Delivery` | `PieceTracker`, `TorrentState`, `SliceOps` |
| `Upload`, `UploadProofs` | the processor towards leeches, theorems about it | `TorrentState` |
| `Wiring`, `WiringProofs` | the lock, the bounded channels, the loop, handlers and connections, theorems about them | |
| `Connection`, `ConnectionProofs` | `read_msg`, the decoders and encoders, the bit field, theorems about them | |
| `Bencode` | the parser and the printer | |
| `Startup` | torrent file, allocation, tracker's answer | `Bencode` |
| `Session` | start-up followed by a connection | `Startup`, `Connection` |
| `MC...` | definitions the configurations use for constants | |

Definitions that begin with a comment "Faulty:" are variants of the definition
that follows, each with a plausible mistake; no specification uses them. They
are there to show that each property notices a mistake.

**PieceTracker.** `downloading` and `done` are the sets of keys of the two block
maps; `started` is the set of outer keys of the `downloading` map, which stay
after their blocks are withdrawn. An entry of `expirations` stands for all the
entries one call of `generate_assignments` appends; its `Instant` is an age that
stops at the timeout. `ComputeRequests` is `generate_assignments` with the
`remove_request` calls that follow under the same lock. `SetPieceFinished` has no
guard, as in the code: it may finish a piece that was never started.

**SliceOps, Slices.** `InsertSlice` is `Slices::insert` with each of its cases.
`Slices` adds the set of positions received, which the list ought to represent.

**TorrentIO.** A byte of the torrent is its position; the file maps positions to
such bytes, to `Zero` (never written) or to `Junk` (a corrupt block). `Corrupt` is
the set of pieces of which wrong blocks may come. The hash tells the right bytes
from all others. `start_idx` is `piece_len * idx`, as in the code. The inputs
include a piece index that does not exist and blocks that reach over the end of
a piece. `Store` is the abstract specification: a set of held pieces and an
answer; `TorrentIO` implements it with `held <- finished`.

**MemoryIO.** `BothNext` gives each call to both stores. A read beyond the piece
panics the task of the memory store, which is then out of the comparison.

**TorrentState.** The map of peers is its set of keys and the set of keys with
each flag. `PeersNext` calls every operation with every argument, in any order;
it is what the proofs are about, and the runs check the same properties where
`Download` uses the registry.

**Download.** Peers are seeds with given `Holdings`; the ones in `Fickle` may
choke, leave, or not answer. The handlers are futures the loop polls, so no
handler moves while the body of a branch runs: a body is one action. The tick
is two, because it may wait for room in the wake-up channel. A handler is in
one of the places where it suspends: waiting for a message (`Recv`), between the
store's answer and the lock (`Apply`), waiting for room in the channel
(`Signal`), or over (`Exited`). `sent` counts the requests a peer has received
and not answered: late and repeated answers come out of it. `Unsolicited` are the
blocks that the peers in `Fickle` may send although nobody asked. `Delivery` is the
abstract specification: the pieces stored, those completed, and those each peer
was told of; `Download` implements it with `stored` the pieces whose interval list
is complete, `pieces_completed` and `haves`.

**Upload.** Peers are leeches. Requests are numbered per peer; `answered` keeps
what was sent back and in which order. `ToDeq`, `ChokeSize` are the literals 4.

**Wiring.** The body of a `select!` branch, or of what a handler does with a
message, is the sequence of its operations that may wait: `lock`, `unlock`, `send`
to a connection, `wake` (the wake-up channel), `io`, and the changes of the map of
senders in between. `Poll` runs a body up to the operation that has to wait.
Handlers move only while the loop is at `select!` (`AtSelect`), because they are
futures the loop polls. The lock is a queue whose head owns it, as in tokio.
`Dial` opens the connections one by one; `ConnStep` is `run_connection`. A remote
that closes is noticed by a failing write, or when nobody is left to send
(`Breaks`), as in the code. What the bodies do to torrent and registry is left
to `Download` and `Upload`; which requests and answers the loop sends is any choice
up to `MaxOut`. The io task always answers in the end. Which of several tasks
waiting for room in one channel gets it is left open.

**Connection.** `buffer`, `needs` and the place in `read_msg` are the code's; `wire`
holds the bytes under way. `ReadBytes` takes any number of them. Messages are
encoded and decoded byte by byte, with lengths, ids and bit fields as in
`protocol.rs` and `bitfield.rs`; the handshake is shorter (two bytes instead of 19
and 20), which changes no comparison. `Dropped` is `select!` taking the other branch,
`Fails` a read, a write or a send to the processor that fails. The peer may send any
frame. One with an id of ours and a body that id does not have is `Malformed`: the
decoder reads the fields its id has whatever the length says, so it may take bytes of
the next frame, leave some of this one, or panic. Once it has returned a message for
such a frame (`Derailed`) what it returns further is any reading of the bytes, and the
properties speak of what comes before.

**Bencode, Startup, Session.** Bytes are their codes. The printer and the parser
follow the source function by function; keys of the torrent file are shortened
to initials and hashes to two bytes. SHA-1 is taken to be injective, so a hash is
what was hashed, and `HashOfTheFile` compares the dictionary printed again with
the bytes of the file. `from_utf8_lossy`, through which name and announce go, is
the whole conversion: what is no well-formed UTF-8 becomes U+FFFD. Which texts are
URLs is the constant `Urls`. `Session` runs start-up and then reads from one peer.

## Runs

| Run | Configuration | Expected | Shows |
|---|---|---|---|
| `tracker` | `MCPieceTracker` | pass | pieces are never lost, blocks never orphaned, the limit holds, requests are watched and resolved |
| `slices` | `MCSlices` | pass | the list is exact for disjoint blocks in every order |
| `io` | `MCTorrentIO` | pass | the file store implements `Store`; right blocks verify whatever is sent for other pieces; finished pieces stay intact, are finished once, and are what readers get; the memory store agrees until a piece is complete |
| `io_short` | `MCTorrentIOShort` | violation | a short last piece overwrites others |
| `download` | `MCDownload` | pass | reliable peers are kept and the download ends |
| `download_late` | `MCDownloadLate` | pass | the processor implements `Delivery`, with late answers, blocks nobody asked for and leaving peers: a piece is stored once, completed only when stored, told of only when completed; completions and announcements are not lost, and announcements reach peers that come meanwhile; no completed piece is listed again unless all of it came unasked; the registry forgets removed peers |
| `download_stall` | `MCDownloadStall` | violation | idle with a willing peer |
| `download_repeats` | `MCDownloadRepeats` | violation | a block that arrives twice keeps its piece from ever being complete |
| `upload` | `MCUpload` | pass | requests are answered, in order |
| `wiring` | `MCWiring` | pass | as long as the channel to a peer has room the loop always comes back to `select!`; every message is handled; forgotten connections are let go; who can be sent to when two connections share a peer id |
| `wiring_deadlock` | `MCWiringFull` | violation | loop, handler and connection wait for each other |
| `session` | `MCSession` | pass | file and answer are understood; messages come out of the stream whole, in order and in time, up to a malformed frame; reading ends only for a reason |

The violations are disagreements between the code and its own comments or error
texts; the findings in `PROJECT.json` quote both sides.

### Deviations without a run

Further disagreements show directly in the models, and no run is kept for them.

- `RemoveExpired` drops a request by the key of its queue entry, and an entry
  stays when its request is withdrawn (`ComputeRequests`), so a request made again
  can expire with the entry of its first attempt, before its own timeout;
  `piece.rs:298` speaks of requests "not finished in request_timeout".
- `SetPieceFinished` leaves `pieces_not_started` alone, so a piece all of whose blocks
  come unasked before the first request is completed and stays listed, and is
  requested again, against `piece.rs:255`. `CompletedNotListed` says that one block
  that had to be asked for is enough to prevent it.
- An answer that comes after its request timed out and was made again elsewhere may
  find its piece complete; the store refuses it and the handler ends, so the peer is
  dropped for being slow (`file.rs:92`, `mod.rs:769`). `ReliablePeersKept` is about
  peers that answer in time.
- `InterestChanges` looks at pieces not started, so a peer whose wanted pieces are
  all started is never told of our interest (`mod.rs:122`).
- The default of `choked` is false while `init_connection` has sent Choke
  (`mod.rs:121`, `:631`).
- `compute_unchoke` takes its candidates from the interested peers outside a set
  that holds all of them (`mod.rs:428`), so the list called "unchokable" at `:433`
  is empty and nobody is ever sent Unchoke.
- The tick sends its wake-up into the channel only its own loop empties
  (`mod.rs:383`): if the handlers have filled it, the loop waits for itself.
  `MCWiring` with `Expiry = TRUE` violates `LoopCanReturn` at once.
- After a hash mismatch the interval list stays complete (`file.rs:106`): the piece
  is refused as "already finished" (`error.rs:9`) and handed out to readers. `Store`
  promises less for pieces of which wrong bytes came (`Suspect`) for this reason.
- The memory store hashes nothing, answers `Ok(true)` again for a complete piece,
  hands out pieces that are not complete, and panics on a range beyond the piece.
- The handshake decoder panics when the stream is cut within the eight reserved
  bytes (`protocol.rs:60`), and the message decoder at a Piece frame whose length is
  below nine (`len - 9`, `protocol.rs:243`; without overflow checks the subtraction
  wraps and the allocation of that size panics). `EndsForAReason` says that reading
  panics nowhere else before a malformed frame was taken for a message.
- Have, Request and Cancel are read without a look at their length (`protocol.rs:222`),
  so after such a frame of another length the decoder is out of step with the stream.
  `NothingLostOrRepeated` holds up to the first malformed frame only.
- A message with an unknown id consumes nothing, so nothing that follows it is
  read, while the connection stays (`protocol.rs:262`, `net.rs:134`).
- The info hash in a peer's handshake is not compared with ours (`net.rs:106`).
- A file whose pieces do not fit its length makes `allocate_torrent` subtract below
  zero (`peer/mod.rs:40`), and one whose announce is no URL panics in `tracker_url`
  (`tracker.rs:67`): `Announce` has that path, and `TorrentAsMeant` names both cases.
- A port beyond 16 bits is cut to its last 16 (`model/tracker.rs:38`), and another
  port is dialled than the answer names. `PeersAsListed` counts the cut one as meant.

### Bounds

- Two peers: enough for one to be late, gone or corrupt while the other goes on,
  and for a block to be asked for at two peers.
- One to three pieces of one to three blocks: first, last and middle blocks; a
  short last piece where it matters; more blocks than `MaxOutstanding`, so that
  the limit is reached.
- `RequestTimeout` of one or two units: an entry is young, then due.
- `MaxBatches` bounds the entries of the expiration queue. In the code every
  entry leaves at its timeout; the bound only excludes assignments beyond it.
- `MaxRepeats` bounds the unanswered requests for one block at one peer. With one,
  a block whose request timed out is asked for at the other peer, and both answers
  come, in either order and after the piece is complete; two, as in
  `download_stall`, also lets the same peer be asked again.
- `WakeCap` is 1 or 2 instead of 10, so that the channel is full often; it is 10
  in `download_stall`, where fullness would blur the picture.
- `MaxRequests` bounds the requests leeches make. In `upload` it is three over
  two peers; the queue holds at most one request between wake-ups because each
  wake-up adds one and serves up to four, so the pop beyond the fourth request
  (`dequeue_requests`) drops nothing as the code stands, and a failing read has
  no batch to abandon. `NoRequestLost` would notice if that changed.
- `Unsolicited` is the last block of the piece in `download_late`, so that the piece
  can be completed by a block nobody asked for, and empty in the other runs of
  `Download`, whose seeds send only what they were asked for.
- `MCSlices` takes every interval of a piece of eight positions, as long as none of
  it was received before. For repeats see `download_repeats`.
- `wiring`: two connections with the same peer id, of which one may fail or close;
  `RxSize` and `WakeSize` are one, so that those channels are full often; `TxSize` is
  larger than the three messages of `init_connection` and all that is sent after,
  so the channel to a peer is never full. `wiring_deadlock` makes it three.
  `MaxIn` bounds the messages from peers, `MaxOut` the requests and answers to them.
  `Expiry` is false for the reason given above.
- `session`: twelve torrent files that say all that is needed (all key orders that
  matter, numbers with sign and leading zeros, a key twice, further keys, trailing
  bytes, layouts that do not fit, names and an announce with cut or invalid UTF-8
  and a surrogate, an announce that is no URL), eight that do not, seven answers; up
  to two frames after the handshake out of eleven: every kind of message, with
  numbers beyond one byte and a bit field of ten pieces, an unknown one, and three
  malformed ones (too short and too long for a Have, too short for a Piece).
- `io`: a second piece of which wrong blocks come (`Corrupt`).

Three configurations switch the deadlock check off: in `MCSlices` a list that has
everything receives nothing more, in `MCSession` the client may end, and in
`download_stall` a stalled client is the subject.

### Fairness

`select!` polls its branches in random order, so a branch that stays ready is
taken: weak fairness of `WakeUp`, `Tick`, `TickSends`, `Accept`, `Reap`, and of
the handlers' own steps. Time passes (`Clock`, `PassTime`). Senders that wait
for a bounded tokio channel are served first come first served, so in `Upload`
a waiting `SendWake` is strongly fair. Only the reliable peers of `Download`
are assumed to announce their pieces, unchoke us and answer (strong fairness of
`Handles`, since the handler is not always at `Recv`); with `Prompt` they do so
before the timeout. `Upload` assumes nothing of peers.

In `Wiring`, dials and writes end because they have timeouts, and the loop goes on
in its bodies when what it waits for is there (weak fairness). A branch, handler
or connection that is ready again and again gets its turn, since `select!` and
`FuturesUnordered` leave none out (strong fairness). Nothing is assumed of remotes:
`ReadsMessage` and the tick have no fairness. In `Session` `read_msg` is polled
(weak), and bytes that are there are delivered, although `select!` may drop and
restart `read_msg` in between (strong); the peer need not send anything.

## Proofs

`PieceTrackerProofs` proves, for every layout, limit and timeout that satisfy
`LayoutAssumption` and `TrackerAssumption`, that `TrackerSpec` keeps `TypeOK`,
`NoPieceLost`, `BlocksBelongToStarted`, `WithinCapacity`, `Watched` and
`QueueOrdered`, and the action property `NothingOverdue`. The inductive invariant is
`IInv`: none of the parts is inductive alone. `Watched` needs types;
`NothingOverdue` needs the order of the queue and `Watched`;
`WithinCapacity` needs that the blocks of one assignment are at most the
capacity, a counting lemma over the order in which blocks are taken: a finite
set of keys whose members each have fewer than `n` predecessors has at most `n`
members. One lemma per action shows that it keeps `IInv`.

`DownloadProofs` begins with the registry: `PeersTypeOK`, `IndexesAgree` and
`NoGhosts` for every set of peers and of pieces. `remove_peer` cleans one index
through the other, so `NoGhosts` is inductive only together with `IndexesAgree`.

`SliceOpsProofs` has the lemmas about `InsertSlice`: where the place found for a
block lies in the list (`SplitPoint`), what the list is afterwards in each of the
four cases (`InsertCases`, with `InsertedAt`, `RemovedAt`, `ReplacedBy` for the three
changes of a sequence), that the result is ordered (`OrderedAs` and its cases),
which positions it covers (`NewBlock`), and that a complete list covers the piece
and the other way round (`CompleteCovers`, `WholePiece`). `SlicesProofs` uses them
for `SlicesInv`: entries are pairs of numbers within the piece, in order and apart,
and they cover what was received. `Separated` alone is not inductive, because two
entries may only touch if the block between them is new.

`TorrentIOProofs` proves the file store correct for every layout whose last piece is
full (`FullPieces`; `io_short` shows that this cannot be dropped), every set of
corrupt pieces, and blocks that repeat. Repeats make the interval lists inexact, so
the invariant `IOInv` does not say that they are exact. It says that lists are
ordered, that every interval of an honest piece holds the torrent's bytes in the
file (`HonestRight`), that finished pieces are complete and right (`FinishedRight`),
and that an honest complete piece is finished (`HonestFinished`). From it follow
`IOTypeOK`, `FinishedIntact`, `ReadsAreTorrentData`, `HonestNeverMismatched`, the action
property `FinishedOnce`, and that each step is a step of `Store` (`StoreRefined`).
`QueueOrdered` and `FinishedOnce` have no run of their own: `NothingOverdue` and
`StoreRefined`, which have, fail without them.

The rest of `DownloadProofs` is about the processor downloading, for every torrent, set of peers,
holdings, channel size and set of blocks that come unasked. `TrackerStep` and
`RegistryStep` show that each step of the processor is an operation of the tracker and
of the registry, or leaves them alone (`Spec => PeersSpec` for the registry), so the
invariants of those two modules are kept inside the processor without a second proof.
`AskedStarted` says that a block that does not come unasked is on its way, or being
noted, only if its piece left `pieces_not_started`. The invariant `DInv` adds to it types; `NotedComplete`, that
what a handler is about to report as finished is complete in the store, without which
neither `TrackerMatchesStore` (what the tracker completed is complete in the store) nor
`CompletionNeverLost` is inductive; and
`AnnouncedOrPending`. `QuietSteps` shows that only the arrival of a block and its noting
touch the store or the completed pieces, so those two have the lemmas to themselves
(`Arrival`, `Noting`); the announcements are followed from the handler into the channel
(`SendAnnounced`), up the channel and to the peers (`WakeUpAnnounced`).

`DownloadKeepsPromise` is the refinement of `Delivery`, step by step (`NextDelivers`):
the arrival of a block stores a piece or stutters, its noting completes one, a
wake-up announces, an accepted peer is greeted, and all else stutters. `Arrival` and
`NotedComplete` give the guards of the first two. The others need `ToldCompleted`:
what a handler or the channel carries as complete is in `pieces_completed`, and a
peer hears nothing before its greeting. `TrackerMatchesStore` has no run of its own:
`DeliveryRefined`, which has, fails without it.

When every peer is reliable and answers in time (`Reliable`: `Prompt` and no `Fickle`
peer, the setting of `MCDownload`) more is true, and `RInv` carries it: a request under
way is in flight for the tracker, was made once and of one peer, and its block is not
in the store yet (`AskedOnce`); a request in flight is under way or its handler is
about to note it (`FlightsEnd`); a block in the store is never free to be assigned
(`HereKnown`); no time passes over a block in flight (`QueueFresh`); the store holds
whole blocks (`WholeBlocks`); nobody has left (`NobodyGone`). So no block arrives twice
and no handler ends
(`ReliablePeersAlwaysKept`), and a piece all of whose blocks arrived is complete
(`ArrivedCompleteWhenReliable`): the hypothesis is what `download_repeats` lacks.

`CompletedNeverListed` needs no such hypothesis. It rests on `UnaskedOnly`: as long as a
piece is in `pieces_not_started` the store has no first byte of a block of it that had to
be asked for, whatever the order and the repeats in which the others came, so the piece
is not complete unless all its blocks may come unasked.

`TorrentIOProofs` also has the memory store. `BothInv` is `IOInv` and, for each piece
not complete, equality of lists and bytes: a write that completes a piece in one store
completes it in the other, since both apply `InsertSlice` to equal lists, and with full
pieces a write to one piece touches no byte of another.

`UploadProofs` is about any number of leeches, requests and wake-ups under way. The
invariant `UInv` follows a request from the handler through the channel to the answers:
the numbers of a peer's requests grow from its answers over the channel to its handler,
which gives the order. `QueueDrained` is the part without which it is not inductive:
`dequeue_requests` pops one request more than it serves when its counter runs out, and
only because each wake-up queues at most one request and serves it at once is nothing
lost. The answers of one wake-up are a recursive function over the requests taken,
evaluated here on at most one.

`WiringProofs` is about any number of connections, sharing of peer ids, and channel
sizes. The invariant `WInv` says for every task what it may still have to do, and that
an insertion or an exit is the last thing a body does (`BodiesFit`); that a connection
is handed to the loop once, accepted once and handled only then, and removed only after
its handler has ended (`StagesFit`); that entries of the map of senders are those of
connections with that id whose handler is not over (`MapFits`); and that who has a handler
and a connection has an entry or shares its id (`MapServes`). None of them is
inductive while a body is under way without the others. `Poll` takes as many steps as
the body has operations, so the invariant is carried along its recursive function by
induction on their number; the induction theorems of the library cannot be used, so
`LeastNumber` and `Induction` state it for sets of numbers, and `RunExists` shows that
the function is what its equation says.

`LoopCanReturn` does not hold for all channel sizes, as `wiring_deadlock` shows. What is
proved is where it can fail. `Room` says that no channel to a live connection is full,
nor, where requests expire, the wake-up channel; as long as it holds, `LockFree` does:
whenever the loop and all handlers wait, the lock is free (`LockFreeWithRoom`). Then the
loop waits in a branch only for the io task, and never for a handler it does not poll
(`LoopReturnsWithRoom`). `LockFree` carries for each body that it is `Calm`: what is
taken is released, nobody calls the io task or sends a wake-up with the lock, and only
the loop sends to a connection without it. A poll that starts with the lock free runs
until it has released it, because the only operations with the lock that could wait
are sends to connections; a poll only adds to channels, so room after it was room
throughout. The hypothesis is what the run `wiring` has: a connection is sent three
messages at first, at most two for each message that arrives and those counted by
`MaxOut`, eight in all, and `TxSize` is 10.

`ConnectionProofs` is about a connection alone (`ConnSpec`), for every handshake, every
set of frames that `IsMessage` allows (all frames whose numbers and length fit a u32,
malformed ones among them) and every length of the protocol name and of the ids,
the real 19 and 20 among them. It has three parts. Each decoder undoes its encoder on a
buffer that begins with the message, whatever follows, and on one that holds less it
asks for at most the bytes of the message, or panics within the reserved bytes of the
handshake (`MessagesBack`, `HelloBack`, with `NumberBack` for u32 and `BitFieldBack` for
bit fields whose length is no multiple of eight); at a malformed frame it returns some
message, asks for four bytes more, or panics, and the last only at a Piece frame below
nine bytes (`MalformedSeen`). The bytes of a sequence of messages
are those of the first and of the others (`EncodedHead`, `EncodedAppend`, by induction
over sequences as sets). The invariant `CInv` says that what is returned is in its place
up to the first malformed frame (`InPlace`), and that such a frame was taken for a message
(`Derailed`, which is stable because what is sent and returned only grows) or all is
`Clean`: the stream is in step (`InStep`), nothing is held back (`Patient`), reading has
ended for a reason (`Reasoned`), the peer sends in order (`InLine`), and `NeedsFit`:
`needs` is at most the length of the next message, and at most 1 or 4 while none is
pending. Without it `NothingHeldBack` is not inductive, for a message may be
sent after `needs` was set. A step of `Session` is a step of `ConnNext` or leaves the
connection alone, which its definition says; `Session` reaches the recursive parser, so
that is not stated as a theorem.

Only model-checked: everything about liveness (`EveryRequestResolves`,
`DownloadCompletes`, `EveryRequestAnswered`, `EveryMessageHandled`,
`EveryMessageReturned`, and the liveness violation), which is out of the prover's
reach; `Bencode` and all that extends it, since its parser and printer are
recursive. `LoopCanReturn` of `Wiring` is a theorem only while the channels have room.

## Not modelled

Which texts are URLs and addresses (constants and any text that is not empty), and the
HTTP request; the parsing of the arguments (of
which `use_file_writer` cannot be turned off on the command line); failures of
the file system; the queue of two in front of the io task. `Download` and `Upload`
have no lock and no full channel to a peer, `Wiring` no torrent: the three are
views of one loop and are not composed, since the product is out of TLC's reach.
In `Download` a remote that closes takes effect at once (`Leave`), although
`run_connection` may notice late, which is in `Wiring`. Cancel and KeepAlive do
nothing in the code and appear where messages are read and handled. Numbers in
bencode are unbounded, where nom fails on those that do not fit 64 or 32 bits.
`Wiring` has no counterpart of tokio's cooperative budget, by which a receiver with
messages waiting may yield now and then: it would delay a step, not forbid one.

## Plan

1. `Delivery` with the contents of pieces: `Download` composed with `TorrentIO`, so that
   what peers are told of is also what the torrent has.
2. `Download` and `Wiring` composed, for one connection.

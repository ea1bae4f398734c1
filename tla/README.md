# Verification of libdtorr

libdtorr is a BitTorrent library in C (BEP 3 and 23).  It has one thread and
non-blocking sockets: a client calls `peer_server_accept` and `manage_torrent`
over and over, as `test/test_manage.c` does.  What makes it hard is not threads
but everything that happens between two such calls and inside one of them:
peers choke, unchoke, answer late, vanish; a send takes some of the bytes; a
loop over the peers closes peers of the list it walks; a disk write fails with
a piece half handled.

This directory holds TLA+ models of the parts where that matters, the runs in
which TLC checks them, and proofs that TLAPS checks.  Paths below are relative
to the root of the repository, which `PROJECT.json` calls `src/`.

## 1. The system

| Component | State | Operations | Talks to |
|---|---|---|---|
| session loop, `src/manager.c` | time stamps of the interval tasks | `manage_torrent`, `interval_tasks`, `start_peers` | everything below, in a fixed order |
| requester, `src/requester.c` | `we_interested`, `out_piece_requests` and two counters of each peer | `interest_update`, `queue_requests`, `send_requests` | message output, close |
| receiving pieces, `src/piece_ex.c`, `src/msg_in.c` | `bitfield`, `downloaded`, `in_piece_buf_map` | `piece_recv`, `piece_completed`, `handle_choke`, `handle_have`, `handle_bitfield` | files, `send_have` to every peer |
| choking and serving, `src/choke.c`, `src/piece_ex.c` | `we_choked`, `they_interested`, `in_piece_requests`, `curr_in_piece` | `choke_update`, `handle_request`, `pieces_send` | files, message output, close |
| stream, `src/stream.c` | `unsent_data` and its count | `send_sock_msg`, `attempt_resend`, `extract_sock_msg` | the socket |
| connections, `src/handshake.c`, `src/server.c`, `src/peer.c`, `src/close.c`, `src/dsock.c` | `peer_map`, `active_peers` and its count, socket numbers | dial, accept, handshake, `peer_close` | the system |
| tracker client, `src/tracker.c` | interval map, new entries of `peer_map` | `tracker_announce` | HTTP |
| metadata, `src/metadata.c` | the piece layout | `load_torrent_metadata` | bencoding |
| file layout, `src/fs.c` | files on disk | `init_torrent_files`, `rw_piece` | the file system |
| state persistence, `src/state_persist.c` | a dictionary inside the torrent file | `save_state`, `parse_state` | hashmap, bencoding |
| containers: `src/hashmap.c`, `src/list.c`, `src/stack.c` | | | used by all |
| bencoding, `src/bencoding_decode.c`, `src/bencoding_encode.c` | none | `bencoding_decode`, `bencoding_encode` | hashmap |
| URIs, logging | none | | |

What makes each of them correct:

* requester and receiving: a piece is fetched from one peer at a time; a buffer
  is there exactly as long as somebody may fill it; counters equal what they
  count; a verified piece is announced to everybody once and never lost; the
  download goes on as long as somebody has what we lack.
* choking and serving: a peer acts on the choke we act on; nothing is owed to a
  choked peer; a block comes from the piece it was asked from, and verified;
  an interested peer gets its turn.
* stream: the bytes of the messages reach the socket in order, and the messages
  that one end accepts are those that the other handles, in order.
* connections: the count is the number of connected peers; a number is closed
  by its owner only; every known peer is tried.
* metadata: an accepted torrent is cut into pieces that cover its length, and
  its infohash is that of the info dictionary in the file.
* files: every byte of a piece goes to its place, in whichever file that is, and
  comes back from there.
* persistence: a state that was saved is the state that a later start finds; half
  of one is refused; a piece in the restored bitfield is on disk.
* containers: what was stored under a key is found under it.

`PROJECT.json` lists under "hazards" the places where these can go wrong, each at
its line, with the properties that cover it or the reason why none does yet.

## 2. Modules

| Module | Models | Proofs |
|---|---|---|
| `PieceLayout` | how a torrent is cut into pieces and blocks | |
| `Download` (extends it) | requester and receiving pieces, inside the loops of `manage_torrent` | `DownloadProofs` |
| `Upload` | choking and serving, inside the same loop, with the peers that ask | `UploadProofs` |
| `ByteStream` | what `send_sock_msg` promises: an abstract byte stream | |
| `SendQueue` | `send_sock_msg` and `attempt_resend`; implements `ByteStream` | `SendQueueProofs` |
| `Wire` | two clients connected with each other: both ends send as `SendQueue` does and read with `extract_sock_msg` | `WireProofs` |
| `Connections` | dialling, accepting, closing, socket numbers | `ConnectionsProofs` |
| `HashMap` | insertion, lookup, sorted entries | in `ResumeProofs` |
| `Bencoding` (extends it) | decoding and encoding of tokens | in `ResumeProofs`, `RoundTripProofs` |
| `Metadata` (extends it) | which files make a torrent, and what torrent | in `ResumeProofs` |
| `StatePersist` (extends it) | `save_state`, `parse_state` | in `ResumeProofs` |
| `FileMap` | `allocate_file`, `rw_piece`, and where a byte belongs | in `PieceStoreProofs` |
| `PieceStore` (extends it, uses `PieceLayout`) | pieces in files over several starts of a client: initialising, writing, reading, crashes; what the torrent file looks like is left out | `PieceStoreProofs` |
| `Resume` (extends it and `StatePersist`) | the same with the torrent file, which is saved, cut, and loaded again; implements `PieceStore` | `ResumeProofs`, `RoundTripProofs` |
| `MC...` | instances for TLC | |

The modules keep the names of the code.  A few conventions hold in all of them:

* **A step is the body of a loop.**  The library has no other interleaving than
  the one with its peers, so a call of `manage_torrent` is a sequence of steps,
  one for each turn of a loop over `active_peers`.  `pc` says which loop runs,
  `it` is its cursor, and `todo` the peers further down the list.  Everything a
  body calls, down to the closing of other peers, is part of its step.
* **The order of the list is left open.**  Any peer of `todo` may be next.  The
  list is in order of connection, and peers connect in any order, so this adds
  no behaviour that matters and removes none.
* **`next` is saved early.**  `Advance(C)` takes the peers that the body closed.
  If the saved node is among them the program reads freed memory and `pc`
  becomes "crashed", where nothing is promised.
* **Faults are a constant.**  `Faults` says what may go wrong, so that a run can
  say under which faults a property holds.
* **Allocations succeed.**  `malloc` returning null is left out everywhere but
  for the buffer of a piece to serve.  The error paths that this skips are
  listed under "hazards".
* **Requests name pieces and blocks, not bytes.**  A block is named by its
  piece and its begin; whether its bytes are right is one Boolean, and
  `verify_hash` accepts a buffer if all of its blocks are right.

### Download

Variables of the torrent (`bitfield`, `downloaded`, `in_piece_buf`), of each
peer (`they_choked`, `we_interested`, `out_piece_requests`,
`sent_request_count`, `total_out_request_count`, `peer_bitfield`) and of the
pass.  Three more are history: `wire`, the requests a peer has and has not
answered; `announced`, the pieces each peer was told of; `failed`, the buffers
that were refused by `verify_hash` or `rw_piece`.

| Action | Code |
|---|---|
| `BeginRequester`, `BeginPeers`, `EndInterest`, `EndRequest`, `EndPeers` | `interval_tasks` and the ends of the loops; `choke_update` may close peers on the way |
| `UpdateInterest`, `FailInterest` | body of `interest_update` |
| `SkipChoked`, `QueueRequests`, `SendRequests`, `FailRequests` | body of `send_requests`; each recursive activation of `queue_requests` is a step |
| `RecvBlock` | `handle_piece`, `piece_recv`, `piece_completed`, `send_have` in one step, with four outcomes: `RefuseBlock`, `StoreBlock`, `CompletePiece`, `FailPiece` |
| `RecvChoke`, `RecvUnchoke`, `RecvHave`, `RecvBitfield` | the other handlers of `process_msg` |
| `NoMessage`, `DropPeer`, `AbortPass` | the other ways out of the loop body |
| `InsertActivePeer` | a handshake, seen from here |

A peer in this model answers requests it has, in any order, and none while it
chokes us.  When it chokes us it forgets the requests it has received; those
still under way to it, at most `MaxLate`, it receives later, and may answer
after it has unchoked us.  That is what the unsigned counters of `piece_recv`
are exposed to; the counters wrap at `CountModulus`.

### Upload

`we_choked`, `they_interested`, `in_piece_requests`, `total_in_request_count`,
`curr_in_piece` and `curr_in_piece_index` of each peer, and the pass.  On the
other side: what the peer was `told`, what it has read of that (`seen_choked`),
and its messages under way (`inbox`).  A peer here keeps to the protocol: it
asks only while it takes itself to be unchoked and interested.  `misserved` collects
what was wrong with blocks that were sent.

`choke_update` is one step, `ChokeUpdate`: V are the peers the second loop
visits, S those that `rand` picks, F those that could not be told.  A turn of
the loop has two parts: `pieces_send` (`ServeBlock`, `FailLoad`, `FailServe`,
`NothingToServe`), then reading a message (`RecvInterest`, `RecvRequest`,
`RecvRequestChoked`, `NoMessage`, `DropPeer`).  `SkipTurn` is a turn whose
send queue did not drain.

### SendQueue and ByteStream

`ByteStream` has two variables, the messages accepted and the bytes delivered,
and says that the second is always a prefix of the bytes of the first, growing.
`SendQueue` has the queue of `unsent_info` with its unsigned offsets and a step
for every call of `send`, which may take all, take some, take nothing, or fail.
The refinement mapping takes the bytes written to the socket except those that
no message has: see `stray_byte` below for why there are some.

### Wire

A byte in flight is its message, its place in it and the length of the message;
`net[e]` is what end e sent and the other has not read, with room for `ROOM[e]`
bytes.  `turn` says where an end is in its turn of `manage_torrent`.

| Action | Code |
|---|---|
| `SendBehind`, `SendDirect`, `SendBlocked` | `send_sock_msg` behind other data, with room for some, with room for none |
| `BeginTurn`, `Resend` | the head of the loop body, and one send of `attempt_resend`; what is left unsent ends the turn |
| `ReadMsg`, `ReadNothing`, `RefuseMsg`, `ReadGarbage` | the outcomes of `extract_sock_msg`, the last being a prefix read from a place where there is none |
| `Break` | either end closes, or the connection is lost |

### PieceStore and Resume, with HashMap, Bencoding, Metadata, StatePersist and FileMap

The first four are operators on values: a dictionary is a record of its size and
its slots, a node a record of its type and value, a file a sequence of tokens
with a token `"cut"` for one that was cut inside.  A decoder takes one token at a
time: what in C are the calls of `handle_dict` and `handle_list` that have not
returned is a sequence of the nodes they work on, and a pending key is kept with
its node.  An encoder writes down the tree one level deeper at a time, to the depth
of `MAX_RECURSION`, where what is deeper is left out.  A key of the file that is
not in `Keys` has hash 0 and comes first in `strcmp`.  What it means that the keys
of a file are in order, at every level, is said by the constant `Cutting`: how
each item of such a file is put together from smaller ones, in the order of `strcmp`.
`MCResume` computes it from the tokens, `CuttingAssumption` says what it must be.  A number that
`save_data_count` writes into a node that is none (`CountsAreNumbers`), and a string
that `save_download_dir` puts into a node that is none (`DirIsString`), are undefined
behaviour, and a save that would do either is not followed.  A byte of a torrent is its
position, so that a byte in the wrong place shows; a call of `rw_piece` is a
record of its local variables, which `RwStep` takes one turn of the loop further.
`PieceStore` has the files (`disk`), the bitfield that was last written down
(`kept`), what a client has in memory, and `wiped`, a history variable.
`Resume` adds the torrent files on disk (`torrent_file`, `saved`), what the client
made of one (`torrent`), and more history.  Each action of it that concerns pieces
or files is one of `PieceStore` with what it does to the torrent file: `Start` is
`Begin` with what `load_torrent_metadata` returned.

| `PieceStore` | `Resume` | Code |
|---|---|---|
| `BeginAny`, `Begin` | `Start` | `load_torrent` on the original or on the file that was saved |
| `InitFile`, `InitFails` | `StoreStep`, `InitFailsAndExits` | a turn of `init_torrent_files` |
| `BeginWrite`, `RwTurn`, `CompletePiece` | `StoreStep`, `CountPiece` | `piece_completed` around `rw_piece` |
| `BeginRead`, `RwTurn`, `ServePiece` | `StoreStep`, `CountServed` | `load_piece_data` around `rw_piece` |
| `GiveUpCall` | `StoreStep` | a call that failed, or a buffer that does not verify |
| `BeginSave`, `EndSave` | `SaveState`, `SaveFails`, `WriteSaved` | `save_state`, and the client's writing of what it returned |
| `SaveCutShort` | `WriteCutShort` | a short write, which the client does not notice |
| `Crash` | `Killed` | the process ends, with any part of a file written; also of an `fopen` that returned null, which the client passes on to `fwrite` |

`PieceStore` lets a client begin with any of `Layouts`, and with the bitfield that it
wrote down or an empty one.  `Resume` has to show that this is what comes out of
the torrent file, which is its property `ImplementsPieceStore`.

The client is that of `test/test_manage.c`: it initialises the files when piece 0
is missing, and on a save writes the whole torrent file without looking at what
`fwrite` returns.  It differs in three ways.
The test sets `downloaded` to 1 at `test/test_manage.c:98` and saves once; this
client keeps the counts as `test/test_state_persist.c` does, and may save again.
And the test ends when `manage_torrent` returns anything but 0
(`test/test_manage.c:118`); this client, like those of `Download` and `Upload`, may
also call it again.

### Connections

Which socket numbers are open, and who opened them (`holder`, a history
variable), against the number each entry of `peer_map` has in `s`, stale or
not.  0 is a number the client holds, as standard input is on a Unix system,
because `memset` leaves 0 in the entry of a new peer.  A dial is one step of
the loop of `start_peers` with the ways it may go (`Dial`, `DialFails`,
`DialLosesSocket`, `DialUndone`); an accept likewise.  A step that opens and
closes a number inside itself leaves it as it was.

## 3. Runs

| Run | Checks | Instance |
|---|---|---|
| `download_faults` | `SingleSource`, `OwnedBuffered`, `StrandedOnlyByFailure`, `DownloadedExact`, `RequestsUnique`, `QueueExact`, `AnswersWelcome`, `InterestTold`, `CursorSafe`, `NoPieceStuck`, `DownloadCompletes` | 2 peers, 2 pieces of 2 and 1 blocks, 1 request under way; connections drop, blocks are corrupt, disks fail; with fairness |
| `download_late_send` | `IInv` (with `TypeOK`), `AnnouncedExact`, `SentCountExact`, `HaveForGood` | the same with failing sends, and one answer that outlives a choke; may stop, when the loop follows a freed node |
| `upload` | `ChokedIdle`, `InCountExact`, `ChokeTold`, `ServedRightPiece`, `UnchokedWhenFew`, `AnswersGoOn` | 2 peers, 1 upload slot, 2 pieces, 1 request, every fault, with fairness |
| `send_queue` | `TypeOK`, `CountExact`, `OnlyHeadPartial`, `ImplementsByteStream`, `Flushed` | messages of 2 and 3 bytes, 4 of them, a queue of 2 |
| `connections` | `CountExact`, `SocketsExact`, `Dialled` | 3 peers, 2 dialled connections, 5 socket numbers; the system may come to rest when everybody is bad |
| `wire` | `InOrder`, `Delivered`, `JamIsForever` | messages of 3, 6 and 8 bytes with a prefix of 2, a window of 5, room for 5 one way and 6 the other, 3 messages from each end; with fairness |
| `resume` | `HaveOnDisk`, `ReadsBack`, `SavedIsRestored`, `CutIsRefused`, `FailsOnlyWhenFull`, `InfohashOfFile`, `LayoutSound`, `ImplementsPieceStore` | 10 torrent files, 2 good, 5 odd, 3 to be refused; 2 starts, 3 saves; crashes and failing calls everywhere |
| `stray_byte` | `OnlyTheRestIsQueued`, violated | as `send_queue` |
| `short_send` | `FatalOnlyOnError`, violated | as `send_queue` |
| `crossing_request` | `CrossedRequestIgnored`, violated | 2 peers, no faults |
| `unverified_block` | `ServedVerified`, violated | 2 peers, failing reads |
| `resumed_count` | `CountRestored`, violated | 1 torrent file, else as `resume` |

The type invariants of `Upload` and `Connections` are part of what is proved about
them, and have no run of their own.  The last five runs show places where the code does not do what its own comments,
lists or tests say:

* `stray_byte`: when the socket takes nothing of a message, -1 is queued as an
  unsigned offset (`src/stream.c:143`); the test `offset >= 0` in
  `src/stream.c:53` is always true.  The resend sends one byte more than the
  message has, from before its buffer.
* `short_send`: after a send that took part of a message, `src/stream.c:136`
  looks at `errno`, which that call did not set.  Unless an earlier call left
  `EAGAIN` there, the peer is closed.
* `crossing_request`: `handle_request` says "ignore" of a request from a peer
  we choke, and returns a value that makes `manage_torrent` close the peer as
  bad.  A peer that had asked before it read our choke is closed that way.
* `unverified_block`: a load that fails leaves the buffer in `curr_in_piece`.
  If its piece is the one `curr_in_piece_index` names, as piece 0 is on a new
  peer, the next pass takes the buffer to be loaded.  There is a next pass in a
  client that goes on after `manage_torrent` returned 3.
* `resumed_count`: `save_data_count` looks for an old count in the dictionary
  around the state (`src/state_persist.c:73`), never finds it there, and inserts
  another entry with the same key.  `hashmap_get` finds the first.  So the second
  save of a session writes the count of the first one again next to its own;
  which of the two a later start finds depends on the order in which the file has
  them, that of `qsort` on equal keys.  `test/test_state_persist.c` saves once.
  `Init` of `Download` takes the count to match the bitfield: `DownloadedExact`
  is about torrents for which it did at the start.

Bounds, and why they suffice:

* Two peers are enough for all properties that relate peers by pairs, and one
  to close another in the same step.  Three peers in `connections` let two
  be connected while a third is dialled, or over the limit by an accept.
* Two pieces, one of two blocks and a last one shorter, let a piece be half
  received, let requests for different pieces share a list, and let the length
  of the last piece matter.
* `MaxSentRequests` 1 makes the limits of the requester bite with three blocks.
  In the late-answer run it is 2, so that more than one request is out.
* In `upload` a peer has one request at a time.  The safety properties of that
  run are proved for every bound; for progress, a request that waits behind
  another is first once that one was answered.
* `CountModulus` 16 is more than any count in the instance, so that a
  wrap can only come from below zero.
* A message of three bytes can be cut at two places, one of two at one, and a
  queue of two can be full with a third waiting.
* Socket numbers: one for the client, one for the server, three for peers.
* In `wire` the three lengths are one that fits the window, one that fits the
  buffer but not the window, and one that fits neither; in the code the window is
  24 KB and the buffer 32.  One direction is filled by a short message and a part of
  another, so that a message arrives in two pieces, from `send_sock_msg` and from
  `attempt_resend`, while a third waits or closes the connection; the other is filled
  by two short messages exactly, so that a third is sent none of, and a stray byte comes
  before it.
* The dictionaries of `resume` have 16 slots and that of a first save 7, where
  the code has 256 and 16.  The hashes of the keys are those of djb2.  Among the
  keys that are looked up no two share a slot, neither here nor in 256;
  "comment" and "created by" share theirs in both, so that an entry away from
  home is there.  Three saves in 7 slots fill the state, so that `save_state`
  fails; in the code's sizes the duplicates that saves leave behind reach the home of
  another key after some 45 saves, and `SavedIsRestored` ends there.
* `Modulus` and `Width` are 8, more than a good torrent has bytes, and less than
  `Wrapping` adds up to.  Files of 1, 1 and 2 bytes under pieces of 3 let a piece
  lie in three files and a file belong to two pieces.
* Two starts, of which the second loads the saved file or the original, and may
  save again.

`MaxRequests` (Upload), `MaxMsgs` (SendQueue, Wire), `MaxLate` (Download),
`MaxStarts`, `MaxSaves` and `MaxUploaded` (Resume) bound what the code leaves
unbounded.  They appear in guards of the environment or of the client, but for
`MaxMsgs`, after which no message is sent until the peer reconnects.

Some properties of `resume` have exceptions, and each names them.  A start from
the original file initialises the files although pieces are in them: those are in
`wiped`.  The files of a torrent that has a `length` besides its `files`, or whose
lengths wrap, do not add up to it, and it is not `Covered`.  `Delivered` excepts
what `Lost` names: a stray byte, a message that the window cannot hold, and the
jam of `JamIsForever`.

Symmetry of the peers is used in the runs without a liveness property only:
`download_late_send`, `crossing_request`, `unverified_block`.

## 4. Fairness

The client calls `manage_torrent` in a loop.  Here it goes on when a call returned
an error, 3 say, after a block that could not be loaded or sent.  That of
`test/test_manage.c:118` ends then: for it, `NoPieceStuck`, `DownloadCompletes`,
`UnchokedWhenFew` and `AnswersGoOn` say something only as long as no pass is aborted, and
`unverified_block` has no second pass.  A call ends, since every loop body does.  So:

* the steps of a pass are weakly fair (`WF` of `PassStep`, `TurnStep`,
  `DialStep`);
* an interval task happens again and again while calls do, not at every call:
  its first step is strongly fair (`BeginRequester`, `BeginChoke`,
  `StartPeers`);
* what the socket allows at some of the visits and not at others is strongly
  fair: reading what a peer has sent (`RecvBlock`, `Recv`), a send that finds
  room (`ServeBlock`, `ResendWrites`).  These are assumptions on peers, that
  they read and answer, and no property is meant to hold with a peer that does
  neither;
* in `Wire` the turns of both ends are weakly fair, and `ReadMsg` strongly, since
  what was sent arrives some day.

`Flushed` and `AnswersGoOn` rest on a peer that reads now and then.  `Wire` shows
what that excludes: a peer that is itself libdtorr does not read while it cannot
send, so that two of them can fill both directions and then neither reads again.

`NoPieceStuck`, `DownloadCompletes` and `AnswersGoOn` assume that passes are not
aborted for ever, since one peer whose piece cannot be written or read ends the
pass for all those behind it (`src/manager.c:131`).  Both properties of `Download` speak
of peers that answer.  One whose connection was lost is never noticed
(`src/stream.c:18`): it keeps its requests and their buffers until a send to it fails.
`DownloadCompletes` further assumes that no piece is refused, and a seed that stays and does not choke us for
ever.  `UnchokedWhenFew` has no such premise: `choke_update`
runs before the loop.

## 5. Proofs

The theorems hold for every value of the constants that the named assumptions
admit: any set of peers, any layout, any bound, any set of faults.

**Download.**  `IInv` is the conjunction of `TypeOK`, `SingleSource`,
`OwnedBuffered`, `HaveUnbuffered`, `StrandedOnlyByFailure`, `InactiveClean` and
`CursorOK`.  None of the three properties of interest is inductive alone.  That
a piece is requested from one peer only (`SingleSource`) holds because
`queue_requests` skips pieces with a buffer, and so needs that every request
has one (`OwnedBuffered`); that in turn needs that a choke frees only buffers
of its own requests, which is `SingleSource` again.  A late block may
complete a piece whose requests are at another peer; then the requests stay,
their buffer is gone, and `OwnedBuffered` survives only because the piece is in
`bitfield`.  That requires `HaveUnbuffered` for the next queueing.
`StrandedOnlyByFailure` needs that peers off the list have no requests
(`InactiveClean`), or an insertion could revive old ones, and `CursorOK` makes
sure that the peer whose turn it is, and which may be given requests, is on the
list.  The proof has one lemma for each action, and lemmas on the list
operators: what `Without` strikes, what `RequestsFor` adds, that the search of
`send_requests` ends inside the list, that marking requests as sent keeps their
pieces.

**Download, what is counted and told.**  All of these rest
on `IInv` and none is a part of it.
Every step either leaves the bitfield, the count and what peers were told as they
are (`Stays`) or adds one piece to each (`Gains`); `BytesInAdd` says that a piece
adds its own bytes, the short last one included, and `DownloadedExact`,
`AnnouncedExact` and `HaveForGood` follow.  `CursorSafe` needs that without
failing sends a body closes nobody but its own peer.  `RequestsUnique` is
inductive because a piece is queued only while no request for it is out.
`InterestTold` needs `InterestInv`: behind the cursor of `interest_update`
everybody is told, and `send_requests`, which runs next, can only make fewer
pieces interesting.  For the counters every step is one of a few operations on one list
(`ListStep`).  `QueueExact` needs that a count never wraps on the way up: the limit
is passed by at most the last piece that was queued, which is why the assumption
asks for `MaxSentRequests * 2 + BlockCount(i) <= CountModulus`.  `SentCountExact` is about two
things, the list here and the messages at the peer: `Matched` says that the sent
requests are the first n of the list and each has a message of its own on the wire
(an injection of the one into the other, whose cardinalities `FiniteSetTheorems`
compares), and that the counter lags behind n by some number of late answers.
An answer that outlived a choke may strike a request that was not sent yet: then
the counter goes down and n does not (`Lag`).  There are at most `MaxLate` such
messages, those on the wire that belong to no sent request and those that the
counter lags behind together, so the counter is wrong, or wraps, by no more than that,
which is where `MaxLate + MaxSentRequests <= CountModulus` is used.  With
`MaxLate = 0` messages and sent requests are the same, and `AnswersWelcome` follows
with `Fresh`: nobody is asked for a piece that we have.

**Connections.**  `IInv` is `TypeOK`, `CountExact` and `SocketsExact`.  The last
is an equivalence between two views of a socket, the number in the entry and
the owner in the system.  It is inductive because every way out of a handshake
either inserts the peer with its number or leaves nothing open, and because
`peer_close` overwrites the number it closed.  Entries that are not connected
may hold any number, and no step closes it: that is what is proved about the
stale number of `src/handshake.c:139`.  The count needs finiteness of `Peers`
and two facts on cardinalities from the library.

**SendQueue.**  `IInv` is `TypeOK`, `CountExact`, `OnlyHeadPartial` and
`ResendHasHead`: `attempt_resend` works on the head of a queue that is not
empty, which each of its steps has to leave behind if it goes on.  `CountExact`
and `OnlyHeadPartial` need each other: the count decides through `Full` whether
a message may be queued, and a message is appended with offset 0 unless the
queue was empty, so only a head can be cut.  What is left of a head is computed
modulo the width of the offset; `ShortSend` is the lemma that a send of less
than that rest leaves the offset in the message, also from the -1 that a send
which took nothing left there.  This is where the assumption is used that no
message is as long as the offset is wide.

**SendQueue implements ByteStream.**  `StreamInv` says where the queue stands in what was
accepted: what waits are the last messages, and the socket has got all the others
and, of the first that waits, the bytes before its offset.  A byte that no
message has, which a resend from offset -1 puts in front, is not counted, and
`stray_byte` shows that there is one.  Each action then hands over a part of what
`ByteStream` still owes, behind what it has handed over before (`StepDelivers`), or
nothing.  The sequences of bytes are put together with `FlattenSeq` of the community
modules; that it respects `\o` and `Append` is proved first, with a
least counterexample, since nothing can be proved by induction here.

**Upload.**  `IInv` adds three facts to the properties.  That a block comes from
the right piece (`ServedRightPiece`) is not inductive: the index of the buffer
is compared, not the buffer.  `BufferNamed` says why that is enough: a buffer
is of the piece its index names, or it was left by a failed load and is of the
piece that the first request asks for, so that either answer of the comparison
gives the right piece.  It needs `ChokedIdle`, for the request to stay first as
long as the buffer is there.  `ChokeTold` speaks of connected peers, and holds
of one that comes back because peers that are gone were told, or take
themselves to be choked (`GoneTold`).  `CursorOK` makes sure that requests are
given to connected peers only.  `choke_update` and every close are instances of
one lemma, `ForgetStep`, on forgetting a set of peers and closing some of them.

**Wire.**  In a jam both directions are full, both ends have unsent data and
neither is in the reading part of its turn.  An end leaves the resending part only
by sending something, for which there is no room, and a message that is sent
meanwhile only makes the queue longer: so the jam is kept by every step that does not close
the connection.  `WireInv` supplies what this needs: no direction has more than
its room, and no entry of the queue is empty, so that a resend into a full
direction never takes one off.

`HandledInOrder` says that what an end handles are the first messages the other has
sent, in order.  `OrderInv` follows one message on its way: h messages are handled; the
bytes in the net are those of message h + 1, h + 2 and so on, none missing
(`Run`); the first message that waits goes on where they end (`Continues`), and
the others follow it whole (`Waits`).  A direct send is put down as queueing and
sending at once, so that there is one lemma for queueing (`InStepQueued`), one
for sending (`InStepSent`) and one for reading (`InStepTaken`), which all actions of
either end use.  That `extract_sock_msg` finds a prefix at the head of the net needs that
messages are taken whole, which `Run` says of its first byte.  All of this is only promised while
no stray byte is among the bytes; then `ReadGarbage` cannot happen either.

**HashMap.**  `IsMap` says that an entry is in some slot of the map; insertion
keeps it.  That the search visits every slot (`RoomWhileFree`) is a fact on
remainders.  Insertion takes a free slot and no other, so what is in a home slot
stays: what was found stays found (`FoundForGood`), which is why the count of the
first save wins in `resumed_count`, and what is not found because another key has
its home is never found again (`DisplacedForGood`).

**FileMap and PieceStore.**  `CallOK` relates the running offsets of `rw_piece`: that of the piece
is where the call began plus what it has used of the buffer, that of the file is
where the file begins, and the file does not begin behind what is left of the
piece.  `WriteInv` adds that what was used of the buffer is in its place, `ReadInv`
that what was read is what belongs there.  Both hold at the begin of a call (`BeginsOK`)
and each turn keeps them; the theorems say so, and what follows when the call
returns 0.  `FileStart` is a recursive function: that files follow one another
(`FilesInOrder`) is proved with a least counterexample.

`StoreInv` makes of this that `HaveOnDisk` and `ReadsBack` hold over any number of starts.
Neither is inductive: what a crash leaves is the bitfield that was written down
(`kept`), so all of the pieces that it or the memory claims must be on disk
(`ClaimedOnDisk`); and a bit is set after the last turn of a call, so that the call
in progress must be known to have put into place what it has used
(`WriteSound`).  A write is of a piece that is not claimed, yet a claimed one must stay
where it is: a turn of `rw_piece` moves no byte that is in its place
(`WritePlaces`), and initialising a file disturbs the pieces that have a byte in it
and no others (`InitKeepsOthers`), which are those in `wiped`.  A write that was cut
off by a crash claims nothing.  A piece that is completed again is no longer wiped.
The layouts are arbitrary but for `PieceStoreAssumption`: a file and a piece, and a
length below 2^64.  What a layout must satisfy besides (`Covered`) is a premise of
both properties, since `metadata.c` does not see to it; `Wrapping` and a torrent with a
`length` besides its `files` are the examples in `resume`.

That the bitfield is the same after a save and a load is the part of `Resume`, which
implements `PieceStore` (see below), so that both properties are carried over to it
(`ResumedPiecesAreOnDisk`).

**Resume.**  Nothing bounds the depth of the trees that a file holds, and nothing
can be proved here by induction over them.  So a tree is a node of a set that is
closed: with each node it has those below (`Closed`), all of them with the types
that the code relies on.  Decoding any sequence of tokens stays over some closed set
(`TakeOver`, `DecodeSound`), since a closed set may be joined by any node that is
made of its members; inserting, overwriting and `save_state` stay over it as well
(`SavedOver`).  Whatever the encoder writes of such a tree has balanced brackets: a
level of `bencoding_encode` adds brackets only around what it writes of one item
(`EncodedLevel`), so that what a dictionary is written as is one dictionary that is
not over before its last token (`EncodedWhole`), also where nodes too deep or
without a value are left out.  A decoder that reads a part of it has as many calls
pending as there are brackets open, so it has not returned (`CutDoesNotLoad`).

`ResumeInv` puts this together over the starts, saves and crashes: what is on disk is
a sequence of tokens, what `save_state` returned is whole, what the client
has loaded is a tree without a flaw, and its layout was accepted.  It is inductive
because a loaded tree is one that was decoded, with what saves did to it, and a
file is one that was written whole, or a part.  `CutIsRefused` follows from it, and
`LayoutSound` from what `LengthValid` says when nothing wraps.  All of this is for
any hash function, any order of keys and any size of the dictionaries: no key has to
be found.

**Resume, decoding and encoding again** (`RoundTripProofs`).  The infohash is that of
`info` decoded and encoded again, from a file that the client may have written
itself, of a tree that it had decoded, any number of times over.  `InfohashOfFile`
therefore needs that the round trip loses nothing.  `Spells` says what the encoder
writes of a sequence of items in so many levels, and `Reads` what the decoder makes of
tokens wherever it is; both can be put together piece by piece (`SpellsConcat`,
`ReadsConcat`), which the two loops over levels and tokens themselves cannot.  A
dictionary whose keys come in order holds each in some slot (`HoldsMore`: a new key
takes a free slot, whatever the hashes are), and sorted they are in the order
in which they came (`InOrderIsAll`, `HeldInOrder`).  From there `ItemsComeBack` goes by
the length of the item, with a least counterexample; `Cutting` supplies the parts.

The inductive invariant is `InfohashInv`, with `ResumeInv`: `InfoSafe` says of a loaded tree
that its root has no `info`, or that a node which is written as the
original info dictionary is what the root has in every slot with that key.  A save
adds to the root and to the state in it and to no `info` (`SavedInfo`).  What is written is no
sorted file any more: the state has keys twice, and a key of the root that had no value, the
last one, is followed by another one now, which is read as its value, and the next value as
a key (`RootShifted`).  `FileSafe` says what survives even that: if such a file loads, then
what it has under `info` is what the client had (`RootDecodes`), which is
what the next start needs.

**Resume implements PieceStore** (`RoundTripProofs`).  `ResumeImplementsStore` is the same
question for the bitfield, the pieces and the files.  It is proved for each torrent file
that is `Plain`: its keys are in order, and if it loads then its root has the slot free
where the state goes, no other key at the place of `dtorr-state`, and neither `downloaded`
nor `uploaded`.  With one of these two, `save_data_count` would write into the root
itself, where it looks for them (`src/state_persist.c:73`); with the slot taken, the state
would never be found (`DisplacedForGood`).  The original files that load are such, but for
the one whose keys are not in order.

`RestoreInv` says where the client stands.  What it has decoded is the root of the
original, or that root with one entry more, a state in its home slot (`WithState`).  What
is saved, if it loads at all, is decoded as such a root, with a state that has the
bitfield which `kept` has (`Restores`).  `StateOk` says what such a state is: the bitfield
is in its home slot and nowhere else, and all the rest, the counts of earlier saves
included, are numbers and strings under the four keys.  Nothing is said about whether those are
found, since in the long run they are not.  The bitfield always is: it is the first to
go into an empty state, and it is the first when the state is decoded again, into a
dictionary of another size, because its key comes before the other three
(`StateComesBack`).  The state itself is found because it comes before `info`, and
nothing else has its slot.  `FileIsRestored` says so for the file: the encoder writes the
items of the original with the state among them, and the decoder makes of them the
entries that it made before, in the same slots, and the state (`FilledWith`).

Each step then is one of `PieceStore`.  A start on the original has an empty bitfield, and
one on the saved file has that of `kept`, or an empty one if `parse_state` gives up
(`StartRestores`).  A save puts the bitfield into the state (`SaveRestores`).  A crash
during the save, or a disk that is full, leaves a part of the file, or nothing, and
neither loads (`PartDoesNotLoad`).

| Theorem | States |
|---|---|
| `DownloadInvariant` | `Spec => []IInv` |
| `DownloadTypeCorrect` | `Spec => []TypeOK` |
| `NoDoubleRequest` | `Spec => []SingleSource` |
| `RequestsKeepBuffers` | `Spec => []OwnedBuffered` |
| `NothingElseStrands` | `Spec => []StrandedOnlyByFailure` |
| `DownloadedCounted` | `Spec => []DownloadedExact` |
| `EveryoneTold` | `Spec => []AnnouncedExact` |
| `PiecesNeverLost` | `Spec => HaveForGood` |
| `LoopsStayOnList` | `Spec => []CursorSafe` |
| `NoRequestTwice` | `Spec => []RequestsUnique` |
| `AskedAreTold` | `Spec => []InterestTold` |
| `QueueCounted` | `Spec => []QueueExact` |
| `SentCounted` | `Spec => []SentCountExact` |
| `AnswersFit` | `Spec => []AnswersWelcome` |
| `ConnectionsInvariant` | `Spec => []IInv` of Connections |
| `ConnectionsTypeCorrect` | `Spec => []TypeOK` of Connections |
| `ConnectionsCounted` | `Spec => []CountExact` |
| `SocketsNeverMixedUp` | `Spec => []SocketsExact` |
| `SendQueueInvariant` | `Spec => []IInv` of SendQueue |
| `UnsentCounted` | `Spec => []CountExact` of SendQueue |
| `OnlyHeadIsCut` | `Spec => []OnlyHeadPartial` |
| `SendQueueTypeCorrect` | `Spec => []TypeOK` of SendQueue |
| `StreamStands` | `Spec => []StreamInv` of SendQueue |
| `SendQueueImplementsByteStream` | `Spec => ImplementsByteStream` |
| `UploadInvariant` | `Spec => []IInv` of Upload |
| `ChokeForgetsRequests` | `Spec => []ChokedIdle` |
| `RequestsCounted` | `Spec => []InCountExact` |
| `ChokeIsTold` | `Spec => []ChokeTold` |
| `BlocksOfRightPiece` | `Spec => []ServedRightPiece` |
| `UploadTypeCorrect` | `Spec => []TypeOK` of Upload |
| `WireInvariant` | `Spec => []WireInv` |
| `HandledInOrder` | `Spec => []InOrder` of Wire |
| `JamNeverEnds` | `Spec => JamIsForever` |
| `RoomWhileFree` | insertion fails on a full map only |
| `InsertedIsFound` | a key whose home is free is found after insertion |
| `FoundForGood` | what is found stays found, with its value |
| `DisplacedForGood` | a key whose home is another's is never found |
| `WritesInPlace` | a write that succeeds has all bytes in place, and no write moves others |
| `ReadsWhatIsThere` | a read that succeeds has the piece as it was written |
| `StoreStands` | `StoreSpec => []StoreInv` |
| `PiecesAreOnDisk` | `StoreSpec => []HaveOnDisk` |
| `PiecesReadBack` | `StoreSpec => []ReadsBack` |
| `EncodedWhole` | what is written of a dictionary is one whole dictionary |
| `CutDoesNotLoad` | no part of a whole file loads |
| `ClientIsSound` | `Spec => []ResumeInv` |
| `CutFileIsRefused` | `Spec => []CutIsRefused` |
| `LayoutIsSound` | `Spec => []LayoutSound` |
| `ItemsComeBack` | what is decoded from a sorted item is encoded as the same item |
| `FileComesBack` | `bencoding_encode` undoes `bencoding_decode` on sorted files |
| `InfohashIsOfFile` | `Spec => []InfohashOfFile` |
| `FileIsRestored` | a root with a state, encoded and decoded, is that root with a state that has the same bitfield |
| `ResumeImplementsStore` | `Spec /\ Plain(torrent_file) => ImplementsPieceStore` |
| `ResumedPiecesAreOnDisk` | `Spec /\ Plain(torrent_file) => [](HaveOnDisk /\ ReadsBack)` of Resume |

Assumptions: `LayoutAssumption` (what `metadata.c` validates, and that the last
piece is not empty), `DownloadAssumption`, `ConnectionsAssumption`,
`SendQueueAssumption`, `UploadAssumption`, `WireAssumption`, `RoomAssumption`, `HashMapAssumption`,
`FileMapAssumption`, `PieceStoreAssumption`, `BencodingAssumption`, `MetadataAssumption`,
`StatePersistAssumption`, `StateOrderAssumption`, which says how the keys of the state are
ordered by `strcmp`, and that three levels can be decoded, `ResumeAssumption`,
`LayoutsAssumption`, which says that `Layouts` has what the torrent files are loaded
with, `FilesAssumption`, which says that the torrent files consist of tokens, and `CuttingAssumption`, which says how those that
are called sorted are made up, and that what they have under `info` is their info part.
TLC evaluates them in the runs.

## 6. Only model-checked

* Liveness, which the prover cannot treat: `NoPieceStuck`, `DownloadCompletes`,
  `UnchokedWhenFew`, `AnswersGoOn`, `Flushed`, `Dialled`, `Delivered`.
* `SavedIsRestored` and `FailsOnlyWhenFull`, which are not true for every value of
  the constants: with other hashes or smaller dictionaries one of the four keys of
  the state is displaced (`DisplacedForGood`), is not found, and is inserted again at
  each save; and the counts that saves leave behind do that to it some day with the
  real hashes (section 3).  TLC checks them with the hashes of djb2.
* `ImplementsPieceStore` for a torrent file that is not `Plain`, of which the instance
  has one, whose keys are not in order.
* The five statements that do not hold: a counterexample is all there is to show.

## 7. Not modelled

* Failing allocations, and the paths behind them: among them a request without
  its buffer (`src/requester.c:96`) and a peer that stays listed with its socket
  closed (`src/handshake.c:58`).
* Malformed messages beyond the fact that the peer is closed.
* Bytes: hashing, byte order, message layout, how numbers and lengths are spelled.
* Paths and directories, and with them `src/fs.c:173`; the result of `fclose`,
  so that what was written is on disk when `rw_for_file` returns.
* The HTTP exchange with the tracker and its error paths (`src/tracker.c:68`,
  `src/tracker.c:105`), URIs, logging, `calc_metrics`, type definitions, and of
  the test programs all but the client of `Resume`.
* That a lost connection is noticed (`src/stream.c:18`): `recv` returning 0 or -1
  counts as "no message yet".
* How many peers are unchoked at once over several calls (`src/choke.c:64`).
* A connection whose descriptor is lost in `dsock.c` or `src/server.c:40` is
  modelled as a number that is taken for good; several addresses for a name are
  not.
* A key without a value in the middle of a dictionary (`src/bencoding_decode.c:77`):
  the instance has one at the end.

## 8. Plan

Done: `Download`, `SendQueue`, `Upload`, `Connections`, then `HashMap`,
`Bencoding`, `Metadata`, `StatePersist`, `FileMap` and `PieceStore`, composed in `Resume`, and
`Wire`, with the proofs of section 5.  What is left, in this order:

1. `Session`: the whole loop body of `manage_torrent`, `Download` and `Upload`
   together, with the connections.  Today each has its own copy of the loop.
2. `SavedIsRestored` from an assumption on the hashes and on the number of saves.
3. The HTTP exchange of the tracker, with its descriptor.

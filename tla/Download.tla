------------------------------ MODULE Download ------------------------------
(***************************************************************************)
(* The receiving half of the piece exchange: which pieces are requested    *)
(* from whom, what happens to the blocks that come back, and what a choke, *)
(* a close or a failed send does to requests that are still out.           *)
(*                                                                         *)
(* The library has one thread.  The client calls manage_torrent over and   *)
(* over; a call is a pass of up to three loops over the active peers:      *)
(* interest_update, send_requests, and the loop that reads one message     *)
(* from each peer.  pc says which loop runs, it which peer's turn it is.   *)
(* The body of a loop is one step.                                         *)
(*                                                                         *)
(* Whether a send succeeds, what a peer sends and when, and whether a disk *)
(* write works is the environment's choice; Faults bounds it.              *)
(***************************************************************************)
EXTENDS PieceLayout

CONSTANTS
  Peers,            \* the entries of torrent->peer_map
  None,             \* a null cursor
  MaxSentRequests,  \* MAX_SENT_REQUESTS
  CountModulus,     \* 2^64: the unsigned request counters wrap here
  Faults,           \* what may go wrong, a subset of FaultKinds
  MaxLate           \* bound on the requests that outlive a choke, see RecvChoke

\* send: a send on a socket fails.  drop: a connection is closed for a reason
\* outside this module.  corrupt: a block has wrong bytes.  io: file input or
\* output fails.
FaultKinds == {"send", "drop", "corrupt", "io"}

ASSUME DownloadAssumption ==
  /\ None \notin Peers
  /\ MaxSentRequests \in Nat \ {0}
  /\ CountModulus \in Nat /\ CountModulus > MaxSentRequests
  /\ \A i \in Pieces : MaxSentRequests * 2 + BlockCount(i) <= CountModulus
  /\ Faults \subseteq FaultKinds
  /\ MaxLate \in Nat /\ MaxLate + MaxSentRequests <= CountModulus

VARIABLES
  bitfield,        \* pieces we have verified and written
  downloaded,      \* bytes counted as downloaded
  in_piece_buf,    \* pieces i with in_piece_buf_map[i] != 0
  block_data,      \* for each buffer, the begins of the blocks it holds intact
  active           \* peers on torrent->active_peers

VARIABLES          \* of each peer
  peer_bitfield,   \* pieces it says it has
  they_choked,     \* it does not answer our requests
  we_interested,   \* the interest we last told it
  out_piece_requests,       \* our requests to it, oldest first
  sent_request_count,       \* how many of them were sent
  total_out_request_count   \* how many there are

VARIABLES          \* of the manage_torrent pass
  pc,              \* the loop that runs, "idle" between calls
  it,              \* the peer whose turn it is, None at the end of the list
  todo             \* peers further down the list

VARIABLES          \* history and environment
  wire,            \* requests each peer got from us and has not answered
  announced,       \* pieces each peer was told we have
  failed           \* buffers whose contents verify_hash or rw_piece refused

torrentVars == <<bitfield, downloaded, in_piece_buf, block_data, active>>
peerVars == <<peer_bitfield, they_choked, we_interested, out_piece_requests,
              sent_request_count, total_out_request_count>>
passVars == <<pc, it, todo>>
historyVars == <<wire, announced, failed>>
vars == <<torrentVars, peerVars, passVars, historyVars>>

Request == [index : Pieces, begin : Nat, sent : BOOLEAN]
Block   == [index : Pieces, begin : Nat]
Loops   == {"interest", "request", "peers"}

-----------------------------------------------------------------------------
(***************************************************************************)
(* Helpers                                                                 *)
(***************************************************************************)

Indexes(s) == { s[k].index : k \in 1 .. Len(s) }

\* Mutants: the pieces requested from anybody, and the pieces of the oldest
\* request of each peer only.
RequestedOfAnyone(C) == UNION { Indexes(out_piece_requests[p]) : p \in Peers }
RequestedFirst(C) ==
  { out_piece_requests[p][1].index :
      p \in { q \in C : out_piece_requests[q] # <<>> } }

\* Pieces with a request to some peer in C.
Requested(C) == UNION { Indexes(out_piece_requests[p]) : p \in C }

\* Mutant: a piece that is being fetched counts as interesting.
InterestingThoughBuffered(p) == peer_bitfield[p] \ bitfield

\* What bitfield_interest_index looks for: pieces p has, that we lack, and
\* that nobody is fetching.
Interesting(p) == peer_bitfield[p] \ (bitfield \cup in_piece_buf)

\* The requests queue_requests makes for piece i.
RequestsFor(i) ==
  [k \in 1 .. BlockCount(i) |->
     [index |-> i, begin |-> (k - 1) * RequestSize, sent |-> FALSE]]

\* Positions of the requests that ask for block b.
Matches(s, b) ==
  { k \in 1 .. Len(s) : s[k].index = b.index /\ s[k].begin = b.begin }

\* The list without the request for block b.  A list never holds two (see
\* RequestsUnique), so this is all of what piece_recv removes.
Without(s, b) ==
  IF Matches(s, b) = {} THEN s
  ELSE LET k == CHOOSE j \in Matches(s, b) : TRUE
       IN  SubSeq(s, 1, k - 1) \o SubSeq(s, k + 1, Len(s))

\* An unsigned counter steps down; below zero it wraps.
Decrement(n) == (n + CountModulus - 1) % CountModulus

\* The first request not yet sent, or the end of the list.
FirstUnsent(s) ==
  CHOOSE k \in 1 .. Len(s) + 1 :
    /\ k = Len(s) + 1 \/ ~ s[k].sent
    /\ \A j \in 1 .. k - 1 : s[j].sent


-----------------------------------------------------------------------------
(***************************************************************************)
(* The loops.  The code saves the next list node before the body runs.     *)
(* The order of the list is left open: any peer further down may be next.  *)
(***************************************************************************)

EnterLoop(loop, S) ==
  /\ pc' = loop
  /\ IF S = {} THEN it' = None /\ todo' = {}
     ELSE \E q \in S : it' = q /\ todo' = S \ {q}

Turn(loop, p) == pc = loop /\ it = p

\* To the saved next node, after a body that closed the peers in C.  Closing a
\* peer frees its node: when it was the saved one, the loop reads freed memory,
\* and nothing is promised from there on.
Advance(C) ==
  IF todo = {} THEN it' = None /\ UNCHANGED <<pc, todo>>
  ELSE \E q \in todo :
         IF q \in C THEN pc' = "crashed" /\ it' = None /\ todo' = {}
         ELSE it' = q /\ todo' = todo \ ({q} \cup C) /\ UNCHANGED pc

-----------------------------------------------------------------------------
(***************************************************************************)
(* What closing a peer does                                                *)
(***************************************************************************)

Reset(C, f, v) == [p \in Peers |-> IF p \in C THEN v ELSE f[p]]

\* peer_close of every peer in C, given the requests and counts of the peers
\* and what is on the wire at that point of the step.
PeerClose(C, out, sent, total, onwire) ==
  /\ active' = active \ C
  /\ peer_bitfield' = Reset(C, peer_bitfield, {})
  /\ they_choked' = Reset(C, they_choked, TRUE)
  /\ we_interested' = Reset(C, we_interested, FALSE)
  /\ out_piece_requests' = Reset(C, out, <<>>)
  /\ sent_request_count' = Reset(C, sent, 0)
  /\ total_out_request_count' = Reset(C, total, 0)
  /\ wire' = Reset(C, onwire, <<>>)

\* The buffers in kept stay; the others are freed and their contents gone.
KeepBuffers(kept, data, refused) ==
  /\ in_piece_buf' = kept
  /\ block_data' = [i \in Pieces |-> IF i \in kept THEN data[i] ELSE {}]
  /\ failed' = refused \cap kept

Close(C) ==
  /\ PeerClose(C, out_piece_requests, sent_request_count,
               total_out_request_count, wire)
  /\ KeepBuffers(in_piece_buf \ Requested(C), block_data, failed)
  /\ announced' = Reset(C, announced, {})
  /\ UNCHANGED <<bitfield, downloaded>>


-----------------------------------------------------------------------------
(***************************************************************************)
(* Between passes, and the start and the end of each loop                  *)
(***************************************************************************)

\* A handshake, dialled or accepted, puts the peer on the list; our bitfield is
\* the first message it gets.  (When sending that fails the peer is closed
\* again, and nothing here has changed.)
InsertActivePeer(p) ==
  /\ pc = "idle" /\ p \notin active
  /\ active' = active \cup {p}
  /\ they_choked' = [they_choked EXCEPT ![p] = TRUE]
  /\ announced' = [announced EXCEPT ![p] = bitfield]
  /\ UNCHANGED <<bitfield, downloaded, in_piece_buf, block_data,
                 peer_bitfield, we_interested, out_piece_requests,
                 sent_request_count, total_out_request_count,
                 passVars, wire, failed>>

\* manage_torrent is called, and REQUESTER_INTERVAL has passed.
BeginRequester ==
  /\ pc = "idle"
  /\ EnterLoop("interest", active)
  /\ UNCHANGED <<torrentVars, peerVars, historyVars>>

\* Mutant: the head of the list is read before interval_tasks.
EnterPeersEarly(C) ==
  /\ C # {} => "drop" \in Faults
  /\ Close(C)
  /\ EnterLoop("peers", active)

\* choke_update closes the peers C that it fails to tell; then the messages.
EnterPeers(C) ==
  /\ C # {} => "drop" \in Faults
  /\ Close(C)
  /\ EnterLoop("peers", active \ C)

\* manage_torrent is called earlier than that.
BeginPeers == pc = "idle" /\ \E C \in SUBSET active : EnterPeers(C)

EndInterest ==
  /\ Turn("interest", None)
  /\ EnterLoop("request", active)
  /\ UNCHANGED <<torrentVars, peerVars, historyVars>>

EndRequest ==
  Turn("request", None) /\ \E C \in SUBSET active : EnterPeers(C)

\* manage_torrent returns.
Return == pc' = "idle" /\ it' = None /\ todo' = {}

EndPeers ==
  /\ Turn("peers", None)
  /\ Return
  /\ UNCHANGED <<torrentVars, peerVars, historyVars>>

-----------------------------------------------------------------------------
(***************************************************************************)
(* interest_update                                                         *)
(***************************************************************************)

\* Mutant: requests that are still out are forgotten.
LosesInterestEarly(p) == Interesting(p) = {} /\ we_interested[p]

LosesInterest(p) ==
  Interesting(p) = {} /\ we_interested[p] /\ out_piece_requests[p] = <<>>
GainsInterest(p) == Interesting(p) # {} /\ ~ we_interested[p]

UpdateInterest(p) ==
  /\ Turn("interest", p)
  /\ we_interested' = [we_interested EXCEPT ![p] =
                         (@ \/ GainsInterest(p)) /\ ~ LosesInterest(p)]
  /\ Advance({})
  /\ UNCHANGED <<torrentVars, peer_bitfield, they_choked, out_piece_requests,
                 sent_request_count, total_out_request_count, historyVars>>

FailInterest(p) ==
  /\ Turn("interest", p) /\ "send" \in Faults
  /\ GainsInterest(p) \/ LosesInterest(p)
  /\ Close({p}) /\ Advance({})

-----------------------------------------------------------------------------
(***************************************************************************)
(* send_requests                                                           *)
(***************************************************************************)

SkipChoked(p) ==
  /\ Turn("request", p) /\ they_choked[p]
  /\ Advance({})
  /\ UNCHANGED <<torrentVars, peerVars, historyVars>>

QueueFull(p) == total_out_request_count[p] >= MaxSentRequests * 2

\* One activation of queue_requests; the recursive call is the next step.
QueueRequests(p, i) ==
  /\ Turn("request", p) /\ ~ they_choked[p]
  /\ ~ QueueFull(p) /\ i \in Interesting(p)
  /\ out_piece_requests' =
       [out_piece_requests EXCEPT ![p] = @ \o RequestsFor(i)]
  /\ total_out_request_count' =
       [total_out_request_count EXCEPT
          ![p] = (@ + BlockCount(i)) % CountModulus]
  /\ in_piece_buf' = in_piece_buf \cup {i}
  /\ UNCHANGED <<bitfield, downloaded, block_data, active, peer_bitfield,
                 they_choked, we_interested, sent_request_count,
                 passVars, historyVars>>

\* queue_requests has nothing more to do and returns through its activations.
Queued(p) ==
  /\ Turn("request", p) /\ ~ they_choked[p]
  /\ QueueFull(p) \/ Interesting(p) = {}

\* How many requests the second loop of send_requests gets to send.
SendCount(p) ==
  LET unsent == Len(out_piece_requests[p]) + 1 - FirstUnsent(out_piece_requests[p])
      room   == IF sent_request_count[p] < MaxSentRequests
                THEN MaxSentRequests - sent_request_count[p] ELSE 0
  IN  IF unsent < room THEN unsent ELSE room

\* list with the n requests from its first unsent one on marked as sent.
MarkSent(s, n) ==
  [k \in 1 .. Len(s) |->
     [s[k] EXCEPT !.sent = @ \/ k \in FirstUnsent(s) .. FirstUnsent(s) + n - 1]]

SendRequests(p) ==
  LET s == out_piece_requests[p]
      n == SendCount(p)
      f == FirstUnsent(s)
  IN  /\ Queued(p)
      /\ out_piece_requests' = [out_piece_requests EXCEPT ![p] = MarkSent(s, n)]
      /\ sent_request_count' = [sent_request_count EXCEPT ![p] = @ + n]
      /\ wire' = [wire EXCEPT ![p] = @ \o
           [k \in 1 .. n |-> [index |-> s[f + k - 1].index,
                              begin |-> s[f + k - 1].begin]]]
      /\ Advance({})
      /\ UNCHANGED <<torrentVars, peer_bitfield, they_choked, we_interested,
                     total_out_request_count, announced, failed>>

\* A send fails on the way: send_request closes the peer.
FailRequests(p) ==
  /\ Queued(p) /\ SendCount(p) > 0 /\ "send" \in Faults
  /\ Close({p}) /\ Advance({})


-----------------------------------------------------------------------------
(***************************************************************************)
(* The loop that reads one message from each peer                          *)
(***************************************************************************)

\* Nothing to read, a send buffer still full, or a message that is not about
\* our download.
NoMessage(p) ==
  /\ Turn("peers", p)
  /\ Advance({})
  /\ UNCHANGED <<torrentVars, peerVars, historyVars>>

\* A resend fails, or a message is malformed or forbidden.
DropPeer(p) ==
  /\ Turn("peers", p) /\ "drop" \in Faults
  /\ Close({p}) /\ Advance({})

\* pieces_send fails: manage_torrent returns 3 in the middle of the loop.  The
\* peer was closed if it was the send that failed, not if it was the disk.
AbortPass(p) ==
  /\ Turn("peers", p)
  /\ \/ "drop" \in Faults /\ Close({p})
     \/ "io" \in Faults /\ UNCHANGED <<torrentVars, peerVars, historyVars>>
  /\ Return

\* handle_choke.  The peer forgets the requests it had received.  The newest ones
\* may be under way to it still: it receives them later, perhaps after it has
\* unchoked us again, and answers them.  MaxLate bounds their number.
RecvChoke(p) ==
  /\ Turn("peers", p)
  /\ they_choked' = [they_choked EXCEPT ![p] = TRUE]
  /\ out_piece_requests' = [out_piece_requests EXCEPT ![p] = <<>>]
  /\ sent_request_count' = [sent_request_count EXCEPT ![p] = 0]
  /\ total_out_request_count' = [total_out_request_count EXCEPT ![p] = 0]
  /\ KeepBuffers(in_piece_buf \ Requested({p}), block_data, failed)
  /\ \E k \in 0 .. Len(wire[p]) :
       /\ Len(wire[p]) - k <= MaxLate
       /\ wire' = [wire EXCEPT ![p] = SubSeq(@, k + 1, Len(@))]
  /\ Advance({})
  /\ UNCHANGED <<bitfield, downloaded, active, peer_bitfield, we_interested,
                 announced>>

RecvUnchoke(p) ==
  /\ Turn("peers", p)
  /\ they_choked' = [they_choked EXCEPT ![p] = FALSE]
  /\ Advance({})
  /\ UNCHANGED <<torrentVars, peer_bitfield, we_interested,
                 out_piece_requests, sent_request_count,
                 total_out_request_count, historyVars>>

RecvHave(p, i) ==
  /\ Turn("peers", p)
  /\ peer_bitfield' = [peer_bitfield EXCEPT ![p] = @ \cup {i}]
  /\ Advance({})
  /\ UNCHANGED <<torrentVars, they_choked, we_interested, out_piece_requests,
                 sent_request_count, total_out_request_count, historyVars>>

RecvBitfield(p, S) ==
  /\ Turn("peers", p)
  /\ peer_bitfield' = [peer_bitfield EXCEPT ![p] = S]
  /\ Advance({})
  /\ UNCHANGED <<torrentVars, they_choked, we_interested, out_piece_requests,
                 sent_request_count, total_out_request_count, historyVars>>

-----------------------------------------------------------------------------
(***************************************************************************)
(* A block arrives: handle_piece, piece_recv, piece_completed, send_have   *)
(***************************************************************************)

\* block_data once block b has overwritten its place in the buffer.
WithBlock(b, intact) ==
  [block_data EXCEPT ![b.index] =
     IF intact THEN @ \cup {b.begin} ELSE @ \ {b.begin}]

\* Mutant: the counters are not stepped.
CountKept(count, p, b) == count

\* piece_recv strikes the request for b off p's list and steps both counters.
OutAfter(p, b) ==
  [out_piece_requests EXCEPT ![p] = Without(@, b)]
CountAfter(count, p, b) ==
  IF Matches(out_piece_requests[p], b) = {} THEN count
  ELSE [count EXCEPT ![p] = Decrement(@)]

\* piece_recv looks only at p's own list to tell whether b was the last block.
LastBlock(p, b) == b.index \notin Indexes(Without(out_piece_requests[p], b))

\* The peers in C are closed; every other one loses b from its list and from
\* the wire, if it is p.
AfterBlock(C, p, b, onwire) ==
  PeerClose(C, OutAfter(p, b), CountAfter(sent_request_count, p, b),
            CountAfter(total_out_request_count, p, b), onwire)

\* No buffer: the block was not requested, or no longer.  The peer is closed.
RefuseBlock(p, b) ==
  /\ b.index \notin in_piece_buf
  /\ Close({p}) /\ Advance({})

StoreBlock(p, b, intact, onwire) ==
  /\ b.index \in in_piece_buf /\ ~ LastBlock(p, b)
  /\ AfterBlock({}, p, b, onwire)
  /\ KeepBuffers(in_piece_buf, WithBlock(b, intact), failed)
  /\ Advance({})
  /\ UNCHANGED <<bitfield, downloaded, announced>>

\* Mutant: the buffer of the completed piece is kept.
BuffersWithCompleted(C, p, b) ==
  in_piece_buf \ UNION { Indexes(OutAfter(p, b)[q]) : q \in C }

\* The buffers left when block b of p completed its piece and the peers in C
\* are closed.
BuffersAfter(C, p, b) ==
  in_piece_buf
    \ ({b.index} \cup UNION { Indexes(OutAfter(p, b)[q]) : q \in C })

\* Mutant: only the peers further down the list are told.
TellHaveBelow(C, i) ==
  announced' = [q \in Peers |->
                  IF q \in C THEN {}
                  ELSE IF q \in todo THEN announced[q] \cup {i}
                  ELSE announced[q]]

\* send_have to every peer; it fails for those in C.
TellHave(C, i) ==
  announced' = [q \in Peers |->
                  IF q \in C THEN {}
                  ELSE IF q \in active THEN announced[q] \cup {i}
                  ELSE announced[q]]

\* verify_hash accepts the buffer, rw_piece writes it, and everybody is told;
\* telling the peers in C fails.
CompletePiece(p, b, intact, onwire) ==
  /\ b.index \in in_piece_buf /\ LastBlock(p, b)
  /\ Begins(b.index) \subseteq WithBlock(b, intact)[b.index]
  /\ bitfield' = bitfield \cup {b.index}
  /\ downloaded' = downloaded + calc_piece_length(b.index)
  /\ \E C \in SUBSET active :
       /\ C # {} => "send" \in Faults
       /\ AfterBlock(C, p, b, onwire)
       /\ KeepBuffers(BuffersAfter(C, p, b), block_data, failed)
       /\ TellHave(C, b.index)
       /\ Advance(C)

\* verify_hash or rw_piece refuses the buffer, and the peer is closed.  Its list
\* no longer names the piece, so peer_close does not free the buffer.
FailPiece(p, b, intact, onwire) ==
  /\ b.index \in in_piece_buf /\ LastBlock(p, b)
  /\ \/ ~ (Begins(b.index) \subseteq WithBlock(b, intact)[b.index])
     \/ "io" \in Faults
  /\ AfterBlock({p}, p, b, onwire)
  /\ KeepBuffers(in_piece_buf \ Indexes(OutAfter(p, b)[p]),
                 WithBlock(b, intact), failed \cup {b.index})
  /\ announced' = Reset({p}, announced, {})
  /\ Advance({})
  /\ UNCHANGED <<bitfield, downloaded>>

\* The peer answers one of the requests it has, in any order.  It answers none
\* while it chokes us.
RecvBlock(p) ==
  /\ Turn("peers", p) /\ ~ they_choked[p]
  /\ \E k \in 1 .. Len(wire[p]), intact \in BOOLEAN :
       LET b == wire[p][k]
           onwire == [wire EXCEPT ![p] =
                        SubSeq(@, 1, k - 1) \o SubSeq(@, k + 1, Len(@))]
       IN  /\ ~ intact => "corrupt" \in Faults
           /\ \/ RefuseBlock(p, b)
              \/ StoreBlock(p, b, intact, onwire)
              \/ CompletePiece(p, b, intact, onwire)
              \/ FailPiece(p, b, intact, onwire)

-----------------------------------------------------------------------------
(***************************************************************************)
(* The specification                                                       *)
(***************************************************************************)

\* The torrent is new, or resumed with what an earlier run of the program saved.
\* peer_get_or_create fills a new entry with zeros.
Init ==
  /\ bitfield \in SUBSET Pieces /\ downloaded = BytesIn(bitfield)
  /\ in_piece_buf = {} /\ block_data = [i \in Pieces |-> {}]
  /\ active = {}
  /\ peer_bitfield = [p \in Peers |-> {}]
  /\ they_choked = [p \in Peers |-> FALSE]
  /\ we_interested = [p \in Peers |-> FALSE]
  /\ out_piece_requests = [p \in Peers |-> <<>>]
  /\ sent_request_count = [p \in Peers |-> 0]
  /\ total_out_request_count = [p \in Peers |-> 0]
  /\ pc = "idle" /\ it = None /\ todo = {}
  /\ wire = [p \in Peers |-> <<>>]
  /\ announced = [p \in Peers |-> {}]
  /\ failed = {}

InterestStep == \E p \in Peers : UpdateInterest(p) \/ FailInterest(p)

RequestStep == \E p \in Peers :
  \/ SkipChoked(p) \/ SendRequests(p) \/ FailRequests(p)
  \/ \E i \in Pieces : QueueRequests(p, i)

PeersStep == \E p \in Peers :
  \/ NoMessage(p) \/ DropPeer(p) \/ AbortPass(p)
  \/ RecvChoke(p) \/ RecvUnchoke(p) \/ RecvBlock(p)
  \/ \E i \in Pieces : RecvHave(p, i)
  \/ \E S \in SUBSET Pieces : RecvBitfield(p, S)

\* The steps a call of manage_torrent takes once it has begun.
PassStep == InterestStep \/ RequestStep \/ PeersStep
            \/ EndInterest \/ EndRequest \/ EndPeers

Next == \/ PassStep \/ BeginRequester \/ BeginPeers
        \/ \E p \in Peers : InsertActivePeer(p)

Spec == Init /\ [][Next]_vars

(***************************************************************************)
(* The client calls manage_torrent again and again, also after a call that *)
(* was aborted; one that has begun runs to its end, REQUESTER_INTERVAL     *)
(* passes again and again, and a peer that has requests of ours and does   *)
(* not choke us answers one some day.                                      *)
(***************************************************************************)
Fairness ==
  /\ WF_vars(PassStep)
  /\ SF_vars(BeginRequester)
  /\ \A p \in Peers : SF_vars(RecvBlock(p))

FairSpec == Spec /\ Fairness


-----------------------------------------------------------------------------
(***************************************************************************)
(* Properties                                                              *)
(***************************************************************************)

\* Every variable of manage_torrent, the peers and the torrent has its type.
TypeOK ==
  /\ bitfield \subseteq Pieces /\ downloaded \in Nat
  /\ in_piece_buf \subseteq Pieces /\ failed \subseteq Pieces
  /\ block_data \in [Pieces -> SUBSET Nat]
  /\ active \subseteq Peers
  /\ peer_bitfield \in [Peers -> SUBSET Pieces]
  /\ they_choked \in [Peers -> BOOLEAN]
  /\ we_interested \in [Peers -> BOOLEAN]
  /\ out_piece_requests \in [Peers -> Seq(Request)]
  /\ sent_request_count \in [Peers -> 0 .. CountModulus - 1]
  /\ total_out_request_count \in [Peers -> 0 .. CountModulus - 1]
  /\ pc \in Loops \cup {"idle", "crashed"}
  /\ it \in Peers \cup {None}
  /\ todo \subseteq Peers
  /\ wire \in [Peers -> Seq(Block)]
  /\ announced \in [Peers -> SUBSET Pieces]

Outstanding(p) == Indexes(out_piece_requests[p])

\* A piece is requested from one peer at a time: queue_requests hands out only
\* pieces without a buffer, and a choke or a close frees the buffers of exactly
\* the requests it throws away.
SingleSource ==
  \A p, q \in Peers : p # q => Outstanding(p) \cap Outstanding(q) = {}

\* While a request is out there is a buffer for its block, or we have the piece
\* meanwhile: neither handle_choke nor peer_close of one peer takes the buffer
\* that another peer's blocks go to.
OwnedBuffered == \A p \in Peers : Outstanding(p) \subseteq in_piece_buf \cup bitfield

\* A piece that was verified and written has no buffer, so it is never requested
\* again, never written again and never counted twice.
HaveUnbuffered == bitfield \cap in_piece_buf = {}

\* A buffer that no request refers to keeps its piece from being requested for
\* good, since bitfield_interest_index skips it.  The only way to get one is a
\* piece that verify_hash or rw_piece refused: no order of chokes, closes and
\* aborted passes strands one.
StrandedOnlyByFailure ==
  \A i \in in_piece_buf :
    (\A p \in Peers : i \notin Outstanding(p)) => i \in failed

\* torrent->downloaded is the number of bytes in the pieces we have, from which
\* start_peers and the tracker tell that the torrent is complete.
DownloadedExact == downloaded = BytesIn(bitfield)

\* Every connected peer was told of exactly the pieces we have, some by our
\* bitfield when it connected, the others by a have, whatever pass of the loop
\* the piece was completed in.
AnnouncedExact == \A p \in active : announced[p] = bitfield

\* A peer that is not connected has nothing of the last connection left: no
\* request, no count and no interest goes over to the next one.
InactiveClean ==
  \A p \in Peers \ active :
    /\ out_piece_requests[p] = <<>> /\ wire[p] = <<>>
    /\ sent_request_count[p] = 0 /\ total_out_request_count[p] = 0
    /\ ~ we_interested[p]

\* total_out_request_count, which queue_requests looks at, is the length of the
\* list, and the list overshoots twice MAX_SENT_REQUESTS by less than a piece.
QueueExact ==
  \A p \in Peers :
    /\ total_out_request_count[p] = Len(out_piece_requests[p])
    /\ \E i \in Pieces :
         total_out_request_count[p] < MaxSentRequests * 2 + BlockCount(i)

\* The list never asks for a block twice, though pieces are queued, taken back
\* by a choke and queued again: piece_recv strikes one request per block.
RequestsUnique ==
  \A p \in Peers :
    LET s == out_piece_requests[p]
    IN  \A j, k \in 1 .. Len(s) :
          s[j].index = s[k].index /\ s[j].begin = s[k].begin => j = k

Sent(s) == { k \in 1 .. Len(s) : s[k].sent }

\* The requests that were sent and not answered are the first ones of the list, which
\* is what the search of send_requests for the first unsent one relies on, and the peer
\* has them all, with what outlived a choke.  sent_request_count is their number, less
\* the late answers since the last choke that struck a request not sent yet: so it
\* lags, or wraps, by at most MaxLate, and so much is MAX_SENT_REQUESTS overshot.
\* Without late answers it is exact.
SentCountExact ==
  \A p \in Peers :
    \E late \in 0 .. MaxLate, sent \in 0 .. Len(out_piece_requests[p]) :
      /\ Sent(out_piece_requests[p]) = 1 .. sent
      /\ sent <= Len(wire[p]) /\ Len(wire[p]) + late <= sent + MaxLate
      /\ sent <= MaxSentRequests + late
      /\ sent_request_count[p] = IF late <= sent THEN sent - late
                                 ELSE sent + CountModulus - late

\* No peer is closed for a block we asked it for: what is on the wire still has
\* its buffer, as long as no answer outlives a choke.
AnswersWelcome ==
  MaxLate = 0 =>
    \A p \in Peers : \A k \in 1 .. Len(wire[p]) :
      wire[p][k].index \in in_piece_buf

\* We have told every peer with requests of ours that we are interested, unless
\* a failed send closed another peer between interest_update and send_requests.
InterestTold ==
  "send" \notin Faults =>
    \A p \in Peers : out_piece_requests[p] # <<>> => we_interested[p]

\* The peer whose turn it is and those that follow are connected and have their
\* turn once, whoever was closed meanwhile.
CursorOK ==
  it \in active \cup {None} /\ todo \subseteq active /\ it \notin todo

\* The list node that manage_torrent saved before the body of its loop is still
\* there after it, unless telling everybody of a piece failed.
CursorSafe == CursorOK /\ ("send" \notin Faults => pc # "crashed")

\* The inductive invariant behind the theorems of DownloadProofs.
IInv ==
  /\ TypeOK
  /\ SingleSource
  /\ OwnedBuffered
  /\ HaveUnbuffered
  /\ StrandedOnlyByFailure
  /\ InactiveClean
  /\ CursorOK

\* A verified piece is never lost, and the count moves only with the pieces.
HaveForGood ==
  [][ /\ bitfield \subseteq bitfield'
      /\ (downloaded' # downloaded) = (bitfield' # bitfield) ]_vars

\* Passes of manage_torrent are aborted only so often.
PassesFinish == <>[][~ \E p \in Peers : AbortPass(p)]_vars

\* A piece whose buffer was allocated is completed or given back, or was refused by
\* verify_hash or rw_piece: it is never in limbo for good, whoever chokes us or is
\* closed.  A connection that is lost without our noticing keeps its buffers; here
\* a peer that has requests of ours answers.
NoPieceStuck ==
  PassesFinish =>
    \A i \in Pieces : i \in in_piece_buf ~> i \notin in_piece_buf \/ i \in failed

\* Some peer that has everything stays connected and unchoked, the others stop
\* choking and unchoking, and no piece is refused: then the download completes,
\* whatever peers were closed and passes aborted on the way.  A connection that is
\* lost is not noticed, and would keep its requests; here every peer answers.
Seeds(p) == p \in active /\ peer_bitfield[p] = Pieces /\ ~ they_choked[p]
DownloadCompletes ==
  /\ PassesFinish /\ [](failed = {})
  /\ \E p \in Peers : <>[]Seeds(p)
  /\ \A p \in Peers : <>[]they_choked[p] \/ <>[](~ they_choked[p])
  => <>(bitfield = Pieces)

=============================================================================

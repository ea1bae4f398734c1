------------------------------- MODULE Upload -------------------------------
(***************************************************************************)
(* The giving half of the piece exchange: whom we choke, the requests that *)
(* come in, and the blocks that go out, one of them to each peer and pass  *)
(* of manage_torrent.                                                      *)
(*                                                                         *)
(* A peer here keeps to the protocol: it asks only while, for all it has   *)
(* read from us, we do not choke it.  What it sends reaches us in order,   *)
(* some time later; what we tell it, it reads some time later.  Disk and   *)
(* connections may fail as Faults allows.                                  *)
(***************************************************************************)
EXTENDS Integers, Sequences, FiniteSets

CONSTANTS
  Peers,             \* the entries of torrent->peer_map
  None,              \* a null cursor, a null buffer
  Pieces,            \* the pieces peers ask for
  FirstPiece,        \* piece 0, which a new peer's curr_in_piece_index names
  MAX_UPLOAD_PEERS,
  Faults,            \* what may go wrong, a subset of FaultKinds
  MaxRequests        \* bound on what a peer has sent and we have not answered

\* drop: a connection breaks.  io: a piece cannot be read, or does not verify.
FaultKinds == {"drop", "io"}

ASSUME UploadAssumption ==
  /\ None \notin Peers
  /\ FirstPiece \in Pieces
  /\ MAX_UPLOAD_PEERS \in Nat \ {0}
  /\ Faults \subseteq FaultKinds
  /\ MaxRequests \in Nat
  /\ IsFiniteSet(Peers)

VARIABLES               \* of each peer
  active,               \* the peers on torrent->active_peers
  we_choked,
  they_interested,
  in_piece_requests,    \* the pieces of its requests, oldest first
  total_in_request_count,
  curr_in_piece,        \* None, or which piece was read and whether it verified
  curr_in_piece_index

VARIABLES               \* of the manage_torrent pass
  pc,                   \* "idle", or the part of the loop body that is next
  it,                   \* the peer whose turn it is, None at the end of the list
  todo                  \* peers further down the list

VARIABLES               \* the peers' side, and history
  told,                 \* whether the peer was last told that it is choked
  seen_choked,          \* what it has read of that
  inbox,                \* messages of the peer that we have not read
  misserved             \* what was wrong with a block that was sent

chokeVars == <<we_choked, told>>
requestVars == <<in_piece_requests, total_in_request_count>>
bufferVars == <<curr_in_piece, curr_in_piece_index>>
passVars == <<pc, it, todo>>
wireVars == <<they_interested, seen_choked, inbox>>
vars == <<chokeVars, requestVars, bufferVars, active, passVars, wireVars, misserved>>

Interest(on) == [type |-> "interest", on |-> on]
Ask(i) == [type |-> "request", index |-> i]
Messages == { Interest(on) : on \in BOOLEAN } \cup { Ask(i) : i \in Pieces }

Buffer == [of : Pieces, verified : BOOLEAN]

-----------------------------------------------------------------------------
(***************************************************************************)
(* The loop over the peers, and closing them                               *)
(***************************************************************************)

Reset(C, f, v) == [p \in Peers |-> IF p \in C THEN v ELSE f[p]]

EnterLoop(S) ==
  IF S = {} THEN pc' = "idle" /\ it' = None /\ todo' = {}
  ELSE \E q \in S : pc' = "serve" /\ it' = q /\ todo' = S \ {q}

Turn(part, p) == pc = part /\ it = p

\* Mutant: a turn ends the pass.
AdvanceReturns == EnterLoop({})

\* The body closes nobody but the peer whose turn it is.
Advance == EnterLoop(todo)
Return == EnterLoop({})

\* Mutant: requests and the buffer outlive a choke.
ForgetNothing(C) == UNCHANGED <<requestVars, curr_in_piece>>

\* The requests of the peers in C, and their buffers, are freed.
Forget(C) ==
  /\ in_piece_requests' = Reset(C, in_piece_requests, <<>>)
  /\ total_in_request_count' = Reset(C, total_in_request_count, 0)
  /\ curr_in_piece' = Reset(C, curr_in_piece, None)

\* What peer_close does to the connection of the peers in C, other than Forget.
Disconnect(C) ==
  /\ active' = active \ C
  /\ they_interested' = Reset(C, they_interested, FALSE)
  /\ seen_choked' = Reset(C, seen_choked, TRUE)
  /\ inbox' = Reset(C, inbox, <<>>)

\* peer_close of p.
Close(p) ==
  /\ Forget({p}) /\ Disconnect({p})
  /\ we_choked' = Reset({p}, we_choked, TRUE)
  /\ told' = Reset({p}, told, TRUE)

-----------------------------------------------------------------------------
(***************************************************************************)
(* choke_update                                                            *)
(***************************************************************************)

Interested == { p \in active : they_interested[p] }

\* The first loop chokes these.
NotInterested == { p \in active \ Interested : ~ we_choked[p] }

\* Mutant: whether there are too many is not looked at.
MayChokeAny(p) == TRUE

\* should_choke is rand() < threshold, when more peers are interested than
\* MAX_UPLOAD_PEERS.
MayChoke(p) == Cardinality(Interested) > MAX_UPLOAD_PEERS

\* Mutant: the peers are choked without a word.
ToldWithoutChokes(choked, unchoked) == Reset(unchoked, told, FALSE)

\* send_choked_status.
ToldAfter(choked, unchoked) ==
  Reset(choked, Reset(unchoked, told, FALSE), TRUE)

(***************************************************************************)
(* The second loop visits the peers V, all of them or until it has         *)
(* unchoked MAX_UPLOAD_PEERS; rand picks S of them.  The peers in F cannot *)
(* be told and are closed.                                                 *)
(***************************************************************************)
ChokeUpdate ==
  \E V, S, F \in SUBSET active :
    LET visited  == V \ (F \cap NotInterested)
        unchoked == { p \in visited \ S : they_interested[p] /\ we_choked[p] }
        choked   == NotInterested
                      \cup { p \in visited \cap S : ~ we_choked[p] /\ they_interested[p] }
    IN  /\ \A p \in S : p \in V /\ MayChoke(p)
        /\ Cardinality(unchoked) <= MAX_UPLOAD_PEERS
        /\ V = active \/ Cardinality(unchoked) = MAX_UPLOAD_PEERS
        /\ F \subseteq choked \cup unchoked
        /\ F # {} => "drop" \in Faults
        /\ we_choked' = Reset(choked \cup F, Reset(unchoked, we_choked, FALSE), TRUE)
        /\ told' = Reset(F, ToldAfter(choked, unchoked), TRUE)
        /\ Forget(choked \cup F)
        /\ Disconnect(F)
        /\ EnterLoop(active \ F)
        /\ UNCHANGED <<curr_in_piece_index, misserved>>

\* manage_torrent is called, CHOKE_INTERVAL has passed.
BeginChoke == pc = "idle" /\ active # {} /\ ChokeUpdate

\* manage_torrent is called earlier than that.
BeginPass ==
  /\ pc = "idle" /\ active # {}
  /\ EnterLoop(active)
  /\ UNCHANGED <<chokeVars, requestVars, bufferVars, active, wireVars, misserved>>

-----------------------------------------------------------------------------
(***************************************************************************)
(* pieces_send, the first half of a turn                                   *)
(***************************************************************************)

\* What was queued earlier for the peer is not sent yet: its turn is over.
SkipTurn(p) ==
  /\ Turn("serve", p)
  /\ Advance
  /\ UNCHANGED <<chokeVars, requestVars, bufferVars, active, wireVars, misserved>>

NothingToServe(p) ==
  /\ Turn("serve", p) /\ in_piece_requests[p] = <<>>
  /\ pc' = "read"
  /\ UNCHANGED <<it, todo, chokeVars, requestVars, bufferVars, active, wireVars,
                 misserved>>

\* Mutant: a buffer that is there is taken to be the one that is needed.
MustLoadIfNone(p) == curr_in_piece[p] = None

\* The buffer is not that of the request that is next.
MustLoad(p) ==
  \/ curr_in_piece[p] = None
  \/ curr_in_piece_index[p] # Head(in_piece_requests[p])

\* The buffer the block is taken from.
Source(p) ==
  IF MustLoad(p) THEN [of |-> Head(in_piece_requests[p]), verified |-> TRUE]
  ELSE curr_in_piece[p]

Flaws(p) ==
  (IF Source(p).of # Head(in_piece_requests[p]) THEN {"piece"} ELSE {})
    \cup (IF Source(p).verified THEN {} ELSE {"unverified"})

\* Mutant: the count is only ever stepped up.
CountKept(p) == total_in_request_count

CountAfterServe(p) == [total_in_request_count EXCEPT ![p] = @ - 1]

\* One block is sent.
ServeBlock(p) ==
  /\ Turn("serve", p) /\ in_piece_requests[p] # <<>>
  /\ curr_in_piece' = [curr_in_piece EXCEPT ![p] = Source(p)]
  /\ curr_in_piece_index' =
       [curr_in_piece_index EXCEPT ![p] = Head(in_piece_requests[p])]
  /\ in_piece_requests' = [in_piece_requests EXCEPT ![p] = Tail(@)]
  /\ total_in_request_count' = CountAfterServe(p)
  /\ misserved' = misserved \cup Flaws(p)
  /\ pc' = "read"
  /\ UNCHANGED <<it, todo, chokeVars, active, wireVars>>

\* load_piece_data fails: the buffer has whatever was read, or could not be had;
\* its index does not change, and manage_torrent returns 3 in the middle of the
\* loop.
FailLoad(p) ==
  /\ Turn("serve", p) /\ in_piece_requests[p] # <<>> /\ MustLoad(p)
  /\ "io" \in Faults
  /\ \E b \in {None, [of |-> Head(in_piece_requests[p]), verified |-> FALSE]} :
       curr_in_piece' = [curr_in_piece EXCEPT ![p] = b]
  /\ Return
  /\ UNCHANGED <<chokeVars, requestVars, curr_in_piece_index, active, wireVars,
                 misserved>>

\* The block cannot be sent: the peer is closed, and manage_torrent returns 3.
FailServe(p) ==
  /\ Turn("serve", p) /\ in_piece_requests[p] # <<>>
  /\ "drop" \in Faults
  /\ Close(p)
  /\ curr_in_piece_index' =
       [curr_in_piece_index EXCEPT ![p] = Head(in_piece_requests[p])]
  /\ Return
  /\ UNCHANGED misserved

-----------------------------------------------------------------------------
(***************************************************************************)
(* One message is read, the second half of a turn                          *)
(***************************************************************************)

NoMessage(p) ==
  /\ Turn("read", p)
  /\ Advance
  /\ UNCHANGED <<chokeVars, requestVars, bufferVars, active, wireVars, misserved>>

\* The read finds the connection in no usable state.
DropPeer(p) ==
  /\ pc \in {"serve", "read"} /\ it = p
  /\ "drop" \in Faults
  /\ Close(p) /\ Advance
  /\ UNCHANGED <<curr_in_piece_index, misserved>>

RecvInterest(p, on) ==
  /\ Turn("read", p) /\ inbox[p] # <<>> /\ Head(inbox[p]) = Interest(on)
  /\ inbox' = [inbox EXCEPT ![p] = Tail(@)]
  /\ they_interested' = [they_interested EXCEPT ![p] = on]
  /\ Advance
  /\ UNCHANGED <<chokeVars, requestVars, bufferVars, active, seen_choked, misserved>>

\* handle_request queues the request.
RecvRequest(p, i) ==
  /\ Turn("read", p) /\ inbox[p] # <<>> /\ Head(inbox[p]) = Ask(i)
  /\ ~ we_choked[p]
  /\ inbox' = [inbox EXCEPT ![p] = Tail(@)]
  /\ in_piece_requests' = [in_piece_requests EXCEPT ![p] = Append(@, i)]
  /\ total_in_request_count' = [total_in_request_count EXCEPT ![p] = @ + 1]
  /\ Advance
  /\ UNCHANGED <<chokeVars, bufferVars, active, they_interested, seen_choked,
                 misserved>>

\* handle_request finds that we choke the peer: manage_torrent closes it as bad.
RecvRequestChoked(p, i) ==
  /\ Turn("read", p) /\ inbox[p] # <<>> /\ Head(inbox[p]) = Ask(i)
  /\ we_choked[p]
  /\ Close(p) /\ Advance
  /\ UNCHANGED <<curr_in_piece_index, misserved>>

-----------------------------------------------------------------------------
(***************************************************************************)
(* The peers                                                               *)
(***************************************************************************)

\* A handshake, dialled or accepted: insert_active_peer.
InsertActivePeer(p) ==
  /\ pc = "idle" /\ p \notin active
  /\ active' = active \cup {p}
  /\ we_choked' = [we_choked EXCEPT ![p] = TRUE]
  /\ UNCHANGED <<told, requestVars, bufferVars, passVars, wireVars, misserved>>

\* What the peer will have said of its interest once we have read it all.
SaidInterest(p) ==
  LET said == { k \in 1 .. Len(inbox[p]) : inbox[p][k].type = "interest" }
  IN  IF said = {} THEN they_interested[p]
      ELSE inbox[p][CHOOSE k \in said : \A j \in said : j <= k].on

Send(p, m) == inbox' = [inbox EXCEPT ![p] = Append(@, m)]

PeerSays(p) ==
  /\ p \in active
  /\ Len(inbox[p]) + Len(in_piece_requests[p]) < MaxRequests
  /\ \/ Send(p, Interest(~ SaidInterest(p)))
     \/ ~ seen_choked[p] /\ SaidInterest(p) /\ \E i \in Pieces : Send(p, Ask(i))
  /\ UNCHANGED <<chokeVars, requestVars, bufferVars, active, passVars,
                 they_interested, seen_choked, misserved>>

PeerReads(p) ==
  /\ p \in active /\ seen_choked[p] # told[p]
  /\ seen_choked' = [seen_choked EXCEPT ![p] = told[p]]
  /\ UNCHANGED <<chokeVars, requestVars, bufferVars, active, passVars,
                 they_interested, inbox, misserved>>

-----------------------------------------------------------------------------
(***************************************************************************)
(* The specification                                                       *)
(***************************************************************************)

\* peer_get_or_create fills a new entry with zeros.
Init ==
  /\ active = {}
  /\ we_choked = [p \in Peers |-> FALSE]
  /\ they_interested = [p \in Peers |-> FALSE]
  /\ in_piece_requests = [p \in Peers |-> <<>>]
  /\ total_in_request_count = [p \in Peers |-> 0]
  /\ curr_in_piece = [p \in Peers |-> None]
  /\ curr_in_piece_index = [p \in Peers |-> FirstPiece]
  /\ pc = "idle" /\ it = None /\ todo = {}
  /\ told = [p \in Peers |-> TRUE]
  /\ seen_choked = [p \in Peers |-> TRUE]
  /\ inbox = [p \in Peers |-> <<>>]
  /\ misserved = {}

\* A peer that stops the pass of manage_torrent.
Abort(p) == FailLoad(p) \/ FailServe(p)

Recv(p) ==
  \/ \E on \in BOOLEAN : RecvInterest(p, on)
  \/ \E i \in Pieces : RecvRequest(p, i) \/ RecvRequestChoked(p, i)

TurnStep ==
  \E p \in Peers :
    \/ SkipTurn(p) \/ NothingToServe(p) \/ ServeBlock(p) \/ Abort(p)
    \/ NoMessage(p) \/ DropPeer(p) \/ Recv(p)

Next ==
  \/ BeginChoke \/ BeginPass \/ TurnStep
  \/ \E p \in Peers : InsertActivePeer(p) \/ PeerSays(p) \/ PeerReads(p)

Spec == Init /\ [][Next]_vars

(***************************************************************************)
(* manage_torrent is called again and again and finishes its pass,         *)
(* CHOKE_INTERVAL passes again and again, what a peer sent is there to be  *)
(* read some day, and so is room for a block.                              *)
(***************************************************************************)
FairSpec ==
  /\ Spec
  /\ WF_vars(TurnStep) /\ SF_vars(BeginChoke)
  /\ \A p \in Peers : SF_vars(ServeBlock(p)) /\ SF_vars(Recv(p))

-----------------------------------------------------------------------------
(***************************************************************************)
(* Properties                                                              *)
(***************************************************************************)

\* Every variable has its type.
TypeOK ==
  /\ active \subseteq Peers
  /\ we_choked \in [Peers -> BOOLEAN] /\ they_interested \in [Peers -> BOOLEAN]
  /\ in_piece_requests \in [Peers -> Seq(Pieces)]
  /\ total_in_request_count \in [Peers -> Nat]
  /\ curr_in_piece \in [Peers -> Buffer \cup {None}]
  /\ curr_in_piece_index \in [Peers -> Pieces]
  /\ pc \in {"idle", "serve", "read"}
  /\ it \in Peers \cup {None} /\ todo \subseteq Peers
  /\ told \in [Peers -> BOOLEAN] /\ seen_choked \in [Peers -> BOOLEAN]
  /\ inbox \in [Peers -> Seq(Messages)]
  /\ misserved \subseteq {"piece", "unverified"}

\* Nothing is owed to a peer that we choke or that is gone: it has no request and
\* no buffer, so no block follows the choke, nor does one of an old connection
\* go out on the next one.
ChokedIdle ==
  \A p \in Peers :
    we_choked[p] \/ p \notin active =>
      in_piece_requests[p] = <<>> /\ curr_in_piece[p] = None

\* total_in_request_count is the number of requests on the list, over requests,
\* blocks, chokes, closes and aborted passes.
InCountExact ==
  \A p \in Peers : total_in_request_count[p] = Len(in_piece_requests[p])

\* What a connected peer was last told of its choke is what we act on, whichever
\* of the two loops of choke_update changed it.
ChokeTold == \A p \in active : told[p] = we_choked[p]

\* A block is taken from the piece it was asked from, though the index of the
\* buffer outlives the buffer, and a failed load leaves a buffer with the index of
\* the one before.
ServedRightPiece == "piece" \notin misserved

\* A peer that is gone takes itself to be choked when it comes back.
GoneTold == \A p \in Peers \ active : told[p]

\* A buffer holds the piece that the index names, or else the one that is asked for
\* next, which failed to load: then the index makes no difference.
BufferNamed ==
  \A p \in Peers :
    curr_in_piece[p] # None =>
      \/ curr_in_piece[p].of = curr_in_piece_index[p]
      \/ in_piece_requests[p] # <<>> /\ curr_in_piece[p].of = Head(in_piece_requests[p])

\* The peer whose turn it is and those that follow are connected.
CursorOK ==
  /\ it \in active \cup {None} /\ todo \subseteq active /\ it \notin todo

\* The inductive invariant behind the theorems of UploadProofs.
IInv ==
  /\ TypeOK /\ ChokedIdle /\ InCountExact /\ ChokeTold /\ GoneTold
  /\ BufferNamed /\ CursorOK /\ ServedRightPiece

\* Pieces are verified before their blocks are sent: "piece verification" is on the
\* list of things done.
ServedVerified == "unverified" \notin misserved

\* handle_request says of a request of a peer that we choke: "ignore".  Then a peer
\* that keeps to the protocol is never closed, unless its connection breaks.
CrossedRequestIgnored == [][ "drop" \notin Faults => active \subseteq active' ]_vars

\* A peer that stays interested while at most MAX_UPLOAD_PEERS are is unchoked some
\* day and stays so, though passes are aborted, if the client calls again.
FewInterested(p) ==
  /\ p \in active /\ they_interested[p]
  /\ Cardinality(Interested) <= MAX_UPLOAD_PEERS
UnchokedWhenFew ==
  \A p \in Peers : <>[]FewInterested(p) => <>[](~ we_choked[p])

\* As long as passes are not aborted, a peer with requests gets blocks: none waits
\* for good because of the others.
AnswersGoOn ==
  <>[][~ \E q \in Peers : Abort(q)]_vars =>
    \A p \in Peers :
      <>[](in_piece_requests[p] # <<>>) => []<><<ServeBlock(p)>>_vars

=============================================================================

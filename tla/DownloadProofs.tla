--------------------------- MODULE DownloadProofs ---------------------------
(***************************************************************************)
(* Proofs about Download, for every set of peers, every torrent, every     *)
(* bound and every choice of faults.                                       *)
(***************************************************************************)
EXTENDS Download, SequenceTheorems, WellFoundedInduction, FiniteSetTheorems, TLAPS

-----------------------------------------------------------------------------
(***************************************************************************)
(* The operators the model is built from                                   *)
(***************************************************************************)

\* Every piece has at least one byte, and so at least one block: a piece that is
\* queued puts a request on the list.
LEMMA BlockCountType ==
  ASSUME NEW i \in Pieces
  PROVE  /\ calc_piece_length(i) \in Nat \ {0}
         /\ BlockCount(i) \in Nat \ {0}
<1>1. calc_piece_length(i) \in Nat \ {0}
  BY LayoutAssumption DEF calc_piece_length, Pieces
<1>2. \A n \in Nat \ {0}, r \in Nat \ {0} : (n + r - 1) \div r \in Nat \ {0}
  <2> SUFFICES ASSUME NEW n \in Nat \ {0}, NEW r \in Nat \ {0}
               PROVE  (n + r - 1) \div r \in Nat \ {0}
    OBVIOUS
  <2> DEFINE q == (n + r - 1) \div r
  <2>1. q \in Int /\ n + r - 1 = r * q + ((n + r - 1) % r) /\ (n + r - 1) % r \in 0 .. r - 1
    BY SMT
  <2>2. r * q > 0
    BY <2>1, SMT
  <2>3. q > 0
    BY <2>1, <2>2, SMT
  <2> QED BY <2>1, <2>3
<1> QED BY <1>1, <1>2, LayoutAssumption DEF BlockCount

\* What queue_requests puts on the list for a piece: requests for that piece.
LEMMA RequestsForProperties ==
  ASSUME NEW i \in Pieces
  PROVE  /\ RequestsFor(i) \in Seq(Request)
         /\ Len(RequestsFor(i)) = BlockCount(i)
         /\ Indexes(RequestsFor(i)) = {i}
<1> DEFINE n == BlockCount(i)
<1>1. n \in Nat /\ n >= 1
  BY BlockCountType
<1>2. \A k \in 1 .. n : (k - 1) * RequestSize \in Nat
  BY <1>1, LayoutAssumption
<1>3. RequestsFor(i) \in [1 .. n -> Request]
  BY <1>2 DEF RequestsFor, Request
<1>4. RequestsFor(i) \in Seq(Request) /\ Len(RequestsFor(i)) = n
  BY <1>1, <1>3, SeqDef, LenProperties
<1>5. \A k \in 1 .. n : RequestsFor(i)[k].index = i
  BY DEF RequestsFor
<1> QED BY <1>1, <1>4, <1>5 DEF Indexes

LEMMA IndexesType ==
  ASSUME NEW s \in Seq(Request)
  PROVE  Indexes(s) \subseteq Pieces
<1>1. \A k \in 1 .. Len(s) : s[k] \in Request
  BY ElementOfSeq
<1>2. \A k \in 1 .. Len(s) : s[k].index \in Pieces
  BY <1>1 DEF Request
<1> QED BY <1>2 DEF Indexes

LEMMA IndexesConcat ==
  ASSUME NEW s \in Seq(Request), NEW t \in Seq(Request)
  PROVE  Indexes(s \o t) = Indexes(s) \cup Indexes(t)
<1>1. Indexes(s \o t) \subseteq Indexes(s) \cup Indexes(t)
  BY ConcatProperties DEF Indexes
<1>2. Indexes(s) \subseteq Indexes(s \o t)
  BY ConcatProperties DEF Indexes
<1>3. ASSUME NEW k \in 1 .. Len(t) PROVE t[k].index \in Indexes(s \o t)
  <2>1. Len(s) + k \in 1 .. Len(s) + Len(t) /\ ~ (Len(s) + k <= Len(s))
    OBVIOUS
  <2>2. (s \o t)[Len(s) + k] = t[k] /\ Len(s \o t) = Len(s) + Len(t)
    BY <2>1, ConcatProperties
  <2> QED BY <2>1, <2>2 DEF Indexes
<1> QED BY <1>1, <1>2, <1>3 DEF Indexes

\* Striking the request for a block from the list leaves every other request.
LEMMA WithoutProperties ==
  ASSUME NEW s \in Seq(Request), NEW b \in Block
  PROVE  /\ Without(s, b) \in Seq(Request)
         /\ Indexes(Without(s, b)) \subseteq Indexes(s)
         /\ Indexes(s) \ {b.index} \subseteq Indexes(Without(s, b))
<1>1. CASE Matches(s, b) = {}
  BY <1>1 DEF Without
<1>2. CASE Matches(s, b) # {}
  <2> DEFINE k == CHOOSE j \in Matches(s, b) : TRUE
             l == SubSeq(s, 1, k - 1)
             r == SubSeq(s, k + 1, Len(s))
  <2>1. k \in Matches(s, b)
    BY <1>2
  <2>2. k \in 1 .. Len(s) /\ s[k].index = b.index
    BY <2>1 DEF Matches
  <2> HIDE DEF k
  <2>3. /\ l \in Seq(Request) /\ Len(l) = k - 1
        /\ \A j \in 1 .. k - 1 : l[j] = s[j]
    <3>1. \A j \in 1 .. k - 1 : s[j] \in Request
      BY <2>2, ElementOfSeq
    <3> QED BY <2>2, <3>1, SubSeqProperties
  <2>4. /\ r \in Seq(Request) /\ Len(r) = Len(s) - k
        /\ \A j \in 1 .. Len(s) - k : r[j] = s[k + j]
    <3>1. \A j \in k + 1 .. Len(s) : s[j] \in Request
      BY <2>2, ElementOfSeq
    <3> QED BY <2>2, <3>1, SubSeqProperties
  <2>5. Without(s, b) = l \o r
    BY <1>2 DEF Without, k
  <2>6. Indexes(l \o r) = Indexes(l) \cup Indexes(r)
    BY <2>3, <2>4, IndexesConcat
  <2>7. Indexes(l) \subseteq Indexes(s)
    BY <2>2, <2>3 DEF Indexes
  <2>8. Indexes(r) \subseteq Indexes(s)
    <3>1. ASSUME NEW j \in 1 .. Len(s) - k PROVE r[j].index \in Indexes(s)
      BY <2>2, <2>4 DEF Indexes
    <3> QED BY <3>1, <2>4 DEF Indexes
  <2>9. ASSUME NEW j \in 1 .. Len(s), s[j].index # b.index
        PROVE  s[j].index \in Indexes(l) \cup Indexes(r)
    <3>1. CASE j < k
      <4>1. j \in 1 .. Len(l) /\ l[j] = s[j]
        BY <3>1, <2>2, <2>3
      <4> QED BY <4>1 DEF Indexes
    <3>2. CASE j > k
      <4>1. j - k \in 1 .. Len(r) /\ r[j - k] = s[j]
        BY <3>2, <2>2, <2>4
      <4> QED BY <4>1 DEF Indexes
    <3> QED BY <3>1, <3>2, <2>2, <2>9
  <2>10. Indexes(s) \ {b.index} \subseteq Indexes(l) \cup Indexes(r)
    BY <2>9 DEF Indexes
  <2>11. l \o r \in Seq(Request)
    BY <2>3, <2>4, ConcatProperties
  <2> HIDE DEF l, r
  <2> QED BY <2>5, <2>6, <2>7, <2>8, <2>10, <2>11
<1> QED BY <1>1, <1>2

\* The scan of send_requests stops at a request or at the end of the list.
LEMMA FirstUnsentType ==
  ASSUME NEW s \in Seq(Request)
  PROVE  FirstUnsent(s) \in 1 .. Len(s) + 1
<1> DEFINE T == { k \in 1 .. Len(s) + 1 : k = Len(s) + 1 \/ ~ s[k].sent }
<1>1. T \subseteq Nat /\ T # {}
  <2>1. Len(s) + 1 \in T
    OBVIOUS
  <2> QED BY <2>1
<1>2. PICK k \in T : \A y \in T : ~ (<<y, k>> \in OpToRel(<, Nat))
  <2> HIDE DEF T
  <2> QED BY <1>1, WFMin, NatLessThanWellFounded
<1>3. \A y \in T : ~ (y < k)
  BY <1>1, <1>2 DEF OpToRel
<1>4. \A j \in 1 .. k - 1 : s[j].sent
  <2> SUFFICES ASSUME NEW j \in 1 .. k - 1 PROVE s[j].sent
    OBVIOUS
  <2>1. k \in 1 .. Len(s) + 1
    OBVIOUS
  <2>2. j \in 1 .. Len(s) + 1 /\ j < k
    BY <2>1
  <2> QED BY <1>3, <2>2
<1> QED BY <1>4 DEF FirstUnsent

\* Marking requests as sent changes nothing else about the list.
LEMMA MarkSentProperties ==
  ASSUME NEW s \in Seq(Request), NEW n \in Nat
  PROVE  /\ MarkSent(s, n) \in Seq(Request)
         /\ Len(MarkSent(s, n)) = Len(s)
         /\ Indexes(MarkSent(s, n)) = Indexes(s)
<1>1. FirstUnsent(s) \in Int
  BY FirstUnsentType
<1>2. ASSUME NEW k \in 1 .. Len(s)
      PROVE  /\ MarkSent(s, n)[k] \in Request
             /\ MarkSent(s, n)[k].index = s[k].index
  <2> DEFINE d == k \in FirstUnsent(s) .. FirstUnsent(s) + n - 1
  <2>1. s[k] \in Request
    BY ElementOfSeq
  <2>2. MarkSent(s, n)[k] = [s[k] EXCEPT !.sent = @ \/ d]
    BY DEF MarkSent
  <2> HIDE DEF d
  <2> QED BY <2>1, <2>2, Zenon DEF Request
<1>3. MarkSent(s, n) \in [1 .. Len(s) -> Request]
  BY <1>2 DEF MarkSent
<1>4. MarkSent(s, n) \in Seq(Request) /\ Len(MarkSent(s, n)) = Len(s)
  BY <1>3, SeqDef, LenProperties
<1> QED BY <1>2, <1>4 DEF Indexes


-----------------------------------------------------------------------------
(***************************************************************************)
(* Who has a request for what, after the three kinds of step that take     *)
(* requests away                                                           *)
(***************************************************************************)

Owned == SingleSource /\ OwnedBuffered /\ HaveUnbuffered /\ StrandedOnlyByFailure

LEMMA OutstandingType ==
  ASSUME TypeOK, NEW p \in Peers
  PROVE  Outstanding(p) \subseteq Pieces
BY IndexesType DEF TypeOK, Outstanding

\* The peers in C lose all their requests, and the buffers go with them.
LEMMA DiscardOwned ==
  ASSUME Owned, NEW C \in SUBSET Peers,
         \A q \in C : out_piece_requests'[q] = <<>>,
         \A q \in Peers \ C : out_piece_requests'[q] = out_piece_requests[q],
         bitfield' = bitfield,
         in_piece_buf' = in_piece_buf \ Requested(C),
         failed' = failed \cap in_piece_buf'
  PROVE  Owned'
<1>1. \A q \in C : Outstanding(q)' = {}
  BY DEF Outstanding, Indexes
<1>2. \A q \in Peers \ C : Outstanding(q)' = Outstanding(q)
  BY DEF Outstanding, Indexes
<1>3. Requested(C) = UNION { Outstanding(q) : q \in C }
  BY DEF Requested, Outstanding
<1>4. SingleSource'
  BY <1>1, <1>2 DEF Owned, SingleSource
<1>5. OwnedBuffered'
  <2> SUFFICES ASSUME NEW q \in Peers, NEW i \in Outstanding(q)'
               PROVE  i \in in_piece_buf' \cup bitfield'
    BY DEF OwnedBuffered
  <2>1. q \in Peers \ C /\ i \in Outstanding(q)
    BY <1>1, <1>2
  <2>2. i \notin Requested(C)
    BY <1>3, <2>1 DEF Owned, SingleSource
  <2> QED BY <2>1, <2>2 DEF Owned, OwnedBuffered
<1>6. HaveUnbuffered'
  BY DEF Owned, HaveUnbuffered
<1>7. StrandedOnlyByFailure'
  <2> SUFFICES ASSUME NEW i \in in_piece_buf',
                      \A p \in Peers : i \notin Outstanding(p)'
               PROVE  i \in failed'
    BY DEF StrandedOnlyByFailure
  <2>1. i \in in_piece_buf /\ i \notin Requested(C)
    OBVIOUS
  <2>2. \A p \in Peers : i \notin Outstanding(p)
    BY <1>2, <1>3, <2>1
  <2> QED BY <2>1, <2>2 DEF Owned, StrandedOnlyByFailure
<1> QED BY <1>4, <1>5, <1>6, <1>7 DEF Owned

\* Block b of p has arrived: p's list loses its request, the peers in C lose all
\* they had, and the buffer of the piece is kept, freed, or kept as failed.
LEMMA BlockOwned ==
  ASSUME TypeOK, Owned, NEW C \in SUBSET Peers, NEW p \in Peers, NEW b \in Block,
         b.index \in in_piece_buf,
         \A q \in C : out_piece_requests'[q] = <<>>,
         \A q \in Peers \ C :
           out_piece_requests'[q] = OutAfter(p, b)[q],
         NEW lost,
         lost = UNION { Indexes(OutAfter(p, b)[q]) : q \in C },
         \/ /\ ~ LastBlock(p, b)
            /\ C = {}
            /\ bitfield' = bitfield /\ in_piece_buf' = in_piece_buf
            /\ failed' = failed \cap in_piece_buf
         \/ /\ LastBlock(p, b)
            /\ bitfield' = bitfield \cup {b.index}
            /\ in_piece_buf' = in_piece_buf \ ({b.index} \cup lost)
            /\ failed' = failed \cap in_piece_buf'
         \/ /\ LastBlock(p, b)
            /\ bitfield' = bitfield
            /\ in_piece_buf' = in_piece_buf \ lost
            /\ failed' = (failed \cup {b.index}) \cap in_piece_buf'
  PROVE  Owned'
<1> DEFINE left(q) == Indexes(OutAfter(p, b)[q])
<1>1. \A q \in Peers : left(q) \subseteq Outstanding(q)
  <2>1. OutAfter(p, b)[p] = Without(out_piece_requests[p], b)
    BY DEF OutAfter, TypeOK
  <2>2. \A q \in Peers \ {p} : OutAfter(p, b)[q] = out_piece_requests[q]
    BY DEF OutAfter, TypeOK
  <2>3. out_piece_requests[p] \in Seq(Request)
    BY DEF TypeOK
  <2>4. left(p) \subseteq Outstanding(p)
    BY <2>1, <2>3, WithoutProperties DEF Outstanding
  <2>5. \A q \in Peers \ {p} : left(q) = Outstanding(q)
    BY <2>2 DEF Outstanding
  <2> QED BY <2>4, <2>5
<1>2. /\ \A q \in Peers \ {p} : left(q) = Outstanding(q)
      /\ Outstanding(p) \ {b.index} \subseteq left(p)
      /\ LastBlock(p, b) <=> b.index \notin left(p)
  <2>1. OutAfter(p, b)[p] = Without(out_piece_requests[p], b)
    BY DEF OutAfter, TypeOK
  <2>2. \A q \in Peers \ {p} : OutAfter(p, b)[q] = out_piece_requests[q]
    BY DEF OutAfter, TypeOK
  <2>3. out_piece_requests[p] \in Seq(Request)
    BY DEF TypeOK
  <2>4. Outstanding(p) \ {b.index} \subseteq left(p)
    BY <2>1, <2>3, WithoutProperties DEF Outstanding
  <2>5. LastBlock(p, b) <=> b.index \notin left(p)
    BY <2>1 DEF LastBlock
  <2> QED BY <2>2, <2>4, <2>5 DEF Outstanding
<1>3. \A q \in C : Outstanding(q)' = {}
  BY DEF Outstanding, Indexes
<1>4. \A q \in Peers \ C : Outstanding(q)' = left(q)
  BY DEF Outstanding, Indexes
<1>5. lost = UNION { left(q) : q \in C }
  OBVIOUS
<1> HIDE DEF left
<1>6. \A q \in Peers : Outstanding(q)' \subseteq Outstanding(q)
  BY <1>1, <1>3, <1>4
<1>7. SingleSource'
  BY <1>6 DEF Owned, SingleSource
<1>8. OwnedBuffered'
  <2> SUFFICES ASSUME NEW q \in Peers, NEW i \in Outstanding(q)'
               PROVE  i \in in_piece_buf' \cup bitfield'
    BY DEF OwnedBuffered
  <2>1. q \in Peers \ C /\ i \in left(q)
    BY <1>3, <1>4
  <2>2. i \in in_piece_buf \cup bitfield
    BY <1>6 DEF Owned, OwnedBuffered
  <2>3. i \notin lost
    BY <1>1, <1>5, <2>1 DEF Owned, SingleSource
  <2> QED BY <2>2, <2>3
<1>9. HaveUnbuffered'
  BY DEF Owned, HaveUnbuffered
<1>10. StrandedOnlyByFailure'
  <2> SUFFICES ASSUME NEW i \in in_piece_buf',
                      \A q \in Peers : i \notin Outstanding(q)'
               PROVE  i \in failed'
    BY DEF StrandedOnlyByFailure
  <2>1. i \in in_piece_buf
    OBVIOUS
  <2>2. CASE i # b.index
    <3>1. i \notin lost
      BY <1>5
    <3>2. \A q \in Peers : i \notin left(q)
      BY <1>4, <1>5, <3>1
    <3>3. \A q \in Peers : i \notin Outstanding(q)
      BY <1>2, <2>2, <3>2
    <3> QED BY <2>1, <3>3 DEF Owned, StrandedOnlyByFailure
  <2>3. CASE i = b.index
    BY <1>2, <1>4, <2>3
  <2> QED BY <2>2, <2>3
<1> QED BY <1>7, <1>8, <1>9, <1>10 DEF Owned

\* queue_requests gives piece i to p.
LEMMA QueueOwned ==
  ASSUME TypeOK, Owned, NEW p \in Peers, NEW i \in Interesting(p),
         \A q \in Peers \ {p} : out_piece_requests'[q] = out_piece_requests[q],
         out_piece_requests'[p] = out_piece_requests[p] \o RequestsFor(i),
         bitfield' = bitfield, failed' = failed,
         in_piece_buf' = in_piece_buf \cup {i}
  PROVE  Owned'
<1>1. i \in Pieces /\ i \notin bitfield /\ i \notin in_piece_buf
  BY DEF Interesting, TypeOK
<1>2. Outstanding(p)' = Outstanding(p) \cup {i}
  <2>1. out_piece_requests[p] \in Seq(Request)
    BY DEF TypeOK
  <2>2. RequestsFor(i) \in Seq(Request) /\ Indexes(RequestsFor(i)) = {i}
    BY <1>1, RequestsForProperties
  <2>3. Indexes(out_piece_requests[p] \o RequestsFor(i))
          = Indexes(out_piece_requests[p]) \cup {i}
    BY <2>1, <2>2, IndexesConcat
  <2> QED BY <2>3 DEF Outstanding, Indexes
<1>3. \A q \in Peers \ {p} : Outstanding(q)' = Outstanding(q)
  BY DEF Outstanding, Indexes
<1>4. \A q \in Peers : i \notin Outstanding(q)
  BY <1>1 DEF Owned, OwnedBuffered
<1>5. SingleSource'
  BY <1>2, <1>3, <1>4 DEF Owned, SingleSource
<1>6. OwnedBuffered' /\ HaveUnbuffered'
  BY <1>1, <1>2, <1>3 DEF Owned, OwnedBuffered, HaveUnbuffered
<1>7. StrandedOnlyByFailure'
  BY <1>2, <1>3 DEF Owned, StrandedOnlyByFailure
<1> QED BY <1>5, <1>6, <1>7 DEF Owned

\* The pieces requested from each peer, and the buffers, stay what they are.
LEMMA KeptOwned ==
  ASSUME Owned,
         \A q \in Peers : Outstanding(q)' = Outstanding(q),
         bitfield' = bitfield, in_piece_buf' = in_piece_buf, failed' = failed
  PROVE  Owned'
BY DEF Owned, SingleSource, OwnedBuffered, HaveUnbuffered, StrandedOnlyByFailure

-----------------------------------------------------------------------------
(***************************************************************************)
(* The loops                                                               *)
(***************************************************************************)

CursorType ==
  pc \in Loops \cup {"idle", "crashed"} /\ it \in Peers \cup {None} /\ todo \subseteq Peers

\* The saved next node is on the list still, or the step is the one that crashes.
LEMMA AdvanceCursor ==
  ASSUME CursorType, CursorOK, active \subseteq Peers, NEW C, NEW D,
         D \subseteq C \cup {it}, active' = active \ D, Advance(C)
  PROVE  CursorType' /\ CursorOK'
<1>1. CASE todo = {}
  BY <1>1 DEF CursorType, CursorOK, Advance
<1>2. CASE todo # {}
  <2>1. PICK q \in todo :
          IF q \in C THEN pc' = "crashed" /\ it' = None /\ todo' = {}
          ELSE it' = q /\ todo' = todo \ ({q} \cup C) /\ UNCHANGED pc
    BY <1>2 DEF Advance
  <2>2. CASE q \in C
    BY <2>1, <2>2 DEF CursorType, CursorOK
  <2>3. CASE q \notin C
    <3>1. it' = q /\ todo' = todo \ ({q} \cup C) /\ pc' = pc
      BY <2>1, <2>3
    <3>2. q \in active' /\ todo' \subseteq active' /\ it' \notin todo'
      BY <2>3, <3>1 DEF CursorOK
    <3>3. CursorOK'
      BY <3>1, <3>2 DEF CursorOK
    <3> QED BY <3>1, <3>3 DEF CursorType
  <2> QED BY <2>2, <2>3
<1> QED BY <1>1, <1>2

LEMMA EnterCursor ==
  ASSUME NEW loop \in Loops, NEW S, S \subseteq active', active' \subseteq Peers,
         EnterLoop(loop, S)
  PROVE  CursorType' /\ CursorOK'
<1>1. CASE S = {}
  BY <1>1, DownloadAssumption DEF CursorType, CursorOK, EnterLoop
<1>2. CASE S # {}
  BY <1>2 DEF CursorType, CursorOK, EnterLoop
<1> QED BY <1>1, <1>2


-----------------------------------------------------------------------------
(***************************************************************************)
(* The invariant, part by part, and the steps that close peers             *)
(***************************************************************************)

TorrentType ==
  /\ bitfield \subseteq Pieces /\ downloaded \in Nat
  /\ in_piece_buf \subseteq Pieces /\ failed \subseteq Pieces
  /\ block_data \in [Pieces -> SUBSET Nat]
  /\ announced \in [Peers -> SUBSET Pieces]

PeerType ==
  /\ active \subseteq Peers
  /\ peer_bitfield \in [Peers -> SUBSET Pieces]
  /\ they_choked \in [Peers -> BOOLEAN]
  /\ we_interested \in [Peers -> BOOLEAN]
  /\ out_piece_requests \in [Peers -> Seq(Request)]
  /\ sent_request_count \in [Peers -> 0 .. CountModulus - 1]
  /\ total_out_request_count \in [Peers -> 0 .. CountModulus - 1]
  /\ wire \in [Peers -> Seq(Block)]

LEMMA TypeParts == TypeOK <=> TorrentType /\ PeerType /\ CursorType
BY DEF TypeOK, TorrentType, PeerType, CursorType

LEMMA InvParts ==
  IInv <=> /\ TorrentType /\ PeerType /\ CursorType
           /\ Owned /\ InactiveClean /\ CursorOK
BY TypeParts DEF IInv, Owned

LEMMA EmptySeqs == <<>> \in Seq(Request) /\ <<>> \in Seq(Block)
OBVIOUS

\* Typed requests, counts and wires that are empty for the peers not connected.
Queues(out, sent, total, onwire) ==
  /\ out \in [Peers -> Seq(Request)]
  /\ sent \in [Peers -> 0 .. CountModulus - 1]
  /\ total \in [Peers -> 0 .. CountModulus - 1]
  /\ onwire \in [Peers -> Seq(Block)]
  /\ \A q \in Peers \ active : /\ out[q] = <<>> /\ onwire[q] = <<>>
                               /\ sent[q] = 0 /\ total[q] = 0

\* Closing peers leaves the others what they had and the closed ones nothing.
LEMMA PeerCloseStep ==
  ASSUME PeerType, InactiveClean, NEW C \in SUBSET Peers,
         NEW out, NEW sent, NEW total, NEW onwire,
         Queues(out, sent, total, onwire),
         PeerClose(C, out, sent, total, onwire)
  PROVE  /\ PeerType' /\ InactiveClean'
         /\ active' = active \ C
         /\ \A q \in C : out_piece_requests'[q] = <<>>
         /\ \A q \in Peers \ C : out_piece_requests'[q] = out[q]
<1>1. \A q \in C : /\ out_piece_requests'[q] = <<>> /\ wire'[q] = <<>>
                   /\ sent_request_count'[q] = 0
                   /\ total_out_request_count'[q] = 0
                   /\ they_choked'[q] /\ ~ we_interested'[q]
  BY DEF PeerClose, Reset
<1>2. \A q \in Peers \ C :
        /\ out_piece_requests'[q] = out[q] /\ wire'[q] = onwire[q]
        /\ sent_request_count'[q] = sent[q]
        /\ total_out_request_count'[q] = total[q]
        /\ they_choked'[q] = they_choked[q]
        /\ we_interested'[q] = we_interested[q]
  BY DEF PeerClose, Reset
<1>3. active' = active \ C
  BY DEF PeerClose
<1>4. InactiveClean'
  <2> SUFFICES ASSUME NEW q \in Peers, q \notin active'
               PROVE  /\ out_piece_requests'[q] = <<>> /\ wire'[q] = <<>>
                      /\ sent_request_count'[q] = 0 /\ total_out_request_count'[q] = 0
                      /\ ~ we_interested'[q]
    BY Zenon DEF InactiveClean
  <2>1. CASE q \in C
    BY <1>1, <2>1, Zenon
  <2>2. CASE q \notin C
    <3>1. q \in Peers \ C /\ q \in Peers \ active
      BY <1>3, <2>2, Zenon
    <3>2. out[q] = <<>> /\ onwire[q] = <<>> /\ sent[q] = 0 /\ total[q] = 0
      BY <3>1, Zenon DEF Queues
    <3>3. ~ we_interested[q]
      BY <3>1, Zenon DEF InactiveClean
    <3> QED BY <1>2, <3>1, <3>2, <3>3, Zenon
  <2> QED BY <2>1, <2>2
<1>5. 0 \in 0 .. CountModulus - 1
  <2>1. /\ MaxSentRequests \in Nat \ {0} /\ CountModulus \in Nat
        /\ CountModulus > MaxSentRequests
    BY DownloadAssumption, Zenon
  <2> QED BY <2>1
<1>6. PeerType'
  <2>1. /\ out_piece_requests' \in [Peers -> Seq(Request)]
        /\ wire' \in [Peers -> Seq(Block)]
    BY EmptySeqs DEF PeerClose, Reset, Queues
  <2>2. /\ sent_request_count' \in [Peers -> 0 .. CountModulus - 1]
        /\ total_out_request_count' \in [Peers -> 0 .. CountModulus - 1]
    BY <1>5 DEF PeerClose, Reset, Queues
  <2>3. /\ they_choked' \in [Peers -> BOOLEAN]
        /\ we_interested' \in [Peers -> BOOLEAN]
    BY Zenon DEF PeerClose, Reset, PeerType
  <2>4. peer_bitfield' \in [Peers -> SUBSET Pieces] /\ active' \subseteq Peers
    BY <1>3 DEF PeerClose, Reset, PeerType
  <2> QED BY <2>1, <2>2, <2>3, <2>4 DEF PeerType
<1> QED BY <1>1, <1>2, <1>3, <1>4, <1>6

LEMMA KeepBuffersType ==
  ASSUME NEW kept \in SUBSET Pieces, NEW data \in [Pieces -> SUBSET Nat],
         NEW refused \in SUBSET Pieces, KeepBuffers(kept, data, refused)
  PROVE  /\ in_piece_buf' \subseteq Pieces /\ failed' \subseteq Pieces
         /\ block_data' \in [Pieces -> SUBSET Nat]
BY DEF KeepBuffers

LEMMA CloseStep ==
  ASSUME IInv, NEW C \in SUBSET Peers, Close(C)
  PROVE  /\ TorrentType' /\ PeerType' /\ Owned' /\ InactiveClean'
         /\ active' = active \ C
<1>0. TorrentType /\ PeerType /\ Owned /\ InactiveClean
  BY InvParts
<1>1. /\ PeerType' /\ InactiveClean' /\ active' = active \ C
      /\ \A q \in C : out_piece_requests'[q] = <<>>
      /\ \A q \in Peers \ C : out_piece_requests'[q] = out_piece_requests[q]
  <2>1. Queues(out_piece_requests, sent_request_count,
               total_out_request_count, wire)
    BY <1>0 DEF Queues, PeerType, InactiveClean
  <2>2. PeerClose(C, out_piece_requests, sent_request_count,
                  total_out_request_count, wire)
    BY DEF Close
  <2> QED BY <1>0, <2>1, <2>2, PeerCloseStep
<1>2. KeepBuffers(in_piece_buf \ Requested(C), block_data, failed)
  BY DEF Close
<1>3. TorrentType'
  <2>1. /\ in_piece_buf' \subseteq Pieces /\ failed' \subseteq Pieces
        /\ block_data' \in [Pieces -> SUBSET Nat]
    <3>1. /\ in_piece_buf \ Requested(C) \in SUBSET Pieces
          /\ block_data \in [Pieces -> SUBSET Nat]
          /\ failed \in SUBSET Pieces
      BY <1>0 DEF TorrentType
    <3> QED BY <1>2, <3>1, KeepBuffersType
  <2>2. announced' \in [Peers -> SUBSET Pieces]
    BY <1>0 DEF Close, Reset, TorrentType
  <2> QED BY <1>0, <2>1, <2>2 DEF Close, TorrentType
<1>4. Owned'
  BY <1>0, <1>1, <1>2, DiscardOwned DEF Close, KeepBuffers
<1> QED BY <1>1, <1>3, <1>4

\* A step of a loop that closes the peer whose turn it is.
LEMMA CloseTurn ==
  ASSUME IInv, NEW p \in Peers, it = p, Close({p}), Advance({})
  PROVE  IInv'
<1>1. /\ TorrentType' /\ PeerType' /\ Owned' /\ InactiveClean'
      /\ active' = active \ {p}
  BY CloseStep
<1>2. CursorType' /\ CursorOK'
  BY <1>1, AdvanceCursor, InvParts DEF PeerType
<1> QED BY <1>1, <1>2 DEF IInv, Owned, TypeOK, TorrentType, PeerType, CursorType


-----------------------------------------------------------------------------
(***************************************************************************)
(* The steps of the loops, one lemma for each that changes more than the   *)
(* cursor                                                                  *)
(***************************************************************************)

\* The parts of the invariant once a step has settled each of them.
LEMMA InvFromParts ==
  ASSUME TorrentType', PeerType', CursorType', Owned', InactiveClean', CursorOK'
  PROVE  IInv'
BY DEF IInv, Owned, TypeOK, TorrentType, PeerType, CursorType

\* The first peer of an emptied position: whose turn it is, is connected.
LEMMA TurnActive ==
  ASSUME IInv, NEW p \in Peers, it = p
  PROVE  p \in active
BY DownloadAssumption DEF IInv, CursorOK

LEMMA DecrementType ==
  ASSUME NEW n \in 0 .. CountModulus - 1
  PROVE  Decrement(n) \in 0 .. CountModulus - 1
BY DownloadAssumption DEF Decrement

\* What is on the wire when a step of p's turn took something off p's wire.
WireOf(p, onwire) ==
  /\ onwire \in [Peers -> Seq(Block)]
  /\ \A q \in Peers \ {p} : onwire[q] = wire[q]

\* AfterBlock closes the peers in C and takes the request for b off p's list.
LEMMA AfterBlockStep ==
  ASSUME IInv, NEW C \in SUBSET Peers, NEW p \in Peers, p \in active, NEW b \in Block,
         NEW onwire, WireOf(p, onwire),
         AfterBlock(C, p, b, onwire)
  PROVE  /\ PeerType' /\ InactiveClean'
         /\ active' = active \ C
         /\ \A q \in C : out_piece_requests'[q] = <<>>
         /\ \A q \in Peers \ C : out_piece_requests'[q] = OutAfter(p, b)[q]
<1>0. PeerType /\ InactiveClean /\ p \in Peers
  BY InvParts DEF PeerType
<1> DEFINE out == OutAfter(p, b)
           sent == CountAfter(sent_request_count, p, b)
           total == CountAfter(total_out_request_count, p, b)
<1>1. out \in [Peers -> Seq(Request)]
  <2>1. Without(out_piece_requests[p], b) \in Seq(Request)
    BY <1>0, WithoutProperties DEF PeerType
  <2> QED BY <1>0, <2>1 DEF OutAfter, PeerType
<1>2. /\ sent \in [Peers -> 0 .. CountModulus - 1]
      /\ total \in [Peers -> 0 .. CountModulus - 1]
      /\ \A q \in Peers \ {p} : /\ sent[q] = sent_request_count[q]
                                /\ total[q] = total_out_request_count[q]
  <2>1. \A q \in Peers : /\ Decrement(sent_request_count[q]) \in 0 .. CountModulus - 1
                          /\ Decrement(total_out_request_count[q]) \in 0 .. CountModulus - 1
    BY <1>0, DecrementType DEF PeerType
  <2> QED BY <1>0, <2>1 DEF CountAfter, PeerType
<1>3. \A q \in Peers \ {p} : out[q] = out_piece_requests[q]
  BY <1>0 DEF OutAfter, PeerType
<1>4. Queues(out, sent, total, onwire)
  <2>1. \A q \in Peers \ active : q # p
    OBVIOUS
  <2> HIDE DEF out, sent, total
  <2> QED BY <1>0, <1>1, <1>2, <1>3, <2>1 DEF Queues, InactiveClean, WireOf
<1>5. PeerClose(C, out, sent, total, onwire)
  BY DEF AfterBlock
<1> HIDE DEF sent, total
<1> QED BY <1>0, <1>4, <1>5, PeerCloseStep

LEMMA WithBlockType ==
  ASSUME TorrentType, NEW b \in Block, NEW intact
  PROVE  WithBlock(b, intact) \in [Pieces -> SUBSET Nat]
<1>1. b.index \in Pieces /\ b.begin \in Nat
  BY DEF Block
<1> QED BY <1>1 DEF WithBlock, TorrentType

LEMMA StoreBlockStep ==
  ASSUME IInv, NEW p \in Peers, it = p, NEW b \in Block, NEW intact,
         NEW onwire, WireOf(p, onwire),
         StoreBlock(p, b, intact, onwire)
  PROVE  IInv'
<1>1. p \in active /\ TypeOK /\ TorrentType /\ PeerType /\ Owned /\ CursorType /\ CursorOK
  BY TurnActive, InvParts, TypeParts
<1>2. PICK C \in SUBSET Peers : C = {} /\ AfterBlock(C, p, b, onwire)
  BY DEF StoreBlock
<1>3. /\ PeerType' /\ InactiveClean' /\ active' = active
      /\ \A q \in Peers : out_piece_requests'[q] = OutAfter(p, b)[q]
  <2>1. PeerType' /\ InactiveClean'
    BY <1>1, <1>2, AfterBlockStep
  <2>2. active' = active \ C
    BY <1>1, <1>2, AfterBlockStep
  <2>3. \A q \in Peers \ C : out_piece_requests'[q] = OutAfter(p, b)[q]
    BY <1>1, <1>2, AfterBlockStep
  <2> QED BY <1>2, <2>1, <2>2, <2>3
<1>4. KeepBuffers(in_piece_buf, WithBlock(b, intact), failed)
  BY DEF StoreBlock
<1>5. TorrentType'
  <2>1. WithBlock(b, intact) \in [Pieces -> SUBSET Nat]
    BY <1>1, WithBlockType
  <2>2. /\ in_piece_buf' \subseteq Pieces /\ failed' \subseteq Pieces
        /\ block_data' \in [Pieces -> SUBSET Nat]
    BY <1>1, <1>4, <2>1, KeepBuffersType DEF TorrentType
  <2> QED BY <1>1, <2>2 DEF StoreBlock, TorrentType
<1>6. Owned'
  <2>1. /\ b.index \in in_piece_buf /\ ~ LastBlock(p, b) /\ bitfield' = bitfield
        /\ in_piece_buf' = in_piece_buf /\ failed' = failed \cap in_piece_buf
    BY <1>4 DEF StoreBlock, KeepBuffers
  <2> QED BY <1>1, <1>3, <2>1, BlockOwned
<1>7. CursorType' /\ CursorOK'
  BY <1>1, <1>3, AdvanceCursor DEF StoreBlock, PeerType
<1> QED BY <1>3, <1>5, <1>6, <1>7, InvFromParts

LEMMA CompletePieceStep ==
  ASSUME IInv, NEW p \in Peers, it = p, NEW b \in Block, NEW intact,
         NEW onwire, WireOf(p, onwire),
         CompletePiece(p, b, intact, onwire)
  PROVE  IInv'
<1>1. p \in active /\ TypeOK /\ TorrentType /\ PeerType /\ Owned /\ CursorType /\ CursorOK
  BY TurnActive, InvParts, TypeParts
<1>2. PICK C \in SUBSET active :
        /\ AfterBlock(C, p, b, onwire)
        /\ KeepBuffers(BuffersAfter(C, p, b), block_data, failed)
        /\ TellHave(C, b.index)
        /\ Advance(C)
  BY DEF CompletePiece
<1>3. C \in SUBSET Peers /\ b.index \in Pieces
  BY <1>1 DEF PeerType, Block
<1>4. /\ PeerType' /\ InactiveClean' /\ active' = active \ C
      /\ \A q \in C : out_piece_requests'[q] = <<>>
      /\ \A q \in Peers \ C : out_piece_requests'[q] = OutAfter(p, b)[q]
  <2>1. PeerType' /\ InactiveClean'
    BY <1>1, <1>2, <1>3, AfterBlockStep
  <2>2. active' = active \ C
    BY <1>1, <1>2, <1>3, AfterBlockStep
  <2>3. \A q \in C : out_piece_requests'[q] = <<>>
    BY <1>1, <1>2, <1>3, AfterBlockStep
  <2>4. \A q \in Peers \ C : out_piece_requests'[q] = OutAfter(p, b)[q]
    BY <1>1, <1>2, <1>3, AfterBlockStep
  <2> QED BY <2>1, <2>2, <2>3, <2>4
<1>5. TorrentType'
  <2>1. BuffersAfter(C, p, b) \in SUBSET Pieces
    BY <1>1 DEF BuffersAfter, TorrentType
  <2>2. /\ in_piece_buf' \subseteq Pieces /\ failed' \subseteq Pieces
        /\ block_data' \in [Pieces -> SUBSET Nat]
    BY <1>1, <1>2, <2>1, KeepBuffersType DEF TorrentType
  <2>3. announced' \in [Peers -> SUBSET Pieces]
    BY <1>1, <1>2, <1>3 DEF TellHave, TorrentType
  <2>4. downloaded' \in Nat
    BY <1>1, <1>3, BlockCountType DEF CompletePiece, TorrentType
  <2>5. bitfield' \subseteq Pieces
    BY <1>1, <1>3 DEF CompletePiece, TorrentType
  <2> QED BY <2>2, <2>3, <2>4, <2>5 DEF TorrentType
<1>6. Owned'
  <2> DEFINE lost == UNION { Indexes(OutAfter(p, b)[q]) : q \in C }
  <2>1. /\ b.index \in in_piece_buf /\ LastBlock(p, b)
        /\ bitfield' = bitfield \cup {b.index}
        /\ in_piece_buf' = in_piece_buf \ ({b.index} \cup lost)
        /\ failed' = failed \cap in_piece_buf'
    BY <1>2 DEF CompletePiece, KeepBuffers, BuffersAfter
  <2> QED BY <1>1, <1>3, <1>4, <2>1, BlockOwned
<1>7. CursorType' /\ CursorOK'
  BY <1>1, <1>2, <1>4, AdvanceCursor DEF PeerType
<1> QED BY <1>4, <1>5, <1>6, <1>7, InvFromParts

LEMMA FailPieceStep ==
  ASSUME IInv, NEW p \in Peers, it = p, NEW b \in Block, NEW intact,
         NEW onwire, WireOf(p, onwire),
         FailPiece(p, b, intact, onwire)
  PROVE  IInv'
<1>1. p \in active /\ TypeOK /\ TorrentType /\ PeerType /\ Owned /\ CursorType /\ CursorOK
  BY TurnActive, InvParts, TypeParts
<1>2. AfterBlock({p}, p, b, onwire) /\ b.index \in Pieces
  BY DEF FailPiece, Block
<1>3. /\ PeerType' /\ InactiveClean' /\ active' = active \ {p}
      /\ \A q \in {p} : out_piece_requests'[q] = <<>>
      /\ \A q \in Peers \ {p} : out_piece_requests'[q] = OutAfter(p, b)[q]
  <2>1. p \in active /\ {p} \in SUBSET Peers
    BY <1>1
  <2>2. PeerType' /\ InactiveClean'
    BY <1>2, <2>1, AfterBlockStep
  <2>3. active' = active \ {p}
    BY <1>2, <2>1, AfterBlockStep
  <2>4. \A q \in {p} : out_piece_requests'[q] = <<>>
    BY <1>2, <2>1, AfterBlockStep
  <2>5. \A q \in Peers \ {p} : out_piece_requests'[q] = OutAfter(p, b)[q]
    BY <1>2, <2>1, AfterBlockStep
  <2> QED BY <2>2, <2>3, <2>4, <2>5
<1> DEFINE kept == in_piece_buf \ Indexes(OutAfter(p, b)[p])
           refused == failed \cup {b.index}
<1>4. KeepBuffers(kept, WithBlock(b, intact), refused)
  BY DEF FailPiece
<1>5. TorrentType'
  <2>1. WithBlock(b, intact) \in [Pieces -> SUBSET Nat]
    BY <1>1, WithBlockType
  <2>2. kept \in SUBSET Pieces /\ refused \in SUBSET Pieces
    BY <1>1, <1>2 DEF TorrentType
  <2>3. /\ in_piece_buf' \subseteq Pieces /\ failed' \subseteq Pieces
        /\ block_data' \in [Pieces -> SUBSET Nat]
    BY <1>4, <2>1, <2>2, KeepBuffersType
  <2>4. announced' \in [Peers -> SUBSET Pieces]
    BY <1>1 DEF FailPiece, Reset, TorrentType
  <2> QED BY <1>1, <2>3, <2>4 DEF FailPiece, TorrentType
<1>6. Owned'
  <2> DEFINE lost == UNION { Indexes(OutAfter(p, b)[q]) : q \in {p} }
  <2>1. lost = Indexes(OutAfter(p, b)[p])
    OBVIOUS
  <2>2. /\ b.index \in in_piece_buf /\ LastBlock(p, b) /\ bitfield' = bitfield
        /\ in_piece_buf' = in_piece_buf \ lost
        /\ failed' = (failed \cup {b.index}) \cap in_piece_buf'
    BY <1>4, <2>1 DEF FailPiece, KeepBuffers
  <2> QED BY <1>1, <1>3, <2>2, BlockOwned
<1>7. CursorType' /\ CursorOK'
  BY <1>1, <1>3, AdvanceCursor DEF FailPiece, PeerType
<1> QED BY <1>3, <1>5, <1>6, <1>7, InvFromParts

\* The wire after one of the requests on it was answered.
LEMMA AnsweredType ==
  ASSUME NEW s \in Seq(Block), NEW k \in 1 .. Len(s)
  PROVE  SubSeq(s, 1, k - 1) \o SubSeq(s, k + 1, Len(s)) \in Seq(Block)
<1>1. \A j \in 1 .. Len(s) : s[j] \in Block
  BY ElementOfSeq
<1>2. SubSeq(s, 1, k - 1) \in Seq(Block)
  BY <1>1, SubSeqProperties
<1>3. SubSeq(s, k + 1, Len(s)) \in Seq(Block)
  BY <1>1, SubSeqProperties
<1> QED BY <1>2, <1>3, ConcatProperties

LEMMA RecvBlockStep ==
  ASSUME IInv, NEW p \in Peers, RecvBlock(p)
  PROVE  IInv'
<1>1. it = p /\ PeerType
  BY InvParts DEF RecvBlock, Turn
<1>2. PICK k \in 1 .. Len(wire[p]), intact \in BOOLEAN :
        LET b == wire[p][k]
            onwire == [wire EXCEPT ![p] =
                         SubSeq(@, 1, k - 1) \o SubSeq(@, k + 1, Len(@))]
        IN  \/ RefuseBlock(p, b)
            \/ StoreBlock(p, b, intact, onwire)
            \/ CompletePiece(p, b, intact, onwire)
            \/ FailPiece(p, b, intact, onwire)
  BY Zenon DEF RecvBlock
<1> DEFINE b == wire[p][k]
           onwire == [wire EXCEPT ![p] =
                        SubSeq(@, 1, k - 1) \o SubSeq(@, k + 1, Len(@))]
<1>3. wire[p] \in Seq(Block)
  BY <1>1 DEF PeerType
<1>4. b \in Block
  BY <1>3, ElementOfSeq
<1>5. WireOf(p, onwire)
  BY <1>1, <1>3, AnsweredType DEF PeerType, WireOf
<1>6. CASE RefuseBlock(p, b)
  BY <1>1, <1>6, CloseTurn DEF RefuseBlock
<1>7. \/ RefuseBlock(p, b) \/ StoreBlock(p, b, intact, onwire)
      \/ CompletePiece(p, b, intact, onwire) \/ FailPiece(p, b, intact, onwire)
  BY <1>2
<1> HIDE DEF b, onwire
<1> QED BY <1>1, <1>4, <1>5, <1>6, <1>7, StoreBlockStep, CompletePieceStep, FailPieceStep


LEMMA ReturnCursor ==
  ASSUME Return
  PROVE  CursorType' /\ CursorOK'
BY DownloadAssumption DEF Return, CursorType, CursorOK

\* The steps that change what p told us or was told, and nothing it owes us.
LEMMA TellStep ==
  ASSUME IInv, NEW p \in Peers, it = p, Advance({}),
         UNCHANGED <<torrentVars, out_piece_requests, sent_request_count,
                     total_out_request_count, historyVars>>,
         peer_bitfield' \in [Peers -> SUBSET Pieces],
         they_choked' \in [Peers -> BOOLEAN],
         we_interested' \in [Peers -> BOOLEAN],
         \A q \in Peers \ {p} : /\ they_choked'[q] = they_choked[q]
                                /\ we_interested'[q] = we_interested[q]
  PROVE  IInv'
<1>1. /\ TorrentType /\ PeerType /\ CursorType /\ Owned /\ InactiveClean
      /\ CursorOK /\ p \in active
  BY InvParts, TurnActive
<1>2. TorrentType'
  BY <1>1 DEF TorrentType, torrentVars, historyVars
<1>3. PeerType'
  BY <1>1 DEF PeerType, torrentVars, historyVars
<1>4. Owned'
  BY <1>1, KeptOwned DEF torrentVars, historyVars, Outstanding, Indexes
<1>5. InactiveClean'
  BY <1>1 DEF InactiveClean, torrentVars, historyVars
<1>6. CursorType' /\ CursorOK'
  <2>1. active' = active \ {} /\ active \subseteq Peers
    BY <1>1 DEF torrentVars, PeerType
  <2> QED BY <1>1, <2>1, AdvanceCursor
<1> QED BY <1>2, <1>3, <1>4, <1>5, <1>6, InvFromParts

\* The steps that change only where the pass is.
LEMMA MoveStep ==
  ASSUME IInv, UNCHANGED <<torrentVars, peerVars, historyVars>>,
         CursorType', CursorOK'
  PROVE  IInv'
<1>1. TorrentType /\ PeerType /\ Owned /\ InactiveClean
  BY InvParts
<1>2. TorrentType'
  BY <1>1 DEF TorrentType, torrentVars, historyVars
<1>3. PeerType'
  BY <1>1 DEF PeerType, torrentVars, historyVars, peerVars
<1>4. Owned'
  BY <1>1, KeptOwned DEF torrentVars, historyVars, peerVars, Outstanding, Indexes
<1>5. InactiveClean'
  BY <1>1 DEF InactiveClean, torrentVars, historyVars, peerVars
<1> QED BY <1>2, <1>3, <1>4, <1>5, InvFromParts

LEMMA InsertActivePeerStep ==
  ASSUME IInv, NEW p \in Peers, InsertActivePeer(p)
  PROVE  IInv'
<1>1. /\ TorrentType /\ PeerType /\ CursorType /\ Owned /\ InactiveClean
      /\ CursorOK
  BY InvParts
<1>2. TorrentType'
  BY <1>1 DEF InsertActivePeer, TorrentType
<1>3. PeerType'
  BY <1>1 DEF InsertActivePeer, PeerType
<1>4. Owned'
  BY <1>1, KeptOwned DEF InsertActivePeer, Outstanding, Indexes
<1>5. InactiveClean'
  BY <1>1 DEF InsertActivePeer, InactiveClean, PeerType
<1>6. CursorType' /\ CursorOK'
  BY <1>1 DEF InsertActivePeer, CursorType, CursorOK, passVars
<1> QED BY <1>2, <1>3, <1>4, <1>5, <1>6, InvFromParts

LEMMA EnterPeersStep ==
  ASSUME IInv, NEW C \in SUBSET active, EnterPeers(C)
  PROVE  IInv'
<1>1. C \in SUBSET Peers /\ active \subseteq Peers
  BY InvParts DEF PeerType
<1>2. Close(C)
  BY DEF EnterPeers
<1>3. /\ TorrentType' /\ PeerType' /\ Owned' /\ InactiveClean'
      /\ active' = active \ C
  BY <1>1, <1>2, CloseStep
<1>4. "peers" \in Loops /\ active \ C \subseteq active' /\ active' \subseteq Peers
  BY <1>1, <1>3 DEF Loops
<1>5. EnterLoop("peers", active \ C)
  BY DEF EnterPeers
<1>6. CursorType' /\ CursorOK'
  BY <1>4, <1>5, EnterCursor
<1> QED BY <1>3, <1>6, InvFromParts

LEMMA RecvChokeStep ==
  ASSUME IInv, NEW p \in Peers, RecvChoke(p)
  PROVE  IInv'
<1>1. /\ TorrentType /\ PeerType /\ CursorType /\ Owned /\ InactiveClean
      /\ CursorOK /\ it = p /\ p \in active
  BY InvParts, TurnActive DEF RecvChoke, Turn
<1>2. KeepBuffers(in_piece_buf \ Requested({p}), block_data, failed)
  BY DEF RecvChoke
<1>3. TorrentType'
  <2>1. /\ in_piece_buf \ Requested({p}) \in SUBSET Pieces
        /\ block_data \in [Pieces -> SUBSET Nat]
        /\ failed \in SUBSET Pieces
    BY <1>1 DEF TorrentType
  <2>2. /\ in_piece_buf' \subseteq Pieces /\ failed' \subseteq Pieces
        /\ block_data' \in [Pieces -> SUBSET Nat]
    BY <1>2, <2>1, KeepBuffersType
  <2> QED BY <1>1, <2>2 DEF RecvChoke, TorrentType
<1>4. PeerType'
  <2>1. PICK k \in 0 .. Len(wire[p]) :
          wire' = [wire EXCEPT ![p] = SubSeq(@, k + 1, Len(@))]
    BY DEF RecvChoke
  <2>2. wire[p] \in Seq(Block)
    BY <1>1 DEF PeerType
  <2>3. \A j \in k + 1 .. Len(wire[p]) : wire[p][j] \in Block
    BY <2>1, <2>2, ElementOfSeq
  <2>4. SubSeq(wire[p], k + 1, Len(wire[p])) \in Seq(Block)
    BY <2>1, <2>2, <2>3, SubSeqProperties
  <2>5. wire' \in [Peers -> Seq(Block)]
    BY <1>1, <2>1, <2>4 DEF PeerType
  <2>6. they_choked' \in [Peers -> BOOLEAN]
    BY <1>1, Zenon DEF RecvChoke, PeerType
  <2>7. out_piece_requests' \in [Peers -> Seq(Request)]
    BY <1>1, EmptySeqs DEF RecvChoke, PeerType
  <2>8. /\ sent_request_count' \in [Peers -> 0 .. CountModulus - 1]
        /\ total_out_request_count' \in [Peers -> 0 .. CountModulus - 1]
    BY <1>1, DownloadAssumption DEF RecvChoke, PeerType
  <2>9. /\ active' = active /\ peer_bitfield' = peer_bitfield
        /\ we_interested' = we_interested
    BY DEF RecvChoke
  <2> QED BY <1>1, <2>5, <2>6, <2>7, <2>8, <2>9 DEF PeerType
<1>5. Owned'
  <2>1. /\ \A q \in {p} : out_piece_requests'[q] = <<>>
        /\ \A q \in Peers \ {p} : out_piece_requests'[q] = out_piece_requests[q]
        /\ bitfield' = bitfield
    BY <1>1 DEF RecvChoke, PeerType
  <2>2. /\ in_piece_buf' = in_piece_buf \ Requested({p})
        /\ failed' = failed \cap in_piece_buf'
    BY <1>2 DEF KeepBuffers
  <2> QED BY <1>1, <2>1, <2>2, DiscardOwned
<1>6. InactiveClean'
  BY <1>1 DEF RecvChoke, InactiveClean, PeerType
<1>7. CursorType' /\ CursorOK'
  <2>1. active' = active \ {} /\ active \subseteq Peers /\ Advance({})
    BY <1>1 DEF RecvChoke, PeerType
  <2> QED BY <1>1, <2>1, AdvanceCursor
<1> QED BY <1>3, <1>4, <1>5, <1>6, <1>7, InvFromParts


LEMMA QueueRequestsStep ==
  ASSUME IInv, NEW p \in Peers, NEW i \in Pieces, QueueRequests(p, i)
  PROVE  IInv'
<1>1. /\ TypeOK /\ TorrentType /\ PeerType /\ CursorType /\ Owned
      /\ InactiveClean /\ CursorOK /\ it = p /\ p \in active
  BY InvParts, TypeParts, TurnActive DEF QueueRequests, Turn
<1>2. TorrentType'
  BY <1>1 DEF QueueRequests, TorrentType, historyVars
<1>3. PeerType'
  <2>1. out_piece_requests[p] \o RequestsFor(i) \in Seq(Request)
    BY <1>1, RequestsForProperties, ConcatProperties DEF PeerType
  <2>2. out_piece_requests' \in [Peers -> Seq(Request)]
    BY <1>1, <2>1 DEF QueueRequests, PeerType
  <2>3. \A n \in 0 .. CountModulus - 1 :
          (n + BlockCount(i)) % CountModulus \in 0 .. CountModulus - 1
    BY BlockCountType, DownloadAssumption
  <2>4. total_out_request_count' \in [Peers -> 0 .. CountModulus - 1]
    BY <1>1, <2>3 DEF QueueRequests, PeerType
  <2> QED BY <1>1, <2>2, <2>4 DEF QueueRequests, PeerType, historyVars
<1>4. Owned'
  <2>1. /\ i \in Interesting(p)
        /\ \A q \in Peers \ {p} : out_piece_requests'[q] = out_piece_requests[q]
        /\ out_piece_requests'[p] = out_piece_requests[p] \o RequestsFor(i)
        /\ bitfield' = bitfield /\ failed' = failed
        /\ in_piece_buf' = in_piece_buf \cup {i}
    BY <1>1 DEF QueueRequests, PeerType, historyVars
  <2> QED BY <1>1, <2>1, QueueOwned
<1>5. InactiveClean'
  BY <1>1 DEF QueueRequests, InactiveClean, PeerType, historyVars
<1>6. CursorType' /\ CursorOK'
  BY <1>1 DEF QueueRequests, CursorType, CursorOK, passVars
<1> QED BY <1>2, <1>3, <1>4, <1>5, <1>6, InvFromParts

\* What is sent is on the list and not yet sent, and the counter does not wrap.
LEMMA SendCountType ==
  ASSUME PeerType, NEW p \in Peers
  PROVE  /\ SendCount(p) \in Nat
         /\ FirstUnsent(out_piece_requests[p]) + SendCount(p)
              <= Len(out_piece_requests[p]) + 1
         /\ sent_request_count[p] + SendCount(p) \in 0 .. CountModulus - 1
<1>1. /\ out_piece_requests[p] \in Seq(Request)
      /\ sent_request_count[p] \in 0 .. CountModulus - 1
  BY DEF PeerType
<1>2. FirstUnsent(out_piece_requests[p]) \in 1 .. Len(out_piece_requests[p]) + 1
  BY <1>1, FirstUnsentType
<1> DEFINE len == Len(out_piece_requests[p])
           first == FirstUnsent(out_piece_requests[p])
           sent == sent_request_count[p]
           unsent == len + 1 - first
           room == IF sent < MaxSentRequests THEN MaxSentRequests - sent ELSE 0
<1>3. /\ len \in Nat /\ sent \in Nat /\ sent < CountModulus
      /\ MaxSentRequests \in Nat /\ CountModulus \in Nat
      /\ MaxSentRequests < CountModulus
  BY <1>1, DownloadAssumption
<1>4. first \in Nat /\ first <= len + 1
  BY <1>2, <1>3
<1>5. SendCount(p) = IF unsent < room THEN unsent ELSE room
  BY DEF SendCount
<1> HIDE DEF len, first, sent
<1>6. SendCount(p) \in Nat /\ first + SendCount(p) <= len + 1
  BY <1>3, <1>4, <1>5
<1>7. sent + SendCount(p) \in 0 .. CountModulus - 1
  BY <1>3, <1>4, <1>5
<1> QED BY <1>6, <1>7 DEF len, first, sent

LEMMA SendRequestsStep ==
  ASSUME IInv, NEW p \in Peers, SendRequests(p)
  PROVE  IInv'
<1>1. /\ TorrentType /\ PeerType /\ CursorType /\ Owned
      /\ InactiveClean /\ CursorOK /\ it = p /\ p \in active
  BY InvParts, TurnActive DEF SendRequests, Queued, Turn
<1> DEFINE s == out_piece_requests[p]
           n == SendCount(p)
           f == FirstUnsent(s)
           sent == [k \in 1 .. n |-> [index |-> s[f + k - 1].index,
                                      begin |-> s[f + k - 1].begin]]
<1>2. /\ s \in Seq(Request) /\ n \in Nat /\ f \in 1 .. Len(s) + 1
      /\ f + n <= Len(s) + 1
      /\ sent_request_count[p] + n \in 0 .. CountModulus - 1
  BY <1>1, SendCountType, FirstUnsentType DEF PeerType
<1>3. /\ out_piece_requests' = [out_piece_requests EXCEPT ![p] = MarkSent(s, n)]
      /\ sent_request_count' = [sent_request_count EXCEPT ![p] = @ + n]
      /\ wire' = [wire EXCEPT ![p] = @ \o sent]
      /\ Advance({})
      /\ UNCHANGED <<torrentVars, peer_bitfield, they_choked, we_interested,
                     total_out_request_count, announced, failed>>
  BY DEF SendRequests
<1>4. sent \in Seq(Block)
  <2>1. ASSUME NEW k \in 1 .. n
        PROVE  s[f + k - 1].index \in Pieces /\ s[f + k - 1].begin \in Nat
    <3>1. f + k - 1 \in 1 .. Len(s)
      BY <1>2
    <3>2. s[f + k - 1] \in Request
      BY <1>2, <3>1, ElementOfSeq
    <3> QED BY <3>2 DEF Request
  <2>2. sent \in [1 .. n -> Block]
    BY <2>1 DEF Block
  <2> HIDE DEF sent
  <2> QED BY <1>2, <2>2, SeqDef
<1>5. MarkSent(s, n) \in Seq(Request) /\ Indexes(MarkSent(s, n)) = Indexes(s)
  BY <1>2, MarkSentProperties
<1>6. wire[p] \o sent \in Seq(Block)
  BY <1>1, <1>4, ConcatProperties DEF PeerType
<1> HIDE DEF sent, n
<1>7. TorrentType'
  BY <1>1, <1>3 DEF TorrentType, torrentVars
<1>8. PeerType'
  BY <1>1, <1>2, <1>3, <1>5, <1>6 DEF PeerType, torrentVars
<1>9. Owned'
  <2>1. \A q \in Peers : Outstanding(q)' = Outstanding(q)
    <3>1. Outstanding(p)' = Outstanding(p)
      BY <1>1, <1>3, <1>5 DEF Outstanding, Indexes, PeerType
    <3>2. \A q \in Peers \ {p} : Outstanding(q)' = Outstanding(q)
      BY <1>1, <1>3 DEF Outstanding, Indexes, PeerType
    <3> QED BY <3>1, <3>2
  <2> QED BY <1>1, <1>3, <2>1, KeptOwned DEF torrentVars
<1>10. InactiveClean'
  BY <1>1, <1>3 DEF InactiveClean, PeerType, torrentVars
<1>11. CursorType' /\ CursorOK'
  <2>1. active' = active \ {} /\ active \subseteq Peers
    BY <1>1, <1>3 DEF torrentVars, PeerType
  <2> QED BY <1>1, <1>3, <2>1, AdvanceCursor
<1> QED BY <1>7, <1>8, <1>9, <1>10, <1>11, InvFromParts

LEMMA AbortPassStep ==
  ASSUME IInv, NEW p \in Peers, AbortPass(p)
  PROVE  IInv'
<1>1. Return /\ CursorType' /\ CursorOK'
  BY ReturnCursor DEF AbortPass
<1>2. CASE Close({p})
  <2>1. TorrentType' /\ PeerType' /\ Owned' /\ InactiveClean'
    BY <1>2, CloseStep
  <2> QED BY <1>1, <2>1, InvFromParts
<1>3. CASE UNCHANGED <<torrentVars, peerVars, historyVars>>
  BY <1>1, <1>3, MoveStep
<1> QED BY <1>2, <1>3 DEF AbortPass

-----------------------------------------------------------------------------
(***************************************************************************)
(* The invariant holds of every reachable state                            *)
(***************************************************************************)

LEMMA InitInv == Init => IInv
<1> SUFFICES ASSUME Init PROVE IInv
  OBVIOUS
<1>1. BytesIn(bitfield) \in Nat
  <2>1. bitfield \subseteq 0 .. PieceCount - 1 /\ downloaded = BytesIn(bitfield)
    BY DEF Init, Pieces
  <2>2. IsFiniteSet(bitfield) /\ Cardinality(bitfield) \in Nat
    <3>1. IsFiniteSet(0 .. PieceCount - 1)
      BY FS_Interval, LayoutAssumption
    <3>2. IsFiniteSet(bitfield)
      BY <2>1, <3>1, FS_Subset, Zenon
    <3> QED BY <3>2, FS_CardinalityType, Zenon
  <2>3. PieceCount - 1 \in bitfield => Cardinality(bitfield) >= 1
    BY <2>2, FS_EmptySet
  <2>4. PieceLength * PieceCount - Length \in 0 .. PieceLength
    BY LayoutAssumption
  <2>5. Cardinality(bitfield) * PieceLength \in Nat
    BY <2>2, LayoutAssumption
  <2>6. Cardinality(bitfield) >= 1 =>
          Cardinality(bitfield) * PieceLength >= PieceLength
    <3> HIDE DEF Init
    <3> QED BY <2>2, LayoutAssumption
  <2> QED BY <2>3, <2>4, <2>5, <2>6, LayoutAssumption DEF BytesIn
<1>2. TorrentType
  BY <1>1 DEF Init, TorrentType
<1>3. PeerType
  BY EmptySeqs, DownloadAssumption DEF Init, PeerType
<1>4. CursorType /\ CursorOK
  BY DEF Init, CursorType, CursorOK
<1>5. Owned
  BY DEF Init, Owned, SingleSource, OwnedBuffered, HaveUnbuffered,
         StrandedOnlyByFailure, Outstanding, Indexes
<1>6. InactiveClean
  BY DEF Init, InactiveClean
<1> QED BY <1>2, <1>3, <1>4, <1>5, <1>6, InvParts

LEMMA NextInv == IInv /\ [Next]_vars => IInv'
<1> SUFFICES ASSUME IInv, [Next]_vars PROVE IInv'
  OBVIOUS
<1>1. /\ PeerType /\ CursorType /\ CursorOK /\ active \subseteq Peers
  BY InvParts DEF PeerType
<1>2. ASSUME NEW p \in Peers, UpdateInterest(p) PROVE IInv'
  <2>1. we_interested' \in [Peers -> BOOLEAN]
    BY <1>1, <1>2, Zenon DEF UpdateInterest, PeerType
  <2>2. it = p /\ Advance({})
    BY <1>2 DEF UpdateInterest, Turn
  <2> QED BY <1>1, <1>2, <2>1, <2>2, TellStep DEF UpdateInterest, PeerType
<1>3. ASSUME NEW p \in Peers, FailInterest(p) \/ FailRequests(p) \/ DropPeer(p) PROVE IInv'
  BY <1>3, CloseTurn DEF FailInterest, FailRequests, DropPeer, Turn, Queued
<1>4. ASSUME NEW p \in Peers, SkipChoked(p) \/ NoMessage(p) PROVE IInv'
  <2>1. /\ Advance({}) /\ it = p
        /\ UNCHANGED <<torrentVars, peerVars, historyVars>>
    BY <1>4 DEF SkipChoked, NoMessage, Turn
  <2>2. active' = active \ {}
    BY <2>1 DEF torrentVars
  <2>3. CursorType' /\ CursorOK'
    BY <1>1, <2>1, <2>2, AdvanceCursor
  <2> QED BY <2>1, <2>3, MoveStep
<1>5. ASSUME NEW p \in Peers, RecvUnchoke(p) PROVE IInv'
  <2>1. they_choked' \in [Peers -> BOOLEAN]
    BY <1>1, <1>5, Zenon DEF RecvUnchoke, PeerType
  <2>2. it = p /\ Advance({})
    BY <1>5 DEF RecvUnchoke, Turn
  <2> QED BY <1>1, <1>5, <2>1, <2>2, TellStep DEF RecvUnchoke, PeerType
<1>6. ASSUME NEW p \in Peers, NEW i \in Pieces, RecvHave(p, i) PROVE IInv'
  <2>1. peer_bitfield' \in [Peers -> SUBSET Pieces] /\ it = p /\ Advance({})
    BY <1>1, <1>6 DEF RecvHave, PeerType, Turn
  <2> QED BY <1>1, <1>6, <2>1, TellStep DEF RecvHave, PeerType
<1>7. ASSUME NEW p \in Peers, NEW S \in SUBSET Pieces, RecvBitfield(p, S) PROVE IInv'
  <2>1. peer_bitfield' \in [Peers -> SUBSET Pieces] /\ it = p /\ Advance({})
    BY <1>1, <1>7 DEF RecvBitfield, PeerType, Turn
  <2> QED BY <1>1, <1>7, <2>1, TellStep DEF RecvBitfield, PeerType
<1>8. ASSUME BeginRequester \/ EndInterest PROVE IInv'
  <2>1. /\ \E loop \in Loops : EnterLoop(loop, active)
        /\ UNCHANGED <<torrentVars, peerVars, historyVars>>
    BY <1>8 DEF BeginRequester, EndInterest, Loops
  <2>2. active \subseteq active' /\ active' \subseteq Peers
    BY <1>1, <2>1 DEF torrentVars
  <2>3. CursorType' /\ CursorOK'
    BY <2>1, <2>2, EnterCursor
  <2> QED BY <2>1, <2>3, MoveStep
<1>9. ASSUME BeginPeers \/ EndRequest PROVE IInv'
  BY <1>9, EnterPeersStep DEF BeginPeers, EndRequest
<1>10. ASSUME EndPeers PROVE IInv'
  BY <1>10, ReturnCursor, MoveStep DEF EndPeers
<1>11. ASSUME UNCHANGED vars PROVE IInv'
  <2>1. CursorType' /\ CursorOK'
    BY <1>1, <1>11 DEF vars, passVars, torrentVars, CursorType, CursorOK
  <2> QED BY <1>11, <2>1, MoveStep DEF vars
<1>12. ASSUME InterestStep PROVE IInv'
  BY <1>2, <1>3, <1>12 DEF InterestStep
<1>13. ASSUME RequestStep PROVE IInv'
  BY <1>3, <1>4, <1>13, QueueRequestsStep, SendRequestsStep DEF RequestStep
<1>14. ASSUME PeersStep PROVE IInv'
  BY <1>3, <1>4, <1>5, <1>6, <1>7, <1>14, AbortPassStep, RecvChokeStep, RecvBlockStep
  DEF PeersStep
<1> QED
  BY <1>8, <1>9, <1>10, <1>11, <1>12, <1>13, <1>14, InsertActivePeerStep
  DEF Next, PassStep

\* The download keeps its inductive invariant whatever fails: types, who has a
\* request and a buffer for what, clean slates, and a sound cursor.
THEOREM DownloadInvariant == Spec => []IInv
<1>1. Init => IInv
  BY InitInv
<1>2. IInv /\ [Next]_vars => IInv'
  BY NextInv
<1> QED BY <1>1, <1>2, PTL DEF Spec

\* Every variable keeps its type; no unsigned counter leaves its range.
THEOREM DownloadTypeCorrect == Spec => []TypeOK
<1>1. IInv => TypeOK
  BY DEF IInv
<1> QED BY <1>1, DownloadInvariant, PTL

\* No two peers are ever asked for the same piece.
THEOREM NoDoubleRequest == Spec => []SingleSource
<1>1. IInv => SingleSource
  BY DEF IInv
<1> QED BY <1>1, DownloadInvariant, PTL

\* A choke, a close or a failed send of one peer never frees the buffer that the
\* requests to another peer are for.
THEOREM RequestsKeepBuffers == Spec => []OwnedBuffered
<1>1. IInv => OwnedBuffered
  BY DEF IInv
<1> QED BY <1>1, DownloadInvariant, PTL

\* A buffer without a request is left by a refused piece and by nothing else.
THEOREM NothingElseStrands == Spec => []StrandedOnlyByFailure
<1>1. IInv => StrandedOnlyByFailure
  BY DEF IInv
<1> QED BY <1>1, DownloadInvariant, PTL

-----------------------------------------------------------------------------
(***************************************************************************)
(* Pieces, bytes and announcements.  A step completes one piece or none.   *)
(***************************************************************************)

\* No piece is completed; who stays was told nothing new, who comes was told all.
Stays ==
  /\ bitfield' = bitfield /\ downloaded' = downloaded
  /\ \A q \in active' :
       announced'[q] = bitfield \/ (q \in active /\ announced'[q] = announced[q])

\* Piece i is, and everybody who stays is told.
Gains(i) ==
  /\ i \in Pieces \ bitfield
  /\ bitfield' = bitfield \cup {i} /\ downloaded' = downloaded + calc_piece_length(i)
  /\ \A q \in active' : q \in active /\ announced'[q] = announced[q] \cup {i}

\* One more piece counts for exactly its own bytes, the short last one included.
LEMMA BytesInAdd ==
  ASSUME NEW S \in SUBSET Pieces, NEW i \in Pieces \ S
  PROVE  BytesIn(S \cup {i}) = BytesIn(S) + calc_piece_length(i)
<1> DEFINE n == Cardinality(S)
           last == PieceCount - 1
<1>1. IsFiniteSet(S)
  <2>1. S \subseteq 0 .. last /\ IsFiniteSet(0 .. last)
    BY FS_Interval, LayoutAssumption DEF Pieces
  <2> QED BY <2>1, FS_Subset, Zenon
<1>2. n \in Nat /\ Cardinality(S \cup {i}) = n + 1
  BY <1>1, FS_AddElement, FS_CardinalityType
<1>3. /\ PieceLength \in Nat /\ Length \in Nat /\ PieceCount \in Nat
      /\ i \in Nat /\ last \in Nat
  BY LayoutAssumption DEF Pieces
<1>4. (n + 1) * PieceLength = n * PieceLength + PieceLength /\ n * PieceLength \in Nat
  BY <1>2, <1>3
<1>5. PieceLength * PieceCount = last * PieceLength + PieceLength
  BY <1>3
<1> DEFINE rest == PieceLength * PieceCount - Length
           bytes == n * PieceLength
<1>6. /\ BytesIn(S) = bytes - (IF last \in S THEN rest ELSE 0)
      /\ BytesIn(S \cup {i}) = (bytes + PieceLength) - (IF last \in S \cup {i} THEN rest ELSE 0)
  <2>1. BytesIn(S) = bytes - (IF last \in S THEN rest ELSE 0)
    BY Zenon DEF BytesIn
  <2>2. BytesIn(S \cup {i}) =
          Cardinality(S \cup {i}) * PieceLength - (IF last \in S \cup {i} THEN rest ELSE 0)
    BY Zenon DEF BytesIn
  <2>3. Cardinality(S \cup {i}) * PieceLength = bytes + PieceLength
    BY <1>2, <1>4
  <2>4. BytesIn(S \cup {i}) = (bytes + PieceLength) - (IF last \in S \cup {i} THEN rest ELSE 0)
    BY <2>2, <2>3, Zenon
  <2> QED BY <2>1, <2>4
<1>7. bytes \in Nat /\ rest \in Int
  BY <1>3, <1>4
<1>8. CASE i = last
  <2>1. calc_piece_length(i) = Length - last * PieceLength
    BY <1>3, <1>8 DEF calc_piece_length
  <2>2. calc_piece_length(i) = PieceLength - rest
    BY <1>3, <1>5, <2>1
  <2> HIDE DEF rest, bytes, last, n
  <2> QED BY <1>3, <1>6, <1>7, <1>8, <2>2
<1>9. CASE i # last
  <2>1. calc_piece_length(i) = PieceLength
    BY <1>3, <1>9 DEF calc_piece_length
  <2> HIDE DEF rest, bytes, last, n
  <2> QED BY <1>3, <1>6, <1>7, <1>9, <2>1
<1> QED BY <1>8, <1>9

\* Closing peers completes nothing, and tells nobody anything.
LEMMA CloseStays ==
  ASSUME active \subseteq Peers, NEW C \in SUBSET Peers, Close(C)
  PROVE  Stays
BY DEF Close, PeerClose, Reset, Stays

LEMMA RecvBlockStays ==
  ASSUME IInv, NEW p \in Peers, RecvBlock(p)
  PROVE  Stays \/ \E i \in Pieces : Gains(i)
<1>1. /\ active \subseteq Peers /\ wire[p] \in Seq(Block)
      /\ announced \in [Peers -> SUBSET Pieces] /\ HaveUnbuffered
  BY InvParts DEF PeerType, TorrentType, Owned
<1>2. PICK k \in 1 .. Len(wire[p]), intact \in BOOLEAN :
        LET b == wire[p][k]
            onwire == [wire EXCEPT ![p] =
                         SubSeq(@, 1, k - 1) \o SubSeq(@, k + 1, Len(@))]
        IN  \/ RefuseBlock(p, b)
            \/ StoreBlock(p, b, intact, onwire)
            \/ CompletePiece(p, b, intact, onwire)
            \/ FailPiece(p, b, intact, onwire)
  BY Zenon DEF RecvBlock
<1> DEFINE b == wire[p][k]
           onwire == [wire EXCEPT ![p] =
                        SubSeq(@, 1, k - 1) \o SubSeq(@, k + 1, Len(@))]
<1>3. b.index \in Pieces
  <2>1. b \in Block
    BY <1>1, ElementOfSeq
  <2> HIDE DEF b
  <2> QED BY <2>1 DEF Block
<1>4. \/ RefuseBlock(p, b) \/ StoreBlock(p, b, intact, onwire)
      \/ CompletePiece(p, b, intact, onwire) \/ FailPiece(p, b, intact, onwire)
  BY <1>2
<1> HIDE DEF b, onwire
<1>5. CASE RefuseBlock(p, b)
  BY <1>1, <1>5, CloseStays DEF RefuseBlock
<1>6. CASE StoreBlock(p, b, intact, onwire)
  <2>1. active' = active \ {}
    BY <1>6 DEF StoreBlock, AfterBlock, PeerClose
  <2> QED BY <1>6, <2>1 DEF StoreBlock, Stays
<1>7. CASE FailPiece(p, b, intact, onwire)
  <2>1. active' = active \ {p} /\ announced' = Reset({p}, announced, {})
    BY <1>7 DEF FailPiece, AfterBlock, PeerClose
  <2> QED BY <1>1, <1>7, <2>1 DEF FailPiece, Stays, Reset
<1>8. CASE CompletePiece(p, b, intact, onwire)
  <2>1. PICK C \in SUBSET active : AfterBlock(C, p, b, onwire) /\ TellHave(C, b.index)
    BY <1>8 DEF CompletePiece
  <2>2. active' = active \ C
    BY <2>1 DEF AfterBlock, PeerClose
  <2>3. \A q \in active' : q \in active /\ announced'[q] = announced[q] \cup {b.index}
    BY <1>1, <2>1, <2>2 DEF TellHave
  <2>4. /\ b.index \in Pieces \ bitfield /\ bitfield' = bitfield \cup {b.index}
        /\ downloaded' = downloaded + calc_piece_length(b.index)
    BY <1>1, <1>3, <1>8 DEF CompletePiece, HaveUnbuffered
  <2>5. Gains(b.index)
    BY <2>3, <2>4 DEF Gains
  <2> QED BY <1>3, <2>5
<1> QED BY <1>4, <1>5, <1>6, <1>7, <1>8

\* Only a block completes a piece.
LEMMA OthersStay ==
  ASSUME IInv, [Next]_vars
  PROVE  Stays \/ \E p \in Peers : RecvBlock(p)
<1>1. active \subseteq Peers /\ announced \in [Peers -> SUBSET Pieces]
  BY InvParts DEF PeerType, TorrentType
<1>2. ASSUME NEW C \in SUBSET active, EnterPeers(C) PROVE Stays
  BY <1>1, <1>2, CloseStays DEF EnterPeers
<1>3. ASSUME NEW p \in Peers, InsertActivePeer(p) PROVE Stays
  BY <1>1, <1>3 DEF InsertActivePeer, Stays
<1>4. ASSUME NEW p \in Peers, Close({p}) PROVE Stays
  BY <1>1, <1>4, CloseStays
<1>5. ASSUME UNCHANGED <<bitfield, downloaded, active, announced>> PROVE Stays
  BY <1>5 DEF Stays
<1>6. CASE UNCHANGED vars
  BY <1>5, <1>6 DEF vars, torrentVars, historyVars
<1>7. CASE BeginRequester \/ EndInterest \/ EndPeers
  BY <1>5, <1>7 DEF BeginRequester, EndInterest, EndPeers, torrentVars, historyVars
<1>8. CASE BeginPeers \/ EndRequest
  BY <1>2, <1>8 DEF BeginPeers, EndRequest
<1>9. CASE InterestStep
  BY <1>4, <1>5, <1>9 DEF InterestStep, UpdateInterest, FailInterest, torrentVars, historyVars
<1>10. CASE RequestStep
  BY <1>4, <1>5, <1>10 DEF RequestStep, SkipChoked, SendRequests, FailRequests, QueueRequests,
                          torrentVars, historyVars
<1>11. ASSUME NEW p \in Peers, RecvChoke(p) PROVE Stays
  BY <1>5, <1>11 DEF RecvChoke
<1>12. CASE PeersStep
  <2>1. PICK p \in Peers :
          \/ NoMessage(p) \/ DropPeer(p) \/ AbortPass(p)
          \/ RecvChoke(p) \/ RecvUnchoke(p) \/ RecvBlock(p)
          \/ \E i \in Pieces : RecvHave(p, i)
          \/ \E S \in SUBSET Pieces : RecvBitfield(p, S)
    BY <1>12 DEF PeersStep
  <2>2. CASE NoMessage(p) \/ DropPeer(p) \/ AbortPass(p) \/ RecvUnchoke(p)
             \/ (\E i \in Pieces : RecvHave(p, i))
             \/ (\E S \in SUBSET Pieces : RecvBitfield(p, S))
    BY <1>4, <1>5, <2>2 DEF NoMessage, DropPeer, AbortPass, RecvUnchoke, RecvHave,
                            RecvBitfield, torrentVars, historyVars
  <2> QED BY <2>1, <2>2, <1>11
<1> QED BY <1>3, <1>6, <1>7, <1>8, <1>9, <1>10, <1>12 DEF Next, PassStep

LEMMA NextStays ==
  ASSUME IInv, [Next]_vars
  PROVE  Stays \/ \E i \in Pieces : Gains(i)
BY OthersStay, RecvBlockStays

\* torrent->downloaded is at all times the bytes of the pieces that we have, provided
\* that it was when the torrent was loaded.
THEOREM DownloadedCounted == Spec => []DownloadedExact
<1>1. Init => DownloadedExact
  BY DEF Init, DownloadedExact
<1>2. IInv /\ DownloadedExact /\ [Next]_vars => DownloadedExact'
  <2> SUFFICES ASSUME IInv, DownloadedExact, [Next]_vars PROVE DownloadedExact'
    OBVIOUS
  <2>1. CASE Stays
    BY <2>1 DEF Stays, DownloadedExact
  <2>2. ASSUME NEW i \in Pieces, Gains(i) PROVE DownloadedExact'
    <3>1. bitfield \in SUBSET Pieces /\ i \in Pieces \ bitfield
      BY <2>2, InvParts DEF TorrentType, Gains
    <3> QED BY <2>2, <3>1, BytesInAdd DEF Gains, DownloadedExact
  <2> QED BY <2>1, <2>2, NextStays
<1> QED BY <1>1, <1>2, DownloadInvariant, PTL DEF Spec

\* Every connected peer has been told of each piece that we have and of no other,
\* however many sends failed while others were told.
THEOREM EveryoneTold == Spec => []AnnouncedExact
<1>1. Init => AnnouncedExact
  BY DEF Init, AnnouncedExact
<1>2. IInv /\ AnnouncedExact /\ [Next]_vars => AnnouncedExact'
  <2> SUFFICES ASSUME IInv, AnnouncedExact, [Next]_vars PROVE AnnouncedExact'
    OBVIOUS
  <2>1. CASE Stays
    BY <2>1 DEF Stays, AnnouncedExact
  <2>2. ASSUME NEW i \in Pieces, Gains(i) PROVE AnnouncedExact'
    BY <2>2 DEF Gains, AnnouncedExact
  <2> QED BY <2>1, <2>2, NextStays
<1> QED BY <1>1, <1>2, DownloadInvariant, PTL DEF Spec

\* A piece that we have is never lost, and a piece is counted in the step that
\* completes it, and in no other.
THEOREM PiecesNeverLost == Spec => HaveForGood
<1>1. IInv /\ [Next]_vars =>
        [ /\ bitfield \subseteq bitfield'
          /\ (downloaded' # downloaded) = (bitfield' # bitfield) ]_vars
  <2> SUFFICES ASSUME IInv, [Next]_vars
               PROVE  /\ bitfield \subseteq bitfield'
                      /\ (downloaded' # downloaded) = (bitfield' # bitfield)
    OBVIOUS
  <2>1. CASE Stays
    BY <2>1 DEF Stays
  <2>2. ASSUME NEW i \in Pieces, Gains(i)
        PROVE  bitfield \subseteq bitfield' /\ bitfield' # bitfield /\ downloaded' # downloaded
    <3>1. downloaded \in Nat /\ calc_piece_length(i) \in Nat \ {0}
      BY BlockCountType, InvParts DEF TorrentType
    <3> QED BY <2>2, <3>1 DEF Gains
  <2> QED BY <2>1, <2>2, NextStays
<1> QED BY <1>1, DownloadInvariant, PTL DEF Spec, HaveForGood

-----------------------------------------------------------------------------
(***************************************************************************)
(* The cursor of the loops                                                 *)
(***************************************************************************)

\* A loop goes on to a node that is still there, if its body closed only the peer
\* whose turn it was, and that is no longer to come.
LEMMA AdvanceSafe ==
  ASSUME Advance({}) PROVE pc' = pc
BY DEF Advance

LEMMA EnterSafe ==
  ASSUME NEW loop \in Loops, NEW S, EnterLoop(loop, S) PROVE pc' \in Loops
BY DEF EnterLoop

\* After a message the pass goes on to the next peer, or ends.
LEMMA PeersPass ==
  ASSUME PeersStep
  PROVE  Return \/ \E C \in SUBSET active : Advance(C) /\ (C # {} => "send" \in Faults)
<1> DEFINE Goes == \E C \in SUBSET active : Advance(C) /\ (C # {} => "send" \in Faults)
<1>1. ASSUME Advance({}) PROVE Goes
  BY <1>1
<1>2. ASSUME NEW p \in Peers, RecvBlock(p) PROVE Goes
  <2>1. ASSUME NEW b, NEW intact, NEW onwire, CompletePiece(p, b, intact, onwire) PROVE Goes
    BY <2>1 DEF CompletePiece
  <2>2. PICK b, intact, onwire :
          \/ RefuseBlock(p, b) \/ StoreBlock(p, b, intact, onwire)
          \/ CompletePiece(p, b, intact, onwire) \/ FailPiece(p, b, intact, onwire)
    BY <1>2, Zenon DEF RecvBlock
  <2> HIDE DEF Goes
  <2> QED BY <1>1, <2>1, <2>2 DEF RefuseBlock, StoreBlock, FailPiece
<1> HIDE DEF Goes
<1>3. Return \/ Goes
  BY <1>1, <1>2 DEF PeersStep, NoMessage, DropPeer, AbortPass, RecvChoke, RecvUnchoke,
                    RecvHave, RecvBitfield
<1> QED BY <1>3 DEF Goes

\* What a step does to the cursor: nothing, or it goes on, returns or begins a loop.
LEMMA NextPass ==
  ASSUME IInv, [Next]_vars
  PROVE  \/ UNCHANGED passVars \/ Return
         \/ \E C \in SUBSET active : Advance(C) /\ (C # {} => "send" \in Faults)
         \/ \E loop \in Loops, S \in SUBSET Peers : EnterLoop(loop, S)
<1> DEFINE Goes == \E C \in SUBSET active : Advance(C) /\ (C # {} => "send" \in Faults)
           Enters == \E loop \in Loops, S \in SUBSET Peers : EnterLoop(loop, S)
<1>1. ASSUME Advance({}) PROVE Goes
  BY <1>1
<1>2. CASE BeginRequester \/ BeginPeers \/ EndInterest \/ EndRequest
  <2>1. active \subseteq Peers /\ {"interest", "request", "peers"} \subseteq Loops
    BY InvParts DEF PeerType, Loops
  <2>2. BeginPeers \/ EndRequest => \E C \in SUBSET active : EnterPeers(C)
    BY DEF BeginPeers, EndRequest
  <2> QED BY <1>2, <2>1, <2>2 DEF BeginRequester, EndInterest, EnterPeers
<1>3. CASE InterestStep
  BY <1>1, <1>3 DEF InterestStep, UpdateInterest, FailInterest
<1>4. CASE RequestStep
  BY <1>1, <1>4 DEF RequestStep, SkipChoked, SendRequests, FailRequests, QueueRequests
<1>5. CASE PeersStep
  BY <1>5, PeersPass
<1> HIDE DEF Goes, Enters
<1>6. CASE UNCHANGED vars \/ EndPeers \/ \E p \in Peers : InsertActivePeer(p)
  BY <1>6 DEF vars, EndPeers, InsertActivePeer
<1> QED BY <1>2, <1>3, <1>4, <1>5, <1>6 DEF Next, PassStep, Goes, Enters

LEMMA NextSafe ==
  ASSUME IInv, [Next]_vars, "send" \notin Faults, pc # "crashed"
  PROVE  pc' # "crashed"
<1>1. "crashed" \notin Loops
  BY DEF Loops
<1> QED BY <1>1, NextPass, AdvanceSafe, EnterSafe DEF passVars, Return

\* The loops over the peers never follow a node that was freed, unless telling others
\* of a completed piece fails.
THEOREM LoopsStayOnList == Spec => []CursorSafe
<1>1. Init => CursorSafe
  BY DEF Init, CursorSafe, CursorOK
<1>2. IInv /\ CursorSafe /\ [Next]_vars => CursorSafe'
  <2> SUFFICES ASSUME IInv, CursorSafe, [Next]_vars PROVE CursorSafe'
    OBVIOUS
  <2>1. CursorOK'
    BY NextInv DEF IInv
  <2>2. "send" \notin Faults => pc' # "crashed"
    BY NextSafe DEF CursorSafe
  <2> QED BY <2>1, <2>2 DEF CursorSafe
<1> QED BY <1>1, <1>2, DownloadInvariant, PTL DEF Spec

-----------------------------------------------------------------------------
(***************************************************************************)
(* Requests: no list asks twice for a block                                *)
(***************************************************************************)

Distinct(s) ==
  \A j, k \in 1 .. Len(s) : s[j].index = s[k].index /\ s[j].begin = s[k].begin => j = k

LEMMA DistinctConcat ==
  ASSUME NEW s \in Seq(Request), NEW t \in Seq(Request), Distinct(s), Distinct(t),
         Indexes(s) \cap Indexes(t) = {}
  PROVE  Distinct(s \o t)
<1> DEFINE u == s \o t
<1>1. /\ Len(s) \in Nat /\ Len(t) \in Nat /\ Len(u) = Len(s) + Len(t)
      /\ \A j \in 1 .. Len(s) : u[j] = s[j]
      /\ \A j \in Len(s) + 1 .. Len(u) : j - Len(s) \in 1 .. Len(t) /\ u[j] = t[j - Len(s)]
  BY ConcatProperties
<1>2. ASSUME NEW j \in 1 .. Len(s), NEW k \in 1 .. Len(t) PROVE s[j].index # t[k].index
  BY DEF Indexes
<1> HIDE DEF u
<1> SUFFICES ASSUME NEW j \in 1 .. Len(u), NEW k \in 1 .. Len(u),
                    u[j].index = u[k].index, u[j].begin = u[k].begin
             PROVE  j = k
  BY DEF Distinct, u
<1>3. CASE j <= Len(s) /\ k <= Len(s)
  <2>1. j \in 1 .. Len(s) /\ k \in 1 .. Len(s)
    BY <1>1, <1>3
  <2>2. u[j] = s[j] /\ u[k] = s[k]
    BY <1>1, <2>1
  <2> QED BY <2>1, <2>2 DEF Distinct
<1>4. CASE j > Len(s) /\ k > Len(s)
  <2>1. j \in Len(s) + 1 .. Len(u) /\ k \in Len(s) + 1 .. Len(u)
    BY <1>1, <1>4
  <2>2. /\ u[j] = t[j - Len(s)] /\ u[k] = t[k - Len(s)]
        /\ j - Len(s) \in 1 .. Len(t) /\ k - Len(s) \in 1 .. Len(t)
    BY <1>1, <2>1
  <2>3. j - Len(s) = k - Len(s)
    BY <2>2 DEF Distinct
  <2> QED BY <1>1, <2>1, <2>3
<1>5. CASE j <= Len(s) /\ k > Len(s)
  <2>1. j \in 1 .. Len(s) /\ k \in Len(s) + 1 .. Len(u)
    BY <1>1, <1>5
  <2>2. u[j] = s[j] /\ u[k] = t[k - Len(s)] /\ k - Len(s) \in 1 .. Len(t)
    BY <1>1, <2>1
  <2> QED BY <1>2, <2>1, <2>2
<1>6. CASE j > Len(s) /\ k <= Len(s)
  <2>1. k \in 1 .. Len(s) /\ j \in Len(s) + 1 .. Len(u)
    BY <1>1, <1>6
  <2>2. u[k] = s[k] /\ u[j] = t[j - Len(s)] /\ j - Len(s) \in 1 .. Len(t)
    BY <1>1, <2>1
  <2> QED BY <1>2, <2>1, <2>2
<1> QED BY <1>1, <1>3, <1>4, <1>5, <1>6

\* A sequence without its k-th element, and where what is left of it was before.
Cut(s, k) == SubSeq(s, 1, k - 1) \o SubSeq(s, k + 1, Len(s))
Past(j, k) == IF j < k THEN j ELSE j + 1

LEMMA CutProperties ==
  ASSUME NEW S, NEW s \in Seq(S), NEW k \in 1 .. Len(s)
  PROVE  /\ Cut(s, k) \in Seq(S) /\ Len(Cut(s, k)) = Len(s) - 1 /\ Len(s) \in Nat
         /\ \A j \in 1 .. Len(s) - 1 :
              Past(j, k) \in 1 .. Len(s) /\ Past(j, k) # k /\ Cut(s, k)[j] = s[Past(j, k)]
<1> DEFINE l == SubSeq(s, 1, k - 1)
           r == SubSeq(s, k + 1, Len(s))
           t == l \o r
<1>1. Len(s) \in Nat /\ k \in Nat /\ 1 <= k /\ k <= Len(s)
  OBVIOUS
<1>2. \A j \in 1 .. Len(s) : s[j] \in S
  BY ElementOfSeq
<1>3. /\ l \in Seq(S) /\ Len(l) = k - 1
      /\ \A j \in 1 .. k - 1 : l[j] = s[j]
  BY <1>1, <1>2, SubSeqProperties
<1>4. /\ r \in Seq(S) /\ Len(r) = Len(s) - k
      /\ \A j \in 1 .. Len(s) - k : r[j] = s[k + j]
  BY <1>1, <1>2, SubSeqProperties
<1> HIDE DEF l, r
<1>5. /\ t \in Seq(S) /\ Len(t) = Len(l) + Len(r)
      /\ \A j \in 1 .. Len(l) + Len(r) : t[j] = IF j <= Len(l) THEN l[j] ELSE r[j - Len(l)]
  BY <1>3, <1>4, ConcatProperties
<1> HIDE DEF t
<1>6. Len(t) = Len(s) - 1
  BY <1>1, <1>3, <1>4, <1>5
<1>7. ASSUME NEW j \in 1 .. Len(s) - 1
      PROVE  Past(j, k) \in 1 .. Len(s) /\ Past(j, k) # k /\ t[j] = s[Past(j, k)]
  <2>1. CASE j < k
    <3>1. j \in 1 .. k - 1 /\ j <= Len(l) /\ Past(j, k) = j
      BY <1>1, <1>3, <2>1 DEF Past
    <3>2. t[j] = l[j] /\ l[j] = s[j]
      BY <1>1, <1>3, <1>5, <1>6, <3>1
    <3> QED BY <1>1, <3>1, <3>2
  <2>2. CASE j >= k
    <3>1. /\ j - Len(l) \in 1 .. Len(s) - k /\ ~ (j <= Len(l)) /\ Past(j, k) = j + 1
          /\ k + (j - Len(l)) = j + 1
      BY <1>1, <1>3, <2>2 DEF Past
    <3>2. t[j] = r[j - Len(l)] /\ r[j - Len(l)] = s[k + (j - Len(l))]
      BY <1>1, <1>4, <1>5, <1>6, <3>1
    <3> QED BY <1>1, <2>2, <3>1, <3>2
  <2> QED BY <1>1, <2>1, <2>2
<1>8. Cut(s, k) = t
  BY DEF Cut, t, l, r
<1> QED BY <1>1, <1>5, <1>6, <1>7, <1>8

\* What is left of it is in the same order.
LEMMA PastOrder ==
  ASSUME NEW j \in Nat, NEW m \in Nat, NEW k \in Nat
  PROVE  Past(j, k) = Past(m, k) => j = m
BY DEF Past

LEMMA WithoutCut ==
  ASSUME NEW s \in Seq(Request), NEW b \in Block, Matches(s, b) # {}
  PROVE  \E k \in Matches(s, b) : Without(s, b) = Cut(s, k)
BY DEF Without, Cut

\* Striking a request keeps the others apart.
LEMMA DistinctWithout ==
  ASSUME NEW s \in Seq(Request), NEW b \in Block, Distinct(s)
  PROVE  Distinct(Without(s, b)) /\ (s = <<>> => Without(s, b) = <<>>)
<1>1. CASE Matches(s, b) = {}
  BY <1>1 DEF Without
<1>2. CASE Matches(s, b) # {}
  <2>1. PICK k \in Matches(s, b) : Without(s, b) = Cut(s, k)
    BY <1>2, WithoutCut
  <2>2. k \in 1 .. Len(s) /\ s # <<>>
    BY <2>1 DEF Matches
  <2>3. /\ Len(Cut(s, k)) = Len(s) - 1 /\ Len(s) \in Nat
        /\ \A j \in 1 .. Len(s) - 1 :
             Past(j, k) \in 1 .. Len(s) /\ Cut(s, k)[j] = s[Past(j, k)]
    BY <2>2, CutProperties
  <2>4. Distinct(Cut(s, k))
    BY <2>2, <2>3, PastOrder DEF Distinct
  <2> QED BY <2>1, <2>2, <2>4
<1> QED BY <1>1, <1>2

\* The requests for a piece begin at different places.
LEMMA DistinctRequests ==
  ASSUME NEW i \in Pieces
  PROVE  Distinct(RequestsFor(i))
<1> DEFINE n == BlockCount(i)
<1>1. n \in Nat /\ Len(RequestsFor(i)) = n
  BY BlockCountType, RequestsForProperties
<1>2. \A k \in 1 .. n : RequestsFor(i)[k].begin = (k - 1) * RequestSize
  BY DEF RequestsFor
<1>3. ASSUME NEW j \in Int, NEW k \in Int, NEW r \in Nat \ {0}, (j - 1) * r = (k - 1) * r
      PROVE  j = k
  <2>1. (j - k) * r = 0
    BY <1>3, SMT
  <2> QED BY <2>1, SMT
<1>4. RequestSize \in Nat \ {0}
  BY LayoutAssumption
<1> HIDE DEF n
<1>5. ASSUME NEW j \in 1 .. n, NEW k \in 1 .. n,
             RequestsFor(i)[j].begin = RequestsFor(i)[k].begin
      PROVE  j = k
  <2>1. (j - 1) * RequestSize = (k - 1) * RequestSize
    BY <1>2, <1>5
  <2> QED BY <1>1, <1>3, <1>4, <2>1
<1> QED BY <1>1, <1>5 DEF Distinct

\* Marking requests as sent moves none.
LEMMA DistinctMarked ==
  ASSUME NEW s \in Seq(Request), NEW n \in Nat, Distinct(s)
  PROVE  Distinct(MarkSent(s, n)) /\ (s = <<>> => MarkSent(s, n) = <<>>)
<1>1. Len(MarkSent(s, n)) = Len(s) /\ MarkSent(s, n) \in Seq(Request)
  <2>1. Len(s) \in Nat
    OBVIOUS
  <2> QED BY <2>1, MarkSentProperties DEF MarkSent
<1>2. ASSUME NEW k \in 1 .. Len(s)
      PROVE  MarkSent(s, n)[k].index = s[k].index /\ MarkSent(s, n)[k].begin = s[k].begin
  <2>1. s[k] \in Request
    BY ElementOfSeq
  <2> QED BY <2>1 DEF MarkSent, Request
<1> QED BY <1>1, <1>2, EmptySeq DEF Distinct

-----------------------------------------------------------------------------
(***************************************************************************)
(* Requests and interest, step by step                                     *)
(***************************************************************************)

\* What a step leaves of a list: nothing, all, all but one, or all with some marked.
Left(p) ==
  LET s == out_piece_requests[p]
  IN  {<<>>, s} \cup {Without(s, b) : b \in Block} \cup {MarkSent(s, n) : n \in Nat}

\* No list gains a request, and a peer that keeps one keeps what it was told.
Shrinks ==
  \A q \in Peers :
    /\ out_piece_requests'[q] \in Left(q)
    /\ out_piece_requests'[q] # <<>> => we_interested'[q] = we_interested[q]

\* Requests, interest, buffers and pieces stay as they are.
SameRequests ==
  UNCHANGED <<out_piece_requests, we_interested, peer_bitfield, bitfield, in_piece_buf, active>>

LEMMA CloseShrinks ==
  ASSUME NEW C \in SUBSET Peers, Close(C) PROVE Shrinks
BY DEF Close, PeerClose, Reset, Shrinks, Left

LEMMA SameShrinks ==
  ASSUME UNCHANGED <<out_piece_requests, we_interested>> PROVE Shrinks
BY DEF Shrinks, Left

LEMMA AfterBlockShrinks ==
  ASSUME PeerType, NEW C \in SUBSET Peers, NEW p \in Peers, NEW b \in Block, NEW onwire,
         AfterBlock(C, p, b, onwire)
  PROVE  Shrinks
<1>1. /\ out_piece_requests' = Reset(C, OutAfter(p, b), <<>>)
      /\ we_interested' = Reset(C, we_interested, FALSE)
  BY DEF AfterBlock, PeerClose
<1>2. \A q \in Peers : OutAfter(p, b)[q] \in Left(q)
  BY DEF OutAfter, PeerType, Left
<1>3. \A q \in Peers : out_piece_requests'[q] \in Left(q)
  BY <1>1, <1>2 DEF Reset, Left
<1>4. \A q \in Peers : out_piece_requests'[q] # <<>> => we_interested'[q] = we_interested[q]
  BY <1>1 DEF Reset
<1> QED BY <1>3, <1>4 DEF Shrinks

LEMMA RecvBlockShrinks ==
  ASSUME IInv, NEW p \in Peers, RecvBlock(p)
  PROVE  Shrinks
<1>1. PeerType /\ active \subseteq Peers /\ wire[p] \in Seq(Block)
  BY InvParts DEF PeerType
<1>2. PICK k \in 1 .. Len(wire[p]), intact \in BOOLEAN :
        LET b == wire[p][k]
            onwire == [wire EXCEPT ![p] =
                         SubSeq(@, 1, k - 1) \o SubSeq(@, k + 1, Len(@))]
        IN  \/ RefuseBlock(p, b)
            \/ StoreBlock(p, b, intact, onwire)
            \/ CompletePiece(p, b, intact, onwire)
            \/ FailPiece(p, b, intact, onwire)
  BY Zenon DEF RecvBlock
<1> DEFINE b == wire[p][k]
           onwire == [wire EXCEPT ![p] =
                        SubSeq(@, 1, k - 1) \o SubSeq(@, k + 1, Len(@))]
<1>3. b \in Block
  BY <1>1, ElementOfSeq
<1>4. \/ RefuseBlock(p, b) \/ StoreBlock(p, b, intact, onwire)
      \/ CompletePiece(p, b, intact, onwire) \/ FailPiece(p, b, intact, onwire)
  BY <1>2
<1> HIDE DEF b, onwire
<1>5. ASSUME NEW C \in SUBSET Peers, AfterBlock(C, p, b, onwire) PROVE Shrinks
  BY <1>1, <1>3, <1>5, AfterBlockShrinks
<1>6. RefuseBlock(p, b) => Close({p})
  BY DEF RefuseBlock
<1>7. ~ RefuseBlock(p, b) => \E C \in SUBSET Peers : AfterBlock(C, p, b, onwire)
  BY <1>1, <1>4 DEF StoreBlock, CompletePiece, FailPiece
<1> QED BY <1>5, <1>6, <1>7, CloseShrinks

\* The only steps that add a request, or change the interest of a peer that has one.
LEMMA NextShrinks ==
  ASSUME IInv, [Next]_vars
  PROVE  \/ Shrinks
         \/ \E p \in Peers : UpdateInterest(p)
         \/ \E p \in Peers, i \in Pieces : QueueRequests(p, i)
<1>1. active \subseteq Peers /\ PeerType
  BY InvParts DEF PeerType
<1>2. ASSUME NEW C \in SUBSET active, EnterPeers(C) PROVE Shrinks
  BY <1>1, <1>2, CloseShrinks DEF EnterPeers
<1>3. ASSUME NEW p \in Peers, Close({p}) PROVE Shrinks
  BY <1>3, CloseShrinks
<1>4. ASSUME UNCHANGED peerVars PROVE Shrinks
  BY <1>4, SameShrinks DEF peerVars
<1>5. CASE UNCHANGED vars \/ BeginRequester \/ EndInterest \/ EndPeers
  BY <1>4, <1>5 DEF vars, BeginRequester, EndInterest, EndPeers
<1>6. CASE BeginPeers \/ EndRequest
  BY <1>2, <1>6 DEF BeginPeers, EndRequest
<1>7. ASSUME NEW p \in Peers, InsertActivePeer(p) PROVE Shrinks
  BY <1>7, SameShrinks DEF InsertActivePeer
<1>8. CASE InterestStep
  BY <1>3, <1>8 DEF InterestStep, FailInterest
<1>9. ASSUME NEW p \in Peers, SendRequests(p) PROVE Shrinks
  <2>1. /\ out_piece_requests' =
             [out_piece_requests EXCEPT ![p] = MarkSent(out_piece_requests[p], SendCount(p))]
        /\ we_interested' = we_interested
    BY <1>9 DEF SendRequests
  <2>2. SendCount(p) \in Nat
    BY <1>1, SendCountType
  <2>3. MarkSent(out_piece_requests[p], SendCount(p)) \in Left(p)
    BY <2>2 DEF Left
  <2>4. \A q \in Peers : out_piece_requests[q] \in Left(q)
    BY DEF Left
  <2> QED BY <1>1, <2>1, <2>3, <2>4 DEF Shrinks, PeerType
<1>10. CASE RequestStep
  BY <1>3, <1>4, <1>9, <1>10 DEF RequestStep, SkipChoked, FailRequests
<1>11. ASSUME NEW p \in Peers, RecvChoke(p) PROVE Shrinks
  BY <1>1, <1>11 DEF RecvChoke, Shrinks, Left, PeerType
<1>12. CASE PeersStep
  <2>1. PICK p \in Peers :
          \/ NoMessage(p) \/ DropPeer(p) \/ AbortPass(p)
          \/ RecvChoke(p) \/ RecvUnchoke(p) \/ RecvBlock(p)
          \/ \E i \in Pieces : RecvHave(p, i)
          \/ \E S \in SUBSET Pieces : RecvBitfield(p, S)
    BY <1>12 DEF PeersStep
  <2>2. CASE NoMessage(p) \/ DropPeer(p) \/ AbortPass(p)
    BY <1>3, <1>4, <2>2 DEF NoMessage, DropPeer, AbortPass
  <2>3. CASE RecvUnchoke(p) \/ (\E i \in Pieces : RecvHave(p, i))
             \/ (\E S \in SUBSET Pieces : RecvBitfield(p, S))
    BY <2>3, SameShrinks DEF RecvUnchoke, RecvHave, RecvBitfield
  <2> QED BY <2>1, <2>2, <2>3, <1>11, RecvBlockShrinks
<1> QED BY <1>5, <1>6, <1>7, <1>8, <1>10, <1>12 DEF Next, PassStep

\* No list ever asks for a block twice: a piece is queued only while no request for it
\* is out, and so after every one of the old requests has gone.
THEOREM NoRequestTwice == Spec => []RequestsUnique
<1>1. Init => RequestsUnique
  BY DEF Init, RequestsUnique
<1>2. IInv /\ RequestsUnique /\ [Next]_vars => RequestsUnique'
  <2> SUFFICES ASSUME IInv, RequestsUnique, [Next]_vars PROVE RequestsUnique'
    OBVIOUS
  <2>1. \A q \in Peers : out_piece_requests[q] \in Seq(Request) /\ Distinct(out_piece_requests[q])
    BY InvParts DEF PeerType, RequestsUnique, Distinct
  <2>2. SUFFICES \A q \in Peers : Distinct(out_piece_requests'[q])
    BY <2>2 DEF RequestsUnique, Distinct
  <2>3. CASE Shrinks
    <3> SUFFICES ASSUME NEW q \in Peers PROVE Distinct(out_piece_requests'[q])
      OBVIOUS
    <3>1. ASSUME NEW t \in Left(q) PROVE Distinct(t)
      <4>1. Distinct(<<>>)
        BY DEF Distinct
      <4> QED BY <2>1, <3>1, <4>1, DistinctWithout, DistinctMarked DEF Left
    <3> QED BY <2>3, <3>1 DEF Shrinks
  <2>4. ASSUME NEW p \in Peers, UpdateInterest(p) PROVE out_piece_requests' = out_piece_requests
    BY <2>4 DEF UpdateInterest
  <2>5. ASSUME NEW p \in Peers, NEW i \in Pieces, QueueRequests(p, i)
        PROVE  \A q \in Peers : Distinct(out_piece_requests'[q])
    <3>1. i \in Interesting(p) /\ out_piece_requests' =
            [out_piece_requests EXCEPT ![p] = @ \o RequestsFor(i)]
      BY <2>5 DEF QueueRequests
    <3>2. i \notin Indexes(out_piece_requests[p])
      BY <3>1 DEF IInv, OwnedBuffered, Outstanding, Interesting
    <3>3. Distinct(out_piece_requests[p] \o RequestsFor(i))
      BY <2>1, <3>2, RequestsForProperties, DistinctRequests, DistinctConcat
    <3> QED BY <2>1, <3>1, <3>3, InvParts DEF PeerType
  <2> QED BY <2>1, <2>3, <2>4, <2>5, NextShrinks
<1> QED BY <1>1, <1>2, DownloadInvariant, PTL DEF Spec

-----------------------------------------------------------------------------
(***************************************************************************)
(* Interest: what interest_update settles lasts until send_requests runs   *)
(***************************************************************************)

\* We told q that we are interested, if there is something that we would ask it for.
Wants(q) == Interesting(q) # {} => we_interested[q]

\* The peers that interest_update has visited are told what they have to be, and so is
\* everybody when send_requests runs, which can only make fewer pieces interesting.
InterestInv ==
  /\ \A q \in Peers : out_piece_requests[q] # <<>> => we_interested[q]
  /\ it = None => todo = {}
  /\ pc = "interest" => \A q \in active \ (todo \cup {it}) : Wants(q)
  /\ pc = "request" => \A q \in active : Wants(q)

LEMMA EndsEmpty ==
  ASSUME IInv, it = None => todo = {}, [Next]_vars
  PROVE  it' = None => todo' = {}
<1>1. None \notin Peers /\ todo \subseteq Peers
  BY InvParts, DownloadAssumption DEF CursorType
<1>2. ASSUME NEW C, Advance(C) PROVE it' = None => todo' = {}
  BY <1>1, <1>2 DEF Advance
<1>3. ASSUME NEW loop, NEW S \in SUBSET Peers, EnterLoop(loop, S) PROVE it' = None => todo' = {}
  BY <1>1, <1>3 DEF EnterLoop
<1> QED BY <1>2, <1>3, NextPass DEF passVars, Return

\* What is left of an empty list is empty.
LEMMA ShrinksTold ==
  ASSUME IInv, Shrinks, \A q \in Peers : out_piece_requests[q] # <<>> => we_interested[q]
  PROVE  \A q \in Peers : out_piece_requests'[q] # <<>> => we_interested'[q]
<1> SUFFICES ASSUME NEW q \in Peers, out_piece_requests'[q] # <<>> PROVE we_interested'[q]
  OBVIOUS
<1>1. out_piece_requests[q] \in Seq(Request)
  BY InvParts DEF PeerType
<1>2. ASSUME out_piece_requests[q] = <<>>, NEW t \in Left(q) PROVE t = <<>>
  <2>1. Distinct(<<>>)
    BY DEF Distinct
  <2> QED BY <1>1, <1>2, <2>1, DistinctWithout, DistinctMarked DEF Left
<1>3. out_piece_requests[q] # <<>>
  BY <1>2 DEF Shrinks
<1> QED BY <1>3 DEF Shrinks

\* A turn of interest_update settles the interest of its peer.
LEMMA UpdateInterestTold ==
  ASSUME IInv, InterestInv, NEW p \in Peers, UpdateInterest(p)
  PROVE  InterestInv'
<1>1. /\ pc = "interest" /\ it = p /\ Advance({}) /\ UNCHANGED <<torrentVars, out_piece_requests>>
      /\ we_interested' = [we_interested EXCEPT ![p] =
                             (@ \/ GainsInterest(p)) /\ ~ LosesInterest(p)]
      /\ peer_bitfield' = peer_bitfield
  BY DEF UpdateInterest, Turn
<1>2. we_interested \in [Peers -> BOOLEAN] /\ active \subseteq Peers /\ None \notin Peers
  BY InvParts, DownloadAssumption DEF PeerType
<1>3. \A q \in Peers \ {p} : we_interested'[q] = we_interested[q]
  BY <1>1, <1>2
<1>4. we_interested'[p] = ((we_interested[p] \/ GainsInterest(p)) /\ ~ LosesInterest(p))
  BY <1>1, <1>2, Zenon
<1>5. \A q \in Peers : Interesting(q)' = Interesting(q)
  BY <1>1 DEF Interesting, torrentVars
<1>6. out_piece_requests[p] # <<>> => we_interested'[p]
  BY <1>4 DEF LosesInterest, InterestInv
<1>7. Interesting(p) # {} => we_interested'[p]
  BY <1>4 DEF LosesInterest, GainsInterest
<1>8. \A q \in Peers : Wants(q) => Wants(q)'
  BY <1>3, <1>5, <1>7 DEF Wants
<1>9. Wants(p)'
  BY <1>5, <1>7 DEF Wants
<1>10. pc' = pc /\ todo' \cup {it'} \cup {p} \cup {None} = todo \cup {p} \cup {None}
  BY <1>1, AdvanceSafe DEF Advance
<1>11. \A q \in active' \ (todo' \cup {it'}) : Wants(q)'
  BY <1>1, <1>2, <1>8, <1>9, <1>10 DEF InterestInv, torrentVars
<1>12. \A q \in Peers : out_piece_requests'[q] # <<>> => we_interested'[q]
  BY <1>1, <1>3, <1>6 DEF InterestInv
<1>13. it' = None => todo' = {}
  BY EndsEmpty DEF InterestInv, Next, PassStep, InterestStep
<1> QED BY <1>1, <1>10, <1>11, <1>12, <1>13 DEF InterestInv

\* A piece is asked for only from a peer that was told.
LEMMA QueueRequestsTold ==
  ASSUME IInv, InterestInv, NEW p \in Peers, NEW i \in Pieces, QueueRequests(p, i)
  PROVE  InterestInv'
<1>1. /\ pc = "request" /\ it = p /\ i \in Interesting(p) /\ p \in active
      /\ UNCHANGED <<we_interested, peer_bitfield, bitfield, active, passVars>>
      /\ in_piece_buf' = in_piece_buf \cup {i}
      /\ \A q \in Peers \ {p} : out_piece_requests'[q] = out_piece_requests[q]
  <2>1. it = p
    BY DEF QueueRequests, Turn
  <2> QED BY <2>1, InvParts, TurnActive DEF QueueRequests, Turn, PeerType
<1>2. we_interested[p]
  BY <1>1 DEF InterestInv, Wants
<1>3. \A q \in Peers : Wants(q) => Wants(q)'
  BY <1>1 DEF Wants, Interesting
<1>4. active \subseteq Peers
  BY InvParts DEF PeerType
<1> QED BY <1>1, <1>2, <1>3, <1>4 DEF InterestInv, passVars

\* The steps outside interest_update and send_requests.
LEMMA ElsewhereTold ==
  ASSUME IInv, InterestInv, [Next]_vars, Shrinks, pc' \notin {"interest", "request"}
  PROVE  InterestInv'
<1>1. it' = None => todo' = {}
  BY EndsEmpty DEF InterestInv
<1>2. \A q \in Peers : out_piece_requests'[q] # <<>> => we_interested'[q]
  BY ShrinksTold DEF InterestInv
<1> QED BY <1>1, <1>2 DEF InterestInv

\* The steps that leave what is interesting, and who was told, as it is.
LEMMA QuietTold ==
  ASSUME IInv, InterestInv, [Next]_vars, Shrinks,
         UNCHANGED <<we_interested, peer_bitfield, bitfield, in_piece_buf, active>>,
         \/ pc' = pc /\ pc # "interest"
         \/ UNCHANGED passVars
         \/ pc' = "interest" /\ active \subseteq todo' \cup {it'}
         \/ pc = "interest" /\ it = None
  PROVE  InterestInv'
<1>1. it' = None => todo' = {}
  BY EndsEmpty DEF InterestInv
<1>2. \A q \in Peers : out_piece_requests'[q] # <<>> => we_interested'[q]
  BY ShrinksTold DEF InterestInv
<1>3. \A q \in Peers : Wants(q)' = Wants(q)
  BY DEF Wants, Interesting
<1>4. active \subseteq Peers /\ None \notin Peers
  BY InvParts, DownloadAssumption DEF PeerType
<1>5. pc' = "request" => \A q \in active' : Wants(q)'
  BY <1>3, <1>4 DEF InterestInv, passVars
<1>6. pc' = "interest" => \A q \in active' \ (todo' \cup {it'}) : Wants(q)'
  BY <1>3, <1>4 DEF InterestInv, passVars
<1> QED BY <1>1, <1>2, <1>5, <1>6 DEF InterestInv

LEMMA NextTold ==
  ASSUME IInv, InterestInv, [Next]_vars, "send" \notin Faults
  PROVE  InterestInv'
<1>1. PeerType /\ active \subseteq Peers
  BY InvParts DEF PeerType
<1>2. ASSUME UNCHANGED <<torrentVars, peerVars>>
      PROVE  Shrinks /\ UNCHANGED <<we_interested, peer_bitfield, bitfield, in_piece_buf, active>>
  BY <1>2, SameShrinks DEF torrentVars, peerVars
<1>3. CASE UNCHANGED vars
  BY <1>2, <1>3, QuietTold DEF vars
<1>4. CASE BeginRequester
  <2>1. pc' = "interest" /\ active \subseteq todo' \cup {it'}
    BY <1>4 DEF BeginRequester, EnterLoop
  <2> QED BY <1>2, <1>4, <2>1, QuietTold DEF BeginRequester
<1>5. CASE EndInterest
  BY <1>2, <1>5, QuietTold DEF EndInterest, Turn
<1>6. CASE BeginPeers \/ EndRequest \/ EndPeers
  <2>1. pc' \in {"peers", "idle"}
    BY <1>6 DEF BeginPeers, EndRequest, EndPeers, EnterPeers, EnterLoop, Return
  <2>2. Shrinks
    <3>1. BeginPeers \/ EndRequest => \E C \in SUBSET active : Close(C)
      BY DEF BeginPeers, EndRequest, EnterPeers
    <3> QED BY <1>1, <1>2, <1>6, <3>1, CloseShrinks DEF EndPeers
  <2> QED BY <2>1, <2>2, ElsewhereTold
<1>7. ASSUME NEW p \in Peers, InsertActivePeer(p) PROVE InterestInv'
  <2>1. pc' = "idle" /\ Shrinks
    BY <1>7, SameShrinks DEF InsertActivePeer, passVars
  <2> QED BY <2>1, ElsewhereTold
<1>8. CASE InterestStep
  BY <1>8, UpdateInterestTold DEF InterestStep, FailInterest
<1>9. CASE RequestStep
  <2>1. ASSUME NEW p \in Peers, SkipChoked(p) \/ SendRequests(p) PROVE InterestInv'
    <3>1. pc = "request" /\ pc' = pc
      BY <2>1, AdvanceSafe DEF SkipChoked, SendRequests, Queued, Turn
    <3>2. UNCHANGED <<we_interested, peer_bitfield, bitfield, in_piece_buf, active>>
      BY <2>1 DEF SkipChoked, SendRequests, torrentVars, peerVars
    <3>3. Shrinks
      <4>1. \A q \in Peers : ~ UpdateInterest(q)
        BY <3>1 DEF UpdateInterest, Turn
      <4>2. \A q \in Peers, i \in Pieces : QueueRequests(q, i) => i \in in_piece_buf'
        BY DEF QueueRequests
      <4>3. \A q \in Peers, i \in Pieces : ~ QueueRequests(q, i)
        BY <3>2, <4>2 DEF QueueRequests, Interesting
      <4> QED BY <4>1, <4>3, NextShrinks
    <3> QED BY <3>1, <3>2, <3>3, QuietTold
  <2> QED BY <1>9, <2>1, QueueRequestsTold DEF RequestStep, FailRequests
<1>10. CASE PeersStep
  <2>1. pc = "peers"
    BY <1>10 DEF PeersStep, NoMessage, DropPeer, AbortPass, RecvChoke, RecvUnchoke, RecvBlock,
                 RecvHave, RecvBitfield, Turn
  <2>2. pc' \notin {"interest", "request"}
    <3>1. Return \/ \E C \in SUBSET active : Advance(C)
      BY <1>10, PeersPass
    <3> QED BY <2>1, <3>1 DEF Return, Advance
  <2>3. Shrinks
    BY <2>1, NextShrinks DEF UpdateInterest, QueueRequests, Turn
  <2> QED BY <2>2, <2>3, ElsewhereTold
<1> QED BY <1>3, <1>4, <1>5, <1>6, <1>7, <1>8, <1>9, <1>10 DEF Next, PassStep

\* Unless a send fails, nobody is asked for a block before being told of our interest,
\* and nobody that still owes us one is told that it is gone.
THEOREM AskedAreTold == Spec => []InterestTold
<1>1. Init => InterestInv
  BY DEF Init, InterestInv
<1>2. IInv /\ ("send" \notin Faults => InterestInv) /\ [Next]_vars
        => ("send" \notin Faults => InterestInv)'
  BY NextTold
<1>3. ("send" \notin Faults => InterestInv) => InterestTold
  BY DEF InterestInv, InterestTold
<1> QED BY <1>1, <1>2, <1>3, DownloadInvariant, PTL DEF Spec

-----------------------------------------------------------------------------
(***************************************************************************)
(* The list of a peer, its two counters, and what the peer has of it       *)
(***************************************************************************)

\* What a step does to them: nothing,
Kept(q) ==
  /\ out_piece_requests'[q] = out_piece_requests[q] /\ wire'[q] = wire[q]
  /\ sent_request_count'[q] = sent_request_count[q]
  /\ total_out_request_count'[q] = total_out_request_count[q]

\* all of them go, with a choke or a close,
Cleared(q) ==
  /\ out_piece_requests'[q] = <<>> /\ Len(wire'[q]) \in 0 .. MaxLate
  /\ sent_request_count'[q] = 0 /\ total_out_request_count'[q] = 0

\* one is answered,
Struck(q, k) ==
  LET b == wire[q][k]
      known == Matches(out_piece_requests[q], b) # {}
  IN  /\ out_piece_requests'[q] = Without(out_piece_requests[q], b)
      /\ wire'[q] = Cut(wire[q], k)
      /\ sent_request_count'[q] =
           IF known THEN Decrement(sent_request_count[q]) ELSE sent_request_count[q]
      /\ total_out_request_count'[q] =
           IF known THEN Decrement(total_out_request_count[q]) ELSE total_out_request_count[q]

\* some are sent,
SentBlocks(s, n) ==
  [k \in 1 .. n |-> [index |-> s[FirstUnsent(s) + k - 1].index,
                     begin |-> s[FirstUnsent(s) + k - 1].begin]]
Marked(q) ==
  LET s == out_piece_requests[q]
      n == SendCount(q)
  IN  /\ out_piece_requests'[q] = MarkSent(s, n)
      /\ wire'[q] = wire[q] \o SentBlocks(s, n)
      /\ sent_request_count'[q] = sent_request_count[q] + n
      /\ total_out_request_count'[q] = total_out_request_count[q]

\* or those of a piece are added.
Grown(q, i) ==
  /\ ~ QueueFull(q) /\ i \in Interesting(q)
  /\ out_piece_requests'[q] = out_piece_requests[q] \o RequestsFor(i)
  /\ total_out_request_count'[q] =
       (total_out_request_count[q] + BlockCount(i)) % CountModulus
  /\ wire'[q] = wire[q] /\ sent_request_count'[q] = sent_request_count[q]

ListStep(q) ==
  \/ Kept(q) \/ Cleared(q) \/ Marked(q)
  \/ \E k \in 1 .. Len(wire[q]) : Struck(q, k)
  \/ \E i \in Pieces : Grown(q, i)

LEMMA CloseList ==
  ASSUME NEW C \in SUBSET Peers, Close(C) PROVE \A q \in Peers : ListStep(q)
BY DownloadAssumption, EmptySeq DEF Close, PeerClose, Reset, ListStep, Kept, Cleared

LEMMA AfterBlockList ==
  ASSUME PeerType, NEW C \in SUBSET Peers, NEW p \in Peers, NEW k \in 1 .. Len(wire[p]),
         AfterBlock(C, p, wire[p][k], [wire EXCEPT ![p] = Cut(@, k)])
  PROVE  \A q \in Peers : ListStep(q)
<1> DEFINE b == wire[p][k]
           onwire == [wire EXCEPT ![p] = Cut(@, k)]
           known == Matches(out_piece_requests[p], b) # {}
<1>1. /\ out_piece_requests' = Reset(C, OutAfter(p, b), <<>>)
      /\ sent_request_count' = Reset(C, CountAfter(sent_request_count, p, b), 0)
      /\ total_out_request_count' = Reset(C, CountAfter(total_out_request_count, p, b), 0)
      /\ wire' = Reset(C, onwire, <<>>)
  BY DEF AfterBlock, PeerClose
<1>2. ASSUME NEW q \in C PROVE Cleared(q)
  BY <1>1, DownloadAssumption, EmptySeq DEF Reset, Cleared
<1>3. ASSUME NEW q \in Peers \ C, q # p PROVE Kept(q)
  BY <1>1, <1>3 DEF Reset, Kept, OutAfter, CountAfter, PeerType
<1>4. ASSUME p \notin C PROVE Struck(p, k)
  <2>1. /\ out_piece_requests'[p] = Without(out_piece_requests[p], b)
        /\ wire'[p] = Cut(wire[p], k)
    BY <1>1, <1>4 DEF Reset, OutAfter, PeerType
  <2>2. /\ sent_request_count'[p] =
             IF known THEN Decrement(sent_request_count[p]) ELSE sent_request_count[p]
        /\ total_out_request_count'[p] =
             IF known THEN Decrement(total_out_request_count[p]) ELSE total_out_request_count[p]
    BY <1>1, <1>4 DEF Reset, CountAfter, PeerType
  <2> QED BY <2>1, <2>2 DEF Struck
<1> QED BY <1>2, <1>3, <1>4 DEF ListStep

LEMMA RecvBlockList ==
  ASSUME IInv, NEW p \in Peers, RecvBlock(p)
  PROVE  \A q \in Peers : ListStep(q)
<1>1. PeerType /\ active \subseteq Peers
  BY InvParts DEF PeerType
<1>2. PICK k \in 1 .. Len(wire[p]), intact \in BOOLEAN :
        LET b == wire[p][k]
            onwire == [wire EXCEPT ![p] =
                         SubSeq(@, 1, k - 1) \o SubSeq(@, k + 1, Len(@))]
        IN  \/ RefuseBlock(p, b)
            \/ StoreBlock(p, b, intact, onwire)
            \/ CompletePiece(p, b, intact, onwire)
            \/ FailPiece(p, b, intact, onwire)
  BY Zenon DEF RecvBlock
<1> DEFINE b == wire[p][k]
           onwire == [wire EXCEPT ![p] = Cut(@, k)]
<1>3. \/ RefuseBlock(p, b) \/ StoreBlock(p, b, intact, onwire)
      \/ CompletePiece(p, b, intact, onwire) \/ FailPiece(p, b, intact, onwire)
  BY <1>2 DEF Cut
<1>4. ASSUME NEW C \in SUBSET Peers, AfterBlock(C, p, b, onwire)
      PROVE  \A q \in Peers : ListStep(q)
  BY <1>1, <1>4, AfterBlockList
<1> HIDE DEF b, onwire
<1>5. RefuseBlock(p, b) => Close({p})
  BY DEF RefuseBlock
<1>6. ~ RefuseBlock(p, b) => \E C \in SUBSET Peers : AfterBlock(C, p, b, onwire)
  BY <1>1, <1>3 DEF StoreBlock, CompletePiece, FailPiece
<1> QED BY <1>4, <1>5, <1>6, CloseList

LEMMA RecvChokeList ==
  ASSUME IInv, NEW p \in Peers, RecvChoke(p)
  PROVE  \A q \in Peers : ListStep(q)
<1>1. PeerType
  BY InvParts
<1>2. \A q \in Peers \ {p} : Kept(q)
  BY <1>1 DEF RecvChoke, Kept, PeerType
<1>3. Cleared(p)
  <2>1. /\ out_piece_requests'[p] = <<>> /\ sent_request_count'[p] = 0
        /\ total_out_request_count'[p] = 0
    BY <1>1 DEF RecvChoke, PeerType
  <2>2. Len(wire'[p]) \in 0 .. MaxLate
    <3>1. PICK k \in 0 .. Len(wire[p]) :
            /\ Len(wire[p]) - k <= MaxLate
            /\ wire' = [wire EXCEPT ![p] = SubSeq(@, k + 1, Len(@))]
      BY DEF RecvChoke
    <3>2. wire[p] \in Seq(Block) /\ Len(wire[p]) \in Nat
      BY <1>1 DEF PeerType
    <3>3. wire'[p] = SubSeq(wire[p], k + 1, Len(wire[p]))
      BY <1>1, <3>1 DEF PeerType
    <3>4. Len(SubSeq(wire[p], k + 1, Len(wire[p]))) = Len(wire[p]) - k
      BY <3>1, <3>2, SubSeqProperties
    <3> QED BY <3>1, <3>2, <3>3, <3>4, DownloadAssumption
  <2> QED BY <2>1, <2>2 DEF Cleared
<1> QED BY <1>2, <1>3 DEF ListStep

LEMMA NextList ==
  ASSUME IInv, [Next]_vars
  PROVE  \A q \in Peers : ListStep(q)
<1> DEFINE Lists == \A q \in Peers : ListStep(q)
<1>1. active \subseteq Peers /\ PeerType
  BY InvParts DEF PeerType
<1>2. ASSUME NEW C \in SUBSET active, EnterPeers(C) PROVE Lists
  BY <1>1, <1>2, CloseList DEF EnterPeers
<1>3. ASSUME NEW p \in Peers, Close({p}) PROVE Lists
  BY <1>3, CloseList
<1>4. ASSUME UNCHANGED <<out_piece_requests, sent_request_count,
                         total_out_request_count, wire>>
      PROVE  Lists
  BY <1>4 DEF ListStep, Kept
<1>5. ASSUME NEW p \in Peers, RecvBlock(p) PROVE Lists
  BY <1>5, RecvBlockList
<1>6. ASSUME NEW p \in Peers, RecvChoke(p) PROVE Lists
  BY <1>6, RecvChokeList
<1>7. ASSUME NEW p \in Peers, SendRequests(p) PROVE Lists
  <2>1. Marked(p)
    BY <1>1, <1>7 DEF SendRequests, Marked, SentBlocks, PeerType
  <2>2. \A q \in Peers \ {p} : Kept(q)
    BY <1>1, <1>7 DEF SendRequests, Kept, PeerType
  <2> QED BY <2>1, <2>2 DEF ListStep
<1>8. ASSUME NEW p \in Peers, NEW i \in Pieces, QueueRequests(p, i) PROVE Lists
  <2>1. Grown(p, i)
    BY <1>1, <1>8 DEF QueueRequests, Grown, PeerType, historyVars
  <2>2. \A q \in Peers \ {p} : Kept(q)
    BY <1>1, <1>8 DEF QueueRequests, Kept, PeerType, historyVars
  <2> QED BY <2>1, <2>2 DEF ListStep
<1> HIDE DEF Lists
<1>9. ASSUME \/ UNCHANGED vars \/ BeginRequester \/ EndInterest \/ EndPeers
             \/ \E p \in Peers : InsertActivePeer(p)
      PROVE  Lists
  BY <1>4, <1>9 DEF vars, BeginRequester, EndInterest, EndPeers, InsertActivePeer,
                    peerVars, historyVars
<1>10. ASSUME BeginPeers \/ EndRequest PROVE Lists
  BY <1>2, <1>10 DEF BeginPeers, EndRequest
<1>11. ASSUME InterestStep PROVE Lists
  BY <1>3, <1>4, <1>11 DEF InterestStep, UpdateInterest, FailInterest, historyVars
<1>12. ASSUME RequestStep PROVE Lists
  BY <1>3, <1>4, <1>7, <1>8, <1>12 DEF RequestStep, SkipChoked, FailRequests, peerVars, historyVars
<1>13. ASSUME PeersStep PROVE Lists
  <2>1. PICK p \in Peers :
          \/ NoMessage(p) \/ DropPeer(p) \/ AbortPass(p)
          \/ RecvChoke(p) \/ RecvUnchoke(p) \/ RecvBlock(p)
          \/ \E i \in Pieces : RecvHave(p, i)
          \/ \E S \in SUBSET Pieces : RecvBitfield(p, S)
    BY <1>13 DEF PeersStep
  <2>2. CASE NoMessage(p) \/ DropPeer(p) \/ AbortPass(p) \/ RecvUnchoke(p)
             \/ (\E i \in Pieces : RecvHave(p, i))
             \/ (\E S \in SUBSET Pieces : RecvBitfield(p, S))
    BY <1>3, <1>4, <2>2 DEF NoMessage, DropPeer, AbortPass, RecvUnchoke, RecvHave,
                            RecvBitfield, peerVars, historyVars
  <2> QED BY <1>5, <1>6, <2>1, <2>2
<1>14. Lists
  BY <1>9, <1>10, <1>11, <1>12, <1>13 DEF Next, PassStep
<1> QED BY <1>14 DEF Lists

\* A counter that is not 0 does not wrap when it steps down, nor below its range when
\* it steps up.
LEMMA DecrementExact ==
  ASSUME NEW n \in 1 .. CountModulus - 1
  PROVE  Decrement(n) = n - 1
<1>1. CountModulus \in Nat /\ n \in Nat /\ n >= 1 /\ n < CountModulus
  BY DownloadAssumption
<1>2. n + CountModulus - 1 = CountModulus + (n - 1) /\ n - 1 \in 0 .. CountModulus - 1
  BY <1>1
<1>3. \A m \in Nat : \A r \in 0 .. m - 1 : (m + r) % m = r
  BY SMT
<1> QED BY <1>1, <1>2, <1>3 DEF Decrement

\* A list is as long as its count says, and shorter than the limit and a piece.
Counted(q) ==
  /\ total_out_request_count[q] = Len(out_piece_requests[q])
  /\ \E i \in Pieces : total_out_request_count[q] < MaxSentRequests * 2 + BlockCount(i)

LEMMA CountedStep ==
  ASSUME IInv, NEW q \in Peers, Counted(q), ListStep(q)
  PROVE  Counted(q)'
<1> DEFINE s == out_piece_requests[q]
           n == total_out_request_count[q]
<1>1. /\ s \in Seq(Request) /\ Len(s) \in Nat /\ wire[q] \in Seq(Block)
      /\ n \in 0 .. CountModulus - 1 /\ n = Len(s)
  BY InvParts DEF PeerType, Counted
<1>2. \A i \in Pieces : BlockCount(i) \in Nat \ {0}
  BY BlockCountType
<1>3. MaxSentRequests \in Nat \ {0} /\ CountModulus \in Nat
  BY DownloadAssumption
<1>4. PICK i \in Pieces : n < MaxSentRequests * 2 + BlockCount(i)
  BY DEF Counted
<1>5. ASSUME NEW m \in Nat, m <= n, total_out_request_count'[q] = m,
             Len(out_piece_requests'[q]) = m
      PROVE  Counted(q)'
  <2>1. m < MaxSentRequests * 2 + BlockCount(i)
    BY <1>1, <1>2, <1>3, <1>4, <1>5
  <2> QED BY <1>5, <2>1 DEF Counted
<1>6. CASE Kept(q)
  BY <1>1, <1>5, <1>6 DEF Kept
<1>7. CASE Cleared(q)
  BY <1>1, <1>5, <1>7, EmptySeq DEF Cleared
<1>8. CASE Marked(q)
  <2>1. SendCount(q) \in Nat
    BY InvParts, SendCountType
  <2>2. Len(MarkSent(s, SendCount(q))) = Len(s)
    BY <1>1, <2>1, MarkSentProperties
  <2> QED BY <1>1, <1>5, <1>8, <2>2 DEF Marked
<1>9. ASSUME NEW k \in 1 .. Len(wire[q]), Struck(q, k) PROVE Counted(q)'
  <2> DEFINE b == wire[q][k]
  <2>1. b \in Block
    BY <1>1, ElementOfSeq
  <2>2. CASE Matches(s, b) = {}
    BY <1>1, <1>5, <1>9, <2>2 DEF Struck, Without
  <2>3. CASE Matches(s, b) # {}
    <3>1. PICK j \in Matches(s, b) : Without(s, b) = Cut(s, j)
      BY <1>1, <2>1, <2>3, WithoutCut
    <3>2. j \in 1 .. Len(s)
      BY DEF Matches
    <3>3. Len(Without(s, b)) = Len(s) - 1
      BY <1>1, <3>1, <3>2, CutProperties
    <3>4. n \in 1 .. CountModulus - 1 /\ n - 1 \in Nat /\ n - 1 <= n
      BY <1>1, <3>2
    <3>5. Decrement(n) = n - 1
      BY <3>4, DecrementExact
    <3>6. /\ out_piece_requests'[q] = Without(s, b)
          /\ total_out_request_count'[q] = Decrement(n)
      BY <1>9, <2>3 DEF Struck
    <3> HIDE DEF n, s, b
    <3> QED BY <1>1, <1>5, <3>3, <3>4, <3>5, <3>6
  <2> QED BY <2>2, <2>3
<1>10. ASSUME NEW j \in Pieces, Grown(q, j) PROVE Counted(q)'
  <2>1. ~ (n >= MaxSentRequests * 2)
    BY <1>10 DEF Grown, QueueFull
  <2>2. n + BlockCount(j) < MaxSentRequests * 2 + BlockCount(j)
    BY <1>1, <1>2, <1>3, <2>1
  <2>3. MaxSentRequests * 2 + BlockCount(j) <= CountModulus
    BY DownloadAssumption
  <2>4. (n + BlockCount(j)) % CountModulus = n + BlockCount(j)
    <3>1. \A m \in Nat : \A r \in 0 .. m - 1 : r % m = r
      BY SMT
    <3>2. n + BlockCount(j) \in 0 .. CountModulus - 1
      BY <1>1, <1>2, <1>3, <2>2, <2>3
    <3> QED BY <1>3, <3>1, <3>2
  <2>5. Len(out_piece_requests'[q]) = Len(s) + BlockCount(j)
    <3>1. RequestsFor(j) \in Seq(Request) /\ Len(RequestsFor(j)) = BlockCount(j)
      BY RequestsForProperties
    <3>2. out_piece_requests'[q] = s \o RequestsFor(j)
      BY <1>10 DEF Grown
    <3>3. Len(s \o RequestsFor(j)) = Len(s) + BlockCount(j)
      <4> HIDE DEF s
      <4>1. s \in Seq(Request)
        BY <1>1
      <4>2. Len(s \o RequestsFor(j)) = Len(s) + Len(RequestsFor(j))
        BY <3>1, <4>1, ConcatProperties
      <4> QED BY <3>1, <4>2
    <3> HIDE DEF s
    <3> QED BY <3>2, <3>3
  <2>6. total_out_request_count'[q] = n + BlockCount(j)
    BY <1>10, <2>4 DEF Grown
  <2> HIDE DEF n, s
  <2> QED BY <1>1, <2>2, <2>5, <2>6 DEF Counted
<1> QED BY <1>6, <1>7, <1>8, <1>9, <1>10 DEF ListStep

\* queue_requests never loses count of what is on a list, and its limit holds but for
\* the last piece that it queued.
THEOREM QueueCounted == Spec => []QueueExact
<1>1. Init => QueueExact
  <2>1. 0 \in Pieces /\ BlockCount(0) \in Nat \ {0} /\ MaxSentRequests \in Nat \ {0}
    BY LayoutAssumption, DownloadAssumption, BlockCountType DEF Pieces
  <2>2. 0 < MaxSentRequests * 2 + BlockCount(0)
    BY <2>1
  <2> QED BY <2>1, <2>2, EmptySeq DEF Init, QueueExact
<1>2. IInv /\ QueueExact /\ [Next]_vars => QueueExact'
  BY NextList, CountedStep DEF QueueExact, Counted
<1> QED BY <1>1, <1>2, DownloadInvariant, PTL DEF Spec

-----------------------------------------------------------------------------
(***************************************************************************)
(* Requests that were sent, and answers that outlive a choke               *)
(***************************************************************************)

Asks(r, b) == r.index = b.index /\ r.begin = b.begin

\* A count that should be sent, and was stepped down once more for each late answer.
Lag(sent, late) == IF late <= sent THEN sent - late ELSE sent + CountModulus - late

\* The first requests of list s were sent, as many as sent, and the peer has each: w is
\* what it has.  Of what it has besides, late answers have struck a request that was
\* not sent yet, and so n lags behind.
Matched(s, w, n, sent, late) ==
  /\ Distinct(s) /\ sent \in 0 .. Len(s) /\ late \in Nat /\ Sent(s) = 1 .. sent
  /\ \A i \in 1 .. sent : \E j \in 1 .. Len(w) : Asks(s[i], w[j])
  /\ Len(w) + late <= sent + MaxLate /\ sent <= MaxSentRequests + late
  /\ n = Lag(sent, late)

\* They are a prefix of the list.
LEMMA MatchedPrefix ==
  ASSUME NEW s \in Seq(Request), NEW w \in Seq(Block), NEW n, NEW sent, NEW late,
         Matched(s, w, n, sent, late)
  PROVE  /\ sent \in Nat /\ late \in Nat /\ sent <= Len(s) /\ Len(s) \in Nat /\ Len(w) \in Nat
         /\ \A k \in 1 .. Len(s) : s[k].sent <=> k <= sent
<1>1. sent \in Nat /\ late \in Nat /\ sent <= Len(s) /\ Len(s) \in Nat /\ Len(w) \in Nat
  BY DEF Matched
<1>2. \A k \in 1 .. Len(s) : s[k].sent <=> k \in 1 .. sent
  BY DEF Matched, Sent
<1> QED BY <1>1, <1>2

\* No two of them ask for the same block, so the peer has as many, and not more late
\* ones than there may be.  If there are none, it has nothing else.
LEMMA MatchedAnswers ==
  ASSUME NEW s \in Seq(Request), NEW w \in Seq(Block), NEW n, NEW sent, NEW late,
         Matched(s, w, n, sent, late)
  PROVE  /\ sent <= Len(w) /\ late <= MaxLate
         /\ MaxLate = 0 => \A k \in 1 .. Len(w) : Matches(s, w[k]) # {}
<1> DEFINE S == 1 .. sent
           T == 1 .. Len(w)
           f == [i \in S |-> CHOOSE j \in T : Asks(s[i], w[j])]
<1>1. sent \in Nat /\ late \in Nat /\ sent <= Len(s) /\ Len(s) \in Nat /\ Len(w) \in Nat
  BY MatchedPrefix
<1>2. \A i \in S : f[i] \in T /\ Asks(s[i], w[f[i]])
  BY DEF Matched
<1>3. S \subseteq 1 .. Len(s)
  BY <1>1
<1>4. f \in [S -> T]
  BY <1>2
<1> HIDE DEF f
<1>5. ASSUME NEW i \in S, NEW j \in S, f[i] = f[j] PROVE i = j
  <2>1. s[i].index = s[j].index /\ s[i].begin = s[j].begin
    BY <1>2, <1>5 DEF Asks
  <2> QED BY <1>3, <2>1 DEF Matched, Distinct
<1>6. f \in Injection(S, T)
  BY <1>4, <1>5 DEF Injection, IsInjective
<1>7. /\ IsFiniteSet(T) /\ Cardinality(T) = Len(w) /\ Cardinality(S) = sent
  <2>1. ASSUME NEW z \in Nat PROVE IsFiniteSet(1 .. z) /\ Cardinality(1 .. z) = z
    <3>1. 1 \in Int /\ z \in Int /\ (1 > z <=> z = 0) /\ z - 1 + 1 = z
      OBVIOUS
    <3>2. IsFiniteSet(1 .. z) /\ Cardinality(1 .. z) = IF 1 > z THEN 0 ELSE z - 1 + 1
      BY <3>1, FS_Interval
    <3> QED BY <3>1, <3>2
  <2> QED BY <1>1, <2>1
<1>8. sent <= Len(w) /\ (sent = Len(w) => f \in Surjection(S, T))
  BY <1>6, <1>7, FS_Injection
<1>9. Len(w) + late <= sent + MaxLate /\ MaxLate \in Nat
  BY DownloadAssumption DEF Matched
<1>10. ASSUME MaxLate = 0, NEW k \in T PROVE Matches(s, w[k]) # {}
  <2>1. sent = Len(w)
    BY <1>1, <1>8, <1>9, <1>10
  <2>2. PICK i \in S : f[i] = k
    BY <1>8, <2>1 DEF Surjection
  <2>3. Asks(s[i], w[k]) /\ i \in 1 .. Len(s)
    BY <1>2, <1>3, <2>2
  <2> QED BY <2>3 DEF Asks, Matches
<1> QED BY <1>1, <1>8, <1>9, <1>10

\* What the count becomes when a request is struck that was sent, or one that was not.
LEMMA LagSteps ==
  ASSUME NEW sent \in Nat, NEW late \in 0 .. MaxLate, sent <= MaxSentRequests + late
  PROVE  /\ sent >= 1 => Decrement(Lag(sent, late)) = Lag(sent - 1, late)
         /\ late < MaxLate => Decrement(Lag(sent, late)) = Lag(sent, late + 1)
<1> DEFINE n == Lag(sent, late)
<1>1. /\ CountModulus \in Nat /\ CountModulus > MaxSentRequests /\ MaxLate \in Nat
      /\ MaxSentRequests \in Nat \ {0} /\ MaxLate + MaxSentRequests <= CountModulus
      /\ late \in Nat /\ late <= MaxLate
  BY DownloadAssumption
<1>2. CASE late < sent
  <2>1. n = sent - late /\ n \in 1 .. CountModulus - 1
    BY <1>1, <1>2 DEF Lag
  <2>2. Lag(sent - 1, late) = n - 1 /\ Lag(sent, late + 1) = n - 1
    BY <1>1, <1>2, <2>1 DEF Lag
  <2> HIDE DEF n
  <2>3. Decrement(n) = n - 1
    BY <2>1, DecrementExact
  <2> QED BY <2>2, <2>3 DEF n
<1>3. CASE late = sent
  <2>1. n = 0
    BY <1>1, <1>3 DEF Lag
  <2>2. Lag(sent - 1, late) = CountModulus - 1 /\ Lag(sent, late + 1) = CountModulus - 1
    BY <1>1, <1>3 DEF Lag
  <2>3. Decrement(0) = CountModulus - 1
    <3>1. \A m \in Nat : \A r \in 0 .. m - 1 : r % m = r
      BY SMT
    <3>2. CountModulus - 1 \in 0 .. CountModulus - 1 /\ 0 + CountModulus - 1 = CountModulus - 1
      BY <1>1
    <3> QED BY <1>1, <3>1, <3>2 DEF Decrement
  <2> QED BY <2>1, <2>2, <2>3
<1>4. CASE late > sent
  <2>1. n = sent + CountModulus - late /\ n \in 1 .. CountModulus - 1
    BY <1>1, <1>4 DEF Lag
  <2>2. Lag(sent - 1, late) = n - 1 /\ Lag(sent, late + 1) = n - 1
    BY <1>1, <1>4, <2>1 DEF Lag
  <2> HIDE DEF n
  <2>3. Decrement(n) = n - 1
    BY <2>1, DecrementExact
  <2> QED BY <2>2, <2>3 DEF n
<1> QED BY <1>1, <1>2, <1>3, <1>4

\* A choke leaves late ones only, and a new connection none.
LEMMA MatchedEmpty ==
  ASSUME NEW w, Len(w) \in 0 .. MaxLate
  PROVE  Matched(<<>>, w, 0, 0, 0)
BY DownloadAssumption, EmptySeq DEF Matched, Distinct, Sent, Lag

\* What is left when the k-th of those that the peer has is answered, and strikes nothing.
LEMMA MatchedLost ==
  ASSUME NEW s \in Seq(Request), NEW w \in Seq(Block), NEW n, NEW sent, NEW late,
         Matched(s, w, n, sent, late), NEW k \in 1 .. Len(w), Matches(s, w[k]) = {}
  PROVE  Matched(s, Cut(w, k), n, sent, late)
<1> DEFINE v == Cut(w, k)
<1>1. sent \in Nat /\ late \in Nat /\ sent <= Len(s) /\ Len(s) \in Nat /\ Len(w) \in Nat
  BY MatchedPrefix
<1>2. Len(v) = Len(w) - 1
      /\ \A i \in 1 .. Len(w) - 1 : v[i] = w[Past(i, k)]
  BY CutProperties
<1> HIDE DEF v
<1>3. ASSUME NEW i \in 1 .. sent PROVE \E j \in 1 .. Len(v) : Asks(s[i], v[j])
  <2>1. PICK j \in 1 .. Len(w) : Asks(s[i], w[j])
    BY DEF Matched
  <2>2. j # k
    <3>1. i \in 1 .. Len(s)
      BY <1>1
    <3> QED BY <2>1, <3>1 DEF Asks, Matches
  <2> DEFINE e == IF j < k THEN j ELSE j - 1
  <2>3. e \in 1 .. Len(w) - 1 /\ Past(e, k) = j
    BY <1>1, <2>2 DEF Past
  <2> HIDE DEF e
  <2> QED BY <1>2, <2>1, <2>3
<1>4. Len(v) + late <= sent + MaxLate
  BY <1>1, <1>2, DownloadAssumption DEF Matched
<1>5. Matched(s, v, n, sent, late)
  BY <1>3, <1>4 DEF Matched
<1> QED BY <1>5 DEF v

\* When it strikes one that was sent, there is one less; when it strikes another, it was
\* late.
LEMMA MatchedStruck ==
  ASSUME NEW s \in Seq(Request), NEW w \in Seq(Block), NEW n, NEW sent, NEW late,
         Matched(s, w, n, sent, late), NEW k \in 1 .. Len(w), Matches(s, w[k]) # {}
  PROVE  \E m, l : Matched(Without(s, w[k]), Cut(w, k), Decrement(n), m, l)
<1> DEFINE b == w[k]
<1>1. /\ sent \in Nat /\ late \in Nat /\ sent <= Len(s) /\ Len(s) \in Nat /\ Len(w) \in Nat
      /\ \A i \in 1 .. Len(s) : s[i].sent <=> i <= sent
  BY MatchedPrefix
<1>2. b \in Block
  BY ElementOfSeq
<1>3. PICK d \in Matches(s, b) : Without(s, b) = Cut(s, d)
  BY <1>2, WithoutCut
<1> DEFINE t == Cut(s, d)
           v == Cut(w, k)
           m == IF d <= sent THEN sent - 1 ELSE sent
           l == IF d <= sent THEN late ELSE late + 1
<1>4. d \in 1 .. Len(s) /\ Asks(s[d], b)
  BY DEF Matches, Asks
<1>5. /\ t \in Seq(Request) /\ Len(t) = Len(s) - 1
      /\ \A i \in 1 .. Len(s) - 1 : Past(i, d) \in 1 .. Len(s) /\ t[i] = s[Past(i, d)]
  BY <1>4, CutProperties
<1>6. /\ v \in Seq(Block) /\ Len(v) = Len(w) - 1
      /\ \A i \in 1 .. Len(w) - 1 : v[i] = w[Past(i, k)]
  BY CutProperties
<1>7. Distinct(t)
  BY <1>2, <1>3, DistinctWithout DEF Matched
<1> HIDE DEF t, v, b
<1>8. /\ m \in 0 .. Len(t) /\ l \in Nat /\ Len(v) + l <= m + MaxLate
      /\ m <= MaxSentRequests + l
  BY <1>1, <1>4, <1>5, <1>6, DownloadAssumption DEF Matched
<1>9. ASSUME NEW i \in 1 .. Len(s) - 1 PROVE Past(i, d) <= sent <=> i <= m
  BY <1>1, <1>4, <1>9 DEF Past
<1> HIDE DEF m, l
<1>10. Sent(t) = 1 .. m
  <2>1. ASSUME NEW i \in 1 .. Len(t) PROVE t[i].sent <=> i <= m
    BY <1>1, <1>5, <1>9
  <2>2. Sent(t) = {i \in 1 .. Len(t) : i <= m}
    BY <2>1 DEF Sent
  <2> QED BY <1>1, <1>5, <1>8, <2>2
<1>11. ASSUME NEW i \in 1 .. m PROVE \E j \in 1 .. Len(v) : Asks(t[i], v[j])
  <2>1. i \in 1 .. Len(s) - 1 /\ i \in 1 .. Len(t)
    BY <1>1, <1>5, <1>8
  <2>2. PICK p : p = Past(i, d)
    OBVIOUS
  <2>3. p \in 1 .. Len(s) /\ t[i] = s[p] /\ p <= sent /\ p # d
    BY <1>1, <1>4, <1>5, <1>9, <2>1, <2>2 DEF Past
  <2>4. PICK j \in 1 .. Len(w) : Asks(s[p], w[j])
    BY <1>1, <2>3 DEF Matched
  <2>5. j # k
    <3>1. s[p].index = s[d].index /\ s[p].begin = s[d].begin => p = d
      BY <1>4, <2>3 DEF Matched, Distinct
    <3> QED BY <1>4, <2>3, <2>4, <3>1 DEF Asks, b
  <2> DEFINE e == IF j < k THEN j ELSE j - 1
  <2>6. e \in 1 .. Len(w) - 1 /\ Past(e, k) = j
    BY <1>1, <2>5 DEF Past
  <2> HIDE DEF e
  <2> QED BY <1>6, <2>3, <2>4, <2>6
<1>12. m <= Len(v) /\ l <= MaxLate
  <2>1. Matched(t, v, Lag(m, l), m, l)
    BY <1>7, <1>8, <1>10, <1>11 DEF Matched
  <2> QED BY <1>5, <1>6, <2>1, MatchedAnswers
<1>13. Decrement(n) = Lag(m, l)
  <2>1. /\ late \in 0 .. MaxLate /\ sent <= MaxSentRequests + late /\ n = Lag(sent, late)
    <3>1. late <= MaxLate
      BY MatchedAnswers
    <3> QED BY <1>1, <3>1, DownloadAssumption DEF Matched
  <2>2. CASE d <= sent
    <3>1. m = sent - 1 /\ l = late /\ sent >= 1
      BY <1>1, <1>4, <2>2 DEF m, l
    <3> QED BY <1>1, <2>1, <3>1, LagSteps
  <2>3. CASE ~ (d <= sent)
    <3>1. m = sent /\ l = late + 1 /\ late < MaxLate
      BY <1>1, <1>12, <2>1, <2>3, DownloadAssumption DEF m, l
    <3> QED BY <1>1, <2>1, <3>1, LagSteps
  <2> QED BY <2>2, <2>3
<1>14. Matched(t, v, Decrement(n), m, l)
  BY <1>7, <1>8, <1>10, <1>11, <1>13 DEF Matched
<1> QED BY <1>3, <1>14 DEF t, v, b

\* More requests join the end of the list, not sent yet.
LEMMA MatchedGrown ==
  ASSUME NEW s \in Seq(Request), NEW w \in Seq(Block), NEW n, NEW sent, NEW late,
         Matched(s, w, n, sent, late), NEW i \in Pieces, Distinct(s \o RequestsFor(i))
  PROVE  Matched(s \o RequestsFor(i), w, n, sent, late)
<1> DEFINE r == RequestsFor(i)
           t == s \o r
<1>1. /\ sent \in Nat /\ late \in Nat /\ sent <= Len(s) /\ Len(s) \in Nat
      /\ \A k \in 1 .. Len(s) : s[k].sent <=> k <= sent
  BY MatchedPrefix
<1>2. r \in Seq(Request) /\ \A k \in 1 .. Len(r) : ~ r[k].sent
  <2>1. r \in Seq(Request) /\ Len(r) = BlockCount(i)
    BY RequestsForProperties
  <2> QED BY <2>1 DEF RequestsFor
<1> HIDE DEF r
<1>3. /\ Len(t) = Len(s) + Len(r) /\ Len(r) \in Nat
      /\ \A k \in 1 .. Len(s) + Len(r) : t[k] = IF k <= Len(s) THEN s[k] ELSE r[k - Len(s)]
  BY <1>2, ConcatProperties
<1> HIDE DEF t
<1>4. \A k \in 1 .. Len(t) : t[k].sent <=> k <= sent
  <2> SUFFICES ASSUME NEW k \in 1 .. Len(t) PROVE t[k].sent <=> k <= sent
    OBVIOUS
  <2>1. CASE k <= Len(s)
    BY <1>1, <1>3, <2>1
  <2>2. CASE k > Len(s)
    <3>1. k - Len(s) \in 1 .. Len(r) /\ ~ (k <= sent) /\ t[k] = r[k - Len(s)]
      BY <1>1, <1>3, <2>2
    <3> QED BY <1>2, <3>1
  <2> QED BY <1>1, <1>3, <2>1, <2>2
<1>5. Sent(t) = 1 .. sent /\ sent \in 0 .. Len(t)
  <2>1. Sent(t) = {k \in 1 .. Len(t) : k <= sent}
    BY <1>4 DEF Sent
  <2> QED BY <1>1, <1>3, <2>1
<1>6. \A k \in 1 .. sent : t[k] = s[k]
  BY <1>1, <1>3
<1>7. Distinct(t)
  BY DEF t, r
<1>8. Matched(t, w, n, sent, late)
  BY <1>5, <1>6, <1>7 DEF Matched
<1> QED BY <1>8 DEF t, r

\* The first request that was not sent is the one after those that were.
LEMMA MatchedUnsent ==
  ASSUME NEW s \in Seq(Request), NEW w \in Seq(Block), NEW n, NEW sent, NEW late,
         Matched(s, w, n, sent, late)
  PROVE  FirstUnsent(s) = sent + 1
<1>1. /\ sent \in Nat /\ sent <= Len(s) /\ Len(s) \in Nat
      /\ \A k \in 1 .. Len(s) : s[k].sent <=> k <= sent
  BY MatchedPrefix
<1> DEFINE First(k) == /\ k = Len(s) + 1 \/ ~ s[k].sent
                       /\ \A j \in 1 .. k - 1 : s[j].sent
<1>2. sent + 1 \in 1 .. Len(s) + 1 /\ First(sent + 1)
  <2>1. sent = Len(s) \/ sent + 1 \in 1 .. Len(s)
    BY <1>1
  <2>2. sent + 1 \in 1 .. Len(s) => ~ s[sent + 1].sent
    BY <1>1
  <2>3. \A j \in 1 .. sent : s[j].sent
    BY <1>1
  <2> QED BY <1>1, <2>1, <2>2, <2>3
<1>3. ASSUME NEW k \in 1 .. Len(s) + 1, First(k) PROVE k = sent + 1
  <2>1. ~ (k <= sent)
    BY <1>1, <1>3
  <2>2. ~ (k > sent + 1)
    <3>1. k > sent + 1 => sent + 1 \in 1 .. k - 1 /\ sent + 1 \in 1 .. Len(s)
      BY <1>1
    <3> QED BY <1>1, <1>3, <3>1
  <2> QED BY <1>1, <2>1, <2>2
<1>4. FirstUnsent(s) = CHOOSE k \in 1 .. Len(s) + 1 : First(k)
  BY DEF FirstUnsent
<1> HIDE DEF First
<1> QED BY <1>2, <1>3, <1>4

\* Those that are sent next follow them.
LEMMA MatchedMarked ==
  ASSUME NEW s \in Seq(Request), NEW w \in Seq(Block), NEW n, NEW sent, NEW late,
         Matched(s, w, n, sent, late), NEW m \in Nat, sent + m <= Len(s),
         m > 0 => late <= sent /\ sent + m <= MaxSentRequests + late
  PROVE  Matched(MarkSent(s, m), w \o SentBlocks(s, m), n + m, sent + m, late)
<1> DEFINE t == MarkSent(s, m)
           u == SentBlocks(s, m)
           v == w \o u
<1>1. /\ sent \in Nat /\ late \in Nat /\ Len(s) \in Nat /\ Len(w) \in Nat
      /\ FirstUnsent(s) = sent + 1
      /\ \A k \in 1 .. Len(s) : s[k].sent <=> k <= sent
  BY MatchedPrefix, MatchedUnsent
<1>2. Len(t) = Len(s) /\ Distinct(t)
  BY MarkSentProperties, DistinctMarked DEF Matched
<1>3. ASSUME NEW k \in 1 .. Len(s)
      PROVE  /\ t[k].index = s[k].index /\ t[k].begin = s[k].begin
             /\ t[k].sent <=> k <= sent + m
  <2>1. s[k] \in Request
    BY ElementOfSeq
  <2>2. t[k] = [s[k] EXCEPT !.sent = @ \/ k \in FirstUnsent(s) .. FirstUnsent(s) + m - 1]
    BY DEF MarkSent
  <2>3. /\ t[k].index = s[k].index /\ t[k].begin = s[k].begin
        /\ t[k].sent <=> (s[k].sent \/ k \in FirstUnsent(s) .. FirstUnsent(s) + m - 1)
    <3> HIDE DEF t
    <3> QED BY <2>1, <2>2, Zenon DEF Request
  <2>4. k \in FirstUnsent(s) .. FirstUnsent(s) + m - 1 <=> sent + 1 <= k /\ k <= sent + m
    BY <1>1
  <2>5. s[k].sent <=> k <= sent
    BY <1>1
  <2> HIDE DEF t
  <2> QED BY <1>1, <2>3, <2>4, <2>5
<1>4. u \in Seq(Block) /\ Len(u) = m /\ \A k \in 1 .. m : Asks(s[sent + k], u[k])
  <2>1. ASSUME NEW k \in 1 .. m
        PROVE  s[sent + k].index \in Pieces /\ s[sent + k].begin \in Nat
    <3>1. sent + k \in 1 .. Len(s)
      BY <1>1
    <3>2. s[sent + k] \in Request
      BY <3>1, ElementOfSeq
    <3> QED BY <3>2 DEF Request
  <2>2. \A k \in 1 .. m : FirstUnsent(s) + k - 1 = sent + k
    BY <1>1
  <2>3. u = [k \in 1 .. m |-> [index |-> s[sent + k].index, begin |-> s[sent + k].begin]]
    BY <2>2 DEF SentBlocks
  <2> HIDE DEF u
  <2>4. u \in [1 .. m -> Block]
    BY <2>1, <2>3 DEF Block
  <2>5. u \in Seq(Block) /\ Len(u) = m
    BY <2>4, SeqDef, LenProperties
  <2> QED BY <2>3, <2>5 DEF Asks
<1> HIDE DEF t, u
<1>5. /\ Len(v) = Len(w) + m
      /\ \A j \in 1 .. Len(w) : v[j] = w[j]
      /\ \A j \in 1 .. m : v[Len(w) + j] = u[j]
  <2>1. /\ Len(v) = Len(w) + Len(u)
        /\ \A k \in 1 .. Len(w) + Len(u) :
             v[k] = IF k <= Len(w) THEN w[k] ELSE u[k - Len(w)]
    BY <1>4, ConcatProperties
  <2> HIDE DEF v
  <2>2. \A j \in 1 .. m : /\ Len(w) + j \in 1 .. Len(w) + Len(u) /\ ~ (Len(w) + j <= Len(w))
                          /\ (Len(w) + j) - Len(w) = j
    BY <1>1, <1>4
  <2>3. \A j \in 1 .. Len(w) : j \in 1 .. Len(w) + Len(u) /\ j <= Len(w)
    BY <1>1, <1>4
  <2> QED BY <1>4, <2>1, <2>2, <2>3
<1> HIDE DEF v
<1>6. ASSUME NEW k \in 1 .. sent + m PROVE \E j \in 1 .. Len(v) : Asks(t[k], v[j])
  <2>1. k \in 1 .. Len(s) /\ t[k].index = s[k].index /\ t[k].begin = s[k].begin
    BY <1>1, <1>3
  <2>2. CASE k <= sent
    <3>1. PICK j \in 1 .. Len(w) : Asks(s[k], w[j])
      BY <1>1, <2>2 DEF Matched
    <3>2. j \in 1 .. Len(v) /\ v[j] = w[j]
      BY <1>1, <1>5
    <3> QED BY <2>1, <3>1, <3>2 DEF Asks
  <2>3. CASE ~ (k <= sent)
    <3>1. PICK i \in 1 .. m : k = sent + i
      <4>1. k - sent \in 1 .. m /\ k = sent + (k - sent)
        BY <1>1, <2>3
      <4> QED BY <4>1
    <3>2. Len(w) + i \in 1 .. Len(v)
      BY <1>1, <1>5
    <3>3. v[Len(w) + i] = u[i] /\ Asks(s[k], u[i])
      BY <1>4, <1>5, <3>1
    <3> QED BY <2>1, <3>2, <3>3 DEF Asks
  <2> QED BY <2>2, <2>3
<1>7. Sent(t) = 1 .. sent + m /\ sent + m \in 0 .. Len(t)
  <2>1. Sent(t) = {k \in 1 .. Len(s) : k <= sent + m}
    BY <1>2, <1>3 DEF Sent
  <2> QED BY <1>1, <1>2, <2>1
<1>8. /\ Len(v) + late <= sent + m + MaxLate /\ sent + m <= MaxSentRequests + late
      /\ n + m = Lag(sent + m, late)
  BY <1>1, <1>5, DownloadAssumption DEF Matched, Lag
<1>9. Matched(t, v, n + m, sent + m, late)
  BY <1>1, <1>2, <1>6, <1>7, <1>8 DEF Matched
<1> QED BY <1>9 DEF t, u, v

SentMatched(q) ==
  \E sent, late :
    Matched(out_piece_requests[q], wire[q], sent_request_count[q], sent, late)

\* What the peer has of our requests is matched by every step.
LEMMA MatchedStep ==
  ASSUME IInv, RequestsUnique, NEW q \in Peers, SentMatched(q), ListStep(q)
  PROVE  SentMatched(q)'
<1> DEFINE s == out_piece_requests[q]
           w == wire[q]
           n == sent_request_count[q]
<1>1. s \in Seq(Request) /\ w \in Seq(Block) /\ n \in 0 .. CountModulus - 1 /\ PeerType
  BY InvParts DEF PeerType
<1>2. PICK sent, late : Matched(s, w, n, sent, late)
  BY DEF SentMatched
<1>3. CASE Kept(q)
  BY <1>2, <1>3 DEF Kept, SentMatched
<1>4. CASE Cleared(q)
  BY <1>4, MatchedEmpty DEF Cleared, SentMatched
<1>5. CASE Marked(q)
  <2> DEFINE m == SendCount(q)
  <2>1. /\ FirstUnsent(s) = sent + 1 /\ sent \in Nat /\ late \in Nat /\ sent <= Len(s)
        /\ Len(s) \in Nat /\ late <= MaxLate
    BY <1>1, <1>2, MatchedUnsent, MatchedPrefix, MatchedAnswers
  <2>2. m \in Nat /\ FirstUnsent(s) + m <= Len(s) + 1
    BY <1>1, SendCountType
  <2>3. /\ MaxSentRequests \in Nat /\ MaxLate \in Nat /\ CountModulus \in Nat
        /\ MaxLate + MaxSentRequests <= CountModulus
    BY DownloadAssumption
  <2>4. m <= IF n < MaxSentRequests THEN MaxSentRequests - n ELSE 0
    <3> DEFINE a == Len(s) + 1 - FirstUnsent(s)
               r == IF n < MaxSentRequests THEN MaxSentRequests - n ELSE 0
    <3>1. m = IF a < r THEN a ELSE r
      BY DEF SendCount
    <3>2. a \in Int /\ r \in Int
      BY <1>1, <2>1, <2>3
    <3> HIDE DEF a, r, m
    <3>3. m <= r
      BY <3>1, <3>2
    <3> QED BY <3>3 DEF r
  <2>5. n = Lag(sent, late)
    BY <1>2 DEF Matched
  <2> HIDE DEF s, w, n, m
  <2>6. sent + m <= Len(s) /\ (m > 0 => late <= sent /\ sent + m <= MaxSentRequests + late)
    BY <2>1, <2>2, <2>3, <2>4, <2>5 DEF Lag
  <2>7. Matched(MarkSent(s, m), w \o SentBlocks(s, m), n + m, sent + m, late)
    BY <1>1, <1>2, <2>2, <2>6, MatchedMarked
  <2> QED BY <1>5, <2>7 DEF Marked, SentMatched, s, w, n, m
<1>6. ASSUME NEW k \in 1 .. Len(wire[q]), Struck(q, k) PROVE SentMatched(q)'
  <2>1. CASE Matches(s, w[k]) = {}
    <3>1. Matched(s, Cut(w, k), n, sent, late)
      BY <1>1, <1>2, <2>1, MatchedLost
    <3>2. Without(s, w[k]) = s
      BY <2>1 DEF Without
    <3> QED BY <1>6, <2>1, <3>1, <3>2 DEF Struck, SentMatched
  <2>2. CASE Matches(s, w[k]) # {}
    <3>1. PICK m, l : Matched(Without(s, w[k]), Cut(w, k), Decrement(n), m, l)
      BY <1>1, <1>2, <2>2, MatchedStruck
    <3> QED BY <1>6, <2>2, <3>1 DEF Struck, SentMatched
  <2> QED BY <2>1, <2>2
<1>7. ASSUME NEW i \in Pieces, Grown(q, i) PROVE SentMatched(q)'
  <2>1. i \notin Indexes(s)
    BY <1>7 DEF Grown, IInv, OwnedBuffered, Outstanding, Interesting
  <2>2. Distinct(s)
    BY DEF RequestsUnique, Distinct
  <2>3. Distinct(s \o RequestsFor(i))
    BY <1>1, <2>1, <2>2, RequestsForProperties, DistinctRequests, DistinctConcat
  <2>4. Matched(s \o RequestsFor(i), w, n, sent, late)
    BY <1>1, <1>2, <2>3, MatchedGrown
  <2> QED BY <1>7, <2>4 DEF Grown, SentMatched
<1> QED BY <1>3, <1>4, <1>5, <1>6, <1>7 DEF ListStep

AllMatched == \A q \in Peers : SentMatched(q)

LEMMA AlwaysMatched == Spec => []AllMatched
<1>1. Init => AllMatched
  <2>1. Matched(<<>>, <<>>, 0, 0, 0)
    BY MatchedEmpty, DownloadAssumption, EmptySeq
  <2> QED BY <2>1 DEF Init, AllMatched, SentMatched
<1>2. IInv /\ RequestsUnique /\ AllMatched /\ [Next]_vars => AllMatched'
  BY NextList, MatchedStep DEF AllMatched
<1> QED BY <1>1, <1>2, DownloadInvariant, NoRequestTwice, PTL DEF Spec

\* sent_request_count counts the requests that the peer has, but for the answers that
\* outlived a choke: by them it may be too low, or have wrapped, and by no more than
\* them MAX_SENT_REQUESTS is exceeded.
THEOREM SentCounted == Spec => []SentCountExact
<1>1. IInv /\ AllMatched => SentCountExact
  <2> SUFFICES ASSUME IInv, AllMatched, NEW p \in Peers
               PROVE  \E late \in 0 .. MaxLate, sent \in 0 .. Len(out_piece_requests[p]) :
                        /\ Sent(out_piece_requests[p]) = 1 .. sent
                        /\ sent <= Len(wire[p]) /\ Len(wire[p]) + late <= sent + MaxLate
                        /\ sent <= MaxSentRequests + late
                        /\ sent_request_count[p] = IF late <= sent THEN sent - late
                                                   ELSE sent + CountModulus - late
    BY DEF SentCountExact
  <2>1. /\ out_piece_requests[p] \in Seq(Request) /\ wire[p] \in Seq(Block)
    BY InvParts DEF PeerType
  <2>2. PICK sent, late :
          Matched(out_piece_requests[p], wire[p], sent_request_count[p], sent, late)
    BY DEF AllMatched, SentMatched
  <2>3. sent <= Len(wire[p]) /\ late \in 0 .. MaxLate
    BY <2>1, <2>2, MatchedPrefix, MatchedAnswers, DownloadAssumption
  <2> QED BY <2>2, <2>3 DEF Matched, Lag
<1> QED BY <1>1, AlwaysMatched, DownloadInvariant, PTL

\* Unless one does, each block under way has a request.
LEMMA AnswerMatches ==
  ASSUME MaxLate = 0, IInv, AllMatched, NEW p \in Peers, NEW k \in 1 .. Len(wire[p])
  PROVE  Matches(out_piece_requests[p], wire[p][k]) # {}
<1>1. /\ out_piece_requests[p] \in Seq(Request) /\ wire[p] \in Seq(Block)
  BY InvParts DEF PeerType
<1>2. PICK sent, late :
        Matched(out_piece_requests[p], wire[p], sent_request_count[p], sent, late)
  BY DEF AllMatched, SentMatched
<1> QED BY <1>1, <1>2, MatchedAnswers

-----------------------------------------------------------------------------
(***************************************************************************)
(* A piece that we have is asked of nobody                                 *)
(***************************************************************************)

Fresh == MaxLate = 0 => \A q \in Peers : Outstanding(q) \cap bitfield = {}

LEMMA ListIndexes ==
  ASSUME PeerType, NEW q \in Peers, ListStep(q)
  PROVE  \/ Outstanding(q)' \subseteq Outstanding(q)
         \/ \E i \in Interesting(q) : Outstanding(q)' \subseteq Outstanding(q) \cup {i}
<1>1. out_piece_requests[q] \in Seq(Request) /\ wire[q] \in Seq(Block)
  BY DEF PeerType
<1>2. CASE Kept(q)
  BY <1>2 DEF Kept, Outstanding
<1>3. CASE Cleared(q)
  BY <1>3, EmptySeq DEF Cleared, Outstanding, Indexes
<1>4. CASE Marked(q)
  BY <1>1, <1>4, SendCountType, MarkSentProperties DEF Marked, Outstanding
<1>5. ASSUME NEW k \in 1 .. Len(wire[q]), Struck(q, k)
      PROVE  Outstanding(q)' \subseteq Outstanding(q)
  <2>1. wire[q][k] \in Block
    BY <1>1, ElementOfSeq
  <2> QED BY <1>1, <1>5, <2>1, WithoutProperties DEF Struck, Outstanding
<1>6. ASSUME NEW i \in Pieces, Grown(q, i)
      PROVE  i \in Interesting(q) /\ Outstanding(q)' \subseteq Outstanding(q) \cup {i}
  <2>1. Indexes(out_piece_requests[q] \o RequestsFor(i)) = Outstanding(q) \cup {i}
    BY <1>1, RequestsForProperties, IndexesConcat DEF Outstanding
  <2> QED BY <1>6, <2>1 DEF Grown, Outstanding
<1> QED BY <1>2, <1>3, <1>4, <1>5, <1>6 DEF ListStep

\* The block that completes a piece struck the last request for it, and nobody else
\* had one.
LEMMA RecvBlockFresh ==
  ASSUME IInv, AllMatched, Fresh, NEW p \in Peers, RecvBlock(p)
  PROVE  Fresh'
<1> SUFFICES ASSUME MaxLate = 0, NEW q \in Peers PROVE Outstanding(q)' \cap bitfield' = {}
  BY DEF Fresh
<1>1. PeerType /\ SingleSource /\ Outstanding(q) \cap bitfield = {}
  BY InvParts DEF Owned, Fresh
<1>2. PICK k \in 1 .. Len(wire[p]), intact \in BOOLEAN :
        LET b == wire[p][k]
            onwire == [wire EXCEPT ![p] =
                         SubSeq(@, 1, k - 1) \o SubSeq(@, k + 1, Len(@))]
        IN  \/ RefuseBlock(p, b)
            \/ StoreBlock(p, b, intact, onwire)
            \/ CompletePiece(p, b, intact, onwire)
            \/ FailPiece(p, b, intact, onwire)
  BY Zenon DEF RecvBlock
<1> DEFINE b == wire[p][k]
           onwire == [wire EXCEPT ![p] =
                        SubSeq(@, 1, k - 1) \o SubSeq(@, k + 1, Len(@))]
<1>3. \/ RefuseBlock(p, b) \/ StoreBlock(p, b, intact, onwire)
      \/ CompletePiece(p, b, intact, onwire) \/ FailPiece(p, b, intact, onwire)
  BY <1>2
<1>4. b \in Block /\ out_piece_requests[p] \in Seq(Request) /\ wire[p] \in Seq(Block)
  BY <1>1, ElementOfSeq DEF PeerType
<1>5. ListStep(q)
  BY RecvBlockList
<1>6. b.index \in Outstanding(p)
  <2>1. Matches(out_piece_requests[p], b) # {}
    BY AnswerMatches
  <2> HIDE DEF b
  <2> QED BY <2>1 DEF Matches, Outstanding, Indexes
<1> HIDE DEF b, onwire
<1>7. CASE bitfield' = bitfield
  BY <1>1, <1>5, <1>7, ListIndexes DEF Interesting
<1>8. CASE CompletePiece(p, b, intact, onwire)
  <2>1. PICK C \in SUBSET active :
          out_piece_requests' = Reset(C, OutAfter(p, b), <<>>)
    BY <1>8 DEF CompletePiece, AfterBlock, PeerClose
  <2>2. bitfield' = bitfield \cup {b.index} /\ LastBlock(p, b)
    BY <1>8 DEF CompletePiece
  <2>3. CASE q \in C
    <3>1. out_piece_requests'[q] = <<>>
      BY <2>1, <2>3 DEF Reset
    <3> QED BY <3>1, EmptySeq DEF Outstanding, Indexes
  <2>4. CASE q \notin C /\ q = p
    <3>1. out_piece_requests'[q] = Without(out_piece_requests[q], b)
      BY <1>1, <2>1, <2>4 DEF Reset, OutAfter, PeerType
    <3>2. Outstanding(q)' \subseteq Outstanding(q) /\ b.index \notin Outstanding(q)'
      BY <1>4, <2>2, <2>4, <3>1, WithoutProperties DEF LastBlock, Outstanding
    <3> QED BY <1>1, <2>2, <3>2
  <2>5. CASE q \notin C /\ q # p
    <3>1. out_piece_requests'[q] = out_piece_requests[q]
      BY <1>1, <2>1, <2>5 DEF Reset, OutAfter, PeerType
    <3>2. b.index \notin Outstanding(q)
      BY <1>1, <1>6, <2>5 DEF SingleSource
    <3> QED BY <1>1, <2>2, <3>1, <3>2 DEF Outstanding
  <2> QED BY <2>3, <2>4, <2>5
<1>9. ASSUME RefuseBlock(p, b) \/ StoreBlock(p, b, intact, onwire) \/ FailPiece(p, b, intact, onwire)
      PROVE  bitfield' = bitfield
  BY <1>9 DEF RefuseBlock, Close, StoreBlock, FailPiece
<1> QED BY <1>3, <1>7, <1>8, <1>9

LEMMA AlwaysFresh == Spec => []Fresh
<1>1. Init => Fresh
  BY EmptySeq DEF Init, Fresh, Outstanding, Indexes
<1>2. IInv /\ AllMatched /\ Fresh /\ [Next]_vars => Fresh'
  <2> SUFFICES ASSUME IInv, AllMatched, Fresh, [Next]_vars PROVE Fresh'
    OBVIOUS
  <2>1. CASE Stays
    <3> SUFFICES ASSUME MaxLate = 0, NEW q \in Peers PROVE Outstanding(q)' \cap bitfield' = {}
      BY DEF Fresh
    <3>1. PeerType /\ Outstanding(q) \cap bitfield = {} /\ bitfield' = bitfield
      BY <2>1, InvParts DEF Stays, Fresh
    <3>2. ListStep(q)
      BY NextList
    <3> QED BY <3>1, <3>2, ListIndexes DEF Interesting
  <2> QED BY <2>1, OthersStay, RecvBlockFresh
<1> QED BY <1>1, <1>2, DownloadInvariant, AlwaysMatched, PTL DEF Spec

\* A peer that answers what we asked is never closed for it: each block under way has
\* a request, and the piece of the request has a buffer.
THEOREM AnswersFit == Spec => []AnswersWelcome
<1>1. IInv /\ AllMatched /\ Fresh => AnswersWelcome
  <2> SUFFICES ASSUME IInv, AllMatched, Fresh, MaxLate = 0,
                      NEW p \in Peers, NEW k \in 1 .. Len(wire[p])
               PROVE  wire[p][k].index \in in_piece_buf
    BY DEF AnswersWelcome
  <2>1. Matches(out_piece_requests[p], wire[p][k]) # {}
    BY AnswerMatches
  <2>2. wire[p][k].index \in Outstanding(p)
    BY <2>1 DEF Matches, Outstanding, Indexes
  <2> QED BY <2>2 DEF IInv, OwnedBuffered, Fresh
<1> QED BY <1>1, AlwaysMatched, AlwaysFresh, DownloadInvariant, PTL

=============================================================================

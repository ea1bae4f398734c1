---------------------------- MODULE UploadProofs ----------------------------
(***************************************************************************)
(* What Upload keeps right for every peer, whatever the number of peers,   *)
(* of requests and of pieces, and whatever fails.                          *)
(***************************************************************************)
EXTENDS Upload, SequenceTheorems, TLAPS

USE UploadAssumption

-----------------------------------------------------------------------------
(***************************************************************************)
(* The invariant, in the part about the peers and the part about the pass  *)
(***************************************************************************)

PeersTyped ==
  /\ active \subseteq Peers
  /\ we_choked \in [Peers -> BOOLEAN] /\ they_interested \in [Peers -> BOOLEAN]
  /\ in_piece_requests \in [Peers -> Seq(Pieces)]
  /\ total_in_request_count \in [Peers -> Nat]
  /\ curr_in_piece \in [Peers -> Buffer \cup {None}]
  /\ curr_in_piece_index \in [Peers -> Pieces]
  /\ told \in [Peers -> BOOLEAN] /\ seen_choked \in [Peers -> BOOLEAN]
  /\ inbox \in [Peers -> Seq(Messages)]
  /\ misserved \subseteq {"piece", "unverified"}

PeersOK ==
  /\ PeersTyped /\ ChokedIdle /\ InCountExact /\ ChokeTold /\ GoneTold
  /\ BufferNamed /\ ServedRightPiece

PassOK ==
  /\ pc \in {"idle", "serve", "read"}
  /\ it \in Peers \cup {None} /\ todo \subseteq Peers
  /\ CursorOK

LEMMA InvParts ==
  ASSUME IInv
  PROVE  PeersOK /\ PassOK
BY DEF IInv, TypeOK, PeersTyped, PeersOK, PassOK

LEMMA InvFromParts ==
  ASSUME PeersOK', PassOK'
  PROVE  IInv'
BY DEF IInv, TypeOK, PeersTyped, PeersOK, PassOK

-----------------------------------------------------------------------------
(***************************************************************************)
(* The pass                                                                *)
(***************************************************************************)

\* A loop over peers that are still connected leaves a good cursor.
LEMMA EnterLoopStep ==
  ASSUME NEW S, S \subseteq active', active' \subseteq Peers, EnterLoop(S)
  PROVE  PassOK'
<1>1. CASE S = {}
  BY <1>1 DEF EnterLoop, PassOK, CursorOK
<1>2. CASE S # {}
  <2>1. PICK q \in S : pc' = "serve" /\ it' = q /\ todo' = S \ {q}
    BY <1>2 DEF EnterLoop
  <2> QED BY <2>1 DEF PassOK, CursorOK
<1> QED BY <1>1, <1>2

\* A turn that closes nobody.
LEMMA AdvanceStep ==
  ASSUME PeersOK, PassOK, active' = active, Advance
  PROVE  PassOK'
BY EnterLoopStep DEF Advance, PeersOK, PeersTyped, PassOK, CursorOK

\* A turn that closes the peer whose turn it is.
LEMMA AdvancePastStep ==
  ASSUME PeersOK, PassOK, active' = active \ {it}, Advance
  PROVE  PassOK'
BY EnterLoopStep DEF Advance, PeersOK, PeersTyped, PassOK, CursorOK

LEMMA ReturnStep ==
  ASSUME PeersOK, active' \subseteq active, Return
  PROVE  PassOK'
BY EnterLoopStep DEF Return, PeersOK, PeersTyped

\* The peer whose turn it is is connected.
LEMMA TurnActive ==
  ASSUME PassOK, NEW p \in Peers, it = p
  PROVE  p \in active
BY DEF PassOK, CursorOK

-----------------------------------------------------------------------------
(***************************************************************************)
(* What a step does to the peers                                           *)
(***************************************************************************)

LEMMA QuietPeers ==
  ASSUME PeersOK,
         UNCHANGED <<chokeVars, requestVars, bufferVars, active, wireVars, misserved>>
  PROVE  PeersOK'
BY DEF PeersOK, PeersTyped, ChokedIdle, InCountExact, ChokeTold, GoneTold, BufferNamed,
       ServedRightPiece, chokeVars, requestVars, bufferVars, wireVars

\* Only what is on the wire changes.
LEMMA WirePeers ==
  ASSUME PeersOK,
         they_interested' \in [Peers -> BOOLEAN], seen_choked' \in [Peers -> BOOLEAN],
         inbox' \in [Peers -> Seq(Messages)],
         UNCHANGED <<chokeVars, requestVars, bufferVars, active, misserved>>
  PROVE  PeersOK'
BY DEF PeersOK, PeersTyped, ChokedIdle, InCountExact, ChokeTold, GoneTold, BufferNamed,
       ServedRightPiece, chokeVars, requestVars, bufferVars

LEMMA ResetType ==
  ASSUME NEW T, NEW f \in [Peers -> T], NEW v \in T, NEW C
  PROVE  Reset(C, f, v) \in [Peers -> T]
BY DEF Reset

\* The peers in C are forgotten, those in F among them closed, and we choke those
\* in K and no others, who have been told so.
LEMMA ForgetStep ==
  ASSUME PeersOK, NEW C \in SUBSET Peers, NEW F \in SUBSET C,
         Forget(C), Disconnect(F),
         we_choked' \in [Peers -> BOOLEAN], told' \in [Peers -> BOOLEAN],
         \A p \in Peers \ C : we_choked'[p] => we_choked[p],
         \A p \in active \ F : told'[p] = we_choked'[p],
         \A p \in F \cup (Peers \ active) : told'[p],
         curr_in_piece_index' \in [Peers -> Pieces],
         \A p \in Peers \ C : curr_in_piece_index'[p] = curr_in_piece_index[p],
         UNCHANGED misserved
  PROVE  PeersOK' /\ active' = active \ F
<1>1. /\ in_piece_requests' = Reset(C, in_piece_requests, <<>>)
      /\ total_in_request_count' = Reset(C, total_in_request_count, 0)
      /\ curr_in_piece' = Reset(C, curr_in_piece, None)
      /\ active' = active \ F
      /\ they_interested' = Reset(F, they_interested, FALSE)
      /\ seen_choked' = Reset(F, seen_choked, TRUE)
      /\ inbox' = Reset(F, inbox, <<>>)
  BY DEF Forget, Disconnect
<1>2. PeersTyped /\ ChokedIdle /\ InCountExact /\ GoneTold /\ BufferNamed /\ ServedRightPiece
  BY DEF PeersOK
<1>3. \A p \in C : in_piece_requests'[p] = <<>> /\ total_in_request_count'[p] = 0
                     /\ curr_in_piece'[p] = None
  BY <1>1 DEF Reset
<1>4. \A p \in Peers \ C : /\ in_piece_requests'[p] = in_piece_requests[p]
                           /\ total_in_request_count'[p] = total_in_request_count[p]
                           /\ curr_in_piece'[p] = curr_in_piece[p]
  BY <1>1 DEF Reset
<1>5. PeersTyped'
  <2>1. in_piece_requests' \in [Peers -> Seq(Pieces)]
    BY <1>1, <1>2, ResetType, EmptySeq DEF PeersTyped
  <2>2. inbox' \in [Peers -> Seq(Messages)]
    BY <1>1, <1>2, ResetType, EmptySeq DEF PeersTyped
  <2>3. total_in_request_count' \in [Peers -> Nat]
    BY <1>1, <1>2, ResetType DEF PeersTyped
  <2>4. curr_in_piece' \in [Peers -> Buffer \cup {None}]
    BY <1>1, <1>2, ResetType DEF PeersTyped
  <2>5. they_interested' \in [Peers -> BOOLEAN] /\ seen_choked' \in [Peers -> BOOLEAN]
    BY <1>1, <1>2, ResetType DEF PeersTyped
  <2>6. active' \subseteq Peers /\ misserved' \subseteq {"piece", "unverified"}
    BY <1>1, <1>2 DEF PeersTyped
  <2> QED BY <2>1, <2>2, <2>3, <2>4, <2>5, <2>6 DEF PeersTyped
<1>6. ChokedIdle'
  BY <1>1, <1>2, <1>3, <1>4 DEF ChokedIdle
<1>7. InCountExact'
  <2>1. Len(<<>>) = 0
    OBVIOUS
  <2> QED BY <2>1, <1>2, <1>3, <1>4 DEF InCountExact
<1>8. ChokeTold' /\ GoneTold'
  BY <1>1 DEF ChokeTold, GoneTold
<1>9. BufferNamed'
  BY <1>2, <1>3, <1>4 DEF BufferNamed
<1>10. ServedRightPiece'
  BY <1>2 DEF ServedRightPiece
<1> QED BY <1>1, <1>5, <1>6, <1>7, <1>8, <1>9, <1>10 DEF PeersOK

\* One connected peer is closed.
LEMMA CloseStep ==
  ASSUME PeersOK, NEW p \in Peers, Close(p),
         curr_in_piece_index' \in [Peers -> Pieces],
         \A q \in Peers \ {p} : curr_in_piece_index'[q] = curr_in_piece_index[q],
         UNCHANGED misserved
  PROVE  PeersOK' /\ active' = active \ {p}
<1>1. Forget({p}) /\ Disconnect({p})
  BY DEF Close
<1>2. PeersTyped /\ ChokeTold /\ GoneTold
  BY DEF PeersOK
<1>3. /\ we_choked' = Reset({p}, we_choked, TRUE) /\ told' = Reset({p}, told, TRUE)
  BY DEF Close
<1>4. we_choked' \in [Peers -> BOOLEAN] /\ told' \in [Peers -> BOOLEAN]
  BY <1>2, <1>3, ResetType DEF PeersTyped
<1>5. \A q \in Peers \ {p} : we_choked'[q] = we_choked[q] /\ told'[q] = told[q]
  BY <1>3 DEF Reset
<1>6. told'[p]
  BY <1>3 DEF Reset
<1>7. \A q \in active \ {p} : told'[q] = we_choked'[q]
  BY <1>2, <1>5 DEF ChokeTold, PeersTyped
<1>8. \A q \in {p} \cup (Peers \ active) : told'[q]
  BY <1>2, <1>5, <1>6 DEF GoneTold
<1>9. {p} \in SUBSET Peers /\ {p} \in SUBSET {p}
  OBVIOUS
<1> QED BY <1>1, <1>4, <1>5, <1>7, <1>8, <1>9, ForgetStep

-----------------------------------------------------------------------------
(***************************************************************************)
(* The steps                                                               *)
(***************************************************************************)

\* choke_update leaves each peer it touches either told and obeyed or closed.
LEMMA BeginChokeStep ==
  ASSUME IInv, BeginChoke
  PROVE  IInv'
<1>0. PeersOK /\ PassOK
  BY InvParts
<1>1. PeersTyped /\ ChokedIdle /\ ChokeTold /\ GoneTold
  BY <1>0 DEF PeersOK
<1>2. PICK V \in SUBSET active, S \in SUBSET active, F \in SUBSET active :
        LET visited  == V \ (F \cap NotInterested)
            unchoked == { p \in visited \ S : they_interested[p] /\ we_choked[p] }
            choked   == NotInterested
                          \cup { p \in visited \cap S : ~ we_choked[p] /\ they_interested[p] }
        IN  /\ we_choked' = Reset(choked \cup F, Reset(unchoked, we_choked, FALSE), TRUE)
            /\ told' = Reset(F, ToldAfter(choked, unchoked), TRUE)
            /\ Forget(choked \cup F)
            /\ Disconnect(F)
            /\ EnterLoop(active \ F)
            /\ UNCHANGED <<curr_in_piece_index, misserved>>
  BY ZenonT(40) DEF BeginChoke, ChokeUpdate
<1> DEFINE visited  == V \ (F \cap NotInterested)
           unchoked == { p \in visited \ S : they_interested[p] /\ we_choked[p] }
           choked   == NotInterested
                         \cup { p \in visited \cap S : ~ we_choked[p] /\ they_interested[p] }
<1>3. /\ we_choked' = Reset(choked \cup F, Reset(unchoked, we_choked, FALSE), TRUE)
      /\ told' = Reset(F, Reset(choked, Reset(unchoked, told, FALSE), TRUE), TRUE)
      /\ Forget(choked \cup F) /\ Disconnect(F) /\ EnterLoop(active \ F)
      /\ curr_in_piece_index' = curr_in_piece_index /\ UNCHANGED misserved
  BY <1>2 DEF ToldAfter
<1>4. choked \subseteq active /\ unchoked \subseteq active /\ active \subseteq Peers
  BY <1>1 DEF NotInterested, PeersTyped
<1> HIDE DEF visited, unchoked, choked
<1>5. we_choked' \in [Peers -> BOOLEAN]
  <2>1. Reset(unchoked, we_choked, FALSE) \in [Peers -> BOOLEAN]
    BY <1>1, ResetType DEF PeersTyped
  <2> QED BY <1>3, <2>1, ResetType
<1>6. told' \in [Peers -> BOOLEAN]
  <2>1. Reset(unchoked, told, FALSE) \in [Peers -> BOOLEAN]
    BY <1>1, ResetType DEF PeersTyped
  <2>2. Reset(choked, Reset(unchoked, told, FALSE), TRUE) \in [Peers -> BOOLEAN]
    BY <2>1, ResetType
  <2> QED BY <1>3, <2>2, ResetType
<1>7. \A p \in Peers : we_choked'[p] = IF p \in choked \cup F THEN TRUE
                                       ELSE IF p \in unchoked THEN FALSE
                                       ELSE we_choked[p]
  BY <1>3 DEF Reset
<1>8. \A p \in Peers : told'[p] = IF p \in choked \cup F THEN TRUE
                                  ELSE IF p \in unchoked THEN FALSE
                                  ELSE told[p]
  BY <1>3 DEF Reset
<1>9. \A p \in Peers \ (choked \cup F) : we_choked'[p] => we_choked[p]
  BY <1>7
<1>10. \A p \in active \ F : told'[p] = we_choked'[p]
  BY <1>1, <1>4, <1>7, <1>8 DEF ChokeTold
<1>11. \A p \in F \cup (Peers \ active) : told'[p]
  BY <1>1, <1>4, <1>8 DEF GoneTold
<1>12. curr_in_piece_index' \in [Peers -> Pieces]
  BY <1>1, <1>3 DEF PeersTyped
<1>13. choked \cup F \in SUBSET Peers /\ F \in SUBSET (choked \cup F)
  BY <1>4
<1>14. PeersOK' /\ active' = active \ F
  BY <1>0, <1>3, <1>5, <1>6, <1>9, <1>10, <1>11, <1>12, <1>13, ForgetStep
<1>15. PassOK'
  BY <1>3, <1>4, <1>14, EnterLoopStep
<1> QED BY <1>14, <1>15, InvFromParts

LEMMA BeginPassStep ==
  ASSUME IInv, BeginPass
  PROVE  IInv'
<1>0. PeersOK /\ PassOK
  BY InvParts
<1>1. PeersOK'
  BY <1>0, QuietPeers DEF BeginPass
<1>2. PassOK'
  BY <1>0, EnterLoopStep DEF BeginPass, PeersOK, PeersTyped
<1> QED BY <1>1, <1>2, InvFromParts

\* A turn in which nothing is sent, or nothing is read.
LEMMA QuietTurnStep ==
  ASSUME IInv, NEW p \in Peers, SkipTurn(p) \/ NoMessage(p)
  PROVE  IInv'
<1>0. PeersOK /\ PassOK
  BY InvParts
<1>1. PeersOK'
  BY <1>0, QuietPeers DEF SkipTurn, NoMessage
<1>2. PassOK'
  BY <1>0, AdvanceStep DEF SkipTurn, NoMessage
<1> QED BY <1>1, <1>2, InvFromParts

LEMMA NothingToServeStep ==
  ASSUME IInv, NEW p \in Peers, NothingToServe(p)
  PROVE  IInv'
<1>0. PeersOK /\ PassOK
  BY InvParts
<1>1. PeersOK'
  BY <1>0, QuietPeers DEF NothingToServe
<1>2. PassOK'
  BY <1>0 DEF NothingToServe, PassOK, CursorOK
<1> QED BY <1>1, <1>2, InvFromParts

\* A peer that has a request is connected, unchoked, and the request is a piece.
LEMMA RequestOfUnchoked ==
  ASSUME PeersOK, NEW p \in Peers, in_piece_requests[p] # <<>>
  PROVE  /\ p \in active /\ ~ we_choked[p]
         /\ in_piece_requests[p] \in Seq(Pieces)
         /\ Head(in_piece_requests[p]) \in Pieces
<1>1. in_piece_requests[p] \in Seq(Pieces)
  BY DEF PeersOK, PeersTyped
<1>2. Head(in_piece_requests[p]) \in Pieces
  BY <1>1, HeadTailProperties
<1> QED BY <1>1, <1>2 DEF PeersOK, ChokedIdle

\* The block is taken from a buffer of the piece that was asked for.
LEMMA SourceRight ==
  ASSUME PeersOK, NEW p \in Peers, in_piece_requests[p] # <<>>
  PROVE  Source(p) \in Buffer /\ Source(p).of = Head(in_piece_requests[p])
<1>1. Head(in_piece_requests[p]) \in Pieces
  BY RequestOfUnchoked
<1>2. CASE MustLoad(p)
  BY <1>1, <1>2 DEF Source, Buffer
<1>3. CASE ~ MustLoad(p)
  <2>1. /\ curr_in_piece[p] # None
        /\ curr_in_piece_index[p] = Head(in_piece_requests[p])
        /\ Source(p) = curr_in_piece[p]
    BY <1>3 DEF MustLoad, Source
  <2>2. curr_in_piece[p] \in Buffer
    BY <2>1 DEF PeersOK, PeersTyped
  <2>3. curr_in_piece[p].of = Head(in_piece_requests[p])
    BY <2>1 DEF PeersOK, BufferNamed
  <2> QED BY <2>1, <2>2, <2>3
<1> QED BY <1>2, <1>3

LEMMA ServeBlockStep ==
  ASSUME IInv, NEW p \in Peers, ServeBlock(p)
  PROVE  IInv'
<1>0. PeersOK /\ PassOK
  BY InvParts
<1>1. /\ in_piece_requests[p] # <<>>
      /\ curr_in_piece' = [curr_in_piece EXCEPT ![p] = Source(p)]
      /\ curr_in_piece_index' =
           [curr_in_piece_index EXCEPT ![p] = Head(in_piece_requests[p])]
      /\ in_piece_requests' =
           [in_piece_requests EXCEPT ![p] = Tail(in_piece_requests[p])]
      /\ total_in_request_count' =
           [total_in_request_count EXCEPT ![p] = total_in_request_count[p] - 1]
      /\ misserved' = misserved \cup Flaws(p)
      /\ pc' = "read"
      /\ UNCHANGED <<it, todo, we_choked, told, active, they_interested, seen_choked, inbox>>
  BY DEF ServeBlock, CountAfterServe, chokeVars, wireVars
<1>2. PeersTyped /\ ChokedIdle /\ InCountExact /\ ChokeTold /\ GoneTold /\ BufferNamed
        /\ ServedRightPiece
  BY <1>0 DEF PeersOK
<1>3. /\ p \in active /\ ~ we_choked[p] /\ in_piece_requests[p] \in Seq(Pieces)
      /\ Head(in_piece_requests[p]) \in Pieces
  BY <1>0, <1>1, RequestOfUnchoked
<1>4. Source(p) \in Buffer /\ Source(p).of = Head(in_piece_requests[p])
  BY <1>0, <1>1, SourceRight
<1>5. Flaws(p) \subseteq {"unverified"}
  BY <1>4 DEF Flaws
<1>6. /\ Tail(in_piece_requests[p]) \in Seq(Pieces)
      /\ Len(Tail(in_piece_requests[p])) = Len(in_piece_requests[p]) - 1
      /\ Len(in_piece_requests[p]) \in Nat \ {0}
  BY <1>1, <1>3, HeadTailProperties, EmptySeq
<1>7. /\ in_piece_requests \in [Peers -> Seq(Pieces)]
      /\ total_in_request_count \in [Peers -> Nat]
      /\ curr_in_piece \in [Peers -> Buffer \cup {None}]
      /\ curr_in_piece_index \in [Peers -> Pieces]
  BY <1>2 DEF PeersTyped
<1>8. total_in_request_count[p] = Len(in_piece_requests[p])
  BY <1>2 DEF InCountExact
<1>9. PeersTyped'
  <2>1. in_piece_requests' \in [Peers -> Seq(Pieces)]
    BY <1>1, <1>6, <1>7
  <2>2. total_in_request_count' \in [Peers -> Nat]
    <3>1. total_in_request_count[p] - 1 \in Nat
      BY <1>6, <1>8
    <3> QED BY <3>1, <1>1, <1>7
  <2>3. curr_in_piece' \in [Peers -> Buffer \cup {None}]
    BY <1>1, <1>4, <1>7
  <2>4. curr_in_piece_index' \in [Peers -> Pieces]
    BY <1>1, <1>3, <1>7
  <2>5. misserved' \subseteq {"piece", "unverified"}
    BY <1>1, <1>2, <1>5 DEF PeersTyped
  <2> QED BY <1>1, <1>2, <2>1, <2>2, <2>3, <2>4, <2>5 DEF PeersTyped
<1>10. ChokedIdle'
  BY <1>1, <1>2, <1>3, <1>7 DEF ChokedIdle
<1>11. InCountExact'
  <2> SUFFICES ASSUME NEW q \in Peers
               PROVE  total_in_request_count'[q] = Len(in_piece_requests'[q])
    BY DEF InCountExact
  <2>1. CASE q = p
    BY <2>1, <1>1, <1>6, <1>7, <1>8
  <2>2. CASE q # p
    <3>1. /\ total_in_request_count'[q] = total_in_request_count[q]
          /\ in_piece_requests'[q] = in_piece_requests[q]
      BY <2>2, <1>1, <1>7
    <3> QED BY <3>1, <1>2 DEF InCountExact
  <2> QED BY <2>1, <2>2
<1>12. ChokeTold' /\ GoneTold'
  BY <1>1, <1>2 DEF ChokeTold, GoneTold
<1>13. BufferNamed'
  <2> SUFFICES ASSUME NEW q \in Peers, curr_in_piece'[q] # None
               PROVE  \/ curr_in_piece'[q].of = curr_in_piece_index'[q]
                      \/ /\ in_piece_requests'[q] # <<>>
                         /\ curr_in_piece'[q].of = Head(in_piece_requests'[q])
    BY DEF BufferNamed
  <2>1. CASE q = p
    BY <2>1, <1>1, <1>4, <1>7
  <2>2. CASE q # p
    <3>1. /\ curr_in_piece'[q] = curr_in_piece[q]
          /\ curr_in_piece_index'[q] = curr_in_piece_index[q]
          /\ in_piece_requests'[q] = in_piece_requests[q]
      BY <2>2, <1>1, <1>7
    <3> QED BY <3>1, <1>2 DEF BufferNamed
  <2> QED BY <2>1, <2>2
<1>14. ServedRightPiece'
  BY <1>1, <1>2, <1>5 DEF ServedRightPiece
<1>15. PeersOK'
  BY <1>9, <1>10, <1>11, <1>12, <1>13, <1>14 DEF PeersOK
<1>16. PassOK'
  BY <1>0, <1>1 DEF PassOK, CursorOK
<1> QED BY <1>15, <1>16, InvFromParts

\* What a failed load leaves is a buffer of the request that is next, or none.
LEMMA FailLoadStep ==
  ASSUME IInv, NEW p \in Peers, FailLoad(p)
  PROVE  IInv'
<1>0. PeersOK /\ PassOK
  BY InvParts
<1>1. /\ in_piece_requests[p] # <<>> /\ Return
      /\ UNCHANGED <<we_choked, told, in_piece_requests, total_in_request_count,
                     curr_in_piece_index, active, they_interested, seen_choked, inbox,
                     misserved>>
  BY DEF FailLoad, chokeVars, requestVars, wireVars
<1>2. PICK b \in {None, [of |-> Head(in_piece_requests[p]), verified |-> FALSE]} :
        curr_in_piece' = [curr_in_piece EXCEPT ![p] = b]
  BY DEF FailLoad
<1>3. PeersTyped /\ ChokedIdle /\ InCountExact /\ ChokeTold /\ GoneTold /\ BufferNamed
        /\ ServedRightPiece
  BY <1>0 DEF PeersOK
<1>4. p \in active /\ ~ we_choked[p] /\ Head(in_piece_requests[p]) \in Pieces
  BY <1>0, <1>1, RequestOfUnchoked
<1>5. b \in Buffer \cup {None} /\ (b # None => b.of = Head(in_piece_requests[p]))
  <2>1. CASE b = None
    BY <2>1
  <2>2. CASE b = [of |-> Head(in_piece_requests[p]), verified |-> FALSE]
    <3>1. b \in Buffer
      BY <2>2, <1>4 DEF Buffer
    <3>2. b.of = Head(in_piece_requests[p])
      BY <2>2
    <3> QED BY <3>1, <3>2
  <2> QED BY <2>1, <2>2
<1>6. curr_in_piece \in [Peers -> Buffer \cup {None}]
  BY <1>3 DEF PeersTyped
<1>7. curr_in_piece' \in [Peers -> Buffer \cup {None}]
  BY <1>2, <1>5, <1>6
<1>8. PeersTyped'
  BY <1>1, <1>3, <1>7 DEF PeersTyped
<1>9. ChokedIdle'
  BY <1>1, <1>2, <1>3, <1>4, <1>6 DEF ChokedIdle
<1>10. InCountExact' /\ ChokeTold' /\ GoneTold' /\ ServedRightPiece'
  BY <1>1, <1>3 DEF InCountExact, ChokeTold, GoneTold, ServedRightPiece
<1>11. BufferNamed'
  BY <1>1, <1>2, <1>3, <1>5, <1>6 DEF BufferNamed
<1>12. PeersOK'
  BY <1>8, <1>9, <1>10, <1>11 DEF PeersOK
<1>13. PassOK'
  BY <1>0, <1>1, ReturnStep
<1> QED BY <1>12, <1>13, InvFromParts

LEMMA FailServeStep ==
  ASSUME IInv, NEW p \in Peers, FailServe(p)
  PROVE  IInv'
<1>0. PeersOK /\ PassOK
  BY InvParts
<1>1. /\ in_piece_requests[p] # <<>> /\ Close(p) /\ Return /\ UNCHANGED misserved
      /\ curr_in_piece_index' =
           [curr_in_piece_index EXCEPT ![p] = Head(in_piece_requests[p])]
  BY DEF FailServe
<1>2. Head(in_piece_requests[p]) \in Pieces
  BY <1>0, <1>1, RequestOfUnchoked
<1>3. curr_in_piece_index \in [Peers -> Pieces]
  BY <1>0 DEF PeersOK, PeersTyped
<1>4. /\ curr_in_piece_index' \in [Peers -> Pieces]
      /\ \A q \in Peers \ {p} : curr_in_piece_index'[q] = curr_in_piece_index[q]
  BY <1>1, <1>2, <1>3
<1>5. PeersOK' /\ active' = active \ {p}
  BY <1>0, <1>1, <1>4, CloseStep
<1>6. PassOK'
  BY <1>0, <1>1, <1>5, ReturnStep
<1> QED BY <1>5, <1>6, InvFromParts

\* A peer is closed in its turn, because it is gone or asked while choked.
LEMMA CloseInTurnStep ==
  ASSUME IInv, NEW p \in Peers, it = p, Close(p), Advance,
         UNCHANGED <<curr_in_piece_index, misserved>>
  PROVE  IInv'
<1>0. PeersOK /\ PassOK
  BY InvParts
<1>1. curr_in_piece_index' \in [Peers -> Pieces]
  BY <1>0 DEF PeersOK, PeersTyped
<1>2. PeersOK' /\ active' = active \ {p}
  BY <1>0, <1>1, CloseStep
<1>3. PassOK'
  BY <1>0, <1>2, AdvancePastStep
<1> QED BY <1>2, <1>3, InvFromParts

\* Reading a message takes it off the inbox.
LEMMA TailOfInbox ==
  ASSUME PeersOK, NEW p \in Peers, inbox[p] # <<>>,
         inbox' = [inbox EXCEPT ![p] = Tail(inbox[p])]
  PROVE  inbox' \in [Peers -> Seq(Messages)]
<1>1. inbox \in [Peers -> Seq(Messages)]
  BY DEF PeersOK, PeersTyped
<1>2. Tail(inbox[p]) \in Seq(Messages)
  BY <1>1, HeadTailProperties
<1> QED BY <1>1, <1>2

LEMMA RecvInterestStep ==
  ASSUME IInv, NEW p \in Peers, NEW on \in BOOLEAN, RecvInterest(p, on)
  PROVE  IInv'
<1>0. PeersOK /\ PassOK
  BY InvParts
<1>1. /\ inbox[p] # <<>> /\ inbox' = [inbox EXCEPT ![p] = Tail(inbox[p])]
      /\ they_interested' = [they_interested EXCEPT ![p] = on]
      /\ Advance
      /\ UNCHANGED <<chokeVars, requestVars, bufferVars, active, seen_choked, misserved>>
  BY DEF RecvInterest
<1>2. inbox' \in [Peers -> Seq(Messages)]
  BY <1>0, <1>1, TailOfInbox
<1>3. they_interested' \in [Peers -> BOOLEAN] /\ seen_choked' \in [Peers -> BOOLEAN]
  BY <1>0, <1>1 DEF PeersOK, PeersTyped
<1>4. PeersOK'
  BY <1>0, <1>1, <1>2, <1>3, WirePeers
<1>5. PassOK'
  BY <1>0, <1>1, AdvanceStep
<1> QED BY <1>4, <1>5, InvFromParts

LEMMA RecvRequestStep ==
  ASSUME IInv, NEW p \in Peers, NEW i \in Pieces, RecvRequest(p, i)
  PROVE  IInv'
<1>0. PeersOK /\ PassOK
  BY InvParts
<1>1. /\ it = p /\ ~ we_choked[p] /\ Advance
      /\ inbox[p] # <<>> /\ inbox' = [inbox EXCEPT ![p] = Tail(inbox[p])]
      /\ in_piece_requests' =
           [in_piece_requests EXCEPT ![p] = Append(in_piece_requests[p], i)]
      /\ total_in_request_count' =
           [total_in_request_count EXCEPT ![p] = total_in_request_count[p] + 1]
      /\ UNCHANGED <<we_choked, told, curr_in_piece, curr_in_piece_index, active,
                     they_interested, seen_choked, misserved>>
  BY DEF RecvRequest, Turn, chokeVars, bufferVars
<1>2. PeersTyped /\ ChokedIdle /\ InCountExact /\ ChokeTold /\ GoneTold /\ BufferNamed
        /\ ServedRightPiece
  BY <1>0 DEF PeersOK
<1>3. p \in active
  BY <1>0, <1>1, TurnActive
<1>4. /\ in_piece_requests \in [Peers -> Seq(Pieces)]
      /\ total_in_request_count \in [Peers -> Nat]
  BY <1>2 DEF PeersTyped
<1> DEFINE longer == Append(in_piece_requests[p], i)
<1>5. /\ in_piece_requests[p] \in Seq(Pieces) /\ longer \in Seq(Pieces) /\ longer # <<>>
      /\ Len(longer) = Len(in_piece_requests[p]) + 1
      /\ \A k \in 1 .. Len(in_piece_requests[p]) : longer[k] = in_piece_requests[p][k]
  BY <1>4, AppendProperties
<1>6. in_piece_requests[p] # <<>> => Head(longer) = Head(in_piece_requests[p])
  <2> SUFFICES ASSUME in_piece_requests[p] # <<>>
               PROVE  Head(longer) = Head(in_piece_requests[p])
    OBVIOUS
  <2>1. Len(in_piece_requests[p]) \in Nat \ {0}
    BY <1>5, EmptySeq
  <2>2. 1 \in 1 .. Len(in_piece_requests[p])
    BY <2>1
  <2>3. longer[1] = in_piece_requests[p][1]
    BY <1>5, <2>2
  <2> HIDE DEF longer
  <2>4. Head(longer) = longer[1]
    BY <1>5, HeadTailProperties
  <2>5. Head(in_piece_requests[p]) = in_piece_requests[p][1]
    BY <1>5, HeadTailProperties
  <2> QED BY <2>3, <2>4, <2>5
<1>7. in_piece_requests' = [in_piece_requests EXCEPT ![p] = longer]
  BY <1>1
<1> HIDE DEF longer
<1>8. /\ in_piece_requests' \in [Peers -> Seq(Pieces)]
      /\ in_piece_requests'[p] = longer
      /\ \A q \in Peers \ {p} : in_piece_requests'[q] = in_piece_requests[q]
  BY <1>4, <1>5, <1>7
<1>9. inbox' \in [Peers -> Seq(Messages)]
  BY <1>0, <1>1, TailOfInbox
<1>10. PeersTyped'
  <2>1. total_in_request_count' \in [Peers -> Nat]
    BY <1>1, <1>4
  <2> QED BY <1>1, <1>2, <1>8, <1>9, <2>1 DEF PeersTyped
<1>11. ChokedIdle'
  BY <1>1, <1>2, <1>3, <1>8 DEF ChokedIdle
<1>12. InCountExact'
  <2> SUFFICES ASSUME NEW q \in Peers
               PROVE  total_in_request_count'[q] = Len(in_piece_requests'[q])
    BY DEF InCountExact
  <2>1. CASE q = p
    <3>1. total_in_request_count'[q] = total_in_request_count[p] + 1
      BY <2>1, <1>1, <1>4
    <3>2. total_in_request_count[p] = Len(in_piece_requests[p])
      BY <1>2 DEF InCountExact
    <3> QED BY <2>1, <3>1, <3>2, <1>5, <1>8
  <2>2. CASE q # p
    <3>1. total_in_request_count'[q] = total_in_request_count[q]
      BY <2>2, <1>1, <1>4
    <3> QED BY <2>2, <3>1, <1>2, <1>8 DEF InCountExact
  <2> QED BY <2>1, <2>2
<1>13. ChokeTold' /\ GoneTold' /\ ServedRightPiece'
  BY <1>1, <1>2 DEF ChokeTold, GoneTold, ServedRightPiece
<1>14. BufferNamed'
  <2> SUFFICES ASSUME NEW q \in Peers, curr_in_piece[q] # None
               PROVE  \/ curr_in_piece[q].of = curr_in_piece_index[q]
                      \/ /\ in_piece_requests'[q] # <<>>
                         /\ curr_in_piece[q].of = Head(in_piece_requests'[q])
    BY <1>1 DEF BufferNamed
  <2>1. CASE q = p
    BY <2>1, <1>2, <1>5, <1>6, <1>8 DEF BufferNamed
  <2>2. CASE q # p
    BY <2>2, <1>2, <1>8 DEF BufferNamed
  <2> QED BY <2>1, <2>2
<1>15. PeersOK'
  BY <1>10, <1>11, <1>12, <1>13, <1>14 DEF PeersOK
<1>16. PassOK'
  BY <1>0, <1>1, AdvanceStep
<1> QED BY <1>15, <1>16, InvFromParts

\* A new peer is choked, as it takes itself to be.
LEMMA InsertActivePeerStep ==
  ASSUME IInv, NEW p \in Peers, InsertActivePeer(p)
  PROVE  IInv'
<1>0. PeersOK /\ PassOK
  BY InvParts
<1>1. /\ p \notin active /\ active' = active \cup {p}
      /\ we_choked' = [we_choked EXCEPT ![p] = TRUE]
      /\ UNCHANGED <<told, in_piece_requests, total_in_request_count, curr_in_piece,
                     curr_in_piece_index, pc, it, todo, they_interested, seen_choked,
                     inbox, misserved>>
  BY DEF InsertActivePeer, requestVars, bufferVars, passVars, wireVars
<1>2. PeersTyped /\ ChokedIdle /\ InCountExact /\ ChokeTold /\ GoneTold /\ BufferNamed
        /\ ServedRightPiece
  BY <1>0 DEF PeersOK
<1>3. we_choked \in [Peers -> BOOLEAN] /\ told \in [Peers -> BOOLEAN]
  BY <1>2 DEF PeersTyped
<1>4. PeersTyped'
  BY <1>1, <1>2 DEF PeersTyped
<1>5. ChokedIdle'
  BY <1>1, <1>2, <1>3 DEF ChokedIdle
<1>6. told[p] = TRUE
  BY <1>1, <1>2, <1>3 DEF GoneTold
<1>7. ChokeTold'
  <2> SUFFICES ASSUME NEW q \in active' PROVE told'[q] = we_choked'[q]
    BY DEF ChokeTold
  <2>1. CASE q = p
    BY <2>1, <1>1, <1>3, <1>6
  <2>2. CASE q # p
    <3>1. q \in active /\ we_choked'[q] = we_choked[q]
      BY <2>2, <1>1, <1>2, <1>3 DEF PeersTyped
    <3> QED BY <3>1, <1>1, <1>2 DEF ChokeTold
  <2> QED BY <2>1, <2>2
<1>8. InCountExact' /\ GoneTold' /\ BufferNamed' /\ ServedRightPiece'
  BY <1>1, <1>2 DEF InCountExact, GoneTold, BufferNamed, ServedRightPiece
<1>9. PeersOK'
  BY <1>4, <1>5, <1>7, <1>8 DEF PeersOK
<1>10. PassOK'
  BY <1>0, <1>1 DEF PassOK, CursorOK
<1> QED BY <1>9, <1>10, InvFromParts

\* Nothing of ours changes when a peer speaks or reads.
LEMMA PeerSaysStep ==
  ASSUME IInv, NEW p \in Peers, PeerSays(p)
  PROVE  IInv'
<1>0. PeersOK /\ PassOK
  BY InvParts
<1>1. PICK m \in Messages : inbox' = [inbox EXCEPT ![p] = Append(inbox[p], m)]
  <2>1. CASE Send(p, Interest(~ SaidInterest(p)))
    <3>1. (~ SaidInterest(p)) \in BOOLEAN
      OBVIOUS
    <3>2. Interest(~ SaidInterest(p)) \in Messages
      BY <3>1 DEF Messages
    <3> QED BY <2>1, <3>2 DEF Send
  <2>2. ASSUME NEW i \in Pieces, Send(p, Ask(i))
        PROVE  \E m \in Messages : inbox' = [inbox EXCEPT ![p] = Append(inbox[p], m)]
    <3>1. Ask(i) \in Messages
      BY DEF Messages
    <3> QED BY <2>2, <3>1 DEF Send
  <2> QED BY <2>1, <2>2 DEF PeerSays
<1>2. inbox \in [Peers -> Seq(Messages)]
  BY <1>0 DEF PeersOK, PeersTyped
<1>3. Append(inbox[p], m) \in Seq(Messages)
  BY <1>2, AppendProperties
<1>4. inbox' \in [Peers -> Seq(Messages)]
  BY <1>1, <1>2, <1>3
<1>5. UNCHANGED <<chokeVars, requestVars, bufferVars, active, pc, it, todo,
                  they_interested, seen_choked, misserved>>
  BY DEF PeerSays, passVars
<1>6. they_interested' \in [Peers -> BOOLEAN] /\ seen_choked' \in [Peers -> BOOLEAN]
  BY <1>0, <1>5 DEF PeersOK, PeersTyped
<1>7. PeersOK'
  BY <1>0, <1>4, <1>5, <1>6, WirePeers
<1>8. PassOK'
  BY <1>0, <1>5 DEF PassOK, CursorOK
<1> QED BY <1>7, <1>8, InvFromParts

LEMMA PeerReadsStep ==
  ASSUME IInv, NEW p \in Peers, PeerReads(p)
  PROVE  IInv'
<1>0. PeersOK /\ PassOK
  BY InvParts
<1>1. /\ seen_choked' = [seen_choked EXCEPT ![p] = told[p]]
      /\ UNCHANGED <<chokeVars, requestVars, bufferVars, active, pc, it, todo,
                     they_interested, inbox, misserved>>
  BY DEF PeerReads, passVars
<1>2. PeersTyped
  BY <1>0 DEF PeersOK
<1>3. they_interested' \in [Peers -> BOOLEAN] /\ seen_choked' \in [Peers -> BOOLEAN]
        /\ inbox' \in [Peers -> Seq(Messages)]
  BY <1>1, <1>2 DEF PeersTyped
<1>4. PeersOK'
  BY <1>0, <1>1, <1>3, WirePeers
<1>5. PassOK'
  BY <1>0, <1>1 DEF PassOK, CursorOK
<1> QED BY <1>4, <1>5, InvFromParts

LEMMA StutterStep ==
  ASSUME IInv, UNCHANGED vars
  PROVE  IInv'
<1>0. PeersOK /\ PassOK
  BY InvParts
<1>1. PeersOK'
  BY <1>0, QuietPeers DEF vars
<1>2. PassOK'
  BY <1>0 DEF PassOK, CursorOK, vars, passVars
<1> QED BY <1>1, <1>2, InvFromParts

-----------------------------------------------------------------------------
(***************************************************************************)
(* The theorems                                                            *)
(***************************************************************************)

LEMMA InitInv == Init => IInv
<1> SUFFICES ASSUME Init PROVE IInv
  OBVIOUS
<1>1. <<>> \in Seq(Pieces) /\ <<>> \in Seq(Messages) /\ Len(<<>>) = 0
  BY EmptySeq
<1>2. TypeOK
  BY <1>1 DEF Init, TypeOK
<1>3. InCountExact
  BY <1>1 DEF Init, InCountExact
<1>4. ChokedIdle /\ ChokeTold /\ GoneTold /\ BufferNamed /\ CursorOK /\ ServedRightPiece
  BY DEF Init, ChokedIdle, ChokeTold, GoneTold, BufferNamed, CursorOK, ServedRightPiece
<1> QED BY <1>2, <1>3, <1>4 DEF IInv

LEMMA TurnStepInv ==
  ASSUME IInv, TurnStep
  PROVE  IInv'
<1>1. PICK p \in Peers :
        \/ SkipTurn(p) \/ NothingToServe(p) \/ ServeBlock(p) \/ Abort(p)
        \/ NoMessage(p) \/ DropPeer(p) \/ Recv(p)
  BY DEF TurnStep
<1>2. CASE SkipTurn(p) \/ NoMessage(p)
  BY <1>2, QuietTurnStep
<1>3. CASE NothingToServe(p)
  BY <1>3, NothingToServeStep
<1>4. CASE ServeBlock(p)
  BY <1>4, ServeBlockStep
<1>5. CASE Abort(p)
  BY <1>5, FailLoadStep, FailServeStep DEF Abort
<1>6. CASE DropPeer(p)
  BY <1>6, CloseInTurnStep DEF DropPeer
<1>7. CASE Recv(p)
  <2>1. ASSUME NEW on \in BOOLEAN, RecvInterest(p, on) PROVE IInv'
    BY <2>1, RecvInterestStep
  <2>2. ASSUME NEW i \in Pieces, RecvRequest(p, i) PROVE IInv'
    BY <2>2, RecvRequestStep
  <2>3. ASSUME NEW i \in Pieces, RecvRequestChoked(p, i) PROVE IInv'
    BY <2>3, CloseInTurnStep DEF RecvRequestChoked, Turn
  <2> QED BY <1>7, <2>1, <2>2, <2>3 DEF Recv
<1> QED BY <1>1, <1>2, <1>3, <1>4, <1>5, <1>6, <1>7

LEMMA NextInv == IInv /\ [Next]_vars => IInv'
<1> SUFFICES ASSUME IInv, [Next]_vars PROVE IInv'
  OBVIOUS
<1>1. CASE BeginChoke
  BY <1>1, BeginChokeStep
<1>2. CASE BeginPass
  BY <1>2, BeginPassStep
<1>3. CASE TurnStep
  BY <1>3, TurnStepInv
<1>4. ASSUME NEW p \in Peers, InsertActivePeer(p) \/ PeerSays(p) \/ PeerReads(p)
      PROVE  IInv'
  BY <1>4, InsertActivePeerStep, PeerSaysStep, PeerReadsStep
<1>5. CASE UNCHANGED vars
  BY <1>5, StutterStep
<1> QED BY <1>1, <1>2, <1>3, <1>4, <1>5 DEF Next

\* Chokes, blocks, closes, aborted passes and new connections keep the invariant.
THEOREM UploadInvariant == Spec => []IInv
BY InitInv, NextInv, PTL DEF Spec

\* A peer that we choke, or that is gone, has neither a request nor a buffer with us.
THEOREM ChokeForgetsRequests == Spec => []ChokedIdle
<1>1. IInv => ChokedIdle
  BY DEF IInv
<1> QED BY <1>1, UploadInvariant, PTL

\* total_in_request_count is the number of requests on the list.
THEOREM RequestsCounted == Spec => []InCountExact
<1>1. IInv => InCountExact
  BY DEF IInv
<1> QED BY <1>1, UploadInvariant, PTL

\* What a connected peer was last told of its choke is what we act on.
THEOREM ChokeIsTold == Spec => []ChokeTold
<1>1. IInv => ChokeTold
  BY DEF IInv
<1> QED BY <1>1, UploadInvariant, PTL

\* A block is taken from the piece it was asked from.
THEOREM BlocksOfRightPiece == Spec => []ServedRightPiece
<1>1. IInv => ServedRightPiece
  BY DEF IInv
<1> QED BY <1>1, UploadInvariant, PTL

\* Every variable keeps its type.
THEOREM UploadTypeCorrect == Spec => []TypeOK
<1>1. IInv => TypeOK
  BY DEF IInv
<1> QED BY <1>1, UploadInvariant, PTL

=============================================================================

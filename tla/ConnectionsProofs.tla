-------------------------- MODULE ConnectionsProofs --------------------------
(***************************************************************************)
(* The count of connected peers and the sockets of Connections are exact,  *)
(* for any number of peers and of socket numbers.                          *)
(***************************************************************************)
EXTENDS Connections, FiniteSetTheorems, TLAPS

USE ConnectionsAssumption

\* Inserting a peer and closing one change the number of connected peers by one.
LEMMA ActiveCount ==
  ASSUME active \subseteq Peers, NEW p \in Peers
  PROVE  /\ Cardinality(active) \in Nat
         /\ p \notin active =>
              Cardinality(active \cup {p}) = Cardinality(active) + 1
         /\ p \in active =>
              /\ Cardinality(active) > 0
              /\ Cardinality(active \ {p}) = Cardinality(active) - 1
<1>1. IsFiniteSet(active)
  BY FS_Subset, Zenon
<1>2. Cardinality(active) \in Nat
  BY <1>1, FS_CardinalityType
<1>3. p \notin active => Cardinality(active \cup {p}) = Cardinality(active) + 1
  BY <1>1, FS_AddElement
<1>4. p \in active =>
        /\ Cardinality(active) > 0
        /\ Cardinality(active \ {p}) = Cardinality(active) - 1
  <2> SUFFICES ASSUME p \in active
               PROVE  /\ Cardinality(active) > 0
                      /\ Cardinality(active \ {p}) = Cardinality(active) - 1
    OBVIOUS
  <2>1. Cardinality(active \ {p}) = Cardinality(active) - 1
    BY <1>1, FS_RemoveElement
  <2>2. Cardinality(active) # 0
    BY <1>1, FS_EmptySet
  <2> QED BY <1>2, <2>1, <2>2
<1> QED BY <1>2, <1>3, <1>4

\* A handshake that inserts a peer, dialled or accepted.
LEMMA InsertStep ==
  ASSUME IInv, NEW p \in Peers, NEW fd \in Fds, p \notin active, Insert(p, fd)
  PROVE  /\ active' \subseteq Peers /\ active_peer_count' \in Nat
         /\ s' \in [Peers -> Fds \cup {INVALID_SOCKET}]
         /\ holder' \in [Fds -> Peers \cup {Free, Lost, Client, Server}]
         /\ CountExact' /\ SocketsExact'
<1>1. /\ active' = active \cup {p} /\ s' = [s EXCEPT ![p] = fd]
      /\ holder[fd] = Free /\ holder' = [holder EXCEPT ![fd] = p]
      /\ active_peer_count' = active_peer_count + 1
  BY DEF Insert, Open, Unused
<1>2. /\ active \subseteq Peers /\ active_peer_count = Cardinality(active)
      /\ s \in [Peers -> Fds \cup {INVALID_SOCKET}]
      /\ holder \in [Fds -> Peers \cup {Free, Lost, Client, Server}]
  BY DEF IInv, TypeOK, CountExact
<1>3. CountExact' /\ active_peer_count' \in Nat
  <2>1. /\ Cardinality(active) \in Nat
        /\ Cardinality(active \cup {p}) = Cardinality(active) + 1
    BY <1>2, ActiveCount, Zenon
  <2>2. active_peer_count' = Cardinality(active')
    BY <1>1, <1>2, <2>1
  <2>3. active_peer_count' \in Nat
    BY <1>1, <1>2, <2>1
  <2> QED BY <2>2, <2>3 DEF CountExact
<1>4. SocketsExact'
  <2>1. /\ \A g \in Fds, q \in Peers : holder[g] = q <=> q \in active /\ s[q] = g
        /\ \A q \in active : s[q] \in Fds
        /\ holder[ZeroFd] = Client
    BY DEF IInv, SocketsExact
  <2>2. \A g \in Fds, q \in Peers :
          holder'[g] = q <=> q \in active' /\ s'[q] = g
    <3> SUFFICES ASSUME NEW g \in Fds, NEW q \in Peers
                 PROVE  holder'[g] = q <=> q \in active' /\ s'[q] = g
      OBVIOUS
    <3>1. CASE q = p
      BY <1>1, <1>2, <2>1, <3>1
    <3>2. CASE q # p
      <4>1. s'[q] = s[q] /\ (q \in active' <=> q \in active)
        BY <1>1, <1>2, <3>2
      <4>2. CASE g = fd
        BY <1>1, <1>2, <2>1, <3>2, <4>1, <4>2
      <4>3. CASE g # fd
        BY <1>1, <1>2, <2>1, <4>1, <4>3
      <4> QED BY <4>2, <4>3
    <3> QED BY <3>1, <3>2
  <2>3. \A q \in active' : s'[q] \in Fds
    BY <1>1, <1>2, <2>1
  <2>4. holder'[ZeroFd] = Client
    BY <1>1, <1>2, <2>1
  <2> QED BY <2>2, <2>3, <2>4 DEF SocketsExact
<1> QED BY <1>1, <1>2, <1>3, <1>4

\* A step that closes nobody and inserts nobody: numbers of entries that are not
\* connected and numbers that are lost do not matter.
LEMMA QuietStep ==
  ASSUME IInv, UNCHANGED <<active, active_peer_count>>,
         s' \in [Peers -> Fds \cup {INVALID_SOCKET}],
         \A p \in active : s'[p] = s[p],
         \/ UNCHANGED holder
         \/ \E fd \in Fds, who \in {Server, Lost} : Open(fd, who)
  PROVE  /\ holder' \in [Fds -> Peers \cup {Free, Lost, Client, Server}]
         /\ CountExact' /\ SocketsExact'
<1>1. CountExact'
  BY DEF IInv, CountExact
<1>2. CASE UNCHANGED holder
  BY <1>1, <1>2 DEF IInv, TypeOK, SocketsExact
<1>3. CASE \E fd \in Fds, who \in {Server, Lost} : Open(fd, who)
  <2>1. PICK fd \in Fds, who \in {Server, Lost} : Open(fd, who)
    BY <1>3
  <2>2. holder[fd] = Free /\ holder' = [holder EXCEPT ![fd] = who]
    BY <2>1 DEF Open, Unused
  <2>3. who \notin Peers /\ fd # ZeroFd
    BY <2>1, <2>2 DEF IInv, SocketsExact
  <2>4. holder' \in [Fds -> Peers \cup {Free, Lost, Client, Server}]
    BY <2>2 DEF IInv, TypeOK
  <2>5. SocketsExact'
    BY <2>2, <2>3, <2>4 DEF IInv, TypeOK, SocketsExact
  <2> QED BY <1>1, <2>4, <2>5
<1> QED BY <1>2, <1>3

\* A close, whatever socket numbers other entries hold.
LEMMA PeerCloseStep ==
  ASSUME IInv, NEW p \in Peers, PeerClose(p)
  PROVE  IInv'
<1>1. /\ p \in active /\ active' = active \ {p}
      /\ active_peer_count' = CountClosed(active_peer_count, TRUE)
      /\ CloseSocket(p)
      /\ bad' \in {bad \cup {p}, bad \ {p}}
      /\ known' = known /\ pc' = pc /\ todo' = todo
      /\ downloaded_all' = downloaded_all
  BY DEF PeerClose
<1>2. TypeOK /\ CountExact /\ SocketsExact
  BY DEF IInv
<1>3. active_peer_count' = Cardinality(active') /\ active_peer_count' \in Nat
  BY <1>1, <1>2, ActiveCount DEF CountClosed, CountExact, TypeOK
<1>4. /\ s' = [s EXCEPT ![p] = INVALID_SOCKET] /\ s[p] \in Fds
      /\ holder' = [holder EXCEPT ![s[p]] = Free]
  BY <1>1, <1>2 DEF CloseSocket, SocketsExact
<1>5. TypeOK'
  BY <1>1, <1>2, <1>3, <1>4 DEF TypeOK
<1>6. SocketsExact'
  BY <1>1, <1>2, <1>4 DEF TypeOK, SocketsExact
<1> QED BY <1>3, <1>5, <1>6 DEF IInv, CountExact

\* The dials that end without a connection.
LEMMA FailedDialStep ==
  ASSUME IInv, NEW p \in Peers,
         DialFails(p) \/ DialLosesSocket(p) \/ DialUndone(p)
  PROVE  IInv'
<1>1. /\ p \notin active /\ active' = active /\ bad' = bad \cup {p}
      /\ s' = [s EXCEPT ![p] = INVALID_SOCKET]
      /\ known' = known /\ pc' = pc /\ todo' = todo \ {p}
      /\ downloaded_all' = downloaded_all
  BY DEF DialFails, DialLosesSocket, DialUndone, NextDial, MayDial, DialClosed
<1>2. /\ TypeOK /\ active_peer_count \in Nat
      /\ active_peer_count + 1 > 0 /\ active_peer_count + 1 - 1 = active_peer_count
  BY DEF IInv, TypeOK
<1>3. active_peer_count' = active_peer_count
  BY <1>1, <1>2 DEF DialFails, DialLosesSocket, DialUndone, CountClosed
<1>4. UNCHANGED holder \/ \E fd \in Fds, who \in {Server, Lost} : Open(fd, who)
  BY DEF DialFails, DialLosesSocket, DialUndone, DialClosed
<1>5. /\ s' \in [Peers -> Fds \cup {INVALID_SOCKET}]
      /\ \A q \in active : s'[q] = s[q]
  BY <1>1, <1>2 DEF TypeOK
<1>6. /\ holder' \in [Fds -> Peers \cup {Free, Lost, Client, Server}]
      /\ CountExact' /\ SocketsExact'
  BY <1>1, <1>3, <1>4, <1>5, QuietStep
<1> QED BY <1>1, <1>2, <1>3, <1>5, <1>6 DEF IInv, TypeOK

\* The accepted connections that come to nothing, and what only the entries see.
LEMMA FailedAcceptStep ==
  ASSUME IInv, NEW p \in Peers,
         AcceptFails(p) \/ AcceptUndone(p) \/ ProcessPeers(p)
  PROVE  IInv'
<1>1. /\ active' = active /\ known' = known \cup {p}
      /\ bad' \in {bad, bad \ {p}}
      /\ pc' = pc /\ todo' = todo /\ downloaded_all' = downloaded_all
      /\ holder' = holder
  BY DEF AcceptFails, AcceptUndone, ProcessPeers
<1>2. /\ TypeOK /\ active_peer_count \in Nat
      /\ active_peer_count + 1 > 0 /\ active_peer_count + 1 - 1 = active_peer_count
  BY DEF IInv, TypeOK
<1>3. active_peer_count' = active_peer_count
  BY <1>2 DEF AcceptFails, AcceptUndone, ProcessPeers, CountClosed
<1>4. /\ s' \in [Peers -> Fds \cup {INVALID_SOCKET}]
      /\ \A q \in active : s'[q] = s[q]
  <2>1. s \in [Peers -> Fds \cup {INVALID_SOCKET}]
    BY <1>2 DEF TypeOK
  <2>2. CASE ProcessPeers(p)
    BY <2>1, <2>2 DEF ProcessPeers
  <2>3. CASE AcceptUndone(p)
    BY <2>1, <2>3 DEF AcceptUndone
  <2>4. CASE AcceptFails(p)
    BY <2>1, <2>4 DEF AcceptFails, Unused
  <2> QED BY <2>2, <2>3, <2>4
<1>5. /\ holder' \in [Fds -> Peers \cup {Free, Lost, Client, Server}]
      /\ CountExact' /\ SocketsExact'
  BY <1>1, <1>3, <1>4, QuietStep
<1> QED BY <1>1, <1>2, <1>3, <1>4, <1>5 DEF IInv, TypeOK

\* The steps that touch no entry.
LEMMA OtherStep ==
  ASSUME IInv,
         \/ StartPeers \/ EndStartPeers \/ StartServer \/ AcceptLosesSocket
         \/ Complete \/ UNCHANGED vars \/ \E p \in Peers : Skip(p)
  PROVE  IInv'
<1>1. /\ UNCHANGED peerVars
      /\ downloaded_all' \in BOOLEAN
      /\ pc' \in {"idle", "dial"} /\ todo' \subseteq Peers
  BY DEF IInv, TypeOK, StartPeers, EndStartPeers, StartServer, AcceptLosesSocket,
         Complete, vars, Skip, NextDial, DialsLeft, peerVars
<1>2. UNCHANGED holder \/ \E fd \in Fds, who \in {Server, Lost} : Open(fd, who)
  BY DEF StartPeers, EndStartPeers, StartServer, AcceptLosesSocket,
         Complete, vars, Skip
<1>3. /\ UNCHANGED <<active, active_peer_count>>
      /\ s' \in [Peers -> Fds \cup {INVALID_SOCKET}]
      /\ \A p \in active : s'[p] = s[p]
  BY <1>1 DEF IInv, TypeOK, peerVars
<1>4. /\ holder' \in [Fds -> Peers \cup {Free, Lost, Client, Server}]
      /\ CountExact' /\ SocketsExact'
  BY <1>2, <1>3, QuietStep
<1> QED BY <1>1, <1>4 DEF IInv, TypeOK, peerVars

LEMMA InitInv == Init => IInv
<1> SUFFICES ASSUME Init PROVE IInv
  OBVIOUS
<1>1. TypeOK
  BY DEF Init, TypeOK
<1>2. CountExact
  BY FS_EmptySet DEF Init, CountExact
<1>3. SocketsExact
  BY DEF Init, SocketsExact
<1> QED BY <1>1, <1>2, <1>3 DEF IInv

LEMMA NextInv == IInv /\ [Next]_vars => IInv'
<1> SUFFICES ASSUME IInv, [Next]_vars PROVE IInv'
  OBVIOUS
<1>1. ASSUME NEW p \in Peers, Dial(p) \/ Accept(p) PROVE IInv'
  <2>1. PICK fd \in Fds : Insert(p, fd)
    BY <1>1 DEF Dial, Accept
  <2>2. /\ p \notin active /\ known' \subseteq Peers /\ bad' \subseteq Peers
        /\ downloaded_all' \in BOOLEAN
        /\ pc' \in {"idle", "dial"} /\ todo' \subseteq Peers
    BY <1>1 DEF Dial, Accept, NextDial, DialsLeft, MayDial, IInv, TypeOK
  <2> QED BY <2>1, <2>2, InsertStep DEF IInv, TypeOK
<1> QED
  BY <1>1, PeerCloseStep, FailedDialStep, FailedAcceptStep, OtherStep
  DEF Next, DialStep

\* Types, the count and the sockets are right in every state.
THEOREM ConnectionsInvariant == Spec => []IInv
<1> QED BY InitInv, NextInv, PTL DEF Spec

\* Every variable keeps its type: the count never falls below zero, and each entry
\* holds a socket number or the invalid one.
THEOREM ConnectionsTypeCorrect == Spec => []TypeOK
<1>1. IInv => TypeOK
  BY DEF IInv
<1> QED BY <1>1, ConnectionsInvariant, PTL

\* active_peer_count is the number of connected peers, whatever fails.
THEOREM ConnectionsCounted == Spec => []CountExact
<1>1. IInv => CountExact
  BY DEF IInv
<1> QED BY <1>1, ConnectionsInvariant, PTL

\* Every connected peer has a socket of its own, and no close hits another one.
THEOREM SocketsNeverMixedUp == Spec => []SocketsExact
<1>1. IInv => SocketsExact
  BY DEF IInv
<1> QED BY <1>1, ConnectionsInvariant, PTL

=============================================================================

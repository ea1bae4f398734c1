---------------------------- MODULE Connections ----------------------------
(***************************************************************************)
(* Whom the library is connected to: dialling peers, accepting them, the   *)
(* handshake, and closing them, with the socket numbers the system gives   *)
(* out and takes back.                                                     *)
(*                                                                         *)
(* Dialling and accepting are steps of the library's only thread; a        *)
(* handshake waits for its answer inside the step.  Any call to the system *)
(* may fail.  Allocations do not.                                          *)
(***************************************************************************)
EXTENDS Integers, FiniteSets

CONSTANTS
  Peers,             \* the entries peer_map may get
  Fds,               \* socket numbers
  ZeroFd,            \* 0, which memset leaves in the s of a new entry
  INVALID_SOCKET,
  Free, Lost,        \* holders of a number: nobody; nobody who would close it
  Client, Server,    \* the program around the library; its listening socket
  MAX_CONNECTIONS

ASSUME ConnectionsAssumption ==
  /\ ZeroFd \in Fds /\ INVALID_SOCKET \notin Fds
  /\ Free \notin Peers /\ Lost \notin Peers
  /\ Client \notin Peers /\ Server \notin Peers
  /\ Client # Free /\ Client # Lost /\ Client # Server
  /\ Server # Free /\ Server # Lost
  /\ IsFiniteSet(Peers)
  /\ MAX_CONNECTIONS \in Nat \ {0}

VARIABLES
  known,             \* the entries of peer_map
  bad,               \* those with peer->bad
  active,            \* those with peer->active, which are the ones on active_peers
  active_peer_count,
  s,                 \* the socket number each entry holds, valid or not
  downloaded_all,    \* torrent->downloaded == torrent->length
  pc,                \* "dial" while start_peers runs, else "idle"
  todo,              \* entries its loop has not come to
  holder             \* history: who opened each number that is open

peerVars == <<known, bad, active, active_peer_count, s>>
vars == <<peerVars, downloaded_all, pc, todo, holder>>

Listening == \E fd \in Fds : holder[fd] = Server

-----------------------------------------------------------------------------
(***************************************************************************)
(* Opening and closing                                                     *)
(***************************************************************************)

Unused == { fd \in Fds : holder[fd] = Free }

Open(fd, who) == fd \in Unused /\ holder' = [holder EXCEPT ![fd] = who]

\* Mutant: every call of peer_close counts.
CountClosedAlways(count, was_active) == count - 1

\* peer_close counts down once, though a failed dial may call it twice.
CountClosed(count, was_active) ==
  IF was_active /\ count > 0 THEN count - 1 ELSE count

\* dsock_close of the number an entry holds.
CloseSocket(p) ==
  /\ holder' = IF s[p] = INVALID_SOCKET THEN holder
               ELSE [holder EXCEPT ![s[p]] = Free]
  /\ s' = [s EXCEPT ![p] = INVALID_SOCKET]

\* insert_active_peer of an entry whose socket has number fd.
Insert(p, fd) ==
  /\ active' = active \cup {p}
  /\ active_peer_count' = active_peer_count + 1
  /\ s' = [s EXCEPT ![p] = fd]
  /\ Open(fd, p)

-----------------------------------------------------------------------------
(***************************************************************************)
(* start_peers                                                             *)
(***************************************************************************)

\* START_PEERS_INTERVAL has passed.
StartPeers ==
  /\ pc = "idle"
  /\ active_peer_count < MAX_CONNECTIONS /\ ~ downloaded_all
  /\ pc' = "dial" /\ todo' = known
  /\ UNCHANGED <<peerVars, downloaded_all, holder>>

DialsLeft == pc = "dial" /\ todo # {} /\ active_peer_count < MAX_CONNECTIONS

EndStartPeers ==
  /\ pc = "dial" /\ ~ DialsLeft
  /\ pc' = "idle" /\ todo' = {}
  /\ UNCHANGED <<peerVars, downloaded_all, holder>>

\* Mutant: entries with a socket number are taken to be connected.
MayDialIfNoNumber(p) == p \notin bad /\ p \notin active /\ s[p] \notin Fds \ {ZeroFd}

MayDial(p) == p \notin bad /\ p \notin active

\* The loop comes to p; the order of the entries is left open.
NextDial(p) ==
  /\ DialsLeft /\ p \in todo /\ todo' = todo \ {p}
  /\ UNCHANGED <<known, downloaded_all, pc>>

Skip(p) ==
  /\ NextDial(p) /\ ~ MayDial(p)
  /\ UNCHANGED <<bad, active, active_peer_count, s, holder>>

Dial(p) ==
  /\ NextDial(p) /\ MayDial(p)
  /\ \E fd \in Fds : Insert(p, fd)
  /\ UNCHANGED bad

\* Mutant: a number is only assigned when there is one.
DialFailsKeepingNumber(p) == CloseSocket(p)

\* No connection, or no handshake on it: the socket is closed again and the
\* entry's number is invalid, when peer_close comes to it.
DialClosed(p) == s' = [s EXCEPT ![p] = INVALID_SOCKET] /\ UNCHANGED holder

DialFails(p) ==
  /\ NextDial(p) /\ MayDial(p)
  /\ DialClosed(p)
  /\ active_peer_count' = CountClosed(active_peer_count, p \in active)
  /\ bad' = bad \cup {p}
  /\ UNCHANGED active

\* connect_helper cannot make its new socket non-blocking.
DialLosesSocket(p) ==
  /\ NextDial(p) /\ MayDial(p)
  /\ \E fd \in Fds : Open(fd, Lost)
  /\ s' = [s EXCEPT ![p] = INVALID_SOCKET]
  /\ active_peer_count' = CountClosed(active_peer_count, p \in active)
  /\ bad' = bad \cup {p}
  /\ UNCHANGED active

\* send_bitfield fails: peer_send_handshake closes the peer it has just inserted,
\* and start_peers closes it again.
DialUndone(p) ==
  /\ NextDial(p) /\ MayDial(p) /\ Unused # {}
  /\ DialClosed(p)
  /\ active_peer_count' =
       CountClosed(CountClosed(active_peer_count + 1, TRUE), FALSE)
  /\ bad' = bad \cup {p}
  /\ UNCHANGED active

-----------------------------------------------------------------------------
(***************************************************************************)
(* peer_server_start, peer_server_accept, peer_recv_handshake              *)
(***************************************************************************)

StartServer ==
  /\ pc = "idle" /\ ~ Listening
  /\ \E fd \in Fds, who \in {Server, Lost} : Open(fd, who)   \* Lost: bind fails
  /\ UNCHANGED <<peerVars, downloaded_all, pc, todo>>

Accepting == pc = "idle" /\ Listening /\ Unused # {}

\* peer_server_accept cannot make the socket non-blocking.
AcceptLosesSocket ==
  /\ Accepting
  /\ \E fd \in Fds : Open(fd, Lost)
  /\ UNCHANGED <<peerVars, downloaded_all, pc, todo>>

\* The handshake of a peer that is not connected arrives and is answered.
Accept(p) ==
  /\ Accepting /\ p \notin active
  /\ \E fd \in Fds : Insert(p, fd)
  /\ known' = known \cup {p}
  /\ UNCHANGED <<bad, downloaded_all, pc, todo>>

\* The answer cannot be sent: the socket is closed, the entry keeps its number.
AcceptFails(p) ==
  /\ Accepting /\ p \notin active
  /\ \E fd \in Unused : s' = [s EXCEPT ![p] = fd]
  /\ known' = known \cup {p}
  /\ UNCHANGED <<bad, active, active_peer_count, downloaded_all, pc, todo, holder>>

\* The bitfield cannot be sent: peer_close, not as bad.
AcceptUndone(p) ==
  /\ Accepting /\ p \notin active
  /\ known' = known \cup {p} /\ bad' = bad \ {p}
  /\ s' = [s EXCEPT ![p] = INVALID_SOCKET]
  /\ active_peer_count' = CountClosed(active_peer_count + 1, TRUE)
  /\ UNCHANGED <<active, downloaded_all, pc, todo, holder>>

-----------------------------------------------------------------------------
(***************************************************************************)
(* The rest of a pass of manage_torrent                                    *)
(***************************************************************************)

\* The tracker names a peer: peer_get_or_create makes an entry of zeros.
ProcessPeers(p) ==
  /\ pc = "idle" /\ p \notin known
  /\ known' = known \cup {p}
  /\ UNCHANGED <<bad, active, active_peer_count, s, downloaded_all, pc, todo, holder>>

\* Some loop closes a peer, as bad or not.
PeerClose(p) ==
  /\ pc = "idle" /\ p \in active
  /\ CloseSocket(p)
  /\ active_peer_count' = CountClosed(active_peer_count, p \in active)
  /\ active' = active \ {p}
  /\ bad' \in {bad \cup {p}, bad \ {p}}
  /\ UNCHANGED <<known, downloaded_all, pc, todo>>

\* The last piece was completed.
Complete ==
  /\ pc = "idle" /\ ~ downloaded_all /\ downloaded_all' = TRUE
  /\ UNCHANGED <<peerVars, pc, todo, holder>>

-----------------------------------------------------------------------------
(***************************************************************************)
(* The specification                                                       *)
(***************************************************************************)

Init ==
  /\ known = {} /\ bad = {} /\ active = {} /\ active_peer_count = 0
  /\ s = [p \in Peers |-> ZeroFd]
  /\ downloaded_all = FALSE
  /\ pc = "idle" /\ todo = {}
  /\ holder = [fd \in Fds |-> IF fd = ZeroFd THEN Client ELSE Free]

DialStep ==
  \/ EndStartPeers
  \/ \E p \in Peers :
       Skip(p) \/ Dial(p) \/ DialFails(p) \/ DialLosesSocket(p) \/ DialUndone(p)

Next ==
  \/ StartPeers \/ DialStep \/ StartServer \/ AcceptLosesSocket \/ Complete
  \/ \E p \in Peers :
       Accept(p) \/ AcceptFails(p) \/ AcceptUndone(p) \/ ProcessPeers(p)
       \/ PeerClose(p)

Spec == Init /\ [][Next]_vars

\* START_PEERS_INTERVAL passes again and again, and start_peers comes to its end:
\* connecting and waiting for a handshake have their timeouts.
FairSpec == Spec /\ SF_vars(StartPeers) /\ WF_vars(DialStep)

-----------------------------------------------------------------------------
(***************************************************************************)
(* Properties                                                              *)
(***************************************************************************)

\* Every variable has its type.
TypeOK ==
  /\ known \subseteq Peers /\ bad \subseteq Peers /\ active \subseteq Peers
  /\ active_peer_count \in Nat
  /\ s \in [Peers -> Fds \cup {INVALID_SOCKET}]
  /\ downloaded_all \in BOOLEAN
  /\ pc \in {"idle", "dial"} /\ todo \subseteq Peers
  /\ holder \in [Fds -> Peers \cup {Free, Lost, Client, Server}]

\* active_peer_count, which start_peers goes by, is the number of connected peers:
\* a dial that fails after the peer was inserted closes it twice and counts once.
CountExact == active_peer_count = Cardinality(active)

\* A socket is open for a peer exactly when the peer is connected and knows its
\* number.  So none is left open by a close, and no close hits a number that is
\* stale, that is zero because the entry is new, or that is another peer's by now;
\* the client's own descriptor stays open.
SocketsExact ==
  /\ \A fd \in Fds, p \in Peers : holder[fd] = p <=> p \in active /\ s[p] = fd
  /\ \A p \in active : s[p] \in Fds
  /\ holder[ZeroFd] = Client

\* The inductive invariant behind the theorems of ConnectionsProofs.
IInv == TypeOK /\ CountExact /\ SocketsExact

\* A peer we know is dialled, and becomes connected or bad, unless connections run
\* out or the download completes.
Waiting(p) == p \in known /\ p \notin active /\ p \notin bad
Dialled ==
  \A p \in Peers :
    Waiting(p) ~>
      ~ Waiting(p) \/ Cardinality(active) >= MAX_CONNECTIONS \/ downloaded_all

=============================================================================

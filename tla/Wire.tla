-------------------------------- MODULE Wire --------------------------------
(***************************************************************************)
(* Two clients of this library connected with each other: both ends send   *)
(* as SendQueue does, and read what the other sent, in turns of            *)
(* manage_torrent.  A turn sends the unsent data first; if some of it is   *)
(* left, it ends there, and nothing is read.                               *)
(*                                                                         *)
(* What one end sent and the other has not read is in the net, which has   *)
(* room for so many bytes in each direction.  It arrives some time later.  *)
(* A byte is its message, its place there, and the length of the message,  *)
(* that is what the prefix says.  The connection is followed to its end.   *)
(***************************************************************************)
EXTENDS Naturals, SequencesExt

CONSTANTS
  Ends,            \* the two of them
  Lengths,         \* how long a message is with its prefix
  PREFIX,          \* the 4 bytes of a length
  TEMP_BUF_SIZE,   \* how far extract_sock_msg peeks
  MSG_BUF_SIZE,    \* the longest message that process_msg gets
  MAX_UNSENT_MSGS,
  ROOM,            \* what the sockets' buffers hold of what each end sends
  MaxMsgs          \* bound on the messages of each end

ASSUME WireAssumption ==
  /\ \E e, f \in Ends : e # f /\ Ends = {e, f}
  /\ PREFIX \in Nat \ {0}
  /\ \A len \in Lengths : len \in Nat /\ len >= PREFIX
  /\ TEMP_BUF_SIZE \in Nat /\ MSG_BUF_SIZE \in Nat /\ MAX_UNSENT_MSGS \in Nat
  /\ MaxMsgs \in Nat

\* A full buffer is more than a peek.
ASSUME RoomAssumption ==
  \A e \in Ends : ROOM[e] \in Nat /\ TEMP_BUF_SIZE <= ROOM[e]

VARIABLES
  open,            \* the connection is
  turn,            \* of each end: "idle", "resend" in attempt_resend, or "read"
  unsent_data,     \* of each end: what is left of its queued messages
  net,             \* what each end sent and the other has not read
  sent,            \* history: how many messages each end sent, or queued,
  strayed,         \*   whether it sent a byte that is none of a message's,
  handled          \*   and the messages it took

vars == <<open, turn, unsent_data, net, sent, strayed, handled>>

-----------------------------------------------------------------------------
(***************************************************************************)
(* Helpers                                                                 *)
(***************************************************************************)

Other(e) == CHOOSE f \in Ends : f # e
Smaller(m, n) == IF m < n THEN m ELSE n

Stray == 0

\* Message m, its bytes counted from 1.
Message(m, len) == [k \in 1 .. len |-> [msg |-> m, at |-> k, len |-> len]]

\* What follows the first n bytes.
After(bytes, n) == SubSeq(bytes, n + 1, Len(bytes))

Room(e) == ROOM[e] - Len(net[e])

\* e sends what fits of some bytes.
Fits(e, bytes) == Smaller(Len(bytes), Room(e))
Transmit(e, bytes) == net' = [net EXCEPT ![e] = @ \o SubSeq(bytes, 1, Fits(e, bytes))]

Close == open' = FALSE /\ UNCHANGED <<turn, unsent_data, net, sent, strayed, handled>>

-----------------------------------------------------------------------------
(***************************************************************************)
(* send_sock_msg, from anywhere in the program but attempt_resend          *)
(***************************************************************************)

Sendable(e) == open /\ turn[e] # "resend" /\ sent[e] < MaxMsgs

\* Mutant: what is queued last is sent first.
QueueInFront(e, bytes) == unsent_data' = [unsent_data EXCEPT ![e] = <<bytes>> \o @]

Queue(e, bytes) == unsent_data' = [unsent_data EXCEPT ![e] = Append(@, bytes)]

CountSent(e) == sent' = [sent EXCEPT ![e] = @ + 1]

SendBehind(e, len) ==
  /\ Sendable(e) /\ unsent_data[e] # <<>>
  /\ IF Len(unsent_data[e]) >= MAX_UNSENT_MSGS THEN Close
     ELSE /\ Queue(e, Message(sent[e] + 1, len)) /\ CountSent(e)
          /\ UNCHANGED <<open, turn, net, strayed, handled>>

\* All of the message is sent, or some of it: then errno, which this send did not
\* set, decides between the queue and a failure.
SendDirect(e, len) ==
  LET bytes == Message(sent[e] + 1, len)
      n == Fits(e, bytes)
  IN  /\ Sendable(e) /\ unsent_data[e] = <<>> /\ n > 0
      /\ \/ /\ Transmit(e, bytes) /\ CountSent(e)
            /\ IF n = len THEN UNCHANGED unsent_data ELSE Queue(e, After(bytes, n))
            /\ UNCHANGED <<open, turn, strayed, handled>>
         \/ n < len /\ Close

\* Nothing is: the offset of -1 puts a byte before the message.
SendBlocked(e, len) ==
  LET m == sent[e] + 1
  IN  /\ Sendable(e) /\ unsent_data[e] = <<>> /\ Room(e) = 0
      /\ Queue(e, <<[msg |-> m, at |-> Stray, len |-> len]>> \o Message(m, len))
      /\ strayed' = [strayed EXCEPT ![e] = TRUE]
      /\ CountSent(e)
      /\ UNCHANGED <<open, turn, net, handled>>

-----------------------------------------------------------------------------
(***************************************************************************)
(* A turn of manage_torrent                                                *)
(***************************************************************************)

BeginTurn(e) ==
  /\ open /\ turn[e] = "idle"
  /\ turn' = [turn EXCEPT ![e] = IF unsent_data[e] = <<>> THEN "read" ELSE "resend"]
  /\ UNCHANGED <<open, unsent_data, net, sent, strayed, handled>>

\* Mutant: the turn goes on when data is left unsent.
AfterBlockedReading == "read"

\* manage_torrent goes on to the next peer.
AfterBlocked == "idle"

\* One send of attempt_resend, and what it returns if it is the last.
Resend(e) ==
  LET bytes == Head(unsent_data[e])
      n == Fits(e, bytes)
      done == n = Len(bytes)
  IN  /\ open /\ turn[e] = "resend"
      /\ \/ /\ Transmit(e, bytes)
            /\ unsent_data' =
                 [unsent_data EXCEPT ![e] = IF done THEN Tail(@) ELSE [@ EXCEPT ![1] = After(bytes, n)]]
            /\ turn' = [turn EXCEPT ![e] = IF ~ done THEN AfterBlocked
                                           ELSE IF unsent_data'[e] = <<>> THEN "read" ELSE "resend"]
            /\ UNCHANGED <<open, sent, strayed, handled>>
         \/ n \in 1 .. Len(bytes) - 1 /\ Close

-----------------------------------------------------------------------------
(***************************************************************************)
(* extract_sock_msg                                                        *)
(***************************************************************************)

Peeked(e) == Smaller(TEMP_BUF_SIZE, Len(net[Other(e)]))
First(e) == net[Other(e)][1]

\* The first bytes are the prefix of a message.
Framed(e) == Peeked(e) >= PREFIX /\ First(e).at = 1

\* Mutant: off by one.
AllPeekedButLast(e) == Peeked(e) - PREFIX > First(e).len - PREFIX

AllPeeked(e) == Peeked(e) - PREFIX >= First(e).len - PREFIX

TooLong(e) == First(e).len - PREFIX > MSG_BUF_SIZE

Reading(e) == open /\ turn[e] = "read"
EndTurn(e) == turn' = [turn EXCEPT ![e] = "idle"]
Take(e, n) == net' = [net EXCEPT ![Other(e)] = After(@, n)]

ReadMsg(e) ==
  /\ Reading(e) /\ Framed(e) /\ ~ TooLong(e) /\ AllPeeked(e)
  /\ Take(e, First(e).len) /\ handled' = [handled EXCEPT ![e] = Append(@, First(e).msg)]
  /\ EndTurn(e)
  /\ UNCHANGED <<open, unsent_data, sent, strayed>>

\* The message has not come, or not all of it.
ReadNothing(e) ==
  /\ Reading(e) /\ EndTurn(e)
  /\ UNCHANGED <<open, unsent_data, net, sent, strayed, handled>>

RefuseMsg(e) == Reading(e) /\ Framed(e) /\ TooLong(e) /\ Close

\* What is read as a prefix is none: it may be any length.
ReadGarbage(e) ==
  /\ Reading(e) /\ Peeked(e) >= PREFIX /\ ~ Framed(e)
  /\ \/ /\ \E n \in PREFIX .. Peeked(e) : Take(e, n)
        /\ EndTurn(e)
        /\ UNCHANGED <<open, unsent_data, sent, strayed, handled>>
     \/ Close

-----------------------------------------------------------------------------
(***************************************************************************)
(* The specification                                                       *)
(***************************************************************************)

\* Either end closes the connection for another reason, or it breaks.
Break == open /\ Close

Init ==
  /\ open = TRUE
  /\ turn = [e \in Ends |-> "idle"]
  /\ unsent_data = [e \in Ends |-> <<>>] /\ net = [e \in Ends |-> <<>>]
  /\ sent = [e \in Ends |-> 0] /\ strayed = [e \in Ends |-> FALSE]
  /\ handled = [e \in Ends |-> <<>>]

Send(e) == \E len \in Lengths : SendBehind(e, len) \/ SendDirect(e, len) \/ SendBlocked(e, len)
Read(e) == ReadMsg(e) \/ ReadNothing(e) \/ RefuseMsg(e) \/ ReadGarbage(e)
Turn(e) == BeginTurn(e) \/ Resend(e) \/ Read(e)

Next == Break \/ \E e \in Ends : Send(e) \/ Turn(e)

Spec == Init /\ [][Next]_vars

\* Both ends take their turns, and what was sent arrives.
FairSpec ==
  /\ Spec
  /\ \A e \in Ends : WF_vars(Turn(e)) /\ SF_vars(ReadMsg(e))

-----------------------------------------------------------------------------
(***************************************************************************)
(* Properties                                                              *)
(***************************************************************************)

\* Neither end reads before it has sent, and neither can send before the other has
\* read.
Jammed == \A e \in Ends : turn[e] # "read" /\ Room(e) = 0 /\ unsent_data[e] # <<>>

\* A message longer than the peek window is next to be read: it never is.
BeyondWindow(e) == net[e] # <<>> /\ net[e][1].len > TEMP_BUF_SIZE

Lost == Jammed \/ \E e \in Ends : strayed[e] \/ BeyondWindow(e)

\* A message that either end sends is handled by the other, in its turn, whatever
\* was queued, sent in parts and read in parts, unless the connection is closed.  It
\* takes a stray byte, a message beyond the window, or both directions being
\* full at once to prevent it: one direction that is full is not enough.
Delivered ==
  \A e \in Ends, m \in 1 .. MaxMsgs :
    sent[e] >= m ~>
      \/ IsPrefix([k \in 1 .. m |-> k], handled[Other(e)])
      \/ ~ open \/ Lost

\* The message that is next to be read is the one that is due, to its last byte.
NextIsWhole(e) ==
  Framed(e) /\ AllPeeked(e) =>
    SubSeq(net[Other(e)], 1, First(e).len) = Message(Len(handled[e]) + 1, First(e).len)

\* What an end handles are the messages that the other has sent, from the first on,
\* each once and in order, and none of another's bytes is taken for theirs, however
\* they were cut, queued and put together again; unless a stray byte is among them.
InOrder ==
  \A e \in Ends :
    \/ strayed[Other(e)]
    \/ /\ Len(handled[e]) <= sent[Other(e)]
       /\ handled[e] = [m \in 1 .. Len(handled[e]) |-> m]
       /\ NextIsWhole(e)

\* Once both directions are full, they stay so: manage_torrent does not read from a
\* peer that it cannot send to, and so nothing but closing the connection ends it.
JamIsForever == [][Jammed => Jammed' \/ ~ open']_vars

=============================================================================

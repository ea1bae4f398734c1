----------------------------- MODULE SendQueue -----------------------------
(***************************************************************************)
(* The sending side of one peer's connection: a message goes straight to   *)
(* the non-blocking socket; what the socket does not take is queued, and   *)
(* manage_torrent sends it later, before anything else it does for that    *)
(* peer.                                                                   *)
(*                                                                         *)
(* What a send returns is the environment's choice: all of the bytes, some *)
(* of them, -1 with EAGAIN in errno, or -1 with another error.  After a    *)
(* short send the code looks at errno too, which no failed call has set    *)
(* then: it finds what an earlier call left there.                         *)
(***************************************************************************)
EXTENDS Naturals, SequencesExt

CONSTANTS
  Lengths,         \* msg_size + 4: how long a message is with its prefix
  MAX_UNSENT_MSGS,
  OffsetModulus,   \* 2^64: unsent_info.offset is unsigned
  MaxMsgs          \* bound on the messages of a connection

ASSUME SendQueueAssumption ==
  /\ Lengths \subseteq Nat \ {0}
  /\ MAX_UNSENT_MSGS \in Nat \ {0}
  /\ OffsetModulus \in Nat
  /\ \A len \in Lengths : len + 1 < OffsetModulus
  /\ MaxMsgs \in Nat

VARIABLES
  connected,
  unsent_data,         \* the queue: which message, its length, and its offset
  unsent_data_count,
  pc                   \* "resend" while attempt_resend runs, else "idle"

VARIABLES              \* history, of this connection
  accepted,            \* lengths of the messages that send_sock_msg took
  written,             \* bytes the socket took, as in ByteStream
  closed_for           \* what the last connection was given up for

queueVars == <<unsent_data, unsent_data_count>>
vars == <<connected, queueVars, pc, accepted, written, closed_for>>

Unsent == [msg : 1 .. MaxMsgs, length : Lengths, offset : 0 .. OffsetModulus - 1]

-----------------------------------------------------------------------------
(***************************************************************************)
(* Helpers                                                                 *)
(***************************************************************************)

\* send_result -1 when it is kept as an unsigned offset.
MinusOne == OffsetModulus - 1

\* n bytes of message m from an offset on; counting wraps, so that what lies
\* before the first byte has number MinusOne.
BytesFrom(m, offset, n) ==
  [k \in 1 .. n |-> [msg |-> m, at |-> (offset + k - 1) % OffsetModulus]]

\* Mutant: the offset does not wrap, and -1 with it.
OffsetUnwrapped(info, n) == info.offset + n

\* attempt_resend moves the offset on.
OffsetAfter(info, n) == (info.offset + n) % OffsetModulus

\* resend_length.
Rest(info) == (info.length + OffsetModulus - info.offset) % OffsetModulus

\* Mutant: the length of the queue is checked after the insertion.
FullLate == unsent_data_count > MAX_UNSENT_MSGS

\* queue_unsent_data refuses.
Full == unsent_data_count >= MAX_UNSENT_MSGS

\* peer_close drops the queue, and the caller that sees a negative result or
\* another fault of the peer always closes it.
Close(why) ==
  /\ connected' = FALSE
  /\ unsent_data' = <<>> /\ unsent_data_count' = 0
  /\ pc' = "idle"
  /\ accepted' = <<>> /\ written' = <<>>
  /\ closed_for' = why

\* queue_unsent_data of message number m.
Queue(m, len, offset) ==
  /\ unsent_data' = Append(unsent_data, [msg |-> m, length |-> len, offset |-> offset])
  /\ unsent_data_count' = unsent_data_count + 1

-----------------------------------------------------------------------------
(***************************************************************************)
(* send_sock_msg                                                           *)
(***************************************************************************)

Sendable == connected /\ pc = "idle" /\ Len(accepted) < MaxMsgs

\* There is unsent data: the message waits behind it.
SendBehind(len) ==
  /\ Sendable /\ unsent_data # <<>>
  /\ IF Full THEN Close("full")
     ELSE /\ accepted' = Append(accepted, len)
          /\ Queue(Len(accepted'), len, 0)
          /\ UNCHANGED <<connected, pc, written, closed_for>>

\* Mutant: whether data is waiting is not looked at.
MaySendAtOnceAlways == TRUE

MaySendAtOnce == unsent_data = <<>>

\* The socket takes the first n bytes.  If these are not all, errno decides,
\* though this send did not set it.
SendDirect(len, n) ==
  /\ Sendable /\ MaySendAtOnce
  /\ \/ /\ accepted' = Append(accepted, len)
        /\ written' = written \o BytesFrom(Len(accepted'), 0, n)
        /\ IF n = len THEN UNCHANGED queueVars ELSE Queue(Len(accepted'), len, n)
        /\ UNCHANGED <<connected, pc, closed_for>>
     \/ n < len /\ Close("short")

\* The socket takes nothing: -1 goes into the queue as the offset.
SendBlocked(len) ==
  /\ Sendable /\ MaySendAtOnce
  /\ accepted' = Append(accepted, len)
  /\ Queue(Len(accepted'), len, MinusOne)
  /\ UNCHANGED <<connected, pc, written, closed_for>>

SendFails == Sendable /\ MaySendAtOnce /\ Close("error")

SendMsg ==
  \/ \E len \in Lengths :
       \/ SendBehind(len) \/ SendBlocked(len)
       \/ \E n \in 1 .. len : SendDirect(len, n)
  \/ SendFails

-----------------------------------------------------------------------------
(***************************************************************************)
(* attempt_resend: one step for every send it makes                        *)
(***************************************************************************)

\* Mutant: a message that waits alone is overlooked.
BeginResendOfSeveral ==
  /\ connected /\ pc = "idle" /\ unsent_data_count > 1
  /\ pc' = "resend"
  /\ UNCHANGED <<connected, queueVars, accepted, written, closed_for>>

BeginResend ==
  /\ connected /\ pc = "idle" /\ unsent_data # <<>>
  /\ pc' = "resend"
  /\ UNCHANGED <<connected, queueVars, accepted, written, closed_for>>

\* The socket takes all that is left of the first message; on to the next.
ResendAll ==
  LET info == Head(unsent_data)
  IN  /\ pc = "resend"
      /\ written' = written \o BytesFrom(info.msg, info.offset, Rest(info))
      /\ unsent_data' = Tail(unsent_data)
      /\ unsent_data_count' = unsent_data_count - 1
      /\ pc' = IF unsent_data' = <<>> THEN "idle" ELSE "resend"
      /\ UNCHANGED <<connected, accepted, closed_for>>

\* It takes n bytes; errno, which this send did not set, decides.
ResendPart(n) ==
  LET info == Head(unsent_data)
  IN  /\ pc = "resend" /\ n \in 1 .. Rest(info) - 1
      /\ written' = written \o BytesFrom(info.msg, info.offset, n)
      /\ unsent_data' = [unsent_data EXCEPT ![1].offset = OffsetAfter(info, n)]
      /\ pc' = "idle"
      /\ UNCHANGED <<connected, unsent_data_count, accepted, closed_for>>

ResendPartFails ==
  /\ pc = "resend" /\ Rest(Head(unsent_data)) > 1
  /\ Close("short")

ResendBlocked ==
  /\ pc = "resend" /\ pc' = "idle"
  /\ UNCHANGED <<connected, queueVars, accepted, written, closed_for>>

ResendFails == pc = "resend" /\ Close("error")

ResendWrites ==
  \/ ResendAll
  \/ \E len \in Lengths : \E n \in 1 .. len : ResendPart(n)

-----------------------------------------------------------------------------
(***************************************************************************)
(* The specification                                                       *)
(***************************************************************************)

\* The peer is closed for a reason outside this module, and connects again.
Drop == connected /\ pc = "idle" /\ Close("peer")

Connect ==
  /\ ~ connected /\ connected' = TRUE
  /\ UNCHANGED <<queueVars, pc, accepted, written, closed_for>>

Init ==
  /\ connected = FALSE
  /\ unsent_data = <<>> /\ unsent_data_count = 0
  /\ pc = "idle"
  /\ accepted = <<>> /\ written = <<>> /\ closed_for = "nothing"

Next ==
  \/ SendMsg \/ BeginResend \/ ResendWrites \/ ResendPartFails
  \/ ResendBlocked \/ ResendFails \/ Drop \/ Connect

Spec == Init /\ [][Next]_vars

(***************************************************************************)
(* manage_torrent calls attempt_resend again and again, and again and      *)
(* again one of its sends finds room, since the peer reads now and then.   *)
(***************************************************************************)
FairSpec == Spec /\ WF_vars(BeginResend) /\ SF_vars(ResendWrites)

-----------------------------------------------------------------------------
(***************************************************************************)
(* Properties                                                              *)
(***************************************************************************)

\* Every variable has its type; the unsigned offset stays in its range.
TypeOK ==
  /\ connected \in BOOLEAN
  /\ unsent_data \in Seq(Unsent) /\ unsent_data_count \in Nat
  /\ pc \in {"idle", "resend"}
  /\ accepted \in Seq(Lengths)
  /\ written \in Seq([msg : 1 .. MaxMsgs, at : 0 .. OffsetModulus - 1])
  /\ closed_for \in {"nothing", "full", "short", "error", "peer"}

\* unsent_data_count, the only thing queue_unsent_data looks at, is the length of
\* the queue and within its limit, over sends, resends, closes and reconnects.
CountExact ==
  /\ unsent_data_count = Len(unsent_data)
  /\ unsent_data_count <= MAX_UNSENT_MSGS

\* Only the first message of the queue is ever partly sent, and a message that
\* was sent to its end is not in the queue: with a later one half sent, or one
\* with nothing left, attempt_resend would mix up the stream.
OnlyHeadPartial ==
  \A k \in 1 .. Len(unsent_data) :
    LET info == unsent_data[k]
    IN  /\ k > 1 => info.offset = 0
        /\ info.offset \in 0 .. info.length - 1 \cup {MinusOne}

\* attempt_resend runs only over a queue that is not empty.
ResendHasHead == pc = "resend" => unsent_data # <<>>

\* The inductive invariant behind the theorems of SendQueueProofs.
IInv == TypeOK /\ CountExact /\ OnlyHeadPartial /\ ResendHasHead

\* The bytes of messages among those written.  The others come from a position
\* before the first byte.
Real(byte) == byte.at # MinusOne
RealBytes(bytes) ==
  FlattenSeq([k \in 1 .. Len(bytes) |-> IF Real(bytes[k]) THEN <<bytes[k]>> ELSE <<>>])

Stream == INSTANCE ByteStream WITH stream <- RealBytes(written)

\* The queue implements the byte stream of ByteStream but for strays: no byte of
\* a message is lost, doubled or out of turn, whatever mix of direct sends, short
\* sends, queueing and resends carries it, and a new connection starts afresh.
ImplementsByteStream == Stream!Spec

\* The invariant behind it.  The messages that wait are the last ones accepted, and
\* the bytes of all the others are out, with those of the first that waits that
\* lie before its offset.
QueueIsTail ==
  /\ Len(unsent_data) <= Len(accepted)
  /\ \A k \in 1 .. Len(unsent_data) :
       LET m == Len(accepted) - Len(unsent_data) + k
       IN  unsent_data[k].msg = m /\ unsent_data[k].length = accepted[m]

\* The first p messages and k bytes of the next one.
Upto(msgs, p, k) ==
  Stream!Bytes(SubSeq(msgs, 1, p)) \o SubSeq(Stream!MessageBytes(msgs, p + 1), 1, k)

Sent(info) == IF info.offset = MinusOne THEN 0 ELSE info.offset
StreamPosition ==
  RealBytes(written) =
    IF unsent_data = <<>> THEN Stream!Bytes(accepted)
    ELSE Upto(accepted, Len(accepted) - Len(unsent_data), Sent(Head(unsent_data)))

StreamInv == QueueIsTail /\ StreamPosition

\* A queued message is sent to the end some day, or its connection is closed.
Queued(m) == \E k \in 1 .. Len(unsent_data) : unsent_data[k].msg = m
Flushed == \A m \in 1 .. MaxMsgs : Queued(m) ~> ~ Queued(m)

\* What the comment in send_sock_msg says it does: "queue the rest of the data, if
\* tcp buffer is full".  Then the socket has exactly the bytes of the messages,
\* in order, up to some point.
OnlyTheRestIsQueued ==
  IsPrefix(written, Stream!Bytes(accepted))

\* What the other comment says: only an "error unrelated to tcp buffer being full"
\* is a failure.  Then a short send never ends a connection.
FatalOnlyOnError == closed_for # "short"

=============================================================================

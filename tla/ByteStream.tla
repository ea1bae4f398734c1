----------------------------- MODULE ByteStream -----------------------------
(***************************************************************************)
(* What send_sock_msg promises its callers, who only look at whether the   *)
(* result is negative: the messages it took on a connection are handed to  *)
(* the socket whole, one after the other, none twice and none left out.    *)
(* It may hand over less for the moment.                                   *)
(***************************************************************************)
EXTENDS Naturals, SequencesExt

CONSTANT Lengths   \* how long a message may be, its length prefix included

VARIABLES
  accepted,   \* lengths of the messages taken on this connection
  stream      \* bytes handed to its socket

\* Byte k of the m-th message.
Byte(m, k) == [msg |-> m, at |-> k]

\* The bytes of a list of messages, and of the m-th one alone.
MessageBytes(msgs, m) == [k \in 1 .. msgs[m] |-> Byte(m, k - 1)]
Bytes(msgs) == FlattenSeq([m \in 1 .. Len(msgs) |-> MessageBytes(msgs, m)])

Init == accepted = <<>> /\ stream = <<>>

\* Some bytes are handed over, none if n is the number already there.
Deliver ==
  \E n \in Len(stream) .. Len(Bytes(accepted')) :
    stream' = SubSeq(Bytes(accepted'), 1, n)

Accept == \E len \in Lengths : accepted' = Append(accepted, len) /\ Deliver
Flush == UNCHANGED accepted /\ Deliver

\* The connection is given up, and the next one starts afresh.
Lose == accepted' = <<>> /\ stream' = <<>>

Next == Accept \/ Flush \/ Lose

Spec == Init /\ [][Next]_<<accepted, stream>>

=============================================================================

----------------------------- MODULE WireProofs -----------------------------
(***************************************************************************)
(* Two clients that are connected with each other, for messages of any     *)
(* length, any limit of the queues and any room in the net: once both      *)
(* directions are full they wait for each other for ever, and what one     *)
(* sends the other handles in order, as long as no stray byte is sent.     *)
(***************************************************************************)
EXTENDS Wire, SequenceTheorems, WellFoundedInduction, TLAPS

USE WireAssumption

Byte == [msg : Nat, at : Nat, len : Nat]

\* A message that is queued has a byte left.
Rests == {bytes \in Seq(Byte) : bytes # <<>>}

\* The types that a jam depends on: what waits can be sent, and attempt_resend runs
\* only while something waits.
WireInv ==
  /\ turn \in [Ends -> {"idle", "resend", "read"}]
  /\ unsent_data \in [Ends -> Seq(Rests)]
  /\ net \in [Ends -> Seq(Byte)]
  /\ sent \in [Ends -> Nat]
  /\ \A e \in Ends : Len(net[e]) <= ROOM[e]
  /\ \A e \in Ends : turn[e] = "resend" => unsent_data[e] # <<>>

-----------------------------------------------------------------------------
(***************************************************************************)
(* What the helpers return                                                 *)
(***************************************************************************)

LEMMA OtherType == \A e \in Ends : Other(e) \in Ends /\ Other(e) # e
BY DEF Other

\* The bytes of a message.
LEMMA MessageType ==
  ASSUME NEW m \in Nat, NEW len \in Lengths
  PROVE  Message(m, len) \in Rests /\ Len(Message(m, len)) = len
<1>1. len \in Nat /\ len >= 1
  OBVIOUS
<1>2. Message(m, len) \in Seq(Byte) /\ Len(Message(m, len)) = len
  BY <1>1 DEF Message, Byte
<1>3. Message(m, len) # <<>>
  BY <1>1, <1>2
<1> QED BY <1>2, <1>3 DEF Rests

\* Cutting off the first bytes of a sequence, but not all of them.
LEMMA AfterType ==
  ASSUME NEW s \in Seq(Byte), NEW n \in 0 .. Len(s)
  PROVE  /\ After(s, n) \in Seq(Byte) /\ Len(After(s, n)) = Len(s) - n
         /\ n < Len(s) => After(s, n) \in Rests
<1>1. After(s, n) \in Seq(Byte) /\ Len(After(s, n)) = Len(s) - n
  BY DEF After
<1>2. n < Len(s) => After(s, n) # <<>>
  BY <1>1
<1> QED BY <1>1, <1>2 DEF Rests

\* What fits is no more than there is, nor than there is room for.
LEMMA FitsType ==
  ASSUME NEW e \in Ends, NEW bytes \in Seq(Byte),
         net \in [Ends -> Seq(Byte)], Len(net[e]) <= ROOM[e]
  PROVE  /\ Fits(e, bytes) \in 0 .. Len(bytes) /\ Fits(e, bytes) <= Room(e)
         /\ Room(e) \in Nat
         /\ Fits(e, bytes) = Len(bytes) \/ Fits(e, bytes) = Room(e)
<1>1. Len(net[e]) \in Nat /\ Len(bytes) \in Nat /\ ROOM[e] \in Nat
  BY RoomAssumption
<1>2. Room(e) \in Nat
  BY <1>1 DEF Room
<1> QED BY <1>1, <1>2 DEF Fits, Smaller

\* Sending keeps the net within its room, and what does not fit leaves it as it is.
LEMMA TransmitType ==
  ASSUME NEW e \in Ends, NEW bytes \in Seq(Byte),
         net \in [Ends -> Seq(Byte)], \A d \in Ends : Len(net[d]) <= ROOM[d],
         Transmit(e, bytes)
  PROVE  /\ net' \in [Ends -> Seq(Byte)]
         /\ \A d \in Ends : Len(net'[d]) <= ROOM[d]
         /\ Fits(e, bytes) = 0 => net' = net
<1> DEFINE n == Fits(e, bytes)
           part == SubSeq(bytes, 1, n)
<1>1. n \in 0 .. Len(bytes) /\ n <= Room(e)
  BY FitsType
<1> HIDE DEF n
<1>2. part \in Seq(Byte) /\ Len(part) = n
  BY <1>1
<1>3. net' = [net EXCEPT ![e] = @ \o part]
  BY DEF Transmit, n
<1> HIDE DEF part
<1>4. net[e] \o part \in Seq(Byte) /\ Len(net[e] \o part) = Len(net[e]) + n
  <2>1. net[e] \in Seq(Byte)
    OBVIOUS
  <2> QED BY <2>1, <1>2, ConcatProperties
<1>5. net' \in [Ends -> Seq(Byte)]
  BY <1>3, <1>4
<1>6. Len(net[e]) + n <= ROOM[e]
  BY <1>1, RoomAssumption DEF Room
<1>7. \A d \in Ends : Len(net'[d]) <= ROOM[d]
  BY <1>3, <1>4, <1>6
<1>8. ASSUME n = 0 PROVE net' = net
  <2>1. part = <<>>
    BY <1>2, <1>8
  <2>2. net[e] \o part = net[e]
    BY <2>1
  <2> QED BY <1>3, <2>2
<1> QED BY <1>5, <1>7, <1>8 DEF n

\* Queueing keeps the types, and something waits afterwards.
LEMMA QueueType ==
  ASSUME NEW e \in Ends, NEW bytes \in Rests,
         unsent_data \in [Ends -> Seq(Rests)], Queue(e, bytes)
  PROVE  /\ unsent_data' \in [Ends -> Seq(Rests)]
         /\ unsent_data'[e] # <<>>
         /\ \A d \in Ends : unsent_data[d] # <<>> => unsent_data'[d] # <<>>
<1>1. unsent_data[e] \in Seq(Rests)
  OBVIOUS
<1>2. /\ Append(unsent_data[e], bytes) \in Seq(Rests)
      /\ Append(unsent_data[e], bytes) # <<>>
  BY <1>1, AppendProperties
<1>3. unsent_data' = [unsent_data EXCEPT ![e] = Append(unsent_data[e], bytes)]
  BY DEF Queue
<1> QED BY <1>2, <1>3

\* Reading keeps the types and makes room.
LEMMA TakeType ==
  ASSUME NEW e \in Ends, WireInv,
         NEW n \in 0 .. Len(net[Other(e)]), Take(e, n)
  PROVE  /\ net' \in [Ends -> Seq(Byte)]
         /\ \A d \in Ends : Len(net'[d]) <= ROOM[d]
<1> DEFINE o == Other(e)
           rest == After(net[o], n)
<1>1. o \in Ends
  BY OtherType
<1>2. net[o] \in Seq(Byte) /\ Len(net[o]) <= ROOM[o] /\ Len(net[o]) \in Nat
  BY <1>1 DEF WireInv
<1>3. rest \in Seq(Byte) /\ Len(rest) = Len(net[o]) - n
  BY <1>2, AfterType
<1>4. Len(rest) <= ROOM[o]
  BY <1>1, <1>2, <1>3, RoomAssumption
<1>5. net' = [net EXCEPT ![o] = rest]
  BY DEF Take
<1> HIDE DEF o, rest
<1>6. net \in [Ends -> Seq(Byte)] /\ \A d \in Ends : Len(net[d]) <= ROOM[d]
  BY DEF WireInv
<1>7. net' \in [Ends -> Seq(Byte)]
  BY <1>3, <1>5, <1>6
<1>8. \A d \in Ends : Len(net'[d]) <= ROOM[d]
  BY <1>4, <1>5, <1>6
<1> QED BY <1>7, <1>8

-----------------------------------------------------------------------------
(***************************************************************************)
(* The invariant                                                           *)
(***************************************************************************)

LEMMA InitInv == Init => WireInv
BY EmptySeq, RoomAssumption DEF Init, WireInv

LEMMA CloseStep == WireInv /\ Close => WireInv'
BY DEF WireInv, Close

LEMMA SendBehindStep ==
  ASSUME WireInv, NEW e \in Ends, NEW len \in Lengths, SendBehind(e, len)
  PROVE  WireInv'
<1>1. CASE Close
  BY <1>1, CloseStep
<1>2. CASE ~ Close
  <2>1. Queue(e, Message(sent[e] + 1, len)) /\ CountSent(e) /\ UNCHANGED <<turn, net>>
    BY <1>2 DEF SendBehind
  <2>2. Message(sent[e] + 1, len) \in Rests
    BY MessageType DEF WireInv
  <2>3. /\ unsent_data' \in [Ends -> Seq(Rests)]
        /\ \A d \in Ends : unsent_data[d] # <<>> => unsent_data'[d] # <<>>
    BY <2>1, <2>2, QueueType DEF WireInv
  <2>4. sent' \in [Ends -> Nat]
    BY <2>1 DEF WireInv, CountSent
  <2> QED BY <2>1, <2>3, <2>4 DEF WireInv
<1> QED BY <1>1, <1>2

LEMMA SendDirectStep ==
  ASSUME WireInv, NEW e \in Ends, NEW len \in Lengths, SendDirect(e, len)
  PROVE  WireInv'
<1> DEFINE bytes == Message(sent[e] + 1, len)
           n == Fits(e, bytes)
<1>1. CASE Close
  BY <1>1, CloseStep
<1>2. CASE ~ Close
  <2>1. /\ Transmit(e, bytes) /\ CountSent(e) /\ UNCHANGED turn
        /\ IF n = len THEN UNCHANGED unsent_data ELSE Queue(e, After(bytes, n))
    BY <1>2 DEF SendDirect
  <2>2. bytes \in Rests /\ Len(bytes) = len
    BY MessageType DEF WireInv
  <2> HIDE DEF bytes
  <2>3. bytes \in Seq(Byte)
    BY <2>2 DEF Rests
  <2>4. n \in 0 .. len
    BY <2>2, <2>3, FitsType DEF WireInv
  <2>5. net' \in [Ends -> Seq(Byte)] /\ \A d \in Ends : Len(net'[d]) <= ROOM[d]
    BY <2>1, <2>3, TransmitType DEF WireInv
  <2>6. sent' \in [Ends -> Nat]
    BY <2>1 DEF WireInv, CountSent
  <2>7. CASE n = len
    BY <2>1, <2>5, <2>6, <2>7 DEF WireInv
  <2>8. CASE n # len
    <3>1. After(bytes, n) \in Rests
      BY <2>2, <2>3, <2>4, <2>8, AfterType
    <3> HIDE DEF n
    <3>2. /\ unsent_data' \in [Ends -> Seq(Rests)]
          /\ \A d \in Ends : unsent_data[d] # <<>> => unsent_data'[d] # <<>>
      BY <2>1, <2>8, <3>1, QueueType DEF WireInv
    <3> QED BY <2>1, <2>5, <2>6, <3>2 DEF WireInv
  <2> QED BY <2>7, <2>8
<1> QED BY <1>1, <1>2

LEMMA SendBlockedStep ==
  ASSUME WireInv, NEW e \in Ends, NEW len \in Lengths, SendBlocked(e, len)
  PROVE  WireInv'
<1> DEFINE m == sent[e] + 1
           stray == [msg |-> m, at |-> Stray, len |-> len]
           bytes == <<stray>> \o Message(m, len)
<1>1. Queue(e, bytes) /\ CountSent(e) /\ UNCHANGED <<turn, net>>
  BY DEF SendBlocked
<1>2. m \in Nat /\ len \in Nat
  BY DEF WireInv
<1>3. stray \in Byte
  BY <1>2 DEF Byte, Stray
<1>4. Message(m, len) \in Seq(Byte) /\ Len(Message(m, len)) = len
  BY <1>2, MessageType DEF Rests
<1>5. bytes \in Seq(Byte) /\ Len(bytes) = 1 + len
  <2> HIDE DEF stray
  <2>1. <<stray>> \in Seq(Byte) /\ Len(<<stray>>) = 1
    BY <1>3
  <2> QED BY <1>4, <2>1, ConcatProperties
<1>6. bytes \in Rests
  <2> HIDE DEF bytes
  <2> QED BY <1>2, <1>5, EmptySeq DEF Rests
<1> HIDE DEF bytes
<1>7. /\ unsent_data' \in [Ends -> Seq(Rests)]
      /\ \A d \in Ends : unsent_data[d] # <<>> => unsent_data'[d] # <<>>
  BY <1>1, <1>6, QueueType DEF WireInv
<1>8. sent' \in [Ends -> Nat]
  BY <1>1 DEF WireInv, CountSent
<1> QED BY <1>1, <1>7, <1>8 DEF WireInv

LEMMA BeginTurnStep ==
  ASSUME WireInv, NEW e \in Ends, BeginTurn(e)
  PROVE  WireInv'
BY DEF WireInv, BeginTurn

\* What one send of attempt_resend works with.
LEMMA HeadType ==
  ASSUME WireInv, NEW e \in Ends, turn[e] = "resend"
  PROVE  /\ unsent_data[e] \in Seq(Rests) /\ unsent_data[e] # <<>>
         /\ Head(unsent_data[e]) \in Rests /\ Head(unsent_data[e]) \in Seq(Byte)
         /\ Len(Head(unsent_data[e])) \in Nat \ {0}
         /\ Tail(unsent_data[e]) \in Seq(Rests)
<1>1. unsent_data[e] \in Seq(Rests) /\ unsent_data[e] # <<>>
  BY DEF WireInv
<1>2. Head(unsent_data[e]) \in Rests /\ Tail(unsent_data[e]) \in Seq(Rests)
  BY <1>1, HeadTailProperties
<1>3. \A bytes \in Rests : bytes \in Seq(Byte) /\ Len(bytes) \in Nat \ {0}
  BY EmptySeq DEF Rests
<1> QED BY <1>1, <1>2, <1>3

LEMMA ResendStep ==
  ASSUME WireInv, NEW e \in Ends, Resend(e)
  PROVE  WireInv'
<1> DEFINE bytes == Head(unsent_data[e])
           n == Fits(e, bytes)
           rest == After(bytes, n)
           left == IF n = Len(bytes) THEN Tail(unsent_data[e])
                   ELSE [unsent_data[e] EXCEPT ![1] = rest]
<1>1. CASE Close
  BY <1>1, CloseStep
<1>2. CASE ~ Close
  <2>1. /\ turn[e] = "resend" /\ Transmit(e, bytes) /\ UNCHANGED sent
        /\ unsent_data' = [unsent_data EXCEPT ![e] = left]
        /\ turn' = [turn EXCEPT ![e] = IF n # Len(bytes) THEN AfterBlocked
                                       ELSE IF unsent_data'[e] = <<>> THEN "read" ELSE "resend"]
    BY <1>2 DEF Resend
  <2>2. /\ unsent_data[e] \in Seq(Rests) /\ unsent_data[e] # <<>>
        /\ bytes \in Seq(Byte) /\ Tail(unsent_data[e]) \in Seq(Rests)
    BY <2>1, HeadType
  <2> HIDE DEF bytes
  <2>3. n \in 0 .. Len(bytes)
    BY <2>2, FitsType DEF WireInv
  <2>4. net' \in [Ends -> Seq(Byte)] /\ \A d \in Ends : Len(net'[d]) <= ROOM[d]
    BY <2>1, <2>2, TransmitType DEF WireInv
  <2> HIDE DEF n
  <2>5. left \in Seq(Rests)
    <3>1. CASE n = Len(bytes)
      BY <2>2, <3>1
    <3>2. CASE n # Len(bytes)
      <4>1. rest \in Rests
        BY <2>2, <2>3, <3>2, AfterType
      <4> HIDE DEF rest
      <4> QED BY <2>2, <3>2, <4>1, ExceptSeq
    <3> QED BY <3>1, <3>2
  <2> HIDE DEF left
  <2>6. unsent_data' \in [Ends -> Seq(Rests)]
    BY <2>1, <2>5 DEF WireInv
  <2>7. turn' \in [Ends -> {"idle", "resend", "read"}]
    BY <2>1 DEF WireInv, AfterBlocked
  <2>8. \A d \in Ends : turn'[d] = "resend" => unsent_data'[d] # <<>>
    <3>1. turn'[e] = "resend" => unsent_data'[e] # <<>>
      BY <2>1 DEF WireInv, AfterBlocked
    <3>2. \A d \in Ends \ {e} : turn'[d] = turn[d] /\ unsent_data'[d] = unsent_data[d]
      BY <2>1 DEF WireInv
    <3> QED BY <3>1, <3>2 DEF WireInv
  <2> QED BY <2>1, <2>4, <2>6, <2>7, <2>8 DEF WireInv
<1> QED BY <1>1, <1>2

\* What was peeked is in the net.
LEMMA PeekedType ==
  ASSUME WireInv, NEW e \in Ends
  PROVE  /\ Peeked(e) \in Nat /\ Peeked(e) <= Len(net[Other(e)])
         /\ Len(net[Other(e)]) \in Nat
         /\ Peeked(e) >= PREFIX => First(e) \in Byte
<1>1. net[Other(e)] \in Seq(Byte)
  BY OtherType DEF WireInv
<1>2. Len(net[Other(e)]) \in Nat /\ TEMP_BUF_SIZE \in Nat /\ PREFIX \in Nat \ {0}
  BY <1>1
<1>3. Peeked(e) \in Nat /\ Peeked(e) <= Len(net[Other(e)])
  BY <1>2 DEF Peeked, Smaller
<1>4. ASSUME Peeked(e) >= PREFIX PROVE First(e) \in Byte
  <2>1. Len(net[Other(e)]) >= 1
    BY <1>2, <1>3, <1>4
  <2> QED BY <1>1, <2>1 DEF First
<1> QED BY <1>2, <1>3, <1>4

LEMMA ReadStep ==
  ASSUME WireInv, NEW e \in Ends, Read(e)
  PROVE  WireInv'
<1>1. CASE Close
  BY <1>1, CloseStep
<1>2. ASSUME NEW n \in 0 .. Len(net[Other(e)]), Take(e, n), EndTurn(e),
             UNCHANGED <<unsent_data, sent>>
      PROVE  WireInv'
  <2>1. net' \in [Ends -> Seq(Byte)] /\ \A d \in Ends : Len(net'[d]) <= ROOM[d]
    BY <1>2, TakeType
  <2> QED BY <1>2, <2>1 DEF WireInv, EndTurn
<1>3. CASE ReadMsg(e)
  <2>1. /\ Peeked(e) >= PREFIX /\ Peeked(e) - PREFIX >= First(e).len - PREFIX
        /\ Take(e, First(e).len) /\ EndTurn(e) /\ UNCHANGED <<unsent_data, sent>>
    BY <1>3 DEF ReadMsg, Framed, AllPeeked
  <2>2. First(e).len \in Nat
    BY <2>1, PeekedType DEF Byte
  <2>3. First(e).len \in 0 .. Len(net[Other(e)])
    BY <2>1, <2>2, PeekedType
  <2> QED BY <1>2, <2>1, <2>3
<1>4. CASE ReadNothing(e)
  BY <1>4 DEF ReadNothing, EndTurn, WireInv
<1>5. CASE RefuseMsg(e)
  BY <1>5, CloseStep DEF RefuseMsg
<1>6. CASE ReadGarbage(e) /\ ~ Close
  <2>1. PICK n \in PREFIX .. Peeked(e) :
          Take(e, n) /\ EndTurn(e) /\ UNCHANGED <<unsent_data, sent>>
    BY <1>6 DEF ReadGarbage
  <2>2. n \in 0 .. Len(net[Other(e)])
    BY PeekedType
  <2> QED BY <1>2, <2>1, <2>2
<1> QED BY <1>1, <1>3, <1>4, <1>5, <1>6 DEF Read

LEMMA NextInv == WireInv /\ [Next]_vars => WireInv'
<1> SUFFICES ASSUME WireInv, [Next]_vars PROVE WireInv'
  OBVIOUS
<1>1. CASE UNCHANGED vars
  BY <1>1 DEF WireInv, vars
<1>2. CASE Break
  BY <1>2, CloseStep DEF Break
<1>3. ASSUME NEW e \in Ends, Send(e) PROVE WireInv'
  BY <1>3, SendBehindStep, SendDirectStep, SendBlockedStep DEF Send
<1>4. ASSUME NEW e \in Ends, Turn(e) PROVE WireInv'
  BY <1>4, BeginTurnStep, ResendStep, ReadStep DEF Turn
<1> QED BY <1>1, <1>2, <1>3, <1>4 DEF Next

\* What is sent and not read never exceeds the room that there is, and attempt_resend
\* runs only while something waits to be sent, as stream.c:97 takes it to.
THEOREM WireInvariant == Spec => []WireInv
<1>1. Init => WireInv
  BY InitInv
<1>2. WireInv /\ [Next]_vars => WireInv'
  BY NextInv
<1> QED BY <1>1, <1>2, PTL DEF Spec

-----------------------------------------------------------------------------
(***************************************************************************)
(* The jam                                                                 *)
(***************************************************************************)

\* Sending into a full direction leaves it as it is, and all of the data unsent.
LEMMA FullFits ==
  ASSUME WireInv, NEW e \in Ends, NEW bytes \in Seq(Byte), Room(e) = 0
  PROVE  Fits(e, bytes) = 0
BY FitsType DEF WireInv

\* A jam outlasts each step of a turn.
LEMMA JamTurn ==
  ASSUME WireInv, Jammed, NEW e \in Ends, Turn(e), ~ Close
  PROVE  Jammed'
<1>1. \A d \in Ends : turn[d] # "read" /\ Room(d) = 0 /\ unsent_data[d] # <<>>
  BY DEF Jammed
<1>2. CASE BeginTurn(e)
  <2>1. UNCHANGED <<unsent_data, net>> /\ turn' = [turn EXCEPT ![e] = "resend"]
    BY <1>1, <1>2 DEF BeginTurn
  <2> QED BY <1>1, <2>1 DEF Jammed, Room, WireInv
<1>3. CASE Resend(e)
  <2> DEFINE bytes == Head(unsent_data[e])
             rest == After(bytes, 0)
  <2>1. /\ unsent_data[e] \in Seq(Rests) /\ unsent_data[e] # <<>>
        /\ bytes \in Seq(Byte) /\ Len(bytes) # 0
    BY <1>3, HeadType DEF Resend
  <2>2. Fits(e, bytes) = 0
    BY <1>1, <2>1, FullFits
  <2>3. /\ Transmit(e, bytes)
        /\ unsent_data' = [unsent_data EXCEPT ![e] = [@ EXCEPT ![1] = rest]]
        /\ turn' = [turn EXCEPT ![e] = "idle"]
    BY <1>3, <2>1, <2>2 DEF Resend, AfterBlocked
  <2>4. net' = net
    BY <2>1, <2>2, <2>3, TransmitType DEF WireInv
  <2> HIDE DEF bytes
  <2>5. \A d \in Ends : unsent_data'[d] # <<>>
    <3>1. [unsent_data[e] EXCEPT ![1] = rest] # <<>>
      <4> HIDE DEF rest
      <4>1. 1 \in DOMAIN unsent_data[e]
        BY <2>1
      <4>2. 1 \in DOMAIN [unsent_data[e] EXCEPT ![1] = rest]
        BY <4>1
      <4> QED BY <4>2
    <3> QED BY <1>1, <2>3, <3>1 DEF WireInv
  <2>6. \A d \in Ends : turn'[d] # "read"
    BY <1>1, <2>3 DEF WireInv
  <2> QED BY <1>1, <2>4, <2>5, <2>6 DEF Jammed, Room
<1>4. CASE Read(e)
  BY <1>1, <1>4 DEF Read, ReadMsg, ReadNothing, RefuseMsg, ReadGarbage, Reading
<1> QED BY <1>2, <1>3, <1>4 DEF Turn

\* And each message that is sent: it joins the queue.
LEMMA JamSend ==
  ASSUME WireInv, Jammed, NEW e \in Ends, Send(e), ~ Close
  PROVE  Jammed'
<1>1. \A d \in Ends : turn[d] # "read" /\ Room(d) = 0 /\ unsent_data[d] # <<>>
  BY DEF Jammed
<1>2. PICK len \in Lengths : SendBehind(e, len)
  BY <1>1 DEF Send, SendDirect, SendBlocked
<1>3. Queue(e, Message(sent[e] + 1, len)) /\ UNCHANGED <<turn, net>>
  BY <1>2 DEF SendBehind
<1>4. Message(sent[e] + 1, len) \in Rests
  BY MessageType DEF WireInv
<1>5. \A d \in Ends : unsent_data'[d] # <<>>
  BY <1>1, <1>3, <1>4, QueueType DEF WireInv
<1> QED BY <1>1, <1>3, <1>5 DEF Jammed, Room

\* Two clients that have filled both directions of their connection, each with data
\* left to send, never read from it again: the connection stays jammed until it is
\* closed, whatever the lengths, the limits and the room.
THEOREM JamNeverEnds == Spec => JamIsForever
<1>1. WireInv /\ [Next]_vars => [Jammed => Jammed' \/ ~ open']_vars
  <2> SUFFICES ASSUME WireInv, Next, Jammed, open' PROVE Jammed'
    OBVIOUS
  <2>1. ~ Close
    BY DEF Close
  <2>2. PICK e \in Ends : Send(e) \/ Turn(e)
    BY <2>1 DEF Next, Break
  <2> QED BY <2>1, <2>2, JamSend, JamTurn
<1>2. Spec => []WireInv
  BY WireInvariant
<1> QED BY <1>1, <1>2, PTL DEF Spec, JamIsForever

-----------------------------------------------------------------------------
(***************************************************************************)
(* What is under way, in order                                             *)
(***************************************************************************)

\* Byte y comes right after byte x.
Follows(x, y) ==
  \/ x.at < x.len /\ y.msg = x.msg /\ y.at = x.at + 1 /\ y.len = x.len
  \/ x.at = x.len /\ y.msg = x.msg + 1 /\ y.at = 1

\* The bytes of messages h + 1, h + 2 and so on, none missing.
Run(s, h) ==
  /\ \A i \in 1 .. Len(s) : s[i].at >= 1 /\ s[i].at <= s[i].len /\ s[i].len >= PREFIX
  /\ Len(s) >= 1 => s[1].msg = h + 1 /\ s[1].at = 1
  /\ \A i \in 1 .. Len(s) - 1 : Follows(s[i], s[i + 1])

\* Behind such bytes comes the byte at place a of message m, whose length is len, and
\* no byte of a later message is among them.
Continues(s, h, m, a, len) ==
  /\ IF Len(s) = 0 THEN m = h + 1 /\ a = 1
     ELSE Follows(s[Len(s)], [msg |-> m, at |-> a, len |-> len])
  /\ \A i \in 1 .. Len(s) : s[i].msg <= m

\* Some bytes of message m in order, from the one at place a on.
Part(p, m, a, len) ==
  \A i \in 1 .. Len(p) : p[i].msg = m /\ p[i].at = a + i - 1 /\ p[i].len = len

\* All of them.
Rest(p, m, a, len) ==
  len \in Lengths /\ a <= len /\ Len(p) = len - a + 1 /\ Part(p, m, a, len)

\* The messages that wait are m and those after it, the first without the bytes
\* before place a, which went into the net.
Waits(queue, m, a, len) ==
  /\ Len(queue) = 0 => a = 1
  /\ Len(queue) >= 1 => Rest(queue[1], m, a, len)
  /\ \A k \in 2 .. Len(queue) : \E l \in Lengths : Rest(queue[k], m + k - 1, 1, l)

\* Between two ends: h messages are handled, then come the bytes in the net, then the
\* messages that wait, and last is the number of the last of them.
InStep(s, queue, last, h) ==
  /\ Run(s, h)
  /\ h <= last - Len(queue)
  /\ \E a \in Nat \ {0}, len \in Nat :
       /\ Continues(s, h, last - Len(queue) + 1, a, len)
       /\ Waits(queue, last - Len(queue) + 1, a, len)

\* One direction of the connection, as long as no stray byte is in it: the bytes are
\* in step, and the messages handled are the first that were sent.
Flows(e) ==
  /\ InStep(net[e], unsent_data[e], sent[e], Len(handled[Other(e)]))
  /\ \A m \in 1 .. Len(handled[Other(e)]) : handled[Other(e)][m] = m

OrderInv ==
  /\ strayed \in [Ends -> BOOLEAN] /\ handled \in [Ends -> Seq(Nat)]
  /\ \A e \in Ends : strayed[e] \/ Flows(e)

\* A set of numbers that is not empty has a least one.
LEMMA LeastNumber ==
  ASSUME NEW T \in SUBSET Nat, T # {}
  PROVE  \E n \in T : \A k \in T : n <= k
<1>1. PICK n \in T : \A y \in T : ~ (<<y, n>> \in OpToRel(<, Nat))
  BY WFMin, NatLessThanWellFounded
<1>2. \A y \in T : ~ (y < n)
  BY <1>1 DEF OpToRel
<1>3. n \in Nat /\ \A k \in T : k \in Nat
  OBVIOUS
<1>4. \A k \in T : n <= k
  BY <1>2, <1>3
<1> QED BY <1>4

\* A whole message.
LEMMA MessageRest ==
  ASSUME NEW m \in Nat, NEW len \in Lengths
  PROVE  Rest(Message(m, len), m, 1, len)
<1>1. len \in Nat /\ 1 <= len
  OBVIOUS
<1>2. Len(Message(m, len)) = len
  BY <1>1 DEF Message
<1>3. \A i \in 1 .. len : /\ Message(m, len)[i].msg = m /\ Message(m, len)[i].at = i
                          /\ Message(m, len)[i].len = len
  BY DEF Message
<1>4. \A i \in 1 .. len : 1 + i - 1 = i
  OBVIOUS
<1> QED BY <1>1, <1>2, <1>3, <1>4 DEF Rest, Part

\* The elements of a sequence behind the first n.
LEMMA AfterElements ==
  ASSUME NEW s \in Seq(Byte), NEW n \in Nat, n <= Len(s)
  PROVE  \A i \in 1 .. Len(s) - n : After(s, n)[i] = s[n + i]
<1>1. PICK k \in Nat : k = Len(s)
  OBVIOUS
<1>2. \A i \in n + 1 .. k : s[i] \in Byte
  BY <1>1
<1>3. \A i \in 1 .. k - (n + 1) + 1 : After(s, n)[i] = s[n + 1 + i - 1]
  BY <1>1, <1>2, SubSeqProperties DEF After
<1>4. \A i \in 1 .. k - n : i \in 1 .. k - (n + 1) + 1 /\ n + 1 + i - 1 = n + i
  BY <1>1
<1> QED BY <1>1, <1>3, <1>4

\* And the first n.
LEMMA FirstElements ==
  ASSUME NEW s \in Seq(Byte), NEW n \in Nat, n <= Len(s)
  PROVE  /\ SubSeq(s, 1, n) \in Seq(Byte) /\ Len(SubSeq(s, 1, n)) = n
         /\ \A i \in 1 .. n : SubSeq(s, 1, n)[i] = s[i]
BY DEF After

\* What is left of a message when more of its bytes are gone.
LEMMA RestShrinks ==
  ASSUME NEW p \in Seq(Byte), NEW m \in Nat, NEW len \in Nat, NEW a \in Nat \ {0},
         Rest(p, m, a, len), NEW n \in Nat, n < Len(p)
  PROVE  Rest(After(p, n), m, a + n, len) /\ a + n \in Nat \ {0}
<1>1. len \in Lengths /\ a <= len /\ Len(p) = len - a + 1
  BY DEF Rest
<1>2. a + n <= len /\ a + n \in Nat \ {0} /\ Len(p) - n = len - (a + n) + 1 /\ n \in 0 .. Len(p)
  BY <1>1
<1>3. PICK q \in Seq(Byte) : q = After(p, n)
  BY <1>2, AfterType
<1>4. Len(q) = len - (a + n) + 1
  BY <1>2, <1>3, AfterType
<1>5. \A i \in 1 .. Len(q) : q[i] = p[n + i]
  BY <1>2, <1>3, <1>4, AfterElements
<1>6. ASSUME NEW i \in 1 .. Len(q)
      PROVE  q[i].msg = m /\ q[i].at = (a + n) + i - 1 /\ q[i].len = len
  <2>1. n + i \in 1 .. Len(p) /\ a + (n + i) - 1 = (a + n) + i - 1
    BY <1>1, <1>2, <1>4
  <2>2. PICK k \in 1 .. Len(p) : k = n + i
    BY <2>1
  <2>3. p[k].msg = m /\ p[k].at = a + k - 1 /\ p[k].len = len
    BY DEF Rest, Part
  <2> QED BY <1>5, <2>1, <2>2, <2>3
<1> QED BY <1>1, <1>2, <1>3, <1>4, <1>6 DEF Rest, Part

\* The elements of two sequences joined.
Joined(s, p, t) ==
  /\ Len(t) = Len(s) + Len(p)
  /\ \A i \in 1 .. Len(s) : t[i] = s[i]
  /\ \A i \in 1 .. Len(p) : t[Len(s) + i] = p[i]
  /\ \A i \in 1 .. Len(t) : i \in 1 .. Len(s) \/ \E j \in 1 .. Len(p) : i = Len(s) + j

LEMMA JoinedElements ==
  ASSUME NEW s \in Seq(Byte), NEW p \in Seq(Byte),
         NEW t \in Seq(Byte), t = s \o p
  PROVE  Joined(s, p, t)
<1>1. PICK k \in Nat : k = Len(s)
  OBVIOUS
<1>2. PICK n \in Nat : n = Len(p)
  OBVIOUS
<1>3. /\ Len(t) = k + n
      /\ \A i \in 1 .. k + n : t[i] = IF i <= k THEN s[i] ELSE p[i - k]
  BY <1>1, <1>2, ConcatProperties
<1>4. \A i \in 1 .. k : t[i] = s[i]
  BY <1>3
<1>5. ASSUME NEW i \in 1 .. n PROVE t[k + i] = p[i]
  <2>1. k + i \in 1 .. k + n /\ ~ (k + i <= k) /\ (k + i) - k = i
    OBVIOUS
  <2> QED BY <1>3, <2>1
<1>6. ASSUME NEW i \in 1 .. k + n PROVE i \in 1 .. k \/ \E j \in 1 .. n : i = k + j
  <2>1. i \in 1 .. k \/ (i - k \in 1 .. n /\ i = k + (i - k))
    OBVIOUS
  <2> QED BY <2>1
<1> QED BY <1>1, <1>2, <1>3, <1>4, <1>5, <1>6 DEF Joined

\* Bytes of message m, from place a on, join a run that they continue.
LEMMA RunGrows ==
  ASSUME NEW s \in Seq(Byte), NEW h \in Nat, Run(s, h),
         NEW m \in Nat, NEW len \in Nat, len >= PREFIX,
         NEW a \in Nat \ {0}, a <= len, Continues(s, h, m, a, len),
         NEW p \in Seq(Byte), Len(p) <= len - a + 1, Part(p, m, a, len)
  PROVE  /\ Run(s \o p, h)
         /\ Len(p) <= len - a => Continues(s \o p, h, m, a + Len(p), len)
         /\ Len(p) = len - a + 1 => \A l \in Nat : Continues(s \o p, h, m + 1, 1, l)
<1>1. PICK t \in Seq(Byte) : t = s \o p
  BY ConcatProperties
<1>2. PICK k \in Nat : k = Len(s)
  OBVIOUS
<1>3. PICK n \in Nat : n = Len(p)
  OBVIOUS
<1>4. /\ Len(t) = k + n
      /\ \A i \in 1 .. k : t[i] = s[i]
      /\ \A i \in 1 .. n : t[k + i] = p[i]
      /\ \A i \in 1 .. k + n : i \in 1 .. k \/ \E j \in 1 .. n : i = k + j
  <2>1. Joined(s, p, t)
    BY <1>1, JoinedElements
  <2> QED BY ONLY <1>2, <1>3, <2>1 DEF Joined
<1>5. \A i \in 1 .. n : p[i].msg = m /\ p[i].at = a + i - 1 /\ p[i].len = len
  BY <1>3 DEF Part
<1>6. \A i \in 1 .. n : t[k + i].msg = m /\ t[k + i].at = a + i - 1 /\ t[k + i].len = len
  BY <1>4, <1>5
<1>7. n <= len - a + 1
  BY <1>3
<1>8. ASSUME NEW i \in 1 .. k + n
      PROVE  t[i].at >= 1 /\ t[i].at <= t[i].len /\ t[i].len >= PREFIX /\ t[i].msg <= m
  <2>1. CASE i \in 1 .. k
    BY <1>2, <1>4, <2>1 DEF Run, Continues
  <2>2. ASSUME NEW j \in 1 .. n, i = k + j
        PROVE  t[i].at >= 1 /\ t[i].at <= t[i].len /\ t[i].len >= PREFIX /\ t[i].msg <= m
    <3>1. a + j - 1 >= 1 /\ a + j - 1 <= len
      BY <1>7
    <3>2. t[i].msg = m /\ t[i].at = a + j - 1 /\ t[i].len = len
      BY <1>6, <2>2, Zenon
    <3> QED BY <3>1, <3>2
  <2> QED BY <1>4, <2>1, <2>2
<1>9. ASSUME k + n >= 1 PROVE t[1].msg = h + 1 /\ t[1].at = 1
  <2>1. CASE k >= 1
    <3>1. 1 \in 1 .. k
      BY <2>1
    <3> QED BY <1>2, <1>4, <2>1, <3>1 DEF Run
  <2>2. CASE k = 0
    <3>1. m = h + 1 /\ a = 1
      BY <1>2, <2>2 DEF Continues
    <3>2. 1 \in 1 .. n /\ k + 1 = 1 /\ a + 1 - 1 = a
      BY <1>9, <2>2
    <3> QED BY <1>6, <3>1, <3>2
  <2> QED BY <2>1, <2>2
<1>10. ASSUME NEW i \in 1 .. k + n - 1 PROVE Follows(t[i], t[i + 1])
  <2>1. CASE i < k
    <3>1. i \in 1 .. k - 1 /\ i \in 1 .. k /\ i + 1 \in 1 .. k
      BY <2>1
    <3>2. Follows(s[i], s[i + 1])
      BY <1>2, <3>1 DEF Run
    <3> QED BY <1>4, <3>1, <3>2
  <2>2. CASE i = k
    <3>1. k \in 1 .. k /\ 1 \in 1 .. n /\ k # 0 /\ a + 1 - 1 = a
      BY <2>2
    <3>2. Follows(s[k], [msg |-> m, at |-> a, len |-> len])
      BY <1>2, <3>1 DEF Continues
    <3>3. t[k] = s[k] /\ t[k + 1].msg = m /\ t[k + 1].at = a /\ t[k + 1].len = len
      BY <1>4, <1>6, <3>1
    <3> QED BY <2>2, <3>2, <3>3 DEF Follows
  <2>3. CASE i > k
    <3>1. PICK j \in 1 .. n : i = k + j
      <4>1. i \in 1 .. k + n /\ i \notin 1 .. k
        BY <2>3
      <4> QED BY <1>4, <4>1
    <3>2. j + 1 \in 1 .. n /\ i + 1 = k + (j + 1)
      BY <3>1
    <3>3. t[i].msg = m /\ t[i].at = a + j - 1 /\ t[i].len = len
      BY <1>6, <3>1
    <3>4. t[i + 1].msg = m /\ t[i + 1].at = a + (j + 1) - 1 /\ t[i + 1].len = len
      BY <1>6, <3>2
    <3>5. a + j - 1 < len /\ a + (j + 1) - 1 = (a + j - 1) + 1
      BY <1>7, <3>2
    <3> QED BY <3>3, <3>4, <3>5 DEF Follows
  <2> QED BY <2>1, <2>2, <2>3
<1>11. Run(t, h)
  BY <1>4, <1>8, <1>9, <1>10 DEF Run
<1>12. ASSUME n >= 1
       PROVE  t[Len(t)].msg = m /\ t[Len(t)].at = a + n - 1 /\ t[Len(t)].len = len
  <2>1. n \in 1 .. n
    BY <1>12
  <2> QED BY <1>4, <1>6, <2>1
<1>13. ASSUME n <= len - a PROVE Continues(t, h, m, a + n, len)
  <2>1. CASE n = 0
    <3>1. Len(t) = k /\ a + n = a
      BY <1>4, <2>1
    <3>2. k # 0 => t[k] = s[k]
      BY <1>4
    <3> QED BY <1>2, <1>8, <2>1, <3>1, <3>2 DEF Continues
  <2>2. CASE n # 0
    <3>1. Len(t) # 0
      BY <1>4, <2>2
    <3>2. a + n - 1 < len /\ a + n = (a + n - 1) + 1
      BY <1>13
    <3>3. Follows(t[Len(t)], [msg |-> m, at |-> a + n, len |-> len])
      BY <1>12, <2>2, <3>2 DEF Follows
    <3> QED BY <1>4, <1>8, <3>1, <3>3 DEF Continues
  <2> QED BY <2>1, <2>2
<1>14. ASSUME n = len - a + 1, NEW l \in Nat PROVE Continues(t, h, m + 1, 1, l)
  <2>1. Len(t) # 0 /\ n >= 1 /\ a + n - 1 = len
    BY <1>4, <1>14
  <2>2. Follows(t[Len(t)], [msg |-> m + 1, at |-> 1, len |-> l])
    BY <1>12, <2>1 DEF Follows
  <2>3. \A i \in 1 .. Len(t) : t[i].msg <= m + 1
    <3> TAKE i \in 1 .. Len(t)
    <3>1. t[i] \in Byte /\ t[i].msg <= m
      BY <1>4, <1>8
    <3>2. t[i].msg \in Nat
      BY <3>1 DEF Byte
    <3> QED BY <3>1, <3>2
  <2> QED BY <2>1, <2>2, <2>3 DEF Continues
<1> QED BY <1>1, <1>3, <1>11, <1>13, <1>14

\* The first message of a run is there to its last byte, if that many are.
LEMMA FirstOfRun ==
  ASSUME NEW s \in Seq(Byte), NEW h \in Nat, Run(s, h), Len(s) >= 1, s[1].len <= Len(s)
  PROVE  \A i \in 1 .. s[1].len : s[i].msg = h + 1 /\ s[i].at = i /\ s[i].len = s[1].len
<1>1. PICK len \in Nat : len = s[1].len
  <2>1. s[1] \in Byte
    OBVIOUS
  <2> QED BY <2>1 DEF Byte
<1>2. PICK k \in Nat : k = Len(s)
  OBVIOUS
<1> DEFINE Lies(i) == s[i].msg = h + 1 /\ s[i].at = i /\ s[i].len = len
           T == {i \in 1 .. len : ~ Lies(i)}
<1> SUFFICES ASSUME T # {} PROVE FALSE
  BY <1>1
<1>3. PICK i \in T : \A j \in T : i <= j
  <2>1. T \in SUBSET Nat
    OBVIOUS
  <2> HIDE DEF T
  <2> QED BY <2>1, LeastNumber
<1>4. i \in 1 .. len /\ ~ Lies(i)
  OBVIOUS
<1>5. len <= k
  BY <1>1, <1>2
<1>6. CASE i = 1
  <2>1. 1 \in 1 .. k
    BY <1>2
  <2> QED BY <1>1, <1>2, <1>4, <1>6, <2>1 DEF Run
<1>7. CASE i # 1
  <2>1. i - 1 \in 1 .. len /\ i - 1 \in 1 .. k - 1 /\ ~ (i <= i - 1) /\ i = (i - 1) + 1
    BY <1>4, <1>5, <1>7
  <2>2. PICK j \in Nat : j = i - 1
    BY <2>1
  <2>3. j \in 1 .. len /\ j \notin T
    <3> HIDE DEF T
    <3>1. j \in 1 .. len /\ ~ (i <= j)
      BY <2>1, <2>2
    <3> QED BY <1>3, <3>1, Zenon
  <2>4. Lies(j)
    BY <2>3
  <2>5. Follows(s[j], s[i])
    BY <1>2, <2>1, <2>2 DEF Run
  <2>6. j < len /\ i = j + 1
    BY <1>4, <2>1, <2>2
  <2>7. Lies(i)
    BY <2>4, <2>5, <2>6 DEF Follows
  <2> QED BY <1>4, <2>7
<1> QED BY <1>6, <1>7

\* When the first message is taken, a run from the next one on is left, and what
\* continued the one continues the other.
LEMMA RunTaken ==
  ASSUME NEW s \in Seq(Byte), NEW h \in Nat, Run(s, h), Len(s) >= 1, s[1].len <= Len(s),
         NEW m \in Nat, NEW a \in Nat \ {0}, NEW l \in Nat, Continues(s, h, m, a, l)
  PROVE  /\ Run(After(s, s[1].len), h + 1)
         /\ Continues(After(s, s[1].len), h + 1, m, a, l)
         /\ h + 1 < m
<1>1. PICK len \in Nat : len = s[1].len
  <2>1. s[1] \in Byte
    OBVIOUS
  <2> QED BY <2>1 DEF Byte
<1>2. PICK k \in Nat : k = Len(s)
  OBVIOUS
<1>3. len <= k /\ k >= 1
  BY <1>1, <1>2
<1>4. len >= 1
  <2>1. 1 \in 1 .. k
    BY <1>3
  <2> QED BY <1>1, <1>2, <2>1 DEF Run
<1>5. \A i \in 1 .. len : s[i].msg = h + 1 /\ s[i].at = i /\ s[i].len = len
  BY <1>1, FirstOfRun
<1>6. len \in 1 .. len /\ len \in 1 .. k
  BY <1>3, <1>4
<1>7. s[len].msg = h + 1 /\ s[len].at = len /\ s[len].len = len
  BY <1>5, <1>6
<1>8. PICK t \in Seq(Byte) : t = After(s, len)
  BY <1>2, <1>3, AfterType
<1>9. Len(t) = k - len
  BY <1>2, <1>3, <1>8, AfterType
<1>10. \A i \in 1 .. k - len : t[i] = s[len + i]
  BY <1>2, <1>3, <1>8, AfterElements
<1>11. ASSUME NEW i \in 1 .. k - len
       PROVE  t[i].at >= 1 /\ t[i].at <= t[i].len /\ t[i].len >= PREFIX /\ t[i].msg <= m
  <2>1. len + i \in 1 .. k
    BY <1>3
  <2>2. PICK j \in 1 .. k : j = len + i
    BY <2>1
  <2> QED BY <1>2, <1>10, <2>2 DEF Run, Continues
<1>12. ASSUME k - len >= 1 PROVE t[1].msg = h + 2 /\ t[1].at = 1
  <2>1. len \in 1 .. k - 1 /\ 1 \in 1 .. k - len
    BY <1>4, <1>12
  <2>2. Follows(s[len], s[len + 1])
    BY <1>2, <2>1 DEF Run
  <2>3. t[1] = s[len + 1]
    BY <1>10, <2>1
  <2> QED BY <1>7, <2>2, <2>3 DEF Follows
<1>13. ASSUME NEW i \in 1 .. k - len - 1 PROVE Follows(t[i], t[i + 1])
  <2>1. /\ len + i \in 1 .. k - 1 /\ i \in 1 .. k - len /\ i + 1 \in 1 .. k - len
        /\ len + (i + 1) = (len + i) + 1
    BY ONLY <1>3, len \in Nat, k \in Nat, i \in 1 .. k - len - 1
  <2>2. Follows(s[len + i], s[(len + i) + 1])
    BY <1>2, <2>1 DEF Run
  <2> QED BY <1>10, <2>1, <2>2
<1>14. Run(t, h + 1)
  <2>1. h + 1 + 1 = h + 2
    OBVIOUS
  <2> QED BY <1>9, <1>11, <1>12, <1>13, <2>1 DEF Run
<1>15. k # 0 => Follows(s[k], [msg |-> m, at |-> a, len |-> l])
  BY <1>2 DEF Continues
<1>16. CASE len = k
  <2>1. m = h + 2 /\ a = 1
    BY <1>3, <1>7, <1>15, <1>16 DEF Follows
  <2>2. Continues(t, h + 1, m, a, l)
    <3>1. Len(t) = 0
      BY <1>9, <1>16
    <3> QED BY <2>1, <3>1 DEF Continues
  <2> QED BY <1>1, <1>8, <1>14, <2>1, <2>2
<1>17. CASE len # k
  <2>1. k - len \in 1 .. k - len /\ 1 \in 1 .. k - len /\ len + (k - len) = k
    BY <1>3, <1>17
  <2>2. t[k - len] = s[k]
    BY <1>10, <2>1
  <2>3. Continues(t, h + 1, m, a, l)
    <3>1. Follows(t[k - len], [msg |-> m, at |-> a, len |-> l])
      BY <1>3, <1>15, <2>2
    <3>2. Len(t) # 0
      BY <1>9, <2>1
    <3> QED BY <1>9, <1>11, <3>1, <3>2 DEF Continues
  <2>4. h + 2 <= m
    <3>1. t[1].msg = h + 2
      <4>1. k - len >= 1
        BY <1>3, <1>17
      <4> QED BY <1>12, <4>1
    <3>2. t[1].msg <= m
      BY <1>11, <2>1
    <3> QED BY <3>1, <3>2
  <2> QED BY <1>1, <1>8, <1>14, <2>3, <2>4
<1> QED BY <1>16, <1>17

\* One message more waits.
LEMMA WaitsMore ==
  ASSUME NEW queue \in Seq(Rests), NEW m \in Nat, NEW a \in Nat \ {0}, NEW len \in Nat,
         Waits(queue, m, a, len), NEW l \in Lengths, NEW b \in Nat, b = m + Len(queue)
  PROVE  /\ Len(queue) >= 1 => Waits(Append(queue, Message(b, l)), m, a, len)
         /\ Len(queue) = 0 => a = 1 /\ Waits(Append(queue, Message(b, l)), m, 1, l)
<1>1. PICK bytes \in Rests : bytes = Message(b, l)
  BY MessageType
<1>2. Rest(bytes, b, 1, l)
  BY <1>1, MessageRest
<1>3. PICK n \in Nat : n = Len(queue)
  OBVIOUS
<1>4. PICK more \in Seq(Rests) : more = Append(queue, bytes)
  BY AppendProperties
<1>5. Len(more) = n + 1 /\ more[n + 1] = bytes /\ \A k \in 1 .. n : more[k] = queue[k]
  BY <1>3, <1>4, AppendProperties
<1>6. ASSUME NEW k \in 2 .. n PROVE \E j \in Lengths : Rest(more[k], m + k - 1, 1, j)
  <2>1. k \in 1 .. n
    OBVIOUS
  <2>2. \E j \in Lengths : Rest(queue[k], m + k - 1, 1, j)
    BY <1>3 DEF Waits
  <2> QED BY <1>5, <2>1, <2>2
<1>7. CASE n >= 1
  <2>1. Rest(more[1], m, a, len)
    BY <1>3, <1>5, <1>7 DEF Waits
  <2>2. ASSUME NEW k \in 2 .. n + 1 PROVE \E j \in Lengths : Rest(more[k], m + k - 1, 1, j)
    <3>1. CASE k = n + 1
      <4>1. m + k - 1 = b
        BY <1>3, <3>1
      <4> QED BY <1>2, <1>5, <3>1, <4>1
    <3>2. CASE k # n + 1
      <4>1. k \in 2 .. n
        BY <3>2
      <4> QED BY <1>6, <4>1
    <3> QED BY <3>1, <3>2
  <2>3. Waits(more, m, a, len)
    BY <1>5, <2>1, <2>2, n + 1 # 0 DEF Waits
  <2> QED BY <1>1, <1>3, <1>4, <1>7, <2>3
<1>8. CASE n = 0
  <2>1. b = m /\ Len(more) = 1 /\ more[1] = bytes
    BY <1>3, <1>5, <1>8
  <2>2. Rest(more[1], m, 1, l)
    BY <1>2, <2>1
  <2>3. Waits(more, m, 1, l)
    BY <2>1, <2>2 DEF Waits
  <2>4. a = 1
    BY <1>3, <1>8 DEF Waits
  <2> QED BY <1>1, <1>3, <1>4, <1>8, <2>3, <2>4
<1> QED BY <1>3, <1>7, <1>8

\* The first of them is gone.
LEMMA WaitsLess ==
  ASSUME NEW queue \in Seq(Rests), queue # <<>>, NEW m \in Nat, NEW a \in Nat \ {0},
         NEW len \in Nat, Waits(queue, m, a, len)
  PROVE  \E l \in Nat : Waits(Tail(queue), m + 1, 1, l)
<1>1. PICK n \in Nat : n = Len(queue)
  OBVIOUS
<1>2. PICK rest \in Seq(Rests) : rest = Tail(queue)
  BY HeadTailProperties
<1>3. Len(rest) = n - 1 /\ \A i \in 1 .. n - 1 : rest[i] = queue[i + 1]
  BY <1>1, <1>2, HeadTailProperties
<1>4. n >= 1
  BY <1>1
<1>5. ASSUME NEW i \in 1 .. n - 1
      PROVE  \E l \in Lengths : Rest(rest[i], m + i, 1, l)
  <2>1. i + 1 \in 2 .. n /\ m + (i + 1) - 1 = m + i
    OBVIOUS
  <2>2. \E l \in Lengths : Rest(queue[i + 1], m + (i + 1) - 1, 1, l)
    BY <1>1, <2>1 DEF Waits
  <2> QED BY <1>3, <2>1, <2>2
<1>6. \A k \in 2 .. n - 1 : \E l \in Lengths : Rest(rest[k], m + 1 + k - 1, 1, l)
  <2>1. \A k \in 2 .. n - 1 : k \in 1 .. n - 1 /\ m + 1 + k - 1 = m + k
    OBVIOUS
  <2> QED BY <1>5, <2>1
<1>7. CASE n = 1
  <2>1. Waits(rest, m + 1, 1, 0)
    BY <1>3, <1>6, <1>7 DEF Waits
  <2> QED BY <1>2, <2>1
<1>8. CASE n # 1
  <2>1. 1 \in 1 .. n - 1 /\ n - 1 # 0
    BY <1>4, <1>8
  <2>2. PICK l \in Lengths : Rest(rest[1], m + 1, 1, l)
    BY <1>5, <2>1
  <2>3. Waits(rest, m + 1, 1, l)
    BY <1>3, <1>6, <2>1, <2>2 DEF Waits
  <2> QED BY <1>2, <2>3
<1> QED BY <1>7, <1>8

\* The first of them is cut.
LEMMA WaitsCut ==
  ASSUME NEW queue \in Seq(Rests), queue # <<>>, NEW m \in Nat, NEW a \in Nat \ {0},
         NEW len \in Nat, Waits(queue, m, a, len), NEW n \in Nat, n < Len(queue[1])
  PROVE  Waits([queue EXCEPT ![1] = After(queue[1], n)], m, a + n, len)
<1>1. PICK k \in Nat : k = Len(queue)
  OBVIOUS
<1>2. k >= 1 /\ 1 \in 1 .. Len(queue)
  BY <1>1
<1>3. PICK bytes \in Rests : bytes = queue[1]
  BY <1>2
<1>4. bytes \in Seq(Byte) /\ Len(bytes) \in Nat
  BY DEF Rests
<1>5. Rest(bytes, m, a, len)
  BY <1>1, <1>2, <1>3 DEF Waits
<1>6. PICK rest \in Rests : rest = After(bytes, n)
  <2>1. n \in 0 .. Len(bytes)
    BY <1>3, <1>4
  <2> QED BY <1>3, <1>4, <2>1, AfterType
<1>7. Rest(rest, m, a + n, len)
  BY <1>3, <1>4, <1>5, <1>6, RestShrinks
<1>8. PICK left \in Seq(Rests) : left = [queue EXCEPT ![1] = rest]
  BY <1>2, ExceptSeq
<1>9. Len(left) = k /\ left[1] = rest /\ \A i \in 2 .. k : left[i] = queue[i]
  BY <1>1, <1>2, <1>8, ExceptSeq
<1>10. \A i \in 2 .. k : \E l \in Lengths : Rest(left[i], m + i - 1, 1, l)
  BY <1>1, <1>9 DEF Waits
<1>11. Waits(left, m, a + n, len)
  BY <1>2, <1>7, <1>9, <1>10 DEF Waits
<1> QED BY <1>3, <1>6, <1>8, <1>11

\* The message that comes next when nothing waits, whatever its length.
LEMMA AnyLength ==
  ASSUME NEW s \in Seq(Byte), NEW h \in Nat, Run(s, h), NEW m \in Nat,
         NEW len \in Nat, Continues(s, h, m, 1, len), NEW l \in Nat
  PROVE  Continues(s, h, m, 1, l)
<1>1. PICK k \in Nat : k = Len(s)
  OBVIOUS
<1>2. CASE k = 0
  BY <1>1, <1>2 DEF Continues
<1>3. CASE k # 0
  <2>1. k \in 1 .. k
    BY <1>3
  <2>2. s[k] \in Byte /\ s[k].at >= 1
    BY <1>1, <2>1 DEF Run
  <2>3. s[k].at \in Nat /\ s[k].at + 1 # 1
    BY <2>2 DEF Byte
  <2>4. Follows(s[k], [msg |-> m, at |-> 1, len |-> len])
    BY <1>1, <1>3 DEF Continues
  <2>5. Follows(s[k], [msg |-> m, at |-> 1, len |-> l])
    BY <2>3, <2>4 DEF Follows
  <2> QED BY <1>1, <1>3, <2>5 DEF Continues
<1> QED BY <1>2, <1>3

\* One message more waits.
LEMMA InStepQueued ==
  ASSUME NEW s \in Seq(Byte), NEW queue \in Seq(Rests), NEW last \in Nat, NEW h \in Nat,
         InStep(s, queue, last, h), NEW l \in Lengths
  PROVE  InStep(s, Append(queue, Message(last + 1, l)), last + 1, h)
<1>1. PICK n \in Nat : n = Len(queue)
  OBVIOUS
<1>2. Run(s, h) /\ h <= last - n
  BY <1>1 DEF InStep
<1>3. PICK m \in Nat : m = last - n + 1
  BY <1>2
<1>4. PICK a \in Nat \ {0}, len \in Nat : Continues(s, h, m, a, len) /\ Waits(queue, m, a, len)
  BY <1>1, <1>3 DEF InStep
<1>5. PICK bytes \in Rests : bytes = Message(last + 1, l)
  BY MessageType
<1>6. PICK more \in Seq(Rests) : more = Append(queue, bytes)
  BY AppendProperties
<1>7. Len(more) = n + 1
  BY <1>1, <1>6, AppendProperties
<1>8. (last + 1) - (n + 1) + 1 = m /\ h <= (last + 1) - (n + 1)
  BY <1>2, <1>3
<1>9. last + 1 = m + Len(queue) /\ last + 1 \in Nat
  BY <1>1, <1>3
<1>10. /\ Len(queue) >= 1 => Waits(Append(queue, Message(last + 1, l)), m, a, len)
       /\ Len(queue) = 0 => a = 1 /\ Waits(Append(queue, Message(last + 1, l)), m, 1, l)
  BY <1>4, <1>9, WaitsMore
<1>11. \E b \in Nat \ {0}, j \in Nat : Continues(s, h, m, b, j) /\ Waits(more, m, b, j)
  <2>1. CASE n >= 1
    BY <1>1, <1>4, <1>5, <1>6, <1>10, <2>1
  <2>2. CASE n = 0
    <3>1. a = 1 /\ Waits(more, m, 1, l)
      BY <1>1, <1>5, <1>6, <1>10, <2>2
    <3>2. l \in Nat
      OBVIOUS
    <3>3. Continues(s, h, m, 1, l)
      BY <1>2, <1>4, <3>1, <3>2, AnyLength
    <3> QED BY <3>1, <3>2, <3>3
  <2> QED BY <2>1, <2>2
<1>12. InStep(s, more, last + 1, h)
  <2>1. (last + 1) - Len(more) + 1 = m /\ h <= (last + 1) - Len(more)
    BY <1>7, <1>8
  <2>2. \E b \in Nat \ {0}, j \in Nat : /\ Continues(s, h, (last + 1) - Len(more) + 1, b, j)
                                        /\ Waits(more, (last + 1) - Len(more) + 1, b, j)
    BY ONLY <1>11, <2>1, Zenon
  <2>3. Run(s, h)
    BY <1>2
  <2> QED BY ONLY <2>1, <2>2, <2>3, Zenon DEF InStep
<1> QED BY <1>5, <1>6, <1>12

\* The first n bytes that wait go into the net.
LEMMA InStepSent ==
  ASSUME NEW s \in Seq(Byte), NEW queue \in Seq(Rests), NEW last \in Nat, NEW h \in Nat,
         InStep(s, queue, last, h), queue # <<>>, NEW n \in Nat, n <= Len(queue[1])
  PROVE  /\ n = Len(queue[1]) => InStep(s \o SubSeq(queue[1], 1, n), Tail(queue), last, h)
         /\ n < Len(queue[1]) =>
              InStep(s \o SubSeq(queue[1], 1, n), [queue EXCEPT ![1] = After(queue[1], n)], last, h)
<1>1. PICK k \in Nat : k = Len(queue)
  OBVIOUS
<1>2. Run(s, h) /\ h <= last - k /\ k >= 1 /\ 1 \in 1 .. Len(queue)
  BY <1>1 DEF InStep
<1>3. PICK m \in Nat : m = last - k + 1
  BY <1>2
<1>4. PICK a \in Nat \ {0}, len \in Nat : Continues(s, h, m, a, len) /\ Waits(queue, m, a, len)
  BY <1>1, <1>3 DEF InStep
<1>5. PICK bytes \in Seq(Byte) : bytes = queue[1]
  <2>1. queue[1] \in Rests
    BY <1>2
  <2> QED BY <2>1 DEF Rests
<1>6. len \in Lengths /\ a <= len /\ Len(bytes) = len - a + 1 /\ Part(bytes, m, a, len)
  BY <1>1, <1>2, <1>4, <1>5 DEF Waits, Rest
<1>7. PICK p \in Seq(Byte) : p = SubSeq(bytes, 1, n)
  BY <1>5, FirstElements
<1>8. Len(p) = n /\ \A i \in 1 .. n : p[i] = bytes[i]
  BY <1>5, <1>7, FirstElements
<1>9. n <= len - a + 1 /\ len >= PREFIX
  BY <1>5, <1>6
<1>10. Part(p, m, a, len)
  <2>1. \A i \in 1 .. n : i \in 1 .. Len(bytes)
    BY <1>6, <1>9
  <2> QED BY <1>6, <1>8, <2>1 DEF Part
<1>11. PICK t \in Seq(Byte) : t = s \o p
  BY ConcatProperties
<1>12. /\ Run(t, h)
       /\ n <= len - a => Continues(t, h, m, a + n, len)
       /\ n = len - a + 1 => \A j \in Nat : Continues(t, h, m + 1, 1, j)
  BY <1>2, <1>4, <1>6, <1>8, <1>9, <1>10, <1>11, RunGrows
<1>13. ASSUME n = Len(bytes) PROVE InStep(t, Tail(queue), last, h)
  <2>1. PICK rest \in Seq(Rests) : rest = Tail(queue)
    BY HeadTailProperties
  <2>2. Len(rest) = k - 1
    BY <1>1, <2>1, HeadTailProperties
  <2>3. last - (k - 1) + 1 = m + 1 /\ h <= last - (k - 1)
    BY <1>2, <1>3
  <2>4. PICK l \in Nat : Waits(rest, m + 1, 1, l)
    BY <1>4, <2>1, WaitsLess
  <2>5. Continues(t, h, m + 1, 1, l)
    BY <1>6, <1>12, <1>13
  <2>6. last - Len(rest) + 1 = m + 1 /\ h <= last - Len(rest)
    BY <2>2, <2>3
  <2>7. InStep(t, rest, last, h)
    <3>1. Continues(t, h, m + 1, 1, l) /\ Waits(rest, m + 1, 1, l) /\ 1 \in Nat \ {0}
      BY <2>4, <2>5
    <3> QED BY <1>12, <2>6, <3>1, Zenon DEF InStep
  <2> QED BY <2>1, <2>7
<1>14. ASSUME n < Len(bytes)
       PROVE  InStep(t, [queue EXCEPT ![1] = After(queue[1], n)], last, h)
  <2>1. PICK rest \in Rests : rest = After(queue[1], n)
    <3>1. n \in 0 .. Len(bytes)
      BY <1>14
    <3> QED BY <1>5, <1>14, <3>1, AfterType
  <2>2. PICK left \in Seq(Rests) : left = [queue EXCEPT ![1] = rest]
    BY <1>2, ExceptSeq
  <2>3. Len(left) = k
    BY <1>1, <1>2, <2>2, ExceptSeq
  <2>4. Waits(left, m, a + n, len)
    BY <1>4, <1>5, <1>14, <2>1, <2>2, WaitsCut
  <2>5. n <= len - a /\ a + n \in Nat \ {0}
    BY <1>6, <1>14
  <2> QED BY <1>2, <1>3, <1>12, <2>1, <2>2, <2>3, <2>4, <2>5 DEF InStep
<1> QED BY <1>5, <1>7, <1>11, <1>13, <1>14

\* What can be read first is message h + 1, and when it is taken, h + 1 are handled.
LEMMA InStepTaken ==
  ASSUME NEW s \in Seq(Byte), NEW queue \in Seq(Rests), NEW last \in Nat, NEW h \in Nat,
         InStep(s, queue, last, h), Len(s) >= 1
  PROVE  /\ s[1].at = 1 /\ s[1].msg = h + 1
         /\ s[1].len <= Len(s) => InStep(After(s, s[1].len), queue, last, h + 1)
<1>1. PICK k \in Nat : k = Len(queue)
  OBVIOUS
<1>2. Run(s, h) /\ h <= last - k
  BY <1>1 DEF InStep
<1>3. PICK m \in Nat : m = last - k + 1
  BY <1>2
<1>4. PICK a \in Nat \ {0}, len \in Nat : Continues(s, h, m, a, len) /\ Waits(queue, m, a, len)
  BY <1>1, <1>3 DEF InStep
<1>5. s[1].at = 1 /\ s[1].msg = h + 1
  BY <1>2 DEF Run
<1>6. ASSUME s[1].len <= Len(s) PROVE InStep(After(s, s[1].len), queue, last, h + 1)
  <2>1. /\ Run(After(s, s[1].len), h + 1) /\ Continues(After(s, s[1].len), h + 1, m, a, len)
        /\ h + 1 < m
    BY <1>2, <1>4, <1>6, RunTaken
  <2>2. h + 1 <= last - k
    BY <1>3, <2>1
  <2> QED BY <1>1, <1>3, <1>4, <2>1, <2>2 DEF InStep
<1> QED BY <1>5, <1>6

-----------------------------------------------------------------------------
(***************************************************************************)
(* Every step keeps the order                                              *)
(***************************************************************************)

LEMMA BothWays ==
  ASSUME NEW e \in Ends
  PROVE  Other(e) \in Ends /\ Other(e) # e /\ Other(Other(e)) = e
         /\ \A d \in Ends : d = e \/ d = Other(e)
<1>1. \A d \in Ends : Other(d) \in Ends /\ Other(d) # d
  BY OtherType
<1>2. PICK x, y \in Ends : x # y /\ Ends = {x, y}
  OBVIOUS
<1> QED BY <1>1, <1>2

\* Nothing changed on the way from an end, nor of what was handled of it.
LEMMA FlowStays ==
  ASSUME NEW d \in Ends, Flows(d),
         net'[d] = net[d], unsent_data'[d] = unsent_data[d], sent'[d] = sent[d],
         handled'[Other(d)] = handled[Other(d)]
  PROVE  Flows(d)'
BY DEF Flows

LEMMA OrderStays ==
  OrderInv /\ UNCHANGED <<unsent_data, net, sent, strayed, handled>> => OrderInv'
BY FlowStays, OtherType DEF OrderInv

LEMMA CloseOrder == OrderInv /\ Close => OrderInv'
BY OrderStays DEF Close

\* What end e does about what it sends leaves the other direction as it is.
LEMMA SenderOrder ==
  ASSUME OrderInv, NEW e \in Ends, UNCHANGED <<strayed, handled>>,
         \A d \in Ends \ {e} :
           net'[d] = net[d] /\ unsent_data'[d] = unsent_data[d] /\ sent'[d] = sent[d],
         ~ strayed[e] => InStep(net'[e], unsent_data'[e], sent'[e], Len(handled[Other(e)]))
  PROVE  OrderInv'
<1>1. ASSUME NEW d \in Ends PROVE strayed[d] \/ Flows(d)'
  <2>1. CASE d = e
    BY <2>1 DEF OrderInv, Flows
  <2>2. CASE d # e
    BY <2>2, FlowStays DEF OrderInv
  <2> QED BY <2>1, <2>2
<1> QED BY <1>1 DEF OrderInv

\* What end e has under way, typed.
LEMMA FlowType ==
  ASSUME WireInv, OrderInv, NEW e \in Ends
  PROVE  /\ net[e] \in Seq(Byte) /\ unsent_data[e] \in Seq(Rests) /\ sent[e] \in Nat
         /\ Len(handled[Other(e)]) \in Nat
<1>1. handled[Other(e)] \in Seq(Nat)
  BY OtherType DEF OrderInv
<1> QED BY <1>1 DEF WireInv

LEMMA SendBehindOrder ==
  ASSUME WireInv, OrderInv, NEW e \in Ends, NEW len \in Lengths, SendBehind(e, len)
  PROVE  OrderInv'
<1>1. CASE Close
  BY <1>1, CloseOrder
<1>2. CASE ~ Close
  <2>1. /\ unsent_data' = [unsent_data EXCEPT ![e] = Append(@, Message(sent[e] + 1, len))]
        /\ sent' = [sent EXCEPT ![e] = @ + 1] /\ UNCHANGED <<net, strayed, handled>>
    BY <1>2 DEF SendBehind, Queue, CountSent
  <2>2. /\ unsent_data'[e] = Append(unsent_data[e], Message(sent[e] + 1, len))
        /\ sent'[e] = sent[e] + 1 /\ net'[e] = net[e]
    BY <2>1 DEF WireInv
  <2>3. \A d \in Ends \ {e} : net'[d] = net[d] /\ unsent_data'[d] = unsent_data[d] /\ sent'[d] = sent[d]
    BY <2>1 DEF WireInv
  <2>4. ASSUME ~ strayed[e]
        PROVE  InStep(net'[e], unsent_data'[e], sent'[e], Len(handled[Other(e)]))
    <3>1. InStep(net[e], unsent_data[e], sent[e], Len(handled[Other(e)]))
      BY <2>4 DEF OrderInv, Flows
    <3>2. InStep(net[e], Append(unsent_data[e], Message(sent[e] + 1, len)), sent[e] + 1,
                 Len(handled[Other(e)]))
      BY <3>1, FlowType, InStepQueued
    <3> QED BY <2>2, <3>2
  <2> QED BY <2>1, <2>3, <2>4, SenderOrder
<1> QED BY <1>1, <1>2

\* As if the message had been queued before it is sent.
LEMMA SendDirectOrder ==
  ASSUME WireInv, OrderInv, NEW e \in Ends, NEW len \in Lengths, SendDirect(e, len)
  PROVE  OrderInv'
<1> DEFINE h == Len(handled[Other(e)])
<1>1. CASE Close
  BY <1>1, CloseOrder
<1>2. CASE ~ Close
  <2>1. PICK bytes \in Rests : bytes = Message(sent[e] + 1, len) /\ Len(bytes) = len
    BY MessageType DEF WireInv
  <2>2. bytes \in Seq(Byte)
    BY DEF Rests
  <2>3. PICK n \in Nat : n = Fits(e, bytes) /\ n <= len
    <3>1. Fits(e, bytes) \in 0 .. Len(bytes)
      BY <2>2, FitsType DEF WireInv
    <3> QED BY <2>1, <3>1
  <2>4. /\ net' = [net EXCEPT ![e] = @ \o SubSeq(bytes, 1, n)]
        /\ sent' = [sent EXCEPT ![e] = @ + 1] /\ UNCHANGED <<strayed, handled>>
        /\ unsent_data[e] = <<>>
        /\ IF n = len THEN UNCHANGED unsent_data
           ELSE unsent_data' = [unsent_data EXCEPT ![e] = Append(@, After(bytes, n))]
    BY <1>2, <2>1, <2>3 DEF SendDirect, Transmit, Queue, CountSent
  <2>5. \A d \in Ends \ {e} : net'[d] = net[d] /\ unsent_data'[d] = unsent_data[d] /\ sent'[d] = sent[d]
    BY <2>4 DEF WireInv
  <2>6. net'[e] = net[e] \o SubSeq(bytes, 1, n) /\ sent'[e] = sent[e] + 1
    BY <2>4 DEF WireInv
  <2>7. ASSUME ~ strayed[e]
        PROVE  InStep(net'[e], unsent_data'[e], sent'[e], Len(handled[Other(e)]))
    <3>1. InStep(net[e], unsent_data[e], sent[e], h)
      BY <2>7 DEF OrderInv, Flows
    <3>2. net[e] \in Seq(Byte) /\ sent[e] \in Nat /\ h \in Nat
      BY FlowType
    <3> HIDE DEF h
    <3>3. InStep(net[e], Append(<<>>, bytes), sent[e] + 1, h)
      <4>1. InStep(net[e], Append(unsent_data[e], Message(sent[e] + 1, len)), sent[e] + 1, h)
        BY <3>1, <3>2, FlowType, InStepQueued
      <4> QED BY <2>1, <2>4, <4>1
    <3>4. Append(<<>>, bytes) = <<bytes>>
      OBVIOUS
    <3>5. <<bytes>> \in Seq(Rests) /\ <<bytes>> # <<>> /\ <<bytes>>[1] = bytes
      OBVIOUS
    <3>6. Tail(<<bytes>>) = <<>> /\ sent[e] + 1 \in Nat
      BY <3>2
    <3>7. PICK queue \in Seq(Rests) : queue = <<bytes>>
      BY <3>5
    <3>8. /\ n = len => InStep(net[e] \o SubSeq(bytes, 1, n), Tail(queue), sent[e] + 1, h)
          /\ n < len => InStep(net[e] \o SubSeq(bytes, 1, n),
                               [queue EXCEPT ![1] = After(bytes, n)], sent[e] + 1, h)
      <4>1. InStep(net[e], queue, sent[e] + 1, h) /\ queue # <<>> /\ queue[1] = bytes
        BY <3>3, <3>4, <3>5, <3>7
      <4> QED BY <2>1, <2>3, <3>2, <3>6, <4>1, InStepSent
    <3>9. CASE n = len
      <4>1. unsent_data'[e] = <<>> /\ Tail(queue) = <<>>
        BY <2>4, <3>6, <3>7, <3>9
      <4> QED BY <2>6, <3>8, <3>9, <4>1 DEF h
    <3>10. CASE n # len
      <4>1. PICK rest \in Rests : rest = After(bytes, n)
        BY <2>1, <2>2, <2>3, <3>10, AfterType
      <4>2. unsent_data'[e] = Append(<<>>, rest)
        BY <2>4, <3>10, <4>1 DEF WireInv
      <4>3. [queue EXCEPT ![1] = rest] = <<rest>> /\ Append(<<>>, rest) = <<rest>>
        BY <3>7
      <4>4. n < len
        BY <2>3, <3>10
      <4> QED BY <2>6, <3>8, <4>1, <4>2, <4>3, <4>4 DEF h
    <3> QED BY <3>9, <3>10
  <2> QED BY <2>4, <2>5, <2>7, SenderOrder
<1> QED BY <1>1, <1>2

\* The one that puts a stray byte before its message.
LEMMA SendBlockedOrder ==
  ASSUME WireInv, OrderInv, NEW e \in Ends, NEW len \in Lengths, SendBlocked(e, len)
  PROVE  OrderInv'
<1>1. /\ \E bytes : unsent_data' = [unsent_data EXCEPT ![e] = Append(@, bytes)]
      /\ sent' = [sent EXCEPT ![e] = @ + 1] /\ UNCHANGED <<net, handled>>
      /\ strayed' = [strayed EXCEPT ![e] = TRUE]
  BY DEF SendBlocked, Queue, CountSent
<1>2. \A d \in Ends \ {e} : /\ net'[d] = net[d] /\ unsent_data'[d] = unsent_data[d]
                            /\ sent'[d] = sent[d] /\ strayed'[d] = strayed[d]
  BY <1>1 DEF WireInv, OrderInv
<1>3. strayed' \in [Ends -> BOOLEAN] /\ strayed'[e]
  BY <1>1 DEF OrderInv
<1>4. ASSUME NEW d \in Ends PROVE strayed'[d] \/ Flows(d)'
  <2>1. CASE d = e
    BY <1>3, <2>1
  <2>2. CASE d # e
    BY <1>1, <1>2, <2>2, FlowStays DEF OrderInv
  <2> QED BY <2>1, <2>2
<1> QED BY <1>1, <1>3, <1>4 DEF OrderInv

LEMMA ResendOrder ==
  ASSUME WireInv, OrderInv, NEW e \in Ends, Resend(e)
  PROVE  OrderInv'
<1> DEFINE h == Len(handled[Other(e)])
<1>1. CASE Close
  BY <1>1, CloseOrder
<1>2. CASE ~ Close
  <2>1. PICK queue \in Seq(Rests) : queue = unsent_data[e]
    BY FlowType
  <2>2. turn[e] = "resend" /\ queue # <<>>
    BY <1>2, <2>1, HeadType DEF Resend
  <2>3. PICK bytes \in Seq(Byte) : bytes = Head(queue)
    BY <2>1, <2>2, HeadType
  <2>4. bytes = queue[1]
    BY <2>2, <2>3
  <2>5. PICK n \in Nat : n = Fits(e, bytes) /\ n <= Len(bytes)
    <3>1. Fits(e, bytes) \in 0 .. Len(bytes)
      BY FitsType DEF WireInv
    <3> QED BY <3>1
  <2>6. /\ net' = [net EXCEPT ![e] = @ \o SubSeq(bytes, 1, n)]
        /\ unsent_data' = [unsent_data EXCEPT ![e] = IF n = Len(bytes) THEN Tail(queue)
                                                     ELSE [queue EXCEPT ![1] = After(bytes, n)]]
        /\ UNCHANGED <<sent, strayed, handled>>
    BY <1>2, <2>1, <2>3, <2>5 DEF Resend, Transmit
  <2>7. \A d \in Ends \ {e} : net'[d] = net[d] /\ unsent_data'[d] = unsent_data[d] /\ sent'[d] = sent[d]
    BY <2>6 DEF WireInv
  <2>8. /\ net'[e] = net[e] \o SubSeq(bytes, 1, n) /\ sent'[e] = sent[e]
        /\ unsent_data'[e] = IF n = Len(bytes) THEN Tail(queue)
                             ELSE [queue EXCEPT ![1] = After(bytes, n)]
    BY <2>6 DEF WireInv
  <2>9. ASSUME ~ strayed[e]
        PROVE  InStep(net'[e], unsent_data'[e], sent'[e], Len(handled[Other(e)]))
    <3>1. InStep(net[e], queue, sent[e], h)
      BY <2>1, <2>9 DEF OrderInv, Flows
    <3>2. net[e] \in Seq(Byte) /\ sent[e] \in Nat /\ h \in Nat
      BY FlowType
    <3> HIDE DEF h
    <3>3. /\ n = Len(bytes) => InStep(net[e] \o SubSeq(bytes, 1, n), Tail(queue), sent[e], h)
          /\ n < Len(bytes) => InStep(net[e] \o SubSeq(bytes, 1, n),
                                      [queue EXCEPT ![1] = After(bytes, n)], sent[e], h)
      BY <2>2, <2>4, <2>5, <3>1, <3>2, InStepSent
    <3>4. n = Len(bytes) \/ n < Len(bytes)
      BY <2>5
    <3> QED BY <2>8, <3>3, <3>4 DEF h
  <2> QED BY <2>6, <2>7, <2>9, SenderOrder
<1> QED BY <1>1, <1>2

\* A message that e takes is the next one on the way from the other end, and the way
\* from e stays as it is.
LEMMA ReadMsgOrder ==
  ASSUME WireInv, OrderInv, NEW e \in Ends, ReadMsg(e)
  PROVE  OrderInv'
<1>1. PICK o \in Ends : o = Other(e) /\ o # e /\ Other(o) = e /\ \A d \in Ends : d = e \/ d = o
  BY BothWays
<1>2. PICK s \in Seq(Byte) : s = net[o]
  BY FlowType
<1>3. /\ Peeked(e) >= PREFIX /\ Peeked(e) - PREFIX >= First(e).len - PREFIX
      /\ net' = [net EXCEPT ![o] = After(@, First(e).len)]
      /\ handled' = [handled EXCEPT ![e] = Append(@, First(e).msg)]
      /\ UNCHANGED <<unsent_data, sent, strayed>>
  BY <1>1 DEF ReadMsg, Framed, AllPeeked, Take
<1>4. Len(s) >= 1 /\ First(e) = s[1] /\ s[1] \in Byte
  BY <1>1, <1>2, <1>3, PeekedType DEF First
<1>5. s[1].len \in Nat /\ s[1].msg \in Nat /\ s[1].len <= Len(s)
  <2>1. s[1].len \in Nat /\ s[1].msg \in Nat
    BY <1>4 DEF Byte
  <2>2. Peeked(e) - PREFIX >= s[1].len - PREFIX
    BY <1>3, <1>4
  <2>3. Peeked(e) \in Nat /\ Peeked(e) <= Len(s) /\ Len(s) \in Nat
    BY <1>1, <1>2, PeekedType
  <2> QED BY <2>1, <2>2, <2>3
<1>6. PICK taken \in Seq(Nat) : taken = handled[e]
  BY DEF OrderInv
<1>7. /\ handled'[e] = Append(taken, s[1].msg) /\ handled'[o] = handled[o]
      /\ net'[o] = After(s, s[1].len) /\ net'[e] = net[e]
  BY <1>1, <1>2, <1>3, <1>4, <1>6 DEF WireInv, OrderInv
<1>8. PICK more \in Seq(Nat) : more = Append(taken, s[1].msg)
  BY <1>5, AppendProperties
<1>9. /\ Len(more) = Len(taken) + 1 /\ more[Len(taken) + 1] = s[1].msg
      /\ \A m \in 1 .. Len(taken) : more[m] = taken[m]
  BY <1>5, <1>8, AppendProperties
<1>10. handled' \in [Ends -> Seq(Nat)]
  BY <1>3, <1>6, <1>7, <1>8 DEF OrderInv
<1>11. strayed[e] \/ Flows(e)'
  BY <1>1, <1>3, <1>7, FlowStays DEF OrderInv
<1>12. strayed[o] \/ Flows(o)'
  <2> SUFFICES ASSUME ~ strayed[o] PROVE Flows(o)'
    OBVIOUS
  <2>1. InStep(s, unsent_data[o], sent[o], Len(taken)) /\ \A m \in 1 .. Len(taken) : taken[m] = m
    BY <1>1, <1>2, <1>6 DEF OrderInv, Flows
  <2>2. s[1].msg = Len(taken) + 1 /\ InStep(After(s, s[1].len), unsent_data[o], sent[o], Len(taken) + 1)
    <3>1. unsent_data[o] \in Seq(Rests) /\ sent[o] \in Nat /\ Len(taken) \in Nat
      BY FlowType
    <3>2. Len(s) >= 1 /\ s[1].len <= Len(s)
      BY <1>4, <1>5
    <3> QED BY ONLY s \in Seq(Byte), <2>1, <3>1, <3>2, InStepTaken
  <2>3. ASSUME NEW m \in 1 .. Len(more) PROVE more[m] = m
    <3>1. CASE m = Len(taken) + 1
      BY <1>9, <2>2, <3>1
    <3>2. CASE m # Len(taken) + 1
      <4>1. m \in 1 .. Len(taken)
        BY <1>9, <3>2
      <4> QED BY <1>9, <2>1, <4>1
    <3> QED BY <3>1, <3>2
  <2>4. InStep(net'[o], unsent_data'[o], sent'[o], Len(more))
    BY <1>3, <1>7, <1>9, <2>2
  <2>5. handled'[Other(o)] = more
    BY <1>1, <1>7, <1>8
  <2> QED BY <2>3, <2>4, <2>5 DEF Flows
<1> QED BY <1>1, <1>3, <1>10, <1>11, <1>12 DEF OrderInv

\* A turn that takes no message for one leaves bytes alone that are in step: what it
\* reads first is the first byte of one.
LEMMA ReadGarbageOrder ==
  ASSUME WireInv, OrderInv, NEW e \in Ends, ReadGarbage(e)
  PROVE  OrderInv'
<1>1. PICK o \in Ends : o = Other(e) /\ o # e /\ Other(o) = e /\ \A d \in Ends : d = e \/ d = o
  BY BothWays
<1>2. CASE Close
  BY <1>2, CloseOrder
<1>3. CASE ~ Close
  <2>1. /\ Peeked(e) >= PREFIX /\ First(e).at # 1
        /\ \E n : net' = [net EXCEPT ![o] = After(@, n)]
        /\ UNCHANGED <<unsent_data, sent, strayed, handled>>
    BY <1>1, <1>3 DEF ReadGarbage, Framed, Take
  <2>2. Len(net[o]) >= 1 /\ First(e) = net[o][1]
    BY <1>1, <2>1, PeekedType DEF First
  <2>3. strayed[o]
    <3> SUFFICES ASSUME ~ strayed[o] PROVE FALSE
      OBVIOUS
    <3>1. InStep(net[o], unsent_data[o], sent[o], Len(handled[Other(o)]))
      BY DEF OrderInv, Flows
    <3>2. net[o][1].at = 1
      BY <2>2, <3>1, FlowType, InStepTaken
    <3> QED BY <2>1, <2>2, <3>2
  <2>4. strayed[e] \/ Flows(e)'
    <3>1. net'[e] = net[e]
      BY <1>1, <2>1 DEF WireInv
    <3> QED BY <2>1, <3>1, FlowStays DEF OrderInv
  <2> QED BY <1>1, <2>1, <2>3, <2>4 DEF OrderInv
<1> QED BY <1>2, <1>3

LEMMA InitOrder == Init => OrderInv
<1> SUFFICES ASSUME Init PROVE OrderInv
  OBVIOUS
<1>1. ASSUME NEW e \in Ends PROVE Flows(e)
  <2>1. /\ net[e] = <<>> /\ unsent_data[e] = <<>> /\ sent[e] = 0
        /\ handled[Other(e)] = <<>>
    BY OtherType DEF Init
  <2>2. Run(<<>>, 0)
    BY DEF Run
  <2>3. Continues(<<>>, 0, 1, 1, 0)
    BY DEF Continues
  <2>4. Waits(<<>>, 1, 1, 0)
    BY DEF Waits
  <2>5. Len(<<>>) = 0 /\ (0 - 0) + 1 = 1
    OBVIOUS
  <2>6. \E a \in Nat \ {0}, len \in Nat : Continues(<<>>, 0, 1, a, len) /\ Waits(<<>>, 1, a, len)
    BY <2>3, <2>4
  <2>7. InStep(<<>>, <<>>, 0, 0)
    BY <2>2, <2>5, <2>6 DEF InStep
  <2> QED BY <2>1, <2>5, <2>7 DEF Flows
<1>2. strayed \in [Ends -> BOOLEAN] /\ handled \in [Ends -> Seq(Nat)]
  BY DEF Init
<1> QED BY <1>1, <1>2 DEF OrderInv

LEMMA NextOrder == WireInv /\ OrderInv /\ [Next]_vars => OrderInv'
<1> SUFFICES ASSUME WireInv, OrderInv, [Next]_vars PROVE OrderInv'
  OBVIOUS
<1>1. CASE UNCHANGED vars
  BY <1>1, OrderStays DEF vars
<1>2. CASE Break
  BY <1>2, CloseOrder DEF Break
<1>3. ASSUME NEW e \in Ends, Send(e) PROVE OrderInv'
  BY <1>3, SendBehindOrder, SendDirectOrder, SendBlockedOrder DEF Send
<1>4. ASSUME NEW e \in Ends, BeginTurn(e) PROVE OrderInv'
  BY <1>4, OrderStays DEF BeginTurn
<1>5. ASSUME NEW e \in Ends, Read(e) PROVE OrderInv'
  BY <1>5, ReadMsgOrder, ReadGarbageOrder, OrderStays, CloseOrder
     DEF Read, ReadNothing, RefuseMsg
<1> QED BY <1>1, <1>2, <1>3, <1>4, <1>5, ResendOrder DEF Next, Turn

\* What the bytes in step say of the messages.
LEMMA OrderSeen == WireInv /\ OrderInv => InOrder
<1> SUFFICES ASSUME WireInv, OrderInv, NEW e \in Ends, ~ strayed[Other(e)]
             PROVE  /\ Len(handled[e]) <= sent[Other(e)]
                    /\ handled[e] = [m \in 1 .. Len(handled[e]) |-> m]
                    /\ NextIsWhole(e)
  BY DEF InOrder
<1>1. PICK o \in Ends : o = Other(e) /\ Other(o) = e
  BY BothWays
<1>2. PICK taken \in Seq(Nat) : taken = handled[e]
  BY DEF OrderInv
<1>3. PICK h \in Nat : h = Len(taken)
  OBVIOUS
<1>4. PICK n \in Nat : n = Len(unsent_data[o])
  BY FlowType
<1>5. /\ InStep(net[o], unsent_data[o], sent[o], h)
      /\ \A m \in 1 .. h : taken[m] = m
  BY <1>1, <1>2, <1>3 DEF OrderInv, Flows
<1>6. Run(net[o], h) /\ h <= sent[o] - n
  BY <1>4, <1>5 DEF InStep
<1>7. h <= sent[o]
  BY <1>6, FlowType
<1>8. taken = [m \in 1 .. h |-> m]
  BY <1>3, <1>5
<1>9. ASSUME Framed(e), AllPeeked(e)
      PROVE  SubSeq(net[o], 1, First(e).len) = Message(h + 1, First(e).len)
  <2>1. PICK s \in Seq(Byte) : s = net[o]
    BY FlowType
  <2>2. Len(s) >= 1 /\ First(e) = s[1] /\ s[1] \in Byte
    BY <1>1, <1>9, <2>1, PeekedType DEF First, Framed
  <2>3. PICK len \in Nat : len = s[1].len
    BY <2>2 DEF Byte
  <2>4. len <= Len(s)
    <3>1. Peeked(e) - PREFIX >= len - PREFIX
      BY <1>9, <2>2, <2>3 DEF AllPeeked
    <3>2. Peeked(e) \in Nat /\ Peeked(e) <= Len(s) /\ Len(s) \in Nat
      BY <1>1, <2>1, PeekedType
    <3> QED BY <3>1, <3>2
  <2>5. \A i \in 1 .. len : s[i].msg = h + 1 /\ s[i].at = i /\ s[i].len = len
    BY <1>6, <2>1, <2>2, <2>3, <2>4, FirstOfRun
  <2>6. PICK p \in Seq(Byte) : p = SubSeq(s, 1, len)
    BY <2>4, FirstElements
  <2>7. Len(p) = len /\ \A i \in 1 .. len : p[i] = s[i]
    BY <2>4, <2>6, FirstElements
  <2>8. \A i \in 1 .. len : p[i] = [msg |-> h + 1, at |-> i, len |-> len]
    <3> TAKE i \in 1 .. len
    <3>1. p[i] \in Byte /\ p[i].msg = h + 1 /\ p[i].at = i /\ p[i].len = len
      BY <2>5, <2>7
    <3> QED BY <3>1 DEF Byte
  <2>9. p = [i \in 1 .. len |-> p[i]]
    BY <2>7
  <2>10. p = Message(h + 1, len)
    BY <2>8, <2>9 DEF Message
  <2> QED BY <2>1, <2>2, <2>3, <2>6, <2>10
<1>10. NextIsWhole(e)
  BY <1>1, <1>2, <1>3, <1>9 DEF NextIsWhole
<1> QED BY <1>1, <1>2, <1>3, <1>7, <1>8, <1>10

\* However messages are cut, queued by send_sock_msg and put together again by
\* extract_sock_msg, what an end handles are the messages that the other has sent, from
\* the first on, each once, in order and whole, unless a stray byte is among them: for
\* messages of any length, any limits and any room.
THEOREM HandledInOrder == Spec => []InOrder
<1>1. Init => OrderInv
  BY InitOrder
<1>2. WireInv /\ OrderInv /\ [Next]_vars => OrderInv'
  BY NextOrder
<1>3. WireInv /\ OrderInv => InOrder
  BY OrderSeen
<1>4. Spec => []WireInv
  BY WireInvariant
<1> QED BY <1>1, <1>2, <1>3, <1>4, PTL DEF Spec

=============================================================================

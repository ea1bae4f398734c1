--------------------------- MODULE SendQueueProofs ---------------------------
(***************************************************************************)
(* The queue of unsent messages of SendQueue is well formed, for messages  *)
(* of any length, any limit of the queue and any width of the offsets.     *)
(***************************************************************************)
EXTENDS SendQueue, SequenceTheorems, NaturalsInduction, WellFoundedInduction, TLAPS

-----------------------------------------------------------------------------
(***************************************************************************)
(* Sequences of sequences laid end to end                                  *)
(***************************************************************************)

\* A set of numbers that is not empty has a least one.
LEMMA LeastNumber ==
  ASSUME NEW T \in SUBSET Nat, T # {}
  PROVE  \E n \in T : \A k \in T : n <= k
<1>1. PICK n \in T : \A y \in T : ~ (<<y, n>> \in OpToRel(<, Nat))
  BY WFMin, NatLessThanWellFounded
<1>2. \A y \in T : ~ (y < n)
  BY <1>1 DEF OpToRel
<1>3. n \in Nat /\ \A k \in T : k \in Nat
  OBVIOUS
<1>4. \A k \in T : n <= k
  BY <1>2, <1>3
<1> QED BY <1>4

\* g holds the first n partial results of FlattenSeq.
Joined(seqs, g, n) ==
  \A k \in 1 .. n : g[k] = IF k = 1 THEN seqs[k] ELSE g[k - 1] \o seqs[k]
Joins(seqs, S, g, n) == g \in [1 .. n -> Seq(S)] /\ Joined(seqs, g, n)

LEMMA JoinsExist ==
  ASSUME NEW S, NEW seqs \in Seq(Seq(S)), NEW n \in 0 .. Len(seqs)
  PROVE  \E g : Joins(seqs, S, g, n)
<1> DEFINE T == {m \in 0 .. Len(seqs) : ~ \E g : Joins(seqs, S, g, m)}
<1> SUFFICES ASSUME T # {} PROVE FALSE
  OBVIOUS
<1>1. PICK m \in T : \A k \in T : m <= k
  <2>1. T \subseteq Nat
    OBVIOUS
  <2> HIDE DEF T
  <2> QED BY <2>1, LeastNumber
<1>2. m \in 0 .. Len(seqs) /\ ~ (\E g : Joins(seqs, S, g, m)) /\ Len(seqs) \in Nat
  OBVIOUS
<1>3. CASE m = 0
  <2>1. Joins(seqs, S, [k \in 1 .. 0 |-> <<>>], 0)
    BY DEF Joins, Joined
  <2> QED BY <1>2, <1>3, <2>1
<1>4. CASE m # 0
  <2>1. m - 1 \in 0 .. Len(seqs) /\ m - 1 \notin T
    <3> HIDE DEF T
    <3>1. m - 1 \in 0 .. Len(seqs) /\ ~ (m <= m - 1)
      BY <1>2, <1>4
    <3> QED BY <1>1, <3>1, Zenon
  <2>2. PICK g : Joins(seqs, S, g, m - 1)
    BY <2>1
  <2> DEFINE h == [k \in 1 .. m |-> IF k < m THEN g[k]
                                    ELSE IF k = 1 THEN seqs[k] ELSE g[k - 1] \o seqs[k]]
  <2> HIDE DEF T
  <2>3. ASSUME NEW k \in 1 .. m
        PROVE  h[k] \in Seq(S) /\ h[k] = IF k = 1 THEN seqs[k] ELSE h[k - 1] \o seqs[k]
    <3>0. k \in 1 .. Len(seqs) /\ seqs[k] \in Seq(S)
      <4>1. k \in 1 .. Len(seqs)
        BY <1>2
      <4> QED BY <4>1, ElementOfSeq
    <3>1. CASE k < m
      <4>1. k \in 1 .. m - 1 /\ (k # 1 => k - 1 \in 1 .. m - 1 /\ k - 1 < m /\ k - 1 \in 1 .. m)
        BY <1>2, <3>1
      <4>2. h[k] = g[k] /\ (k # 1 => h[k - 1] = g[k - 1])
        BY <3>1, <4>1
      <4> HIDE DEF h
      <4> QED BY <2>2, <4>1, <4>2 DEF Joins, Joined
    <3>2. CASE k = m
      <4>1. k # 1 => k - 1 \in 1 .. m - 1 /\ k - 1 < m /\ k - 1 \in 1 .. m
        BY <1>2, <3>2
      <4>2. h[k] = IF k = 1 THEN seqs[k] ELSE g[k - 1] \o seqs[k]
        BY <1>2, <3>2
      <4>3. k # 1 => h[k - 1] = g[k - 1] /\ g[k - 1] \in Seq(S)
        BY <2>2, <4>1 DEF Joins, Joined
      <4> HIDE DEF h
      <4>4. CASE k = 1
        BY <3>0, <4>2, <4>4
      <4>5. CASE k # 1
        <5>1. g[k - 1] \o seqs[k] \in Seq(S)
          BY <3>0, <4>3, <4>5, ConcatProperties
        <5> QED BY <4>2, <4>3, <4>5, <5>1
      <4> QED BY <4>4, <4>5
    <3> QED BY <1>2, <3>1, <3>2
  <2>4. h \in [1 .. m -> Seq(S)]
    BY <2>3
  <2> HIDE DEF h
  <2>5. Joins(seqs, S, h, m)
    BY <2>3, <2>4 DEF Joins, Joined
  <2> QED BY <1>2, <2>5
<1> QED BY <1>3, <1>4

LEMMA JoinsAgree ==
  ASSUME NEW seqs, NEW more, NEW g, NEW h, NEW n \in Nat, NEW m \in Nat,
         Joined(seqs, g, n), Joined(more, h, m), n <= m, \A k \in 1 .. n : more[k] = seqs[k],
         NEW j \in 1 .. n
  PROVE  g[j] = h[j]
<1> DEFINE T == {k \in 1 .. n : g[k] # h[k]}
<1> SUFFICES ASSUME T # {} PROVE FALSE
  OBVIOUS
<1>1. PICK k \in T : \A y \in T : k <= y
  <2>1. T \subseteq Nat
    OBVIOUS
  <2> HIDE DEF T
  <2> QED BY <2>1, LeastNumber
<1>2. /\ k \in 1 .. n /\ k \in 1 .. m /\ g[k] # h[k]
      /\ k # 1 => k - 1 \in 1 .. n /\ k - 1 \notin T
  BY <1>1
<1>3. k # 1 => g[k - 1] = h[k - 1]
  BY <1>2
<1>4. /\ g[k] = IF k = 1 THEN seqs[k] ELSE g[k - 1] \o seqs[k]
      /\ h[k] = IF k = 1 THEN more[k] ELSE h[k - 1] \o more[k]
  BY <1>2, Zenon DEF Joined
<1>5. more[k] = seqs[k]
  BY <1>2
<1> HIDE DEF T
<1> QED BY <1>2, <1>3, <1>4, <1>5

LEMMA FlattenJoins ==
  ASSUME NEW S, NEW seqs \in Seq(Seq(S)), seqs # <<>>
  PROVE  \E g : Joins(seqs, S, g, Len(seqs)) /\ FlattenSeq(seqs) = g[Len(seqs)]
<1> DEFINE n == Len(seqs)
           Join(g) == g = [k \in 1 .. n |-> IF k = 1 THEN seqs[k] ELSE g[k - 1] \o seqs[k]]
           flatten == CHOOSE g : Join(g)
<1>1. n \in Nat \ {0}
  BY EmptySeq
<1>2. PICK h : Joins(seqs, S, h, n)
  BY <1>1, JoinsExist
<1>3. Join(h)
  BY <1>2 DEF Joins, Joined
<1>4. Join(flatten)
  <2> HIDE DEF Join
  <2> QED BY <1>3
<1>5. FlattenSeq(seqs) = flatten[n]
  BY <1>1, Zenon DEF FlattenSeq
<1> HIDE DEF flatten
<1>6. Joined(seqs, flatten, n) /\ Joined(seqs, h, n)
  BY <1>2, <1>4 DEF Joins, Joined
<1> HIDE DEF n
<1>7. ASSUME NEW k \in 1 .. n PROVE h[k] = flatten[k]
  <2>1. n \in Nat /\ n <= n
    BY <1>1
  <2> QED BY <1>6, <2>1, JoinsAgree
<1>8. n \in 1 .. n
  BY <1>1
<1>9. FlattenSeq(seqs) = h[n]
  BY <1>5, <1>7, <1>8
<1> QED BY <1>2, <1>9 DEF n

LEMMA FlattenEmpty == FlattenSeq(<<>>) = <<>>
<1>1. Len(<<>>) = 0
  OBVIOUS
<1> QED BY <1>1 DEF FlattenSeq

\* FlattenSeq of one sequence more.
LEMMA FlattenAppend ==
  ASSUME NEW S, NEW seqs \in Seq(Seq(S)), NEW s \in Seq(S)
  PROVE  /\ FlattenSeq(seqs) \in Seq(S)
         /\ FlattenSeq(Append(seqs, s)) = FlattenSeq(seqs) \o s
<1>0. PICK n \in Nat : n = Len(seqs)
  OBVIOUS
<1>m. PICK more : more = Append(seqs, s)
  OBVIOUS
<1>1. /\ more \in Seq(Seq(S)) /\ Len(more) = n + 1 /\ more # <<>>
      /\ \A k \in 1 .. n : more[k] = seqs[k]
      /\ more[n + 1] = s /\ n \in Nat
  BY <1>0, <1>m, AppendProperties
<1>2. PICK h : Joins(more, S, h, n + 1) /\ FlattenSeq(more) = h[n + 1]
  BY <1>0, <1>1, FlattenJoins
<1>3. n + 1 \in 1 .. n + 1 /\ n + 1 - 1 = n
  BY <1>1
<1>4. CASE seqs = <<>>
  <2>1. n = 0
    BY <1>0, <1>4
  <2>2. FlattenSeq(seqs) = <<>>
    BY <1>4, FlattenEmpty
  <2>3. FlattenSeq(more) = s
    BY <1>1, <1>2, <1>3, <2>1 DEF Joins, Joined
  <2>4. <<>> \in Seq(S) /\ <<>> \o s = s
    OBVIOUS
  <2> QED BY <1>m, <2>2, <2>3, <2>4
<1>5. CASE seqs # <<>>
  <2>0. n # 0
    BY <1>0, <1>5, EmptySeq
  <2>1. PICK g : Joins(seqs, S, g, n) /\ FlattenSeq(seqs) = g[n]
    BY <1>0, <1>5, FlattenJoins
  <2>2. n \in 1 .. n /\ n + 1 # 1
    BY <1>1, <2>0
  <2>3. g[n] = h[n]
    <3>1. Joined(seqs, g, n) /\ Joined(more, h, n + 1)
      BY <1>2, <2>1, Zenon DEF Joins
    <3>2. PICK m \in Nat : m = n + 1
      OBVIOUS
    <3>3. Joined(more, h, m) /\ n <= m
      BY <3>1, <3>2
    <3>4. \A k \in 1 .. n : more[k] = seqs[k]
      BY <1>1
    <3>5. \A j \in 1 .. n : g[j] = h[j]
      BY <3>1, <3>3, <3>4, JoinsAgree
    <3> QED BY <2>2, <3>5
  <2>4. h[n + 1] = h[n] \o s
    <3>0. Joined(more, h, n + 1)
      BY <1>2, Zenon DEF Joins
    <3>1. h[n + 1] = IF n + 1 = 1 THEN more[n + 1] ELSE h[n + 1 - 1] \o more[n + 1]
      BY ONLY <1>3, <3>0 DEF Joined
    <3> QED BY ONLY <1>1, <1>3, <2>2, <3>1
  <2>5. g[n] \in Seq(S)
    BY <2>1, <2>2 DEF Joins, Joined
  <2> QED BY <1>m, <1>2, <2>1, <2>3, <2>4, <2>5
<1> QED BY <1>4, <1>5

\* FlattenSeq of two lists of sequences is FlattenSeq of the one and then of the other.
LEMMA FlattenConcat ==
  ASSUME NEW S, NEW a \in Seq(Seq(S)), NEW b \in Seq(Seq(S))
  PROVE  FlattenSeq(a \o b) = FlattenSeq(a) \o FlattenSeq(b)
<1> DEFINE Holds(i) == FlattenSeq(a \o SubSeq(b, 1, i)) = FlattenSeq(a) \o FlattenSeq(SubSeq(b, 1, i))
           T == {i \in 0 .. Len(b) : ~ Holds(i)}
<1>0. Len(b) \in Nat /\ SubSeq(b, 1, Len(b)) = b
  OBVIOUS
<1> SUFFICES ASSUME T # {} PROVE FALSE
  <2>1. Len(b) \notin T
    OBVIOUS
  <2>2. Holds(Len(b))
    BY <1>0, <2>1
  <2> QED BY <1>0, <2>2
<1>1. PICK i \in T : \A y \in T : i <= y
  <2>1. T \subseteq Nat
    OBVIOUS
  <2> HIDE DEF T
  <2> QED BY <2>1, LeastNumber
<1>2. i \in 0 .. Len(b) /\ ~ Holds(i)
  OBVIOUS
<1>a. FlattenSeq(a) \in Seq(S)
  <2>1. <<>> \in Seq(S)
    OBVIOUS
  <2> QED BY <2>1, FlattenAppend
<1>3. CASE i = 0
  <2>1. SubSeq(b, 1, i) = <<>> /\ a \o <<>> = a
    BY <1>3
  <2>2. FlattenSeq(a) \o <<>> = FlattenSeq(a)
    BY <1>a
  <2> QED BY <1>2, <2>1, <2>2, FlattenEmpty
<1>4. CASE i # 0
  <2>1. i - 1 \in 0 .. Len(b) /\ i \in 1 .. Len(b) /\ ~ (i <= i - 1)
    BY <1>0, <1>2, <1>4
  <2>2. Holds(i - 1)
    <3> HIDE DEF Holds
    <3>1. i - 1 \notin T
      <4> HIDE DEF T
      <4> QED BY <1>1, <2>1, Zenon
    <3> QED BY <2>1, <3>1
  <2>c. PICK c : c = SubSeq(b, 1, i - 1)
    OBVIOUS
  <2>3. c \in Seq(Seq(S)) /\ b[i] \in Seq(S)
    <3>1. \A j \in 1 .. i - 1 : j \in 1 .. Len(b)
      BY <2>1
    <3> QED BY <2>c, <2>1, <3>1, SubSeqProperties, ElementOfSeq
  <2> HIDE DEF T
  <2>4. SubSeq(b, 1, i) = Append(c, b[i])
    <3>1. PICK B \in Seq(Seq(S)) : B = b
      OBVIOUS
    <3>2. PICK k \in 1 .. Len(B) : k = i
      BY <2>1, <3>1
    <3>3. SubSeq(B, 1, k) = Append(SubSeq(B, 1, k - 1), B[k])
      BY ONLY B \in Seq(Seq(S)), k \in 1 .. Len(B)
    <3> QED BY <2>c, <3>1, <3>2, <3>3
  <2>5. FlattenSeq(a \o c) = FlattenSeq(a) \o FlattenSeq(c)
    BY <2>c, <2>2
  <2>6. a \o Append(c, b[i]) = Append(a \o c, b[i]) /\ a \o c \in Seq(Seq(S))
    BY <2>3
  <2>7. /\ FlattenSeq(Append(c, b[i])) = FlattenSeq(c) \o b[i]
        /\ FlattenSeq(Append(a \o c, b[i])) = FlattenSeq(a \o c) \o b[i]
        /\ FlattenSeq(c) \in Seq(S)
    BY <2>3, <2>6, FlattenAppend
  <2>8. (FlattenSeq(a) \o FlattenSeq(c)) \o b[i] = FlattenSeq(a) \o (FlattenSeq(c) \o b[i])
    <3>1. PICK x \in Seq(S) : x = FlattenSeq(a)
      BY <1>a
    <3>2. PICK y \in Seq(S) : y = FlattenSeq(c)
      BY <2>7
    <3>3. PICK z \in Seq(S) : z = b[i]
      BY <2>3
    <3>4. (x \o y) \o z = x \o (y \o z)
      BY ConcatAssociative
    <3> QED BY <3>1, <3>2, <3>3, <3>4
  <2>9. Holds(i)
    BY <2>4, <2>5, <2>6, <2>7, <2>8
  <2> QED BY <1>2, <2>9
<1> QED BY <1>3, <1>4

LEMMA FlattenType ==
  ASSUME NEW S, NEW seqs \in Seq(Seq(S))
  PROVE  FlattenSeq(seqs) \in Seq(S)
<1>1. <<>> \in Seq(S)
  OBVIOUS
<1> QED BY <1>1, FlattenAppend

LEMMA FlattenOne ==
  ASSUME NEW S, NEW s \in Seq(S)
  PROVE  FlattenSeq(<<s>>) = s
<1>1. <<>> \in Seq(Seq(S)) /\ Append(<<>>, s) = <<s>> /\ <<>> \o s = s
  OBVIOUS
<1>2. FlattenSeq(Append(<<>>, s)) = FlattenSeq(<<>>) \o s
  BY <1>1, FlattenAppend
<1> QED BY <1>1, <1>2, FlattenEmpty

\* A sequence cut into single elements and put together again.
LEMMA FlattenSingles ==
  ASSUME NEW S, NEW s \in Seq(S)
  PROVE  FlattenSeq([k \in 1 .. Len(s) |-> <<s[k]>>]) = s
<1> DEFINE singles(n) == [k \in 1 .. n |-> <<s[k]>>]
           T == {i \in 0 .. Len(s) : FlattenSeq(singles(i)) # SubSeq(s, 1, i)}
<1>0. Len(s) \in Nat /\ SubSeq(s, 1, Len(s)) = s
  OBVIOUS
<1> SUFFICES ASSUME T # {} PROVE FALSE
  <2>1. Len(s) \notin T
    OBVIOUS
  <2>2. FlattenSeq(singles(Len(s))) = SubSeq(s, 1, Len(s))
    BY <1>0, <2>1
  <2> QED BY <1>0, <2>2
<1>1. PICK i \in T : \A y \in T : i <= y
  <2>1. T \subseteq Nat
    OBVIOUS
  <2> HIDE DEF T
  <2> QED BY <2>1, LeastNumber
<1>2. i \in 0 .. Len(s) /\ FlattenSeq(singles(i)) # SubSeq(s, 1, i)
  OBVIOUS
<1>3. CASE i = 0
  <2>1. SubSeq(s, 1, i) = <<>> /\ singles(i) = <<>>
    BY <1>3
  <2> QED BY <1>2, <2>1, FlattenEmpty
<1>4. CASE i # 0
  <2>1. i - 1 \in 0 .. Len(s) /\ i \in 1 .. Len(s) /\ ~ (i <= i - 1) /\ i \in Nat /\ i - 1 \in Nat
    BY <1>0, <1>2, <1>4
  <2>2. FlattenSeq(singles(i - 1)) = SubSeq(s, 1, i - 1)
    <3>1. i - 1 \notin T
      <4> HIDE DEF T
      <4> QED BY <1>1, <2>1, Zenon
    <3> QED BY <2>1, <3>1
  <2> HIDE DEF T
  <2>3. singles(i - 1) \in Seq(Seq(S)) /\ <<s[i]>> \in Seq(S) /\ Len(singles(i - 1)) = i - 1
    BY <2>1
  <2>4. singles(i) = Append(singles(i - 1), <<s[i]>>)
    BY <2>1, <2>3
  <2> HIDE DEF singles
  <2>5. FlattenSeq(singles(i)) = SubSeq(s, 1, i - 1) \o <<s[i]>>
    BY <2>2, <2>3, <2>4, FlattenAppend
  <2>6. SubSeq(s, 1, i) = SubSeq(s, 1, i - 1) \o <<s[i]>>
    BY <2>1
  <2> QED BY <1>2, <2>5, <2>6
<1> QED BY <1>3, <1>4

-----------------------------------------------------------------------------
USE SendQueueAssumption

WrittenByte == [msg : 1 .. MaxMsgs, at : 0 .. OffsetModulus - 1]

-----------------------------------------------------------------------------
(***************************************************************************)
(* Offsets                                                                 *)
(***************************************************************************)

\* A message has a byte at least, and its offset can tell -1 from a place in it.
LEMMA LengthType ==
  ASSUME NEW len \in Lengths
  PROVE  /\ len \in Nat \ {0} /\ len + 1 < OffsetModulus
         /\ OffsetModulus \in Nat \ {0}
<1>1. len \in Nat \ {0} /\ len + 1 < OffsetModulus /\ OffsetModulus \in Nat
  OBVIOUS
<1> QED BY <1>1

\* Counting modulo M, for what is less than twice M.
LEMMA ModBelow ==
  ASSUME NEW M \in Nat \ {0}, NEW x \in 0 .. M - 1
  PROVE  x % M = x
OBVIOUS

LEMMA ModAbove ==
  ASSUME NEW M \in Nat \ {0}, NEW x \in M .. 2 * M - 1
  PROVE  x % M = x - M
<1>1. (x - M) % M = x - M
  BY ModBelow
<1>2. x % M = (x - M) % M
  OBVIOUS
<1> QED BY <1>1, <1>2

\* An offset that a message of the queue may have: in the message, or the -1 of a
\* send that took nothing.
GoodOffset(info) == info.offset \in 0 .. info.length - 1 \cup {MinusOne}

\* The arithmetic of a send that takes n bytes of what is left.
LEMMA ShortSend ==
  ASSUME NEW M \in Nat \ {0}, NEW len \in Nat \ {0}, len + 1 < M,
         NEW off \in 0 .. M - 1, off \in 0 .. len - 1 \/ off = M - 1,
         NEW n \in 1 .. ((len + M - off) % M) - 1
  PROVE  (off + n) % M \in 0 .. len - 1
<1> DEFINE rest == (len + M - off) % M
<1>1. CASE off \in 0 .. len - 1
  <2>1. len + M - off \in M .. 2 * M - 1
    BY <1>1
  <2>2. rest = (len + M - off) - M
    BY <2>1, ModAbove
  <2> HIDE DEF rest
  <2>3. n \in 1 .. rest - 1
    BY DEF rest
  <2>4. off + n \in 0 .. M - 1 /\ off + n \in 0 .. len - 1
    BY <1>1, <2>2, <2>3
  <2>5. (off + n) % M = off + n
    BY <2>4, ModBelow
  <2> QED BY <2>4, <2>5
<1>2. CASE off = M - 1
  <2>1. len + M - off \in 0 .. M - 1
    BY <1>2
  <2>2. rest = len + M - off
    BY <2>1, ModBelow
  <2> HIDE DEF rest
  <2>3. n \in 1 .. rest - 1
    BY DEF rest
  <2>4. off + n \in M .. 2 * M - 1 /\ off + n - M \in 0 .. len - 1
    <3>1. rest = len + 1
      BY <1>2, <2>2
    <3>2. n \in Nat /\ n >= 1 /\ n <= len
      BY <2>3, <3>1
    <3>3. off + n = M + (n - 1)
      BY <1>2, <3>2
    <3>4. n - 1 \in 0 .. len - 1 /\ n - 1 < M
      BY <3>2
    <3> QED BY <3>3, <3>4
  <2>5. (off + n) % M = off + n - M
    <3>1. PICK x \in M .. 2 * M - 1 : x = off + n
      BY ONLY <2>4
    <3>2. x % M = x - M
      BY ONLY M \in Nat \ {0}, x \in M .. 2 * M - 1, ModAbove
    <3> QED BY ONLY <3>1, <3>2
  <2> QED BY <2>4, <2>5
<1> QED BY <1>1, <1>2

\* A send that takes some of what is left of a message, and not all, leaves the
\* offset inside the message.
LEMMA OffsetAfterShortSend ==
  ASSUME NEW info \in Unsent, GoodOffset(info), NEW n \in 1 .. Rest(info) - 1
  PROVE  OffsetAfter(info, n) \in 0 .. info.length - 1
<1>1. info.length \in Lengths /\ info.offset \in 0 .. OffsetModulus - 1
  BY DEF Unsent
<1>2. /\ info.length \in Nat \ {0} /\ info.length + 1 < OffsetModulus
      /\ OffsetModulus \in Nat \ {0}
  BY <1>1, LengthType
<1>3. info.offset \in 0 .. info.length - 1 \/ info.offset = OffsetModulus - 1
  BY DEF GoodOffset, MinusOne
<1>4. n \in 1 .. ((info.length + OffsetModulus - info.offset) % OffsetModulus) - 1
  BY DEF Rest
<1>5. (info.offset + n) % OffsetModulus \in 0 .. info.length - 1
  BY <1>1, <1>2, <1>3, <1>4, ShortSend
<1> QED BY <1>5 DEF OffsetAfter

\* The bytes of a send have their type, whatever the offset.
LEMMA BytesFromType ==
  ASSUME NEW m \in 1 .. MaxMsgs, NEW offset \in 0 .. OffsetModulus - 1, NEW n \in Nat
  PROVE  BytesFrom(m, offset, n) \in Seq(WrittenByte)
<1>1. \A k \in 1 .. n : (offset + k - 1) % OffsetModulus \in 0 .. OffsetModulus - 1
  BY SMT
<1>2. BytesFrom(m, offset, n) \in [1 .. n -> WrittenByte]
  BY <1>1 DEF BytesFrom, WrittenByte
<1> QED BY <1>2, SeqDef

-----------------------------------------------------------------------------
(***************************************************************************)
(* The queue                                                               *)
(***************************************************************************)

\* The parts of the invariant that speak of the queue.
QueueOK ==
  /\ unsent_data \in Seq(Unsent) /\ unsent_data_count \in Nat
  /\ CountExact /\ OnlyHeadPartial

LEMMA InvQueue ==
  ASSUME IInv
  PROVE  QueueOK
BY DEF IInv, TypeOK, QueueOK

\* An empty queue is in order.
LEMMA EmptyQueue ==
  ASSUME unsent_data = <<>>, unsent_data_count = 0
  PROVE  QueueOK
<1>1. <<>> \in Seq(Unsent) /\ Len(<<>>) = 0
  BY EmptySeq
<1> QED BY <1>1 DEF QueueOK, CountExact, OnlyHeadPartial

\* queue_unsent_data of a new message keeps the queue in order, when it is not full
\* and a message behind another one is wholly unsent.
LEMMA QueueStep ==
  ASSUME QueueOK, NEW m \in 1 .. MaxMsgs, NEW len \in Lengths, NEW offset,
         Queue(m, len, offset),
         offset \in 0 .. len - 1 \cup {MinusOne},
         unsent_data # <<>> => offset = 0 /\ ~ Full
  PROVE  QueueOK' /\ unsent_data' # <<>>
<1> DEFINE info == [msg |-> m, length |-> len, offset |-> offset]
<1>1. /\ unsent_data \in Seq(Unsent) /\ unsent_data_count = Len(unsent_data)
      /\ Len(unsent_data) \in Nat /\ Len(unsent_data) <= MAX_UNSENT_MSGS
  <2>1. unsent_data \in Seq(Unsent)
    BY DEF QueueOK
  <2>2. Len(unsent_data) \in Nat
    BY <2>1, LenProperties
  <2> QED BY <2>1, <2>2 DEF QueueOK, CountExact
<1>2. info \in Unsent
  <2>1. offset \in 0 .. OffsetModulus - 1
    BY LengthType DEF MinusOne
  <2> QED BY <2>1 DEF Unsent
<1> HIDE DEF info
<1>3. unsent_data' = Append(unsent_data, info) /\ unsent_data_count' = unsent_data_count + 1
  BY DEF Queue, info
<1>4. /\ unsent_data' \in Seq(Unsent) /\ unsent_data' # <<>>
      /\ Len(unsent_data') = Len(unsent_data) + 1
      /\ \A k \in 1 .. Len(unsent_data) : unsent_data'[k] = unsent_data[k]
      /\ unsent_data'[Len(unsent_data) + 1] = info
  BY <1>1, <1>2, <1>3, AppendProperties
<1>5. Len(unsent_data) < MAX_UNSENT_MSGS
  <2>1. CASE unsent_data = <<>>
    <3>1. Len(unsent_data) = 0
      BY <2>1, EmptySeq
    <3> QED BY <3>1
  <2>2. CASE unsent_data # <<>>
    BY <2>2, <1>1 DEF Full
  <2> QED BY <2>1, <2>2
<1>6. CountExact' /\ unsent_data_count' \in Nat
  BY <1>1, <1>3, <1>4, <1>5 DEF CountExact
<1>7. OnlyHeadPartial'
  <2> SUFFICES ASSUME NEW k \in 1 .. Len(unsent_data')
               PROVE  /\ k > 1 => unsent_data'[k].offset = 0
                      /\ unsent_data'[k].offset \in
                           0 .. unsent_data'[k].length - 1 \cup {MinusOne}
    BY DEF OnlyHeadPartial
  <2>1. CASE k \in 1 .. Len(unsent_data)
    BY <2>1, <1>4 DEF QueueOK, OnlyHeadPartial
  <2>2. CASE k = Len(unsent_data) + 1
    <3>1. unsent_data'[k].offset = offset /\ unsent_data'[k].length = len
      BY <2>2, <1>4 DEF info
    <3>2. k > 1 => offset = 0
      <4>1. ASSUME k > 1 PROVE unsent_data # <<>>
        <5>1. Len(unsent_data) # 0
          BY <4>1, <2>2, <1>1
        <5> QED BY <5>1, EmptySeq
      <4> QED BY <4>1
    <3> QED BY <3>1, <3>2
  <2> QED BY <1>1, <1>4, <2>1, <2>2
<1> QED BY <1>4, <1>6, <1>7 DEF QueueOK

\* Taking the first message off the queue.
LEMMA PopStep ==
  ASSUME QueueOK, unsent_data # <<>>,
         unsent_data' = Tail(unsent_data), unsent_data_count' = unsent_data_count - 1
  PROVE  QueueOK'
<1>1. /\ unsent_data \in Seq(Unsent) /\ unsent_data_count = Len(unsent_data)
      /\ Len(unsent_data) \in Nat \ {0} /\ Len(unsent_data) <= MAX_UNSENT_MSGS
  <2>1. unsent_data \in Seq(Unsent)
    BY DEF QueueOK
  <2>2. Len(unsent_data) \in Nat \ {0}
    BY <2>1, EmptySeq
  <2> QED BY <2>1, <2>2 DEF QueueOK, CountExact
<1>2. /\ unsent_data' \in Seq(Unsent) /\ Len(unsent_data') = Len(unsent_data) - 1
      /\ \A k \in 1 .. Len(unsent_data') : unsent_data'[k] = unsent_data[k + 1]
  BY <1>1, HeadTailProperties
<1>3. CountExact' /\ unsent_data_count' \in Nat
  BY <1>1, <1>2 DEF CountExact
<1>4. OnlyHeadPartial'
  <2> SUFFICES ASSUME NEW k \in 1 .. Len(unsent_data')
               PROVE  /\ k > 1 => unsent_data'[k].offset = 0
                      /\ unsent_data'[k].offset \in
                           0 .. unsent_data'[k].length - 1 \cup {MinusOne}
    BY DEF OnlyHeadPartial
  <2>1. k + 1 \in 1 .. Len(unsent_data) /\ k + 1 > 1
    BY <1>1, <1>2
  <2>2. unsent_data[k + 1].offset = 0
    BY <2>1 DEF QueueOK, OnlyHeadPartial
  <2>3. unsent_data[k + 1].offset \in 0 .. unsent_data[k + 1].length - 1 \cup {MinusOne}
    BY <2>1 DEF QueueOK, OnlyHeadPartial
  <2> QED BY <1>2, <2>2, <2>3
<1> QED BY <1>2, <1>3, <1>4 DEF QueueOK

\* The head of a queue that is in order.
LEMMA HeadType ==
  ASSUME QueueOK, unsent_data # <<>>
  PROVE  /\ Head(unsent_data) \in Unsent /\ GoodOffset(Head(unsent_data))
         /\ Head(unsent_data) = unsent_data[1] /\ 1 \in 1 .. Len(unsent_data)
<1>1. unsent_data \in Seq(Unsent)
  BY DEF QueueOK
<1>2. Len(unsent_data) \in Nat \ {0}
  BY <1>1, EmptySeq
<1>3. Head(unsent_data) \in Unsent
  BY <1>1, HeadTailProperties
<1>4. Head(unsent_data) = unsent_data[1] /\ 1 \in 1 .. Len(unsent_data)
  BY <1>1, <1>2
<1> QED BY <1>3, <1>4 DEF QueueOK, OnlyHeadPartial, GoodOffset

\* Moving on in the first message by less than what is left of it.
LEMMA PartStep ==
  ASSUME QueueOK, unsent_data # <<>>, NEW n \in 1 .. Rest(Head(unsent_data)) - 1,
         unsent_data' =
           [unsent_data EXCEPT ![1].offset = OffsetAfter(Head(unsent_data), n)],
         unsent_data_count' = unsent_data_count
  PROVE  QueueOK' /\ unsent_data' # <<>>
<1> DEFINE head == Head(unsent_data)
           offset == OffsetAfter(head, n)
           moved == [head EXCEPT !.offset = offset]
<1>1. /\ head \in Unsent /\ GoodOffset(head)
      /\ head = unsent_data[1] /\ 1 \in 1 .. Len(unsent_data)
  BY HeadType
<1>2. offset \in 0 .. head.length - 1
  BY <1>1, OffsetAfterShortSend
<1>3. unsent_data' = [unsent_data EXCEPT ![1] = moved]
  BY <1>1
<1> HIDE DEF offset
<1>4. moved \in Unsent /\ moved.length = head.length /\ moved.offset = offset
  <2>1. head.length \in Lengths
    BY <1>1 DEF Unsent
  <2>2. head.length + 1 < OffsetModulus /\ head.length \in Nat \ {0} /\ OffsetModulus \in Nat
    BY <2>1, LengthType
  <2>3. offset \in 0 .. OffsetModulus - 1
    BY <1>2, <2>2
  <2> QED BY <1>1, <2>3 DEF Unsent
<1> HIDE DEF moved, head
<1>5. unsent_data \in Seq(Unsent)
  BY DEF QueueOK
<1>6. /\ unsent_data' \in Seq(Unsent) /\ Len(unsent_data') = Len(unsent_data)
      /\ \A j \in 1 .. Len(unsent_data) :
           unsent_data'[j] = IF j = 1 THEN moved ELSE unsent_data[j]
  BY <1>1, <1>3, <1>4, <1>5, ExceptSeq
<1>7. CountExact' /\ unsent_data_count' \in Nat
  BY <1>6 DEF QueueOK, CountExact
<1>8. OnlyHeadPartial'
  <2> SUFFICES ASSUME NEW k \in 1 .. Len(unsent_data')
               PROVE  /\ k > 1 => unsent_data'[k].offset = 0
                      /\ unsent_data'[k].offset \in
                           0 .. unsent_data'[k].length - 1 \cup {MinusOne}
    BY DEF OnlyHeadPartial
  <2>1. CASE k = 1
    <3>1. unsent_data'[k] = moved
      BY <2>1, <1>1, <1>6
    <3>2. moved.offset \in 0 .. moved.length - 1
      BY <1>2, <1>4
    <3>3. ~ (k > 1)
      BY <2>1
    <3>4. unsent_data'[k].offset \in 0 .. unsent_data'[k].length - 1
      BY <3>1, <3>2
    <3> QED BY <3>3, <3>4
  <2>2. CASE k # 1
    BY <2>2, <1>6 DEF QueueOK, OnlyHeadPartial
  <2> QED BY <2>1, <2>2
<1>9. unsent_data' # <<>>
  <2>1. Len(unsent_data') # 0
    BY <1>1, <1>6
  <2> QED BY <2>1, EmptySeq
<1> QED BY <1>6, <1>7, <1>8, <1>9 DEF QueueOK

-----------------------------------------------------------------------------
(***************************************************************************)
(* The steps                                                               *)
(***************************************************************************)

\* What TypeOK says of the variables other than the queue.
OthersOK ==
  /\ connected \in BOOLEAN
  /\ pc \in {"idle", "resend"}
  /\ accepted \in Seq(Lengths)
  /\ written \in Seq(WrittenByte)
  /\ closed_for \in {"nothing", "full", "short", "error", "peer"}

LEMMA InvOthers ==
  ASSUME IInv
  PROVE  OthersOK /\ ResendHasHead
BY DEF IInv, TypeOK, OthersOK, WrittenByte

LEMMA InvFromParts ==
  ASSUME QueueOK', OthersOK', ResendHasHead'
  PROVE  IInv'
BY DEF QueueOK, OthersOK, IInv, TypeOK, WrittenByte

\* Whatever a connection is given up for, nothing of it is left.
LEMMA CloseStep ==
  ASSUME NEW why \in {"full", "short", "error", "peer"}, Close(why)
  PROVE  IInv'
<1>1. /\ unsent_data' = <<>> /\ unsent_data_count' = 0
      /\ connected' = FALSE /\ pc' = "idle"
      /\ accepted' = <<>> /\ written' = <<>> /\ closed_for' = why
  BY DEF Close
<1>2. <<>> \in Seq(Unsent) /\ Len(<<>>) = 0
  BY EmptySeq
<1>3. QueueOK'
  BY <1>1, <1>2 DEF QueueOK, CountExact, OnlyHeadPartial
<1>4. <<>> \in Seq(Lengths) /\ <<>> \in Seq(WrittenByte)
  BY EmptySeq
<1>5. OthersOK'
  BY <1>1, <1>4 DEF OthersOK
<1> QED BY <1>1, <1>3, <1>5, InvFromParts DEF ResendHasHead

\* A message is accepted and gets the next number.
LEMMA AcceptedType ==
  ASSUME OthersOK, Sendable, NEW len \in Lengths, accepted' = Append(accepted, len)
  PROVE  accepted' \in Seq(Lengths) /\ Len(accepted') \in 1 .. MaxMsgs
<1>1. accepted \in Seq(Lengths) /\ Len(accepted) < MaxMsgs
  BY DEF OthersOK, Sendable
<1>2. Len(accepted) \in Nat
  BY <1>1, LenProperties
<1>3. accepted' \in Seq(Lengths) /\ Len(accepted') = Len(accepted) + 1
  BY <1>1, AppendProperties
<1> QED BY <1>1, <1>2, <1>3

LEMMA WrittenType ==
  ASSUME OthersOK, NEW m \in 1 .. MaxMsgs, NEW offset \in 0 .. OffsetModulus - 1,
         NEW n \in Nat, written' = written \o BytesFrom(m, offset, n)
  PROVE  written' \in Seq(WrittenByte)
<1>1. BytesFrom(m, offset, n) \in Seq(WrittenByte)
  BY BytesFromType
<1>2. written \in Seq(WrittenByte)
  BY DEF OthersOK
<1> QED BY <1>1, <1>2, ConcatProperties

LEMMA SendBehindStep ==
  ASSUME IInv, NEW len \in Lengths, SendBehind(len)
  PROVE  IInv'
<1>1. QueueOK /\ OthersOK
  BY InvQueue, InvOthers
<1>2. CASE Full
  <2>1. Close("full")
    BY <1>2 DEF SendBehind
  <2> QED BY <2>1, CloseStep
<1>3. CASE ~ Full
  <2>1. /\ Sendable /\ accepted' = Append(accepted, len)
        /\ Queue(Len(accepted'), len, 0)
        /\ UNCHANGED <<connected, pc, written, closed_for>>
    BY <1>3 DEF SendBehind
  <2>2. accepted' \in Seq(Lengths) /\ Len(accepted') \in 1 .. MaxMsgs
    BY <1>1, <2>1, AcceptedType
  <2>3. 0 \in 0 .. len - 1
    BY LengthType
  <2>4. QueueOK' /\ unsent_data' # <<>>
    BY <1>1, <1>3, <2>1, <2>2, <2>3, QueueStep
  <2>5. OthersOK'
    BY <1>1, <2>1, <2>2 DEF OthersOK
  <2> QED BY <2>4, <2>5, InvFromParts DEF ResendHasHead
<1> QED BY <1>2, <1>3

LEMMA SendDirectStep ==
  ASSUME IInv, NEW len \in Lengths, NEW n \in 1 .. len, SendDirect(len, n)
  PROVE  IInv'
<1>1. QueueOK /\ OthersOK
  BY InvQueue, InvOthers
<1>2. CASE n < len /\ Close("short")
  BY <1>2, CloseStep
<1>3. CASE /\ accepted' = Append(accepted, len)
           /\ written' = written \o BytesFrom(Len(accepted'), 0, n)
           /\ IF n = len THEN UNCHANGED queueVars ELSE Queue(Len(accepted'), len, n)
           /\ UNCHANGED <<connected, pc, closed_for>>
  <2>1. Sendable /\ unsent_data = <<>> /\ pc = "idle"
    BY DEF SendDirect, MaySendAtOnce, Sendable
  <2>2. accepted' \in Seq(Lengths) /\ Len(accepted') \in 1 .. MaxMsgs
    BY <1>1, <1>3, <2>1, AcceptedType
  <2>3. len \in Nat \ {0} /\ OffsetModulus \in Nat \ {0}
    BY LengthType
  <2>4. written' \in Seq(WrittenByte)
    <3>1. 0 \in 0 .. OffsetModulus - 1 /\ n \in Nat
      BY <2>3
    <3> QED BY <1>1, <1>3, <2>2, <3>1, WrittenType
  <2>5. OthersOK'
    BY <1>1, <1>3, <2>2, <2>4 DEF OthersOK
  <2>6. CASE n = len
    <3>1. unsent_data' = unsent_data /\ unsent_data_count' = unsent_data_count
      BY <1>3, <2>6 DEF queueVars
    <3>2. QueueOK'
      BY <1>1, <3>1 DEF QueueOK, CountExact, OnlyHeadPartial
    <3> QED BY <1>3, <2>1, <2>5, <3>2, InvFromParts DEF ResendHasHead
  <2>7. CASE n # len
    <3>1. Queue(Len(accepted'), len, n)
      BY <1>3, <2>7
    <3>2. n \in 0 .. len - 1
      BY <2>3, <2>7
    <3>3. QueueOK' /\ unsent_data' # <<>>
      BY <1>1, <2>1, <2>2, <3>1, <3>2, QueueStep
    <3> QED BY <2>5, <3>3, InvFromParts DEF ResendHasHead
  <2> QED BY <2>6, <2>7
<1> QED BY <1>2, <1>3 DEF SendDirect

LEMMA SendBlockedStep ==
  ASSUME IInv, NEW len \in Lengths, SendBlocked(len)
  PROVE  IInv'
<1>1. QueueOK /\ OthersOK
  BY InvQueue, InvOthers
<1>2. /\ Sendable /\ unsent_data = <<>>
      /\ accepted' = Append(accepted, len)
      /\ Queue(Len(accepted'), len, MinusOne)
      /\ UNCHANGED <<connected, pc, written, closed_for>>
  BY DEF SendBlocked, MaySendAtOnce
<1>3. accepted' \in Seq(Lengths) /\ Len(accepted') \in 1 .. MaxMsgs
  BY <1>1, <1>2, AcceptedType
<1>4. QueueOK' /\ unsent_data' # <<>>
  BY <1>1, <1>2, <1>3, QueueStep
<1>5. OthersOK'
  BY <1>1, <1>2, <1>3 DEF OthersOK
<1> QED BY <1>4, <1>5, InvFromParts DEF ResendHasHead

\* What is left of the head, and the bytes that a send takes of it.
LEMMA HeadBytes ==
  ASSUME QueueOK, unsent_data # <<>>
  PROVE  /\ Head(unsent_data).msg \in 1 .. MaxMsgs
         /\ Head(unsent_data).offset \in 0 .. OffsetModulus - 1
         /\ Rest(Head(unsent_data)) \in Nat
<1>1. Head(unsent_data) \in Unsent
  BY HeadType
<1>2. /\ Head(unsent_data).length \in Lengths
      /\ Head(unsent_data).msg \in 1 .. MaxMsgs
      /\ Head(unsent_data).offset \in 0 .. OffsetModulus - 1
  BY <1>1 DEF Unsent
<1>3. \A len \in Nat, M \in Nat \ {0} : \A off \in 0 .. M - 1 : (len + M - off) % M \in Nat
  OBVIOUS
<1> QED BY <1>2, <1>3, LengthType DEF Rest

LEMMA ResendAllStep ==
  ASSUME IInv, ResendAll
  PROVE  IInv'
<1>1. QueueOK /\ OthersOK /\ ResendHasHead
  BY InvQueue, InvOthers
<1> DEFINE info == Head(unsent_data)
<1>2. /\ pc = "resend"
      /\ written' = written \o BytesFrom(info.msg, info.offset, Rest(info))
      /\ unsent_data' = Tail(unsent_data)
      /\ unsent_data_count' = unsent_data_count - 1
      /\ pc' = IF unsent_data' = <<>> THEN "idle" ELSE "resend"
      /\ UNCHANGED <<connected, accepted, closed_for>>
  BY DEF ResendAll
<1>3. unsent_data # <<>>
  BY <1>1, <1>2 DEF ResendHasHead
<1>4. QueueOK'
  BY <1>1, <1>2, <1>3, PopStep
<1>5. written' \in Seq(WrittenByte)
  <2>1. info.msg \in 1 .. MaxMsgs /\ info.offset \in 0 .. OffsetModulus - 1 /\ Rest(info) \in Nat
    BY <1>1, <1>3, HeadBytes
  <2> HIDE DEF info
  <2> QED BY <1>1, <1>2, <2>1, WrittenType
<1>6. OthersOK'
  BY <1>1, <1>2, <1>5 DEF OthersOK
<1> QED BY <1>2, <1>4, <1>6, InvFromParts DEF ResendHasHead

LEMMA ResendPartStep ==
  ASSUME IInv, NEW n \in Nat, ResendPart(n)
  PROVE  IInv'
<1>1. QueueOK /\ OthersOK /\ ResendHasHead
  BY InvQueue, InvOthers
<1> DEFINE info == Head(unsent_data)
<1>2. /\ pc = "resend" /\ n \in 1 .. Rest(info) - 1
      /\ written' = written \o BytesFrom(info.msg, info.offset, n)
      /\ unsent_data' = [unsent_data EXCEPT ![1].offset = OffsetAfter(info, n)]
      /\ pc' = "idle"
      /\ UNCHANGED <<connected, unsent_data_count, accepted, closed_for>>
  BY DEF ResendPart
<1>3. unsent_data # <<>>
  BY <1>1, <1>2 DEF ResendHasHead
<1>4. QueueOK'
  BY <1>1, <1>2, <1>3, PartStep
<1>5. written' \in Seq(WrittenByte)
  <2>1. info.msg \in 1 .. MaxMsgs /\ info.offset \in 0 .. OffsetModulus - 1
    BY <1>1, <1>3, HeadBytes
  <2> HIDE DEF info
  <2> QED BY <1>1, <1>2, <2>1, WrittenType
<1>6. OthersOK'
  BY <1>1, <1>2, <1>5 DEF OthersOK
<1> QED BY <1>2, <1>4, <1>6, InvFromParts DEF ResendHasHead

\* Steps that leave the queue and what was written alone.
LEMMA QuietStep ==
  ASSUME IInv, UNCHANGED <<unsent_data, unsent_data_count, accepted, written, closed_for>>,
         connected' \in BOOLEAN, pc' \in {"idle", "resend"},
         pc' = "resend" => unsent_data # <<>>
  PROVE  IInv'
<1>1. QueueOK /\ OthersOK
  BY InvQueue, InvOthers
<1>2. QueueOK'
  BY <1>1 DEF QueueOK, CountExact, OnlyHeadPartial
<1>3. OthersOK'
  BY <1>1 DEF OthersOK
<1> QED BY <1>2, <1>3, InvFromParts DEF ResendHasHead

-----------------------------------------------------------------------------
(***************************************************************************)
(* The theorems                                                            *)
(***************************************************************************)

LEMMA InitInv == Init => IInv
<1> SUFFICES ASSUME Init PROVE IInv
  OBVIOUS
<1>1. QueueOK
  BY EmptyQueue DEF Init
<1>2. <<>> \in Seq(Lengths) /\ <<>> \in Seq(WrittenByte)
  BY EmptySeq
<1> QED BY <1>1, <1>2 DEF Init, QueueOK, IInv, TypeOK, ResendHasHead, WrittenByte

LEMMA NextInv == IInv /\ [Next]_vars => IInv'
<1> SUFFICES ASSUME IInv, [Next]_vars PROVE IInv'
  OBVIOUS
<1>0. OthersOK /\ ResendHasHead
  BY InvOthers
<1>1. CASE SendMsg
  <2>1. ASSUME NEW len \in Lengths, SendBehind(len) PROVE IInv'
    BY <2>1, SendBehindStep
  <2>2. ASSUME NEW len \in Lengths, SendBlocked(len) PROVE IInv'
    BY <2>2, SendBlockedStep
  <2>3. ASSUME NEW len \in Lengths, NEW n \in 1 .. len, SendDirect(len, n) PROVE IInv'
    BY <2>3, SendDirectStep
  <2>4. CASE SendFails
    BY <2>4, CloseStep DEF SendFails
  <2> QED BY <1>1, <2>1, <2>2, <2>3, <2>4 DEF SendMsg
<1>2. CASE BeginResend
  BY <1>0, <1>2, QuietStep DEF BeginResend, queueVars, OthersOK
<1>3. CASE ResendWrites
  <2>1. CASE ResendAll
    BY <2>1, ResendAllStep
  <2>2. ASSUME NEW len \in Lengths, NEW n \in 1 .. len, ResendPart(n) PROVE IInv'
    <3>1. n \in Nat
      BY LengthType
    <3> QED BY <2>2, <3>1, ResendPartStep
  <2> QED BY <1>3, <2>1, <2>2 DEF ResendWrites
<1>4. CASE ResendPartFails
  BY <1>4, CloseStep DEF ResendPartFails
<1>5. CASE ResendBlocked
  BY <1>0, <1>5, QuietStep DEF ResendBlocked, queueVars, OthersOK
<1>6. CASE ResendFails
  BY <1>6, CloseStep DEF ResendFails
<1>7. CASE Drop
  BY <1>7, CloseStep DEF Drop
<1>8. CASE Connect
  BY <1>0, <1>8, QuietStep DEF Connect, queueVars, OthersOK, ResendHasHead
<1>9. CASE UNCHANGED vars
  BY <1>0, <1>9, QuietStep DEF vars, queueVars, OthersOK, ResendHasHead
<1> QED
  BY <1>1, <1>2, <1>3, <1>4, <1>5, <1>6, <1>7, <1>8, <1>9 DEF Next

\* Sends, resends, closes and reconnects keep the invariant of the queue.
THEOREM SendQueueInvariant == Spec => []IInv
BY InitInv, NextInv, PTL DEF Spec

\* unsent_data_count, which queue_unsent_data goes by, is the length of the queue,
\* which stays within its limit.
THEOREM UnsentCounted == Spec => []CountExact
<1>1. IInv => CountExact
  BY DEF IInv
<1> QED BY <1>1, SendQueueInvariant, PTL

\* Only the first message of the queue is partly sent, none is wholly sent, and an
\* offset is a place in its message, or the -1 of a send that took nothing.
THEOREM OnlyHeadIsCut == Spec => []OnlyHeadPartial
<1>1. IInv => OnlyHeadPartial
  BY DEF IInv
<1> QED BY <1>1, SendQueueInvariant, PTL

\* Every variable keeps its type; the unsigned offset stays in its range.
THEOREM SendQueueTypeCorrect == Spec => []TypeOK
<1>1. IInv => TypeOK
  BY DEF IInv
<1> QED BY <1>1, SendQueueInvariant, PTL

-----------------------------------------------------------------------------
(***************************************************************************)
(* The bytes of messages                                                   *)
(***************************************************************************)

MessageByte == [msg : Nat, at : Nat]

LEMMA SameFlatten ==
  ASSUME NEW seqs
  PROVE  Stream!FlattenSeq(seqs) = FlattenSeq(seqs)
BY DEF Stream!FlattenSeq, FlattenSeq

LEMMA MessageBytesType ==
  ASSUME NEW msgs \in Seq(Lengths), NEW m \in 1 .. Len(msgs)
  PROVE  /\ msgs[m] \in Lengths /\ msgs[m] \in Nat \ {0}
         /\ Stream!MessageBytes(msgs, m) \in Seq(MessageByte)
         /\ Len(Stream!MessageBytes(msgs, m)) = msgs[m]
         /\ \A k \in 1 .. msgs[m] :
              Stream!MessageBytes(msgs, m)[k] = [msg |-> m, at |-> k - 1]
<1>1. msgs[m] \in Lengths /\ msgs[m] \in Nat \ {0} /\ m \in Nat
  <2>1. msgs[m] \in Lengths /\ m \in Nat
    OBVIOUS
  <2> QED BY <2>1, LengthType
<1>2. PICK len \in Nat \ {0} : len = msgs[m]
  BY <1>1
<1>3. Stream!MessageBytes(msgs, m) = [k \in 1 .. len |-> [msg |-> m, at |-> k - 1]]
  BY <1>2 DEF Stream!MessageBytes, Stream!Byte
<1>4. \A k \in 1 .. len : [msg |-> m, at |-> k - 1] \in MessageByte
  BY <1>1 DEF MessageByte
<1> QED BY <1>1, <1>2, <1>3, <1>4

\* A message more: its bytes come behind the others.
LEMMA BytesAppend ==
  ASSUME NEW msgs \in Seq(Lengths), NEW len \in Lengths
  PROVE  /\ Stream!Bytes(msgs) \in Seq(MessageByte)
         /\ Stream!Bytes(Append(msgs, len)) =
              Stream!Bytes(msgs) \o Stream!MessageBytes(Append(msgs, len), Len(msgs) + 1)
<1>1. PICK more : more = Append(msgs, len)
  OBVIOUS
<1>2. PICK n \in Nat : n = Len(msgs)
  OBVIOUS
<1>3. /\ more \in Seq(Lengths) /\ Len(more) = n + 1
      /\ \A k \in 1 .. n : more[k] = msgs[k]
  BY <1>1, <1>2, AppendProperties
<1>4. PICK parts : parts = [m \in 1 .. n |-> Stream!MessageBytes(msgs, m)]
  OBVIOUS
<1>5. parts \in Seq(Seq(MessageByte)) /\ Len(parts) = n
  <2>1. \A m \in 1 .. n : Stream!MessageBytes(msgs, m) \in Seq(MessageByte)
    BY <1>2, MessageBytesType
  <2> QED BY <1>4, <2>1
<1>6. PICK last : last = Stream!MessageBytes(more, n + 1)
  OBVIOUS
<1>7. last \in Seq(MessageByte)
  <2>1. n + 1 \in 1 .. Len(more)
    BY <1>3
  <2> QED BY <1>3, <1>6, <2>1, MessageBytesType
<1>8. [m \in 1 .. n + 1 |-> Stream!MessageBytes(more, m)] = Append(parts, last)
  <2>1. ASSUME NEW m \in 1 .. n
        PROVE  Stream!MessageBytes(more, m) = Stream!MessageBytes(msgs, m)
    BY <1>3 DEF Stream!MessageBytes
  <2>2. \A m \in 1 .. n + 1 : Stream!MessageBytes(more, m) = IF m \in 1 .. n THEN parts[m] ELSE last
    <3> TAKE m \in 1 .. n + 1
    <3>1. CASE m \in 1 .. n
      BY <1>4, <2>1, <3>1
    <3>2. CASE m = n + 1
      BY <1>6, <3>2
    <3> QED BY <3>1, <3>2
  <2>3. Append(parts, last) = [m \in 1 .. n + 1 |-> IF m \in 1 .. n THEN parts[m] ELSE last]
    <3>1. \A m \in 1 .. n + 1 : Append(parts, last)[m] = IF m \in 1 .. n THEN parts[m] ELSE last
      BY <1>5, <1>7, AppendProperties
    <3>2. Append(parts, last) \in Seq(Seq(MessageByte)) /\ Len(Append(parts, last)) = n + 1
      BY <1>5, <1>7, AppendProperties
    <3>3. PICK u : u = [m \in 1 .. n + 1 |-> IF m \in 1 .. n THEN parts[m] ELSE last]
      OBVIOUS
    <3>4. PICK t : t = Append(parts, last)
      OBVIOUS
    <3>5. DOMAIN u = 1 .. n + 1 /\ u = [m \in DOMAIN u |-> u[m]] /\ \A m \in 1 .. n + 1 : t[m] = u[m]
      BY <3>1, <3>3, <3>4
    <3>6. DOMAIN t = 1 .. n + 1 /\ t = [m \in DOMAIN t |-> t[m]]
      <4>1. t \in Seq(Seq(MessageByte)) /\ Len(t) = n + 1
        BY <3>2, <3>4
      <4>2. t \in [1 .. n + 1 -> Seq(MessageByte)]
        BY <4>1, LenProperties
      <4> QED BY ONLY <4>2
    <3> QED BY ONLY <3>3, <3>4, <3>5, <3>6
  <2> QED BY <2>2, <2>3
<1>9. Stream!Bytes(msgs) = FlattenSeq(parts) /\ Stream!Bytes(more) = FlattenSeq(Append(parts, last))
  BY <1>2, <1>3, <1>4, <1>8, SameFlatten DEF Stream!Bytes
<1>10. /\ FlattenSeq(parts) \in Seq(MessageByte)
       /\ FlattenSeq(Append(parts, last)) = FlattenSeq(parts) \o last
  BY <1>5, <1>7, FlattenAppend
<1>11. PICK a \in Seq(MessageByte) : a = FlattenSeq(parts)
  BY <1>10
<1>12. PICK k : k = n + 1
  OBVIOUS
<1>13. PICK mine : mine = Stream!MessageBytes(more, k)
  OBVIOUS
<1>14. Stream!Bytes(msgs) = a /\ Stream!Bytes(more) = a \o mine
  BY <1>6, <1>9, <1>10, <1>11, <1>12, <1>13
<1> QED BY <1>1, <1>2, <1>11, <1>12, <1>13, <1>14

LEMMA BytesInSeq ==
  ASSUME NEW msgs \in Seq(Lengths)
  PROVE  Stream!Bytes(msgs) \in Seq(MessageByte)
<1>1. [m \in 1 .. Len(msgs) |-> Stream!MessageBytes(msgs, m)] \in Seq(Seq(MessageByte))
  BY MessageBytesType
<1> QED BY <1>1, SameFlatten, FlattenType DEF Stream!Bytes

\* The bytes of the first messages are the first bytes.
LEMMA BytesSplit ==
  ASSUME NEW msgs \in Seq(Lengths), NEW p \in 0 .. Len(msgs)
  PROVE  /\ SubSeq(msgs, 1, p) \in Seq(Lengths)
         /\ \E rest \in Seq(MessageByte) :
              Stream!Bytes(msgs) = Stream!Bytes(SubSeq(msgs, 1, p)) \o rest
<1>1. PICK n \in Nat : n = Len(msgs)
  OBVIOUS
<1>2. PICK parts : parts = [m \in 1 .. n |-> Stream!MessageBytes(msgs, m)]
  OBVIOUS
<1>3. parts \in Seq(Seq(MessageByte)) /\ Len(parts) = n
  <2>1. \A m \in 1 .. n : Stream!MessageBytes(msgs, m) \in Seq(MessageByte)
    BY <1>1, MessageBytesType
  <2> QED BY <1>2, <2>1
<1>4. PICK some : some = SubSeq(msgs, 1, p)
  OBVIOUS
<1>5. some \in Seq(Lengths) /\ Len(some) = p /\ \A m \in 1 .. p : some[m] = msgs[m]
  BY <1>1, <1>4
<1>6. /\ SubSeq(parts, 1, p) \in Seq(Seq(MessageByte))
      /\ SubSeq(parts, p + 1, n) \in Seq(Seq(MessageByte))
      /\ parts = SubSeq(parts, 1, p) \o SubSeq(parts, p + 1, n)
  <2>1. p \in 0 .. n /\ p + 1 - 1 = p
    BY <1>1
  <2>2. PICK S : S = Seq(MessageByte)
    OBVIOUS
  <2>3. parts \in Seq(S)
    BY <1>3, <2>2
  <2>4. /\ \A j \in 1 .. p : j \in 1 .. Len(parts)
        /\ \A j \in p + 1 .. n : j \in 1 .. Len(parts)
    BY <1>3, <2>1
  <2>5. SubSeq(parts, 1, p) \in Seq(S) /\ SubSeq(parts, p + 1, n) \in Seq(S)
    BY ONLY <1>3, <2>1, <2>3, <2>4, n \in Nat
  <2>6. SubSeq(parts, 1, p) \o SubSeq(parts, p + 1, n) = SubSeq(parts, 1, n)
    <3>1. p \in 1 - 1 .. Len(parts) /\ 1 \in 1 .. Len(parts) + 1 /\ n \in p .. Len(parts)
      BY ONLY <1>3, <2>1, n \in Nat
    <3> QED BY ONLY <2>3, <3>1, ConcatAdjacentSubSeq
  <2>7. SubSeq(parts, 1, n) = parts
    BY ONLY <1>3, <2>3
  <2> QED BY <2>2, <2>5, <2>6, <2>7
<1>7. [m \in 1 .. p |-> Stream!MessageBytes(some, m)] = SubSeq(parts, 1, p)
  <2>1. ASSUME NEW m \in 1 .. p
        PROVE  Stream!MessageBytes(some, m) = parts[m]
    <3>1. Stream!MessageBytes(some, m) = Stream!MessageBytes(msgs, m)
      BY <1>5 DEF Stream!MessageBytes
    <3> QED BY <1>1, <1>2, <3>1
  <2>2. SubSeq(parts, 1, p) = [m \in 1 .. p |-> parts[m]]
    BY <1>1, <1>3
  <2> QED BY <2>1, <2>2
<1>8. Stream!Bytes(msgs) = FlattenSeq(parts) /\ Stream!Bytes(some) = FlattenSeq(SubSeq(parts, 1, p))
  BY <1>1, <1>2, <1>5, <1>7, SameFlatten DEF Stream!Bytes
<1>9. FlattenSeq(parts) = FlattenSeq(SubSeq(parts, 1, p)) \o FlattenSeq(SubSeq(parts, p + 1, n))
  BY <1>6, FlattenConcat
<1>10. FlattenSeq(SubSeq(parts, p + 1, n)) \in Seq(MessageByte)
  BY <1>6, FlattenType
<1> QED BY <1>4, <1>5, <1>8, <1>9, <1>10

\* One message further.
LEMMA BytesNext ==
  ASSUME NEW msgs \in Seq(Lengths), NEW p \in 0 .. Len(msgs) - 1
  PROVE  Stream!Bytes(SubSeq(msgs, 1, p + 1)) =
           Stream!Bytes(SubSeq(msgs, 1, p)) \o Stream!MessageBytes(msgs, p + 1)
<1>1. PICK some : some = SubSeq(msgs, 1, p)
  OBVIOUS
<1>2. PICK len \in Lengths : len = msgs[p + 1]
  <2>1. p + 1 \in 1 .. Len(msgs)
    OBVIOUS
  <2>2. msgs[p + 1] \in Lengths
    BY <2>1
  <2> QED BY ONLY <2>2, Zenon
<1>3. /\ some \in Seq(Lengths) /\ Len(some) = p
      /\ SubSeq(msgs, 1, p + 1) = Append(some, len)
  BY <1>1, <1>2
<1>4. Append(some, len)[p + 1] = len
  BY <1>3
<1>5. Stream!MessageBytes(Append(some, len), p + 1) = Stream!MessageBytes(msgs, p + 1)
  BY <1>2, <1>4 DEF Stream!MessageBytes
<1> QED BY <1>1, <1>3, <1>5, BytesAppend

-----------------------------------------------------------------------------
(***************************************************************************)
(* The bytes of messages among those written                               *)
(***************************************************************************)

Single(byte) == IF Real(byte) THEN <<byte>> ELSE <<>>

LEMMA SinglesType ==
  ASSUME NEW s \in Seq(WrittenByte)
  PROVE  /\ [k \in 1 .. Len(s) |-> Single(s[k])] \in Seq(Seq(WrittenByte))
         /\ Len([k \in 1 .. Len(s) |-> Single(s[k])]) = Len(s)
<1>1. PICK n \in Nat : n = Len(s)
  OBVIOUS
<1>2. ASSUME NEW k \in 1 .. n PROVE Single(s[k]) \in Seq(WrittenByte)
  <2>1. s[k] \in WrittenByte
    BY <1>1
  <2>2. <<s[k]>> \in Seq(WrittenByte) /\ <<>> \in Seq(WrittenByte)
    BY <2>1
  <2> QED BY <2>2 DEF Single
<1>3. [k \in 1 .. n |-> Single(s[k])] \in Seq(Seq(WrittenByte))
  BY <1>2
<1> QED BY <1>1, <1>3

LEMMA RealType ==
  ASSUME NEW s \in Seq(WrittenByte)
  PROVE  RealBytes(s) \in Seq(WrittenByte)
<1>1. RealBytes(s) = FlattenSeq([k \in 1 .. Len(s) |-> Single(s[k])])
  BY DEF RealBytes, Single
<1> QED BY <1>1, SinglesType, FlattenType

\* What is written behind adds its own bytes of messages.
LEMMA RealConcat ==
  ASSUME NEW s \in Seq(WrittenByte), NEW t \in Seq(WrittenByte)
  PROVE  RealBytes(s \o t) = RealBytes(s) \o RealBytes(t)
<1>1. PICK a : a = [k \in 1 .. Len(s) |-> Single(s[k])]
  OBVIOUS
<1>2. PICK b : b = [k \in 1 .. Len(t) |-> Single(t[k])]
  OBVIOUS
<1>3. PICK c : c = [k \in 1 .. Len(s \o t) |-> Single((s \o t)[k])]
  OBVIOUS
<1>4. /\ a \in Seq(Seq(WrittenByte)) /\ Len(a) = Len(s)
      /\ b \in Seq(Seq(WrittenByte)) /\ Len(b) = Len(t)
  BY <1>1, <1>2, SinglesType
<1>5. /\ s \o t \in Seq(WrittenByte) /\ Len(s \o t) = Len(s) + Len(t)
      /\ Len(s) \in Nat /\ Len(t) \in Nat
  OBVIOUS
<1>6. c \in Seq(Seq(WrittenByte)) /\ Len(c) = Len(s) + Len(t)
  BY <1>3, <1>5, SinglesType
<1>7. a \o b \in Seq(Seq(WrittenByte)) /\ Len(a \o b) = Len(s) + Len(t)
  <2>1. PICK S : S = Seq(WrittenByte)
    OBVIOUS
  <2>2. a \in Seq(S) /\ b \in Seq(S)
    BY <1>4, <2>1
  <2>3. a \o b \in Seq(S) /\ Len(a \o b) = Len(a) + Len(b)
    BY ONLY <2>2, ConcatProperties
  <2> QED BY <1>4, <2>1, <2>3
<1>8. ASSUME NEW k \in 1 .. Len(s) + Len(t) PROVE (a \o b)[k] = c[k]
  <2>1. c[k] = Single((s \o t)[k])
    BY <1>3, <1>5
  <2>2. CASE k <= Len(s)
    <3>1. k \in 1 .. Len(s) /\ (s \o t)[k] = s[k]
      BY <1>5, <2>2, ConcatProperties
    <3>2. a[k] = Single(s[k])
      BY <1>1, <3>1
    <3>3. (a \o b)[k] = a[k]
      BY <1>4, <1>5, <2>2, ConcatProperties
    <3> QED BY <2>1, <3>1, <3>2, <3>3
  <2>3. CASE ~ (k <= Len(s))
    <3>1. k - Len(s) \in 1 .. Len(t) /\ (s \o t)[k] = t[k - Len(s)]
      BY <1>5, <2>3, ConcatProperties
    <3>2. b[k - Len(s)] = Single(t[k - Len(s)])
      BY <1>2, <3>1
    <3>3. (a \o b)[k] = b[k - Len(s)]
      BY <1>4, <1>5, <2>3, ConcatProperties
    <3> QED BY <2>1, <3>1, <3>2, <3>3
  <2> QED BY <2>2, <2>3
<1>9. a \o b = c
  BY <1>6, <1>7, <1>8, SeqEqual
<1>10. FlattenSeq(a \o b) = FlattenSeq(a) \o FlattenSeq(b)
  BY <1>4, FlattenConcat
<1> QED BY <1>1, <1>2, <1>3, <1>9, <1>10 DEF RealBytes, Single

LEMMA RealOnly ==
  ASSUME NEW s \in Seq(WrittenByte), \A k \in 1 .. Len(s) : Real(s[k])
  PROVE  RealBytes(s) = s
<1>1. [k \in 1 .. Len(s) |-> Single(s[k])] = [k \in 1 .. Len(s) |-> <<s[k]>>]
  BY DEF Single
<1>2. RealBytes(s) = FlattenSeq([k \in 1 .. Len(s) |-> <<s[k]>>])
  BY <1>1 DEF RealBytes, Single
<1> QED BY <1>2, FlattenSingles

LEMMA RealStray ==
  ASSUME NEW byte \in WrittenByte, ~ Real(byte)
  PROVE  RealBytes(<<byte>>) = <<>>
<1>1. <<byte>> \in Seq(WrittenByte) /\ Len(<<byte>>) = 1 /\ <<byte>>[1] = byte
  OBVIOUS
<1>2. [k \in 1 .. Len(<<byte>>) |-> Single(<<byte>>[k])] = << <<>> >>
  BY <1>1 DEF Single
<1>3. <<>> \in Seq(WrittenByte)
  OBVIOUS
<1>4. FlattenSeq(<< <<>> >>) = <<>>
  BY <1>3, FlattenOne
<1>5. RealBytes(<<byte>>) = FlattenSeq([k \in 1 .. Len(<<byte>>) |-> Single(<<byte>>[k])])
  BY DEF RealBytes, Single
<1> QED BY <1>2, <1>4, <1>5

LEMMA RealNothing == RealBytes(<<>>) = <<>>
<1>1. <<>> \in Seq(WrittenByte) /\ \A k \in 1 .. Len(<<>>) : Real(<<>>[k])
  OBVIOUS
<1> QED BY <1>1, RealOnly

-----------------------------------------------------------------------------
(***************************************************************************)
(* What one send hands over                                                *)
(***************************************************************************)

LEMMA RestValue ==
  ASSUME NEW M \in Nat \ {0}, NEW len \in Nat \ {0}, len + 1 < M,
         NEW off \in 0 .. M - 1, off \in 0 .. len - 1 \/ off = M - 1
  PROVE  (len + M - off) % M = IF off = M - 1 THEN len + 1 ELSE len - off
<1>1. CASE off = M - 1
  <2>1. len + M - off \in 0 .. M - 1 /\ len + M - off = len + 1
    BY <1>1
  <2> QED BY <1>1, <2>1, ModBelow
<1>2. CASE off # M - 1
  <2>1. len + M - off \in M .. 2 * M - 1 /\ len + M - off - M = len - off
    BY <1>2
  <2>2. (len + M - off) % M = len + M - off - M
    BY <2>1, ModAbove
  <2> QED BY <1>2, <2>1, <2>2
<1> QED BY <1>1, <1>2

\* From a place inside a message on, a send hands over that part of it.
LEMMA PartOfMessage ==
  ASSUME NEW msgs \in Seq(Lengths), NEW m \in 1 .. Len(msgs), m \in 1 .. MaxMsgs,
         NEW k \in 0 .. msgs[m], NEW n \in 0 .. msgs[m] - k
  PROVE  /\ BytesFrom(m, k, n) \in Seq(WrittenByte)
         /\ RealBytes(BytesFrom(m, k, n)) = SubSeq(Stream!MessageBytes(msgs, m), k + 1, k + n)
<1>1. PICK len \in Lengths : len = msgs[m]
  <2>1. msgs[m] \in Lengths
    BY MessageBytesType
  <2> QED BY ONLY <2>1, Zenon
<1>2. PICK M \in Nat \ {0} : M = OffsetModulus
  BY LengthType
<1>3. len \in Nat \ {0} /\ len + 1 < M /\ k \in 0 .. len /\ n \in 0 .. len - k
  BY <1>1, <1>2, LengthType
<1>4. PICK part : part = BytesFrom(m, k, n)
  OBVIOUS
<1>5. part \in Seq(WrittenByte)
  <2>1. k \in 0 .. OffsetModulus - 1 /\ n \in Nat
    BY <1>2, <1>3
  <2> QED BY <1>4, <2>1, BytesFromType
<1>6. part = [i \in 1 .. n |-> [msg |-> m, at |-> (k + i - 1) % M]]
  BY <1>2, <1>4 DEF BytesFrom
<1>7. Len(part) = n
  BY <1>3, <1>6
<1>8. ASSUME NEW i \in 1 .. n
      PROVE  part[i] = [msg |-> m, at |-> k + i - 1] /\ Real(part[i])
  <2>1. k + i - 1 \in 0 .. M - 1 /\ k + i - 1 < M - 1
    BY <1>3
  <2>2. (k + i - 1) % M = k + i - 1
    BY <2>1, ModBelow
  <2>3. part[i] = [msg |-> m, at |-> k + i - 1]
    BY <1>6, <2>2
  <2>4. k + i - 1 # M - 1
    BY <2>1
  <2> QED BY <1>2, <2>3, <2>4 DEF Real, MinusOne
<1>9. RealBytes(part) = part
  BY <1>5, <1>7, <1>8, RealOnly
<1>10. PICK whole : whole = Stream!MessageBytes(msgs, m)
  OBVIOUS
<1>11. /\ whole \in Seq(MessageByte) /\ Len(whole) = len
       /\ \A i \in 1 .. len : whole[i] = [msg |-> m, at |-> i - 1]
  BY <1>1, <1>10, MessageBytesType
<1>12. PICK cut : cut = SubSeq(whole, k + 1, k + n)
  OBVIOUS
<1>13. /\ cut \in Seq(MessageByte) /\ Len(cut) = n
       /\ \A i \in 1 .. n : cut[i] = whole[k + i]
  <2>1. \A i \in k + 1 .. k + n : i \in 1 .. Len(whole)
    BY <1>3, <1>11
  <2>2. k + 1 \in Nat /\ k + n \in Nat
    BY <1>3
  <2>3. cut \in Seq(MessageByte) /\ Len(cut) = n
    BY <1>3, <1>11, <1>12, <2>1, <2>2
  <2>4. ASSUME NEW i \in 1 .. n PROVE cut[i] = whole[k + i]
    BY <1>3, <1>11, <1>12, <2>1, <2>2
  <2> QED BY <2>3, <2>4
<1>14. part \in Seq(MessageByte)
  <2>1. WrittenByte \subseteq MessageByte
    BY <1>2 DEF WrittenByte, MessageByte
  <2> QED BY <1>5, <2>1, SeqMonotonic
<1>15. ASSUME NEW i \in 1 .. n PROVE part[i] = cut[i]
  <2>1. k + i \in 1 .. len
    BY <1>3
  <2>2. cut[i] = [msg |-> m, at |-> k + i - 1]
    BY <1>11, <1>13, <2>1
  <2> QED BY <1>8, <2>2
<1>16. part = cut
  BY <1>7, <1>13, <1>14, <1>15, SeqEqual
<1> QED BY <1>4, <1>5, <1>9, <1>10, <1>12, <1>16

\* From -1 on, it hands over a stray byte, and the message from its beginning.
LEMMA StrayAndPart ==
  ASSUME NEW msgs \in Seq(Lengths), NEW m \in 1 .. Len(msgs), m \in 1 .. MaxMsgs,
         NEW n \in 1 .. msgs[m] + 1
  PROVE  RealBytes(BytesFrom(m, MinusOne, n)) = SubSeq(Stream!MessageBytes(msgs, m), 1, n - 1)
<1>1. PICK len \in Lengths : len = msgs[m]
  <2>1. msgs[m] \in Lengths
    BY MessageBytesType
  <2> QED BY ONLY <2>1, Zenon
<1>2. PICK M \in Nat \ {0} : M = OffsetModulus
  BY LengthType
<1>3. len \in Nat \ {0} /\ len + 1 < M /\ n \in 1 .. len + 1 /\ n - 1 \in 0 .. len
  BY <1>1, <1>2, LengthType
<1>4. PICK rest : rest = BytesFrom(m, 0, n - 1)
  OBVIOUS
<1>5. rest \in Seq(WrittenByte) /\ RealBytes(rest) = SubSeq(Stream!MessageBytes(msgs, m), 1, n - 1)
  <2>1. 0 \in 0 .. msgs[m] /\ n - 1 \in 0 .. msgs[m] - 0 /\ 0 + 1 = 1 /\ 0 + (n - 1) = n - 1
    BY <1>1, <1>3
  <2> QED BY <1>4, <2>1, PartOfMessage
<1>6. rest = [i \in 1 .. n - 1 |-> [msg |-> m, at |-> (0 + i - 1) % M]] /\ Len(rest) = n - 1
  BY <1>2, <1>3, <1>4 DEF BytesFrom
<1>7. PICK stray : stray = [msg |-> m, at |-> MinusOne]
  OBVIOUS
<1>8. stray \in WrittenByte /\ ~ Real(stray)
  BY <1>2, <1>7 DEF WrittenByte, Real, MinusOne
<1>9. PICK all : all = BytesFrom(m, MinusOne, n)
  OBVIOUS
<1>10. all = [i \in 1 .. n |-> [msg |-> m, at |-> (M - 1 + i - 1) % M]] /\ Len(all) = n
  BY <1>2, <1>3, <1>9 DEF BytesFrom, MinusOne
<1>11. all \in Seq(WrittenByte)
  <2>1. MinusOne \in 0 .. OffsetModulus - 1 /\ n \in Nat
    BY <1>2, <1>3 DEF MinusOne
  <2> QED BY <1>9, <2>1, BytesFromType
<1>12. PICK one : one = <<stray>>
  OBVIOUS
<1>13. one \in Seq(WrittenByte) /\ Len(one) = 1 /\ one[1] = stray
  BY <1>8, <1>12
<1>c. /\ one \o rest \in Seq(WrittenByte) /\ Len(one \o rest) = 1 + (n - 1)
      /\ \A i \in 1 .. 1 + (n - 1) : (one \o rest)[i] = IF i <= 1 THEN one[i] ELSE rest[i - 1]
  <2>1. rest \in Seq(WrittenByte) /\ Len(rest) = n - 1
    BY <1>5, <1>6
  <2>2. /\ one \o rest \in Seq(WrittenByte) /\ Len(one \o rest) = Len(one) + Len(rest)
        /\ \A i \in 1 .. Len(one) + Len(rest) :
             (one \o rest)[i] = IF i <= Len(one) THEN one[i] ELSE rest[i - Len(one)]
    <3>1. one \in Seq(WrittenByte) /\ rest \in Seq(WrittenByte)
      BY <1>13, <2>1
    <3> QED BY ONLY <3>1, ConcatProperties
  <2> QED BY <1>13, <2>1, <2>2
<1>14. ASSUME NEW i \in 1 .. n PROVE all[i] = (one \o rest)[i]
  <2>1. CASE i = 1
    <3>1. M - 1 + i - 1 = M - 1 /\ M - 1 \in 0 .. M - 1
      BY <2>1
    <3>2. (M - 1 + i - 1) % M = M - 1
      BY <3>1, ModBelow
    <3>3. all[i] = [msg |-> m, at |-> M - 1]
      BY <1>10, <3>2
    <3>4. all[i] = stray
      BY <1>2, <1>7, <3>3 DEF MinusOne
    <3>5. (one \o rest)[i] = one[1]
      BY ONLY <1>3, <1>c, <2>1
    <3> QED BY <1>13, <3>4, <3>5
  <2>2. CASE i # 1
    <3>1. /\ M - 1 + i - 1 \in M .. 2 * M - 1 /\ M - 1 + i - 1 - M = i - 2
          /\ i - 1 \in 1 .. n - 1 /\ 0 + (i - 1) - 1 = i - 2 /\ i - 2 \in 0 .. M - 1
      BY <1>3, <2>2
    <3>2. (M - 1 + i - 1) % M = i - 2
      <4>1. PICK x \in M .. 2 * M - 1 : x = M - 1 + i - 1
        BY <3>1
      <4>2. x % M = x - M
        BY ModAbove
      <4> QED BY <3>1, <4>1, <4>2
    <3>3. all[i] = [msg |-> m, at |-> i - 2]
      BY <1>10, <3>2
    <3>4. (i - 2) % M = i - 2
      BY <3>1, ModBelow
    <3>5. rest[i - 1] = [msg |-> m, at |-> i - 2]
      BY <1>6, <3>1, <3>4
    <3>6. (one \o rest)[i] = rest[i - 1]
      <4>1. i \in 1 .. 1 + (n - 1) /\ ~ (i <= 1)
        BY <1>3, <2>2
      <4> QED BY ONLY <1>c, <4>1
    <3> QED BY <3>3, <3>5, <3>6
  <2> QED BY <2>1, <2>2
<1>15. all = one \o rest
  <2>1. one \o rest \in Seq(WrittenByte) /\ Len(one \o rest) = n
    BY <1>3, <1>c
  <2> QED BY <1>10, <1>11, <1>14, <2>1, SeqEqual
<1>16. RealBytes(all) = RealBytes(one) \o RealBytes(rest)
  BY <1>5, <1>13, <1>15, RealConcat
<1>17. RealBytes(one) = <<>>
  BY <1>8, <1>12, RealStray
<1>18. <<>> \o RealBytes(rest) = RealBytes(rest)
  <2>1. RealBytes(rest) \in Seq(WrittenByte)
    BY <1>5, RealType
  <2> QED BY <2>1, ConcatEmptySeq
<1> QED BY <1>5, <1>9, <1>16, <1>17, <1>18

\* A send takes the head of the queue from where it stands to its end, or to the
\* new offset.
LEMMA HandsOver ==
  ASSUME NEW info \in Unsent, GoodOffset(info), NEW n \in 1 .. Rest(info),
         NEW msgs \in Seq(Lengths), NEW m \in 1 .. Len(msgs),
         info.msg = m, info.length = msgs[m]
  PROVE  \E e \in Sent(info) .. info.length :
           /\ RealBytes(BytesFrom(info.msg, info.offset, n)) =
                SubSeq(Stream!MessageBytes(msgs, m), Sent(info) + 1, e)
           /\ n = Rest(info) => e = info.length
           /\ n # Rest(info) => e = OffsetAfter(info, n)
<1>1. PICK len \in Lengths, off \in 0 .. OffsetModulus - 1 :
        len = info.length /\ off = info.offset /\ info.msg \in 1 .. MaxMsgs
  BY DEF Unsent
<1>2. PICK M \in Nat \ {0} : M = OffsetModulus
  BY LengthType
<1>3. /\ len \in Nat \ {0} /\ len + 1 < M /\ len = msgs[m]
      /\ off \in 0 .. M - 1 /\ (off \in 0 .. len - 1 \/ off = M - 1) /\ m \in 1 .. MaxMsgs
  BY <1>1, <1>2, LengthType DEF GoodOffset, MinusOne
<1>4. Rest(info) = IF off = M - 1 THEN len + 1 ELSE len - off
  <2>1. (len + M - off) % M = IF off = M - 1 THEN len + 1 ELSE len - off
    BY ONLY <1>3, len \in Nat \ {0}, M \in Nat \ {0}, RestValue
  <2> QED BY <1>1, <1>2, <2>1 DEF Rest
<1>5. PICK r \in Nat : r = Rest(info) /\ r = IF off = M - 1 THEN len + 1 ELSE len - off
  BY <1>3, <1>4
<1>6. n \in 1 .. r /\ n \in 1 .. len + 1
  BY <1>3, <1>5
<1>7. ASSUME n # r
      PROVE  OffsetAfter(info, n) = IF off = M - 1 THEN n - 1 ELSE off + n
  <2>1. PICK x \in Nat : x = off + n
    BY <1>3, <1>6
  <2>2. x % M = IF off = M - 1 THEN n - 1 ELSE off + n
    <3>1. CASE off = M - 1
      <4>1. x \in M .. 2 * M - 1 /\ x - M = n - 1
        BY <1>3, <1>5, <1>6, <2>1, <3>1
      <4> QED BY <3>1, <4>1, ModAbove
    <3>2. CASE off # M - 1
      <4>1. x \in 0 .. M - 1
        BY <1>3, <1>5, <1>6, <2>1, <3>2
      <4> QED BY <2>1, <3>2, <4>1, ModBelow
    <3> QED BY <3>1, <3>2
  <2> QED BY <1>1, <1>2, <2>1, <2>2 DEF OffsetAfter
<1> DEFINE Takes(e) ==
  /\ RealBytes(BytesFrom(info.msg, info.offset, n)) =
       SubSeq(Stream!MessageBytes(msgs, m), Sent(info) + 1, e)
  /\ n = Rest(info) => e = info.length
  /\ n # Rest(info) => e = OffsetAfter(info, n)
<1>8. CASE off = M - 1
  <2>1. Sent(info) = 0
    BY <1>1, <1>2, <1>8 DEF Sent, MinusOne
  <2>2. RealBytes(BytesFrom(m, MinusOne, n)) = SubSeq(Stream!MessageBytes(msgs, m), 1, n - 1)
    BY <1>3, <1>6, StrayAndPart
  <2>3. info.offset = MinusOne
    BY <1>1, <1>2, <1>8 DEF MinusOne
  <2>4. n - 1 \in 0 .. len /\ (n = r => n - 1 = len)
    BY <1>3, <1>5, <1>6, <1>8
  <2>5. RealBytes(BytesFrom(info.msg, info.offset, n)) =
          SubSeq(Stream!MessageBytes(msgs, m), Sent(info) + 1, n - 1)
    <3>1. Sent(info) + 1 = 1
      BY <2>1
    <3> QED BY <2>2, <2>3, <3>1
  <2>6. Takes(n - 1) /\ n - 1 \in Sent(info) .. info.length
    BY <1>1, <1>5, <1>7, <1>8, <2>1, <2>4, <2>5
  <2> HIDE DEF Takes
  <2>7. \E e \in Sent(info) .. info.length : Takes(e)
    BY <2>6
  <2> QED BY <2>7 DEF Takes
<1>9. CASE off # M - 1
  <2>1. Sent(info) = off
    BY <1>1, <1>2, <1>9 DEF Sent, MinusOne
  <2>2. /\ off \in 0 .. msgs[m] /\ n \in 0 .. msgs[m] - off
        /\ off + n \in off .. len /\ (n = r => off + n = len)
    BY <1>3, <1>5, <1>6, <1>9
  <2>3. RealBytes(BytesFrom(m, off, n)) = SubSeq(Stream!MessageBytes(msgs, m), off + 1, off + n)
    BY <1>3, <2>2, PartOfMessage
  <2>4. RealBytes(BytesFrom(info.msg, info.offset, n)) =
          SubSeq(Stream!MessageBytes(msgs, m), Sent(info) + 1, off + n)
    BY <1>1, <2>1, <2>3
  <2>5. Takes(off + n) /\ off + n \in Sent(info) .. info.length
    BY <1>1, <1>5, <1>7, <1>9, <2>1, <2>2, <2>4
  <2> HIDE DEF Takes
  <2>6. \E e \in Sent(info) .. info.length : Takes(e)
    BY <2>5
  <2> QED BY <2>6 DEF Takes
<1> QED BY <1>8, <1>9

-----------------------------------------------------------------------------
(***************************************************************************)
(* Where the stream stands                                                 *)
(***************************************************************************)

\* A part of the next message takes the stream that much further.
LEMMA FurtherInMessage ==
  ASSUME NEW msgs \in Seq(Lengths), NEW p \in 0 .. Len(msgs) - 1,
         NEW e \in 0 .. msgs[p + 1], NEW k \in 0 .. e
  PROVE  /\ Upto(msgs, p, k) \o SubSeq(Stream!MessageBytes(msgs, p + 1), k + 1, e) = Upto(msgs, p, e)
         /\ Upto(msgs, p, e) \in Seq(MessageByte)
<1>1. p + 1 \in 1 .. Len(msgs) /\ p \in 0 .. Len(msgs)
  OBVIOUS
<1>2. PICK len \in Nat : len = msgs[p + 1]
  <2>1. msgs[p + 1] \in Nat
    BY <1>1, MessageBytesType
  <2> QED BY ONLY <2>1, Zenon
<1>3. PICK whole \in Seq(MessageByte) : whole = Stream!MessageBytes(msgs, p + 1) /\ Len(whole) = len
  <2>1. Stream!MessageBytes(msgs, p + 1) \in Seq(MessageByte) /\ Len(Stream!MessageBytes(msgs, p + 1)) = len
    BY <1>1, <1>2, MessageBytesType
  <2> QED BY ONLY <2>1, Zenon
<1>4. PICK done \in Seq(MessageByte) : done = Stream!Bytes(SubSeq(msgs, 1, p))
  <2>1. SubSeq(msgs, 1, p) \in Seq(Lengths)
    BY <1>1, BytesSplit
  <2>2. Stream!Bytes(SubSeq(msgs, 1, p)) \in Seq(MessageByte)
    BY <2>1, BytesInSeq
  <2> QED BY ONLY <2>2, Zenon
<1>5. /\ SubSeq(whole, 1, k) \in Seq(MessageByte)
      /\ SubSeq(whole, k + 1, e) \in Seq(MessageByte)
      /\ SubSeq(whole, 1, e) \in Seq(MessageByte)
      /\ SubSeq(whole, 1, k) \o SubSeq(whole, k + 1, e) = SubSeq(whole, 1, e)
  <2>1. k \in 0 .. len /\ e \in k .. len /\ e \in Nat /\ k \in Nat
    BY <1>2
  <2>2. /\ \A j \in 1 .. k : j \in 1 .. Len(whole)
        /\ \A j \in k + 1 .. e : j \in 1 .. Len(whole)
        /\ \A j \in 1 .. e : j \in 1 .. Len(whole)
    BY <1>3, <2>1
  <2>3. /\ SubSeq(whole, 1, k) \in Seq(MessageByte)
        /\ SubSeq(whole, k + 1, e) \in Seq(MessageByte)
        /\ SubSeq(whole, 1, e) \in Seq(MessageByte)
    BY ONLY <2>1, <2>2, len \in Nat, whole \in Seq(MessageByte)
  <2>4. k \in 1 - 1 .. Len(whole) /\ 1 \in 1 .. Len(whole) + 1 /\ e \in k .. Len(whole)
    BY ONLY <1>3, <2>1, len \in Nat
  <2>5. SubSeq(whole, 1, k) \o SubSeq(whole, k + 1, e) = SubSeq(whole, 1, e)
    BY ONLY <2>4, whole \in Seq(MessageByte), ConcatAdjacentSubSeq
  <2> QED BY <2>3, <2>5
<1>6. (done \o SubSeq(whole, 1, k)) \o SubSeq(whole, k + 1, e) = done \o SubSeq(whole, 1, e)
  <2>1. PICK x \in Seq(MessageByte), y \in Seq(MessageByte) :
          x = SubSeq(whole, 1, k) /\ y = SubSeq(whole, k + 1, e)
    BY <1>5
  <2>2. (done \o x) \o y = done \o (x \o y)
    BY ONLY done \in Seq(MessageByte), x \in Seq(MessageByte), y \in Seq(MessageByte),
            ConcatAssociative, SMTT(30)
  <2> QED BY <1>5, <2>1, <2>2
<1>7. done \o SubSeq(whole, 1, e) \in Seq(MessageByte)
  BY <1>5, ConcatProperties
<1> QED BY <1>3, <1>4, <1>6, <1>7 DEF Upto

\* What is handed over is the beginning of all the bytes.
LEMMA UptoIsPrefix ==
  ASSUME NEW msgs \in Seq(Lengths), NEW p \in 0 .. Len(msgs) - 1, NEW k \in 0 .. msgs[p + 1]
  PROVE  \E rest \in Seq(MessageByte) : Stream!Bytes(msgs) = Upto(msgs, p, k) \o rest
<1>1. p + 1 \in 1 .. Len(msgs) /\ p + 1 \in 0 .. Len(msgs)
  OBVIOUS
<1>2. PICK len \in Nat : len = msgs[p + 1]
  <2>1. msgs[p + 1] \in Nat
    BY <1>1, MessageBytesType
  <2> QED BY ONLY <2>1, Zenon
<1>3. PICK whole \in Seq(MessageByte) : whole = Stream!MessageBytes(msgs, p + 1) /\ Len(whole) = len
  <2>1. Stream!MessageBytes(msgs, p + 1) \in Seq(MessageByte) /\ Len(Stream!MessageBytes(msgs, p + 1)) = len
    BY <1>1, <1>2, MessageBytesType
  <2> QED BY ONLY <2>1, Zenon
<1>4. PICK b \in Seq(MessageByte) : b = SubSeq(whole, k + 1, len)
  <2>1. \A j \in k + 1 .. len : j \in 1 .. Len(whole)
    BY <1>2, <1>3
  <2>2. SubSeq(whole, k + 1, len) \in Seq(MessageByte)
    BY <1>2, <2>1
  <2> QED BY ONLY <2>2, Zenon
<1>5. PICK a \in Seq(MessageByte) : a = Upto(msgs, p, k)
  <2>1. 0 \in 0 .. k
    BY <1>2
  <2>2. Upto(msgs, p, k) \in Seq(MessageByte)
    BY <2>1, FurtherInMessage
  <2> QED BY ONLY <2>2, Zenon
<1>6. a \o b = Upto(msgs, p, len)
  <2>1. k \in 0 .. len /\ len \in 0 .. msgs[p + 1]
    BY <1>2
  <2>2. Upto(msgs, p, k) \o SubSeq(Stream!MessageBytes(msgs, p + 1), k + 1, len) = Upto(msgs, p, len)
    BY <2>1, FurtherInMessage
  <2> QED BY ONLY <1>3, <1>4, <1>5, <2>2
<1>7. Upto(msgs, p, len) = Stream!Bytes(SubSeq(msgs, 1, p + 1))
  <2>1. SubSeq(whole, 1, len) = whole
    BY <1>3
  <2> QED BY <1>3, <2>1, BytesNext DEF Upto
<1>8. PICK c \in Seq(MessageByte) : Stream!Bytes(msgs) = Stream!Bytes(SubSeq(msgs, 1, p + 1)) \o c
  BY <1>1, BytesSplit
<1>9. (a \o b) \o c = a \o (b \o c) /\ b \o c \in Seq(MessageByte)
  <2>1. (a \o b) \o c = a \o (b \o c)
    BY ONLY a \in Seq(MessageByte), b \in Seq(MessageByte), c \in Seq(MessageByte),
            ConcatAssociative, SMTT(30)
  <2>2. b \o c \in Seq(MessageByte)
    BY ONLY b \in Seq(MessageByte), c \in Seq(MessageByte), ConcatProperties
  <2> QED BY <2>1, <2>2
<1>10. Stream!Bytes(msgs) = Upto(msgs, p, k) \o (b \o c)
  BY ONLY <1>5, <1>6, <1>7, <1>8, <1>9
<1> QED BY <1>9, <1>10

\* The same of a queue whose messages are the last ones.
LEMMA PositionIsPrefix ==
  ASSUME NEW msgs \in Seq(Lengths), NEW queue \in Seq(Unsent), Len(queue) <= Len(msgs),
         queue # <<>> => /\ GoodOffset(Head(queue))
                         /\ Head(queue).length = msgs[Len(msgs) - Len(queue) + 1],
         NEW bytes, bytes = IF queue = <<>> THEN Stream!Bytes(msgs)
                            ELSE Upto(msgs, Len(msgs) - Len(queue), Sent(Head(queue)))
  PROVE  \E rest \in Seq(MessageByte) : Stream!Bytes(msgs) = bytes \o rest
<1>1. CASE queue = <<>>
  <2>1. PICK b \in Seq(MessageByte) : b = Stream!Bytes(msgs)
    BY BytesInSeq
  <2>2. b \o <<>> = b /\ <<>> \in Seq(MessageByte)
    BY ONLY b \in Seq(MessageByte), ConcatEmptySeq, EmptySeq
  <2> QED BY <1>1, <2>1, <2>2
<1>2. CASE queue # <<>>
  <2>1. PICK p \in 0 .. Len(msgs) - 1 : p = Len(msgs) - Len(queue)
    <3>1. Len(queue) \in Nat \ {0} /\ Len(msgs) \in Nat
      BY <1>2, EmptySeq, LenProperties
    <3> QED BY <3>1
  <2>2. Head(queue) \in Unsent
    BY <1>2, HeadTailProperties
  <2>3. PICK len \in Lengths, off \in 0 .. OffsetModulus - 1 :
          len = Head(queue).length /\ off = Head(queue).offset
    BY <2>2 DEF Unsent
  <2>4. PICK k \in 0 .. len : k = Sent(Head(queue))
    BY <1>2, <2>3, LengthType DEF Sent, GoodOffset
  <2>5. len = msgs[p + 1]
    BY <1>2, <2>1, <2>3
  <2>6. k \in 0 .. msgs[p + 1]
    BY <2>5
  <2>7. bytes = Upto(msgs, p, k)
    BY <1>2, <2>1, <2>4
  <2> QED BY <2>6, <2>7, UptoIsPrefix
<1> QED BY <1>1, <1>2

\* Where the stream stands, it has bytes of all those accepted, from the first on.
LEMMA StepDelivers ==
  ASSUME QueueOK', OthersOK', StreamInv', NEW handed \in Seq(WrittenByte), NEW more \in Seq(WrittenByte),
         handed = RealBytes(written), RealBytes(written)' = handed \o more
  PROVE  Stream!Deliver
<1>1. PICK msgs \in Seq(Lengths) : msgs = accepted'
  BY DEF OthersOK
<1>2. PICK queue \in Seq(Unsent) : queue = unsent_data'
  BY DEF QueueOK
<1>3. Len(queue) <= Len(msgs)
  BY <1>1, <1>2 DEF StreamInv, QueueIsTail
<1>4. ASSUME queue # <<>>
      PROVE  GoodOffset(Head(queue)) /\ Head(queue).length = msgs[Len(msgs) - Len(queue) + 1]
  <2>1. 1 \in 1 .. Len(queue) /\ Head(queue) = queue[1]
    <3>1. Len(queue) \in Nat \ {0}
      BY <1>4, EmptySeq
    <3> QED BY <3>1
  <2>2. queue[1].offset \in 0 .. queue[1].length - 1 \cup {MinusOne}
    BY <1>2, <2>1 DEF QueueOK, OnlyHeadPartial
  <2>3. queue[1].length = msgs[Len(msgs) - Len(queue) + 1]
    BY <1>1, <1>2, <2>1 DEF StreamInv, QueueIsTail
  <2> QED BY <2>1, <2>2, <2>3 DEF GoodOffset
<1>5. PICK bytes \in Seq(WrittenByte) : bytes = handed \o more
  BY ConcatProperties
<1>6. bytes = IF queue = <<>> THEN Stream!Bytes(msgs)
              ELSE Upto(msgs, Len(msgs) - Len(queue), Sent(Head(queue)))
  BY <1>1, <1>2, <1>5 DEF StreamInv, StreamPosition, Stream!Bytes, Upto
<1>7. PICK rest \in Seq(MessageByte) : Stream!Bytes(msgs) = bytes \o rest
  BY <1>3, <1>4, <1>6, PositionIsPrefix
<1>8. /\ Len(bytes) = Len(handed) + Len(more) /\ Len(handed) \in Nat /\ Len(more) \in Nat
      /\ Len(bytes \o rest) = Len(bytes) + Len(rest) /\ Len(rest) \in Nat
      /\ SubSeq(bytes \o rest, 1, Len(bytes)) = bytes
  <2>1. WrittenByte \subseteq MessageByte
    <3>1. OffsetModulus \in Nat
      OBVIOUS
    <3> QED BY <3>1 DEF WrittenByte, MessageByte
  <2>2. bytes \in Seq(MessageByte)
    BY <2>1, SeqMonotonic
  <2>3. Len(bytes) = Len(handed) + Len(more) /\ Len(handed) \in Nat /\ Len(more) \in Nat
    BY <1>5, ConcatProperties, LenProperties
  <2>4. Len(bytes \o rest) = Len(bytes) + Len(rest) /\ Len(rest) \in Nat
    BY <2>2, ConcatProperties, LenProperties
  <2>5. SubSeq(bytes \o rest, 1, Len(bytes)) = bytes
    BY ONLY <2>2, rest \in Seq(MessageByte)
  <2> QED BY <2>3, <2>4, <2>5
<1>9. PICK n \in Nat : n = Len(bytes)
  BY <1>8
<1>10. n \in Len(handed) .. Len(Stream!Bytes(msgs)) /\ bytes = SubSeq(Stream!Bytes(msgs), 1, n)
  BY <1>7, <1>8, <1>9
<1>11. RealBytes(written)' = bytes
  BY <1>5
<1>12. Stream!Bytes(msgs) = Stream!Bytes(accepted')
  BY <1>1
<1> QED BY <1>10, <1>11, <1>12 DEF Stream!Deliver

-----------------------------------------------------------------------------
(***************************************************************************)
(* The steps of the stream                                                 *)
(***************************************************************************)

Handed == RealBytes(written)
StreamStep == Stream!Next \/ UNCHANGED <<accepted, Handed>>

\* A connection that is given up leaves neither messages nor bytes.
LEMMA CloseStream ==
  ASSUME NEW why, Close(why)
  PROVE  StreamInv' /\ StreamStep
<1>1. unsent_data' = <<>> /\ accepted' = <<>> /\ written' = <<>>
  BY DEF Close
<1>2. RealBytes(written)' = <<>>
  BY <1>1, RealNothing DEF RealBytes
<1>3. Stream!Bytes(<<>>) = <<>>
  <2>1. Len(<<>>) = 0 /\ [m \in 1 .. 0 |-> Stream!MessageBytes(<<>>, m)] = <<>>
    OBVIOUS
  <2> QED BY <2>1, SameFlatten, FlattenEmpty DEF Stream!Bytes
<1>4. Stream!Bytes(accepted') = <<>>
  BY <1>1, <1>3
<1>5. StreamPosition'
  BY <1>1, <1>2, <1>4 DEF StreamPosition, Stream!Bytes
<1>6. QueueIsTail'
  <2>1. Len(<<>>) = 0
    OBVIOUS
  <2> QED BY <1>1, <2>1 DEF QueueIsTail
<1>7. Stream!Lose
  BY <1>1, <1>2 DEF Stream!Lose
<1> QED BY <1>5, <1>6, <1>7 DEF StreamInv, StreamStep, Stream!Next

\* A step that leaves the messages, the queue and the bytes alone.
LEMMA QuietStream ==
  ASSUME StreamInv, UNCHANGED <<accepted, unsent_data, written>>
  PROVE  StreamInv' /\ StreamStep
<1>1. StreamInv'
  BY DEF StreamInv, QueueIsTail, StreamPosition, Upto, RealBytes, Stream!Bytes,
         Stream!MessageBytes
<1>2. UNCHANGED <<accepted, Handed>>
  BY DEF Handed, RealBytes
<1> QED BY <1>1, <1>2 DEF StreamStep

\* A message put into the queue is the last one accepted, and the queue begins where
\* it did.
LEMMA QueuedIsTail ==
  ASSUME QueueOK, QueueIsTail, NEW msgs \in Seq(Lengths), msgs = accepted,
         NEW len \in Lengths, NEW offset,
         accepted' = Append(msgs, len), Queue(Len(accepted'), len, offset)
  PROVE  /\ QueueIsTail' /\ unsent_data' # <<>>
         /\ Len(accepted') - Len(unsent_data') = Len(msgs) - Len(unsent_data)
         /\ Len(unsent_data) \in 0 .. Len(msgs)
         /\ Head(unsent_data') = IF unsent_data = <<>>
                                 THEN [msg |-> Len(msgs) + 1, length |-> len, offset |-> offset]
                                 ELSE Head(unsent_data)
<1>1. PICK queue \in Seq(Unsent) : queue = unsent_data
  BY DEF QueueOK
<1>2. PICK q \in Nat : q = Len(queue)
  OBVIOUS
<1>3. PICK n \in Nat : n = Len(msgs)
  OBVIOUS
<1>4. /\ accepted' \in Seq(Lengths) /\ Len(accepted') = n + 1
      /\ \A k \in 1 .. n : accepted'[k] = msgs[k]
      /\ accepted'[n + 1] = len
  BY <1>3, AppendProperties
<1>5. PICK info : info = [msg |-> n + 1, length |-> len, offset |-> offset]
  OBVIOUS
<1>6. unsent_data' = Append(queue, info)
  BY <1>1, <1>4, <1>5 DEF Queue
<1>7. /\ Len(unsent_data') = q + 1
      /\ \A k \in 1 .. q : unsent_data'[k] = queue[k]
      /\ unsent_data'[q + 1] = info
      /\ Head(unsent_data') = unsent_data'[1]
  BY ONLY <1>2, <1>6, queue \in Seq(Unsent), q \in Nat
<1>8. q <= n
  BY <1>1, <1>2, <1>3 DEF QueueIsTail
<1>9. ASSUME NEW k \in 1 .. q + 1
      PROVE  /\ unsent_data'[k].msg = (n + 1) - (q + 1) + k
             /\ unsent_data'[k].length = accepted'[(n + 1) - (q + 1) + k]
  <2>0. PICK j \in Nat : j = (n + 1) - (q + 1) + k
    BY <1>8
  <2>1. CASE k \in 1 .. q
    <3>1. j = n - q + k /\ j \in 1 .. n
      BY <1>8, <2>0, <2>1
    <3>2. queue[k].msg = j /\ queue[k].length = msgs[j]
      BY <1>1, <1>2, <1>3, <2>1, <3>1 DEF QueueIsTail
    <3>3. unsent_data'[k] = queue[k] /\ accepted'[j] = msgs[j]
      BY <1>4, <1>7, <2>1, <3>1
    <3> QED BY <2>0, <3>2, <3>3
  <2>2. CASE k = q + 1
    <3>1. j = n + 1
      BY <2>0, <2>2
    <3>2. unsent_data'[k] = info
      BY <1>7, <2>2
    <3>3. unsent_data'[k].msg = j /\ unsent_data'[k].length = accepted'[j]
      BY <1>4, <1>5, <3>1, <3>2
    <3> QED BY <2>0, <3>3
  <2>3. k \in 1 .. q \/ k = q + 1
    OBVIOUS
  <2> QED BY <2>1, <2>2, <2>3
<1>10. QueueIsTail'
  <2>1. Len(unsent_data') <= Len(accepted')
    BY <1>4, <1>7, <1>8
  <2> QED BY <1>4, <1>7, <1>9, <2>1 DEF QueueIsTail
<1>11. unsent_data' # <<>>
  BY <1>7
<1>12. Head(unsent_data') = IF queue = <<>> THEN info ELSE Head(queue)
  <2>1. CASE queue = <<>>
    BY <1>2, <1>7, <2>1
  <2>2. CASE queue # <<>>
    <3>1. q \in 1 .. q /\ 1 \in 1 .. q /\ Head(queue) = queue[1]
      BY <1>2, <2>2, EmptySeq
    <3> QED BY <1>7, <2>2, <3>1
  <2> QED BY <2>1, <2>2
<1>13. (n + 1) - (q + 1) = n - q /\ q \in 0 .. n
  BY <1>8
<1> QED BY <1>1, <1>2, <1>3, <1>4, <1>5, <1>7, <1>10, <1>11, <1>12, <1>13

\* A message more leaves the stream where it is.
LEMMA UptoStays ==
  ASSUME NEW msgs \in Seq(Lengths), NEW len \in Lengths, NEW p \in 0 .. Len(msgs), NEW k
  PROVE  /\ SubSeq(Append(msgs, len), 1, p) = SubSeq(msgs, 1, p)
         /\ p < Len(msgs) => Upto(Append(msgs, len), p, k) = Upto(msgs, p, k)
<1>1. SubSeq(Append(msgs, len), 1, p) = SubSeq(msgs, 1, p)
  OBVIOUS
<1>2. ASSUME p < Len(msgs)
      PROVE  Append(msgs, len)[p + 1] = msgs[p + 1]
  <2>1. p + 1 \in 1 .. Len(msgs)
    BY <1>2
  <2> QED BY <2>1, AppendProperties
<1>3. ASSUME p < Len(msgs)
      PROVE  Stream!MessageBytes(Append(msgs, len), p + 1) = Stream!MessageBytes(msgs, p + 1)
  BY <1>2, <1>3 DEF Stream!MessageBytes
<1> QED BY <1>1, <1>3 DEF Upto

LEMMA SendBehindStream ==
  ASSUME IInv, IInv', StreamInv, NEW len \in Lengths, SendBehind(len)
  PROVE  StreamInv' /\ StreamStep
<1>1. QueueOK /\ OthersOK /\ QueueOK' /\ OthersOK'
  BY DEF IInv, TypeOK, QueueOK, OthersOK, WrittenByte
<1>2. CASE Full
  <2>1. Close("full")
    BY <1>2 DEF SendBehind
  <2> QED BY <2>1, CloseStream
<1>3. CASE ~ Full
  <2>1. /\ unsent_data # <<>> /\ accepted' = Append(accepted, len)
        /\ Queue(Len(accepted'), len, 0) /\ written' = written
    BY <1>3 DEF SendBehind
  <2>2. PICK msgs \in Seq(Lengths) : msgs = accepted
    BY <1>1 DEF OthersOK
  <2>3. QueueIsTail
    BY DEF StreamInv
  <2>4. accepted' = Append(msgs, len)
    BY <2>1, <2>2
  <2>5. /\ QueueIsTail' /\ unsent_data' # <<>>
        /\ Len(accepted') - Len(unsent_data') = Len(msgs) - Len(unsent_data)
        /\ Len(unsent_data) \in 0 .. Len(msgs)
        /\ Head(unsent_data') = Head(unsent_data)
    BY <1>1, <2>1, <2>2, <2>3, <2>4, QueuedIsTail
  <2>6. PICK p \in 0 .. Len(msgs) : p = Len(msgs) - Len(unsent_data) /\ p < Len(msgs)
    <3>1. PICK q \in Nat \ {0} : q = Len(unsent_data)
      BY <1>1, <2>1, EmptySeq DEF QueueOK
    <3>2. PICK n \in Nat : n = Len(msgs)
      OBVIOUS
    <3>3. n - q \in 0 .. n /\ n - q < n
      BY <2>5, <3>1, <3>2
    <3> QED BY ONLY <3>1, <3>2, <3>3
  <2>7. RealBytes(written)' = Upto(accepted', p, Sent(Head(unsent_data)))
    <3>1. RealBytes(written) = Upto(msgs, p, Sent(Head(unsent_data)))
      BY <2>1, <2>2, <2>6 DEF StreamInv, StreamPosition
    <3>2. Upto(Append(msgs, len), p, Sent(Head(unsent_data))) = Upto(msgs, p, Sent(Head(unsent_data)))
      BY <2>6, UptoStays
    <3>3. RealBytes(written)' = RealBytes(written)
      BY <2>1 DEF RealBytes
    <3> QED BY <2>4, <3>1, <3>2, <3>3
  <2>8. StreamInv'
    BY <2>5, <2>6, <2>7 DEF StreamInv, StreamPosition, Upto, Stream!Bytes, Stream!MessageBytes, Sent
  <2>9. Stream!Accept
    <3>1. PICK handed \in Seq(WrittenByte) : handed = RealBytes(written)
      BY <1>1, RealType DEF OthersOK
    <3>2. RealBytes(written)' = handed \o <<>> /\ <<>> \in Seq(WrittenByte)
      BY <2>1, <3>1 DEF RealBytes
    <3>3. Stream!Deliver
      BY <1>1, <2>8, <3>1, <3>2, StepDelivers
    <3> QED BY <2>1, <3>3 DEF Stream!Accept
  <2> QED BY <2>8, <2>9 DEF StreamStep, Stream!Next
<1> QED BY <1>2, <1>3

\* The bytes of one message among those of a list that begins with it.
LEMMA WholeMessage ==
  ASSUME NEW msgs \in Seq(Lengths), NEW len \in Lengths, NEW n \in 1 .. len,
         Len(msgs) + 1 \in 1 .. MaxMsgs
  PROVE  /\ RealBytes(BytesFrom(Len(msgs) + 1, 0, n)) =
              SubSeq(Stream!MessageBytes(Append(msgs, len), Len(msgs) + 1), 1, n)
         /\ BytesFrom(Len(msgs) + 1, 0, n) \in Seq(WrittenByte)
         /\ n = len => SubSeq(Stream!MessageBytes(Append(msgs, len), Len(msgs) + 1), 1, n) =
                         Stream!MessageBytes(Append(msgs, len), Len(msgs) + 1)
<1>1. PICK more \in Seq(Lengths) : more = Append(msgs, len)
  BY AppendProperties
<1>2. PICK m \in Nat : m = Len(msgs) + 1
  OBVIOUS
<1>3. m \in 1 .. Len(more) /\ more[m] = len /\ len \in Nat \ {0}
  <2>1. Len(more) = Len(msgs) + 1 /\ more[Len(msgs) + 1] = len
    BY ONLY <1>1, msgs \in Seq(Lengths), len \in Lengths, AppendProperties
  <2>2. Len(more) = m /\ more[m] = len
    BY ONLY <1>2, <2>1
  <2>3. len \in Nat \ {0}
    BY LengthType
  <2>4. m \in 1 .. m
    BY ONLY <1>2, m \in Nat, Len(msgs) \in Nat, msgs \in Seq(Lengths)
  <2> QED BY ONLY <2>2, <2>3, <2>4
<1>4. 0 \in 0 .. more[m] /\ n \in 0 .. more[m] - 0 /\ 0 + 1 = 1 /\ 0 + n = n
  BY <1>3
<1>5. /\ BytesFrom(m, 0, n) \in Seq(WrittenByte)
      /\ RealBytes(BytesFrom(m, 0, n)) = SubSeq(Stream!MessageBytes(more, m), 1, n)
  <2>1. m \in 1 .. MaxMsgs
    BY <1>2
  <2>2. RealBytes(BytesFrom(m, 0, n)) = SubSeq(Stream!MessageBytes(more, m), 0 + 1, 0 + n)
    BY <1>3, <1>4, <2>1, PartOfMessage
  <2>3. BytesFrom(m, 0, n) \in Seq(WrittenByte)
    BY <1>3, <1>4, <2>1, PartOfMessage
  <2> QED BY <1>4, <2>2, <2>3
<1>6. ASSUME n = len PROVE SubSeq(Stream!MessageBytes(more, m), 1, n) = Stream!MessageBytes(more, m)
  <2>1. Stream!MessageBytes(more, m) \in Seq(MessageByte) /\ Len(Stream!MessageBytes(more, m)) = n
    BY <1>3, <1>6, MessageBytesType
  <2>2. PICK w \in Seq(MessageByte) : w = Stream!MessageBytes(more, m) /\ Len(w) = n
    BY ONLY <2>1, Zenon
  <2>3. SubSeq(w, 1, Len(w)) = w
    BY ONLY w \in Seq(MessageByte)
  <2> QED BY <2>2, <2>3
<1> QED BY <1>1, <1>2, <1>5, <1>6

LEMMA SendDirectStream ==
  ASSUME IInv, IInv', StreamInv, NEW len \in Lengths, NEW n \in 1 .. len, SendDirect(len, n)
  PROVE  StreamInv' /\ StreamStep
<1>1. QueueOK /\ OthersOK /\ QueueOK' /\ OthersOK'
  BY DEF IInv, TypeOK, QueueOK, OthersOK, WrittenByte
<1>2. CASE Close("short")
  BY <1>2, CloseStream
<1>3. CASE /\ accepted' = Append(accepted, len)
           /\ written' = written \o BytesFrom(Len(accepted'), 0, n)
           /\ IF n = len THEN UNCHANGED queueVars ELSE Queue(Len(accepted'), len, n)
  <2>1. unsent_data = <<>> /\ Sendable
    BY DEF SendDirect, MaySendAtOnce
  <2>2. PICK msgs \in Seq(Lengths) : msgs = accepted
    BY <1>1 DEF OthersOK
  <2>3. PICK m \in Nat : m = Len(msgs) + 1
    OBVIOUS
  <2>4. /\ accepted' = Append(msgs, len) /\ Len(accepted') = m
        /\ m \in 1 .. MaxMsgs /\ len \in Nat \ {0}
    <3>1. accepted' = Append(msgs, len) /\ Len(accepted') = m
      BY <1>3, <2>2, <2>3, AppendProperties
    <3>2. Len(msgs) < MaxMsgs /\ MaxMsgs \in Nat
      BY <2>1, <2>2 DEF Sendable
    <3> QED BY <2>3, <3>1, <3>2, LengthType
  <2>5. PICK bytes \in Seq(WrittenByte) : bytes = BytesFrom(m, 0, n)
    BY <2>3, <2>4, WholeMessage
  <2>6. RealBytes(bytes) = SubSeq(Stream!MessageBytes(accepted', m), 1, n)
    BY <2>3, <2>4, <2>5, WholeMessage
  <2>7. PICK handed \in Seq(WrittenByte) : handed = RealBytes(written)
    BY <1>1, RealType DEF OthersOK
  <2>8. handed = Stream!Bytes(msgs)
    BY <2>1, <2>2, <2>7 DEF StreamInv, StreamPosition
  <2>9. PICK more \in Seq(WrittenByte) : more = RealBytes(bytes)
    BY RealType
  <2>10. RealBytes(written)' = handed \o more
    <3>1. RealBytes(written') = RealBytes(written) \o RealBytes(bytes)
      BY <1>1, <1>3, <2>4, <2>5, RealConcat DEF OthersOK
    <3>2. RealBytes(written)' = RealBytes(written')
      BY DEF RealBytes
    <3> QED BY <2>7, <2>9, <3>1, <3>2
  <2>11. StreamInv'
    <3>1. CASE n = len
      <4>1. unsent_data' = <<>>
        BY <1>3, <2>1, <3>1 DEF queueVars
      <4>2. more = Stream!MessageBytes(accepted', m)
        BY <2>3, <2>4, <2>6, <2>9, <3>1, WholeMessage
      <4>3. handed \o more = Stream!Bytes(accepted')
        BY <2>3, <2>4, <2>8, <4>2, BytesAppend
      <4>4. StreamPosition'
        BY <2>10, <4>1, <4>3 DEF StreamPosition, Stream!Bytes
      <4>5. QueueIsTail'
        <5>1. Len(<<>>) = 0
          OBVIOUS
        <5> QED BY <2>3, <2>4, <4>1, <5>1 DEF QueueIsTail
      <4> QED BY <4>4, <4>5 DEF StreamInv
    <3>2. CASE n # len
      <4>1. Queue(Len(accepted'), len, n) /\ QueueIsTail
        BY <1>3, <3>2 DEF StreamInv
      <4>2. Len(unsent_data) = 0
        BY <2>1
      <4>3. /\ QueueIsTail' /\ unsent_data' # <<>>
            /\ Len(accepted') - Len(unsent_data') = Len(msgs) - Len(unsent_data)
            /\ Head(unsent_data') = [msg |-> Len(msgs) + 1, length |-> len, offset |-> n]
        BY <1>1, <2>1, <2>2, <2>4, <4>1, QueuedIsTail
      <4>4. PICK p \in Nat : p = Len(msgs) /\ p + 1 = m /\ Len(accepted') - Len(unsent_data') = p
        BY <2>3, <4>2, <4>3
      <4>5. Sent(Head(unsent_data')) = n
        <5>1. n # MinusOne
          BY LengthType DEF MinusOne
        <5> QED BY <4>3, <5>1 DEF Sent
      <4>6. SubSeq(accepted', 1, p) = msgs
        <5>1. p \in 0 .. Len(msgs)
          BY <4>4
        <5>2. SubSeq(Append(msgs, len), 1, p) = SubSeq(msgs, 1, p)
          BY <5>1, UptoStays
        <5>3. SubSeq(msgs, 1, p) = msgs
          BY <4>4
        <5> QED BY <2>4, <5>2, <5>3
      <4>7. Upto(accepted', p, n) = handed \o more
        BY <2>6, <2>8, <2>9, <4>4, <4>6 DEF Upto
      <4>8. StreamPosition'
        BY <2>10, <4>3, <4>4, <4>5, <4>7 DEF StreamPosition, Upto, Stream!Bytes, Stream!MessageBytes, Sent
      <4> QED BY <4>3, <4>8 DEF StreamInv
    <3> QED BY <3>1, <3>2
  <2>12. Stream!Deliver
    BY <1>1, <2>7, <2>10, <2>11, StepDelivers
  <2>13. Stream!Accept
    BY <1>3, <2>12 DEF Stream!Accept
  <2> QED BY <2>11, <2>13 DEF StreamStep, Stream!Next
<1> QED BY <1>2, <1>3 DEF SendDirect

LEMMA SendBlockedStream ==
  ASSUME IInv, IInv', StreamInv, NEW len \in Lengths, SendBlocked(len)
  PROVE  StreamInv' /\ StreamStep
<1>1. QueueOK /\ OthersOK /\ QueueOK' /\ OthersOK'
  BY DEF IInv, TypeOK, QueueOK, OthersOK, WrittenByte
<1>2. /\ unsent_data = <<>> /\ accepted' = Append(accepted, len)
      /\ Queue(Len(accepted'), len, MinusOne) /\ written' = written
  BY DEF SendBlocked, MaySendAtOnce
<1>3. PICK msgs \in Seq(Lengths) : msgs = accepted
  BY <1>1 DEF OthersOK
<1>4. QueueIsTail /\ Len(unsent_data) = 0
  BY <1>2 DEF StreamInv
<1>5. accepted' = Append(msgs, len)
  BY <1>2, <1>3
<1>6. /\ QueueIsTail' /\ unsent_data' # <<>>
      /\ Len(accepted') - Len(unsent_data') = Len(msgs) - Len(unsent_data)
      /\ Head(unsent_data') = [msg |-> Len(msgs) + 1, length |-> len, offset |-> MinusOne]
  BY <1>1, <1>2, <1>3, <1>4, <1>5, QueuedIsTail
<1>7. PICK p \in Nat : p = Len(msgs) /\ Len(accepted') - Len(unsent_data') = p
  BY <1>4, <1>6
<1>8. Sent(Head(unsent_data')) = 0
  BY <1>6 DEF Sent
<1>9. SubSeq(accepted', 1, p) = msgs
  <2>1. p \in 0 .. Len(msgs)
    BY <1>7
  <2>2. SubSeq(Append(msgs, len), 1, p) = SubSeq(msgs, 1, p)
    BY <2>1, UptoStays
  <2>3. SubSeq(msgs, 1, p) = msgs
    BY <1>7
  <2> QED BY <1>5, <2>2, <2>3
<1>10. PICK handed \in Seq(WrittenByte) : handed = RealBytes(written)
  BY <1>1, RealType DEF OthersOK
<1>11. handed = Stream!Bytes(msgs)
  BY <1>2, <1>3, <1>10 DEF StreamInv, StreamPosition
<1>12. Upto(accepted', p, 0) = handed
  <2>1. PICK whole \in Seq(MessageByte) : whole = Stream!MessageBytes(accepted', p + 1)
    <3>1. accepted' \in Seq(Lengths) /\ p + 1 \in 1 .. Len(accepted')
      BY <1>3, <1>5, <1>7, AppendProperties
    <3>2. Stream!MessageBytes(accepted', p + 1) \in Seq(MessageByte)
      BY <3>1, MessageBytesType
    <3> QED BY ONLY <3>2, Zenon
  <2>2. SubSeq(whole, 1, 0) = <<>>
    OBVIOUS
  <2>3. handed \o <<>> = handed
    BY ONLY handed \in Seq(WrittenByte), ConcatEmptySeq
  <2> QED BY <1>9, <1>11, <2>1, <2>2, <2>3 DEF Upto
<1>13. RealBytes(written)' = handed /\ RealBytes(written)' = handed \o <<>> /\ <<>> \in Seq(WrittenByte)
  BY <1>2, <1>10 DEF RealBytes
<1>14. StreamInv'
  BY <1>6, <1>7, <1>8, <1>12, <1>13
     DEF StreamInv, StreamPosition, Upto, Stream!Bytes, Stream!MessageBytes, Sent
<1>15. Stream!Deliver
  BY <1>1, <1>10, <1>13, <1>14, StepDelivers
<1> QED BY <1>2, <1>14, <1>15 DEF Stream!Accept, StreamStep, Stream!Next

\* What a resend finds: the messages, its place in them, and the bytes it hands over.
Found(info, n, msgs, p, handed, more, e) ==
  /\ msgs = accepted /\ p = Len(msgs) - Len(unsent_data) /\ p \in 0 .. Len(msgs) - 1
  /\ info.length = msgs[p + 1]
  /\ handed = RealBytes(written) /\ RealBytes(written)' = handed \o more
  /\ e \in 0 .. msgs[p + 1] /\ handed \o more = Upto(msgs, p, e)
  /\ n = Rest(info) => e = info.length
  /\ n # Rest(info) => e = OffsetAfter(info, n)

LEMMA ResendFinds ==
  ASSUME QueueOK, OthersOK, StreamInv, unsent_data # <<>>,
         NEW info, info = Head(unsent_data), NEW n \in 1 .. Rest(info),
         written' = written \o BytesFrom(info.msg, info.offset, n)
  PROVE  \E msgs \in Seq(Lengths), p \in Nat, handed \in Seq(WrittenByte),
            more \in Seq(WrittenByte), e \in Nat : Found(info, n, msgs, p, handed, more, e)
<1>1. /\ info \in Unsent /\ GoodOffset(info)
      /\ info = unsent_data[1] /\ 1 \in 1 .. Len(unsent_data)
  BY HeadType
<1>2. PICK msgs \in Seq(Lengths) : msgs = accepted
  BY DEF OthersOK
<1>3. PICK p \in Nat : p = Len(msgs) - Len(unsent_data) /\ p \in 0 .. Len(msgs) - 1
  <2>1. PICK q \in Nat \ {0} : q = Len(unsent_data)
    BY EmptySeq DEF QueueOK
  <2>2. PICK k \in Nat : k = Len(msgs)
    OBVIOUS
  <2>3. q <= k
    BY <1>2, <2>1, <2>2 DEF StreamInv, QueueIsTail
  <2>4. k - q \in Nat /\ k - q \in 0 .. k - 1
    BY <2>3
  <2> QED BY ONLY <2>1, <2>2, <2>4
<1>4. PICK m \in Nat : m = p + 1 /\ m \in 1 .. Len(msgs)
  <2>1. p + 1 \in Nat /\ p + 1 \in 1 .. Len(msgs)
    BY <1>3, LenProperties
  <2> QED BY ONLY <2>1, Zenon
<1>5. info.msg = m /\ info.length = msgs[m]
  <2>1. /\ info.msg = Len(accepted) - Len(unsent_data) + 1
        /\ info.length = accepted[Len(accepted) - Len(unsent_data) + 1]
    BY <1>1 DEF StreamInv, QueueIsTail
  <2> QED BY <1>2, <1>3, <1>4, <2>1
<1>6. PICK e \in Sent(info) .. info.length :
        /\ RealBytes(BytesFrom(info.msg, info.offset, n)) =
             SubSeq(Stream!MessageBytes(msgs, m), Sent(info) + 1, e)
        /\ n = Rest(info) => e = info.length
        /\ n # Rest(info) => e = OffsetAfter(info, n)
  <2>1. info \in Unsent /\ GoodOffset(info) /\ m \in 1 .. Len(msgs)
    BY ONLY <1>1, <1>4
  <2> QED BY ONLY <1>5, <2>1, n \in 1 .. Rest(info), msgs \in Seq(Lengths), HandsOver, Zenon
<1>7. PICK len \in Nat \ {0} : len = info.length /\ len = msgs[p + 1]
  <2>1. msgs[m] \in Nat \ {0}
    BY <1>4, MessageBytesType
  <2> QED BY <1>4, <1>5, <2>1
<1>8. PICK k \in Nat : k = Sent(info) /\ k \in 0 .. len
  <2>1. info.offset \in 0 .. len - 1 \/ info.offset = MinusOne
    BY <1>1, <1>7 DEF GoodOffset
  <2> QED BY <2>1 DEF Sent
<1>9. e \in Nat /\ e \in 0 .. len /\ k \in 0 .. e
  BY <1>6, <1>7, <1>8
<1>10. PICK handed \in Seq(WrittenByte) : handed = RealBytes(written)
  BY RealType DEF OthersOK
<1>11. handed = Upto(msgs, p, k)
  BY <1>2, <1>3, <1>8, <1>10 DEF StreamInv, StreamPosition
<1>12. PICK bytes \in Seq(WrittenByte) : bytes = BytesFrom(info.msg, info.offset, n)
  <2>1. info.msg \in 1 .. MaxMsgs /\ info.offset \in 0 .. OffsetModulus - 1 /\ n \in Nat
    BY <1>1, HeadBytes DEF Unsent
  <2>2. BytesFrom(info.msg, info.offset, n) \in Seq(WrittenByte)
    BY <2>1, BytesFromType
  <2> QED BY ONLY <2>2, Zenon
<1>13. PICK more \in Seq(WrittenByte) : more = RealBytes(bytes)
  BY RealType
<1>14. RealBytes(written)' = handed \o more
  <2>1. RealBytes(written') = RealBytes(written) \o RealBytes(bytes)
    BY <1>12, RealConcat DEF OthersOK
  <2>2. RealBytes(written)' = RealBytes(written')
    BY DEF RealBytes
  <2> QED BY <1>10, <1>13, <2>1, <2>2
<1>15. handed \o more = Upto(msgs, p, e)
  <2>1. more = SubSeq(Stream!MessageBytes(msgs, p + 1), k + 1, e)
    BY <1>4, <1>6, <1>8, <1>12, <1>13
  <2>2. e \in 0 .. msgs[p + 1]
    BY <1>7, <1>9
  <2>3. Upto(msgs, p, k) \o SubSeq(Stream!MessageBytes(msgs, p + 1), k + 1, e) = Upto(msgs, p, e)
    BY <1>3, <1>9, <2>2, FurtherInMessage
  <2> QED BY <1>11, <2>1, <2>3
<1>16. info.length = msgs[p + 1] /\ e \in 0 .. msgs[p + 1]
  BY <1>7, <1>9
<1>17. Found(info, n, msgs, p, handed, more, e)
  BY <1>2, <1>3, <1>6, <1>10, <1>14, <1>15, <1>16 DEF Found
<1> QED BY <1>9, <1>17

LEMMA ResendAllStream ==
  ASSUME IInv, IInv', StreamInv, ResendAll
  PROVE  StreamInv' /\ StreamStep
<1>1. QueueOK /\ OthersOK /\ QueueOK' /\ OthersOK' /\ ResendHasHead
  BY DEF IInv, TypeOK, QueueOK, OthersOK, WrittenByte
<1>2. PICK info : info = Head(unsent_data)
  OBVIOUS
<1>3. /\ unsent_data # <<>> /\ accepted' = accepted
      /\ written' = written \o BytesFrom(info.msg, info.offset, Rest(info))
      /\ unsent_data' = Tail(unsent_data)
  BY <1>1, <1>2 DEF ResendAll, ResendHasHead
<1>4. Rest(info) \in 1 .. Rest(info)
  <2>1. PICK len \in Lengths, off \in 0 .. OffsetModulus - 1 :
          len = info.length /\ off = info.offset /\ (off \in 0 .. len - 1 \/ off = OffsetModulus - 1)
    BY <1>1, <1>2, <1>3, HeadType DEF Unsent, GoodOffset, MinusOne
  <2>2. len \in Nat \ {0} /\ len + 1 < OffsetModulus /\ OffsetModulus \in Nat \ {0}
    BY LengthType
  <2>3. Rest(info) = IF off = OffsetModulus - 1 THEN len + 1 ELSE len - off
    BY <2>1, <2>2, RestValue DEF Rest
  <2> QED BY <2>1, <2>2, <2>3
<1>a. PICK msgs \in Seq(Lengths), p \in Nat, handed \in Seq(WrittenByte),
           more \in Seq(WrittenByte), e \in Nat : Found(info, Rest(info), msgs, p, handed, more, e)
  BY <1>1, <1>2, <1>3, <1>4, ResendFinds
<1>5. /\ msgs = accepted /\ p = Len(msgs) - Len(unsent_data) /\ p \in 0 .. Len(msgs) - 1
      /\ info.length = msgs[p + 1]
      /\ handed = RealBytes(written) /\ RealBytes(written)' = handed \o more
      /\ e \in 0 .. msgs[p + 1] /\ handed \o more = Upto(msgs, p, e)
      /\ e = info.length
  BY <1>a DEF Found
<1>6. PICK queue \in Seq(Unsent) : queue = unsent_data /\ queue # <<>>
  BY <1>1, <1>3 DEF QueueOK
<1>7. PICK q \in Nat : q = Len(queue) /\ q # 0
  BY <1>6, EmptySeq
<1>8. /\ Len(unsent_data') = q - 1 /\ unsent_data' \in Seq(Unsent)
      /\ \A k \in 1 .. q - 1 : unsent_data'[k] = queue[k + 1]
  BY <1>3, <1>6, <1>7, HeadTailProperties
<1>9. PICK n \in Nat : n = Len(msgs) /\ q <= n /\ p = n - q
  BY <1>5, <1>6, <1>7 DEF StreamInv, QueueIsTail
<1>10. QueueIsTail'
  <2>1. ASSUME NEW k \in 1 .. q - 1
        PROVE  /\ unsent_data'[k].msg = n - (q - 1) + k
               /\ unsent_data'[k].length = msgs[n - (q - 1) + k]
    <3>1. k + 1 \in 1 .. q /\ n - (q - 1) + k = n - q + (k + 1)
      BY <1>9
    <3>2. queue[k + 1].msg = n - q + (k + 1) /\ queue[k + 1].length = msgs[n - q + (k + 1)]
      BY <1>5, <1>6, <1>7, <1>9, <3>1 DEF StreamInv, QueueIsTail
    <3> QED BY <1>8, <3>1, <3>2
  <2>2. q - 1 <= n
    BY <1>9
  <2> QED BY <1>3, <1>5, <1>8, <1>9, <2>1, <2>2 DEF QueueIsTail
<1>11. Upto(msgs, p, e) = Stream!Bytes(SubSeq(msgs, 1, p + 1))
  <2>1. p + 1 \in 1 .. Len(msgs)
    BY <1>5
  <2>2. PICK whole \in Seq(MessageByte) : whole = Stream!MessageBytes(msgs, p + 1) /\ Len(whole) = e
    <3>1. /\ Stream!MessageBytes(msgs, p + 1) \in Seq(MessageByte)
          /\ Len(Stream!MessageBytes(msgs, p + 1)) = e
      BY <1>5, <2>1, MessageBytesType
    <3> QED BY ONLY <3>1, Zenon
  <2>3. SubSeq(whole, 1, e) = whole
    BY <2>2
  <2>4. p \in 0 .. Len(msgs) - 1
    BY <1>5
  <2> QED BY <2>2, <2>3, <2>4, BytesNext DEF Upto
<1>12. StreamPosition'
  <2>1. CASE unsent_data' = <<>>
    <3>1. q = 1
      BY <1>8, <2>1
    <3>2. p + 1 = Len(msgs)
      BY <1>9, <3>1
    <3>3. SubSeq(msgs, 1, p + 1) = msgs
      BY <3>2
    <3> QED BY <1>3, <1>5, <1>11, <2>1, <3>3 DEF StreamPosition, Stream!Bytes
  <2>2. CASE unsent_data' # <<>>
    <3>1. PICK next : next = Head(unsent_data')
      OBVIOUS
    <3>2. q - 1 # 0 /\ 1 \in 1 .. q - 1 /\ next = queue[2]
      <4>1. Len(unsent_data') # 0
        BY <1>8, <2>2, EmptySeq
      <4>2. 1 \in 1 .. q - 1
        BY <1>8, <4>1
      <4>3. next = unsent_data'[1]
        BY <1>8, <2>2, <3>1
      <4> QED BY <1>8, <4>2, <4>3
    <3>3. next.offset = 0
      <4>1. 2 \in 1 .. Len(unsent_data) /\ 2 > 1
        BY <1>6, <1>7, <3>2
      <4> QED BY <1>1, <1>6, <3>2, <4>1 DEF QueueOK, OnlyHeadPartial
    <3>4. Sent(next) = 0
      BY <3>3 DEF Sent
    <3>5. p + 1 \in 0 .. Len(msgs) - 1 /\ Len(msgs) - (q - 1) = p + 1 /\ p + 1 + 1 \in 1 .. Len(msgs)
      BY <1>8, <1>9, <3>2
    <3>6. Upto(msgs, p + 1, 0) = Stream!Bytes(SubSeq(msgs, 1, p + 1))
      <4>1. PICK whole \in Seq(MessageByte) : whole = Stream!MessageBytes(msgs, p + 1 + 1)
        <5>1. Stream!MessageBytes(msgs, p + 1 + 1) \in Seq(MessageByte)
          BY <3>5, MessageBytesType
        <5> QED BY ONLY <5>1, Zenon
      <4>2. SubSeq(whole, 1, 0) = <<>>
        OBVIOUS
      <4>3. PICK done \in Seq(MessageByte) : done = Stream!Bytes(SubSeq(msgs, 1, p + 1))
        <5>1. p + 1 \in 0 .. Len(msgs)
          BY <3>5
        <5>2. SubSeq(msgs, 1, p + 1) \in Seq(Lengths)
          BY <5>1, BytesSplit
        <5>3. Stream!Bytes(SubSeq(msgs, 1, p + 1)) \in Seq(MessageByte)
          BY <5>2, BytesInSeq
        <5> QED BY ONLY <5>3, Zenon
      <4>4. done \o <<>> = done
        BY ONLY done \in Seq(MessageByte), ConcatEmptySeq
      <4> QED BY <4>1, <4>2, <4>3, <4>4 DEF Upto
    <3>7. RealBytes(written)' = Upto(accepted', Len(accepted') - Len(unsent_data'), Sent(Head(unsent_data')))
      BY <1>3, <1>5, <1>8, <1>11, <3>1, <3>4, <3>5, <3>6
    <3> QED BY <2>2, <3>7 DEF StreamPosition, Upto, Stream!Bytes, Stream!MessageBytes, Sent
  <2> QED BY <2>1, <2>2
<1>13. StreamInv'
  BY <1>10, <1>12 DEF StreamInv
<1>14. Stream!Deliver
  BY <1>1, <1>5, <1>13, StepDelivers
<1> QED BY <1>3, <1>13, <1>14 DEF Stream!Flush, StreamStep, Stream!Next

LEMMA ResendPartStream ==
  ASSUME IInv, IInv', StreamInv, NEW n \in Nat, ResendPart(n)
  PROVE  StreamInv' /\ StreamStep
<1>1. QueueOK /\ OthersOK /\ QueueOK' /\ OthersOK' /\ ResendHasHead
  BY DEF IInv, TypeOK, QueueOK, OthersOK, WrittenByte
<1>2. PICK info : info = Head(unsent_data)
  OBVIOUS
<1>3. /\ unsent_data # <<>> /\ accepted' = accepted
      /\ n \in 1 .. Rest(info) - 1
      /\ written' = written \o BytesFrom(info.msg, info.offset, n)
      /\ unsent_data' = [unsent_data EXCEPT ![1].offset = OffsetAfter(info, n)]
  BY <1>1, <1>2 DEF ResendPart, ResendHasHead
<1>4. n \in 1 .. Rest(info) /\ n # Rest(info)
  <2>1. Rest(info) \in Nat
    BY <1>1, <1>2, <1>3, HeadBytes
  <2> QED BY <1>3, <2>1
<1>a. PICK msgs \in Seq(Lengths), p \in Nat, handed \in Seq(WrittenByte),
           more \in Seq(WrittenByte), e \in Nat : Found(info, n, msgs, p, handed, more, e)
  BY <1>1, <1>2, <1>3, <1>4, ResendFinds
<1>5. /\ msgs = accepted /\ p = Len(msgs) - Len(unsent_data)
      /\ handed = RealBytes(written) /\ RealBytes(written)' = handed \o more
      /\ handed \o more = Upto(msgs, p, e)
      /\ e = OffsetAfter(info, n)
  BY <1>4, <1>a DEF Found
<1>6. PICK queue \in Seq(Unsent) : queue = unsent_data /\ queue # <<>>
  BY <1>1, <1>3 DEF QueueOK
<1>7. PICK q \in Nat : q = Len(queue) /\ 1 \in 1 .. q
  BY <1>6, EmptySeq
<1>8. info \in Unsent /\ GoodOffset(info) /\ info = queue[1]
  BY <1>1, <1>2, <1>3, <1>6, HeadType
<1>9. e # MinusOne
  <2>1. e \in 0 .. info.length - 1
    BY <1>3, <1>5, <1>8, OffsetAfterShortSend
  <2>2. info.length \in Nat /\ info.length + 1 < OffsetModulus
    BY <1>8, LengthType DEF Unsent
  <2> QED BY <2>1, <2>2 DEF MinusOne
<1>10. PICK moved : moved = [info EXCEPT !.offset = e]
  OBVIOUS
<1>11. moved.msg = info.msg /\ moved.length = info.length /\ moved.offset = e
  BY <1>8, <1>10 DEF Unsent
<1>12. unsent_data' = [queue EXCEPT ![1] = moved]
  BY <1>3, <1>5, <1>6, <1>8, <1>10
<1>13. /\ Len(unsent_data') = q /\ unsent_data' # <<>>
       /\ \A k \in 1 .. q : unsent_data'[k] = IF k = 1 THEN moved ELSE queue[k]
       /\ Head(unsent_data') = moved
  <2>1. DOMAIN unsent_data' = 1 .. q
    BY <1>6, <1>7, <1>12
  <2>2. unsent_data' \in Seq(Unsent)
    BY <1>1 DEF QueueOK
  <2>3. Len(unsent_data') = q
    BY <2>1, <2>2, LenProperties
  <2>4. \A k \in 1 .. q : unsent_data'[k] = IF k = 1 THEN moved ELSE queue[k]
    BY <1>6, <1>7, <1>12
  <2>5. unsent_data' # <<>>
    BY <1>7, <2>3
  <2>6. Head(unsent_data') = unsent_data'[1]
    BY <2>2, <2>5
  <2> QED BY <1>7, <2>3, <2>4, <2>5, <2>6
<1>14. QueueIsTail'
  <2>1. ASSUME NEW k \in 1 .. q
        PROVE  unsent_data'[k].msg = queue[k].msg /\ unsent_data'[k].length = queue[k].length
    BY <1>8, <1>11, <1>13
  <2>2. /\ q <= Len(accepted)
        /\ \A k \in 1 .. q : LET m == Len(accepted) - q + k
                             IN  queue[k].msg = m /\ queue[k].length = accepted[m]
    BY <1>6, <1>7 DEF StreamInv, QueueIsTail
  <2>3. Len(unsent_data') = q /\ accepted' = accepted
    BY <1>3, <1>13
  <2> QED BY ONLY <2>1, <2>2, <2>3 DEF QueueIsTail
<1>15. Sent(Head(unsent_data')) = e
  BY <1>9, <1>11, <1>13 DEF Sent
<1>16. RealBytes(written)' = Upto(accepted', Len(accepted') - Len(unsent_data'), Sent(Head(unsent_data')))
  BY <1>3, <1>5, <1>6, <1>7, <1>13, <1>15
<1>17. StreamInv'
  BY <1>13, <1>14, <1>16
     DEF StreamInv, StreamPosition, Upto, Stream!Bytes, Stream!MessageBytes, Sent
<1>18. Stream!Deliver
  BY <1>1, <1>5, <1>17, StepDelivers
<1> QED BY <1>3, <1>17, <1>18 DEF Stream!Flush, StreamStep, Stream!Next

-----------------------------------------------------------------------------
(***************************************************************************)
(* The refinement                                                          *)
(***************************************************************************)

LEMMA InitStream == Init => StreamInv /\ Stream!Init
<1> SUFFICES ASSUME Init PROVE StreamInv /\ Stream!Init
  OBVIOUS
<1>1. unsent_data = <<>> /\ accepted = <<>> /\ written = <<>> /\ Len(<<>>) = 0
  BY DEF Init
<1>2. RealBytes(written) = <<>>
  BY <1>1, RealNothing
<1>3. Stream!Bytes(<<>>) = <<>>
  <2>1. [m \in 1 .. 0 |-> Stream!MessageBytes(<<>>, m)] = <<>>
    OBVIOUS
  <2> QED BY <1>1, <2>1, SameFlatten, FlattenEmpty DEF Stream!Bytes
<1> QED BY <1>1, <1>2, <1>3 DEF StreamInv, QueueIsTail, StreamPosition, Stream!Init

LEMMA NextStream == IInv /\ IInv' /\ StreamInv /\ [Next]_vars => StreamInv' /\ StreamStep
<1> SUFFICES ASSUME IInv, IInv', StreamInv, [Next]_vars PROVE StreamInv' /\ StreamStep
  OBVIOUS
<1>1. CASE SendMsg
  <2>1. ASSUME NEW len \in Lengths, SendBehind(len) PROVE StreamInv' /\ StreamStep
    BY <2>1, SendBehindStream
  <2>2. ASSUME NEW len \in Lengths, SendBlocked(len) PROVE StreamInv' /\ StreamStep
    BY <2>2, SendBlockedStream
  <2>3. ASSUME NEW len \in Lengths, NEW n \in 1 .. len, SendDirect(len, n)
        PROVE  StreamInv' /\ StreamStep
    BY <2>3, SendDirectStream
  <2>4. CASE SendFails
    BY <2>4, CloseStream DEF SendFails
  <2> QED BY <1>1, <2>1, <2>2, <2>3, <2>4 DEF SendMsg
<1>2. CASE BeginResend
  BY <1>2, QuietStream DEF BeginResend, queueVars
<1>3. CASE ResendWrites
  <2>1. CASE ResendAll
    BY <2>1, ResendAllStream
  <2>2. ASSUME NEW len \in Lengths, NEW n \in 1 .. len, ResendPart(n)
        PROVE  StreamInv' /\ StreamStep
    <3>1. n \in Nat
      BY LengthType
    <3> QED BY <2>2, <3>1, ResendPartStream
  <2> QED BY <1>3, <2>1, <2>2 DEF ResendWrites
<1>4. CASE ResendPartFails
  BY <1>4, CloseStream DEF ResendPartFails
<1>5. CASE ResendBlocked
  BY <1>5, QuietStream DEF ResendBlocked, queueVars
<1>6. CASE ResendFails
  BY <1>6, CloseStream DEF ResendFails
<1>7. CASE Drop
  BY <1>7, CloseStream DEF Drop
<1>8. CASE Connect
  BY <1>8, QuietStream DEF Connect, queueVars
<1>9. CASE UNCHANGED vars
  BY <1>9, QuietStream DEF vars, queueVars
<1> QED
  BY <1>1, <1>2, <1>3, <1>4, <1>5, <1>6, <1>7, <1>8, <1>9 DEF Next

\* The bytes of all messages before those that wait are out, in order, and of the
\* first that waits those before its offset.
THEOREM StreamStands == Spec => []StreamInv
<1>1. Init => StreamInv
  BY InitStream
<1>2. IInv /\ IInv' /\ StreamInv /\ [Next]_vars => StreamInv'
  BY NextStream
<1> QED BY <1>1, <1>2, SendQueueInvariant, PTL DEF Spec

\* The queue implements the byte stream: whatever mix of direct sends, short sends,
\* queueing and resends carries it, the bytes of the messages that send_sock_msg took
\* are handed over one after the other, none twice and none left out.
THEOREM SendQueueImplementsByteStream == Spec => ImplementsByteStream
<1>1. Init => Stream!Init
  BY InitStream
<1>2. IInv /\ IInv' /\ StreamInv /\ [Next]_vars => [Stream!Next]_<<accepted, RealBytes(written)>>
  BY NextStream DEF StreamStep, Handed
<1> QED
  BY <1>1, <1>2, SendQueueInvariant, StreamStands, PTL DEF Spec, ImplementsByteStream, Stream!Spec

=============================================================================

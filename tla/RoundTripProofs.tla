-------------------------- MODULE RoundTripProofs --------------------------
(***************************************************************************)
(* Decoding and encoding again lose nothing: for every torrent with its    *)
(* keys in order, every hash function, every bound and every crash, the    *)
(* infohash stays that of the info dictionary of the original file, and    *)
(* each start has the bitfield that was saved last.                        *)
(*                                                                         *)
(* The proof has three parts.  Spells says what the encoder writes of      *)
(* items in so many levels, and Reads what the decoder makes of tokens, so *)
(* that both can be put together piece by piece.  Then each item of a      *)
(* sorted file is read as a node that is written as that item, by          *)
(* induction over its length, and the client keeps such a node under info. *)
(* Last, what the client has decoded is the root of the original file with *)
(* a state in its slot; written and read it is so again, the bitfield      *)
(* first, and a start is one of PieceStore.                                *)
(***************************************************************************)
EXTENDS ResumeProofs

-----------------------------------------------------------------------------
(***************************************************************************)
(* What bencoding_encode writes of items, in n levels                      *)
(***************************************************************************)

\* Items that stay items of the set at every level.
Codable(I, start) == \A x \in I : Unfolded(x, start) \in Seq(I) /\ Written(x) \in Seq(I)

LevelsFrom(items, start, I, g, n) ==
  /\ g \in [0 .. n -> Seq(I)] /\ g[0] = items
  /\ \A k \in 1 .. n : g[k] = Encoded(g[k - 1], start)

Spells(items, start, n, tokens) ==
  \E I, g : /\ Codable(I, start) /\ LevelsFrom(items, start, I, g, n)
            /\ tokens = TokensOf(g[n]) /\ tokens \in Seq(I)

LEMMA CodableUnion ==
  ASSUME NEW start, NEW I, Codable(I, start), NEW J, Codable(J, start)
  PROVE  Codable(I \cup J, start)
<1>1. Seq(I) \subseteq Seq(I \cup J) /\ Seq(J) \subseteq Seq(I \cup J)
  BY SeqMonotonic
<1> QED BY <1>1 DEF Codable

LEMMA SpellsConcat ==
  ASSUME NEW start, NEW n \in Nat, NEW a, NEW s, Spells(a, start, n, s),
         NEW b, NEW t, Spells(b, start, n, t)
  PROVE  Spells(a \o b, start, n, s \o t)
<1>1. PICK I1, g : /\ Codable(I1, start) /\ LevelsFrom(a, start, I1, g, n)
                   /\ s = TokensOf(g[n]) /\ s \in Seq(I1)
  BY DEF Spells
<1>2. PICK I2, h : /\ Codable(I2, start) /\ LevelsFrom(b, start, I2, h, n)
                   /\ t = TokensOf(h[n]) /\ t \in Seq(I2)
  BY DEF Spells
<1>3. PICK I : I = I1 \cup I2
  OBVIOUS
<1>4. Codable(I, start) /\ Seq(I1) \subseteq Seq(I) /\ Seq(I2) \subseteq Seq(I)
  BY <1>1, <1>2, <1>3, CodableUnion, SeqMonotonic
<1>5. \A k \in 0 .. n : g[k] \in Seq(I) /\ h[k] \in Seq(I)
  BY <1>1, <1>2, <1>4 DEF LevelsFrom
<1>6. PICK f : f = [k \in 0 .. n |-> g[k] \o h[k]]
  OBVIOUS
<1>7. f \in [0 .. n -> Seq(I)] /\ \A k \in 0 .. n : f[k] = g[k] \o h[k]
  BY <1>5, <1>6, ConcatProperties
<1>8. ASSUME NEW k \in 1 .. n PROVE f[k] = Encoded(f[k - 1], start)
  <2>1. k \in 0 .. n /\ k - 1 \in 0 .. n
    OBVIOUS
  <2>2. f[k] = g[k] \o h[k] /\ f[k - 1] = g[k - 1] \o h[k - 1]
    BY <1>7, <2>1
  <2>3. g[k] = Encoded(g[k - 1], start) /\ h[k] = Encoded(h[k - 1], start)
    BY <1>1, <1>2 DEF LevelsFrom
  <2>4. g[k - 1] \in Seq(I) /\ h[k - 1] \in Seq(I)
    BY <1>5, <2>1
  <2>5. Encoded(g[k - 1] \o h[k - 1], start) = Encoded(g[k - 1], start) \o Encoded(h[k - 1], start)
    <3>1. PICK p \in Seq(I), q \in Seq(I) : p = g[k - 1] /\ q = h[k - 1]
      BY <2>4
    <3>2. \A x \in I : Unfolded(x, start) \in Seq(I) /\ Written(x) \in Seq(I)
      BY <1>4 DEF Codable
    <3>3. /\ Encoded(p \o q, start) = Encoded(p, start) \o Encoded(q, start)
          /\ TokensOf(p \o q) = TokensOf(p) \o TokensOf(q)
      BY ONLY <3>2, p \in Seq(I), q \in Seq(I), EncodedConcat
    <3> QED BY <3>1, <3>3
  <2> QED BY <2>2, <2>3, <2>5
<1>9. f[0] = a \o b /\ TokensOf(f[n]) = s \o t
  <2>1. 0 \in 0 .. n /\ n \in 0 .. n
    OBVIOUS
  <2>2. g[0] = a /\ h[0] = b
    BY <1>1, <1>2 DEF LevelsFrom
  <2>3. TokensOf(g[n] \o h[n]) = TokensOf(g[n]) \o TokensOf(h[n])
    BY <1>4, <1>5, <2>1, EncodedConcat DEF Codable
  <2> QED BY <1>1, <1>2, <1>7, <2>1, <2>2, <2>3
<1>10. LevelsFrom(a \o b, start, I, f, n)
  BY <1>7, <1>8, <1>9 DEF LevelsFrom
<1>11. s \o t \in Seq(I)
  BY <1>1, <1>2, <1>4, ConcatProperties
<1> QED BY <1>4, <1>9, <1>10, <1>11 DEF Spells

\* One item alone.
LEMMA EncodedSingle ==
  ASSUME NEW start, NEW I, Codable(I, start), NEW x \in I
  PROVE  Encoded(<<x>>, start) = Unfolded(x, start) /\ TokensOf(<<x>>) = Written(x)
<1>0. Unfolded(x, start) \in Seq(I) /\ Written(x) \in Seq(I)
  BY DEF Codable
<1>1. ASSUME NEW J, NEW s \in Seq(J)
      PROVE  FlattenSeq([k \in 1 .. 1 |-> s]) = s
  <2>1. [k \in 1 .. 1 |-> s] = Append(<<>>, s)
    OBVIOUS
  <2>2. <<>> \in Seq(Seq(J)) /\ <<>> \o s = s
    OBVIOUS
  <2> QED BY <2>1, <2>2, FlattenAppend, FlattenEmpty
<1>2. PICK r : r = <<x>>
  OBVIOUS
<1>3. DOMAIN r = 1 .. 1 /\ \A k \in 1 .. 1 : r[k] = x
  BY <1>2
<1>4. /\ Pieced(r, start) = [k \in 1 .. 1 |-> Unfolded(x, start)]
      /\ Texted(r) = [k \in 1 .. 1 |-> Written(x)]
  BY <1>3 DEF Pieced, Texted
<1>5. /\ FlattenSeq([k \in 1 .. 1 |-> Unfolded(x, start)]) = Unfolded(x, start)
      /\ FlattenSeq([k \in 1 .. 1 |-> Written(x)]) = Written(x)
  BY <1>0, <1>1
<1> QED BY <1>2, <1>4, <1>5, EncodedIs

LEMMA EncodedNothing ==
  ASSUME NEW start
  PROVE  Encoded(<<>>, start) = <<>> /\ TokensOf(<<>>) = <<>>
<1>1. PICK r : r = <<>>
  OBVIOUS
<1>2. Pieced(r, start) = <<>> /\ Texted(r) = <<>>
  <2>1. DOMAIN r = {}
    BY <1>1
  <2> QED BY <1>1, <2>1 DEF Pieced, Texted
<1> QED BY <1>1, <1>2, EncodedIs, FlattenEmpty

\* What stays as it is at every level.
LEMMA SpellsFixed ==
  ASSUME NEW start, NEW n \in Nat, NEW I, Codable(I, start), NEW s \in Seq(I),
         Encoded(s, start) = s, TokensOf(s) = s
  PROVE  Spells(s, start, n, s)
<1>1. PICK g : g = [k \in 0 .. n |-> s]
  OBVIOUS
<1>2. g \in [0 .. n -> Seq(I)] /\ \A k \in 0 .. n : g[k] = s
  BY <1>1
<1>3. ASSUME NEW k \in 1 .. n PROVE g[k] = Encoded(g[k - 1], start)
  <2>1. k \in 0 .. n /\ k - 1 \in 0 .. n
    OBVIOUS
  <2> QED BY <1>2, <2>1
<1>4. 0 \in 0 .. n /\ n \in 0 .. n
  OBVIOUS
<1>5. LevelsFrom(s, start, I, g, n) /\ TokensOf(g[n]) = s
  BY <1>2, <1>3, <1>4 DEF LevelsFrom
<1> QED BY <1>5 DEF Spells

LEMMA SpellsNothing ==
  ASSUME NEW start, NEW n \in Nat
  PROVE  Spells(<<>>, start, n, <<>>)
<1>1. Codable({}, start) /\ <<>> \in Seq({})
  BY DEF Codable
<1> QED BY <1>1, EncodedNothing, SpellsFixed

LEMMA SpellsToken ==
  ASSUME NEW start, NEW n \in Nat, NEW x, x.t # "node"
  PROVE  Spells(<<x>>, start, n, <<x>>)
<1>1. Unfolded(x, start) = <<x>> /\ Written(x) = <<x>>
  BY DEF Unfolded, Written
<1>2. Codable({x}, start) /\ <<x>> \in Seq({x}) /\ x \in {x}
  <2>1. <<x>> \in Seq({x})
    OBVIOUS
  <2> QED BY <1>1, <2>1 DEF Codable
<1> QED BY <1>1, <1>2, EncodedSingle, SpellsFixed

\* Items spell what they are encoded as, one level more.
LEMMA SpellsUnfolded ==
  ASSUME NEW start, NEW n \in Nat, NEW I, Codable(I, start), NEW items \in Seq(I), NEW tokens,
         Spells(Encoded(items, start), start, n, tokens)
  PROVE  Spells(items, start, n + 1, tokens)
<1>1. PICK J, h : /\ Codable(J, start) /\ LevelsFrom(Encoded(items, start), start, J, h, n)
                  /\ tokens = TokensOf(h[n]) /\ tokens \in Seq(J)
  BY DEF Spells
<1>2. PICK U : U = I \cup J
  OBVIOUS
<1>3. Seq(J) \subseteq Seq(U) /\ Seq(I) \subseteq Seq(U) /\ Codable(U, start)
  BY <1>1, <1>2, SeqMonotonic, CodableUnion
<1>4. h[0] = Encoded(items, start) /\ \A k \in 0 .. n : h[k] \in Seq(J)
  BY <1>1 DEF LevelsFrom
<1>5. PICK g : g = [k \in 0 .. n + 1 |-> IF k = 0 THEN items ELSE h[k - 1]]
  OBVIOUS
<1>6. ASSUME NEW k \in 1 .. n + 1 PROVE g[k] = h[k - 1] /\ k - 1 \in 0 .. n
  BY <1>5
<1>7. g[0] = items
  BY <1>5
<1>8. g \in [0 .. n + 1 -> Seq(U)]
  <2>1. ASSUME NEW k \in 0 .. n + 1 PROVE g[k] \in Seq(U)
    <3>1. CASE k = 0
      BY <1>3, <1>7, <3>1
    <3>2. CASE k # 0
      <4>1. k \in 1 .. n + 1
        BY <3>2
      <4> QED BY <1>3, <1>4, <1>6, <4>1
    <3> QED BY <3>1, <3>2
  <2>2. g = [k \in 0 .. n + 1 |-> g[k]]
    BY <1>5
  <2> QED BY <2>1, <2>2
<1>9. ASSUME NEW k \in 1 .. n + 1 PROVE g[k] = Encoded(g[k - 1], start)
  <2>1. CASE k = 1
    BY <1>4, <1>6, <1>7, <2>1
  <2>2. CASE k # 1
    <3>1. k - 1 \in 1 .. n /\ k - 1 \in 1 .. n + 1
      BY <2>2
    <3>2. g[k] = h[k - 1] /\ g[k - 1] = h[k - 1 - 1]
      BY <1>6, <3>1
    <3> QED BY <1>1, <3>1, <3>2 DEF LevelsFrom
  <2> QED BY <2>1, <2>2
<1>10. g[n + 1] = h[n]
  <2>1. n + 1 \in 1 .. n + 1 /\ n + 1 - 1 = n
    OBVIOUS
  <2> QED BY <1>6, <2>1
<1>11. LevelsFrom(items, start, U, g, n + 1)
  BY <1>7, <1>8, <1>9 DEF LevelsFrom
<1> QED BY <1>1, <1>3, <1>10, <1>11 DEF Spells

\* So a node is what it is encoded as, one level more.
LEMMA SpellsNode ==
  ASSUME NEW start, NEW n \in Nat, NEW node, NEW tokens,
         Spells(encode_helper(node, start), start, n, tokens)
  PROVE  Spells(<<ToEncode(node)>>, start, n + 1, tokens)
<1>1. PICK J : Codable(J, start) /\ encode_helper(node, start) \in Seq(J)
  <2>1. PICK J, h : Codable(J, start) /\ LevelsFrom(encode_helper(node, start), start, J, h, n)
    BY DEF Spells
  <2>2. 0 \in 0 .. n
    OBVIOUS
  <2> QED BY <2>1, <2>2 DEF LevelsFrom
<1>2. PICK x : x = ToEncode(node)
  OBVIOUS
<1>3. PICK I : I = J \cup {x}
  OBVIOUS
<1>4. Unfolded(x, start) = encode_helper(node, start) /\ Written(x) = <<>>
  BY <1>2 DEF Unfolded, Written, ToEncode
<1>5. Codable(I, start) /\ x \in I /\ <<x>> \in Seq(I)
  <2>1. Seq(J) \subseteq Seq(I) /\ <<x>> \in Seq(I) /\ <<>> \in Seq(I)
    BY <1>3, SeqMonotonic
  <2> QED BY <1>1, <1>3, <1>4, <2>1 DEF Codable
<1>6. Encoded(<<x>>, start) = encode_helper(node, start)
  BY <1>4, <1>5, EncodedSingle
<1> QED BY <1>2, <1>5, <1>6, SpellsUnfolded

\* The levels are those of the items: what is written is one thing.
LEMMA LevelsAgree ==
  ASSUME NEW items, NEW start, NEW n \in Nat, NEW I, NEW g, LevelsFrom(items, start, I, g, n),
         NEW h, DOMAIN h = 0 .. n, h[0] = items,
         \A k \in 1 .. n : h[k] = Encoded(h[k - 1], start)
  PROVE  \A k \in 0 .. n : h[k] = g[k]
<1> DEFINE T == {i \in 0 .. n : h[i] # g[i]}
<1> SUFFICES ASSUME T # {} PROVE FALSE
  OBVIOUS
<1>1. PICK i \in T : \A y \in T : i <= y
  <2>1. T \subseteq Nat
    OBVIOUS
  <2> HIDE DEF T
  <2> QED BY <2>1, LeastNumber
<1>2. i \in 0 .. n /\ h[i] # g[i]
  OBVIOUS
<1>3. i # 0
  BY <1>2 DEF LevelsFrom
<1>4. i - 1 \in 0 .. n /\ i \in 1 .. n /\ ~ (i <= i - 1)
  BY <1>2, <1>3
<1>5. i - 1 \notin T
  <2> HIDE DEF T
  <2> QED BY <1>1, <1>4, Zenon
<1>6. h[i - 1] = g[i - 1]
  BY <1>4, <1>5
<1> QED BY <1>2, <1>4, <1>6 DEF LevelsFrom

LEMMA SpellsOnce ==
  ASSUME NEW items, NEW start, NEW n \in Nat, NEW s, Spells(items, start, n, s),
         NEW t, Spells(items, start, n, t)
  PROVE  s = t
<1>1. PICK I, g : LevelsFrom(items, start, I, g, n) /\ s = TokensOf(g[n])
  BY DEF Spells
<1>2. PICK J, h : LevelsFrom(items, start, J, h, n) /\ t = TokensOf(h[n])
  BY DEF Spells
<1>3. h[n] = g[n]
  <2>1. n \in 0 .. n
    OBVIOUS
  <2>2. /\ DOMAIN h = 0 .. n /\ h[0] = items
        /\ \A k \in 1 .. n : h[k] = Encoded(h[k - 1], start)
    BY <1>2 DEF LevelsFrom
  <2> QED BY <1>1, <2>1, <2>2, LevelsAgree
<1> QED BY <1>1, <1>2, <1>3

\* bencoding_encode writes what all of its levels spell.
LEMMA EncodeSpells ==
  ASSUME NEW node, NEW start, NEW tokens, Spells(<<ToEncode(node)>>, start, MAX_RECURSION, tokens)
  PROVE  bencoding_encode(node, start) = tokens
<1>0. PICK n \in Nat : n = MAX_RECURSION
  BY BencodingAssumption
<1>1. PICK I, g : LevelsFrom(<<ToEncode(node)>>, start, I, g, n) /\ tokens = TokensOf(g[n])
  BY <1>0 DEF Spells
<1>2. PICK h : Levels(node, start, h, n) /\ bencoding_encode(node, start) = TokensOf(h[n])
  BY <1>0, EncodeIs
<1>3. h[n] = g[n]
  <2>1. n \in 0 .. n /\ 0 \in 0 .. n
    OBVIOUS
  <2>2. /\ DOMAIN h = 0 .. n /\ h[0] = <<ToEncode(node)>>
        /\ \A k \in 1 .. n : h[k] = Encoded(h[k - 1], start)
    BY <1>2, <2>1 DEF Levels
  <2> QED BY <1>1, <2>1, <2>2, LevelsAgree
<1> QED BY <1>1, <1>2, <1>3

\* Put together, the items are spelled one after the other.
LEMMA SpellsFlatten ==
  ASSUME NEW start, NEW n \in Nat, NEW X, NEW Y, NEW m \in Nat,
         NEW items \in Seq(Seq(X)), NEW tokens \in Seq(Seq(Y)),
         Len(items) = m, Len(tokens) = m,
         \A k \in 1 .. m : Spells(items[k], start, n, tokens[k])
  PROVE  Spells(FlattenSeq(items), start, n, FlattenSeq(tokens))
<1> DEFINE Holds(i) == Spells(FlattenSeq(SubSeq(items, 1, i)), start, n,
                              FlattenSeq(SubSeq(tokens, 1, i)))
           T == {i \in 0 .. m : ~ Holds(i)}
<1>0. SubSeq(items, 1, m) = items /\ SubSeq(tokens, 1, m) = tokens
  OBVIOUS
<1> SUFFICES ASSUME T # {} PROVE FALSE
  <2>1. Holds(m)
    OBVIOUS
  <2> QED BY <1>0, <2>1
<1>1. PICK i \in T : \A y \in T : i <= y
  <2>1. T \subseteq Nat
    OBVIOUS
  <2> HIDE DEF T
  <2> QED BY <2>1, LeastNumber
<1>2. i \in 0 .. m /\ ~ Holds(i)
  OBVIOUS
<1>3. CASE i = 0
  <2>1. SubSeq(items, 1, i) = <<>> /\ SubSeq(tokens, 1, i) = <<>>
    BY <1>3
  <2> QED BY <1>2, <2>1, FlattenEmpty, SpellsNothing
<1>4. CASE i # 0
  <2>1. i - 1 \in 0 .. m /\ i \in 1 .. m /\ ~ (i <= i - 1)
    BY <1>2, <1>4
  <2>2. i - 1 \notin T
    <3> HIDE DEF T
    <3> QED BY <1>1, <2>1, Zenon
  <2>3. Holds(i - 1)
    BY <2>1, <2>2
  <2>4. PICK a : a = SubSeq(items, 1, i - 1)
    OBVIOUS
  <2>5. PICK b : b = SubSeq(tokens, 1, i - 1)
    OBVIOUS
  <2>6. items[i] \in Seq(X) /\ tokens[i] \in Seq(Y)
    BY <2>1, ElementOfSeq
  <2>7. a \in Seq(Seq(X)) /\ b \in Seq(Seq(Y))
    BY <2>1, <2>4, <2>5
  <2>8. SubSeq(items, 1, i) = Append(a, items[i]) /\ SubSeq(tokens, 1, i) = Append(b, tokens[i])
    BY <2>1, <2>4, <2>5, SMTT(30)
  <2>9. /\ FlattenSeq(Append(a, items[i])) = FlattenSeq(a) \o items[i]
        /\ FlattenSeq(Append(b, tokens[i])) = FlattenSeq(b) \o tokens[i]
    BY <2>6, <2>7, FlattenAppend
  <2>10. Spells(FlattenSeq(a) \o items[i], start, n, FlattenSeq(b) \o tokens[i])
    BY <2>1, <2>3, <2>4, <2>5, SpellsConcat
  <2> QED BY <1>2, <2>8, <2>9, <2>10
<1> QED BY <1>3, <1>4

-----------------------------------------------------------------------------
(***************************************************************************)
(* What the decoder makes of tokens, from anywhere in a file               *)
(***************************************************************************)
ReadsBy(d, tokens, r, n) ==
  /\ DOMAIN r = 0 .. n /\ r[0] = d
  /\ \A k \in 1 .. n : r[k] = Take(r[k - 1], tokens[k])

Reads(d, tokens, e) ==
  \E r : ReadsBy(d, tokens, r, Len(tokens)) /\ e = r[Len(tokens)]

LEMMA ReadsNothing ==
  ASSUME NEW d
  PROVE  Reads(d, <<>>, d)
<1>1. PICK s : s = <<>> /\ Len(s) = 0
  OBVIOUS
<1>2. PICK r : r = [k \in 0 .. 0 |-> d]
  OBVIOUS
<1>3. ReadsBy(d, s, r, 0) /\ d = r[0]
  BY <1>2 DEF ReadsBy
<1> QED BY <1>1, <1>3 DEF Reads

LEMMA ReadsOne ==
  ASSUME NEW d, NEW token
  PROVE  Reads(d, <<token>>, Take(d, token))
<1>0. PICK s : s = <<token>>
  OBVIOUS
<1>1. s = <<token>> /\ Len(s) = 1 /\ s[1] = token
  BY <1>0
<1>2. PICK r : r = [k \in 0 .. 1 |-> IF k = 0 THEN d ELSE Take(d, token)]
  OBVIOUS
<1>3. r[0] = d /\ r[1] = Take(d, token) /\ DOMAIN r = 0 .. 1
  BY <1>2
<1>4. ASSUME NEW k \in 1 .. 1 PROVE r[k] = Take(r[k - 1], s[k])
  <2>1. k = 1 /\ k - 1 = 0
    OBVIOUS
  <2> QED BY <1>1, <1>3, <2>1
<1>5. ReadsBy(d, s, r, 1)
  BY <1>3, <1>4 DEF ReadsBy
<1> QED BY <1>1, <1>3, <1>5 DEF Reads

LEMMA ReadsConcat ==
  ASSUME NEW X, NEW s \in Seq(X), NEW Y, NEW t \in Seq(Y),
         NEW d, NEW e, Reads(d, s, e), NEW f, Reads(e, t, f)
  PROVE  Reads(d, s \o t, f)
<1>1. PICK n \in Nat, m \in Nat : n = Len(s) /\ m = Len(t)
  OBVIOUS
<1>2. PICK g : ReadsBy(d, s, g, n) /\ e = g[n]
  BY <1>1 DEF Reads
<1>3. PICK h : ReadsBy(e, t, h, m) /\ f = h[m]
  BY <1>1 DEF Reads
<1>4. PICK u : u = s \o t
  OBVIOUS
<1>5. /\ Len(u) = n + m
      /\ \A k \in 1 .. n : u[k] = s[k]
      /\ \A k \in 1 .. m : u[n + k] = t[k]
  BY <1>1, <1>4
<1>6. PICK r : r = [k \in 0 .. n + m |-> IF k <= n THEN g[k] ELSE h[k - n]]
  OBVIOUS
<1>7. ASSUME NEW k \in 0 .. n PROVE r[k] = g[k]
  BY <1>6
<1>8. ASSUME NEW k \in 0 .. m PROVE r[n + k] = h[k]
  <2>1. CASE k = 0
    <3>1. n + k = n /\ n \in 0 .. n
      BY <2>1
    <3>2. h[k] = e
      BY <1>3, <2>1 DEF ReadsBy
    <3> QED BY <1>2, <1>7, <3>1, <3>2
  <2>2. CASE k # 0
    <3>1. n + k \in 0 .. n + m /\ ~ (n + k <= n) /\ n + k - n = k
      BY <2>2
    <3> QED BY <1>6, <3>1
  <2> QED BY <2>1, <2>2
<1>9. ASSUME NEW k \in 1 .. n + m PROVE r[k] = Take(r[k - 1], u[k])
  <2>1. CASE k <= n
    <3>1. k \in 1 .. n /\ k \in 0 .. n /\ k - 1 \in 0 .. n
      BY <2>1
    <3>2. g[k] = Take(g[k - 1], s[k])
      BY <1>2, <3>1 DEF ReadsBy
    <3> QED BY <1>5, <1>7, <3>1, <3>2
  <2>2. CASE ~ (k <= n)
    <3>1. PICK j \in 1 .. m : k = n + j
      <4>1. k - n \in 1 .. m /\ k = n + (k - n)
        BY <2>2
      <4> QED BY <4>1
    <3>2. j \in 0 .. m /\ j - 1 \in 0 .. m /\ k - 1 = n + (j - 1)
      BY <3>1
    <3>3. h[j] = Take(h[j - 1], t[j])
      BY <1>3 DEF ReadsBy
    <3>4. r[k] = h[j] /\ r[k - 1] = h[j - 1] /\ u[k] = t[j]
      BY <1>5, <1>8, <3>1, <3>2
    <3> QED BY <3>3, <3>4
  <2> QED BY <2>1, <2>2
<1>10. r[0] = d /\ r[n + m] = f /\ DOMAIN r = 0 .. n + m
  <2>1. 0 \in 0 .. n /\ m \in 0 .. m
    OBVIOUS
  <2>2. g[0] = d
    BY <1>2 DEF ReadsBy
  <2> QED BY <1>3, <1>6, <1>7, <1>8, <2>1, <2>2
<1>11. ReadsBy(d, u, r, n + m)
  BY <1>9, <1>10 DEF ReadsBy
<1> QED BY <1>4, <1>5, <1>10, <1>11 DEF Reads

\* Nothing goes on after an error.
LEMMA NullStays ==
  ASSUME NEW X, NEW tokens \in Seq(X)
  PROVE  Reads(Null, tokens, Null)
<1>1. PICK n \in Nat : n = Len(tokens)
  OBVIOUS
<1>2. PICK r : r = [k \in 0 .. n |-> Null]
  OBVIOUS
<1>3. \A token : Take(Null, token) = Null
  BY DEF Take, Null
<1>4. ASSUME NEW k \in 1 .. n PROVE r[k] = Take(r[k - 1], tokens[k])
  <2>1. k \in 0 .. n /\ k - 1 \in 0 .. n
    OBVIOUS
  <2> QED BY <1>2, <1>3, <2>1
<1>5. ReadsBy(Null, tokens, r, n)
  BY <1>2, <1>4 DEF ReadsBy
<1>6. n \in 0 .. n
  OBVIOUS
<1> QED BY <1>1, <1>2, <1>5, <1>6 DEF Reads

LEMMA ReadsNull ==
  ASSUME NEW X, NEW s \in Seq(X), NEW Y, NEW t \in Seq(Y), NEW d, Reads(d, s, Null)
  PROVE  Reads(d, s \o t, Null)
BY NullStays, ReadsConcat

\* bencoding_decode returns what was read in the end.
LEMMA DecodeReads ==
  ASSUME NEW X, NEW file \in Seq(X), NEW e, Reads(Reading(<<>>), file, e)
  PROVE  bencoding_decode(file) = IF e.status = "decoded" THEN e ELSE Null
<1>1. PICK n \in Nat : n = Len(file)
  OBVIOUS
<1>2. PICK g : ReadsBy(Reading(<<>>), file, g, n) /\ e = g[n]
  BY <1>1 DEF Reads
<1>3. PICK r : /\ Decodes(file, r, n)
               /\ bencoding_decode(file) = IF r[n].status = "decoded" THEN r[n] ELSE Null
  BY <1>1, DecodeIs
<1> DEFINE T == {i \in 0 .. n : r[i] # g[i]}
<1>4. T = {}
  <2> SUFFICES ASSUME T # {} PROVE FALSE
    OBVIOUS
  <2>1. PICK i \in T : \A y \in T : i <= y
    <3>1. T \subseteq Nat
      OBVIOUS
    <3> HIDE DEF T
    <3> QED BY <3>1, LeastNumber
  <2>2. i \in 0 .. n /\ r[i] # g[i]
    OBVIOUS
  <2>3. i # 0
    BY <1>2, <1>3, <2>2 DEF ReadsBy, Decodes
  <2>4. i - 1 \in 0 .. n /\ i \in 1 .. n /\ ~ (i <= i - 1)
    BY <2>2, <2>3
  <2>5. i - 1 \notin T
    <3> HIDE DEF T
    <3> QED BY <2>1, <2>4, Zenon
  <2>6. r[i - 1] = g[i - 1]
    BY <2>4, <2>5
  <2>7. r[i] = Take(r[i - 1], file[i]) /\ g[i] = Take(g[i - 1], file[i])
    BY <1>2, <1>3, <2>2, <2>3, <2>4 DEF ReadsBy, Decodes
  <2> QED BY <2>2, <2>6, <2>7
<1>5. n \in 0 .. n
  OBVIOUS
<1>6. r[n] = g[n]
  BY <1>4, <1>5
<1> QED BY <1>2, <1>3, <1>6

-----------------------------------------------------------------------------
(***************************************************************************)
(* A dictionary whose entries came in the order of their keys is written   *)
(* in that order, whatever slots they are in                               *)
(***************************************************************************)

\* The node is encoded as these tokens, if there are m levels or more.
Writes(node, m, tokens) ==
  \A start \in Int, n \in Nat : n >= m => Spells(<<ToEncode(node)>>, start, n, tokens)

Ascending(keys, n) == \A j, k \in 1 .. n : j < k => place_of(keys[j]) < place_of(keys[k])

\* Slot p[k] has the k-th of the keys, with a node that writes the k-th part.
HoldsAt(map, p, n, keys, parts, m) ==
  /\ p \in [1 .. n -> DOMAIN map.elements]
  /\ \A s \in DOMAIN map.elements : \E k \in 1 .. n : p[k] = s
  /\ \A k \in 1 .. n : /\ map.elements[p[k]].key = keys[k]
                       /\ Writes(map.elements[p[k]].value, m, parts[k])

Holds(map, n, keys, parts, m) == IsMap(map) /\ \E p : HoldsAt(map, p, n, keys, parts, m)

LEMMA HoldsNone ==
  ASSUME NEW size \in Nat \ {0}, NEW keys, NEW parts, NEW m
  PROVE  Holds(hashmap_init(size), 0, keys, parts, m)
<1>1. PICK map : map = hashmap_init(size)
  OBVIOUS
<1>2. IsMap(map) /\ DOMAIN map.elements = {}
  BY <1>1, InitIsMap
<1>3. PICK p : p = [k \in 1 .. 0 |-> 0]
  OBVIOUS
<1>4. HoldsAt(map, p, 0, keys, parts, m)
  BY <1>2, <1>3 DEF HoldsAt
<1> QED BY <1>1, <1>2, <1>4 DEF Holds

LEMMA HoldsMore ==
  ASSUME NEW map, NEW n \in Nat, NEW keys, NEW parts, NEW m, Holds(map, n, keys, parts, m),
         NEW key, key = keys[n + 1], HasRoom(map, key),
         NEW value, Writes(value, m, parts[n + 1])
  PROVE  Holds(hashmap_insert(map, key, value), n + 1, keys, parts, m)
<1>1. PICK p : HoldsAt(map, p, n, keys, parts, m)
  BY DEF Holds
<1>2. PICK map2 : map2 = hashmap_insert(map, key, value)
  OBVIOUS
<1>3. PICK slot : slot = FreeSlot(map, key)
  OBVIOUS
<1>4. /\ IsMap(map2) /\ DOMAIN map2.elements = DOMAIN map.elements \cup {slot}
      /\ \A s \in DOMAIN map.elements : map2.elements[s] = map.elements[s]
      /\ map2.elements[slot] = [key |-> key, value |-> value]
  BY <1>2, <1>3, InsertProperties DEF Inserted, Holds
<1>5. PICK q : q = [k \in 1 .. n + 1 |-> IF k <= n THEN p[k] ELSE slot]
  OBVIOUS
<1>6. ASSUME NEW k \in 1 .. n PROVE q[k] = p[k] /\ p[k] \in DOMAIN map.elements
  BY <1>1, <1>5 DEF HoldsAt
<1>7. q[n + 1] = slot /\ n + 1 \in 1 .. n + 1
  BY <1>5
<1>8. ASSUME NEW k \in 1 .. n + 1, k # n + 1 PROVE k \in 1 .. n
  BY <1>8
<1>9. q \in [1 .. n + 1 -> DOMAIN map2.elements]
  <2>1. \A k \in 1 .. n + 1 : q[k] \in DOMAIN map2.elements
    BY <1>4, <1>6, <1>7, <1>8
  <2> QED BY <1>5, <2>1
<1>10. ASSUME NEW s \in DOMAIN map2.elements PROVE \E k \in 1 .. n + 1 : q[k] = s
  <2>1. CASE s = slot
    BY <1>7, <2>1
  <2>2. CASE s # slot
    <3>1. PICK k \in 1 .. n : p[k] = s
      BY <1>1, <1>4, <2>2 DEF HoldsAt
    <3>2. k \in 1 .. n + 1
      OBVIOUS
    <3> QED BY <1>6, <3>1, <3>2
  <2> QED BY <2>1, <2>2
<1>11. ASSUME NEW k \in 1 .. n + 1
       PROVE  /\ map2.elements[q[k]].key = keys[k]
              /\ Writes(map2.elements[q[k]].value, m, parts[k])
  <2>1. CASE k = n + 1
    BY <1>4, <1>7, <2>1
  <2>2. CASE k # n + 1
    <3>1. k \in 1 .. n
      BY <1>8, <2>2
    <3> QED BY <1>1, <1>4, <1>6, <3>1 DEF HoldsAt
  <2> QED BY <2>1, <2>2
<1>12. HoldsAt(map2, q, n + 1, keys, parts, m)
  BY <1>9, <1>10, <1>11 DEF HoldsAt
<1> QED BY <1>2, <1>4, <1>12 DEF Holds

\* Numbers up to n, in order and none of them missing.
InOrder(q, m, n) ==
  /\ q \in [1 .. m -> 1 .. n]
  /\ \A j, k \in 1 .. m : j < k => q[j] < q[k]
  /\ \A i \in 1 .. n : \E k \in 1 .. m : q[k] = i

LEMMA InOrderIsAll ==
  ASSUME NEW n \in Nat, NEW m \in Nat, NEW q, InOrder(q, m, n)
  PROVE  m = n /\ \A k \in 1 .. m : q[k] = k
<1> USE DEF InOrder
<1>0. \A k \in 1 .. m : q[k] \in 1 .. n
  OBVIOUS
<1> DEFINE T == {k \in 1 .. m : q[k] # k}
<1>1. \A k \in 1 .. m : q[k] = k
  <2> SUFFICES ASSUME T # {} PROVE FALSE
    OBVIOUS
  <2>1. PICK k \in T : \A y \in T : k <= y
    <3>1. T \subseteq Nat
      OBVIOUS
    <3> HIDE DEF T
    <3> QED BY <3>1, LeastNumber
  <2>2. k \in 1 .. m /\ q[k] # k /\ q[k] \in 1 .. n
    BY <1>0
  <2>3. \A j \in 1 .. m : j < k => q[j] = j
    <3> SUFFICES ASSUME NEW j \in 1 .. m, j < k, q[j] # j PROVE FALSE
      OBVIOUS
    <3>1. j \in T
      OBVIOUS
    <3>2. k <= j
      BY <2>1, <3>1
    <3> QED BY <2>2, <3>2
  <2>4. q[k] > k
    <3>1. CASE k = 1
      BY <2>2, <3>1
    <3>2. CASE k # 1
      <4>1. k - 1 \in 1 .. m /\ k - 1 < k
        BY <2>2, <3>2
      <4>2. q[k - 1] = k - 1 /\ q[k - 1] < q[k]
        BY <2>2, <2>3, <4>1
      <4> QED BY <2>2, <4>2
    <3> QED BY <3>1, <3>2
  <2>5. PICK j \in 1 .. m : q[j] = k
    <3>1. k \in 1 .. n
      BY <2>2, <2>4
    <3> QED BY <3>1
  <2>6. ~ (j < k) /\ j # k
    BY <2>2, <2>3, <2>5
  <2>7. k < j
    BY <2>2, <2>6
  <2>8. q[k] < q[j]
    BY <2>2, <2>7
  <2> QED BY <2>2, <2>4, <2>5, <2>8
<1>2. m <= n
  <2>1. CASE m = 0
    BY <2>1
  <2>2. CASE m # 0
    <3>1. m \in 1 .. m
      BY <2>2
    <3>2. q[m] = m /\ q[m] \in 1 .. n
      BY <1>0, <1>1, <3>1
    <3> QED BY <3>2
  <2> QED BY <2>1, <2>2
<1>3. n <= m
  <2>1. CASE n = 0
    BY <2>1
  <2>2. CASE n # 0
    <3>1. n \in 1 .. n
      BY <2>2
    <3>2. PICK k \in 1 .. m : q[k] = n
      BY <3>1
    <3> QED BY <1>1, <3>2
  <2> QED BY <2>1, <2>2
<1> QED BY <1>1, <1>2, <1>3

\* Slot p[k] has the k-th of the keys.
KeysAt(map, p, n, keys) ==
  /\ p \in [1 .. n -> DOMAIN map.elements]
  /\ \A s \in DOMAIN map.elements : \E k \in 1 .. n : p[k] = s
  /\ \A k \in 1 .. n : map.elements[p[k]].key = keys[k]

LEMMA SlotsInOrder ==
  ASSUME NEW map, IsMap(map), NEW p, NEW n \in Nat, NEW keys, KeysAt(map, p, n, keys),
         Ascending(keys, n), NEW start \in Int, NEW entries, entries = hashmap_entries(map, start)
  PROVE  DOMAIN entries = 1 .. n /\ \A k \in 1 .. n : entries[k] = map.elements[p[k]]
<1>2. PICK order : Orders(map, start, order)
  BY EntriesOrdered
<1>3. PICK c \in Nat : c = Cardinality(DOMAIN map.elements)
  BY SlotsFinite
<1>4. /\ order \in [1 .. c -> DOMAIN map.elements]
      /\ \A s \in DOMAIN map.elements : \E k \in 1 .. c : order[k] = s
      /\ \A j, k \in 1 .. c : j < k => Earlier(map, start, order[j], order[k])
      /\ hashmap_entries(map, start) = [k \in 1 .. c |-> map.elements[order[k]]]
  BY <1>2, <1>3 DEF Orders
<1>5. PICK q : q = [k \in 1 .. c |-> CHOOSE i \in 1 .. n : p[i] = order[k]]
  OBVIOUS
<1>6. ASSUME NEW k \in 1 .. c PROVE q[k] \in 1 .. n /\ p[q[k]] = order[k]
  <2>1. order[k] \in DOMAIN map.elements
    BY <1>4
  <2>2. \E i \in 1 .. n : p[i] = order[k]
    BY <2>1 DEF KeysAt
  <2> QED BY <1>5, <2>2
<1>7. q \in [1 .. c -> 1 .. n]
  BY <1>5, <1>6
<1>8. ASSUME NEW j \in 1 .. n, NEW k \in 1 .. n, ~ (j < k)
      PROVE  p[j] = p[k] \/ ~ Earlier(map, start, p[j], p[k])
  <2>1. CASE j = k
    BY <2>1
  <2>2. CASE j # k
    <3>1. k < j
      BY <1>8, <2>2
    <3>2. place_of(keys[k]) < place_of(keys[j])
      BY <3>1 DEF Ascending
    <3>3. map.elements[p[j]].key = keys[j] /\ map.elements[p[k]].key = keys[k]
      BY DEF KeysAt
    <3>4. place_of(keys[j]) \in Nat /\ place_of(keys[k]) \in Nat
      BY HashOfType
    <3> QED BY <3>2, <3>3, <3>4 DEF Earlier
  <2> QED BY <2>1, <2>2
<1>9. ASSUME NEW j \in 1 .. c, NEW k \in 1 .. c, j < k PROVE q[j] < q[k]
  <2>1. Earlier(map, start, order[j], order[k]) /\ order[j] \in DOMAIN map.elements
    BY <1>4, <1>9
  <2>2. order[j] # order[k]
    BY <2>1, EarlierOrders
  <2>3. q[j] \in 1 .. n /\ q[k] \in 1 .. n /\ p[q[j]] = order[j] /\ p[q[k]] = order[k]
    BY <1>6
  <2> QED BY <1>8, <2>1, <2>2, <2>3
<1>10. ASSUME NEW i \in 1 .. n PROVE \E k \in 1 .. c : q[k] = i
  <2>1. PICK k \in 1 .. c : order[k] = p[i]
    BY <1>4 DEF KeysAt
  <2>2. q[k] \in 1 .. n /\ p[q[k]] = p[i]
    BY <1>6, <2>1
  <2>3. keys[q[k]] = keys[i]
    BY <2>2 DEF KeysAt
  <2>4. q[k] = i
    <3>1. place_of(keys[i]) \in Nat /\ place_of(keys[q[k]]) \in Nat
      BY HashOfType
    <3>2. ~ (q[k] < i) /\ ~ (i < q[k])
      BY <2>2, <2>3, <3>1 DEF Ascending
    <3> QED BY <2>2, <3>2
  <2> QED BY <2>4
<1>11. c = n /\ \A k \in 1 .. c : q[k] = k
  <2>1. \A j, k \in 1 .. c : j < k => q[j] < q[k]
    BY <1>9
  <2>2. \A i \in 1 .. n : \E k \in 1 .. c : q[k] = i
    BY <1>10
  <2>3. InOrder(q, c, n)
    BY <1>7, <2>1, <2>2 DEF InOrder
  <2> QED BY <2>3, InOrderIsAll
<1>12. ASSUME NEW k \in 1 .. n PROVE order[k] = p[k]
  BY <1>6, <1>11
<1> QED BY <1>4, <1>11, <1>12

LEMMA HeldInOrder ==
  ASSUME NEW map, NEW n \in Nat, NEW keys, NEW parts, NEW m, Holds(map, n, keys, parts, m),
         Ascending(keys, n), NEW start \in Int
  PROVE  LET entries == hashmap_entries(map, start)
         IN  /\ DOMAIN entries = 1 .. n
             /\ \A k \in 1 .. n : entries[k].key = keys[k] /\ Writes(entries[k].value, m, parts[k])
<1>1. PICK p : HoldsAt(map, p, n, keys, parts, m)
  BY DEF Holds
<1>2. IsMap(map) /\ KeysAt(map, p, n, keys)
  BY <1>1 DEF Holds, HoldsAt, KeysAt
<1>3. PICK entries : entries = hashmap_entries(map, start)
  OBVIOUS
<1>4. DOMAIN entries = 1 .. n /\ \A k \in 1 .. n : entries[k] = map.elements[p[k]]
  BY <1>2, <1>3, SlotsInOrder
<1> QED BY <1>1, <1>3, <1>4 DEF HoldsAt

\* The parts of a dictionary, each behind its key, and between brackets.
WithKeys(keys, parts, n) == [k \in 1 .. n |-> <<KeyToken(keys[k])>> \o parts[k]]
InBrackets(open, tokens) == <<Token(open)>> \o tokens \o <<Token("e")>>

LEMMA SpellsBracket ==
  ASSUME NEW start, NEW n \in Nat, NEW items, NEW tokens, Spells(items, start, n, tokens),
         NEW open \in {"d", "l"}
  PROVE  Spells(InBrackets(open, items), start, n, InBrackets(open, tokens))
<1>1. PICK o : o = Token(open)
  OBVIOUS
<1>2. PICK e : e = Token("e")
  OBVIOUS
<1>3. o.t # "node" /\ e.t # "node"
  BY <1>1, <1>2 DEF Token
<1>4. Spells(<<o>>, start, n, <<o>>) /\ Spells(<<e>>, start, n, <<e>>)
  BY <1>3, SpellsToken
<1>5. Spells(<<o>> \o items, start, n, <<o>> \o tokens)
  BY <1>4, SpellsConcat
<1>6. Spells((<<o>> \o items) \o <<e>>, start, n, (<<o>> \o tokens) \o <<e>>)
  BY <1>4, <1>5, SpellsConcat
<1> QED BY <1>1, <1>2, <1>6 DEF InBrackets

LEMMA PairConcat ==
  ASSUME NEW x, NEW y
  PROVE  <<x>> \o <<y>> = <<x, y>>
<1>1. PICK X : X = {x, y}
  OBVIOUS
<1>2. <<x>> \in Seq(X) /\ <<y>> \in Seq(X) /\ <<x, y>> \in Seq(X)
  BY <1>1
<1>3. PICK s \in Seq(X) : s = <<x>> \o <<y>>
  BY <1>2, ConcatProperties
<1>4. PICK r \in Seq(X) : r = <<x, y>>
  BY <1>2
<1>5. Len(s) = 2 /\ s[1] = x /\ s[2] = y
  BY <1>2, <1>3
<1>6. Len(r) = 2 /\ r[1] = x /\ r[2] = y
  BY <1>4
<1>7. \A k \in 1 .. 2 : k = 1 \/ k = 2
  OBVIOUS
<1>8. s = r
  BY <1>5, <1>6, <1>7, SeqEqual
<1> QED BY <1>3, <1>4, <1>8

LEMMA WithKeysType ==
  ASSUME NEW keys, NEW n \in Nat, NEW parts, \E Y : \A k \in 1 .. n : parts[k] \in Seq(Y)
  PROVE  \E Z : \A i \in 0 .. n : /\ WithKeys(keys, parts, i) \in Seq(Seq(Z))
                                  /\ i # n => /\ parts[i + 1] \in Seq(Z)
                                              /\ <<KeyToken(keys[i + 1])>> \o parts[i + 1] \in Seq(Z)
                                              /\ WithKeys(keys, parts, i + 1)
                                                   = Append(WithKeys(keys, parts, i),
                                                            <<KeyToken(keys[i + 1])>> \o parts[i + 1])
<1>1. PICK Y : \A k \in 1 .. n : parts[k] \in Seq(Y)
  OBVIOUS
<1>2. PICK Z : Z = Y \cup {KeyToken(keys[k]) : k \in 1 .. n}
  OBVIOUS
<1>3. ASSUME NEW k \in 1 .. n PROVE parts[k] \in Seq(Z) /\ <<KeyToken(keys[k])>> \o parts[k] \in Seq(Z)
  <2>1. <<KeyToken(keys[k])>> \in Seq(Z)
    <3>1. KeyToken(keys[k]) \in Z
      BY <1>2
    <3> QED BY <3>1
  <2>2. parts[k] \in Seq(Z)
    <3>1. Y \subseteq Z
      BY <1>2
    <3> QED BY <1>1, <3>1, SeqMonotonic
  <2> QED BY <2>1, <2>2, ConcatProperties
<1>4. ASSUME NEW i \in 0 .. n PROVE WithKeys(keys, parts, i) \in Seq(Seq(Z))
  <2>1. PICK w : w = WithKeys(keys, parts, i)
    OBVIOUS
  <2>2. w \in [1 .. i -> Seq(Z)]
    <3>1. ASSUME NEW k \in 1 .. i PROVE <<KeyToken(keys[k])>> \o parts[k] \in Seq(Z)
      <4>1. k \in 1 .. n
        OBVIOUS
      <4> QED BY <1>3, <4>1
    <3> QED BY <2>1, <3>1 DEF WithKeys
  <2> QED BY <2>1, <2>2
<1>5. ASSUME NEW i \in 0 .. n, i # n
      PROVE  /\ parts[i + 1] \in Seq(Z) /\ <<KeyToken(keys[i + 1])>> \o parts[i + 1] \in Seq(Z)
             /\ WithKeys(keys, parts, i + 1)
                  = Append(WithKeys(keys, parts, i), <<KeyToken(keys[i + 1])>> \o parts[i + 1])
  <2>1. i + 1 \in 1 .. n /\ i + 1 \in 0 .. n /\ i \in Nat
    BY <1>5
  <2>2. PICK w : w = [k \in 1 .. n |-> <<KeyToken(keys[k])>> \o parts[k]]
    OBVIOUS
  <2>3. \A k \in 1 .. n : w[k] = <<KeyToken(keys[k])>> \o parts[k] /\ w[k] \in Seq(Z)
    BY <1>3, <2>2
  <2>4. /\ WithKeys(keys, parts, i) = [k \in 1 .. i |-> w[k]]
        /\ WithKeys(keys, parts, i + 1) = [k \in 1 .. i + 1 |-> w[k]]
    <3>1. \A k \in 1 .. i + 1 : k \in 1 .. n
      BY <2>1
    <3>2. \A k \in 1 .. i : k \in 1 .. n
      BY <2>1
    <3> QED BY <2>3, <3>1, <3>2 DEF WithKeys
  <2>5. [k \in 1 .. i + 1 |-> w[k]] = Append([k \in 1 .. i |-> w[k]], w[i + 1])
    <3>1. PICK a \in Seq(Seq(Z)) : a = [k \in 1 .. i |-> w[k]]
      BY <1>4, <2>4
    <3>2. PICK b \in Seq(Seq(Z)) : b = [k \in 1 .. i + 1 |-> w[k]]
      BY <1>4, <2>1, <2>4
    <3>3. Len(a) = i /\ Len(b) = i + 1
      BY <2>1, <3>1, <3>2
    <3>4. PICK c \in Seq(Seq(Z)) : c = Append(a, w[i + 1])
      BY <2>1, <2>3, AppendProperties
    <3>5. Len(c) = i + 1 /\ c[i + 1] = w[i + 1] /\ \A k \in 1 .. i : c[k] = a[k]
      BY <2>1, <2>3, <3>3, <3>4, AppendProperties
    <3>6. ASSUME NEW k \in 1 .. i + 1 PROVE b[k] = c[k]
      <4>1. CASE k = i + 1
        BY <3>2, <3>5, <4>1
      <4>2. CASE k # i + 1
        <5>1. k \in 1 .. i
          BY <2>1, <4>2
        <5> QED BY <3>1, <3>2, <3>5, <5>1
      <4> QED BY <4>1, <4>2
    <3>7. b = c
      BY <3>3, <3>5, <3>6, SeqEqual
    <3> QED BY <3>1, <3>2, <3>4, <3>7
  <2> QED BY <1>3, <2>1, <2>3, <2>4, <2>5
<1> QED BY <1>4, <1>5

\* A dictionary spells its entries in that order.
LEMMA EntriesSpelled ==
  ASSUME NEW map, NEW start, NEW n \in Nat, NEW entries, entries = hashmap_entries(map, start),
         DOMAIN entries = 1 .. n,
         NEW keys, NEW Y, NEW parts, NEW b \in Nat,
         \A k \in 1 .. n : /\ entries[k].key = keys[k] /\ parts[k] \in Seq(Y)
                           /\ Spells(<<ToEncode(entries[k].value)>>, start, b, parts[k])
  PROVE  Spells(<<ToEncode(Dict(map))>>, start, b + 1,
                InBrackets("d", FlattenSeq(WithKeys(keys, parts, n))))
<1>4. PICK seqs : seqs = [k \in 1 .. n |-> <<KeyToken(keys[k]), ToEncode(entries[k].value)>>]
  OBVIOUS
<1>5. PICK texts : texts = WithKeys(keys, parts, n)
  OBVIOUS
<1>6. ASSUME NEW k \in 1 .. n
      PROVE  Spells(seqs[k], start, b, texts[k])
  <2>1. PICK x : x = KeyToken(keys[k])
    OBVIOUS
  <2>2. PICK y : y = ToEncode(entries[k].value)
    OBVIOUS
  <2>3. Spells(<<x>>, start, b, <<x>>)
    <3>1. x.t # "node"
      BY <2>1 DEF KeyToken, StrToken
    <3> QED BY <3>1, SpellsToken
  <2>4. Spells(<<x>> \o <<y>>, start, b, <<x>> \o parts[k])
    BY <2>2, <2>3, SpellsConcat
  <2>5. <<x>> \o <<y>> = <<x, y>>
    BY PairConcat
  <2>6. seqs[k] = <<x, y>> /\ texts[k] = <<x>> \o parts[k]
    BY <1>4, <1>5, <2>1, <2>2 DEF WithKeys
  <2> QED BY <2>4, <2>5, <2>6
<1>7. \E X : seqs \in Seq(Seq(X)) /\ Len(seqs) = n
  <2>1. PICK X : X = UNION {{KeyToken(keys[k]), ToEncode(entries[k].value)} : k \in 1 .. n}
    OBVIOUS
  <2>2. ASSUME NEW k \in 1 .. n PROVE seqs[k] \in Seq(X)
    <3>1. KeyToken(keys[k]) \in X /\ ToEncode(entries[k].value) \in X
      BY <2>1
    <3> QED BY <1>4, <3>1
  <2>3. seqs \in [1 .. n -> Seq(X)]
    BY <1>4, <2>2
  <2> QED BY <2>3
<1>8. \E Z : texts \in Seq(Seq(Z)) /\ Len(texts) = n
  <2>1. PICK Z : texts \in Seq(Seq(Z))
    <3>1. n \in 0 .. n
      OBVIOUS
    <3>2. \E X : \A k \in 1 .. n : parts[k] \in Seq(X)
      OBVIOUS
    <3> QED BY <1>5, <3>1, <3>2, WithKeysType
  <2>2. DOMAIN texts = 1 .. n
    BY <1>5 DEF WithKeys
  <2>3. Len(texts) = n
    BY <2>1, <2>2
  <2> QED BY <2>1, <2>3
<1>9. Spells(FlattenSeq(seqs), start, b, FlattenSeq(texts))
  BY <1>6, <1>7, <1>8, SpellsFlatten
<1>10. encode_helper(Dict(map), start) = InBrackets("d", FlattenSeq(seqs))
  <2>1. EncodeEntries(map, start) = FlattenSeq(seqs)
    BY <1>4 DEF EncodeEntries
  <2> QED BY <2>1 DEF encode_helper, Dict, InBrackets
<1>11. Spells(encode_helper(Dict(map), start), start, b, InBrackets("d", FlattenSeq(texts)))
  BY <1>9, <1>10, SpellsBracket
<1> QED BY <1>5, <1>11, SpellsNode

LEMMA HeldIsWritten ==
  ASSUME NEW map, NEW n \in Nat, NEW keys, NEW Y, NEW parts, \A k \in 1 .. n : parts[k] \in Seq(Y),
         NEW m \in Nat, Holds(map, n, keys, parts, m), Ascending(keys, n)
  PROVE  Writes(Dict(map), m + 1, InBrackets("d", FlattenSeq(WithKeys(keys, parts, n))))
<1> SUFFICES ASSUME NEW start \in Int, NEW l \in Nat, l >= m + 1
             PROVE  Spells(<<ToEncode(Dict(map))>>, start, l,
                           InBrackets("d", FlattenSeq(WithKeys(keys, parts, n))))
  BY DEF Writes
<1>1. PICK entries : entries = hashmap_entries(map, start)
  OBVIOUS
<1>2. /\ DOMAIN entries = 1 .. n
      /\ \A k \in 1 .. n : entries[k].key = keys[k] /\ Writes(entries[k].value, m, parts[k])
  <2>1. /\ DOMAIN hashmap_entries(map, start) = 1 .. n
        /\ \A k \in 1 .. n : /\ hashmap_entries(map, start)[k].key = keys[k]
                              /\ Writes(hashmap_entries(map, start)[k].value, m, parts[k])
    BY HeldInOrder, Zenon
  <2> QED BY <1>1, <2>1, Zenon
<1>3. PICK b \in Nat : l = b + 1 /\ b >= m
  <2>1. l - 1 \in Nat /\ l = (l - 1) + 1 /\ l - 1 >= m
    OBVIOUS
  <2> QED BY <2>1
<1>4. \A k \in 1 .. n : /\ entries[k].key = keys[k] /\ parts[k] \in Seq(Y)
                        /\ Spells(<<ToEncode(entries[k].value)>>, start, b, parts[k])
  BY <1>2, <1>3 DEF Writes
<1>5. Spells(<<ToEncode(Dict(map))>>, start, b + 1,
             InBrackets("d", FlattenSeq(WithKeys(keys, parts, n))))
  BY <1>1, <1>2, <1>4, EntriesSpelled
<1> QED BY <1>3, <1>5

-----------------------------------------------------------------------------
(***************************************************************************)
(* One step of the decoder                                                 *)
(***************************************************************************)
LEMMA TopOfCalls ==
  ASSUME NEW X, NEW calls \in Seq(X), NEW top
  PROVE  /\ Append(calls, top) # <<>> /\ Last(Append(calls, top)) = top
         /\ Front(Append(calls, top)) = calls
         /\ Len(Append(calls, top)) = Len(calls) + 1
<1>1. PICK Y : calls \in Seq(Y) /\ top \in Y
  <2>1. X \subseteq X \cup {top} /\ top \in X \cup {top}
    OBVIOUS
  <2> QED BY <2>1, SeqMonotonic
<1>2. PICK n \in Nat : n = Len(calls)
  OBVIOUS
<1>3. PICK s \in Seq(Y) : s = Append(calls, top)
  BY <1>1, AppendProperties
<1>4. Len(s) = n + 1 /\ s[n + 1] = top /\ \A k \in 1 .. n : s[k] = calls[k]
  BY <1>1, <1>2, <1>3, AppendProperties
<1>5. Last(s) = top
  BY <1>4 DEF Last
<1>6. Front(s) = calls
  <2>1. Front(s) = SubSeq(s, 1, n)
    BY <1>4 DEF Front
  <2>2. SubSeq(s, 1, n) \in Seq(Y) /\ Len(SubSeq(s, 1, n)) = n
        /\ \A k \in 1 .. n : SubSeq(s, 1, n)[k] = s[k]
    BY <1>4
  <2> QED BY <1>1, <1>2, <1>4, <2>1, <2>2, SeqEqual
<1> QED BY <1>2, <1>3, <1>4, <1>5, <1>6

LEMMA TakesReading ==
  ASSUME NEW calls, NEW token
  PROVE  /\ Ends(calls, token) =>
              Take(Reading(calls), token) = Placed(Front(calls), WithBlank(Last(calls)))
         /\ ~ Ends(calls, token) /\ AwaitsKey(calls) =>
              Take(Reading(calls), token) = handle_key(calls, token)
         /\ ~ Ends(calls, token) /\ ~ AwaitsKey(calls) =>
              Take(Reading(calls), token) = decode_helper(calls, token)
<1>1. Reading(calls).status = "reading" /\ Reading(calls).calls = calls
  BY DEF Reading
<1> QED BY <1>1 DEF Take

LEMMA TakesKey ==
  ASSUME NEW X, NEW calls \in Seq(X), NEW map, NEW token, token.t = "s"
  PROVE  LET d == Take(Reading(Append(calls, Call(Dict(map), NoKey))), token)
         IN  IF HasRoom(map, token.value)
             THEN d = Reading(Append(calls, Call(Dict(map), <<token.value>>)))
             ELSE d = Null
<1>1. PICK top : top = Call(Dict(map), NoKey)
  OBVIOUS
<1>2. top.node.type = "dict" /\ top.key = NoKey /\ top.node.value = map
  BY <1>1 DEF Call, Dict
<1>3. PICK all : all = Append(calls, top)
  OBVIOUS
<1>4. all # <<>> /\ Last(all) = top /\ Front(all) = calls
  BY <1>3, TopOfCalls
<1>5. Take(Reading(all), token) = handle_key(all, token)
  <2>1. ~ Ends(all, token) /\ AwaitsKey(all)
    BY <1>2, <1>4 DEF Ends, AwaitsKey
  <2> QED BY <2>1, TakesReading
<1>6. IF HasRoom(map, token.value)
      THEN handle_key(all, token) = GoesOn(all, Call(Dict(map), <<token.value>>))
      ELSE handle_key(all, token) = Null
  BY <1>2, <1>4 DEF handle_key
<1> QED BY <1>1, <1>3, <1>4, <1>5, <1>6 DEF GoesOn

LEMMA TakesNoKey ==
  ASSUME NEW X, NEW calls \in Seq(X), NEW map, NEW token, token.t \notin {"s", "e"}
  PROVE  Take(Reading(Append(calls, Call(Dict(map), NoKey))), token) = Null
<1>1. PICK top : top = Call(Dict(map), NoKey)
  OBVIOUS
<1>2. top.node.type = "dict" /\ top.key = NoKey
  BY <1>1 DEF Call, Dict
<1>3. PICK all : all = Append(calls, top)
  OBVIOUS
<1>4. all # <<>> /\ Last(all) = top
  BY <1>3, TopOfCalls
<1>5. ~ Ends(all, token) /\ AwaitsKey(all)
  BY <1>2, <1>4 DEF Ends, AwaitsKey
<1>6. Take(Reading(all), token) = handle_key(all, token)
  BY <1>5, TakesReading
<1> QED BY <1>1, <1>3, <1>6 DEF handle_key

LEMMA PlacedInDict ==
  ASSUME NEW X, NEW calls \in Seq(X), NEW map, NEW key, NEW node
  PROVE  Placed(Append(calls, Call(Dict(map), <<key>>)), node)
           = Reading(Append(calls, Call(Dict(hashmap_insert(map, key, node)), NoKey)))
<1>1. PICK top : top = Call(Dict(map), <<key>>)
  OBVIOUS
<1>2. top.node.type = "dict" /\ Head(top.key) = key /\ top.node.value = map
  BY <1>1 DEF Call, Dict
<1>3. PICK all : all = Append(calls, top)
  OBVIOUS
<1>4. all # <<>> /\ Last(all) = top /\ Front(all) = calls
  BY <1>3, TopOfCalls
<1>5. Placed(all, node) = GoesOn(all, Call(Dict(hashmap_insert(map, key, node)), NoKey))
  BY <1>2, <1>4 DEF Placed
<1> QED BY <1>1, <1>3, <1>4, <1>5 DEF GoesOn

LEMMA PlacedInList ==
  ASSUME NEW X, NEW calls \in Seq(X), NEW elements, NEW node
  PROVE  Placed(Append(calls, Call(List(elements), NoKey)), node)
           = Reading(Append(calls, Call(List(Append(elements, node)), NoKey)))
<1>1. PICK top : top = Call(List(elements), NoKey)
  OBVIOUS
<1>2. top.node.type = "list" /\ top.node.value = elements
  BY <1>1 DEF Call, List
<1>3. PICK all : all = Append(calls, top)
  OBVIOUS
<1>4. all # <<>> /\ Last(all) = top /\ Front(all) = calls
  BY <1>3, TopOfCalls
<1>5. Placed(all, node) = GoesOn(all, Call(List(Append(elements, node)), NoKey))
  BY <1>2, <1>4 DEF Placed
<1> QED BY <1>1, <1>3, <1>4, <1>5 DEF GoesOn

LEMMA TakesEnd ==
  ASSUME NEW X, NEW calls \in Seq(X), NEW top
  PROVE  Take(Reading(Append(calls, top)), Token("e")) = Placed(calls, WithBlank(top))
<1>1. PICK all : all = Append(calls, top)
  OBVIOUS
<1>2. all # <<>> /\ Last(all) = top /\ Front(all) = calls
  BY <1>1, TopOfCalls
<1>3. Ends(all, Token("e"))
  BY <1>2 DEF Ends, Token
<1> QED BY <1>1, <1>2, <1>3, TakesReading

LEMMA TakesOpen ==
  ASSUME NEW X, NEW calls \in Seq(X), ~ AwaitsKey(calls)
  PROVE  /\ Len(calls) + 1 > MAX_RECURSION =>
              \A token : token.t # "e" => Take(Reading(calls), token) = Null
         /\ ~ (Len(calls) + 1 > MAX_RECURSION) =>
              /\ Take(Reading(calls), Token("d"))
                   = Reading(Append(calls, Call(Dict(hashmap_init(DICT_SIZE)), NoKey)))
              /\ Take(Reading(calls), Token("l")) = Reading(Append(calls, Call(List(<<>>), NoKey)))
              /\ \A n : Take(Reading(calls), NumToken(n)) = Placed(calls, Num(n))
              /\ \A v, n : Take(Reading(calls), StrToken(v, n)) = Placed(calls, Str(v, n))
<1>1. \A token : token.t # "e" => Take(Reading(calls), token) = decode_helper(calls, token)
  <2>1. \A token : token.t # "e" => ~ Ends(calls, token)
    BY DEF Ends
  <2> QED BY <2>1, TakesReading
<1>2. CASE Len(calls) + 1 > MAX_RECURSION
  BY <1>1, <1>2 DEF decode_helper
<1>3. CASE ~ (Len(calls) + 1 > MAX_RECURSION)
  <2>1. Take(Reading(calls), Token("d"))
          = Reading(Append(calls, Call(Dict(hashmap_init(DICT_SIZE)), NoKey)))
    BY <1>1, <1>3 DEF decode_helper, Token
  <2>2. Take(Reading(calls), Token("l")) = Reading(Append(calls, Call(List(<<>>), NoKey)))
    BY <1>1, <1>3 DEF decode_helper, Token
  <2>3. ASSUME NEW n PROVE Take(Reading(calls), NumToken(n)) = Placed(calls, Num(n))
    BY <1>1, <1>3 DEF decode_helper, NumToken
  <2>4. ASSUME NEW v, NEW n PROVE Take(Reading(calls), StrToken(v, n)) = Placed(calls, Str(v, n))
    BY <1>1, <1>3 DEF decode_helper, StrToken
  <2> QED BY <1>3, <2>1, <2>2, <2>3, <2>4
<1> QED BY <1>2, <1>3

-----------------------------------------------------------------------------
(***************************************************************************)
(* What is read of an item is a node that writes the same item             *)
(***************************************************************************)
LEMMA WritesToken ==
  ASSUME NEW node, NEW x, x.t # "node", \A start \in Int : encode_helper(node, start) = <<x>>,
         NEW m \in Nat, m >= 1
  PROVE  Writes(node, m, <<x>>)
<1> SUFFICES ASSUME NEW start \in Int, NEW n \in Nat, n >= m
             PROVE  Spells(<<ToEncode(node)>>, start, n, <<x>>)
  BY DEF Writes
<1>1. PICK l \in Nat : n = l + 1
  <2>1. n - 1 \in Nat /\ n = (n - 1) + 1
    OBVIOUS
  <2> QED BY <2>1
<1>2. Spells(encode_helper(node, start), start, l, <<x>>)
  BY SpellsToken
<1> QED BY <1>1, <1>2, SpellsNode

LEMMA WritesBlank ==
  ASSUME NEW m \in Nat
  PROVE  Writes(Blank, m, <<>>)
<1> SUFFICES ASSUME NEW start \in Int, NEW n \in Nat
             PROVE  Spells(<<ToEncode(Blank)>>, start, n, <<>>)
  BY DEF Writes
<1>1. encode_helper(Blank, start) = <<>>
  BY DEF encode_helper, Blank
<1>2. CASE n # 0
  <2>1. PICK l \in Nat : n = l + 1
    <3>1. n - 1 \in Nat /\ n = (n - 1) + 1
      BY <1>2
    <3> QED BY <3>1
  <2> QED BY <1>1, <2>1, SpellsNothing, SpellsNode
<1>3. CASE n = 0
  <2>1. PICK x : x = ToEncode(Blank)
    OBVIOUS
  <2>2. Unfolded(x, start) = <<>> /\ Written(x) = <<>>
    BY <1>1, <2>1 DEF Unfolded, Written, ToEncode
  <2>3. Codable({x}, start) /\ <<x>> \in Seq({x}) /\ <<>> \in Seq({x})
    <3>1. <<x>> \in Seq({x}) /\ <<>> \in Seq({x})
      OBVIOUS
    <3> QED BY <2>2, <3>1 DEF Codable
  <2>4. PICK g : g = [k \in 0 .. n |-> <<x>>]
    OBVIOUS
  <2>5. g \in [0 .. n -> Seq({x})] /\ g[0] = <<x>> /\ g[n] = <<x>> /\ 1 .. n = {}
    BY <1>3, <2>3, <2>4
  <2>6. LevelsFrom(<<x>>, start, {x}, g, n)
    BY <2>5 DEF LevelsFrom
  <2>7. TokensOf(<<x>>) = <<>>
    BY <2>2, <2>3, EncodedSingle
  <2> QED BY <2>1, <2>3, <2>5, <2>6, <2>7 DEF Spells
<1> QED BY <1>2, <1>3

ReadAs(calls, item) ==
  \/ Reads(Reading(calls), item, Null)
  \/ \E node : /\ Writes(node, MAX_RECURSION - Len(calls), item)
               /\ Reads(Reading(calls), item, Placed(calls, node))

Decodable(item) == \A X : \A calls \in Seq(X) : ~ AwaitsKey(calls) => ReadAs(calls, item)

LEMMA TooDeep ==
  ASSUME NEW X, NEW calls \in Seq(X), ~ AwaitsKey(calls), Len(calls) + 1 > MAX_RECURSION,
         NEW x, x.t # "e", NEW Y, NEW rest \in Seq(Y)
  PROVE  Reads(Reading(calls), <<x>> \o rest, Null)
<1>1. Take(Reading(calls), x) = Null
  BY TakesOpen
<1>2. Reads(Reading(calls), <<x>>, Null)
  BY <1>1, ReadsOne
<1>3. <<x>> \in Seq({x})
  OBVIOUS
<1> QED BY <1>2, <1>3, ReadsNull

LEMMA TokenDecodable ==
  ASSUME NEW x, x.t # "node", x.t # "e", NEW node,
         \A start \in Int : encode_helper(node, start) = <<x>>,
         \A X : \A calls \in Seq(X) :
           ~ AwaitsKey(calls) /\ ~ (Len(calls) + 1 > MAX_RECURSION) =>
             Take(Reading(calls), x) = Placed(calls, node)
  PROVE  Decodable(<<x>>)
<1> SUFFICES ASSUME NEW X, NEW calls \in Seq(X), ~ AwaitsKey(calls)
             PROVE  ReadAs(calls, <<x>>)
  BY DEF Decodable
<1>1. Reads(Reading(calls), <<x>>, Take(Reading(calls), x))
  BY ReadsOne
<1>2. CASE Len(calls) + 1 > MAX_RECURSION
  <2>1. Take(Reading(calls), x) = Null
    BY <1>2, TakesOpen
  <2> QED BY <1>1, <2>1 DEF ReadAs
<1>3. CASE ~ (Len(calls) + 1 > MAX_RECURSION)
  <2>1. Take(Reading(calls), x) = Placed(calls, node)
    BY <1>3
  <2>2. PICK m \in Nat : m = MAX_RECURSION - Len(calls) /\ m >= 1
    <3>1. MAX_RECURSION \in Nat /\ Len(calls) \in Nat
      BY BencodingAssumption
    <3>2. MAX_RECURSION - Len(calls) \in Nat /\ MAX_RECURSION - Len(calls) >= 1
      BY <1>3, <3>1
    <3> QED BY <3>2
  <2>3. Writes(node, m, <<x>>)
    BY <2>2, WritesToken
  <2> QED BY <1>1, <2>1, <2>2, <2>3 DEF ReadAs
<1> QED BY <1>2, <1>3

LEMMA NumDecodable ==
  ASSUME NEW n
  PROVE  Decodable(<<NumToken(n)>>)
<1>1. NumToken(n).t = "i"
  BY DEF NumToken
<1>2. \A start \in Int : encode_helper(Num(n), start) = <<NumToken(n)>>
  BY DEF encode_helper, Num
<1>3. \A X : \A calls \in Seq(X) :
        ~ AwaitsKey(calls) /\ ~ (Len(calls) + 1 > MAX_RECURSION) =>
          Take(Reading(calls), NumToken(n)) = Placed(calls, Num(n))
  BY TakesOpen
<1> QED BY <1>1, <1>2, <1>3, TokenDecodable

LEMMA StrDecodable ==
  ASSUME NEW v, NEW n
  PROVE  Decodable(<<StrToken(v, n)>>)
<1>1. StrToken(v, n).t = "s"
  BY DEF StrToken
<1>2. \A start \in Int : encode_helper(Str(v, n), start) = <<StrToken(v, n)>>
  BY DEF encode_helper, Str
<1>3. \A X : \A calls \in Seq(X) :
        ~ AwaitsKey(calls) /\ ~ (Len(calls) + 1 > MAX_RECURSION) =>
          Take(Reading(calls), StrToken(v, n)) = Placed(calls, Str(v, n))
  BY TakesOpen
<1> QED BY <1>1, <1>2, <1>3, TokenDecodable

\* The decoder after n entries of a dictionary that the last of the calls is for.
DictUpTo(calls, keys, parts, m, n, d) ==
  \/ d = Null
  \/ \E map : /\ Holds(map, n, keys, parts, m)
              /\ d = Reading(Append(calls, Call(Dict(map), NoKey)))
  \/ \E map : /\ n # 0 /\ parts[n] = <<>> /\ HasRoom(map, keys[n])
              /\ Holds(map, n - 1, keys, parts, m)
              /\ d = Reading(Append(calls, Call(Dict(map), <<keys[n]>>)))

LEMMA DictEntry ==
  ASSUME NEW X, NEW calls \in Seq(X), NEW m \in Nat, m = MAX_RECURSION - (Len(calls) + 1),
         NEW keys, NEW parts, NEW n \in Nat, NEW k, k = n + 1,
         NEW map, Holds(map, n, keys, parts, m),
         NEW Y, parts[k] \in Seq(Y), parts[k] = <<>> \/ Decodable(parts[k])
  PROVE  \E e : /\ Reads(Reading(Append(calls, Call(Dict(map), NoKey))),
                         <<KeyToken(keys[k])>> \o parts[k], e)
                /\ DictUpTo(calls, keys, parts, m, k, e)
<1>1. PICK d : d = Reading(Append(calls, Call(Dict(map), NoKey)))
  OBVIOUS
<1>2. PICK x : x = KeyToken(keys[k])
  OBVIOUS
<1>3. <<x>> \in Seq({x}) /\ x.t = "s" /\ x.value = keys[k]
  <2>1. x.t = "s" /\ x.value = keys[k]
    BY <1>2 DEF KeyToken, StrToken
  <2> QED BY <2>1
<1>4. Reads(d, <<x>>, Take(d, x))
  BY ReadsOne
<1>5. CASE ~ HasRoom(map, keys[k])
  <2>1. Take(d, x) = Null
    BY <1>1, <1>3, <1>5, TakesKey
  <2>2. Reads(d, <<x>> \o parts[k], Null)
    BY <1>3, <1>4, <2>1, ReadsNull
  <2> QED BY <1>1, <1>2, <2>2 DEF DictUpTo
<1>6. CASE HasRoom(map, keys[k])
  <2>1. PICK top : top = Call(Dict(map), <<keys[k]>>)
    OBVIOUS
  <2>2. Take(d, x) = Reading(Append(calls, top))
    BY <1>1, <1>3, <1>6, <2>1, TakesKey
  <2>3. CASE parts[k] = <<>>
    <3>1. <<x>> \o parts[k] = <<x>>
      BY <1>3, <2>3
    <3>2. DictUpTo(calls, keys, parts, m, k, Take(d, x))
      <4>1. k # 0 /\ k - 1 = n
        OBVIOUS
      <4> QED BY <1>6, <2>1, <2>2, <2>3, <4>1 DEF DictUpTo
    <3> QED BY <1>1, <1>2, <1>4, <3>1, <3>2
  <2>4. CASE Decodable(parts[k])
    <3>1. PICK all : all = Append(calls, top)
      OBVIOUS
    <3>2. all # <<>> /\ Last(all) = top /\ Len(all) = Len(calls) + 1
      BY <3>1, TopOfCalls
    <3>3. \E Z : all \in Seq(Z)
      <4>1. X \subseteq X \cup {top} /\ top \in X \cup {top}
        OBVIOUS
      <4> QED BY <3>1, <4>1, SeqMonotonic, AppendProperties, ZenonT(30)
    <3>4. ~ AwaitsKey(all)
      <4>1. top.key # NoKey
        BY <2>1 DEF Call, NoKey
      <4> QED BY <3>2, <4>1 DEF AwaitsKey
    <3>5. ReadAs(all, parts[k])
      BY <2>4, <3>3, <3>4 DEF Decodable
    <3>6. CASE Reads(Reading(all), parts[k], Null)
      <4>1. Reads(d, <<x>> \o parts[k], Null)
        BY <1>3, <1>4, <2>2, <3>1, <3>6, ReadsConcat
      <4> QED BY <1>1, <1>2, <4>1 DEF DictUpTo
    <3>7. ASSUME NEW node, Writes(node, m, parts[k]), Reads(Reading(all), parts[k], Placed(all, node))
          PROVE  \E e : Reads(d, <<x>> \o parts[k], e) /\ DictUpTo(calls, keys, parts, m, k, e)
      <4>1. Reads(d, <<x>> \o parts[k], Placed(all, node))
        BY <1>3, <1>4, <2>2, <3>1, <3>7, ReadsConcat
      <4>2. PICK map2 : map2 = hashmap_insert(map, keys[k], node)
        OBVIOUS
      <4>3. Placed(all, node) = Reading(Append(calls, Call(Dict(map2), NoKey)))
        BY <2>1, <3>1, <4>2, PlacedInDict
      <4>4. Holds(map2, k, keys, parts, m)
        BY <1>6, <3>7, <4>2, HoldsMore
      <4>5. DictUpTo(calls, keys, parts, m, k, Placed(all, node))
        BY <4>3, <4>4 DEF DictUpTo
      <4> QED BY <4>1, <4>5
    <3> QED BY <1>1, <1>2, <3>2, <3>5, <3>6, <3>7 DEF ReadAs
  <2> QED BY <2>3, <2>4
<1> QED BY <1>5, <1>6

\* Only the last part may be missing, and the others are read back.
PartsReadable(parts, n) ==
  /\ \E Y : \A k \in 1 .. n : parts[k] \in Seq(Y)
  /\ \A k \in 1 .. n : parts[k] # <<>> => Decodable(parts[k])
  /\ \A k \in 1 .. n : k # n => parts[k] # <<>>

LEMMA DictEntries ==
  ASSUME NEW X, NEW calls \in Seq(X), NEW m \in Nat, m = MAX_RECURSION - (Len(calls) + 1),
         NEW keys, NEW parts, NEW n \in Nat, PartsReadable(parts, n)
  PROVE  \E e : /\ Reads(Reading(Append(calls, Call(Dict(hashmap_init(DICT_SIZE)), NoKey))),
                         FlattenSeq(WithKeys(keys, parts, n)), e)
                /\ DictUpTo(calls, keys, parts, m, n, e)
<1>1. PICK d : d = Reading(Append(calls, Call(Dict(hashmap_init(DICT_SIZE)), NoKey)))
  OBVIOUS
<1> DEFINE ReadTo(i) == \E e : /\ Reads(d, FlattenSeq(WithKeys(keys, parts, i)), e)
                               /\ DictUpTo(calls, keys, parts, m, i, e)
           T == {i \in 0 .. n : ~ ReadTo(i)}
<1> SUFFICES ASSUME T # {} PROVE FALSE
  <2>1. n \in 0 .. n
    OBVIOUS
  <2>2. ReadTo(n)
    BY <2>1
  <2> QED BY <1>1, <2>2
<1>2. PICK i \in T : \A y \in T : i <= y
  <2>1. T \subseteq Nat
    OBVIOUS
  <2> HIDE DEF T
  <2> QED BY <2>1, LeastNumber
<1>3. i \in 0 .. n /\ ~ ReadTo(i)
  OBVIOUS
<1>4. CASE i = 0
  <2>1. WithKeys(keys, parts, i) = <<>>
    <3>1. 1 .. i = {}
      BY <1>4
    <3> QED BY <3>1 DEF WithKeys
  <2>2. Reads(d, FlattenSeq(WithKeys(keys, parts, i)), d)
    BY <2>1, FlattenEmpty, ReadsNothing
  <2>3. Holds(hashmap_init(DICT_SIZE), i, keys, parts, m)
    BY <1>4, BencodingAssumption, HoldsNone
  <2>4. DictUpTo(calls, keys, parts, m, i, d)
    BY <1>1, <2>3 DEF DictUpTo
  <2> QED BY <1>3, <2>2, <2>4
<1>5. CASE i # 0
  <2>1. PICK j \in Nat : i = j + 1 /\ j \in 0 .. n /\ j # n
    <3>1. i - 1 \in Nat /\ i = (i - 1) + 1 /\ i - 1 \in 0 .. n /\ i - 1 # n
      BY <1>3, <1>5
    <3> QED BY <3>1
  <2>2. j \notin T
    <3>1. ~ (i <= j)
      BY <2>1
    <3> HIDE DEF T
    <3> QED BY <1>2, <3>1, Zenon
  <2>3. PICK e : /\ Reads(d, FlattenSeq(WithKeys(keys, parts, j)), e)
                 /\ DictUpTo(calls, keys, parts, m, j, e)
    BY <2>1, <2>2
  <2>4. PICK Z : /\ WithKeys(keys, parts, j) \in Seq(Seq(Z)) /\ parts[i] \in Seq(Z)
                 /\ <<KeyToken(keys[i])>> \o parts[i] \in Seq(Z)
                 /\ WithKeys(keys, parts, i)
                      = Append(WithKeys(keys, parts, j), <<KeyToken(keys[i])>> \o parts[i])
    <3>1. \E Y : \A k \in 1 .. n : parts[k] \in Seq(Y)
      BY DEF PartsReadable
    <3> QED BY <2>1, <3>1, WithKeysType, ZenonT(30)
  <2>5. PICK a \in Seq(Z), b \in Seq(Z) :
          /\ a = FlattenSeq(WithKeys(keys, parts, j)) /\ b = <<KeyToken(keys[i])>> \o parts[i]
          /\ FlattenSeq(WithKeys(keys, parts, i)) = a \o b
    <3>1. PICK w \in Seq(Seq(Z)), b \in Seq(Z) :
            w = WithKeys(keys, parts, j) /\ b = <<KeyToken(keys[i])>> \o parts[i]
      BY <2>4
    <3>2. FlattenSeq(w) \in Seq(Z) /\ FlattenSeq(Append(w, b)) = FlattenSeq(w) \o b
      BY FlattenAppend
    <3> QED BY <2>4, <3>1, <3>2
  <2>6. i \in 1 .. n
    BY <1>3, <2>1
  <2>7. CASE e = Null
    <3>1. Reads(d, a \o b, Null)
      BY <2>3, <2>5, <2>7, ReadsNull
    <3>2. DictUpTo(calls, keys, parts, m, i, Null)
      BY DEF DictUpTo
    <3> QED BY <1>3, <2>5, <3>1, <3>2
  <2>8. ASSUME NEW map, Holds(map, j, keys, parts, m),
               e = Reading(Append(calls, Call(Dict(map), NoKey)))
        PROVE  FALSE
    <3>1. parts[i] = <<>> \/ Decodable(parts[i])
      BY <2>6 DEF PartsReadable
    <3>2. PICK f : Reads(e, b, f) /\ DictUpTo(calls, keys, parts, m, i, f)
      BY <2>1, <2>4, <2>5, <2>8, <3>1, DictEntry
    <3>3. Reads(d, a \o b, f)
      BY <2>3, <2>5, <3>2, ReadsConcat
    <3> QED BY <1>3, <2>5, <3>2, <3>3
  <2>9. ~ (j # 0 /\ parts[j] = <<>>)
    <3>1. j # 0 => j \in 1 .. n
      BY <2>1
    <3> QED BY <2>1, <3>1 DEF PartsReadable
  <2> QED BY <2>3, <2>7, <2>8, <2>9 DEF DictUpTo
<1> QED BY <1>4, <1>5

LEMMA WithBlankIs ==
  ASSUME NEW map, NEW key
  PROVE  /\ WithBlank(Call(Dict(map), NoKey)) = Dict(map)
         /\ WithBlank(Call(Dict(map), <<key>>)) = Dict(hashmap_insert(map, key, Blank))
<1>1. Head(<<key>>) = key /\ <<key>> # NoKey
  BY DEF NoKey
<1> QED BY <1>1 DEF WithBlank, Call, Dict

\* A dictionary in the order of its keys.
LEMMA DictItem ==
  ASSUME NEW X, NEW calls \in Seq(X), ~ AwaitsKey(calls),
         NEW keys, NEW parts, NEW n \in Nat, PartsReadable(parts, n), Ascending(keys, n),
         NEW item, item = InBrackets("d", FlattenSeq(WithKeys(keys, parts, n)))
  PROVE  \/ Reads(Reading(calls), item, Null)
         \/ \E map, m : /\ m = MAX_RECURSION - (Len(calls) + 1) /\ m \in Nat
                        /\ Holds(map, n, keys, parts, m)
                        /\ Writes(Dict(map), MAX_RECURSION - Len(calls), item)
                        /\ Reads(Reading(calls), item, Placed(calls, Dict(map)))
<1>1. PICK o : o = Token("d")
  OBVIOUS
<1>2. PICK x : x = Token("e")
  OBVIOUS
<1>3. PICK Z : WithKeys(keys, parts, n) \in Seq(Seq(Z))
  <2>1. n \in 0 .. n
    OBVIOUS
  <2> QED BY <2>1, WithKeysType DEF PartsReadable
<1>4. PICK s \in Seq(Z) : s = FlattenSeq(WithKeys(keys, parts, n))
  BY <1>3, FlattenType
<1>5. PICK I : Seq(Z) \subseteq Seq(I) /\ <<o>> \in Seq(I) /\ <<x>> \in Seq(I)
  <2>1. PICK J : J = Z \cup {o, x}
    OBVIOUS
  <2>2. Z \subseteq J /\ o \in J /\ x \in J
    BY <2>1
  <2>3. <<o>> \in Seq(J) /\ <<x>> \in Seq(J)
    BY <2>2
  <2> QED BY <2>2, <2>3, SeqMonotonic
<1>6. s \in Seq(I) /\ <<o>> \in Seq(I) /\ <<x>> \in Seq(I)
  BY <1>5
<1>7. item = (<<o>> \o s) \o <<x>> /\ item = <<o>> \o (s \o <<x>>)
      /\ <<o>> \o s \in Seq(I) /\ s \o <<x>> \in Seq(I)
  <2>1. item = (<<o>> \o s) \o <<x>>
    BY <1>1, <1>2, <1>4 DEF InBrackets
  <2>2. PICK u \in Seq(I), v \in Seq(I) : u = <<o>> /\ v = <<x>>
    BY <1>6
  <2>3. s \in Seq(I)
    BY <1>6
  <2>4. (u \o s) \o v = u \o (s \o v) /\ u \o s \in Seq(I) /\ s \o v \in Seq(I)
    BY ONLY u \in Seq(I), v \in Seq(I), <2>3, ConcatAssociative, ConcatProperties
  <2> QED BY <2>1, <2>2, <2>4
<1>8. CASE Len(calls) + 1 > MAX_RECURSION
  <2>1. o.t # "e"
    BY <1>1 DEF Token
  <2> QED BY <1>7, <1>8, <2>1, TooDeep
<1>9. CASE ~ (Len(calls) + 1 > MAX_RECURSION)
  <2>1. PICK m \in Nat : /\ m = MAX_RECURSION - (Len(calls) + 1)
                         /\ m + 1 = MAX_RECURSION - Len(calls)
    <3>1. MAX_RECURSION \in Nat /\ Len(calls) \in Nat
      BY BencodingAssumption
    <3>2. MAX_RECURSION - (Len(calls) + 1) \in Nat
          /\ MAX_RECURSION - (Len(calls) + 1) + 1 = MAX_RECURSION - Len(calls)
      BY <1>9, <3>1
    <3> QED BY <3>2
  <2>2. PICK d : d = Reading(Append(calls, Call(Dict(hashmap_init(DICT_SIZE)), NoKey)))
    OBVIOUS
  <2>3. Reads(Reading(calls), <<o>>, d)
    <3>1. Take(Reading(calls), o) = d
      BY <1>1, <1>9, <2>2, TakesOpen
    <3> QED BY <3>1, ReadsOne
  <2>4. PICK e : Reads(d, s, e) /\ DictUpTo(calls, keys, parts, m, n, e)
    BY <1>4, <2>1, <2>2, DictEntries
  <2>5. Reads(Reading(calls), <<o>> \o s, e)
    BY <1>6, <2>3, <2>4, ReadsConcat
  <2>6. Reads(Reading(calls), item, Take(e, x))
    <3>1. Reads(e, <<x>>, Take(e, x))
      BY ReadsOne
    <3> QED BY <1>6, <1>7, <2>5, <3>1, ReadsConcat
  <2>7. ASSUME NEW map, Holds(map, n, keys, parts, m), Take(e, x) = Placed(calls, Dict(map))
        PROVE  \E map2, m2 : /\ m2 = MAX_RECURSION - (Len(calls) + 1) /\ m2 \in Nat
                             /\ Holds(map2, n, keys, parts, m2)
                             /\ Writes(Dict(map2), MAX_RECURSION - Len(calls), item)
                             /\ Reads(Reading(calls), item, Placed(calls, Dict(map2)))
    <3>1. Writes(Dict(map), m + 1, item)
      <4>1. PICK Y : \A k \in 1 .. n : parts[k] \in Seq(Y)
        BY DEF PartsReadable
      <4> QED BY <2>7, <4>1, HeldIsWritten
    <3> QED BY <2>1, <2>6, <2>7, <3>1
  <2>8. CASE e = Null
    <3>1. Take(e, x) = Null
      BY <2>8 DEF Take, Null
    <3> QED BY <2>6, <3>1
  <2>9. ASSUME NEW map, Holds(map, n, keys, parts, m),
               e = Reading(Append(calls, Call(Dict(map), NoKey)))
        PROVE  Take(e, x) = Placed(calls, Dict(map))
    BY <1>2, <2>9, TakesEnd, WithBlankIs
  <2>10. ASSUME NEW map, n # 0, parts[n] = <<>>, HasRoom(map, keys[n]),
                Holds(map, n - 1, keys, parts, m),
                e = Reading(Append(calls, Call(Dict(map), <<keys[n]>>)))
         PROVE  \E map2 : Holds(map2, n, keys, parts, m) /\ Take(e, x) = Placed(calls, Dict(map2))
    <3>1. PICK map2 : map2 = hashmap_insert(map, keys[n], Blank)
      OBVIOUS
    <3>2. Take(e, x) = Placed(calls, Dict(map2))
      BY <1>2, <2>10, <3>1, TakesEnd, WithBlankIs
    <3>3. PICK j \in Nat : n = j + 1 /\ j = n - 1
      <4>1. n - 1 \in Nat /\ n = (n - 1) + 1
        BY <2>10
      <4> QED BY <4>1
    <3>4. Holds(map2, j + 1, keys, parts, m)
      BY <2>10, <3>1, <3>3, WritesBlank, HoldsMore
    <3> QED BY <3>2, <3>3, <3>4
  <2> QED BY <2>4, <2>7, <2>8, <2>9, <2>10 DEF DictUpTo
<1> QED BY <1>8, <1>9

\* Elements of a list that are encoded as these tokens, if there are m levels or more.
Nodes(elements) == [k \in DOMAIN elements |-> ToEncode(elements[k])]
ListHolds(elements, tokens, m) ==
  /\ \E Y : elements \in Seq(Y)
  /\ \A start \in Int, n \in Nat : n >= m => Spells(Nodes(elements), start, n, tokens)

LEMMA ListHoldsNone ==
  ASSUME NEW m
  PROVE  ListHolds(<<>>, <<>>, m)
<1>1. PICK none : none = <<>>
  OBVIOUS
<1>2. Nodes(none) = <<>> /\ none \in Seq({})
  <2>1. DOMAIN none = {}
    BY <1>1
  <2> QED BY <1>1, <2>1 DEF Nodes
<1> QED BY <1>1, <1>2, SpellsNothing DEF ListHolds

LEMMA NodesAppend ==
  ASSUME NEW Y, NEW elements \in Seq(Y), NEW node
  PROVE  Nodes(Append(elements, node)) = Nodes(elements) \o <<ToEncode(node)>>
<1>1. PICK x : x = ToEncode(node)
  OBVIOUS
<1>2. PICK more : more = Append(elements, node)
  OBVIOUS
<1>3. PICK n \in Nat : n = Len(elements)
  OBVIOUS
<1>4. DOMAIN elements = 1 .. n /\ DOMAIN more = 1 .. n + 1
      /\ more[n + 1] = node /\ \A k \in 1 .. n : more[k] = elements[k]
  <2>1. PICK Z : elements \in Seq(Z) /\ node \in Z
    <3>1. Y \subseteq Y \cup {node} /\ node \in Y \cup {node}
      OBVIOUS
    <3> QED BY <3>1, SeqMonotonic
  <2> QED BY <1>2, <1>3, <2>1, AppendProperties
<1>5. PICK I : I = {x} \cup {ToEncode(elements[k]) : k \in 1 .. n}
  OBVIOUS
<1>6. PICK a \in Seq(I) : a = Nodes(elements) /\ Len(a) = n
  <2>1. Nodes(elements) \in [1 .. n -> I]
    BY <1>4, <1>5 DEF Nodes
  <2>2. Nodes(elements) \in Seq(I) /\ Len(Nodes(elements)) = n
    BY <2>1
  <2> QED BY <2>2
<1>7. PICK b \in Seq(I) : b = <<x>> /\ Len(b) = 1 /\ b[1] = x
  <2>1. <<x>> \in Seq(I)
    BY <1>5
  <2> QED BY <2>1
<1>8. PICK c \in Seq(I) : c = a \o b /\ Len(c) = n + 1 /\ c[n + 1] = x /\ \A k \in 1 .. n : c[k] = a[k]
  <2>1. PICK c \in Seq(I) : c = a \o b
    BY ConcatProperties
  <2>2. Len(c) = n + 1 /\ c[n + 1] = x /\ \A k \in 1 .. n : c[k] = a[k]
    <3>1. Len(c) = n + 1 /\ \A k \in 1 .. n : c[k] = a[k]
      BY <1>6, <1>7, <2>1
    <3>2. PICK i \in 1 .. n + 1 : i = n + 1
      OBVIOUS
    <3>3. i - Len(a) = 1 /\ i \in 1 .. Len(a) + Len(b) /\ ~ (i <= Len(a))
      BY <1>6, <1>7, <3>2
    <3>4. c[i] = b[1]
      BY <2>1, <3>3
    <3> QED BY <1>7, <3>1, <3>2, <3>4
  <2> QED BY <2>1, <2>2
<1>9. PICK e \in Seq(I) : /\ e = Nodes(more) /\ Len(e) = n + 1
                          /\ \A k \in 1 .. n + 1 : e[k] = ToEncode(more[k])
  <2>1. Nodes(more) = [k \in 1 .. n + 1 |-> ToEncode(more[k])]
    BY <1>4 DEF Nodes
  <2>2. ASSUME NEW k \in 1 .. n + 1 PROVE ToEncode(more[k]) \in I
    <3>1. CASE k = n + 1
      BY <1>1, <1>4, <1>5, <3>1
    <3>2. CASE k # n + 1
      <4>1. k \in 1 .. n
        BY <3>2
      <4> QED BY <1>4, <1>5, <4>1
    <3> QED BY <3>1, <3>2
  <2>3. Nodes(more) \in [1 .. n + 1 -> I]
    BY <2>1, <2>2
  <2>4. Nodes(more) \in Seq(I) /\ Len(Nodes(more)) = n + 1
    BY <2>3
  <2> QED BY <2>1, <2>4
<1>10. ASSUME NEW k \in 1 .. n + 1 PROVE e[k] = c[k]
  <2>1. CASE k = n + 1
    BY <1>1, <1>4, <1>8, <1>9, <2>1
  <2>2. CASE k # n + 1
    <3>1. k \in 1 .. n
      BY <2>2
    <3>2. a[k] = ToEncode(elements[k])
      BY <1>4, <1>6, <3>1 DEF Nodes
    <3> QED BY <1>4, <1>8, <1>9, <3>1, <3>2
  <2> QED BY <2>1, <2>2
<1>11. e = c
  BY <1>8, <1>9, <1>10, SeqEqual
<1> QED BY <1>1, <1>2, <1>6, <1>7, <1>8, <1>9, <1>11

LEMMA ListHoldsMore ==
  ASSUME NEW elements, NEW s, NEW m, ListHolds(elements, s, m), NEW node, NEW t, Writes(node, m, t)
  PROVE  ListHolds(Append(elements, node), s \o t, m)
<1>1. PICK Y : elements \in Seq(Y)
  BY DEF ListHolds
<1>2. \E Z : Append(elements, node) \in Seq(Z)
  <2>1. Y \subseteq Y \cup {node} /\ node \in Y \cup {node}
    OBVIOUS
  <2>2. elements \in Seq(Y \cup {node})
    BY <1>1, <2>1, SeqMonotonic
  <2> QED BY <2>1, <2>2, AppendProperties
<1>3. ASSUME NEW start \in Int, NEW n \in Nat, n >= m
      PROVE  Spells(Nodes(Append(elements, node)), start, n, s \o t)
  <2>1. Spells(Nodes(elements), start, n, s) /\ Spells(<<ToEncode(node)>>, start, n, t)
    BY <1>3 DEF ListHolds, Writes
  <2>2. Spells(Nodes(elements) \o <<ToEncode(node)>>, start, n, s \o t)
    BY <2>1, SpellsConcat
  <2> QED BY <1>1, <2>2, NodesAppend
<1> QED BY <1>2, <1>3 DEF ListHolds

LEMMA ListIsWritten ==
  ASSUME NEW elements, NEW tokens, NEW m \in Nat, ListHolds(elements, tokens, m)
  PROVE  Writes(List(elements), m + 1, InBrackets("l", tokens))
<1> SUFFICES ASSUME NEW start \in Int, NEW n \in Nat, n >= m + 1
             PROVE  Spells(<<ToEncode(List(elements))>>, start, n, InBrackets("l", tokens))
  BY DEF Writes
<1>1. PICK b \in Nat : n = b + 1 /\ b >= m
  <2>1. n - 1 \in Nat /\ n = (n - 1) + 1 /\ n - 1 >= m
    OBVIOUS
  <2> QED BY <2>1
<1>2. Spells(InBrackets("l", Nodes(elements)), start, b, InBrackets("l", tokens))
  BY <1>1, SpellsBracket DEF ListHolds
<1>3. encode_helper(List(elements), start) = InBrackets("l", Nodes(elements))
  BY DEF encode_helper, List, InBrackets, Nodes
<1> QED BY <1>1, <1>2, <1>3, SpellsNode

Upto(parts, n) == [k \in 1 .. n |-> parts[k]]

LEMMA UptoProperties ==
  ASSUME NEW S, NEW parts \in Seq(S), NEW n \in Nat, n = Len(parts)
  PROVE  /\ Upto(parts, n) = parts /\ \A i \in 0 .. n : Upto(parts, i) \in Seq(S)
         /\ \A i \in 0 .. n : i # n => Upto(parts, i + 1) = Append(Upto(parts, i), parts[i + 1])
<1>1. \A k \in 1 .. n : parts[k] \in S
  OBVIOUS
<1>2. ASSUME NEW i \in 0 .. n
      PROVE  Upto(parts, i) \in Seq(S) /\ Len(Upto(parts, i)) = i
             /\ \A k \in 1 .. i : Upto(parts, i)[k] = parts[k]
  <2>1. \A k \in 1 .. i : parts[k] \in S
    BY <1>1
  <2>2. Upto(parts, i) \in [1 .. i -> S]
    BY <2>1 DEF Upto
  <2>3. \A k \in 1 .. i : Upto(parts, i)[k] = parts[k]
    BY DEF Upto
  <2> QED BY <2>2, <2>3
<1>3. Upto(parts, n) = parts
  <2>1. n \in 0 .. n
    OBVIOUS
  <2> QED BY <1>2, <2>1, SeqEqual
<1>4. ASSUME NEW i \in 0 .. n, i # n
      PROVE  Upto(parts, i + 1) = Append(Upto(parts, i), parts[i + 1])
  <2>1. i + 1 \in 0 .. n /\ i + 1 \in 1 .. n
    BY <1>4
  <2>2. PICK a \in Seq(S) : a = Upto(parts, i) /\ Len(a) = i /\ \A k \in 1 .. i : a[k] = parts[k]
    BY <1>2
  <2>3. PICK b \in Seq(S) : /\ b = Upto(parts, i + 1) /\ Len(b) = i + 1
                            /\ \A k \in 1 .. i + 1 : b[k] = parts[k]
    BY <1>2, <2>1
  <2>4. PICK c \in Seq(S) : /\ c = Append(a, parts[i + 1]) /\ Len(c) = i + 1
                            /\ c[i + 1] = parts[i + 1] /\ \A k \in 1 .. i : c[k] = a[k]
    <3>1. PICK p \in S : p = parts[i + 1]
      BY <1>1, <2>1
    <3>2. PICK c \in Seq(S) : c = Append(a, p)
      BY AppendProperties
    <3>3. Len(c) = i + 1 /\ c[i + 1] = p /\ \A k \in 1 .. i : c[k] = a[k]
      BY <2>2, <3>2
    <3> QED BY <3>1, <3>2, <3>3
  <2>5. ASSUME NEW k \in 1 .. i + 1 PROVE b[k] = c[k]
    <3>1. CASE k = i + 1
      BY <2>3, <2>4, <3>1
    <3>2. CASE k # i + 1
      <4>1. k \in 1 .. i
        BY <3>2
      <4> QED BY <2>2, <2>3, <2>4, <4>1
    <3> QED BY <3>1, <3>2
  <2>6. b = c
    BY <2>3, <2>4, <2>5, SeqEqual
  <2> QED BY <2>2, <2>3, <2>4, <2>6
<1> QED BY <1>2, <1>3, <1>4

\* The decoder after n elements of a list that the last of the calls is for.
ListUpTo(calls, parts, m, n, d) ==
  \/ d = Null
  \/ \E elements : /\ ListHolds(elements, FlattenSeq(Upto(parts, n)), m)
                   /\ d = Reading(Append(calls, Call(List(elements), NoKey)))

LEMMA ListElement ==
  ASSUME NEW X, NEW calls \in Seq(X), NEW m \in Nat, m = MAX_RECURSION - (Len(calls) + 1),
         NEW elements, NEW s, ListHolds(elements, s, m), NEW part, Decodable(part)
  PROVE  \/ Reads(Reading(Append(calls, Call(List(elements), NoKey))), part, Null)
         \/ \E more : /\ ListHolds(more, s \o part, m)
                      /\ Reads(Reading(Append(calls, Call(List(elements), NoKey))), part,
                               Reading(Append(calls, Call(List(more), NoKey))))
<1>1. PICK top : top = Call(List(elements), NoKey)
  OBVIOUS
<1>2. PICK all : all = Append(calls, top)
  OBVIOUS
<1>3. all # <<>> /\ Last(all) = top /\ Len(all) = Len(calls) + 1
  BY <1>2, TopOfCalls
<1>4. \E Z : all \in Seq(Z)
  <2>1. X \subseteq X \cup {top} /\ top \in X \cup {top}
    OBVIOUS
  <2>2. calls \in Seq(X \cup {top})
    BY <2>1, SeqMonotonic
  <2> QED BY <1>2, <2>1, <2>2, AppendProperties
<1>5. ~ AwaitsKey(all)
  <2>1. top.node.type # "dict"
    BY <1>1 DEF Call, List
  <2> QED BY <1>3, <2>1 DEF AwaitsKey
<1>6. ReadAs(all, part)
  BY <1>4, <1>5 DEF Decodable
<1>7. ASSUME NEW node, Writes(node, m, part), Reads(Reading(all), part, Placed(all, node))
      PROVE  \E more : /\ ListHolds(more, s \o part, m)
                       /\ Reads(Reading(all), part, Reading(Append(calls, Call(List(more), NoKey))))
  <2>1. PICK more : more = Append(elements, node)
    OBVIOUS
  <2>2. Placed(all, node) = Reading(Append(calls, Call(List(more), NoKey)))
    BY <1>1, <1>2, <2>1, PlacedInList
  <2>3. ListHolds(more, s \o part, m)
    BY <1>7, <2>1, ListHoldsMore
  <2> QED BY <1>7, <2>2, <2>3
<1> QED BY <1>1, <1>2, <1>3, <1>6, <1>7 DEF ReadAs

LEMMA ListElements ==
  ASSUME NEW X, NEW calls \in Seq(X), NEW m \in Nat, m = MAX_RECURSION - (Len(calls) + 1),
         NEW Z, NEW parts \in Seq(Seq(Z)), NEW n \in Nat, n = Len(parts),
         \A k \in 1 .. n : Decodable(parts[k])
  PROVE  \E e : /\ Reads(Reading(Append(calls, Call(List(<<>>), NoKey))), FlattenSeq(parts), e)
                /\ ListUpTo(calls, parts, m, n, e)
<1>1. PICK d : d = Reading(Append(calls, Call(List(<<>>), NoKey)))
  OBVIOUS
<1> DEFINE ReadTo(i) == \E e : /\ Reads(d, FlattenSeq(Upto(parts, i)), e)
                               /\ ListUpTo(calls, parts, m, i, e)
           T == {i \in 0 .. n : ~ ReadTo(i)}
<1> SUFFICES ASSUME T # {} PROVE FALSE
  <2>1. n \in 0 .. n
    OBVIOUS
  <2>2. ReadTo(n)
    BY <2>1
  <2>3. Upto(parts, n) = parts
    BY UptoProperties
  <2> QED BY <1>1, <2>2, <2>3
<1>2. PICK i \in T : \A y \in T : i <= y
  <2>1. T \subseteq Nat
    OBVIOUS
  <2> HIDE DEF T
  <2> QED BY <2>1, LeastNumber
<1>3. i \in 0 .. n /\ ~ ReadTo(i)
  OBVIOUS
<1>4. CASE i = 0
  <2>1. Upto(parts, i) = <<>>
    <3>1. 1 .. i = {}
      BY <1>4
    <3>2. PICK w \in Seq(Seq(Z)) : w = Upto(parts, i)
      BY <1>3, UptoProperties
    <3>3. DOMAIN w = {}
      BY <3>1, <3>2 DEF Upto
    <3> QED BY <3>2, <3>3
  <2>2. Reads(d, FlattenSeq(Upto(parts, i)), d)
    BY <2>1, FlattenEmpty, ReadsNothing
  <2>3. ListHolds(<<>>, FlattenSeq(Upto(parts, i)), m)
    BY <2>1, FlattenEmpty, ListHoldsNone
  <2>4. ListUpTo(calls, parts, m, i, d)
    BY <1>1, <2>3 DEF ListUpTo
  <2> QED BY <1>3, <2>2, <2>4
<1>5. CASE i # 0
  <2>1. PICK j \in Nat : i = j + 1 /\ j \in 0 .. n /\ j # n
    <3>1. i - 1 \in Nat /\ i = (i - 1) + 1 /\ i - 1 \in 0 .. n /\ i - 1 # n
      BY <1>3, <1>5
    <3> QED BY <3>1
  <2>2. j \notin T
    <3>1. ~ (i <= j)
      BY <2>1
    <3> HIDE DEF T
    <3> QED BY <1>2, <3>1, Zenon
  <2>3. PICK e : Reads(d, FlattenSeq(Upto(parts, j)), e) /\ ListUpTo(calls, parts, m, j, e)
    BY <2>1, <2>2
  <2>4. PICK w \in Seq(Seq(Z)), b \in Seq(Z) :
          w = Upto(parts, j) /\ b = parts[i] /\ Upto(parts, i) = Append(w, b)
    <3>1. parts[i] \in Seq(Z)
      BY <1>3, <2>1
    <3>2. Upto(parts, j) \in Seq(Seq(Z)) /\ Upto(parts, i) = Append(Upto(parts, j), parts[i])
      BY <2>1, UptoProperties, ZenonT(30)
    <3> QED BY <3>1, <3>2
  <2>5. PICK a \in Seq(Z) : a = FlattenSeq(Upto(parts, j)) /\ FlattenSeq(Upto(parts, i)) = a \o b
    <3>1. FlattenSeq(w) \in Seq(Z) /\ FlattenSeq(Append(w, b)) = FlattenSeq(w) \o b
      BY FlattenAppend
    <3> QED BY <2>4, <3>1
  <2>6. CASE e = Null
    <3>1. Reads(d, a \o b, Null)
      BY <2>3, <2>5, <2>6, ReadsNull
    <3>2. ListUpTo(calls, parts, m, i, Null)
      BY DEF ListUpTo
    <3> QED BY <1>3, <2>5, <3>1, <3>2
  <2>7. ASSUME NEW elements, ListHolds(elements, a, m),
               e = Reading(Append(calls, Call(List(elements), NoKey)))
        PROVE  FALSE
    <3>1. Decodable(b)
      BY <1>3, <2>1, <2>4
    <3>2. CASE Reads(e, b, Null)
      <4>1. Reads(d, a \o b, Null)
        BY <2>3, <2>5, <3>2, ReadsConcat
      <4>2. ListUpTo(calls, parts, m, i, Null)
        BY DEF ListUpTo
      <4> QED BY <1>3, <2>5, <4>1, <4>2
    <3>3. ASSUME NEW more, ListHolds(more, a \o b, m),
                 Reads(e, b, Reading(Append(calls, Call(List(more), NoKey))))
          PROVE  FALSE
      <4>1. Reads(d, a \o b, Reading(Append(calls, Call(List(more), NoKey))))
        BY <2>3, <2>5, <3>3, ReadsConcat
      <4>2. ListUpTo(calls, parts, m, i, Reading(Append(calls, Call(List(more), NoKey))))
        BY <2>5, <3>3 DEF ListUpTo
      <4> QED BY <1>3, <2>5, <4>1, <4>2
    <3> QED BY <2>7, <3>1, <3>2, <3>3, ListElement
  <2> QED BY <2>3, <2>5, <2>6, <2>7 DEF ListUpTo
<1> QED BY <1>4, <1>5

LEMMA ListDecodable ==
  ASSUME NEW Z, NEW parts \in Seq(Seq(Z)), \A k \in 1 .. Len(parts) : Decodable(parts[k])
  PROVE  Decodable(InBrackets("l", FlattenSeq(parts)))
<1>0. PICK item : item = InBrackets("l", FlattenSeq(parts))
  OBVIOUS
<1> SUFFICES ASSUME NEW X, NEW calls \in Seq(X), ~ AwaitsKey(calls)
             PROVE  ReadAs(calls, item)
  BY <1>0 DEF Decodable
<1>1. PICK o : o = Token("l")
  OBVIOUS
<1>2. PICK x : x = Token("e")
  OBVIOUS
<1>3. PICK n \in Nat : n = Len(parts)
  OBVIOUS
<1>i. PICK I : FlattenSeq(parts) \in Seq(I) /\ <<o>> \in Seq(I) /\ <<x>> \in Seq(I)
  <2>1. PICK J : J = Z \cup {o, x}
    OBVIOUS
  <2>2. Z \subseteq J /\ o \in J /\ x \in J
    BY <2>1
  <2>3. <<o>> \in Seq(J) /\ <<x>> \in Seq(J)
    BY <2>2
  <2>4. FlattenSeq(parts) \in Seq(J)
    BY <2>2, FlattenType, SeqMonotonic
  <2> QED BY <2>3, <2>4
<1>4. PICK s \in Seq(I), u \in Seq(I), v \in Seq(I) :
        s = FlattenSeq(parts) /\ u = <<o>> /\ v = <<x>>
  BY <1>i
<1>5. item = (u \o s) \o v /\ (u \o s) \o v = u \o (s \o v) /\ u \o s \in Seq(I) /\ s \o v \in Seq(I)
  <2>1. item = (u \o s) \o v
    BY <1>0, <1>1, <1>2, <1>4 DEF InBrackets
  <2>2. (u \o s) \o v = u \o (s \o v) /\ u \o s \in Seq(I) /\ s \o v \in Seq(I)
    BY ONLY u \in Seq(I), v \in Seq(I), s \in Seq(I), ConcatAssociative, ConcatProperties
  <2> QED BY <2>1, <2>2
<1>6. CASE Len(calls) + 1 > MAX_RECURSION
  <2>1. o.t # "e"
    BY <1>1 DEF Token
  <2>2. Reads(Reading(calls), <<o>> \o (s \o v), Null)
    BY <1>5, <1>6, <2>1, TooDeep
  <2> QED BY <1>4, <1>5, <2>2 DEF ReadAs
<1>7. CASE ~ (Len(calls) + 1 > MAX_RECURSION)
  <2>1. PICK m \in Nat : /\ m = MAX_RECURSION - (Len(calls) + 1)
                         /\ m + 1 = MAX_RECURSION - Len(calls)
    <3>1. MAX_RECURSION \in Nat /\ Len(calls) \in Nat
      BY BencodingAssumption
    <3>2. MAX_RECURSION - (Len(calls) + 1) \in Nat
          /\ MAX_RECURSION - (Len(calls) + 1) + 1 = MAX_RECURSION - Len(calls)
      BY <1>7, <3>1
    <3> QED BY <3>2
  <2>2. PICK d : d = Reading(Append(calls, Call(List(<<>>), NoKey)))
    OBVIOUS
  <2>3. Reads(Reading(calls), u, d)
    <3>1. Take(Reading(calls), o) = d
      BY <1>1, <1>7, <2>2, TakesOpen
    <3> QED BY <1>4, <3>1, ReadsOne
  <2>4. PICK e : Reads(d, s, e) /\ ListUpTo(calls, parts, m, n, e)
    BY <1>3, <1>4, <2>1, <2>2, ListElements
  <2>5. Reads(Reading(calls), u \o s, e)
    BY <2>3, <2>4, ReadsConcat
  <2>6. Reads(Reading(calls), item, Take(e, x))
    <3>1. Reads(e, v, Take(e, x))
      BY <1>4, ReadsOne
    <3> QED BY <1>5, <2>5, <3>1, ReadsConcat
  <2>7. CASE e = Null
    <3>1. Take(e, x) = Null
      BY <2>7 DEF Take, Null
    <3> QED BY <2>6, <3>1 DEF ReadAs
  <2>8. ASSUME NEW elements, ListHolds(elements, s, m),
               e = Reading(Append(calls, Call(List(elements), NoKey)))
        PROVE  ReadAs(calls, item)
    <3>1. WithBlank(Call(List(elements), NoKey)) = List(elements)
      BY DEF WithBlank, Call
    <3>2. Take(e, x) = Placed(calls, List(elements))
      BY <1>2, <2>8, <3>1, TakesEnd
    <3>3. Writes(List(elements), m + 1, item)
      BY <1>0, <1>4, <2>8, ListIsWritten
    <3> QED BY <2>1, <2>6, <3>2, <3>3 DEF ReadAs
  <2>9. Upto(parts, n) = parts
    BY <1>3, UptoProperties
  <2> QED BY <1>4, <2>4, <2>7, <2>8, <2>9 DEF ListUpTo
<1> QED BY <1>6, <1>7

\* No sequence is longer than all of them together.
LEMMA FlattenLonger ==
  ASSUME NEW Z, NEW parts \in Seq(Seq(Z)), NEW k \in 1 .. Len(parts)
  PROVE  Len(parts[k]) <= Len(FlattenSeq(parts))
<1>1. PICK n \in Nat : n = Len(parts)
  OBVIOUS
<1> DEFINE Fits(i) == \A j \in 1 .. i : Len(parts[j]) <= Len(FlattenSeq(Upto(parts, i)))
           T == {i \in 0 .. n : ~ Fits(i)}
<1> SUFFICES ASSUME T # {} PROVE FALSE
  <2>1. n \in 0 .. n
    OBVIOUS
  <2>2. Fits(n)
    BY <2>1
  <2>3. Upto(parts, n) = parts
    BY <1>1, UptoProperties
  <2> QED BY <1>1, <2>2, <2>3
<1>2. PICK i \in T : \A y \in T : i <= y
  <2>1. T \subseteq Nat
    OBVIOUS
  <2> HIDE DEF T
  <2> QED BY <2>1, LeastNumber
<1>3. i \in 0 .. n /\ ~ Fits(i)
  OBVIOUS
<1>4. i # 0
  <2>1. i = 0 => 1 .. i = {}
    OBVIOUS
  <2> QED BY <1>3, <2>1
<1>5. PICK l \in Nat : i = l + 1 /\ l \in 0 .. n /\ l # n
  <2>1. i - 1 \in Nat /\ i = (i - 1) + 1 /\ i - 1 \in 0 .. n /\ i - 1 # n
    BY <1>3, <1>4
  <2> QED BY <2>1
<1>6. l \notin T
  <2>1. ~ (i <= l)
    BY <1>5
  <2> HIDE DEF T
  <2> QED BY <1>2, <2>1, Zenon
<1>7. Fits(l)
  BY <1>5, <1>6
<1>8. PICK w \in Seq(Seq(Z)), b \in Seq(Z) :
        w = Upto(parts, l) /\ b = parts[i] /\ Upto(parts, i) = Append(w, b)
  <2>1. parts[i] \in Seq(Z)
    BY <1>1, <1>3, <1>5
  <2>2. Upto(parts, l) \in Seq(Seq(Z)) /\ Upto(parts, i) = Append(Upto(parts, l), parts[i])
    BY <1>1, <1>5, UptoProperties
  <2> QED BY <2>1, <2>2
<1>9. PICK a \in Seq(Z) : a = FlattenSeq(w) /\ FlattenSeq(Upto(parts, i)) = a \o b
  BY <1>8, FlattenAppend
<1>10. Len(a \o b) = Len(a) + Len(b) /\ Len(a) \in Nat /\ Len(b) \in Nat
  OBVIOUS
<1>11. ASSUME NEW j \in 1 .. i PROVE Len(parts[j]) <= Len(a \o b)
  <2>1. CASE j = i
    BY <1>8, <1>10, <2>1
  <2>2. CASE j # i
    <3>1. j \in 1 .. l
      BY <1>5, <2>2
    <3>2. Len(parts[j]) <= Len(a)
      BY <1>7, <1>8, <1>9, <3>1
    <3>3. Len(parts[j]) \in Nat
      <4>1. parts[j] \in Seq(Z)
        BY <1>1, <1>5, <3>1
      <4> QED BY <4>1
    <3> QED BY <1>10, <3>2, <3>3
  <2> QED BY <2>1, <2>2
<1> QED BY <1>3, <1>9, <1>11

LEMMA CuttingType == \E Z : \A item \in DOMAIN Cutting : item \in Seq(Z)
<1>1. PICK Z : Z = UNION {Range(item) : item \in DOMAIN Cutting}
  OBVIOUS
<1>2. ASSUME NEW item \in DOMAIN Cutting PROVE item \in Seq(Z)
  <2>1. item \in Seq(Range(item))
    BY CuttingAssumption
  <2>2. Range(item) \subseteq Z
    BY <1>1
  <2> QED BY <2>1, <2>2, SeqMonotonic
<1> QED BY <1>2

\* An item that is put together from others is longer than they are.
LEMMA InsideIsShorter ==
  ASSUME NEW Z, NEW parts \in Seq(Seq(Z)), NEW open, NEW k \in 1 .. Len(parts)
  PROVE  /\ Len(InBrackets(open, FlattenSeq(parts))) \in Nat
         /\ Len(parts[k]) < Len(InBrackets(open, FlattenSeq(parts)))
<1>1. PICK o : o = Token(open)
  OBVIOUS
<1>2. PICK x : x = Token("e")
  OBVIOUS
<1>3. PICK J : Z \subseteq J /\ o \in J /\ x \in J
  <2>1. Z \subseteq Z \cup {o, x} /\ o \in Z \cup {o, x} /\ x \in Z \cup {o, x}
    OBVIOUS
  <2> QED BY <2>1
<1>4. PICK s \in Seq(J), u \in Seq(J), v \in Seq(J) : s = FlattenSeq(parts) /\ u = <<o>> /\ v = <<x>>
  <2>1. <<o>> \in Seq(J) /\ <<x>> \in Seq(J)
    BY <1>3
  <2>2. FlattenSeq(parts) \in Seq(J)
    BY <1>3, FlattenType, SeqMonotonic
  <2> QED BY <2>1, <2>2
<1>5. PICK t \in Seq(J) : t = u \o s /\ Len(t) = Len(s) + 1
  <2>1. Len(u) = 1
    BY <1>4
  <2>2. u \o s \in Seq(J) /\ Len(u \o s) = Len(u) + Len(s) /\ Len(s) \in Nat
    BY ConcatProperties
  <2>3. PICK t \in Seq(J) : t = u \o s
    BY <2>2
  <2>4. Len(t) = Len(s) + 1
    BY <2>1, <2>2, <2>3
  <2> QED BY <2>3, <2>4
<1>6. Len(t \o v) = Len(s) + 2 /\ Len(s) \in Nat
  <2>1. Len(v) = 1
    BY <1>4
  <2>2. Len(t \o v) = Len(t) + Len(v) /\ Len(s) \in Nat
    BY ConcatProperties
  <2> QED BY <1>5, <2>1, <2>2
<1>7. InBrackets(open, FlattenSeq(parts)) = t \o v
  BY <1>1, <1>2, <1>4, <1>5 DEF InBrackets
<1>8. Len(parts[k]) <= Len(s) /\ Len(parts[k]) \in Nat
  <2>1. Len(parts[k]) <= Len(s)
    BY <1>4, FlattenLonger
  <2>2. parts[k] \in Seq(Z)
    OBVIOUS
  <2> QED BY <2>1, <2>2
<1> QED BY <1>6, <1>7, <1>8

\* A dictionary of Cutting, as it was put together.
DictOf(item, keys, parts, n) ==
  /\ item = InBrackets("d", FlattenSeq(WithKeys(keys, parts, n)))
  /\ Ascending(keys, n)
  /\ \E Y : \A k \in 1 .. n : parts[k] \in Seq(Y)
  /\ \A k \in 1 .. n : parts[k] # <<>> => parts[k] \in DOMAIN Cutting
  /\ \A k \in 1 .. n : k # n => parts[k] # <<>>

LEMMA CutIsDict ==
  ASSUME NEW item \in DOMAIN Cutting, Cutting[item].type = "dict"
  PROVE  \E n \in Nat : /\ DictOf(item, Cutting[item].keys, Cutting[item].parts, n)
                        /\ DOMAIN Cutting[item].parts = 1 .. n
                        /\ \A k \in 1 .. n : Len(Cutting[item].parts[k]) < Len(item)
<1>1. PICK parts : parts = Cutting[item].parts
  OBVIOUS
<1>2. PICK keys : keys = Cutting[item].keys
  OBVIOUS
<1>3. /\ parts \in Seq(DOMAIN Cutting \cup {<<>>})
      /\ \A j, k \in DOMAIN parts : j < k => parts[j] # <<>> /\ place_of(keys[j]) < place_of(keys[k])
      /\ item = <<Token("d")>> \o FlattenSeq([k \in DOMAIN parts |-> <<KeyToken(keys[k])>> \o parts[k]])
                  \o <<Token("e")>>
  BY <1>1, <1>2, CuttingAssumption DEF IsCut
<1>4. PICK n \in Nat : n = Len(parts) /\ DOMAIN parts = 1 .. n
  BY <1>3
<1>5. item = InBrackets("d", FlattenSeq(WithKeys(keys, parts, n)))
  BY <1>3, <1>4 DEF InBrackets, WithKeys
<1>6. PICK Y : \A k \in 1 .. n : parts[k] \in Seq(Y)
  <2>1. PICK Y : \A x \in DOMAIN Cutting : x \in Seq(Y)
    BY CuttingType
  <2>2. \A k \in 1 .. n : parts[k] \in DOMAIN Cutting \cup {<<>>}
    BY <1>3, <1>4
  <2>3. <<>> \in Seq(Y)
    OBVIOUS
  <2> QED BY <2>1, <2>2, <2>3
<1>7. \A k \in 1 .. n : parts[k] # <<>> => parts[k] \in DOMAIN Cutting
  BY <1>3, <1>4
<1>8. Ascending(keys, n) /\ \A k \in 1 .. n : k # n => parts[k] # <<>>
  <2>1. \A j, k \in 1 .. n : j < k => parts[j] # <<>> /\ place_of(keys[j]) < place_of(keys[k])
    BY <1>3, <1>4
  <2>2. ASSUME NEW k \in 1 .. n, k # n PROVE parts[k] # <<>>
    <3>1. n \in 1 .. n /\ k < n
      BY <2>2
    <3> QED BY <2>1, <3>1
  <2>3. Ascending(keys, n)
    BY <2>1 DEF Ascending
  <2> QED BY <2>2, <2>3
<1>9. ASSUME NEW k \in 1 .. n PROVE Len(parts[k]) < Len(item)
  <2>1. PICK Z : /\ WithKeys(keys, parts, n) \in Seq(Seq(Z))
    <3>1. n \in 0 .. n
      OBVIOUS
    <3> QED BY <1>6, <3>1, WithKeysType
  <2>2. PICK w \in Seq(Seq(Z)) : w = WithKeys(keys, parts, n)
    BY <2>1
  <2>3. DOMAIN w = 1 .. n /\ w[k] = <<KeyToken(keys[k])>> \o parts[k]
    BY <2>2 DEF WithKeys
  <2>4. k \in 1 .. Len(w)
    BY <2>3
  <2>5. Len(w[k]) < Len(item) /\ Len(item) \in Nat
    BY <1>5, <2>2, <2>4, InsideIsShorter
  <2>6. PICK x : x = KeyToken(keys[k])
    OBVIOUS
  <2>7. Len(<<x>> \o parts[k]) = 1 + Len(parts[k]) /\ Len(parts[k]) \in Nat
    <3>1. PICK J : Y \subseteq J /\ x \in J
      <4>1. Y \subseteq Y \cup {x} /\ x \in Y \cup {x}
        OBVIOUS
      <4> QED BY <4>1
    <3>2. PICK u \in Seq(J) : u = <<x>> /\ Len(u) = 1
      <4>1. <<x>> \in Seq(J)
        BY <3>1
      <4> QED BY <4>1
    <3>3. PICK p \in Seq(J) : p = parts[k]
      BY <1>6, <3>1, SeqMonotonic
    <3>4. Len(u \o p) = Len(u) + Len(p) /\ Len(p) \in Nat
      OBVIOUS
    <3> QED BY <3>2, <3>3, <3>4
  <2> QED BY <2>3, <2>5, <2>6, <2>7
<1> QED BY <1>1, <1>2, <1>4, <1>5, <1>6, <1>7, <1>8, <1>9 DEF DictOf

LEMMA DictOfReadable ==
  ASSUME NEW item, NEW keys, NEW parts, NEW n \in Nat, DictOf(item, keys, parts, n),
         \A k \in 1 .. n : parts[k] # <<>> => Decodable(parts[k])
  PROVE  PartsReadable(parts, n)
BY DEF DictOf, PartsReadable

\* THEOREM: what is decoded from an item is encoded as the same item, in a tree of
\* that depth and in any deeper one, wherever the item is in a file; unless the
\* decoder gives up, which it does when there are too many levels or keys.
THEOREM ItemsComeBack ==
  ASSUME NEW item \in DOMAIN Cutting
  PROVE  Decodable(item)
<1> DEFINE T == {i \in Nat : \E x \in DOMAIN Cutting : Len(x) = i /\ ~ Decodable(x)}
<1>0. \A x \in DOMAIN Cutting : Len(x) \in Nat
  BY CuttingType
<1> SUFFICES ASSUME T # {} PROVE FALSE
  BY <1>0
<1>1. PICK i \in T : \A y \in T : i <= y
  <2>1. T \subseteq Nat
    OBVIOUS
  <2> HIDE DEF T
  <2> QED BY <2>1, LeastNumber
<1>2. PICK x \in DOMAIN Cutting : Len(x) = i /\ ~ Decodable(x)
  OBVIOUS
<1>3. ASSUME NEW y \in DOMAIN Cutting, Len(y) < i PROVE Decodable(y)
  <2>1. Len(y) \in Nat /\ i \in Nat
    BY <1>0
  <2>2. Len(y) \notin T
    <3>1. ~ (i <= Len(y))
      BY <1>3, <2>1
    <3> HIDE DEF T
    <3> QED BY <1>1, <3>1, Zenon
  <2> QED BY <2>1, <2>2
<1>4. PICK how : how = Cutting[x]
  OBVIOUS
<1>5. IsCut(x, how, DOMAIN Cutting)
  BY <1>4, CuttingAssumption
<1>6. CASE how.type = "num"
  <2>1. x = <<NumToken(how.value)>>
    BY <1>5, <1>6 DEF IsCut
  <2> QED BY <1>2, <2>1, NumDecodable
<1>7. CASE how.type = "str"
  <2>1. x = <<StrToken(how.value, how.len)>>
    BY <1>5, <1>7 DEF IsCut
  <2> QED BY <1>2, <2>1, StrDecodable
<1>8. CASE how.type = "list"
  <2>1. how.parts \in Seq(DOMAIN Cutting) /\ x = InBrackets("l", FlattenSeq(how.parts))
    BY <1>5, <1>8 DEF IsCut, InBrackets
  <2>2. PICK Z : DOMAIN Cutting \subseteq Seq(Z)
    BY CuttingType
  <2>3. PICK parts \in Seq(Seq(Z)) : parts = how.parts
    BY <2>1, <2>2, SeqMonotonic
  <2>4. ASSUME NEW k \in 1 .. Len(parts) PROVE Decodable(parts[k])
    <3>1. parts[k] \in DOMAIN Cutting
      BY <2>1, <2>3
    <3>2. Len(parts[k]) < i
      BY <1>2, <2>1, <2>3, InsideIsShorter
    <3> QED BY <1>3, <3>1, <3>2
  <2> QED BY <1>2, <2>1, <2>3, <2>4, ListDecodable
<1>9. CASE how.type = "dict"
  <2>1. PICK n \in Nat : /\ DictOf(x, how.keys, how.parts, n)
                         /\ \A k \in 1 .. n : Len(how.parts[k]) < Len(x)
    BY <1>4, <1>9, CutIsDict
  <2>2. ASSUME NEW k \in 1 .. n, how.parts[k] # <<>> PROVE Decodable(how.parts[k])
    <3>1. how.parts[k] \in DOMAIN Cutting
      BY <2>1, <2>2 DEF DictOf
    <3> QED BY <1>2, <1>3, <2>1, <3>1
  <2>3. PartsReadable(how.parts, n)
    BY <2>1, <2>2, DictOfReadable
  <2>4. ASSUME NEW X, NEW calls \in Seq(X), ~ AwaitsKey(calls) PROVE ReadAs(calls, x)
    BY <2>1, <2>3, <2>4, DictItem DEF DictOf, ReadAs
  <2> QED BY <1>2, <2>4 DEF Decodable
<1> QED BY <1>5, <1>6, <1>7, <1>8, <1>9 DEF IsCut

\* THEOREM: bencoding_encode undoes bencoding_decode, for a file whose keys are in
\* order: a file that is decoded at all is encoded as the same file.
THEOREM FileComesBack ==
  ASSUME NEW item \in DOMAIN Cutting, NEW start \in Int,
         bencoding_decode(item).status = "decoded"
  PROVE  bencoding_encode(bencoding_decode(item).node, start) = item
<1>1. PICK Z : item \in Seq(Z)
  BY CuttingType
<1>2. PICK calls \in Seq({}) : calls = <<>>
  <2>1. <<>> \in Seq({})
    OBVIOUS
  <2> QED BY <2>1, Zenon
<1>3. ~ AwaitsKey(calls) /\ Len(calls) = 0
  BY <1>2 DEF AwaitsKey
<1>4. ReadAs(calls, item)
  BY <1>2, <1>3, ItemsComeBack DEF Decodable
<1>5. CASE Reads(Reading(calls), item, Null)
  <2>1. Reads(Reading(<<>>), item, Null)
    BY <1>2, <1>5
  <2>2. Null.status # "decoded"
    BY DEF Null
  <2>3. bencoding_decode(item) = Null
    BY <1>1, <2>1, <2>2, DecodeReads
  <2> QED BY <2>2, <2>3
<1>6. ASSUME NEW node, Writes(node, MAX_RECURSION - Len(calls), item),
             Reads(Reading(calls), item, Placed(calls, node))
      PROVE  bencoding_encode(bencoding_decode(item).node, start) = item
  <2>1. Placed(calls, node) = Decoded(node)
    BY <1>2 DEF Placed
  <2>2. Reads(Reading(<<>>), item, Decoded(node))
    BY <1>2, <1>6, <2>1
  <2>3. Decoded(node).status = "decoded" /\ Decoded(node).node = node
    BY DEF Decoded
  <2>4. bencoding_decode(item) = Decoded(node)
    BY <1>1, <2>2, <2>3, DecodeReads
  <2>5. MAX_RECURSION \in Nat /\ MAX_RECURSION >= MAX_RECURSION - Len(calls)
    BY <1>3, BencodingAssumption
  <2>6. Spells(<<ToEncode(node)>>, start, MAX_RECURSION, item)
    BY <1>6, <2>5 DEF Writes
  <2>7. bencoding_encode(node, start) = item
    BY <2>6, EncodeSpells
  <2> QED BY <2>3, <2>4, <2>7
<1> QED BY <1>4, <1>5, <1>6 DEF ReadAs

-----------------------------------------------------------------------------
(***************************************************************************)
(* What is written of a node of any kind, in any number of levels          *)
(***************************************************************************)
LEMMA ItemsCodable ==
  ASSUME NEW S, NEW K, Closed(S, K), NEW start \in Int
  PROVE  Codable(Items(S, K), start)
BY UnfoldedType DEF Codable

LEMMA TextsAreItems ==
  ASSUME NEW S, NEW K
  PROVE  Seq(Texts(K)) \subseteq Seq(Items(S, K))
<1>1. Texts(K) \subseteq Items(S, K)
  BY DEF Items
<1> QED BY <1>1, SeqMonotonic

LEMMA LevelsRise ==
  ASSUME NEW S, NEW K, Closed(S, K), NEW start \in Int, NEW n \in Nat,
         NEW items \in Seq(Items(S, K)), Rises(items, 0, 0, 0)
  PROVE  \E t \in Seq(Texts(K)) : Spells(items, start, n, t) /\ Rises(t, 0, 0, 0)
<1> DEFINE Written2(x, i) == \E t \in Seq(Texts(K)) : Spells(x, start, i, t) /\ Rises(t, 0, 0, 0)
           All(i) == \A x \in Seq(Items(S, K)) : Rises(x, 0, 0, 0) => Written2(x, i)
           T == {i \in 0 .. n : ~ All(i)}
<1>0. Codable(Items(S, K), start)
  BY ItemsCodable
<1> SUFFICES ASSUME T # {} PROVE FALSE
  <2>1. n \in 0 .. n
    OBVIOUS
  <2>2. All(n)
    BY <2>1
  <2> QED BY <2>2
<1>1. PICK i \in T : \A y \in T : i <= y
  <2>1. T \subseteq Nat
    OBVIOUS
  <2> HIDE DEF T
  <2> QED BY <2>1, LeastNumber
<1>2. PICK x \in Seq(Items(S, K)) : i \in 0 .. n /\ Rises(x, 0, 0, 0) /\ ~ Written2(x, i)
  OBVIOUS
<1>3. /\ Encoded(x, start) \in Seq(Items(S, K)) /\ Rises(Encoded(x, start), 0, 0, 0)
      /\ TokensOf(x) \in Seq(Texts(K)) /\ Rises(TokensOf(x), 0, 0, 0)
  BY <1>2, EncodedLevel
<1>4. CASE i = 0
  <2>1. PICK g : g = [k \in 0 .. i |-> x]
    OBVIOUS
  <2>2. g \in [0 .. i -> Seq(Items(S, K))] /\ g[0] = x /\ g[i] = x /\ 1 .. i = {}
    BY <1>4, <2>1
  <2>3. LevelsFrom(x, start, Items(S, K), g, i)
    BY <2>2 DEF LevelsFrom
  <2>4. TokensOf(x) \in Seq(Items(S, K))
    BY <1>3, TextsAreItems
  <2>5. Spells(x, start, i, TokensOf(x))
    BY <1>0, <2>2, <2>3, <2>4 DEF Spells
  <2> QED BY <1>2, <1>3, <2>5
<1>5. CASE i # 0
  <2>1. PICK l \in Nat : i = l + 1 /\ l \in 0 .. n
    <3>1. i - 1 \in Nat /\ i = (i - 1) + 1 /\ i - 1 \in 0 .. n
      BY <1>2, <1>5
    <3> QED BY <3>1
  <2>2. l \notin T
    <3>1. ~ (i <= l)
      BY <2>1
    <3> HIDE DEF T
    <3> QED BY <1>1, <3>1, Zenon
  <2>3. Written2(Encoded(x, start), l)
    BY <1>3, <2>1, <2>2
  <2>4. PICK t \in Seq(Texts(K)) : Spells(Encoded(x, start), start, l, t) /\ Rises(t, 0, 0, 0)
    BY <2>3
  <2>5. Spells(x, start, l + 1, t)
    BY <1>0, <2>4, SpellsUnfolded
  <2> QED BY <1>2, <2>1, <2>4, <2>5
<1> QED BY <1>4, <1>5

LEMMA NodesLevel ==
  ASSUME NEW S, NEW K, NEW elements \in Seq(S)
  PROVE  Nodes(elements) \in Seq(Items(S, K)) /\ Rises(Nodes(elements), 0, 0, 0)
<1>1. PICK n \in Nat : n = Len(elements)
  OBVIOUS
<1>2. PICK inside : inside = Nodes(elements)
  OBVIOUS
<1>3. inside = [k \in 1 .. n |-> ToEncode(elements[k])] /\ \A k \in 1 .. n : elements[k] \in S
  BY <1>1, <1>2 DEF Nodes
<1>4. \A k \in 1 .. n : inside[k] \in Items(S, K) /\ Weight(inside[k]) = 0
  BY <1>3, ItemKinds
<1>5. inside \in Seq(Items(S, K)) /\ Len(inside) = n
  <2>1. inside \in [1 .. n -> Items(S, K)]
    BY <1>3, <1>4
  <2> QED BY <2>1
<1>6. Rises(inside, 0, 0, 0)
  <2>1. PICK g : g = [k \in 0 .. n |-> 0]
    OBVIOUS
  <2>2. g \in [0 .. n -> Int] /\ \A k \in 0 .. n : g[k] = 0
    BY <2>1
  <2>3. ASSUME NEW k \in 1 .. n PROVE g[k] = g[k - 1] + Weight(inside[k])
    <3>1. k \in 0 .. n /\ k - 1 \in 0 .. n
      OBVIOUS
    <3>2. g[k] = 0 /\ g[k - 1] = 0 /\ Weight(inside[k]) = 0
      BY <1>4, <2>2, <3>1
    <3> QED BY <3>2
  <2>4. Climbs(inside, g)
    BY <1>5, <2>2, <2>3 DEF Climbs
  <2> QED BY <1>5, <2>2, <2>4 DEF Rises
<1> QED BY <1>2, <1>5, <1>6

\* One token or none, or a list or dictionary.
Simple(part, K) == part = <<>> \/ \E x \in Texts(K) : part = <<x>> /\ x.t \in {"i", "s"}
Nested(part, K) ==
  \E open \in {"d", "l"} : \E inside \in Seq(Texts(K)) :
    part = InBrackets(open, inside) /\ Rises(inside, 0, 0, 0)

LEMMA NestedPart ==
  ASSUME NEW S, NEW K, Closed(S, K), NEW node, NEW start \in Int, NEW l \in Nat,
         NEW open \in {"d", "l"}, NEW inside \in Seq(Items(S, K)), Rises(inside, 0, 0, 0),
         encode_helper(node, start) = InBrackets(open, inside)
  PROVE  \E part \in Seq(Texts(K)) : Spells(<<ToEncode(node)>>, start, l + 1, part) /\ Nested(part, K)
<1>1. PICK t \in Seq(Texts(K)) : Spells(inside, start, l, t) /\ Rises(t, 0, 0, 0)
  BY LevelsRise
<1>2. Spells(InBrackets(open, inside), start, l, InBrackets(open, t))
  BY <1>1, SpellsBracket
<1>3. Spells(<<ToEncode(node)>>, start, l + 1, InBrackets(open, t))
  BY <1>2, SpellsNode
<1>4. Nested(InBrackets(open, t), K)
  BY <1>1 DEF Nested
<1>5. InBrackets(open, t) \in Seq(Texts(K))
  <2>1. PICK o \in Texts(K) : o = Token(open)
    BY DEF Texts, Brackets, Token
  <2>2. PICK x \in Texts(K) : x = Token("e")
    BY DEF Texts, Brackets, Token
  <2>3. PICK u \in Seq(Texts(K)), v \in Seq(Texts(K)) : u = <<o>> /\ v = <<x>>
    <3>1. <<o>> \in Seq(Texts(K)) /\ <<x>> \in Seq(Texts(K))
      OBVIOUS
    <3> QED BY <3>1
  <2>4. (u \o t) \o v \in Seq(Texts(K))
    BY ConcatProperties
  <2> QED BY <2>1, <2>2, <2>3, <2>4 DEF InBrackets
<1> QED BY <1>3, <1>4, <1>5

LEMMA NodePart ==
  ASSUME NEW S, NEW K, Closed(S, K), NEW node \in S, NEW start \in Int, NEW b \in Nat
  PROVE  \E part \in Seq(Texts(K)) :
           /\ Spells(<<ToEncode(node)>>, start, b, part)
           /\ \/ Simple(part, K)
              \/ Nested(part, K) /\ node.type \in {"list", "dict"}
<1>1. <<>> \in Seq(Texts(K)) /\ Simple(<<>>, K)
  BY DEF Simple
<1>2. CASE b = 0
  <2>1. PICK x \in Items(S, K) : x = ToEncode(node)
    BY ItemKinds
  <2>2. Codable(Items(S, K), start)
    BY ItemsCodable
  <2>3. TokensOf(<<x>>) = <<>>
    <3>1. Written(x) = <<>>
      BY <2>1 DEF Written, ToEncode
    <3> QED BY <2>2, <3>1, EncodedSingle
  <2>4. PICK g : g = [k \in 0 .. b |-> <<x>>]
    OBVIOUS
  <2>5. g \in [0 .. b -> Seq(Items(S, K))] /\ g[0] = <<x>> /\ g[b] = <<x>> /\ 1 .. b = {}
    BY <1>2, <2>4
  <2>6. LevelsFrom(<<x>>, start, Items(S, K), g, b)
    BY <2>5 DEF LevelsFrom
  <2>7. Spells(<<x>>, start, b, <<>>)
    BY <2>2, <2>3, <2>5, <2>6 DEF Spells
  <2> QED BY <1>1, <2>1, <2>7
<1>3. CASE b # 0
  <2>1. PICK l \in Nat : b = l + 1
    <3>1. b - 1 \in Nat /\ b = (b - 1) + 1
      BY <1>3
    <3> QED BY <3>1
  <2>2. ASSUME NEW x \in Texts(K), x.t \in {"i", "s"}, encode_helper(node, start) = <<x>>
        PROVE  \E part \in Seq(Texts(K)) : Spells(<<ToEncode(node)>>, start, b, part) /\ Simple(part, K)
    <3>1. Spells(<<ToEncode(node)>>, start, b, <<x>>)
      <4>1. x.t # "node"
        BY <2>2
      <4> QED BY <2>1, <2>2, <4>1, SpellsToken, SpellsNode
    <3>2. <<x>> \in Seq(Texts(K)) /\ Simple(<<x>>, K)
      BY <2>2 DEF Simple
    <3> QED BY <3>1, <3>2
  <2>3. CASE node = Num(node.value) /\ node.value \in Int
    <3>1. PICK x \in Texts(K) : x = NumToken(node.value) /\ x.t = "i"
      <4>1. NumToken(node.value) \in Items(S, K)
        BY <2>3, ItemKinds
      <4>2. NumToken(node.value).t = "i"
        BY DEF NumToken
      <4> QED BY <4>1, <4>2, ItemKinds
    <3>2. encode_helper(node, start) = <<x>>
      BY <2>3, <3>1 DEF encode_helper, Num
    <3> QED BY <2>2, <3>1, <3>2
  <2>4. CASE node = Str(node.value, node.len) /\ node.value \in K /\ node.len \in Nat
    <3>1. PICK v \in K, n \in Nat : v = node.value /\ n = node.len
      BY <2>4, Zenon
    <3>2. PICK x \in Texts(K) : x = StrToken(v, n) /\ x.t = "s"
      <4>1. StrToken(v, n) \in Items(S, K)
        BY ItemKinds
      <4>2. StrToken(v, n).t = "s"
        BY DEF StrToken
      <4> QED BY <4>1, <4>2, ItemKinds
    <3>3. encode_helper(node, start) = <<StrToken(node.value, node.len)>>
      BY <2>4 DEF encode_helper, Str
    <3>4. encode_helper(node, start) = <<x>>
      BY <3>1, <3>2, <3>3, Zenon
    <3> QED BY <2>2, <3>2, <3>4
  <2>5. CASE node = Blank
    <3>1. Spells(<<ToEncode(node)>>, start, b, <<>>)
      <4>1. encode_helper(node, start) = <<>>
        BY <2>5 DEF encode_helper, Blank
      <4> QED BY <2>1, <4>1, SpellsNothing, SpellsNode
    <3> QED BY <1>1, <3>1
  <2>6. CASE node = List(node.value) /\ node.value \in Seq(S)
    <3>1. node.type = "list" /\ encode_helper(node, start) = InBrackets("l", Nodes(node.value))
      BY <2>6 DEF encode_helper, List, InBrackets, Nodes
    <3>2. Nodes(node.value) \in Seq(Items(S, K)) /\ Rises(Nodes(node.value), 0, 0, 0)
      BY <2>6, NodesLevel
    <3> QED BY <2>1, <3>1, <3>2, NestedPart
  <2>7. CASE node = Dict(node.value) /\ MapOver(node.value, S, K)
    <3>1. /\ node.type = "dict"
          /\ encode_helper(node, start) = InBrackets("d", EncodeEntries(node.value, start))
      BY <2>7 DEF encode_helper, Dict, InBrackets
    <3>2. /\ EncodeEntries(node.value, start) \in Seq(Items(S, K))
          /\ Rises(EncodeEntries(node.value, start), 0, 0, 0)
      BY <2>7, EntriesLevel
    <3> QED BY <2>1, <3>1, <3>2, NestedPart
  <2> QED BY <2>3, <2>4, <2>5, <2>6, <2>7 DEF Closed, IsNodeOver
<1> QED BY <1>2, <1>3

-----------------------------------------------------------------------------
(***************************************************************************)
(* A list or dictionary is read, and nothing changes below it              *)
(***************************************************************************)

\* The decoder is inside a call of the one below.
Above(d, top, n) ==
  \E X : \E calls \in Seq(X) : d = Reading(calls) /\ Len(calls) = n /\ n >= 2 /\ calls[1] = top

LEMMA GoesOnAbove ==
  ASSUME NEW X, NEW calls \in Seq(X), NEW n \in Nat, n = Len(calls), n >= 2, NEW more
  PROVE  Above(GoesOn(calls, more), calls[1], n)
<1>1. PICK Y : X \subseteq Y /\ more \in Y
  <2>1. X \subseteq X \cup {more} /\ more \in X \cup {more}
    OBVIOUS
  <2> QED BY <2>1
<1>2. PICK all \in Seq(Y) : all = calls
  BY <1>1, SeqMonotonic
<1>3. PICK f \in Seq(Y) : f = Front(calls) /\ Len(f) = n - 1 /\ f[1] = calls[1]
  <2>1. all # <<>> /\ n - 1 \in Nat /\ n - 1 >= 1
    BY <1>2
  <2>2. Front(all) = SubSeq(all, 1, n - 1)
    BY <1>2 DEF Front
  <2>3. SubSeq(all, 1, n - 1) \in Seq(Y) /\ Len(SubSeq(all, 1, n - 1)) = n - 1
        /\ SubSeq(all, 1, n - 1)[1] = all[1]
    BY <1>2, <2>1
  <2> QED BY <1>2, <2>2, <2>3
<1>4. PICK g \in Seq(Y) : g = Append(f, more)
  BY <1>1, AppendProperties
<1>5. Len(g) = n /\ g[1] = calls[1]
  BY <1>1, <1>3, <1>4, AppendProperties
<1> QED BY <1>3, <1>4, <1>5 DEF GoesOn, Above

LEMMA PlacedAbove ==
  ASSUME NEW X, NEW calls \in Seq(X), NEW n \in Nat, n = Len(calls), n >= 2, NEW node
  PROVE  Above(Placed(calls, node), calls[1], n)
<1>1. calls # <<>>
  OBVIOUS
<1>2. PICK more : Placed(calls, node) = GoesOn(calls, more)
  BY <1>1 DEF Placed
<1> QED BY <1>2, GoesOnAbove

LEMMA TakeAbove ==
  ASSUME NEW K, NEW token \in Texts(K), NEW X, NEW calls \in Seq(X),
         NEW n \in Nat, n = Len(calls), n >= 2, NEW m \in Nat, m = n + Weight(token), m >= 2
  PROVE  LET d == Take(Reading(calls), token)
         IN  d = Null \/ Above(d, calls[1], m)
<1>0. token.t \in {"d", "l", "e", "i", "s"} /\ calls # <<>>
  BY DEF Texts, Brackets
<1>1. CASE Ends(calls, token)
  <2>1. Take(Reading(calls), token) = Placed(Front(calls), WithBlank(Last(calls)))
    BY <1>1, TakesReading
  <2>2. Weight(token) = -1
    BY <1>1 DEF Ends, Weight
  <2>3. PICK f \in Seq(X) : f = Front(calls) /\ Len(f) = m /\ f[1] = calls[1]
    <3>1. n - 1 = m /\ n - 1 >= 1
      BY <2>2
    <3>2. Front(calls) = SubSeq(calls, 1, n - 1)
      BY DEF Front
    <3>3. SubSeq(calls, 1, n - 1) \in Seq(X) /\ Len(SubSeq(calls, 1, n - 1)) = n - 1
          /\ SubSeq(calls, 1, n - 1)[1] = calls[1]
      BY <3>1
    <3> QED BY <3>1, <3>2, <3>3
  <2>4. Above(Placed(f, WithBlank(Last(calls))), f[1], m)
    BY <2>3, PlacedAbove
  <2> QED BY <2>1, <2>3, <2>4
<1>2. CASE ~ Ends(calls, token) /\ AwaitsKey(calls)
  <2>1. Take(Reading(calls), token) = handle_key(calls, token)
    BY <1>2, TakesReading
  <2>2. CASE handle_key(calls, token) = Null
    BY <2>1, <2>2
  <2>3. CASE handle_key(calls, token) # Null
    <3>1. token.t = "s" /\ \E more : handle_key(calls, token) = GoesOn(calls, more)
      BY <2>3 DEF handle_key
    <3>2. m = n
      BY <3>1 DEF Weight
    <3> QED BY <2>1, <3>1, <3>2, GoesOnAbove
  <2> QED BY <2>2, <2>3
<1>3. CASE ~ Ends(calls, token) /\ ~ AwaitsKey(calls)
  <2>1. Take(Reading(calls), token) = decode_helper(calls, token)
    BY <1>3, TakesReading
  <2>2. CASE Len(calls) + 1 > MAX_RECURSION \/ token.t = "e"
    <3>1. decode_helper(calls, token) = Null
      BY <2>2 DEF decode_helper
    <3> QED BY <2>1, <3>1
  <2>3. CASE ~ (Len(calls) + 1 > MAX_RECURSION) /\ token.t \in {"d", "l"}
    <3>1. m = n + 1
      BY <2>3 DEF Weight
    <3>2. PICK more : decode_helper(calls, token) = Reading(Append(calls, more))
      BY <2>3 DEF decode_helper
    <3>3. PICK Y : calls \in Seq(Y) /\ more \in Y
      <4>1. X \subseteq X \cup {more} /\ more \in X \cup {more}
        OBVIOUS
      <4> QED BY <4>1, SeqMonotonic
    <3>4. PICK g \in Seq(Y) : g = Append(calls, more)
      BY <3>3, AppendProperties
    <3>5. Len(g) = m /\ g[1] = calls[1]
      BY <3>1, <3>3, <3>4, AppendProperties
    <3> QED BY <2>1, <3>2, <3>4, <3>5 DEF Above
  <2>4. CASE ~ (Len(calls) + 1 > MAX_RECURSION) /\ token.t \in {"i", "s"}
    <3>1. m = n
      BY <2>4 DEF Weight
    <3>2. PICK node : decode_helper(calls, token) = Placed(calls, node)
      BY <2>4 DEF decode_helper
    <3> QED BY <2>1, <3>1, <3>2, PlacedAbove
  <2> QED BY <1>0, <2>2, <2>3, <2>4
<1> QED BY <1>1, <1>2, <1>3

LEMMA InsideReads ==
  ASSUME NEW K, NEW inside \in Seq(Texts(K)), Rises(inside, 0, 0, 0), NEW d, NEW top, Above(d, top, 2)
  PROVE  \E e : Reads(d, inside, e) /\ (e = Null \/ Above(e, top, 2))
<1>1. PICK n \in Nat : n = Len(inside)
  OBVIOUS
<1>2. PICK g : Climbs(inside, g) /\ g[0] = 0 /\ g[n] = 0 /\ \A k \in 0 .. n : g[k] >= 0
  BY <1>1 DEF Rises
<1> DEFINE ReadTo(i) == \E e : Reads(d, Upto(inside, i), e) /\ (e = Null \/ Above(e, top, g[i] + 2))
           T == {i \in 0 .. n : ~ ReadTo(i)}
<1> SUFFICES ASSUME T # {} PROVE FALSE
  <2>1. n \in 0 .. n
    OBVIOUS
  <2>2. ReadTo(n)
    BY <2>1
  <2>3. Upto(inside, n) = inside
    BY <1>1, UptoProperties
  <2> QED BY <1>2, <2>2, <2>3
<1>3. PICK i \in T : \A y \in T : i <= y
  <2>1. T \subseteq Nat
    OBVIOUS
  <2> HIDE DEF T
  <2> QED BY <2>1, LeastNumber
<1>4. i \in 0 .. n /\ ~ ReadTo(i)
  OBVIOUS
<1>5. CASE i = 0
  <2>1. Upto(inside, i) = <<>>
    <3>1. PICK w \in Seq(Texts(K)) : w = Upto(inside, i)
      BY <1>1, <1>4, UptoProperties
    <3>2. DOMAIN w = {}
      BY <1>5, <3>1 DEF Upto
    <3> QED BY <3>1, <3>2
  <2>2. Reads(d, Upto(inside, i), d)
    BY <2>1, ReadsNothing
  <2> QED BY <1>2, <1>4, <1>5, <2>2
<1>6. CASE i # 0
  <2>1. PICK l \in Nat : i = l + 1 /\ l \in 0 .. n /\ l # n
    <3>1. i - 1 \in Nat /\ i = (i - 1) + 1 /\ i - 1 \in 0 .. n /\ i - 1 # n
      BY <1>4, <1>6
    <3> QED BY <3>1
  <2>2. l \notin T
    <3>1. ~ (i <= l)
      BY <2>1
    <3> HIDE DEF T
    <3> QED BY <1>3, <3>1, Zenon
  <2>3. PICK e : Reads(d, Upto(inside, l), e) /\ (e = Null \/ Above(e, top, g[l] + 2))
    BY <2>1, <2>2
  <2>4. PICK x \in Texts(K) : x = inside[i]
    BY <1>1, <1>4, <2>1
  <2>5. PICK w \in Seq(Texts(K)), v \in Seq(Texts(K)) :
          w = Upto(inside, l) /\ v = <<x>> /\ Upto(inside, i) = w \o v
    <3>1. PICK w \in Seq(Texts(K)) : w = Upto(inside, l) /\ Upto(inside, i) = Append(w, x)
      BY <1>1, <2>1, <2>4, UptoProperties
    <3>2. PICK v \in Seq(Texts(K)) : v = <<x>>
      <4>1. <<x>> \in Seq(Texts(K))
        OBVIOUS
      <4> QED BY <4>1
    <3>3. Append(w, x) = w \o <<x>>
      BY AppendIsConcat
    <3> QED BY <3>1, <3>2, <3>3
  <2>6. Reads(e, v, Take(e, x))
    BY <2>5, ReadsOne
  <2>7. Reads(d, Upto(inside, i), Take(e, x))
    BY <2>3, <2>5, <2>6, ReadsConcat
  <2>8. CASE e = Null
    <3>1. Take(e, x) = Null
      BY <2>8 DEF Take, Null
    <3> QED BY <1>4, <2>7, <3>1
  <2>9. CASE Above(e, top, g[l] + 2)
    <3>1. PICK p \in Nat, m \in Nat : /\ p = g[l] + 2 /\ m = g[i] + 2
                                      /\ m = p + Weight(x) /\ p >= 2 /\ m >= 2
      <4>1. i \in 1 .. n /\ l = i - 1
        BY <1>4, <2>1
      <4>2. g[i] = g[l] + Weight(inside[i]) /\ g[l] \in Int /\ g[i] \in Int
        BY <1>1, <1>2, <1>4, <2>1, <4>1 DEF Climbs
      <4>3. Weight(x) \in Int
        BY DEF Weight
      <4>4. g[l] >= 0 /\ g[i] >= 0
        BY <1>2, <1>4, <2>1
      <4>5. g[l] + 2 \in Nat /\ g[i] + 2 \in Nat /\ g[i] + 2 = (g[l] + 2) + Weight(x)
            /\ g[l] + 2 >= 2 /\ g[i] + 2 >= 2
        BY <2>4, <4>2, <4>3, <4>4, SMTT(30)
      <4> QED BY <4>5
    <3>2. PICK X : \E calls \in Seq(X) : e = Reading(calls) /\ Len(calls) = p /\ calls[1] = top
      BY <2>9, <3>1 DEF Above
    <3>3. PICK calls \in Seq(X) : e = Reading(calls) /\ Len(calls) = p /\ calls[1] = top
      BY <3>2
    <3>4. Take(e, x) = Null \/ Above(Take(e, x), top, m)
      BY <3>1, <3>3, TakeAbove
    <3> QED BY <1>4, <2>7, <3>1, <3>4
  <2> QED BY <2>3, <2>8, <2>9
<1> QED BY <1>5, <1>6

LEMMA LongIsNotEmpty ==
  ASSUME NEW S, NEW seq \in Seq(S), Len(seq) # 0
  PROVE  seq # <<>>
BY DEF Seq

LEMMA FirstOnly ==
  ASSUME NEW S, NEW seq \in Seq(S), NEW one \in Nat, one = 1, Len(seq) >= one
  PROVE  SubSeq(seq, one, one) \in Seq(S) /\ Len(SubSeq(seq, one, one)) = one
         /\ SubSeq(seq, one, one)[one] = seq[one]
OBVIOUS

LEMMA FirstStays ==
  ASSUME NEW S, NEW seq \in Seq(S), NEW x \in S, Len(seq) = 1
  PROVE  Append(seq, x) \in Seq(S) /\ Len(Append(seq, x)) = 2 /\ Append(seq, x)[1] = seq[1]
BY AppendProperties

LEMMA NestedReads ==
  ASSUME NEW K, NEW part, Nested(part, K), NEW top, ~ AwaitsKey(Append(<<>>, top))
  PROVE  LET d == Reading(Append(<<>>, top))
         IN  Reads(d, part, Null) \/ \E node : Reads(d, part, Placed(Append(<<>>, top), node))
<1>1. PICK open \in {"d", "l"} : \E inside \in Seq(Texts(K)) :
              part = InBrackets(open, inside) /\ Rises(inside, 0, 0, 0)
  BY DEF Nested
<1>2. PICK inside \in Seq(Texts(K)) : part = InBrackets(open, inside) /\ Rises(inside, 0, 0, 0)
  BY <1>1
<1>3. PICK X : top \in X
  <2>1. top \in {top}
    OBVIOUS
  <2> QED BY <2>1
<1>4. PICK none \in Seq(X) : none = <<>>
  <2>1. <<>> \in Seq(X)
    OBVIOUS
  <2> QED BY <2>1
<1>5. PICK below \in Seq(X) : below = Append(none, top)
  BY <1>3, AppendProperties
<1>6. Len(below) = 1 /\ below[1] = top
  BY <1>3, <1>4, <1>5, AppendProperties
<1>7. PICK d : d = Reading(below)
  OBVIOUS
<1>8. PICK o \in Texts(K) : o = Token(open) /\ o.t # "e"
  <2>1. PICK o \in Texts(K) : o = Token(open)
    BY DEF Texts, Brackets, Token
  <2>2. o.t = open /\ open # "e"
    BY <2>1 DEF Token
  <2> QED BY <2>1, <2>2
<1>9. PICK x \in Texts(K) : x = Token("e")
  BY DEF Texts, Brackets, Token
<1>10. PICK u \in Seq(Texts(K)), v \in Seq(Texts(K)) : u = <<o>> /\ v = <<x>>
  <2>1. <<o>> \in Seq(Texts(K)) /\ <<x>> \in Seq(Texts(K))
    OBVIOUS
  <2> QED BY <2>1
<1>11. part = (u \o inside) \o v /\ u \o inside \in Seq(Texts(K)) /\ part = u \o (inside \o v)
       /\ inside \o v \in Seq(Texts(K))
  <2>1. part = (u \o inside) \o v
    BY <1>2, <1>8, <1>9, <1>10 DEF InBrackets
  <2>2. (u \o inside) \o v = u \o (inside \o v) /\ u \o inside \in Seq(Texts(K))
        /\ inside \o v \in Seq(Texts(K))
    BY ONLY u \in Seq(Texts(K)), v \in Seq(Texts(K)), inside \in Seq(Texts(K)),
            ConcatAssociative, ConcatProperties
  <2> QED BY <2>1, <2>2
<1>12. Reads(d, u, Take(d, o))
  BY <1>10, ReadsOne
<1>13. ~ AwaitsKey(below)
  BY <1>4, <1>5
<1>14. CASE Take(d, o) = Null
  <2>1. Reads(d, u \o (inside \o v), Null)
    BY <1>11, <1>12, <1>14, ReadsNull
  <2> QED BY <1>4, <1>5, <1>7, <1>11, <2>1
<1>15. CASE Take(d, o) # Null
  <2>1. PICK more : Take(d, o) = Reading(Append(below, more))
    <3>1. CASE Len(below) + 1 > MAX_RECURSION
      BY <1>7, <1>8, <1>13, <1>15, <3>1, TakesOpen
    <3>2. CASE ~ (Len(below) + 1 > MAX_RECURSION)
      <4>1. open = "d" \/ open = "l"
        OBVIOUS
      <4> QED BY <1>7, <1>8, <1>13, <3>2, <4>1, TakesOpen
    <3> QED BY <3>1, <3>2
  <2>2. Above(Take(d, o), top, 2)
    <3>1. PICK Y : below \in Seq(Y) /\ more \in Y
      <4>1. X \subseteq X \cup {more} /\ more \in X \cup {more}
        OBVIOUS
      <4> QED BY <4>1, SeqMonotonic
    <3>2. PICK g \in Seq(Y) : g = Append(below, more) /\ Len(g) = 2 /\ g[1] = below[1]
      <4>1. /\ Append(below, more) \in Seq(Y) /\ Len(Append(below, more)) = 2
            /\ Append(below, more)[1] = below[1]
        BY <1>6, <3>1, FirstStays
      <4> QED BY <4>1
    <3>3. PICK two \in Nat : two = 2 /\ two >= 2
      OBVIOUS
    <3>4. Take(d, o) = Reading(g) /\ Len(g) = two /\ g[1] = top
      BY <1>6, <2>1, <3>2, <3>3
    <3>5. \E other \in Seq(Y) : Take(d, o) = Reading(other) /\ Len(other) = two /\ two >= 2
                                 /\ other[1] = top
      BY <3>3, <3>4, Zenon
    <3>6. Above(Take(d, o), top, two)
      BY <3>5, Zenon DEF Above
    <3> QED BY <3>3, <3>6
  <2>3. PICK e : Reads(Take(d, o), inside, e) /\ (e = Null \/ Above(e, top, 2))
    BY <1>2, <2>2, InsideReads
  <2>4. Reads(d, u \o inside, e)
    BY <1>12, <2>3, ReadsConcat
  <2>5. Reads(d, part, Take(e, x))
    <3>1. Reads(e, v, Take(e, x))
      BY <1>10, ReadsOne
    <3> QED BY <1>11, <2>4, <3>1, ReadsConcat
  <2>6. CASE e = Null
    <3>1. Take(e, x) = Null
      BY <2>6 DEF Take, Null
    <3> QED BY <1>4, <1>5, <1>7, <2>5, <3>1
  <2>7. CASE Above(e, top, 2)
    <3>1. PICK Y : \E calls \in Seq(Y) : e = Reading(calls) /\ Len(calls) = 2 /\ calls[1] = top
      BY <2>7 DEF Above
    <3>2. PICK calls \in Seq(Y) : e = Reading(calls) /\ Len(calls) = 2 /\ calls[1] = top
      BY <3>1
    <3>3. Ends(calls, x)
      <4>1. calls # <<>>
        <5>1. Len(calls) # 0
          BY <3>2
        <5> QED BY <5>1, LongIsNotEmpty
      <4>2. x.t = "e"
        BY <1>9 DEF Token
      <4> QED BY <4>1, <4>2 DEF Ends
    <3>4. Take(e, x) = Placed(Front(calls), WithBlank(Last(calls)))
      BY <3>2, <3>3, TakesReading
    <3>5. Front(calls) = below
      <4>1. Front(calls) = SubSeq(calls, 1, 1)
        BY <3>2 DEF Front
      <4>2. PICK f \in Seq(Y) : f = SubSeq(calls, 1, 1) /\ Len(f) = 1 /\ f[1] = top
        <5>1. PICK one \in Nat : one = 1
          OBVIOUS
        <5>2. SubSeq(calls, one, one) \in Seq(Y) /\ Len(SubSeq(calls, one, one)) = one
              /\ SubSeq(calls, one, one)[one] = calls[one]
          <6>1. Len(calls) >= one
            BY <3>2, <5>1
          <6> QED BY <5>1, <6>1, FirstOnly
        <5> QED BY <3>2, <5>1, <5>2
      <4>3. PICK Z : X \subseteq Z /\ Y \subseteq Z
        <5>1. X \subseteq X \cup Y /\ Y \subseteq X \cup Y
          OBVIOUS
        <5> QED BY <5>1
      <4>4. f \in Seq(Z) /\ below \in Seq(Z)
        BY <4>3, SeqMonotonic
      <4>5. \A k \in 1 .. 1 : f[k] = below[k]
        <5>1. \A k \in 1 .. 1 : k = 1
          OBVIOUS
        <5> QED BY <1>6, <4>2, <5>1
      <4>6. f = below
        BY <1>6, <4>2, <4>4, <4>5, SeqEqual
      <4> QED BY <4>1, <4>2, <4>6
    <3> QED BY <1>4, <1>5, <1>7, <2>5, <3>4, <3>5
  <2> QED BY <2>3, <2>6, <2>7
<1> QED BY <1>14, <1>15

-----------------------------------------------------------------------------
(***************************************************************************)
(* What the client wrote is read again: what is found under info is        *)
(* encoded as c, however the keys and values around it were shifted        *)
(***************************************************************************)

\* A list or dictionary under info is c, in one level less than there are.
InfoNode(node, c) == node.type \in {"list", "dict"} => Writes(node, MAX_RECURSION - 1, c)
InfoOk(map, c) ==
  /\ IsMap(map)
  /\ \A s \in DOMAIN map.elements :
       map.elements[s].key = "info" => InfoNode(map.elements[s].value, c)

LEMMA InfoNone ==
  ASSUME NEW size \in Nat \ {0}, NEW c
  PROVE  InfoOk(hashmap_init(size), c)
BY InitIsMap DEF InfoOk

LEMMA InfoInserted ==
  ASSUME NEW c, NEW map, InfoOk(map, c), NEW key, HasRoom(map, key),
         NEW value, key = "info" => InfoNode(value, c)
  PROVE  InfoOk(hashmap_insert(map, key, value), c)
<1>1. PICK map2 : map2 = hashmap_insert(map, key, value)
  OBVIOUS
<1>2. PICK slot : slot = FreeSlot(map, key)
  OBVIOUS
<1>3. /\ IsMap(map2) /\ DOMAIN map2.elements = DOMAIN map.elements \cup {slot}
      /\ \A s \in DOMAIN map.elements : map2.elements[s] = map.elements[s]
      /\ map2.elements[slot] = [key |-> key, value |-> value]
  BY <1>1, <1>2, InsertProperties DEF Inserted, InfoOk
<1>4. ASSUME NEW s \in DOMAIN map2.elements, map2.elements[s].key = "info"
      PROVE  InfoNode(map2.elements[s].value, c)
  <2>1. CASE s = slot
    BY <1>3, <1>4, <2>1
  <2>2. CASE s # slot
    BY <1>3, <1>4, <2>2 DEF InfoOk
  <2> QED BY <2>1, <2>2
<1> QED BY <1>1, <1>3, <1>4 DEF InfoOk

\* The decoder inside the root, with a key to come, or with a value.
OfKey(d, c) ==
  d = Null \/ \E map : InfoOk(map, c) /\ d = Reading(Append(<<>>, Call(Dict(map), NoKey)))
OfValue(d, c, key) ==
  \E map : /\ InfoOk(map, c) /\ HasRoom(map, key)
           /\ d = Reading(Append(<<>>, Call(Dict(map), <<key>>)))
AtRoot(d, c) == OfKey(d, c) \/ \E key : OfValue(d, c, key)

LEMMA NoCallsType == <<>> \in Seq({})
OBVIOUS

LEMMA RootKey ==
  ASSUME NEW c, NEW d, OfKey(d, c), NEW x, x.t = "s"
  PROVE  Take(d, x) = Null \/ OfValue(Take(d, x), c, x.value)
<1>1. CASE d = Null
  BY <1>1 DEF Take, Null
<1>2. ASSUME NEW map, InfoOk(map, c), d = Reading(Append(<<>>, Call(Dict(map), NoKey)))
      PROVE  Take(d, x) = Null \/ OfValue(Take(d, x), c, x.value)
  <2>1. IF HasRoom(map, x.value)
        THEN Take(d, x) = Reading(Append(<<>>, Call(Dict(map), <<x.value>>)))
        ELSE Take(d, x) = Null
    BY <1>2, NoCallsType, TakesKey
  <2> QED BY <1>2, <2>1 DEF OfValue
<1> QED BY <1>1, <1>2 DEF OfKey

LEMMA RootNoKey ==
  ASSUME NEW c, NEW d, OfKey(d, c), NEW x, x.t \notin {"s", "e"}
  PROVE  Take(d, x) = Null
<1>1. CASE d = Null
  BY <1>1 DEF Take, Null
<1>2. ASSUME NEW map, d = Reading(Append(<<>>, Call(Dict(map), NoKey)))
      PROVE  Take(d, x) = Null
  BY <1>2, NoCallsType, TakesNoKey
<1> QED BY <1>1, <1>2 DEF OfKey

LEMMA RootPlaced ==
  ASSUME NEW c, NEW map, InfoOk(map, c), NEW key, HasRoom(map, key),
         NEW node, key = "info" => InfoNode(node, c)
  PROVE  OfKey(Placed(Append(<<>>, Call(Dict(map), <<key>>)), node), c)
<1>1. PICK map2 : map2 = hashmap_insert(map, key, node)
  OBVIOUS
<1>2. InfoOk(map2, c)
  BY <1>1, InfoInserted
<1>3. Placed(Append(<<>>, Call(Dict(map), <<key>>)), node)
        = Reading(Append(<<>>, Call(Dict(map2), NoKey)))
  BY <1>1, NoCallsType, PlacedInDict, ZenonT(30)
<1> QED BY <1>2, <1>3 DEF OfKey

\* The call for the root, with a key.
LEMMA RootCalls ==
  ASSUME NEW map, NEW key
  PROVE  LET calls == Append(<<>>, Call(Dict(map), <<key>>))
         IN  /\ ~ AwaitsKey(calls) /\ Len(calls) = 1
             /\ calls \in Seq({Call(Dict(map), <<key>>)})
<1>1. PICK top : top = Call(Dict(map), <<key>>)
  OBVIOUS
<1>2. PICK calls : calls = Append(<<>>, top)
  OBVIOUS
<1>3. Last(calls) = top /\ Len(calls) = Len(<<>>) + 1
  BY <1>2, NoCallsType, TopOfCalls
<1>4. top.key # NoKey
  BY <1>1 DEF Call, NoKey
<1>5. calls \in Seq({top})
  <2>1. <<>> \in Seq({top}) /\ top \in {top}
    OBVIOUS
  <2> QED BY <1>2, <2>1, AppendProperties
<1> QED BY <1>1, <1>2, <1>3, <1>4, <1>5 DEF AwaitsKey

\* A number or string as the value.
LEMMA RootValue ==
  ASSUME NEW c, NEW d, NEW key, OfValue(d, c, key), NEW x, x.t \in {"i", "s"}
  PROVE  OfKey(Take(d, x), c)
<1>1. PICK map : InfoOk(map, c) /\ HasRoom(map, key)
                 /\ d = Reading(Append(<<>>, Call(Dict(map), <<key>>)))
  BY DEF OfValue
<1>2. PICK calls : calls = Append(<<>>, Call(Dict(map), <<key>>))
  OBVIOUS
<1>3. ~ AwaitsKey(calls) /\ ~ Ends(calls, x)
  <2>1. ~ AwaitsKey(calls)
    BY <1>2, RootCalls
  <2>2. x.t # "e"
    OBVIOUS
  <2> QED BY <2>1, <2>2 DEF Ends
<1>4. Take(d, x) = decode_helper(calls, x)
  BY <1>1, <1>2, <1>3, TakesReading
<1>5. CASE Len(calls) + 1 > MAX_RECURSION
  BY <1>4, <1>5 DEF decode_helper, OfKey
<1>6. ASSUME NEW node, node.type \in {"num", "str"}, Take(d, x) = Placed(calls, node)
      PROVE  OfKey(Take(d, x), c)
  <2>1. InfoNode(node, c)
    BY <1>6 DEF InfoNode
  <2> QED BY <1>1, <1>2, <1>6, <2>1, RootPlaced
<1>7. CASE ~ (Len(calls) + 1 > MAX_RECURSION) /\ x.t = "i"
  <2>1. Take(d, x) = Placed(calls, Num(x.value))
    BY <1>4, <1>7 DEF decode_helper
  <2>2. Num(x.value).type = "num"
    BY DEF Num
  <2> QED BY <1>6, <2>1, <2>2
<1>8. CASE ~ (Len(calls) + 1 > MAX_RECURSION) /\ x.t = "s"
  <2>1. Take(d, x) = Placed(calls, Str(x.value, x.len))
    BY <1>4, <1>8 DEF decode_helper
  <2>2. Str(x.value, x.len).type = "str"
    BY DEF Str
  <2> QED BY <1>6, <2>1, <2>2
<1> QED BY <1>5, <1>7, <1>8

LEMMA NestedIsLong ==
  ASSUME NEW K, NEW part, Nested(part, K)
  PROVE  part # <<>> /\ \E x, X : \E rest \in Seq(X) : part = <<x>> \o rest /\ x.t \in {"d", "l"}
<1>1. PICK open \in {"d", "l"} : \E inside \in Seq(Texts(K)) : part = InBrackets(open, inside)
  BY DEF Nested
<1>2. PICK inside \in Seq(Texts(K)) : part = InBrackets(open, inside)
  BY <1>1
<1>3. PICK o \in Texts(K) : o = Token(open)
  BY DEF Texts, Brackets, Token
<1>4. PICK x \in Texts(K) : x = Token("e")
  BY DEF Texts, Brackets, Token
<1>5. PICK u \in Seq(Texts(K)), v \in Seq(Texts(K)) : u = <<o>> /\ v = <<x>> /\ Len(u) = 1
  <2>1. <<o>> \in Seq(Texts(K)) /\ <<x>> \in Seq(Texts(K)) /\ Len(<<o>>) = 1
    OBVIOUS
  <2> QED BY <2>1
<1>6. part = u \o (inside \o v) /\ inside \o v \in Seq(Texts(K))
  <2>1. part = (u \o inside) \o v
    BY <1>2, <1>3, <1>4, <1>5 DEF InBrackets
  <2>2. (u \o inside) \o v = u \o (inside \o v) /\ inside \o v \in Seq(Texts(K))
    BY ONLY u \in Seq(Texts(K)), v \in Seq(Texts(K)), inside \in Seq(Texts(K)),
            ConcatAssociative, ConcatProperties
  <2> QED BY <2>1, <2>2
<1>7. PICK w \in Seq(Texts(K)) : w = inside \o v
  BY <1>6
<1>8. part # <<>>
  <2>1. Len(u \o w) = Len(u) + Len(w) /\ u \o w \in Seq(Texts(K)) /\ Len(w) \in Nat
    BY ConcatProperties
  <2>2. Len(part) # 0
    BY <1>5, <1>6, <1>7, <2>1
  <2>3. Len(<<>>) = 0
    OBVIOUS
  <2> QED BY <2>2, <2>3
<1>9. o.t \in {"d", "l"}
  BY <1>3 DEF Token
<1> QED BY <1>5, <1>6, <1>7, <1>8, <1>9

\* A part of an entry, as the value of the key before it.
LEMMA RootPart ==
  ASSUME NEW c, c = <<>> \/ Decodable(c), NEW d, NEW key, OfValue(d, c, key),
         NEW K, NEW part, Simple(part, K) \/ (Nested(part, K) /\ (key = "info" => part = c))
  PROVE  \E e : Reads(d, part, e) /\ AtRoot(e, c)
<1>1. CASE part = <<>>
  BY <1>1, ReadsNothing DEF AtRoot
<1>2. ASSUME NEW x \in Texts(K), part = <<x>>, x.t \in {"i", "s"}
      PROVE  \E e : Reads(d, part, e) /\ AtRoot(e, c)
  BY <1>2, ReadsOne, RootValue DEF AtRoot
<1>3. CASE Nested(part, K) /\ (key = "info" => part = c)
  <2>1. PICK map : InfoOk(map, c) /\ HasRoom(map, key)
                   /\ d = Reading(Append(<<>>, Call(Dict(map), <<key>>)))
    BY DEF OfValue
  <2>2. PICK top : top = Call(Dict(map), <<key>>)
    OBVIOUS
  <2>3. PICK calls : calls = Append(<<>>, top)
    OBVIOUS
  <2>4. ~ AwaitsKey(calls) /\ Len(calls) = 1 /\ calls \in Seq({top})
    BY <2>2, <2>3, RootCalls
  <2>5. AtRoot(Null, c)
    BY DEF AtRoot, OfKey
  <2>6. ASSUME NEW node, Reads(d, part, Placed(calls, node)), key = "info" => InfoNode(node, c)
        PROVE  \E e : Reads(d, part, e) /\ AtRoot(e, c)
    <3>1. OfKey(Placed(calls, node), c)
      BY <2>1, <2>2, <2>3, <2>6, RootPlaced
    <3> QED BY <2>6, <3>1 DEF AtRoot
  <2>7. CASE key # "info"
    <3>1. Reads(d, part, Null) \/ \E node : Reads(d, part, Placed(calls, node))
      BY <1>3, <2>1, <2>2, <2>3, <2>4, NestedReads
    <3> QED BY <2>5, <2>6, <2>7, <3>1
  <2>8. CASE key = "info"
    <3>1. part = c /\ Decodable(c)
      BY <1>3, <2>8, NestedIsLong
    <3>2. ReadAs(calls, c)
      BY <2>4, <3>1 DEF Decodable
    <3>3. Reads(d, part, Null) \/ \E node : /\ Writes(node, MAX_RECURSION - Len(calls), c)
                                            /\ Reads(d, part, Placed(calls, node))
      BY <2>1, <2>2, <2>3, <3>1, <3>2 DEF ReadAs
    <3>4. ASSUME NEW node, Writes(node, MAX_RECURSION - Len(calls), c)
          PROVE  InfoNode(node, c)
      <4>1. MAX_RECURSION - Len(calls) = MAX_RECURSION - 1
        BY <2>4
      <4> QED BY <3>4, <4>1 DEF InfoNode
    <3> QED BY <2>5, <2>6, <3>3, <3>4
  <2> QED BY <2>7, <2>8
<1> QED BY <1>1, <1>2, <1>3 DEF Simple

\* A part of an entry, where a key should be.
LEMMA RootShifted ==
  ASSUME NEW c, NEW d, OfKey(d, c), NEW K, NEW part, Simple(part, K) \/ Nested(part, K)
  PROVE  \E e : Reads(d, part, e) /\ AtRoot(e, c)
<1>1. AtRoot(Null, c)
  BY DEF AtRoot, OfKey
<1>2. CASE part = <<>>
  BY <1>2, ReadsNothing DEF AtRoot
<1>3. ASSUME NEW x \in Texts(K), part = <<x>>, x.t = "s"
      PROVE  \E e : Reads(d, part, e) /\ AtRoot(e, c)
  BY <1>1, <1>3, ReadsOne, RootKey DEF AtRoot
<1>4. ASSUME NEW x \in Texts(K), part = <<x>>, x.t = "i"
      PROVE  \E e : Reads(d, part, e) /\ AtRoot(e, c)
  <2>1. Take(d, x) = Null
    <3>1. x.t \notin {"s", "e"}
      BY <1>4
    <3> QED BY <3>1, RootNoKey
  <2> QED BY <1>1, <1>4, <2>1, ReadsOne
<1>5. CASE Nested(part, K)
  <2>1. PICK x, X : \E rest \in Seq(X) : part = <<x>> \o rest /\ x.t \in {"d", "l"}
    BY <1>5, NestedIsLong
  <2>2. PICK rest \in Seq(X) : part = <<x>> \o rest
    BY <2>1
  <2>3. Take(d, x) = Null
    <3>1. x.t \notin {"s", "e"}
      BY <2>1
    <3> QED BY <3>1, RootNoKey
  <2>4. Reads(d, <<x>>, Null)
    BY <2>3, ReadsOne
  <2>5. <<x>> \in Seq({x})
    OBVIOUS
  <2>6. Reads(d, part, Null)
    BY <2>2, <2>4, <2>5, ReadsNull
  <2> QED BY <1>1, <2>6
<1> QED BY <1>2, <1>3, <1>4, <1>5 DEF Simple

LEMMA RootEntry ==
  ASSUME NEW c, c = <<>> \/ Decodable(c), NEW d, AtRoot(d, c), NEW key,
         NEW K, NEW part \in Seq(Texts(K)),
         Simple(part, K) \/ (Nested(part, K) /\ (key = "info" => part = c))
  PROVE  \E e : Reads(d, <<KeyToken(key)>> \o part, e) /\ AtRoot(e, c)
<1>1. PICK x : x = KeyToken(key)
  OBVIOUS
<1>2. <<x>> \in Seq({x}) /\ x.t = "s" /\ x.value = key
  <2>1. x.t = "s" /\ x.value = key
    BY <1>1 DEF KeyToken, StrToken
  <2> QED BY <2>1
<1>3. Reads(d, <<x>>, Take(d, x))
  BY ReadsOne
<1>4. ASSUME NEW e, Reads(Take(d, x), part, e), AtRoot(e, c)
      PROVE  \E f : Reads(d, <<x>> \o part, f) /\ AtRoot(f, c)
  BY <1>2, <1>3, <1>4, ReadsConcat
<1>5. \E e : Reads(Take(d, x), part, e) /\ AtRoot(e, c)
  <2>1. CASE Take(d, x) = Null
    <3>1. AtRoot(Null, c)
      BY DEF AtRoot, OfKey
    <3> QED BY <2>1, <3>1, NullStays
  <2>2. CASE OfValue(Take(d, x), c, key)
    BY <2>2, RootPart
  <2>3. CASE OfKey(Take(d, x), c)
    BY <2>3, RootShifted
  <2>4. CASE OfKey(d, c)
    BY <1>2, <2>1, <2>2, <2>4, RootKey
  <2>5. ASSUME NEW other, OfValue(d, c, other) PROVE OfKey(Take(d, x), c)
    <3>1. x.t \in {"i", "s"}
      BY <1>2
    <3> QED BY <2>5, <3>1, RootValue
  <2> QED BY <2>3, <2>4, <2>5 DEF AtRoot
<1> QED BY <1>1, <1>4, <1>5

\* The parts under the keys, as NodePart has them.
InfoParts(keys, parts, n, K, c) ==
  \A k \in 1 .. n : /\ parts[k] \in Seq(Texts(K))
                    /\ \/ Simple(parts[k], K)
                       \/ Nested(parts[k], K) /\ (keys[k] = "info" => parts[k] = c)

LEMMA RootEntries ==
  ASSUME NEW c, c = <<>> \/ Decodable(c), NEW keys, NEW parts, NEW n \in Nat, NEW K,
         InfoParts(keys, parts, n, K, c)
  PROVE  \E e : /\ Reads(Reading(Append(<<>>, Call(Dict(hashmap_init(DICT_SIZE)), NoKey))),
                         FlattenSeq(WithKeys(keys, parts, n)), e)
                /\ AtRoot(e, c)
<1>1. PICK d : d = Reading(Append(<<>>, Call(Dict(hashmap_init(DICT_SIZE)), NoKey)))
  OBVIOUS
<1> DEFINE ReadTo(i) == \E e : Reads(d, FlattenSeq(WithKeys(keys, parts, i)), e) /\ AtRoot(e, c)
           T == {i \in 0 .. n : ~ ReadTo(i)}
<1> SUFFICES ASSUME T # {} PROVE FALSE
  <2>1. n \in 0 .. n
    OBVIOUS
  <2>2. ReadTo(n)
    BY <2>1
  <2> QED BY <1>1, <2>2
<1>2. PICK i \in T : \A y \in T : i <= y
  <2>1. T \subseteq Nat
    OBVIOUS
  <2> HIDE DEF T
  <2> QED BY <2>1, LeastNumber
<1>3. i \in 0 .. n /\ ~ ReadTo(i)
  OBVIOUS
<1>4. CASE i = 0
  <2>1. WithKeys(keys, parts, i) = <<>>
    <3>1. 1 .. i = {}
      BY <1>4
    <3> QED BY <3>1 DEF WithKeys
  <2>2. Reads(d, FlattenSeq(WithKeys(keys, parts, i)), d)
    BY <2>1, FlattenEmpty, ReadsNothing
  <2>3. InfoOk(hashmap_init(DICT_SIZE), c)
    BY BencodingAssumption, InfoNone
  <2>4. AtRoot(d, c)
    BY <1>1, <2>3 DEF AtRoot, OfKey
  <2> QED BY <1>3, <2>2, <2>4
<1>5. CASE i # 0
  <2>1. PICK j \in Nat : i = j + 1 /\ j \in 0 .. n /\ j # n
    <3>1. i - 1 \in Nat /\ i = (i - 1) + 1 /\ i - 1 \in 0 .. n /\ i - 1 # n
      BY <1>3, <1>5
    <3> QED BY <3>1
  <2>2. j \notin T
    <3>1. ~ (i <= j)
      BY <2>1
    <3> HIDE DEF T
    <3> QED BY <1>2, <3>1, Zenon
  <2>3. PICK e : Reads(d, FlattenSeq(WithKeys(keys, parts, j)), e) /\ AtRoot(e, c)
    BY <2>1, <2>2
  <2>4. PICK Z : /\ WithKeys(keys, parts, j) \in Seq(Seq(Z)) /\ parts[i] \in Seq(Z)
                 /\ <<KeyToken(keys[i])>> \o parts[i] \in Seq(Z)
                 /\ WithKeys(keys, parts, i)
                      = Append(WithKeys(keys, parts, j), <<KeyToken(keys[i])>> \o parts[i])
    <3>1. \E Y : \A k \in 1 .. n : parts[k] \in Seq(Y)
      BY DEF InfoParts
    <3> QED BY <2>1, <3>1, WithKeysType, ZenonT(30)
  <2>5. PICK a \in Seq(Z), b \in Seq(Z) :
          /\ a = FlattenSeq(WithKeys(keys, parts, j)) /\ b = <<KeyToken(keys[i])>> \o parts[i]
          /\ FlattenSeq(WithKeys(keys, parts, i)) = a \o b
    <3>1. PICK w \in Seq(Seq(Z)), b \in Seq(Z) :
            w = WithKeys(keys, parts, j) /\ b = <<KeyToken(keys[i])>> \o parts[i]
      BY <2>4
    <3>2. FlattenSeq(w) \in Seq(Z) /\ FlattenSeq(Append(w, b)) = FlattenSeq(w) \o b
      BY FlattenAppend
    <3> QED BY <2>4, <3>1, <3>2
  <2>6. i \in 1 .. n
    BY <1>3, <2>1
  <2>7. PICK f : Reads(e, b, f) /\ AtRoot(f, c)
    <3>1. /\ parts[i] \in Seq(Texts(K))
          /\ \/ Simple(parts[i], K)
             \/ Nested(parts[i], K) /\ (keys[i] = "info" => parts[i] = c)
      BY <2>6 DEF InfoParts
    <3> QED BY <2>3, <2>5, <3>1, RootEntry
  <2>8. Reads(d, a \o b, f)
    BY <2>3, <2>5, <2>7, ReadsConcat
  <2> QED BY <1>3, <2>5, <2>7, <2>8
<1> QED BY <1>4, <1>5

\* What bencoding_encode writes of the whole file, cut into its parts.
LEMMA WrittenParts ==
  ASSUME NEW S, NEW K, Closed(S, K), NEW map, MapOver(map, S, K), NEW c, InfoOk(map, c),
         NEW start \in Int, MAX_RECURSION # 0
  PROVE  \E keys, parts : \E n \in Nat :
           /\ InfoParts(keys, parts, n, K, c)
           /\ bencoding_encode(Dict(map), start) = InBrackets("d", FlattenSeq(WithKeys(keys, parts, n)))
<1>1. PICK order : Orders(map, start, order)
  BY EntriesOrdered DEF MapOver
<1>2. PICK n \in Nat : n = Cardinality(DOMAIN map.elements)
  BY SlotsFinite DEF MapOver
<1>3. PICK entries : entries = hashmap_entries(map, start)
  OBVIOUS
<1>4. /\ DOMAIN entries = 1 .. n
      /\ \A k \in 1 .. n : order[k] \in DOMAIN map.elements /\ entries[k] = map.elements[order[k]]
  BY <1>1, <1>2, <1>3 DEF Orders
<1>5. PICK b \in Nat : MAX_RECURSION = b + 1 /\ b = MAX_RECURSION - 1
  <2>1. MAX_RECURSION - 1 \in Nat /\ MAX_RECURSION = (MAX_RECURSION - 1) + 1
    BY BencodingAssumption
  <2> QED BY <2>1
<1> DEFINE PartOf(k, part) == /\ part \in Seq(Texts(K))
                              /\ Spells(<<ToEncode(entries[k].value)>>, start, b, part)
                              /\ \/ Simple(part, K)
                                 \/ Nested(part, K) /\ entries[k].value.type \in {"list", "dict"}
<1>6. ASSUME NEW k \in 1 .. n PROVE \E part : PartOf(k, part)
  <2>1. entries[k].value \in S
    BY <1>4 DEF MapOver
  <2> QED BY <2>1, NodePart
<1>7. PICK parts : parts = [k \in 1 .. n |-> CHOOSE part : PartOf(k, part)]
  OBVIOUS
<1>8. ASSUME NEW k \in 1 .. n PROVE PartOf(k, parts[k])
  <2>1. parts[k] = CHOOSE part : PartOf(k, part)
    BY <1>7
  <2>2. PartOf(k, CHOOSE part : PartOf(k, part))
    <3>1. \E part : PartOf(k, part)
      BY <1>6
    <3> HIDE DEF PartOf
    <3> QED BY <3>1
  <2> HIDE DEF PartOf
  <2> QED BY <2>1, <2>2
<1>9. PICK keys : keys = [k \in 1 .. n |-> entries[k].key]
  OBVIOUS
<1>10. \A k \in 1 .. n : keys[k] = entries[k].key
  BY <1>9
<1>11. ASSUME NEW k \in 1 .. n, keys[k] = "info", entries[k].value.type \in {"list", "dict"}
       PROVE  parts[k] = c
  <2>1. InfoNode(entries[k].value, c)
    BY <1>4, <1>10, <1>11 DEF InfoOk
  <2>2. Writes(entries[k].value, b, c)
    BY <1>5, <1>11, <2>1 DEF InfoNode
  <2>3. Spells(<<ToEncode(entries[k].value)>>, start, b, c)
    <3>1. b >= b
      OBVIOUS
    <3> QED BY <2>2, <3>1 DEF Writes
  <2>4. Spells(<<ToEncode(entries[k].value)>>, start, b, parts[k])
    BY <1>8
  <2> QED BY <2>3, <2>4, SpellsOnce
<1>12. InfoParts(keys, parts, n, K, c)
  <2>1. ASSUME NEW k \in 1 .. n
        PROVE  /\ parts[k] \in Seq(Texts(K))
               /\ \/ Simple(parts[k], K)
                  \/ Nested(parts[k], K) /\ (keys[k] = "info" => parts[k] = c)
    BY <1>8, <1>11
  <2> QED BY <2>1 DEF InfoParts
<1>13. Spells(<<ToEncode(Dict(map))>>, start, b + 1,
              InBrackets("d", FlattenSeq(WithKeys(keys, parts, n))))
  <2>1. \A k \in 1 .. n : /\ entries[k].key = keys[k] /\ parts[k] \in Seq(Texts(K))
                          /\ Spells(<<ToEncode(entries[k].value)>>, start, b, parts[k])
    BY <1>8, <1>10
  <2> HIDE DEF PartOf
  <2> QED BY <1>3, <1>4, <2>1, EntriesSpelled
<1>14. bencoding_encode(Dict(map), start) = InBrackets("d", FlattenSeq(WithKeys(keys, parts, n)))
  BY <1>5, <1>13, EncodeSpells
<1> QED BY <1>12, <1>14

\* What is decoded of a dictionary is what its entries leave.
LEMMA RootDecodes ==
  ASSUME NEW c, c = <<>> \/ Decodable(c), NEW keys, NEW parts, NEW n \in Nat, NEW K,
         InfoParts(keys, parts, n, K, c), MAX_RECURSION # 0,
         NEW file, file = InBrackets("d", FlattenSeq(WithKeys(keys, parts, n))),
         bencoding_decode(file).status = "decoded"
  PROVE  InfoOk(bencoding_decode(file).node.value, c)
<1>1. PICK o : o = Token("d")
  OBVIOUS
<1>2. PICK x : x = Token("e")
  OBVIOUS
<1>3. PICK Z : WithKeys(keys, parts, n) \in Seq(Seq(Z))
  <2>1. n \in 0 .. n
    OBVIOUS
  <2>2. \E Y : \A k \in 1 .. n : parts[k] \in Seq(Y)
    BY DEF InfoParts
  <2> QED BY <2>1, <2>2, WithKeysType
<1>4. PICK s \in Seq(Z) : s = FlattenSeq(WithKeys(keys, parts, n))
  BY <1>3, FlattenType
<1>5. PICK I : Seq(Z) \subseteq Seq(I) /\ <<o>> \in Seq(I) /\ <<x>> \in Seq(I)
  <2>1. PICK J : J = Z \cup {o, x}
    OBVIOUS
  <2>2. Z \subseteq J /\ o \in J /\ x \in J
    BY <2>1
  <2>3. <<o>> \in Seq(J) /\ <<x>> \in Seq(J)
    BY <2>2
  <2> QED BY <2>2, <2>3, SeqMonotonic
<1>6. s \in Seq(I) /\ <<o>> \in Seq(I) /\ <<x>> \in Seq(I)
  BY <1>5
<1>7. file = (<<o>> \o s) \o <<x>> /\ <<o>> \o s \in Seq(I) /\ file \in Seq(I)
  <2>1. file = (<<o>> \o s) \o <<x>>
    BY <1>1, <1>2, <1>4 DEF InBrackets
  <2>2. PICK u \in Seq(I), v \in Seq(I) : u = <<o>> /\ v = <<x>>
    BY <1>6
  <2>3. s \in Seq(I)
    BY <1>6
  <2>4. u \o s \in Seq(I) /\ (u \o s) \o v \in Seq(I)
    BY ONLY u \in Seq(I), v \in Seq(I), <2>3, ConcatProperties
  <2> QED BY <2>1, <2>2, <2>4
<1>8. PICK d : d = Reading(Append(<<>>, Call(Dict(hashmap_init(DICT_SIZE)), NoKey)))
  OBVIOUS
<1>9. Reads(Reading(<<>>), <<o>>, d)
  <2>1. ~ AwaitsKey(<<>>)
    BY DEF AwaitsKey
  <2>2. ~ (Len(<<>>) + 1 > MAX_RECURSION)
    BY BencodingAssumption
  <2>3. Take(Reading(<<>>), o) = d
    BY <1>1, <1>8, <2>1, <2>2, NoCallsType, TakesOpen
  <2> QED BY <2>3, ReadsOne
<1>10. PICK e : Reads(d, s, e) /\ AtRoot(e, c)
  BY <1>4, <1>8, RootEntries
<1>11. Reads(Reading(<<>>), file, Take(e, x))
  <2>1. Reads(Reading(<<>>), <<o>> \o s, e)
    BY <1>6, <1>9, <1>10, ReadsConcat
  <2>2. Reads(e, <<x>>, Take(e, x))
    BY ReadsOne
  <2> QED BY <1>6, <1>7, <2>1, <2>2, ReadsConcat
<1>12. bencoding_decode(file) = IF Take(e, x).status = "decoded" THEN Take(e, x) ELSE Null
  BY <1>7, <1>11, DecodeReads
<1>13. ASSUME NEW map, InfoOk(map, c), Take(e, x) = Placed(<<>>, Dict(map))
       PROVE  InfoOk(bencoding_decode(file).node.value, c)
  <2>1. Take(e, x) = Decoded(Dict(map))
    BY <1>13 DEF Placed
  <2>2. bencoding_decode(file).node.value = map
    BY <1>12, <2>1 DEF Decoded, Dict
  <2> QED BY <1>13, <2>2
<1>14. CASE e = Null
  <2>1. Take(e, x) = Null
    BY <1>14 DEF Take, Null
  <2> QED BY <1>12, <2>1 DEF Null
<1>15. ASSUME NEW map, InfoOk(map, c), e = Reading(Append(<<>>, Call(Dict(map), NoKey)))
       PROVE  InfoOk(bencoding_decode(file).node.value, c)
  <2>1. Take(e, x) = Placed(<<>>, Dict(map))
    BY <1>2, <1>15, NoCallsType, TakesEnd, WithBlankIs
  <2> QED BY <1>13, <1>15, <2>1
<1>16. ASSUME NEW map, NEW key, InfoOk(map, c), HasRoom(map, key),
              e = Reading(Append(<<>>, Call(Dict(map), <<key>>)))
       PROVE  InfoOk(bencoding_decode(file).node.value, c)
  <2>1. PICK map2 : map2 = hashmap_insert(map, key, Blank)
    OBVIOUS
  <2>2. Take(e, x) = Placed(<<>>, Dict(map2))
    BY <1>2, <1>16, <2>1, NoCallsType, TakesEnd, WithBlankIs
  <2>3. InfoNode(Blank, c)
    BY DEF InfoNode, Blank
  <2>4. InfoOk(map2, c)
    BY <1>16, <2>1, <2>3, InfoInserted
  <2> QED BY <1>13, <2>2, <2>4
<1> QED BY <1>10, <1>14, <1>15, <1>16 DEF AtRoot, OfKey, OfValue

LEMMA WrittenInfo ==
  ASSUME NEW S, NEW K, Closed(S, K), NEW map, MapOver(map, S, K), NEW c, c = <<>> \/ Decodable(c),
         InfoOk(map, c), NEW start \in Int, MAX_RECURSION # 0,
         NEW file, file = bencoding_encode(Dict(map), start),
         bencoding_decode(file).status = "decoded"
  PROVE  InfoOk(bencoding_decode(file).node.value, c)
<1>1. PICK keys, parts : \E n \in Nat :
           /\ InfoParts(keys, parts, n, K, c)
           /\ bencoding_encode(Dict(map), start) = InBrackets("d", FlattenSeq(WithKeys(keys, parts, n)))
  BY WrittenParts
<1> QED BY <1>1, RootDecodes

\* The infohash of a root with such an info dictionary is that dictionary.
LEMMA InfohashIs ==
  ASSUME NEW node, NEW c, InfoOk(node.value, c), Accepted(node)
  PROVE  Infohash(node) = c
<1>1. PICK info : info = hashmap_get(node.value, "info")
  OBVIOUS
<1>2. InfoNode(info, c) /\ info.type = "dict"
  <2>1. IsNode(node.value, "info", "dict")
    BY DEF Accepted
  <2> QED BY <1>1, <2>1 DEF IsNode, Has, hashmap_get, InfoOk
<1>3. Writes(info, MAX_RECURSION - 1, c)
  BY <1>2 DEF InfoNode
<1>4. PICK zero \in Int : zero = 0
  OBVIOUS
<1>5. MAX_RECURSION \in Nat /\ MAX_RECURSION >= MAX_RECURSION - 1
  BY BencodingAssumption
<1>6. Spells(<<ToEncode(info)>>, zero, MAX_RECURSION, c)
  BY <1>3, <1>5 DEF Writes
<1>7. bencoding_encode(info, zero) = c
  BY <1>6, EncodeSpells
<1> QED BY <1>1, <1>4, <1>7 DEF Infohash

\* A decoded file whose info dictionary is c, which is read back wherever it is.
InfoSafe(map, c) == InfoOk(map, c) /\ (c = <<>> \/ Decodable(c)) /\ MAX_RECURSION # 0
FileSafe(file, c) == Loads(file) => InfoSafe(bencoding_decode(file).node.value, c)

LEMMA OriginalIsSafe ==
  ASSUME NEW file \in Files, file.sorted
  PROVE  FileSafe(Tokens(file), file.info)
<1> SUFFICES ASSUME Loads(Tokens(file))
             PROVE  InfoSafe(bencoding_decode(Tokens(file)).node.value, file.info)
  BY DEF FileSafe
<1>1. PICK item : item = Tokens(file)
  OBVIOUS
<1>2. PICK root : root = Cutting[item]
  OBVIOUS
<1>3. /\ item \in DOMAIN Cutting /\ root.type = "dict"
      /\ \A k \in DOMAIN root.parts : root.keys[k] = "info" => root.parts[k] = file.info
  BY <1>1, <1>2, CuttingAssumption
<1>4. PICK keys : keys = root.keys
  OBVIOUS
<1>5. PICK parts : parts = root.parts
  OBVIOUS
<1>6. PICK n \in Nat : DictOf(item, keys, parts, n) /\ DOMAIN parts = 1 .. n
  BY <1>2, <1>3, <1>4, <1>5, CutIsDict
<1>7. \A k \in 1 .. n : parts[k] # <<>> => Decodable(parts[k])
  BY <1>6, ItemsComeBack DEF DictOf
<1>8. PartsReadable(parts, n)
  BY <1>6, <1>7, DictOfReadable
<1>9. PICK Z : item \in Seq(Z)
  BY <1>3, CuttingType
<1>10. ~ Reads(Reading(<<>>), item, Null)
  <2> SUFFICES ASSUME Reads(Reading(<<>>), item, Null) PROVE FALSE
    OBVIOUS
  <2>1. bencoding_decode(item) = IF Null.status = "decoded" THEN Null ELSE Null
    BY <1>9, DecodeReads
  <2> QED BY <1>1, <2>1 DEF Loads, Null
<1>11. PICK none \in Seq({}) : none = <<>> /\ ~ AwaitsKey(none)
  BY NoCallsType DEF AwaitsKey
<1>12. PICK map, m : /\ m = MAX_RECURSION - (Len(none) + 1) /\ m \in Nat
                     /\ Holds(map, n, keys, parts, m)
                     /\ Reads(Reading(none), item, Placed(none, Dict(map)))
  BY <1>6, <1>8, <1>10, <1>11, DictItem DEF DictOf
<1>13. m = MAX_RECURSION - 1 /\ MAX_RECURSION # 0
  <2>1. Len(none) = 0
    BY <1>11
  <2> QED BY <1>12, <2>1, BencodingAssumption
<1>14. bencoding_decode(item) = Decoded(Dict(map))
  <2>1. Placed(none, Dict(map)) = Decoded(Dict(map))
    BY <1>11 DEF Placed
  <2>2. Decoded(Dict(map)).status = "decoded"
    BY DEF Decoded
  <2> QED BY <1>9, <1>11, <1>12, <2>1, <2>2, DecodeReads
<1>15. bencoding_decode(item).node.value = map
  BY <1>14 DEF Decoded, Dict
<1>16. PICK p : HoldsAt(map, p, n, keys, parts, m)
  BY <1>12 DEF Holds
<1>17. ASSUME NEW s \in DOMAIN map.elements, map.elements[s].key = "info"
       PROVE  /\ Writes(map.elements[s].value, m, file.info)
              /\ file.info = <<>> \/ Decodable(file.info)
  <2>1. PICK k \in 1 .. n : p[k] = s
    BY <1>16 DEF HoldsAt
  <2>2. keys[k] = "info" /\ Writes(map.elements[s].value, m, parts[k])
    BY <1>16, <1>17, <2>1 DEF HoldsAt
  <2>3. parts[k] = file.info
    BY <1>3, <1>4, <1>5, <1>6, <2>2
  <2> QED BY <1>7, <2>2, <2>3
<1>18. InfoOk(map, file.info)
  BY <1>12, <1>13, <1>17 DEF Holds, InfoOk, InfoNode
<1>19. file.info = <<>> \/ Decodable(file.info)
  <2>1. Has(map, "info")
    BY <1>1, <1>14, <1>15 DEF Loads, Accepted, IsNode
  <2> QED BY <1>17, <2>1 DEF Has
<1> QED BY <1>1, <1>13, <1>15, <1>18, <1>19 DEF InfoSafe

\* save_state leaves what is found under info.
LEMMA InfoOverwritten ==
  ASSUME NEW c, NEW map, InfoOk(map, c), NEW slot \in Slots(map), NEW key, key # "info", NEW value
  PROVE  LET map2 == WithEntry(map, slot, key, value)
         IN  InfoOk(map2, c) /\ map2.map_size = map.map_size
<1> DEFINE filled == [s \in DOMAIN map.elements \cup {slot} |->
                        IF s = slot THEN [key |-> key, value |-> value]
                        ELSE map.elements[s]]
<1>1. PICK map2 : map2 = WithEntry(map, slot, key, value)
  OBVIOUS
<1>2. map2 = [map_size |-> map.map_size, elements |-> filled]
  BY <1>1 DEF WithEntry, InfoOk, IsMap
<1>3. /\ DOMAIN filled = DOMAIN map.elements \cup {slot}
      /\ \A s \in DOMAIN map.elements \ {slot} : filled[s] = map.elements[s]
      /\ filled[slot] = [key |-> key, value |-> value]
  OBVIOUS
<1> HIDE DEF filled
<1>4. IsMap(map2) /\ map2.map_size = map.map_size /\ map2.elements = filled
  BY <1>2, <1>3 DEF InfoOk, IsMap, Slots
<1>5. ASSUME NEW s \in DOMAIN map2.elements, map2.elements[s].key = "info"
      PROVE  InfoNode(map2.elements[s].value, c)
  <2>1. s # slot
    BY <1>3, <1>4, <1>5
  <2> QED BY <1>3, <1>4, <1>5, <2>1 DEF InfoOk
<1> QED BY <1>1, <1>4, <1>5 DEF InfoOk

\* The record that save_state works on.
SaveInfo(s, c, m) ==
  /\ s = [ok |-> s.ok, decoded |-> s.decoded, state |-> s.state]
  /\ InfoOk(s.decoded, c) /\ s.decoded.map_size = m

LEMMA SaveInfoState ==
  ASSUME NEW c, NEW m, NEW s, SaveInfo(s, c, m), NEW map
  PROVE  SaveInfo([s EXCEPT !.state = map], c, m) /\ SaveInfo([s EXCEPT !.ok = FALSE], c, m)
<1>1. PICK no : no = FALSE
  OBVIOUS
<1>2. SaveInfo([s EXCEPT !.state = map], c, m) /\ SaveInfo([s EXCEPT !.ok = no], c, m)
  BY DEF SaveInfo
<1> QED BY <1>1, <1>2

LEMMA SaveInfoInsert ==
  ASSUME NEW c, NEW m, NEW s, SaveInfo(s, c, m), NEW key, NEW node
  PROVE  SaveInfo(Insert(s, key, node), c, m)
BY SaveInfoState DEF Insert

LEMMA SaveInfoBitfield ==
  ASSUME NEW c, NEW m, NEW s, SaveInfo(s, c, m), NEW t
  PROVE  SaveInfo(save_bitfield(s, t), c, m)
BY SaveInfoState, SaveInfoInsert DEF save_bitfield

LEMMA SaveInfoDir ==
  ASSUME NEW c, NEW m, NEW s, SaveInfo(s, c, m), NEW t
  PROVE  SaveInfo(save_download_dir(s, t), c, m)
BY SaveInfoState, SaveInfoInsert DEF save_download_dir

LEMMA SaveInfoCount ==
  ASSUME NEW c, NEW m, NEW s, SaveInfo(s, c, m), NEW key, key # "info", NEW value
  PROVE  SaveInfo(save_data_count(s, key, value), c, m)
<1>1. CASE ~ s.ok
  BY <1>1 DEF save_data_count
<1>2. CASE s.ok /\ ~ Has(s.decoded, key)
  BY <1>2, SaveInfoInsert DEF save_data_count
<1>3. CASE s.ok /\ Has(s.decoded, key)
  <2>1. PICK node : node = [hashmap_get(s.decoded, key) EXCEPT !.value = value]
    OBVIOUS
  <2>2. PICK map : map = Overwrite(s.decoded, key, node)
    OBVIOUS
  <2>3. Home(s.decoded, key) \in Slots(s.decoded)
    BY <1>3 DEF Has, SaveInfo, InfoOk, IsMap
  <2>4. InfoOk(map, c) /\ map.map_size = m
    BY <2>2, <2>3, InfoOverwritten DEF SaveInfo, Overwrite
  <2>5. SaveInfo([s EXCEPT !.decoded = map], c, m)
    BY <2>4 DEF SaveInfo
  <2> QED BY <1>3, <2>1, <2>2, <2>5 DEF save_data_count
<1> QED BY <1>1, <1>2, <1>3

LEMMA SavedInfo ==
  ASSUME NEW c, NEW t, InfoOk(t.decoded, c)
  PROVE  InfoOk(Saved(t).decoded, c)
<1>1. CASE ~ HasPlace(t.decoded)
  BY <1>1 DEF Saved
<1>2. CASE HasPlace(t.decoded)
  <2> DEFINE m == t.decoded.map_size
             state == IF Has(t.decoded, STATE_KEY) THEN hashmap_get(t.decoded, STATE_KEY).value
                      ELSE hashmap_init(STATE_SIZE)
             s0 == [ok |-> TRUE, decoded |-> t.decoded, state |-> state]
             s1 == save_bitfield(s0, t)
             s2 == save_download_dir(s1, t)
             s3 == save_data_count(s2, DOWNLOADED_KEY, t.downloaded)
             s4 == save_data_count(s3, UPLOADED_KEY, t.uploaded)
  <2>1. Saved(t) = [ok |-> s4.ok, defined |-> s2.ok => DirIsString(s1.state) /\ CountsAreNumbers(t.decoded),
                    decoded |-> WithEntry(s4.decoded, StateSlot(t.decoded), STATE_KEY, Dict(s4.state)),
                    state |-> s4.state]
    BY <1>2, Zenon DEF Saved
  <2>2. SaveInfo(s4, c, m)
    <3>1. DOWNLOADED_KEY # "info" /\ UPLOADED_KEY # "info"
      BY DEF DOWNLOADED_KEY, UPLOADED_KEY
    <3>2. SaveInfo(s0, c, m)
      BY DEF SaveInfo
    <3> HIDE DEF s0, m
    <3>3. SaveInfo(s1, c, m)
      BY <3>2, SaveInfoBitfield
    <3> HIDE DEF s1
    <3>4. SaveInfo(s2, c, m)
      BY <3>3, SaveInfoDir
    <3> HIDE DEF s2
    <3>5. SaveInfo(s3, c, m)
      BY <3>1, <3>4, SaveInfoCount
    <3> HIDE DEF s3
    <3> QED BY <3>1, <3>5, SaveInfoCount
  <2>3. PICK d : d = s4.decoded /\ InfoOk(d, c) /\ d.map_size = m
    BY <2>2 DEF SaveInfo
  <2>4. PICK e : e = Dict(s4.state)
    OBVIOUS
  <2> HIDE DEF s4
  <2>5. StateSlot(t.decoded) \in Slots(d)
    <3>1. IsMap(t.decoded) /\ Slots(d) = Slots(t.decoded)
      BY <2>3 DEF InfoOk, Slots
    <3>2. CASE Has(t.decoded, STATE_KEY)
      BY <3>1, <3>2 DEF Has, IsMap, StateSlot
    <3>3. CASE ~ Has(t.decoded, STATE_KEY)
      BY <1>2, <3>1, <3>3, FreeSlotProperties DEF StateSlot, HasPlace
    <3> QED BY <3>2, <3>3
  <2>6. PICK map : map = WithEntry(d, StateSlot(t.decoded), STATE_KEY, e)
    OBVIOUS
  <2>7. InfoOk(map, c)
    <3>1. STATE_KEY # "info"
      BY DEF STATE_KEY
    <3> QED BY <2>3, <2>5, <2>6, <3>1, InfoOverwritten
  <2>8. PICK a, b, f : Saved(t) = [ok |-> a, defined |-> b, decoded |-> map, state |-> f]
    BY <2>1, <2>3, <2>4, <2>6, Zenon
  <2>9. Saved(t).decoded = map
    BY ONLY <2>8
  <2> QED BY <2>7, <2>9
<1> QED BY <1>1, <1>2

\* What load_torrent keeps of a file.
LEMMA ParseKeeps ==
  ASSUME NEW node
  PROVE  LET t == parse_state(Torrent(node))
         IN  t.decoded = node.value /\ t.infohash = Infohash(node)
<1>1. PICK h : h = Infohash(node)
  OBVIOUS
<1>2. PICK c, l, n, f, b, zero, word :
        Torrent(node) = [decoded |-> node.value, infohash |-> h, piece_count |-> c,
                         piece_length |-> l, length |-> n, files |-> f, bitfield |-> b,
                         downloaded |-> zero, uploaded |-> zero, download_dir |-> word]
  BY <1>1, Zenon DEF Torrent
<1>3. PICK t : t = Torrent(node)
  OBVIOUS
<1>4. t.decoded = node.value /\ t.infohash = h
  BY <1>2, <1>3
<1>5. ASSUME NEW d, NEW u, NEW dir, NEW bits,
             parse_state(t) = [t EXCEPT !.downloaded = d, !.uploaded = u, !.download_dir = dir,
                                        !.bitfield = bits]
      PROVE  parse_state(t).decoded = t.decoded /\ parse_state(t).infohash = t.infohash
  <2>1. PICK t1 : t1 = [t EXCEPT !.downloaded = d]
    OBVIOUS
  <2>2. t1 = [decoded |-> node.value, infohash |-> h, piece_count |-> c,
              piece_length |-> l, length |-> n, files |-> f, bitfield |-> b,
              downloaded |-> d, uploaded |-> zero, download_dir |-> word]
    BY <1>2, <1>3, <2>1
  <2>3. PICK t2 : t2 = [t1 EXCEPT !.uploaded = u]
    OBVIOUS
  <2>4. t2 = [decoded |-> node.value, infohash |-> h, piece_count |-> c,
              piece_length |-> l, length |-> n, files |-> f, bitfield |-> b,
              downloaded |-> d, uploaded |-> u, download_dir |-> word]
    BY <2>2, <2>3
  <2>5. PICK t3 : t3 = [t2 EXCEPT !.download_dir = dir]
    OBVIOUS
  <2>6. t3 = [decoded |-> node.value, infohash |-> h, piece_count |-> c,
              piece_length |-> l, length |-> n, files |-> f, bitfield |-> b,
              downloaded |-> d, uploaded |-> u, download_dir |-> dir]
    BY <2>4, <2>5
  <2>7. PICK t4 : t4 = [t3 EXCEPT !.bitfield = bits]
    OBVIOUS
  <2>8. t4 = [decoded |-> node.value, infohash |-> h, piece_count |-> c,
              piece_length |-> l, length |-> n, files |-> f, bitfield |-> bits,
              downloaded |-> d, uploaded |-> u, download_dir |-> dir]
    BY <2>6, <2>7
  <2>9. parse_state(t) = t4
    BY <1>5, <2>1, <2>3, <2>5, <2>7, Zenon
  <2> QED BY <1>4, <2>8, <2>9
<1>6. parse_state(t).decoded = t.decoded /\ parse_state(t).infohash = t.infohash
  <2>1. PICK state : state = hashmap_get(t.decoded, STATE_KEY).value
    OBVIOUS
  <2>2. CASE ~ IsNode(t.decoded, STATE_KEY, "dict") \/ ~ IsNode(state, DOWNLOAD_DIR_KEY, "str")
    <3>1. parse_state(t) = t
      BY <2>1, <2>2, Zenon DEF parse_state
    <3> QED BY <3>1
  <2>3. CASE ~ (~ IsNode(t.decoded, STATE_KEY, "dict") \/ ~ IsNode(state, DOWNLOAD_DIR_KEY, "str"))
    <3>1. parse_state(t) = [t EXCEPT !.downloaded = Count(state, DOWNLOADED_KEY, @),
                                     !.uploaded = Count(state, UPLOADED_KEY, @),
                                     !.download_dir = hashmap_get(state, DOWNLOAD_DIR_KEY).value,
                                     !.bitfield = IF BitfieldFits(state, t)
                                                  THEN hashmap_get(state, BITFIELD_KEY).value ELSE @]
      BY <2>1, <2>3, Zenon DEF parse_state
    <3>2. PICK dir, bits :
            parse_state(t) = [t EXCEPT !.downloaded = Count(state, DOWNLOADED_KEY, @),
                                       !.uploaded = Count(state, UPLOADED_KEY, @),
                                       !.download_dir = dir, !.bitfield = bits]
      BY <3>1, Zenon
    <3>3. parse_state(t) = [t EXCEPT !.downloaded = Count(state, DOWNLOADED_KEY, t.downloaded),
                                     !.uploaded = Count(state, UPLOADED_KEY, t.uploaded),
                                     !.download_dir = dir, !.bitfield = bits]
      BY <3>2
    <3>4. PICK d : d = Count(state, DOWNLOADED_KEY, t.downloaded)
      OBVIOUS
    <3>5. PICK u : u = Count(state, UPLOADED_KEY, t.uploaded)
      OBVIOUS
    <3>6. parse_state(t) = [t EXCEPT !.downloaded = d, !.uploaded = u, !.download_dir = dir,
                                     !.bitfield = bits]
      BY <3>3, <3>4, <3>5, Zenon
    <3> QED BY <1>5, <3>6
  <2> QED BY <2>2, <2>3
<1>7. parse_state(t).decoded = node.value /\ parse_state(t).infohash = h
  BY <1>4, <1>6
<1> QED BY <1>1, <1>3, <1>7, Zenon

\* A client that has loaded such a file.
TorrentSafe(c) == InfoSafe(torrent.decoded, c) /\ torrent.infohash = c

InfohashInv ==
  torrent_file.sorted =>
    /\ FileSafe(saved, torrent_file.info) /\ FileSafe(out, torrent_file.info)
    /\ Loaded => TorrentSafe(torrent_file.info)

LEMMA EmptyIsSafe ==
  ASSUME NEW c
  PROVE  FileSafe(<<>>, c)
<1>1. Reads(Reading(<<>>), <<>>, Reading(<<>>))
  BY ReadsNothing
<1>2. Reading(<<>>).status # "decoded"
  BY DEF Reading
<1>3. bencoding_decode(<<>>) = Null
  BY <1>1, <1>2, NoCallsType, DecodeReads
<1> QED BY <1>3 DEF FileSafe, Loads, Null

LEMMA LoadSafe ==
  ASSUME NEW file, NEW c, FileSafe(file, c), NEW past, Load(file, past)
  PROVE  TorrentSafe(c)'
<1>1. PICK node : node = bencoding_decode(file).node
  OBVIOUS
<1>2. PICK t : t = parse_state(Torrent(node))
  OBVIOUS
<1>3. t.decoded = node.value /\ t.infohash = Infohash(node)
  BY <1>2, ParseKeeps
<1>4. InfoSafe(node.value, c) /\ Accepted(node)
  BY <1>1 DEF FileSafe, Load, Loads
<1>5. Infohash(node) = c
  BY <1>4, InfohashIs DEF InfoSafe
<1>6. load_torrent_metadata(file) = t
  BY <1>1, <1>2 DEF load_torrent_metadata
<1>7. torrent' = [decoded |-> t.decoded, infohash |-> t.infohash, download_dir |-> "dir",
                  downloaded |-> t.downloaded, uploaded |-> t.uploaded]
  BY <1>6 DEF Load
<1> QED BY <1>3, <1>4, <1>5, <1>7 DEF TorrentSafe

\* What save_state writes is such a file.
LEMMA SaveSafe ==
  ASSUME TorrentLoaded, Saved(Current).defined, NEW c, InfoSafe(torrent.decoded, c)
  PROVE  /\ InfoSafe(Saved(Current).decoded, c)
         /\ \A start \in {0} \cup CountSlots(Saved(Current).state) :
              FileSafe(bencoding_encode(Dict(Saved(Current).decoded), start), c)
<1>1. PICK S0, K0 : Closed(S0, K0) /\ MapOver(torrent.decoded, S0, K0)
  BY DEF TorrentLoaded, IsTree
<1>2. Current.decoded = torrent.decoded /\ TorrentOverNodes(Current)
  BY DEF Current, TorrentOverNodes, TorrentLoaded, LayoutOver
<1>3. PICK S, K : /\ Closed(S, K) /\ MapOver(Saved(Current).decoded, S, K)
                  /\ MapOver(Saved(Current).state, S, K)
  BY <1>1, <1>2, SavedOver
<1>4. PICK map : map = Saved(Current).decoded
  OBVIOUS
<1>5. PICK state : state = Saved(Current).state
  OBVIOUS
<1>6. InfoSafe(map, c)
  BY <1>2, <1>4, SavedInfo DEF InfoSafe
<1>7. ASSUME NEW start \in {0} \cup CountSlots(state)
      PROVE  FileSafe(bencoding_encode(Dict(map), start), c)
  <2>1. CountSlots(state) \subseteq Int
    BY <1>3, <1>5 DEF CountSlots, MapOver, IsMap, Slots
  <2>2. start \in Int
    BY <2>1
  <2>3. PICK file : file = bencoding_encode(Dict(map), start)
    OBVIOUS
  <2>4. Loads(file) => InfoOk(bencoding_decode(file).node.value, c)
    BY <1>3, <1>4, <1>6, <2>2, <2>3, WrittenInfo DEF InfoSafe, Loads
  <2> QED BY <1>6, <2>3, <2>4 DEF FileSafe, InfoSafe
<1> QED BY <1>4, <1>5, <1>6, <1>7

\* What is there of a file that was cut short does not load.
LEMMA PartDoesNotLoad ==
  ASSUME ResumeInv, saved' \in {saved} \cup Parts, saved' # saved
  PROVE  ~ Loads(saved')
<1>1. PICK n \in Cuts : n < Len(out) /\ saved' = SubSeq(out, 1, n)
  BY DEF Parts
<1>2. PICK K : out \in Seq(Texts(K)) /\ Whole(out, K)
  BY DEF ResumeInv, FilesSound, IsWhole
<1>3. n \in 0 .. Len(out) - 1
  <2>1. n \in Nat /\ Len(out) \in Nat
    BY <1>2, ResumeAssumption
  <2> QED BY <1>1, <2>1
<1> QED BY <1>1, <1>2, <1>3, CutDoesNotLoad

LEMMA InfohashInvStep ==
  ASSUME ResumeInv, InfohashInv, [Next]_vars
  PROVE  InfohashInv'
<1> SUFFICES ASSUME torrent_file'.sorted
             PROVE  /\ FileSafe(saved', torrent_file'.info) /\ FileSafe(out', torrent_file'.info)
                    /\ Loaded' => TorrentSafe(torrent_file.info)'
  BY DEF InfohashInv
<1> USE DEF Loaded
<1>0. torrent_file' = torrent_file /\ torrent_file.sorted
  <2>1. torrent_file' = torrent_file
    BY DEF Next, Start, Load, InitFailsAndExits, StoreStep, CountPiece, CountServed, SaveState,
           SaveFails, WriteSaved, WriteCutShort, Killed, vars, fileVars
  <2> QED BY <2>1
<1>a. /\ FileSafe(saved, torrent_file.info) /\ FileSafe(out, torrent_file.info)
      /\ Loaded => TorrentSafe(torrent_file.info)
  BY <1>0 DEF InfohashInv
<1>1. CASE Start
  <2>1. FileSafe(Tokens(torrent_file), torrent_file.info)
    BY <1>0, OriginalIsSafe DEF ResumeInv, FilesSound
  <2>2. TorrentSafe(torrent_file.info)' /\ UNCHANGED <<saved, out>>
    <3>1. PICK file, past : FileSafe(file, torrent_file.info) /\ Load(file, past)
      BY <1>1, <1>a, <2>1 DEF Start
    <3>2. PICK c : c = torrent_file.info
      OBVIOUS
    <3>3. TorrentSafe(c)'
      BY <3>1, <3>2, LoadSafe
    <3>4. UNCHANGED <<saved, out>>
      BY <3>1 DEF Load
    <3> QED BY <1>0, <3>2, <3>3, <3>4 DEF TorrentSafe
  <2> QED BY <1>0, <1>a, <2>2
<1>2. CASE InitFailsAndExits
  <2>1. mode' = "off" /\ out' = <<>> /\ UNCHANGED saved
    BY <1>2 DEF InitFailsAndExits, InitFails, Stop, Forget
  <2> QED BY <1>0, <1>a, <2>1, EmptyIsSafe
<1>3. CASE StoreStep
  <2>1. UNCHANGED <<saved, out, torrent>>
    BY <1>3 DEF StoreStep, fileVars
  <2>2. Loaded
    BY <1>3 DEF StoreStep, InitFile, BeginWrite, BeginRead, BeginCall, Idle, RwTurn, GiveUpCall,
                EndCall, Returned
  <2> QED BY <1>0, <1>a, <2>1, <2>2 DEF TorrentSafe
<1>4. CASE CountPiece
  <2>1. /\ mode = "run" /\ UNCHANGED <<saved, out>>
        /\ \E n : torrent' = [torrent EXCEPT !.downloaded = n]
    BY <1>4 DEF CountPiece, CompletePiece, WriteReturned, Returned, fileVars
  <2>2. TorrentLoaded
    BY <2>1 DEF ResumeInv
  <2>3. torrent'.decoded = torrent.decoded /\ torrent'.infohash = torrent.infohash
    BY <2>1, <2>2 DEF TorrentLoaded
  <2> QED BY <1>0, <1>a, <2>1, <2>3 DEF TorrentSafe
<1>5. CASE CountServed
  <2>1. /\ mode = "run" /\ UNCHANGED <<saved, out>>
        /\ \E n : torrent' = [torrent EXCEPT !.uploaded = n]
    BY <1>5 DEF CountServed, ServePiece, EndCall, Returned, fileVars
  <2>2. TorrentLoaded
    BY <2>1 DEF ResumeInv
  <2>3. torrent'.decoded = torrent.decoded /\ torrent'.infohash = torrent.infohash
    BY <2>1, <2>2 DEF TorrentLoaded
  <2> QED BY <1>0, <1>a, <2>1, <2>3 DEF TorrentSafe
<1>6. ASSUME Loaded, Saved(Current).defined,
             torrent' = [torrent EXCEPT !.decoded = Saved(Current).decoded]
      PROVE  TorrentSafe(torrent_file.info)'
  <2>1. TorrentLoaded /\ TorrentSafe(torrent_file.info)
    BY <1>6, <1>a DEF ResumeInv
  <2>2. PICK map : map = Saved(Current).decoded
    OBVIOUS
  <2>3. InfoSafe(map, torrent_file.info)
    BY <1>6, <2>1, <2>2, SaveSafe DEF TorrentSafe
  <2>4. torrent'.decoded = map /\ torrent'.infohash = torrent.infohash
    BY <1>6, <2>1, <2>2 DEF TorrentLoaded
  <2> QED BY <1>0, <2>1, <2>3, <2>4 DEF TorrentSafe
<1>7. CASE SaveState
  <2>1. /\ mode = "run" /\ Saved(Current).defined
        /\ torrent' = [torrent EXCEPT !.decoded = Saved(Current).decoded]
        /\ \E start \in {0} \cup CountSlots(Saved(Current).state) :
             out' = bencoding_encode(Dict(Saved(Current).decoded), start)
        /\ saved' = <<>>
    BY <1>7 DEF SaveState, BeginSave, Idle
  <2>2. FileSafe(out', torrent_file.info)
    <3>1. TorrentLoaded /\ InfoSafe(torrent.decoded, torrent_file.info)
      BY <1>a, <2>1 DEF ResumeInv, TorrentSafe
    <3> QED BY <2>1, <3>1, SaveSafe
  <2> QED BY <1>0, <1>6, <2>1, <2>2, EmptyIsSafe
<1>8. CASE SaveFails
  <2>1. /\ mode = "run" /\ Saved(Current).defined
        /\ torrent' = [torrent EXCEPT !.decoded = Saved(Current).decoded]
        /\ UNCHANGED <<saved, out>>
    BY <1>8 DEF SaveFails, Idle
  <2> QED BY <1>0, <1>6, <1>a, <2>1
<1>9. CASE WriteSaved
  <2>1. mode = "save" /\ saved' = out /\ out' = <<>> /\ UNCHANGED torrent
    BY <1>9 DEF WriteSaved, EndSave
  <2> QED BY <1>0, <1>a, <2>1, EmptyIsSafe DEF TorrentSafe
<1>10. ASSUME saved' \in {saved} \cup Parts PROVE FileSafe(saved', torrent_file.info)
  BY <1>10, <1>a, PartDoesNotLoad DEF FileSafe
<1>11. CASE WriteCutShort
  <2>1. mode = "save" /\ saved' \in {saved} \cup Parts /\ out' = <<>> /\ UNCHANGED torrent
    BY <1>11 DEF WriteCutShort, SaveCutShort
  <2> QED BY <1>0, <1>10, <1>a, <2>1, EmptyIsSafe DEF TorrentSafe
<1>12. CASE Killed
  <2>1. mode' = "off" /\ out' = <<>> /\ saved' \in {saved} \cup Parts
    BY <1>12 DEF Killed, Crash, Stop, Forget
  <2> QED BY <1>0, <1>10, <2>1, EmptyIsSafe
<1>13. CASE UNCHANGED vars
  BY <1>0, <1>13, <1>a DEF vars, storeVars, fileVars, TorrentSafe
<1> QED
  BY <1>1, <1>2, <1>3, <1>4, <1>5, <1>7, <1>8, <1>9, <1>11, <1>12, <1>13 DEF Next

\* THEOREM: InfohashOfFile, for every torrent whose keys are in order, however deep, and
\* every hash function: after any saves, crashes and restarts the infohash is that of
\* the info dictionary that the original file has.
THEOREM InfohashIsOfFile == Spec => []InfohashOfFile
<1>1. Init => InfohashInv
  BY EmptyIsSafe DEF Init, StoreInit, InfohashInv, Loaded
<1>2. ResumeInv /\ InfohashInv /\ [Next]_vars => InfohashInv'
  BY InfohashInvStep
<1>3. InfohashInv => InfohashOfFile
  BY DEF InfohashInv, InfohashOfFile, TorrentSafe
<1> QED BY <1>1, <1>2, <1>3, ClientIsSound, PTL DEF Spec

\* One call below others.
On(top, above) == <<top>> \o above

LEMMA OnAppend ==
  ASSUME NEW top, NEW X, NEW above \in Seq(X), NEW more
  PROVE  Append(On(top, above), more) = On(top, Append(above, more))
<1>1. PICK Z : X \subseteq Z /\ more \in Z /\ top \in Z
  <2>1. X \subseteq X \cup {more, top} /\ more \in X \cup {more, top} /\ top \in X \cup {more, top}
    OBVIOUS
  <2> QED BY <2>1
<1>2. PICK u \in Seq(Z), b \in Seq(Z), v \in Seq(Z) : u = <<top>> /\ b = above /\ v = <<more>>
  <2>1. <<top>> \in Seq(Z) /\ above \in Seq(Z) /\ <<more>> \in Seq(Z)
    BY <1>1, SeqMonotonic
  <2> QED BY <2>1
<1>3. Append(u \o b, more) = (u \o b) \o v /\ Append(b, more) = b \o v
  BY <1>1, <1>2, AppendIsConcat, ConcatProperties
<1>4. (u \o b) \o v = u \o (b \o v)
  BY ONLY u \in Seq(Z), b \in Seq(Z), v \in Seq(Z), ConcatAssociative
<1> QED BY <1>2, <1>3, <1>4 DEF On

LEMMA OnProperties ==
  ASSUME NEW top, NEW X, NEW above \in Seq(X)
  PROVE  /\ On(top, above) # <<>> /\ Len(On(top, above)) = Len(above) + 1
         /\ \E Y : On(top, above) \in Seq(Y)
         /\ above # <<>> =>
              /\ Last(On(top, above)) = Last(above)
              /\ Front(On(top, above)) = On(top, Front(above))
<1>1. PICK Y : X \subseteq Y /\ top \in Y
  <2>1. X \subseteq X \cup {top} /\ top \in X \cup {top}
    OBVIOUS
  <2> QED BY <2>1
<1>2. PICK a \in Seq(Y) : a = above
  BY <1>1, SeqMonotonic
<1>3. PICK n \in Nat : n = Len(a)
  OBVIOUS
<1>4. PICK g \in Seq(Y) : g = On(top, above) /\ Len(g) = n + 1
  <2>1. <<top>> \o a \in Seq(Y) /\ Len(<<top>> \o a) = n + 1
    BY <1>1, <1>3
  <2> QED BY <1>2, <2>1 DEF On
<1>5. g # <<>>
  BY <1>4
<1>7. ASSUME above # <<>>
      PROVE  Last(On(top, above)) = Last(above) /\ Front(On(top, above)) = On(top, Front(above))
  <2>1. n >= 1 /\ n - 1 \in Nat
    <3>1. n # 0
      BY <1>2, <1>3, <1>7
    <3> QED BY <3>1
  <2>2. Last(On(top, above)) = Last(above)
    <3>1. g[n + 1] = a[n]
      BY <1>1, <1>2, <1>3, <1>4, <2>1 DEF On
    <3> QED BY <1>2, <1>3, <1>4, <3>1 DEF Last
  <2>3. Front(g) = SubSeq(g, 1, n) /\ Front(a) = SubSeq(a, 1, n - 1)
    BY <1>2, <1>3, <1>4, <1>7, <2>1 DEF Front
  <2>4. /\ SubSeq(g, 1, n) \in Seq(Y) /\ Len(SubSeq(g, 1, n)) = n
        /\ \A k \in 1 .. n : SubSeq(g, 1, n)[k] = g[k]
    BY <1>4, <2>1
  <2>5. /\ SubSeq(a, 1, n - 1) \in Seq(Y) /\ Len(SubSeq(a, 1, n - 1)) = n - 1
        /\ \A k \in 1 .. n - 1 : SubSeq(a, 1, n - 1)[k] = a[k]
    BY <1>3, <2>1
  <2>6. PICK b \in Seq(Y) : b = Front(a) /\ Len(b) = n - 1 /\ \A k \in 1 .. n - 1 : b[k] = a[k]
    BY <2>3, <2>5
  <2>7. /\ <<top>> \o b \in Seq(Y) /\ Len(<<top>> \o b) = n
        /\ \A k \in 1 .. n : (<<top>> \o b)[k] = IF k = 1 THEN top ELSE b[k - 1]
    BY <1>1, <2>1, <2>6
  <2>8. \A k \in 1 .. n : g[k] = IF k = 1 THEN top ELSE a[k - 1]
    BY <1>1, <1>2, <1>3, <1>4 DEF On
  <2>9. \A k \in 1 .. n : Front(g)[k] = (<<top>> \o b)[k]
    BY <2>1, <2>3, <2>4, <2>6, <2>7, <2>8
  <2>10. Front(g) = <<top>> \o b
    BY <2>3, <2>4, <2>7, <2>9, SeqEqual
  <2> QED BY <1>2, <1>4, <2>2, <2>6, <2>10 DEF On
<1> QED BY <1>4, <1>5, <1>2, <1>3, <1>7

LEMMA GoesOnOn ==
  ASSUME NEW X, NEW above \in Seq(X), above # <<>>, NEW made
  PROVE  \E Y : \E more \in Seq(Y) : /\ Len(more) = Len(above)
                                     /\ \A top : GoesOn(On(top, above), made) = Reading(On(top, more))
<1>1. Len(above) \in Nat \ {0} /\ Front(above) \in Seq(X) /\ Len(Front(above)) = Len(above) - 1
  BY FrontProperties
<1>2. PICK Y : X \subseteq Y /\ made \in Y
  <2>1. X \subseteq X \cup {made} /\ made \in X \cup {made}
    OBVIOUS
  <2> QED BY <2>1
<1>3. PICK b \in Seq(Y) : b = Front(above)
  BY <1>1, <1>2, SeqMonotonic
<1>4. PICK more \in Seq(Y) : more = Append(b, made) /\ Len(more) = Len(b) + 1
  BY <1>2, AppendProperties
<1>5. Len(more) = Len(above)
  BY <1>1, <1>3, <1>4
<1>6. ASSUME NEW top PROVE GoesOn(On(top, above), made) = Reading(On(top, more))
  <2>1. Front(On(top, above)) = On(top, b)
    BY <1>3, OnProperties
  <2>2. Append(On(top, b), made) = On(top, more)
    BY <1>4, OnAppend
  <2> QED BY <2>1, <2>2 DEF GoesOn
<1> QED BY <1>5, <1>6

LEMMA PlacedOn ==
  ASSUME NEW X, NEW above \in Seq(X), above # <<>>, NEW node
  PROVE  \E Y : \E more \in Seq(Y) : /\ Len(more) = Len(above)
                                     /\ \A top : Placed(On(top, above), node) = Reading(On(top, more))
<1>1. PICK made : \A top : Placed(On(top, above), node) = GoesOn(On(top, above), made)
  <2>1. \A top : On(top, above) # <<>> /\ Last(On(top, above)) = Last(above)
    BY OnProperties
  <2> DEFINE made == Last(above)
  <2>2. CASE made.node.type = "list"
    <3>1. \A top : Placed(On(top, above), node)
                     = GoesOn(On(top, above), Call(List(Append(made.node.value, node)), NoKey))
      BY <2>1, <2>2 DEF Placed
    <3> QED BY <3>1
  <2>3. CASE made.node.type # "list"
    <3>1. \A top : Placed(On(top, above), node)
                     = GoesOn(On(top, above),
                              Call(Dict(hashmap_insert(made.node.value, Head(made.key), node)), NoKey))
      BY <2>1, <2>3 DEF Placed
    <3> QED BY <3>1
  <2> QED BY <2>2, <2>3
<1> QED BY <1>1, GoesOnOn

\* What the decoder makes of a token inside a call does not depend on the call below.
LEMMA TakeOn ==
  ASSUME NEW K, NEW token \in Texts(K), NEW X, NEW above \in Seq(X), above # <<>>,
         NEW m \in Nat, m = Len(above) + Weight(token), m # 0
  PROVE  \/ \A top : Take(Reading(On(top, above)), token) = Null
         \/ \E Y : \E more \in Seq(Y) :
              Len(more) = m /\ \A top : Take(Reading(On(top, above)), token) = Reading(On(top, more))
<1>0. token.t \in {"d", "l", "e", "i", "s"}
  BY DEF Texts, Brackets
<1>1. \A top : /\ On(top, above) # <<>> /\ Last(On(top, above)) = Last(above)
               /\ Front(On(top, above)) = On(top, Front(above))
               /\ Len(On(top, above)) = Len(above) + 1
  BY OnProperties
<1>2. CASE token.t = "e"
  <2>1. \A top : Take(Reading(On(top, above)), token)
                   = Placed(On(top, Front(above)), WithBlank(Last(above)))
    BY <1>1, <1>2, TakesReading DEF Ends
  <2>2. PICK f \in Seq(X) : f = Front(above) /\ Len(f) = m /\ f # <<>>
    <3>1. /\ Len(above) \in Nat \ {0} /\ Front(above) \in Seq(X)
          /\ Len(Front(above)) = Len(above) - 1
      BY FrontProperties
    <3>2. Weight(token) = -1
      BY <1>2 DEF Weight
    <3>3. Len(Front(above)) = m
      BY <3>1, <3>2
    <3> QED BY <3>1, <3>3, LongIsNotEmpty
  <2> QED BY <2>1, <2>2, PlacedOn
<1>3. CASE token.t # "e" /\ Last(above).node.type = "dict" /\ Last(above).key = NoKey
  <2>1. \A top : Take(Reading(On(top, above)), token) = handle_key(On(top, above), token)
    BY <1>1, <1>3, TakesReading DEF Ends, AwaitsKey
  <2>2. CASE token.t # "s" \/ ~ HasRoom(Last(above).node.value, token.value)
    <3>1. \A top : handle_key(On(top, above), token) = Null
      BY <1>1, <2>2 DEF handle_key
    <3> QED BY <2>1, <3>1
  <2>3. CASE token.t = "s" /\ HasRoom(Last(above).node.value, token.value)
    <3>1. PICK made : \A top : handle_key(On(top, above), token) = GoesOn(On(top, above), made)
      BY <1>1, <2>3 DEF handle_key
    <3>2. m = Len(above)
      BY <2>3 DEF Weight
    <3> QED BY <2>1, <3>1, <3>2, GoesOnOn
  <2> QED BY <2>2, <2>3
<1>4. CASE token.t # "e" /\ ~ (Last(above).node.type = "dict" /\ Last(above).key = NoKey)
  <2>1. \A top : Take(Reading(On(top, above)), token) = decode_helper(On(top, above), token)
    BY <1>1, <1>4, TakesReading DEF Ends, AwaitsKey
  <2>2. CASE Len(above) + 2 > MAX_RECURSION
    <3>1. \A top : Len(On(top, above)) + 1 > MAX_RECURSION
      BY <1>1, <2>2
    <3>2. \A top : decode_helper(On(top, above), token) = Null
      BY <3>1 DEF decode_helper
    <3> QED BY <2>1, <3>2
  <2>3. CASE ~ (Len(above) + 2 > MAX_RECURSION) /\ token.t \in {"d", "l"}
    <3>1. \A top : ~ (Len(On(top, above)) + 1 > MAX_RECURSION)
      BY <1>1, <2>3
    <3>2. PICK made : \A top : decode_helper(On(top, above), token)
                                 = Reading(Append(On(top, above), made))
      BY <2>3, <3>1 DEF decode_helper
    <3>3. PICK Y : above \in Seq(Y) /\ made \in Y
      <4>1. X \subseteq X \cup {made} /\ made \in X \cup {made}
        OBVIOUS
      <4> QED BY <4>1, SeqMonotonic
    <3>4. PICK more \in Seq(Y) : more = Append(above, made) /\ Len(more) = Len(above) + 1
      BY <3>3, AppendProperties
    <3>5. Len(more) = m
      BY <2>3, <3>4 DEF Weight
    <3>6. \A top : Append(On(top, above), made) = On(top, more)
      BY <3>4, OnAppend
    <3> QED BY <2>1, <3>2, <3>5, <3>6
  <2>4. CASE ~ (Len(above) + 2 > MAX_RECURSION) /\ token.t \in {"i", "s"}
    <3>1. \A top : ~ (Len(On(top, above)) + 1 > MAX_RECURSION)
      BY <1>1, <2>4
    <3>2. PICK node : \A top : decode_helper(On(top, above), token) = Placed(On(top, above), node)
      BY <2>4, <3>1 DEF decode_helper
    <3>3. m = Len(above)
      BY <2>4 DEF Weight
    <3> QED BY <2>1, <3>2, <3>3, PlacedOn
  <2> QED BY <1>0, <1>4, <2>2, <2>3, <2>4
<1> QED BY <1>2, <1>3, <1>4

\* So it is of tokens that stay inside that call.
Inside(tokens, above, n) ==
  \/ \A top : Reads(Reading(On(top, above)), tokens, Null)
  \/ \E Y : \E more \in Seq(Y) :
       Len(more) = n /\ \A top : Reads(Reading(On(top, above)), tokens, Reading(On(top, more)))

LEMMA InsideNothing ==
  ASSUME NEW X, NEW above \in Seq(X), NEW n, Len(above) = n
  PROVE  Inside(<<>>, above, n)
BY ReadsNothing DEF Inside

LEMMA InsideMore ==
  ASSUME NEW K, NEW s \in Seq(Texts(K)), NEW x \in Texts(K), NEW above,
         NEW n \in Nat, n # 0, Inside(s, above, n), NEW m \in Nat, m = n + Weight(x), m # 0
  PROVE  Inside(Append(s, x), above, m)
<1>1. PICK v \in Seq(Texts(K)) : v = <<x>>
  <2>1. <<x>> \in Seq(Texts(K))
    OBVIOUS
  <2> QED BY <2>1
<1>2. Append(s, x) = s \o v
  BY <1>1, AppendIsConcat
<1>3. CASE \A top : Reads(Reading(On(top, above)), s, Null)
  <2>1. \A top : Reads(Reading(On(top, above)), s \o v, Null)
    BY <1>3, ReadsNull
  <2> QED BY <1>2, <2>1 DEF Inside
<1>4. CASE \E Y : \E more \in Seq(Y) :
             Len(more) = n /\ \A top : Reads(Reading(On(top, above)), s, Reading(On(top, more)))
  <2>1. PICK Y : \E more \in Seq(Y) :
               Len(more) = n /\ \A top : Reads(Reading(On(top, above)), s, Reading(On(top, more)))
    BY <1>4
  <2>2. PICK more \in Seq(Y) :
               Len(more) = n /\ \A top : Reads(Reading(On(top, above)), s, Reading(On(top, more)))
    BY <2>1
  <2>3. more # <<>>
    BY <2>2, LongIsNotEmpty
  <2>4. \A top : Reads(Reading(On(top, above)), s \o v, Take(Reading(On(top, more)), x))
    <3> SUFFICES ASSUME NEW top
                 PROVE Reads(Reading(On(top, above)), s \o v, Take(Reading(On(top, more)), x))
      OBVIOUS
    <3>1. Reads(Reading(On(top, more)), v, Take(Reading(On(top, more)), x))
      BY <1>1, ReadsOne
    <3> QED BY <2>2, <3>1, ReadsConcat
  <2>5. CASE \A top : Take(Reading(On(top, more)), x) = Null
    <3>1. \A top : Reads(Reading(On(top, above)), s \o v, Null)
      BY <2>4, <2>5
    <3> QED BY <1>2, <3>1 DEF Inside
  <2>6. CASE \E Z : \E next \in Seq(Z) :
               Len(next) = m /\ \A top : Take(Reading(On(top, more)), x) = Reading(On(top, next))
    <3>1. PICK Z : \E next \in Seq(Z) :
                 Len(next) = m /\ \A top : Take(Reading(On(top, more)), x) = Reading(On(top, next))
      BY <2>6
    <3>2. PICK next \in Seq(Z) :
                 Len(next) = m /\ \A top : Take(Reading(On(top, more)), x) = Reading(On(top, next))
      BY <3>1
    <3>3. \A top : Reads(Reading(On(top, above)), s \o v, Reading(On(top, next)))
      BY <2>4, <3>2
    <3> QED BY <1>2, <3>2, <3>3 DEF Inside
  <2> QED BY <2>2, <2>3, <2>5, <2>6, TakeOn
<1> QED BY <1>3, <1>4 DEF Inside

LEMMA InsideAll ==
  ASSUME NEW K, NEW inside \in Seq(Texts(K)), Rises(inside, 0, 0, 0),
         NEW X, NEW above \in Seq(X), Len(above) = 1
  PROVE  Inside(inside, above, 1)
<1>1. PICK n \in Nat : n = Len(inside)
  OBVIOUS
<1>2. PICK g : Climbs(inside, g) /\ g[0] = 0 /\ g[n] = 0 /\ \A k \in 0 .. n : g[k] >= 0
  BY <1>1 DEF Rises
<1> DEFINE ReadTo(i) == Inside(Upto(inside, i), above, g[i] + 1)
           T == {i \in 0 .. n : ~ ReadTo(i)}
<1> SUFFICES ASSUME T # {} PROVE FALSE
  <2>1. n \in 0 .. n
    OBVIOUS
  <2>2. ReadTo(n)
    BY <2>1
  <2>3. Upto(inside, n) = inside
    BY <1>1, UptoProperties
  <2>4. g[n] + 1 = 1
    BY <1>2
  <2> QED BY <2>2, <2>3, <2>4
<1>3. PICK i \in T : \A y \in T : i <= y
  <2>1. T \subseteq Nat
    OBVIOUS
  <2> HIDE DEF T
  <2> QED BY <2>1, LeastNumber
<1>4. i \in 0 .. n /\ ~ ReadTo(i)
  OBVIOUS
<1>5. CASE i = 0
  <2>1. Upto(inside, i) = <<>>
    <3>1. PICK w \in Seq(Texts(K)) : w = Upto(inside, i)
      BY <1>1, <1>4, UptoProperties
    <3>2. DOMAIN w = {}
      BY <1>5, <3>1 DEF Upto
    <3> QED BY <3>1, <3>2
  <2>2. Len(above) = g[i] + 1
    BY <1>2, <1>5
  <2> QED BY <1>4, <2>1, <2>2, InsideNothing
<1>6. CASE i # 0
  <2>1. PICK l \in Nat : i = l + 1 /\ l \in 0 .. n /\ l # n
    <3>1. i - 1 \in Nat /\ i = (i - 1) + 1 /\ i - 1 \in 0 .. n /\ i - 1 # n
      BY <1>4, <1>6
    <3> QED BY <3>1
  <2>2. l \notin T
    <3>1. ~ (i <= l)
      BY <2>1
    <3> HIDE DEF T
    <3> QED BY <1>3, <3>1, Zenon
  <2>3. Inside(Upto(inside, l), above, g[l] + 1)
    BY <2>1, <2>2
  <2>4. PICK x \in Texts(K) : x = inside[i]
    BY <1>1, <1>4, <2>1
  <2>5. PICK w \in Seq(Texts(K)) : w = Upto(inside, l) /\ Upto(inside, i) = Append(w, x)
    <3>1. /\ Upto(inside, l) \in Seq(Texts(K))
          /\ Upto(inside, l + 1) = Append(Upto(inside, l), inside[l + 1])
      BY <1>1, <2>1, UptoProperties, ZenonT(30)
    <3> QED BY <2>1, <2>4, <3>1
  <2>6. PICK p \in Nat, m \in Nat : /\ p = g[l] + 1 /\ m = g[i] + 1
                                    /\ m = p + Weight(x) /\ p # 0 /\ m # 0
    <3>1. i \in 1 .. n /\ l = i - 1
      BY <1>4, <2>1
    <3>2. g[i] = g[l] + Weight(inside[i]) /\ g[l] \in Int /\ g[i] \in Int
      BY <1>1, <1>2, <1>4, <2>1, <3>1 DEF Climbs
    <3>3. Weight(x) \in Int
      BY DEF Weight
    <3>4. g[l] >= 0 /\ g[i] >= 0
      BY <1>2, <1>4, <2>1
    <3>5. g[l] + 1 \in Nat /\ g[i] + 1 \in Nat /\ g[i] + 1 = (g[l] + 1) + Weight(x)
          /\ g[l] + 1 # 0 /\ g[i] + 1 # 0
      BY <2>4, <3>2, <3>3, <3>4, SMTT(30)
    <3> QED BY <3>5
  <2>7. Inside(Append(w, x), above, m)
    BY <2>3, <2>5, <2>6, InsideMore
  <2> QED BY <1>4, <2>5, <2>6, <2>7
<1> QED BY <1>5, <1>6

\* A list or dictionary is refused in any call, or read as one and the same node.
Refused(calls, part) ==
  \A top : ~ AwaitsKey(Append(calls, top)) => Reads(Reading(Append(calls, top)), part, Null)
ReadAlike(calls, part, v) ==
  \A top : ~ AwaitsKey(Append(calls, top)) =>
    Reads(Reading(Append(calls, top)), part, Placed(Append(calls, top), v))

LEMMA OnNothing ==
  ASSUME NEW top
  PROVE  On(top, <<>>) = Append(<<>>, top) /\ Len(Append(<<>>, top)) = 1
<1>1. PICK X : top \in X
  <2>1. top \in {top}
    OBVIOUS
  <2> QED BY <2>1
<1>2. PICK none \in Seq(X) : none = <<>>
  <2>1. <<>> \in Seq(X)
    OBVIOUS
  <2> QED BY <2>1
<1>3. <<top>> \o none = <<top>> /\ Append(none, top) = <<top>> /\ Len(<<top>>) = 1
  BY <1>1, <1>2, ConcatProperties, SMTT(30)
<1> QED BY <1>2, <1>3 DEF On

LEMMA NestedAlike ==
  ASSUME NEW K, NEW part, Nested(part, K)
  PROVE  Refused(<<>>, part) \/ \E v : ReadAlike(<<>>, part, v)
<1>1. PICK open \in {"d", "l"} : \E inside \in Seq(Texts(K)) :
              part = InBrackets(open, inside) /\ Rises(inside, 0, 0, 0)
  BY DEF Nested
<1>2. PICK inside \in Seq(Texts(K)) : part = InBrackets(open, inside) /\ Rises(inside, 0, 0, 0)
  BY <1>1
<1>3. PICK o \in Texts(K), x \in Texts(K) : o = Token(open) /\ x = Token("e")
  BY DEF Texts, Brackets, Token
<1>4. PICK u \in Seq(Texts(K)), v \in Seq(Texts(K)) : u = <<o>> /\ v = <<x>>
  <2>1. <<o>> \in Seq(Texts(K)) /\ <<x>> \in Seq(Texts(K))
    OBVIOUS
  <2> QED BY <2>1
<1>5. part = (u \o inside) \o v /\ u \o inside \in Seq(Texts(K)) /\ part = u \o (inside \o v)
      /\ inside \o v \in Seq(Texts(K))
  <2>1. part = (u \o inside) \o v
    BY <1>2, <1>3, <1>4 DEF InBrackets
  <2>2. (u \o inside) \o v = u \o (inside \o v) /\ u \o inside \in Seq(Texts(K))
        /\ inside \o v \in Seq(Texts(K))
    BY ONLY u \in Seq(Texts(K)), v \in Seq(Texts(K)), inside \in Seq(Texts(K)),
            ConcatAssociative, ConcatProperties
  <2> QED BY <2>1, <2>2
<1> DEFINE below(top) == Append(<<>>, top)
<1>6. \A top : below(top) = On(top, <<>>) /\ Len(below(top)) = 1 /\ \E X : below(top) \in Seq(X)
  <2> SUFFICES ASSUME NEW top
               PROVE  below(top) = On(top, <<>>) /\ Len(below(top)) = 1 /\ \E X : below(top) \in Seq(X)
    OBVIOUS
  <2>1. <<>> \in Seq({})
    BY NoCallsType
  <2>2. \E X : On(top, <<>>) \in Seq(X)
    BY <2>1, OnProperties
  <2> QED BY <2>2, OnNothing
<1>7. \A top : Reads(Reading(below(top)), u, Take(Reading(below(top)), o))
  BY <1>4, ReadsOne
<1>8. CASE 2 > MAX_RECURSION
  <2>1. ASSUME NEW top, ~ AwaitsKey(below(top)) PROVE Reads(Reading(below(top)), part, Null)
    <3>1. Take(Reading(below(top)), o) = Null
      <4>1. PICK X : below(top) \in Seq(X)
        BY <1>6
      <4>2. Len(below(top)) + 1 > MAX_RECURSION /\ o.t # "e"
        BY <1>3, <1>6, <1>8 DEF Token
      <4> HIDE DEF below
      <4> QED BY <2>1, <4>1, <4>2, TakesOpen
    <3>2. Reads(Reading(below(top)), u, Null)
      BY <1>7, <3>1
    <3> QED BY <1>5, <3>2, ReadsNull
  <2> QED BY <2>1 DEF Refused
<1>9. CASE ~ (2 > MAX_RECURSION)
  <2>1. PICK made : \A top : ~ AwaitsKey(below(top)) =>
                      Take(Reading(below(top)), o) = Reading(Append(below(top), made))
    <3>1. PICK made : made = IF open = "d" THEN Call(Dict(hashmap_init(DICT_SIZE)), NoKey)
                                           ELSE Call(List(<<>>), NoKey)
      OBVIOUS
    <3>2. ASSUME NEW top, ~ AwaitsKey(below(top))
          PROVE  Take(Reading(below(top)), o) = Reading(Append(below(top), made))
      <4>1. PICK X : below(top) \in Seq(X)
        BY <1>6
      <4>2. ~ (Len(below(top)) + 1 > MAX_RECURSION)
        BY <1>6, <1>9
      <4> HIDE DEF below
      <4>3. CASE open = "d"
        BY <1>3, <3>1, <3>2, <4>1, <4>2, <4>3, TakesOpen
      <4>4. CASE open = "l"
        BY <1>3, <3>1, <3>2, <4>1, <4>2, <4>4, TakesOpen
      <4> QED BY <4>3, <4>4
    <3> QED BY <3>2
  <2>2. PICK above \in Seq({made}) : above = Append(<<>>, made) /\ Len(above) = 1
    <3>1. PICK none \in Seq({made}) : none = <<>>
      <4>1. <<>> \in Seq({made})
        OBVIOUS
      <4> QED BY <4>1
    <3>2. Append(none, made) \in Seq({made}) /\ Len(Append(none, made)) = 1
      BY <3>1, AppendProperties
    <3> QED BY <3>1, <3>2
  <2>3. \A top : Append(below(top), made) = On(top, above)
    <3> SUFFICES ASSUME NEW top PROVE Append(below(top), made) = On(top, above)
      OBVIOUS
    <3>1. PICK none \in Seq({}) : none = <<>>
      BY NoCallsType
    <3>2. Append(On(top, none), made) = On(top, Append(none, made))
      BY OnAppend
    <3> QED BY <1>6, <2>2, <3>1, <3>2
  <2>4. Inside(inside, above, 1)
    BY <1>2, <2>2, InsideAll
  <2>5. ASSUME NEW top, ~ AwaitsKey(below(top)), NEW e, Reads(Reading(On(top, above)), inside, e)
        PROVE  Reads(Reading(below(top)), part, Take(e, x))
    <3>1. Reads(Reading(below(top)), u, Reading(On(top, above)))
      BY <1>7, <2>1, <2>3, <2>5
    <3>2. Reads(Reading(below(top)), u \o inside, e)
      BY <2>5, <3>1, ReadsConcat
    <3>3. Reads(e, v, Take(e, x))
      BY <1>4, ReadsOne
    <3> QED BY <1>5, <3>2, <3>3, ReadsConcat
  <2>6. CASE \A top : Reads(Reading(On(top, above)), inside, Null)
    <3>1. Take(Null, x) = Null
      BY DEF Take, Null
    <3> QED BY <2>5, <2>6, <3>1 DEF Refused
  <2>7. CASE \E Y : \E more \in Seq(Y) :
               Len(more) = 1 /\ \A top : Reads(Reading(On(top, above)), inside, Reading(On(top, more)))
    <3>1. PICK Y : \E more \in Seq(Y) :
               Len(more) = 1 /\ \A top : Reads(Reading(On(top, above)), inside, Reading(On(top, more)))
      BY <2>7
    <3>2. PICK more \in Seq(Y) :
               Len(more) = 1 /\ \A top : Reads(Reading(On(top, above)), inside, Reading(On(top, more)))
      BY <3>1
    <3>3. more # <<>> /\ Front(more) = <<>>
      <4>1. more # <<>>
        <5>1. Len(more) # 0
          BY <3>2
        <5> QED BY <5>1, LongIsNotEmpty
      <4>2. Front(more) \in Seq(Y) /\ Len(Front(more)) = 0
        BY <3>2, <4>1, FrontProperties
      <4> QED BY <4>1, <4>2
    <3>4. \A top : Take(Reading(On(top, more)), x) = Placed(below(top), WithBlank(Last(more)))
      <4> SUFFICES ASSUME NEW top
                   PROVE  Take(Reading(On(top, more)), x) = Placed(below(top), WithBlank(Last(more)))
        OBVIOUS
      <4>1. /\ On(top, more) # <<>> /\ Last(On(top, more)) = Last(more)
            /\ Front(On(top, more)) = On(top, <<>>)
        <5>1. /\ On(top, more) # <<>> /\ Last(On(top, more)) = Last(more)
              /\ Front(On(top, more)) = On(top, Front(more))
          BY <3>3, OnProperties, ZenonT(30)
        <5> QED BY <3>3, <5>1
      <4>2. Ends(On(top, more), x)
        BY <1>3, <4>1 DEF Ends, Token
      <4> QED BY <1>6, <4>1, <4>2, TakesReading
    <3> QED BY <2>5, <3>2, <3>4 DEF ReadAlike
  <2> QED BY <2>4, <2>6, <2>7 DEF Inside
<1> QED BY <1>8, <1>9

-----------------------------------------------------------------------------
(***************************************************************************)
(* The items of sorted files have the same shape as what is written        *)
(***************************************************************************)

\* What strings and keys there are in them.
CutWords ==
  {Cutting[x].value : x \in DOMAIN Cutting}
    \cup UNION {{Cutting[x].keys[k] : k \in DOMAIN Cutting[x].parts} : x \in DOMAIN Cutting}

Level(part, K) == part \in Seq(Texts(K)) /\ Rises(part, 0, 0, 0)
Shaped(part, K) ==
  Level(part, K) /\ part # <<>> /\ (Simple(part, K) \/ Nested(part, K))

LEMMA NothingLevel ==
  ASSUME NEW K
  PROVE  Level(<<>>, K)
<1>1. PICK zero \in Int : zero = 0 /\ zero >= zero
  OBVIOUS
<1>2. Rises(<<>>, zero, zero, zero)
  BY <1>1, RisesEmpty
<1>3. <<>> \in Seq(Texts(K))
  OBVIOUS
<1> QED BY <1>1, <1>2, <1>3 DEF Level

LEMMA TokenShaped ==
  ASSUME NEW K, NEW x \in Texts(K), x.t \in {"i", "s"}
  PROVE  Shaped(<<x>>, K)
<1>1. <<x>> \in Seq(Texts(K)) /\ <<x>> # <<>>
  OBVIOUS
<1>2. PICK zero \in Int : zero = 0 /\ zero >= zero
  OBVIOUS
<1>3. zero = zero + Weight(x)
  BY <1>2 DEF Weight
<1>4. Rises(<<x>>, zero, zero, zero)
  BY <1>2, <1>3, OneLevel
<1>5. Simple(<<x>>, K)
  BY DEF Simple
<1> QED BY <1>1, <1>2, <1>4, <1>5 DEF Shaped, Level

LEMMA BracketShaped ==
  ASSUME NEW K, NEW inside, Level(inside, K), NEW open \in {"d", "l"}
  PROVE  Shaped(InBrackets(open, inside), K)
<1>1. PICK o \in Texts(K), e \in Texts(K) : o = Token(open) /\ e = Token("e")
  BY DEF Texts, Brackets, Token
<1>2. Weight(o) = 1 /\ Weight(e) = -1
  BY <1>1 DEF Weight, Token
<1>3. /\ <<o>> \o inside \o <<e>> \in Seq(Texts(K))
      /\ Rises(<<o>> \o inside \o <<e>>, 0, 0, 0)
  BY <1>1, <1>2, Bracketed DEF Level
<1>4. Nested(InBrackets(open, inside), K)
  BY DEF Nested, Level
<1>5. InBrackets(open, inside) # <<>>
  BY <1>4, NestedIsLong
<1> QED BY <1>1, <1>3, <1>4, <1>5 DEF Shaped, Level, InBrackets

LEMMA KeyLevel ==
  ASSUME NEW K, NEW key \in K, NEW part, Level(part, K)
  PROVE  Level(<<KeyToken(key)>> \o part, K)
<1>1. PICK x \in Texts(K) : x = KeyToken(key) /\ x.t = "s"
  <2>1. PICK one \in Nat : one = 1
    OBVIOUS
  <2>2. PICK x : x = StrToken(key, one)
    OBVIOUS
  <2>3. x \in Texts(K) /\ x.t = "s"
    BY <2>2 DEF Texts, StrToken
  <2> QED BY <2>1, <2>2, <2>3 DEF KeyToken
<1>2. PICK u \in Seq(Texts(K)) : u = <<x>> /\ Rises(u, 0, 0, 0)
  BY <1>1, TokenShaped DEF Shaped, Level
<1>3. PICK zero \in Int : zero = 0
  OBVIOUS
<1>4. Rises(u \o part, zero, zero, zero)
  <2>1. Rises(u, zero, zero, zero) /\ Rises(part, zero, zero, zero) /\ part \in Seq(Texts(K))
    BY <1>2, <1>3 DEF Level
  <2> QED BY <2>1, RisesConcat
<1>5. u \o part \in Seq(Texts(K))
  BY DEF Level
<1> QED BY <1>1, <1>2, <1>3, <1>4, <1>5 DEF Level

LEMMA WithKeysLevel ==
  ASSUME NEW K, NEW n \in Nat, NEW keys, NEW parts,
         \A k \in 1 .. n : keys[k] \in K /\ Level(parts[k], K)
  PROVE  Level(FlattenSeq(WithKeys(keys, parts, n)), K)
<1>1. PICK seqs : seqs = WithKeys(keys, parts, n)
  OBVIOUS
<1>2. \A k \in 1 .. n : Level(seqs[k], K)
  BY <1>1, KeyLevel DEF WithKeys
<1>3. seqs = [k \in 1 .. n |-> seqs[k]]
  BY <1>1 DEF WithKeys
<1>4. FlattenSeq(seqs) \in Seq(Texts(K)) /\ Rises(FlattenSeq(seqs), 0, 0, 0)
  BY <1>2, <1>3, FlattenLevel DEF Level
<1> QED BY <1>1, <1>4 DEF Level

LEMMA ItemShaped ==
  ASSUME NEW item \in DOMAIN Cutting
  PROVE  Shaped(item, CutWords)
<1> DEFINE T == {i \in Nat : \E x \in DOMAIN Cutting : Len(x) = i /\ ~ Shaped(x, CutWords)}
<1>0. \A x \in DOMAIN Cutting : Len(x) \in Nat
  BY CuttingType
<1> SUFFICES ASSUME T # {} PROVE FALSE
  BY <1>0
<1>1. PICK i \in T : \A y \in T : i <= y
  <2>1. T \subseteq Nat
    OBVIOUS
  <2> HIDE DEF T
  <2> QED BY <2>1, LeastNumber
<1>2. PICK x \in DOMAIN Cutting : Len(x) = i /\ ~ Shaped(x, CutWords)
  OBVIOUS
<1>3. ASSUME NEW y \in DOMAIN Cutting, Len(y) < i PROVE Shaped(y, CutWords)
  <2>1. Len(y) \in Nat /\ i \in Nat
    BY <1>0
  <2>2. Len(y) \notin T
    <3>1. ~ (i <= Len(y))
      BY <1>3, <2>1
    <3> HIDE DEF T
    <3> QED BY <1>1, <3>1, Zenon
  <2> QED BY <2>1, <2>2
<1>4. PICK how : how = Cutting[x]
  OBVIOUS
<1>5. IsCut(x, how, DOMAIN Cutting)
  BY <1>4, CuttingAssumption
<1>6. CASE how.type = "num"
  <2>1. x = <<NumToken(how.value)>> /\ how.value \in Int
    BY <1>5, <1>6 DEF IsCut
  <2>2. NumToken(how.value) \in Texts(CutWords) /\ NumToken(how.value).t = "i"
    BY <2>1 DEF Texts, NumToken
  <2> QED BY <1>2, <2>1, <2>2, TokenShaped
<1>7. CASE how.type = "str"
  <2>1. x = <<StrToken(how.value, how.len)>> /\ how.len \in Nat
    BY <1>5, <1>7 DEF IsCut
  <2>2. how.value \in CutWords
    BY <1>4 DEF CutWords
  <2>3. StrToken(how.value, how.len) \in Texts(CutWords) /\ StrToken(how.value, how.len).t = "s"
    BY <2>1, <2>2 DEF Texts, StrToken
  <2> QED BY <1>2, <2>1, <2>3, TokenShaped
<1>8. CASE how.type = "list"
  <2>1. how.parts \in Seq(DOMAIN Cutting) /\ x = InBrackets("l", FlattenSeq(how.parts))
    BY <1>5, <1>8 DEF IsCut, InBrackets
  <2>2. PICK Z : DOMAIN Cutting \subseteq Seq(Z)
    BY CuttingType
  <2>3. PICK parts \in Seq(Seq(Z)) : parts = how.parts
    BY <2>1, <2>2, SeqMonotonic
  <2>4. PICK n \in Nat : n = Len(parts)
    OBVIOUS
  <2>5. ASSUME NEW k \in 1 .. n PROVE Level(parts[k], CutWords)
    <3>1. parts[k] \in DOMAIN Cutting
      BY <2>1, <2>3, <2>4
    <3>2. Len(parts[k]) < i
      BY <1>2, <2>1, <2>3, <2>4, InsideIsShorter
    <3> QED BY <1>3, <3>1, <3>2 DEF Shaped
  <2>6. parts = [k \in 1 .. n |-> parts[k]]
    BY <2>4
  <2>7. Level(FlattenSeq(parts), CutWords)
    BY <2>5, <2>6, FlattenLevel DEF Level
  <2> QED BY <1>2, <2>1, <2>3, <2>7, BracketShaped
<1>9. CASE how.type = "dict"
  <2>1. PICK n \in Nat : /\ DictOf(x, how.keys, how.parts, n) /\ DOMAIN how.parts = 1 .. n
                         /\ \A k \in 1 .. n : Len(how.parts[k]) < Len(x)
    BY <1>4, <1>9, CutIsDict
  <2>2. ASSUME NEW k \in 1 .. n PROVE how.keys[k] \in CutWords /\ Level(how.parts[k], CutWords)
    <3>1. how.keys[k] \in CutWords
      BY <1>4, <2>1 DEF CutWords
    <3>2. CASE how.parts[k] = <<>>
      BY <3>1, <3>2, NothingLevel
    <3>3. CASE how.parts[k] # <<>>
      <4>1. how.parts[k] \in DOMAIN Cutting
        BY <2>1, <3>3 DEF DictOf
      <4>2. Shaped(how.parts[k], CutWords)
        BY <1>2, <1>3, <2>1, <4>1
      <4> QED BY <3>1, <4>2 DEF Shaped
    <3> QED BY <3>2, <3>3
  <2>3. Level(FlattenSeq(WithKeys(how.keys, how.parts, n)), CutWords)
    BY <2>2, WithKeysLevel
  <2>4. x = InBrackets("d", FlattenSeq(WithKeys(how.keys, how.parts, n)))
    BY <2>1 DEF DictOf
  <2> QED BY <1>2, <2>3, <2>4, BracketShaped
<1> QED BY <1>5, <1>6, <1>7, <1>8, <1>9 DEF IsCut

-----------------------------------------------------------------------------
(***************************************************************************)
(* A part of the root is refused, or read as a node that writes it         *)
(***************************************************************************)

LEMMA ReadsByAgree ==
  ASSUME NEW d, NEW tokens, NEW n \in Nat, NEW q, ReadsBy(d, tokens, q, n),
         NEW r, ReadsBy(d, tokens, r, n)
  PROVE  q[n] = r[n]
<1> DEFINE T == {i \in 0 .. n : q[i] # r[i]}
<1> SUFFICES ASSUME T # {} PROVE FALSE
  OBVIOUS
<1>1. PICK i \in T : \A y \in T : i <= y
  <2>1. T \subseteq Nat
    OBVIOUS
  <2> HIDE DEF T
  <2> QED BY <2>1, LeastNumber
<1>2. i \in 0 .. n /\ q[i] # r[i]
  OBVIOUS
<1>3. i # 0
  BY <1>2 DEF ReadsBy
<1>4. i - 1 \in 0 .. n /\ i \in 1 .. n /\ ~ (i <= i - 1)
  BY <1>2, <1>3
<1>5. i - 1 \notin T
  <2> HIDE DEF T
  <2> QED BY <1>1, <1>4, Zenon
<1>6. q[i - 1] = r[i - 1]
  BY <1>4, <1>5
<1> QED BY <1>2, <1>4, <1>6 DEF ReadsBy

LEMMA ReadsOnce ==
  ASSUME NEW X, NEW tokens \in Seq(X), NEW d, NEW e, Reads(d, tokens, e), NEW f, Reads(d, tokens, f)
  PROVE  e = f
<1>1. PICK n \in Nat : n = Len(tokens)
  OBVIOUS
<1>2. PICK q : ReadsBy(d, tokens, q, n) /\ e = q[n]
  BY <1>1 DEF Reads
<1>3. PICK r : ReadsBy(d, tokens, r, n) /\ f = r[n]
  BY <1>1 DEF Reads
<1> QED BY <1>2, <1>3, ReadsByAgree

\* A list as the one call that has not returned.
ListCall(elements) == Append(<<>>, Call(List(elements), NoKey))

LEMMA ListCallIs ==
  ASSUME NEW node
  PROVE  /\ ~ AwaitsKey(ListCall(<<>>)) /\ Len(ListCall(<<>>)) = 1
         /\ \E X : ListCall(<<>>) \in Seq(X)
         /\ Placed(ListCall(<<>>), node) = Reading(ListCall(Append(<<>>, node)))
<1>1. PICK none \in Seq({}) : none = <<>>
  BY NoCallsType
<1>2. PICK top : top = Call(List(<<>>), NoKey)
  OBVIOUS
<1>3. Append(none, top) # <<>> /\ Last(Append(none, top)) = top
  BY TopOfCalls
<1>4. ~ AwaitsKey(ListCall(<<>>))
  <2>1. top.node.type # "dict"
    BY <1>2 DEF Call, List
  <2> QED BY <1>1, <1>2, <1>3, <2>1 DEF AwaitsKey, ListCall
<1>5. \E X : ListCall(<<>>) \in Seq(X)
  <2>1. On(top, none) = Append(none, top)
    BY <1>1, OnNothing
  <2>2. \E Y : On(top, none) \in Seq(Y)
    BY OnProperties
  <2> QED BY <1>1, <1>2, <2>1, <2>2 DEF ListCall
<1>6. Len(ListCall(<<>>)) = 1
  BY OnNothing DEF ListCall
<1>7. Placed(ListCall(<<>>), node) = Reading(ListCall(Append(<<>>, node)))
  <2>1. Placed(Append(none, Call(List(<<>>), NoKey)), node)
          = Reading(Append(none, Call(List(Append(<<>>, node)), NoKey)))
    BY PlacedInList
  <2> QED BY <1>1, <2>1 DEF ListCall
<1> QED BY <1>4, <1>5, <1>6, <1>7

LEMMA OneIsOne ==
  ASSUME NEW a, NEW b, Append(<<>>, a) = Append(<<>>, b)
  PROVE  a = b
<1>1. Last(Append(<<>>, a)) = a /\ Last(Append(<<>>, b)) = b
  <2>1. <<>> \in Seq({})
    BY NoCallsType
  <2> QED BY <2>1, TopOfCalls
<1> QED BY <1>1

LEMMA PlacedOnce ==
  ASSUME NEW v, NEW w, Placed(ListCall(<<>>), v) = Placed(ListCall(<<>>), w)
  PROVE  v = w
<1>1. Reading(ListCall(Append(<<>>, v))) = Reading(ListCall(Append(<<>>, w)))
  BY ListCallIs
<1>2. Reading(ListCall(Append(<<>>, v))).calls = Reading(ListCall(Append(<<>>, w))).calls
  BY <1>1
<1>3. ListCall(Append(<<>>, v)) = ListCall(Append(<<>>, w))
  BY <1>2 DEF Reading
<1>4. Call(List(Append(<<>>, v)), NoKey) = Call(List(Append(<<>>, w)), NoKey)
  BY <1>3, OneIsOne DEF ListCall
<1>5. Call(List(Append(<<>>, v)), NoKey).node.value = Call(List(Append(<<>>, w)), NoKey).node.value
  BY <1>4
<1>6. Append(<<>>, v) = Append(<<>>, w)
  BY <1>5 DEF Call, List
<1> QED BY <1>6, OneIsOne

LEMMA PlacedNotNull ==
  ASSUME NEW v
  PROVE  Placed(ListCall(<<>>), v) # Null
<1>1. Placed(ListCall(<<>>), v) = Reading(ListCall(Append(<<>>, v)))
  BY ListCallIs
<1>2. Placed(ListCall(<<>>), v).status # Null.status
  BY <1>1 DEF Reading, Null
<1> QED BY <1>2

\* In the root, part is read as the node v, which writes it.
Good(part, v) ==
  part # <<>> /\ ReadAlike(<<>>, part, v) /\ Writes(v, MAX_RECURSION - 1, part)

LEMMA TokenGood ==
  ASSUME NEW x, NEW v,
         \/ x = NumToken(v.value) /\ v = Num(v.value)
         \/ x = StrToken(v.value, v.len) /\ v = Str(v.value, v.len),
         MAX_RECURSION >= 2
  PROVE  Good(<<x>>, v)
<1>1. <<x>> # <<>> /\ x.t # "node"
  <2>1. x.t # "node"
    BY DEF NumToken, StrToken
  <2> QED BY <2>1
<1>2. MAX_RECURSION - 1 \in Nat /\ MAX_RECURSION - 1 >= 1
  BY BencodingAssumption
<1>3. \A start \in Int : encode_helper(v, start) = <<x>>
  BY DEF encode_helper, Num, Str
<1>4. Writes(v, MAX_RECURSION - 1, <<x>>)
  BY <1>1, <1>2, <1>3, WritesToken
<1>5. ASSUME NEW top, ~ AwaitsKey(Append(<<>>, top))
      PROVE  Reads(Reading(Append(<<>>, top)), <<x>>, Placed(Append(<<>>, top), v))
  <2>1. PICK calls, X : calls = Append(<<>>, top) /\ calls \in Seq(X) /\ Len(calls) = 1
    <3>1. <<>> \in Seq({})
      BY NoCallsType
    <3>2. \E X : On(top, <<>>) \in Seq(X)
      BY <3>1, OnProperties
    <3> QED BY <3>2, OnNothing
  <2>2. ~ (Len(calls) + 1 > MAX_RECURSION) /\ ~ AwaitsKey(calls)
    BY <1>5, <2>1, BencodingAssumption
  <2>3. /\ \A n : Take(Reading(calls), NumToken(n)) = Placed(calls, Num(n))
        /\ \A w, n : Take(Reading(calls), StrToken(w, n)) = Placed(calls, Str(w, n))
    BY <2>1, <2>2, TakesOpen
  <2>4. Take(Reading(calls), x) = Placed(calls, v)
    BY <2>3
  <2> QED BY <2>1, <2>4, ReadsOne
<1> QED BY <1>1, <1>4, <1>5 DEF Good, ReadAlike

LEMMA TokenRefused ==
  ASSUME NEW x, x.t # "e", ~ (MAX_RECURSION >= 2)
  PROVE  Refused(<<>>, <<x>>)
<1> SUFFICES ASSUME NEW top, ~ AwaitsKey(Append(<<>>, top))
             PROVE  Reads(Reading(Append(<<>>, top)), <<x>>, Null)
  BY DEF Refused
<1>1. PICK calls, X : calls = Append(<<>>, top) /\ calls \in Seq(X) /\ Len(calls) = 1
  <2>1. <<>> \in Seq({})
    BY NoCallsType
  <2>2. \E X : On(top, <<>>) \in Seq(X)
    BY <2>1, OnProperties
  <2> QED BY <2>2, OnNothing
<1>2. Len(calls) + 1 > MAX_RECURSION /\ ~ AwaitsKey(calls)
  BY <1>1, BencodingAssumption
<1>3. Take(Reading(calls), x) = Null
  BY <1>1, <1>2, TakesOpen
<1> QED BY <1>1, <1>3, ReadsOne

LEMMA NestedGood ==
  ASSUME NEW K, NEW part, part \in Seq(Texts(K)), Nested(part, K), Decodable(part)
  PROVE  Refused(<<>>, part) \/ \E v : Good(part, v)
<1>1. CASE Refused(<<>>, part)
  BY <1>1
<1>2. ASSUME NEW v, ReadAlike(<<>>, part, v) PROVE Refused(<<>>, part) \/ \E w : Good(part, w)
  <2>1. PICK calls, X : calls = ListCall(<<>>) /\ calls \in Seq(X) /\ Len(calls) = 1
                        /\ ~ AwaitsKey(calls)
    BY ListCallIs
  <2>2. Reads(Reading(calls), part, Placed(calls, v))
    BY <1>2, <2>1 DEF ReadAlike, ListCall
  <2>3. ReadAs(calls, part)
    BY <2>1 DEF Decodable
  <2>4. Placed(calls, v) # Null
    BY <2>1, PlacedNotNull
  <2>5. ~ Reads(Reading(calls), part, Null)
    BY <2>2, <2>4, ReadsOnce
  <2>6. PICK node : /\ Writes(node, MAX_RECURSION - Len(calls), part)
                    /\ Reads(Reading(calls), part, Placed(calls, node))
    BY <2>3, <2>5 DEF ReadAs
  <2>7. Placed(calls, v) = Placed(calls, node)
    BY <2>2, <2>6, ReadsOnce
  <2>8. v = node
    BY <2>1, <2>7, PlacedOnce
  <2>9. part # <<>>
    BY NestedIsLong
  <2> QED BY <1>2, <2>1, <2>6, <2>8, <2>9 DEF Good
<1> QED BY <1>1, <1>2, NestedAlike

LEMMA ItemGood ==
  ASSUME NEW item \in DOMAIN Cutting
  PROVE  Refused(<<>>, item) \/ \E v : Good(item, v)
<1>1. Shaped(item, CutWords)
  BY ItemShaped
<1>2. CASE Nested(item, CutWords)
  BY <1>1, <1>2, NestedGood, ItemsComeBack DEF Shaped, Level
<1>3. CASE Simple(item, CutWords)
  <2>1. PICK x \in Texts(CutWords) : item = <<x>> /\ x.t \in {"i", "s"}
    BY <1>1, <1>3 DEF Simple, Shaped
  <2>2. CASE ~ (MAX_RECURSION >= 2)
    BY <2>1, <2>2, TokenRefused
  <2>3. CASE MAX_RECURSION >= 2 /\ x.t = "i"
    <3>1. x = NumToken(Num(x.value).value) /\ Num(x.value) = Num(Num(x.value).value)
      BY <2>3 DEF Texts, Brackets, Num, NumToken
    <3>2. Good(<<x>>, Num(x.value))
      BY <2>3, <3>1, TokenGood
    <3> QED BY <2>1, <3>2
  <2>4. CASE MAX_RECURSION >= 2 /\ x.t = "s"
    <3>1. PICK v : v = Str(x.value, x.len)
      OBVIOUS
    <3>2. x = StrToken(v.value, v.len) /\ v = Str(v.value, v.len)
      BY <2>4, <3>1 DEF Texts, Brackets, Str, StrToken
    <3>3. Good(<<x>>, v)
      BY <2>4, <3>2, TokenGood
    <3> QED BY <2>1, <3>3
  <2> QED BY <2>1, <2>2, <2>3, <2>4
<1> QED BY <1>1, <1>2, <1>3 DEF Shaped

-----------------------------------------------------------------------------
(***************************************************************************)
(* A dictionary is what its entries make of an empty one                   *)
(***************************************************************************)

\* The maps after each of n entries.
Fills(f, keys, vals, n) ==
  /\ f[0] = hashmap_init(DICT_SIZE)
  /\ \A k \in 1 .. n : /\ HasRoom(f[k - 1], keys[k])
                       /\ f[k] = hashmap_insert(f[k - 1], keys[k], vals[k])

Filled(map, keys, vals, n) == \E f : Fills(f, keys, vals, n) /\ map = f[n]

LEMMA FilledNone ==
  ASSUME NEW keys, NEW vals
  PROVE  Filled(hashmap_init(DICT_SIZE), keys, vals, 0)
<1>1. PICK f : f = [k \in 0 .. 0 |-> hashmap_init(DICT_SIZE)]
  OBVIOUS
<1>2. f[0] = hashmap_init(DICT_SIZE) /\ 1 .. 0 = {}
  BY <1>1
<1> QED BY <1>2 DEF Filled, Fills

LEMMA FilledMore ==
  ASSUME NEW map, NEW keys, NEW vals, NEW n \in Nat, Filled(map, keys, vals, n),
         NEW k, k = n + 1, HasRoom(map, keys[k])
  PROVE  Filled(hashmap_insert(map, keys[k], vals[k]), keys, vals, k)
<1>1. PICK f : Fills(f, keys, vals, n) /\ map = f[n]
  BY DEF Filled
<1>2. PICK next : next = hashmap_insert(map, keys[k], vals[k])
  OBVIOUS
<1>3. PICK g : g = [j \in 0 .. k |-> IF j = k THEN next ELSE f[j]]
  OBVIOUS
<1>4. g[0] = f[0] /\ g[k] = next /\ \A j \in 0 .. n : g[j] = f[j]
  BY <1>3
<1>5. ASSUME NEW j \in 1 .. k
      PROVE  HasRoom(g[j - 1], keys[j]) /\ g[j] = hashmap_insert(g[j - 1], keys[j], vals[j])
  <2>1. CASE j = k
    <3>1. j - 1 = n /\ n \in 0 .. n
      BY <2>1
    <3> QED BY <1>1, <1>2, <1>4, <2>1, <3>1
  <2>2. CASE j # k
    <3>1. j \in 1 .. n /\ j - 1 \in 0 .. n /\ j \in 0 .. n
      BY <2>2
    <3> QED BY <1>1, <1>4, <3>1 DEF Fills
  <2> QED BY <2>1, <2>2
<1>6. Fills(g, keys, vals, k)
  BY <1>1, <1>4, <1>5 DEF Fills
<1> QED BY <1>2, <1>4, <1>6 DEF Filled

LEMMA FilledLess ==
  ASSUME NEW map, NEW keys, NEW vals, NEW n \in Nat, NEW k, k = n + 1, Filled(map, keys, vals, k)
  PROVE  \E less : /\ Filled(less, keys, vals, n) /\ HasRoom(less, keys[k])
                   /\ map = hashmap_insert(less, keys[k], vals[k])
<1>1. PICK f : Fills(f, keys, vals, k) /\ map = f[k]
  BY DEF Filled
<1>2. k \in 1 .. k /\ k - 1 = n /\ 1 .. n \subseteq 1 .. k
  OBVIOUS
<1>3. Fills(f, keys, vals, n)
  BY <1>1, <1>2 DEF Fills
<1>4. HasRoom(f[n], keys[k]) /\ f[k] = hashmap_insert(f[n], keys[k], vals[k])
  BY <1>1, <1>2 DEF Fills
<1> QED BY <1>1, <1>3, <1>4 DEF Filled

LEMMA FilledOnce ==
  ASSUME NEW keys, NEW vals, NEW n \in Nat, NEW map, Filled(map, keys, vals, n),
         NEW map2, Filled(map2, keys, vals, n)
  PROVE  map = map2
<1>1. PICK f : Fills(f, keys, vals, n) /\ map = f[n]
  BY DEF Filled
<1>2. PICK g : Fills(g, keys, vals, n) /\ map2 = g[n]
  BY DEF Filled
<1> DEFINE T == {i \in 0 .. n : f[i] # g[i]}
<1> SUFFICES ASSUME T # {} PROVE FALSE
  BY <1>1, <1>2
<1>3. PICK i \in T : \A y \in T : i <= y
  <2>1. T \subseteq Nat
    OBVIOUS
  <2> HIDE DEF T
  <2> QED BY <2>1, LeastNumber
<1>4. i \in 0 .. n /\ f[i] # g[i]
  OBVIOUS
<1>5. i # 0
  BY <1>1, <1>2, <1>4 DEF Fills
<1>6. i - 1 \in 0 .. n /\ i \in 1 .. n /\ ~ (i <= i - 1)
  BY <1>4, <1>5
<1>7. i - 1 \notin T
  <2> HIDE DEF T
  <2> QED BY <1>3, <1>6, Zenon
<1>8. f[i - 1] = g[i - 1]
  BY <1>6, <1>7
<1> QED BY <1>1, <1>2, <1>4, <1>6, <1>8 DEF Fills

\* Parts of a dictionary that are read as these values; only the last may be missing.
AllRead(calls, parts, vals, n) ==
  \A k \in 1 .. n : parts[k] # <<>> => ReadAlike(calls, parts[k], vals[k])

FillParts(calls, parts, vals, n) ==
  /\ \E Y : \A k \in 1 .. n : parts[k] \in Seq(Y)
  /\ \A k \in 1 .. n :
       IF parts[k] = <<>> THEN k = n /\ vals[k] = Blank
       ELSE Refused(calls, parts[k]) \/ ReadAlike(calls, parts[k], vals[k])

Stuck(calls, keys, parts, vals, n) ==
  ~ AllRead(calls, parts, vals, n) \/ \A map : ~ Filled(map, keys, vals, n)

FillUpTo(calls, keys, parts, vals, n, d) ==
  \/ d = Null /\ Stuck(calls, keys, parts, vals, n)
  \/ \E map : /\ Filled(map, keys, vals, n) /\ AllRead(calls, parts, vals, n)
              /\ d = Reading(Append(calls, Call(Dict(map), NoKey)))
  \/ \E map : /\ n # 0 /\ parts[n] = <<>> /\ vals[n] = Blank /\ HasRoom(map, keys[n])
              /\ Filled(map, keys, vals, n - 1) /\ AllRead(calls, parts, vals, n)
              /\ d = Reading(Append(calls, Call(Dict(map), <<keys[n]>>)))

LEMMA StuckMore ==
  ASSUME NEW calls, NEW keys, NEW parts, NEW vals, NEW n \in Nat, NEW k, k = n + 1,
         Stuck(calls, keys, parts, vals, n)
  PROVE  Stuck(calls, keys, parts, vals, k)
<1>1. AllRead(calls, parts, vals, k) => AllRead(calls, parts, vals, n)
  <2>1. 1 .. n \subseteq 1 .. k
    OBVIOUS
  <2> QED BY <2>1 DEF AllRead
<1>2. ASSUME NEW map, Filled(map, keys, vals, k) PROVE \E less : Filled(less, keys, vals, n)
  BY <1>2, FilledLess
<1> QED BY <1>1, <1>2 DEF Stuck

LEMMA FillEntry ==
  ASSUME NEW X, NEW calls \in Seq(X), NEW keys, NEW parts, NEW vals, NEW n \in Nat, NEW k, k = n + 1,
         NEW map, Filled(map, keys, vals, n), AllRead(calls, parts, vals, n),
         NEW Y, parts[k] \in Seq(Y),
         \/ parts[k] = <<>> /\ vals[k] = Blank
         \/ parts[k] # <<>> /\ (Refused(calls, parts[k]) \/ ReadAlike(calls, parts[k], vals[k]))
  PROVE  \E e : /\ Reads(Reading(Append(calls, Call(Dict(map), NoKey))),
                         <<KeyToken(keys[k])>> \o parts[k], e)
                /\ FillUpTo(calls, keys, parts, vals, k, e)
<1>1. PICK d : d = Reading(Append(calls, Call(Dict(map), NoKey)))
  OBVIOUS
<1>2. PICK x : x = KeyToken(keys[k])
  OBVIOUS
<1>3. <<x>> \in Seq({x}) /\ x.t = "s" /\ x.value = keys[k]
  <2>1. x.t = "s" /\ x.value = keys[k]
    BY <1>2 DEF KeyToken, StrToken
  <2> QED BY <2>1
<1>4. Reads(d, <<x>>, Take(d, x))
  BY ReadsOne
<1>5. CASE ~ HasRoom(map, keys[k])
  <2>1. Take(d, x) = Null
    BY <1>1, <1>3, <1>5, TakesKey
  <2>2. Reads(d, <<x>> \o parts[k], Null)
    BY <1>3, <1>4, <2>1, ReadsNull
  <2>3. Stuck(calls, keys, parts, vals, k)
    <3>1. ASSUME NEW more, Filled(more, keys, vals, k) PROVE FALSE
      <4>1. PICK less : Filled(less, keys, vals, n) /\ HasRoom(less, keys[k])
        BY <3>1, FilledLess
      <4>2. less = map
        BY <4>1, FilledOnce
      <4> QED BY <1>5, <4>1, <4>2
    <3> QED BY <3>1 DEF Stuck
  <2> QED BY <1>1, <1>2, <2>2, <2>3 DEF FillUpTo
<1>6. CASE HasRoom(map, keys[k])
  <2>1. PICK top : top = Call(Dict(map), <<keys[k]>>)
    OBVIOUS
  <2>2. Take(d, x) = Reading(Append(calls, top))
    BY <1>1, <1>3, <1>6, <2>1, TakesKey
  <2>3. CASE parts[k] = <<>> /\ vals[k] = Blank
    <3>1. <<x>> \o parts[k] = <<x>>
      BY <1>3, <2>3
    <3>2. AllRead(calls, parts, vals, k)
      <4> SUFFICES ASSUME NEW j \in 1 .. k, parts[j] # <<>>
                   PROVE  ReadAlike(calls, parts[j], vals[j])
        BY DEF AllRead
      <4>1. j \in 1 .. n
        BY <2>3
      <4> QED BY <4>1 DEF AllRead
    <3>3. k # 0 /\ k - 1 = n
      OBVIOUS
    <3>4. FillUpTo(calls, keys, parts, vals, k, Take(d, x))
      BY <1>6, <2>1, <2>2, <2>3, <3>2, <3>3 DEF FillUpTo
    <3> QED BY <1>1, <1>2, <1>4, <3>1, <3>4
  <2>4. ASSUME parts[k] # <<>>
        PROVE  \E e : Reads(d, <<x>> \o parts[k], e) /\ FillUpTo(calls, keys, parts, vals, k, e)
    <3>1. PICK all : all = Append(calls, top)
      OBVIOUS
    <3>2. ~ AwaitsKey(all)
      <4>1. top.key # NoKey
        BY <2>1 DEF Call, NoKey
      <4>2. Last(all) = top
        BY <3>1, TopOfCalls
      <4> QED BY <4>1, <4>2 DEF AwaitsKey
    <3>3. CASE ReadAlike(calls, parts[k], vals[k])
      <4>1. PICK map2 : map2 = hashmap_insert(map, keys[k], vals[k])
        OBVIOUS
      <4>2. Placed(all, vals[k]) = Reading(Append(calls, Call(Dict(map2), NoKey)))
        BY <2>1, <3>1, <4>1, PlacedInDict
      <4>3. Reads(Reading(all), parts[k], Placed(all, vals[k]))
        BY <3>1, <3>2, <3>3 DEF ReadAlike
      <4>4. Reads(d, <<x>> \o parts[k], Placed(all, vals[k]))
        BY <1>3, <1>4, <2>2, <3>1, <4>3, ReadsConcat
      <4>5. Filled(map2, keys, vals, k)
        BY <1>6, <4>1, FilledMore
      <4>6. AllRead(calls, parts, vals, k)
        <5> SUFFICES ASSUME NEW j \in 1 .. k, parts[j] # <<>>
                     PROVE  ReadAlike(calls, parts[j], vals[j])
          BY DEF AllRead
        <5>1. j \in 1 .. n \/ j = k
          OBVIOUS
        <5> QED BY <3>3, <5>1 DEF AllRead
      <4> QED BY <4>2, <4>4, <4>5, <4>6 DEF FillUpTo
    <3>4. CASE ~ ReadAlike(calls, parts[k], vals[k])
      <4>1. Reads(Reading(all), parts[k], Null)
        BY <2>4, <3>1, <3>2, <3>4 DEF Refused
      <4>2. Reads(d, <<x>> \o parts[k], Null)
        BY <1>3, <1>4, <2>2, <3>1, <4>1, ReadsConcat
      <4>3. k \in 1 .. k
        OBVIOUS
      <4>4. Stuck(calls, keys, parts, vals, k)
        BY <2>4, <3>4, <4>3 DEF Stuck, AllRead
      <4> QED BY <4>2, <4>4 DEF FillUpTo
    <3> QED BY <3>3, <3>4
  <2> QED BY <1>1, <1>2, <2>3, <2>4
<1> QED BY <1>5, <1>6

LEMMA FillEntries ==
  ASSUME NEW X, NEW calls \in Seq(X), NEW keys, NEW parts, NEW vals, NEW n \in Nat,
         FillParts(calls, parts, vals, n)
  PROVE  \E e : /\ Reads(Reading(Append(calls, Call(Dict(hashmap_init(DICT_SIZE)), NoKey))),
                         FlattenSeq(WithKeys(keys, parts, n)), e)
                /\ FillUpTo(calls, keys, parts, vals, n, e)
<1>1. PICK d : d = Reading(Append(calls, Call(Dict(hashmap_init(DICT_SIZE)), NoKey)))
  OBVIOUS
<1> DEFINE ReadTo(i) == \E e : /\ Reads(d, FlattenSeq(WithKeys(keys, parts, i)), e)
                               /\ FillUpTo(calls, keys, parts, vals, i, e)
           T == {i \in 0 .. n : ~ ReadTo(i)}
<1> SUFFICES ASSUME T # {} PROVE FALSE
  <2>1. n \in 0 .. n
    OBVIOUS
  <2>2. ReadTo(n)
    BY <2>1
  <2> QED BY <1>1, <2>2
<1>2. PICK i \in T : \A y \in T : i <= y
  <2>1. T \subseteq Nat
    OBVIOUS
  <2> HIDE DEF T
  <2> QED BY <2>1, LeastNumber
<1>3. i \in 0 .. n /\ ~ ReadTo(i)
  OBVIOUS
<1>4. CASE i = 0
  <2>1. WithKeys(keys, parts, i) = <<>>
    <3>1. 1 .. i = {}
      BY <1>4
    <3> QED BY <3>1 DEF WithKeys
  <2>2. Reads(d, FlattenSeq(WithKeys(keys, parts, i)), d)
    BY <2>1, FlattenEmpty, ReadsNothing
  <2>3. Filled(hashmap_init(DICT_SIZE), keys, vals, i) /\ AllRead(calls, parts, vals, i)
    <3>1. 1 .. i = {}
      BY <1>4
    <3> QED BY <1>4, <3>1, FilledNone DEF AllRead
  <2>4. FillUpTo(calls, keys, parts, vals, i, d)
    BY <1>1, <2>3 DEF FillUpTo
  <2> QED BY <1>3, <2>2, <2>4
<1>5. CASE i # 0
  <2>1. PICK j \in Nat : i = j + 1 /\ j \in 0 .. n /\ j # n
    <3>1. i - 1 \in Nat /\ i = (i - 1) + 1 /\ i - 1 \in 0 .. n /\ i - 1 # n
      BY <1>3, <1>5
    <3> QED BY <3>1
  <2>2. j \notin T
    <3>1. ~ (i <= j)
      BY <2>1
    <3> HIDE DEF T
    <3> QED BY <1>2, <3>1, Zenon
  <2>3. PICK e : /\ Reads(d, FlattenSeq(WithKeys(keys, parts, j)), e)
                 /\ FillUpTo(calls, keys, parts, vals, j, e)
    BY <2>1, <2>2
  <2>4. PICK Z : /\ WithKeys(keys, parts, j) \in Seq(Seq(Z)) /\ parts[i] \in Seq(Z)
                 /\ <<KeyToken(keys[i])>> \o parts[i] \in Seq(Z)
                 /\ WithKeys(keys, parts, i)
                      = Append(WithKeys(keys, parts, j), <<KeyToken(keys[i])>> \o parts[i])
    <3>1. \E Y : \A k \in 1 .. n : parts[k] \in Seq(Y)
      BY DEF FillParts
    <3> QED BY <2>1, <3>1, WithKeysType, ZenonT(30)
  <2>5. PICK a \in Seq(Z), b \in Seq(Z) :
          /\ a = FlattenSeq(WithKeys(keys, parts, j)) /\ b = <<KeyToken(keys[i])>> \o parts[i]
          /\ FlattenSeq(WithKeys(keys, parts, i)) = a \o b
    <3>1. PICK w \in Seq(Seq(Z)), b \in Seq(Z) :
            w = WithKeys(keys, parts, j) /\ b = <<KeyToken(keys[i])>> \o parts[i]
      BY <2>4
    <3>2. FlattenSeq(w) \in Seq(Z) /\ FlattenSeq(Append(w, b)) = FlattenSeq(w) \o b
      BY FlattenAppend
    <3> QED BY <2>4, <3>1, <3>2
  <2>6. i \in 1 .. n
    BY <1>3, <2>1
  <2>7. CASE e = Null /\ Stuck(calls, keys, parts, vals, j)
    <3>1. Reads(d, a \o b, Null)
      BY <2>3, <2>5, <2>7, ReadsNull
    <3>2. FillUpTo(calls, keys, parts, vals, i, Null)
      BY <2>1, <2>7, StuckMore DEF FillUpTo
    <3> QED BY <1>3, <2>5, <3>1, <3>2
  <2>8. ASSUME NEW map, Filled(map, keys, vals, j), AllRead(calls, parts, vals, j),
               e = Reading(Append(calls, Call(Dict(map), NoKey)))
        PROVE  FALSE
    <3>1. \/ parts[i] = <<>> /\ vals[i] = Blank
          \/ parts[i] # <<>> /\ (Refused(calls, parts[i]) \/ ReadAlike(calls, parts[i], vals[i]))
      BY <2>6 DEF FillParts
    <3>2. PICK f : Reads(e, b, f) /\ FillUpTo(calls, keys, parts, vals, i, f)
      BY <2>1, <2>4, <2>5, <2>8, <3>1, FillEntry
    <3>3. Reads(d, a \o b, f)
      BY <2>3, <2>5, <3>2, ReadsConcat
    <3> QED BY <1>3, <2>5, <3>2, <3>3
  <2>9. ~ (j # 0 /\ parts[j] = <<>>)
    <3>1. j # 0 => j \in 1 .. n
      BY <2>1
    <3> QED BY <2>1, <3>1 DEF FillParts
  <2> QED BY <2>3, <2>7, <2>8, <2>9 DEF FillUpTo
<1> QED BY <1>4, <1>5

\* What is read of a dictionary is what its entries make.
LEMMA FillItem ==
  ASSUME NEW X, NEW calls \in Seq(X), ~ AwaitsKey(calls), ~ (Len(calls) + 1 > MAX_RECURSION),
         NEW keys, NEW parts, NEW vals, NEW n \in Nat, FillParts(calls, parts, vals, n),
         NEW item, item = InBrackets("d", FlattenSeq(WithKeys(keys, parts, n)))
  PROVE  \/ Reads(Reading(calls), item, Null) /\ Stuck(calls, keys, parts, vals, n)
         \/ \E map : /\ Filled(map, keys, vals, n) /\ AllRead(calls, parts, vals, n)
                     /\ Reads(Reading(calls), item, Placed(calls, Dict(map)))
<1>1. PICK o : o = Token("d")
  OBVIOUS
<1>2. PICK x : x = Token("e")
  OBVIOUS
<1>3. PICK Z : WithKeys(keys, parts, n) \in Seq(Seq(Z))
  <2>1. n \in 0 .. n
    OBVIOUS
  <2>2. \E Y : \A k \in 1 .. n : parts[k] \in Seq(Y)
    BY DEF FillParts
  <2> QED BY <2>1, <2>2, WithKeysType, ZenonT(30)
<1>4. PICK s \in Seq(Z) : s = FlattenSeq(WithKeys(keys, parts, n))
  BY <1>3, FlattenType
<1>5. PICK I : Seq(Z) \subseteq Seq(I) /\ <<o>> \in Seq(I) /\ <<x>> \in Seq(I)
  <2>1. PICK J : J = Z \cup {o, x}
    OBVIOUS
  <2>2. Z \subseteq J /\ o \in J /\ x \in J
    BY <2>1
  <2>3. <<o>> \in Seq(J) /\ <<x>> \in Seq(J)
    BY <2>2
  <2> QED BY <2>2, <2>3, SeqMonotonic
<1>6. s \in Seq(I) /\ <<o>> \in Seq(I) /\ <<x>> \in Seq(I)
  BY <1>5
<1>7. item = (<<o>> \o s) \o <<x>> /\ <<o>> \o s \in Seq(I)
  <2>1. item = (<<o>> \o s) \o <<x>>
    BY <1>1, <1>2, <1>4 DEF InBrackets
  <2> QED BY <1>6, <2>1
<1>8. PICK d : d = Reading(Append(calls, Call(Dict(hashmap_init(DICT_SIZE)), NoKey)))
  OBVIOUS
<1>9. Reads(Reading(calls), <<o>>, d)
  <2>1. Take(Reading(calls), o) = d
    BY <1>1, <1>8, TakesOpen
  <2> QED BY <2>1, ReadsOne
<1>10. PICK e : Reads(d, s, e) /\ FillUpTo(calls, keys, parts, vals, n, e)
  BY <1>4, <1>8, FillEntries
<1>11. Reads(Reading(calls), <<o>> \o s, e)
  BY <1>6, <1>9, <1>10, ReadsConcat
<1>12. Reads(Reading(calls), item, Take(e, x))
  <2>1. Reads(e, <<x>>, Take(e, x))
    BY ReadsOne
  <2> QED BY <1>6, <1>7, <1>11, <2>1, ReadsConcat
<1>13. CASE e = Null /\ Stuck(calls, keys, parts, vals, n)
  <2>1. Take(e, x) = Null
    BY <1>13 DEF Take, Null
  <2> QED BY <1>12, <1>13, <2>1
<1>14. ASSUME NEW map, Filled(map, keys, vals, n), AllRead(calls, parts, vals, n),
              e = Reading(Append(calls, Call(Dict(map), NoKey)))
       PROVE  Take(e, x) = Placed(calls, Dict(map))
  BY <1>2, <1>14, TakesEnd, WithBlankIs
<1>15. ASSUME NEW map, n # 0, parts[n] = <<>>, vals[n] = Blank, HasRoom(map, keys[n]),
              Filled(map, keys, vals, n - 1),
              e = Reading(Append(calls, Call(Dict(map), <<keys[n]>>)))
       PROVE  \E map2 : Filled(map2, keys, vals, n) /\ Take(e, x) = Placed(calls, Dict(map2))
  <2>1. PICK map2 : map2 = hashmap_insert(map, keys[n], Blank)
    OBVIOUS
  <2>2. Take(e, x) = Placed(calls, Dict(map2))
    BY <1>2, <1>15, <2>1, TakesEnd, WithBlankIs
  <2>3. PICK j \in Nat : n = j + 1 /\ j = n - 1
    <3>1. n - 1 \in Nat /\ n = (n - 1) + 1
      BY <1>15
    <3> QED BY <3>1
  <2>4. Filled(map2, keys, vals, n)
    BY <1>15, <2>1, <2>3, FilledMore
  <2> QED BY <2>2, <2>4
<1> QED BY <1>10, <1>12, <1>13, <1>14, <1>15 DEF FillUpTo

-----------------------------------------------------------------------------
(***************************************************************************)
(* A dictionary with one entry more, that is found at home                 *)
(***************************************************************************)

\* A function with another value at one argument, old or new.
Put(f, s, x) == [t \in DOMAIN f \cup {s} |-> IF t = s THEN x ELSE f[t]]

LEMMA WithEntryIs ==
  ASSUME NEW map, IsMap(map), NEW slot \in Slots(map), NEW key, NEW value,
         NEW map2, map2 = WithEntry(map, slot, key, value)
  PROVE  /\ IsMap(map2) /\ map2.map_size = map.map_size
         /\ map2.elements = Put(map.elements, slot, [key |-> key, value |-> value])
<1>1. PICK new : new = Put(map.elements, slot, [key |-> key, value |-> value])
  OBVIOUS
<1>3. map2 = [map EXCEPT !.elements = new]
  BY <1>1, Zenon DEF WithEntry, Put
<1>4. map2 = [map_size |-> map.map_size, elements |-> new]
  BY <1>3 DEF IsMap
<1>5. DOMAIN new \subseteq Slots(map)
  BY <1>1 DEF IsMap, Put
<1>6. map2.map_size = map.map_size /\ map2.elements = new
  BY <1>4
<1>7. IsMap(map2)
  BY <1>4, <1>5, <1>6 DEF IsMap, Slots
<1> QED BY <1>1, <1>6, <1>7

LEMMA PutDomain ==
  ASSUME NEW f, NEW s, NEW x
  PROVE  DOMAIN Put(f, s, x) = DOMAIN f \cup {s}
BY DEF Put

LEMMA PutAtIt ==
  ASSUME NEW f, NEW s, NEW x
  PROVE  Put(f, s, x)[s] = x
BY DEF Put

LEMMA PutElsewhere ==
  ASSUME NEW f, NEW s, NEW x, NEW t \in DOMAIN f, t # s
  PROVE  Put(f, s, x)[t] = f[t]
BY DEF Put

LEMMA PutAgain ==
  ASSUME NEW f, NEW s, NEW x, NEW y
  PROVE  Put(Put(f, s, x), s, y) = Put(f, s, y)
BY DEF Put

LEMMA PutBoth ==
  ASSUME NEW f, NEW s, NEW x, NEW t, NEW y, t # s
  PROVE  Put(Put(f, s, x), t, y) = Put(Put(f, t, y), s, x)
BY DEF Put

\* A map is what its size and its elements are.
LEMMA SameMap ==
  ASSUME NEW map, IsMap(map), NEW map2, IsMap(map2),
         map.map_size = map2.map_size, map.elements = map2.elements
  PROVE  map = map2
BY DEF IsMap

\* An entry that is not where an insertion goes, neither stops it nor moves it.
LEMMA InsertBeside ==
  ASSUME NEW map, IsMap(map), NEW key, NEW value, HasRoom(map, key),
         NEW slot \in Slots(map), slot \notin DOMAIN hashmap_insert(map, key, value).elements,
         NEW key2, NEW value2, NEW map2, map2 = WithEntry(map, slot, key2, value2)
  PROVE  /\ HasRoom(map2, key)
         /\ hashmap_insert(map2, key, value)
              = WithEntry(hashmap_insert(map, key, value), slot, key2, value2)
<1>2. PICK x : x = [key |-> key2, value |-> value2]
  OBVIOUS
<1>3. IsMap(map2) /\ map2.map_size = map.map_size /\ map2.elements = Put(map.elements, slot, x)
  BY <1>2, WithEntryIs
<1>4. PICK more : more = hashmap_insert(map, key, value)
  OBVIOUS
<1>5. PICK s : s = FreeSlot(map, key)
  OBVIOUS
<1>6. s \in Slots(map) \ DOMAIN map.elements
  BY <1>5, FreeSlotProperties
<1>7. /\ IsMap(more) /\ more.map_size = map.map_size
      /\ more.elements = Put(map.elements, s, [key |-> key, value |-> value])
  BY <1>4, <1>5, <1>6, WithEntryIs DEF hashmap_insert
<1>8. s # slot
  <2>1. DOMAIN more.elements = DOMAIN map.elements \cup {s}
    BY <1>7, PutDomain
  <2> QED BY <1>4, <2>1
<1>9. DOMAIN map2.elements = DOMAIN map.elements \cup {slot}
  <2>1. DOMAIN Put(map.elements, slot, x) = DOMAIN map.elements \cup {slot}
    BY PutDomain
  <2> QED BY ONLY <1>3, <2>1
<1> DEFINE free == FreeProbes(map, key)
           free2 == FreeProbes(map2, key)
           First(T, i) == i \in T /\ \A j \in T : i <= j
<1>10. \A i : Probe(map2, key, i) = Probe(map, key, i)
  BY <1>3 DEF Probe
<1>11. free2 = {i \in free : Probe(map, key, i) # slot}
  BY <1>3, <1>9, <1>10 DEF FreeProbes
<1>12. free \subseteq Nat /\ free # {}
  <2>1. map.map_size \in Nat
    BY DEF IsMap
  <2> QED BY <2>1 DEF FreeProbes, HasRoom
<1> HIDE DEF free, free2
<1>13. PICK i : First(free, i) /\ s = Probe(map, key, i)
  <2>1. \E j : First(free, j)
    BY <1>12, LeastNumber
  <2>2. FreeSlot(map, key) = Probe(map, key, CHOOSE j : First(free, j))
    <3>1. (CHOOSE j \in free : \A k \in free : j <= k) = CHOOSE j : First(free, j)
      BY Zenon
    <3> QED BY <3>1, Zenon DEF FreeSlot, free
  <2> HIDE DEF First
  <2> QED BY <1>5, <2>1, <2>2
<1>14. First(free2, i)
  BY <1>8, <1>11, <1>13
<1>15. FreeSlot(map2, key) = s
  <2>1. PICK j : First(free2, j) /\ FreeSlot(map2, key) = Probe(map2, key, j)
    <3>1. FreeSlot(map2, key) = Probe(map2, key, CHOOSE j : First(free2, j))
      <4>1. (CHOOSE j \in free2 : \A k \in free2 : j <= k) = CHOOSE j : First(free2, j)
        BY Zenon
      <4> QED BY <4>1, Zenon DEF FreeSlot, free2
    <3> HIDE DEF First
    <3> QED BY <1>14, <3>1
  <2>2. i = j
    BY <1>11, <1>12, <1>14, <2>1
  <2> QED BY <1>10, <1>13, <2>1, <2>2
<1>16. HasRoom(map2, key)
  BY <1>14 DEF HasRoom, free2
<1>17. PICK y : y = [key |-> key, value |-> value]
  OBVIOUS
<1>18. /\ IsMap(hashmap_insert(map2, key, value))
       /\ hashmap_insert(map2, key, value).map_size = map.map_size
       /\ hashmap_insert(map2, key, value).elements = Put(Put(map.elements, slot, x), s, y)
  <2>1. s \in Slots(map2)
    BY <1>3, <1>6 DEF Slots
  <2> QED BY <1>3, <1>15, <1>17, <2>1, WithEntryIs DEF hashmap_insert
<1>19. /\ IsMap(WithEntry(more, slot, key2, value2))
       /\ WithEntry(more, slot, key2, value2).map_size = map.map_size
       /\ WithEntry(more, slot, key2, value2).elements = Put(Put(map.elements, s, y), slot, x)
  <2>1. slot \in Slots(more)
    BY <1>7 DEF Slots
  <2> QED BY <1>2, <1>7, <1>17, <2>1, WithEntryIs
<1>20. Put(Put(map.elements, slot, x), s, y) = Put(Put(map.elements, s, y), slot, x)
  BY <1>8, PutBoth
<1>21. hashmap_insert(map2, key, value) = WithEntry(more, slot, key2, value2)
  BY <1>18, <1>19, <1>20, SameMap
<1> QED BY <1>4, <1>16, <1>21

\* Each of n entries is in a slot of its own.
EntriesAt(map, p, n, keys, vals) ==
  /\ p \in [1 .. n -> DOMAIN map.elements]
  /\ \A s \in DOMAIN map.elements : \E k \in 1 .. n : p[k] = s
  /\ \A k \in 1 .. n : map.elements[p[k]] = [key |-> keys[k], value |-> vals[k]]

EntriesIn(map, n, keys, vals) ==
  IsMap(map) /\ map.map_size = DICT_SIZE /\ \E p : EntriesAt(map, p, n, keys, vals)

LEMMA EntriesInMore ==
  ASSUME NEW keys, NEW vals, NEW n \in Nat, NEW map, EntriesIn(map, n, keys, vals),
         NEW k, k = n + 1, HasRoom(map, keys[k])
  PROVE  EntriesIn(hashmap_insert(map, keys[k], vals[k]), k, keys, vals)
<1>1. PICK p : EntriesAt(map, p, n, keys, vals)
  BY DEF EntriesIn
<1>2. PICK map2 : map2 = hashmap_insert(map, keys[k], vals[k])
  OBVIOUS
<1>3. PICK slot : slot = FreeSlot(map, keys[k])
  OBVIOUS
<1>4. /\ IsMap(map2) /\ map2.map_size = map.map_size
      /\ DOMAIN map2.elements = DOMAIN map.elements \cup {slot}
      /\ \A s \in DOMAIN map.elements : map2.elements[s] = map.elements[s]
      /\ map2.elements[slot] = [key |-> keys[k], value |-> vals[k]]
  BY <1>2, <1>3, InsertProperties DEF Inserted, EntriesIn
<1>5. PICK q : q = [i \in 1 .. k |-> IF i = k THEN slot ELSE p[i]]
  OBVIOUS
<1>6. q[k] = slot /\ k \in 1 .. k
  BY <1>5
<1>7. ASSUME NEW i \in 1 .. k, i # k
      PROVE  i \in 1 .. n /\ q[i] = p[i] /\ p[i] \in DOMAIN map.elements
  <2>1. i \in 1 .. n
    BY <1>7
  <2> QED BY <1>1, <1>5, <1>7, <2>1 DEF EntriesAt
<1>8. q \in [1 .. k -> DOMAIN map2.elements]
  <2>1. \A i \in 1 .. k : q[i] \in DOMAIN map2.elements
    BY <1>4, <1>6, <1>7
  <2> QED BY <1>5, <2>1
<1>9. ASSUME NEW s \in DOMAIN map2.elements PROVE \E i \in 1 .. k : q[i] = s
  <2>1. CASE s = slot
    BY <1>6, <2>1
  <2>2. CASE s # slot
    <3>1. PICK i \in 1 .. n : p[i] = s
      BY <1>1, <1>4, <2>2 DEF EntriesAt
    <3>2. i \in 1 .. k /\ i # k
      OBVIOUS
    <3> QED BY <1>7, <3>1, <3>2
  <2> QED BY <2>1, <2>2
<1>10. ASSUME NEW i \in 1 .. k PROVE map2.elements[q[i]] = [key |-> keys[i], value |-> vals[i]]
  <2>1. CASE i = k
    BY <1>4, <1>6, <2>1
  <2>2. CASE i # k
    BY <1>1, <1>4, <1>7, <2>2 DEF EntriesAt
  <2> QED BY <2>1, <2>2
<1>11. EntriesAt(map2, q, k, keys, vals)
  BY <1>8, <1>9, <1>10 DEF EntriesAt
<1> QED BY <1>2, <1>4, <1>11 DEF EntriesIn

LEMMA FilledEntries ==
  ASSUME NEW keys, NEW vals, NEW n \in Nat, NEW map, Filled(map, keys, vals, n)
  PROVE  EntriesIn(map, n, keys, vals)
<1>1. PICK f : Fills(f, keys, vals, n) /\ map = f[n]
  BY DEF Filled
<1> DEFINE T == {i \in 0 .. n : ~ EntriesIn(f[i], i, keys, vals)}
<1> SUFFICES ASSUME T # {} PROVE FALSE
  BY <1>1
<1>2. PICK i \in T : \A y \in T : i <= y
  <2>1. T \subseteq Nat
    OBVIOUS
  <2> HIDE DEF T
  <2> QED BY <2>1, LeastNumber
<1>3. i \in 0 .. n /\ ~ EntriesIn(f[i], i, keys, vals)
  OBVIOUS
<1>4. i # 0
  <2> SUFFICES ASSUME i = 0 PROVE FALSE
    OBVIOUS
  <2>1. f[i] = hashmap_init(DICT_SIZE)
    BY <1>1 DEF Fills
  <2>2. IsMap(f[i]) /\ DOMAIN f[i].elements = {} /\ f[i].map_size = DICT_SIZE
    BY <2>1, BencodingAssumption, InitIsMap DEF hashmap_init
  <2>3. PICK p : p = [k \in 1 .. i |-> 0]
    OBVIOUS
  <2>4. 1 .. i = {}
    OBVIOUS
  <2>5. EntriesAt(f[i], p, i, keys, vals)
    BY <2>2, <2>3, <2>4 DEF EntriesAt
  <2> QED BY <1>3, <2>2, <2>5 DEF EntriesIn
<1>5. PICK j \in Nat : i = j + 1 /\ j = i - 1 /\ j \in 0 .. n /\ i \in 1 .. n
  <2>1. i - 1 \in Nat /\ i = (i - 1) + 1 /\ i - 1 \in 0 .. n /\ i \in 1 .. n
    BY <1>3, <1>4
  <2> QED BY <2>1
<1>6. j \notin T
  <2>1. ~ (i <= j)
    BY <1>5
  <2> HIDE DEF T
  <2> QED BY <1>2, <2>1, Zenon
<1>7. EntriesIn(f[j], j, keys, vals)
  BY <1>5, <1>6
<1>8. HasRoom(f[j], keys[i]) /\ f[i] = hashmap_insert(f[j], keys[i], vals[i])
  BY <1>1, <1>5 DEF Fills
<1>9. EntriesIn(f[i], i, keys, vals)
  BY <1>5, <1>7, <1>8, EntriesInMore
<1> QED BY <1>3, <1>9

\* A slot that is free in the end has been free from the start.
LEMMA FreeBefore ==
  ASSUME NEW keys, NEW vals, NEW n \in Nat, NEW f, Fills(f, keys, vals, n),
         NEW slot, slot \notin DOMAIN f[n].elements, NEW l \in 0 .. n
  PROVE  IsMap(f[l]) /\ f[l].map_size = DICT_SIZE /\ slot \notin DOMAIN f[l].elements
<1>1. ASSUME NEW i \in 0 .. n PROVE IsMap(f[i]) /\ f[i].map_size = DICT_SIZE
  <2>1. 1 .. i \subseteq 1 .. n
    OBVIOUS
  <2>2. Fills(f, keys, vals, i)
    BY <2>1 DEF Fills
  <2>3. Filled(f[i], keys, vals, i)
    BY <2>2 DEF Filled
  <2>4. i \in Nat
    OBVIOUS
  <2> QED BY <2>3, <2>4, FilledEntries DEF EntriesIn
<1>2. ASSUME NEW i \in 1 .. n, slot \in DOMAIN f[i - 1].elements PROVE slot \in DOMAIN f[i].elements
  <2>1. i - 1 \in 0 .. n
    OBVIOUS
  <2>2. HasRoom(f[i - 1], keys[i]) /\ f[i] = hashmap_insert(f[i - 1], keys[i], vals[i])
    BY DEF Fills
  <2>3. Inserted(f[i - 1], keys[i], vals[i], hashmap_insert(f[i - 1], keys[i], vals[i]))
    BY <1>1, <2>1, <2>2, InsertProperties
  <2> QED BY <1>2, <2>2, <2>3 DEF Inserted
<1> DEFINE T == {d \in 0 .. n : slot \in DOMAIN f[n - d].elements}
<1>3. T = {}
  <2> SUFFICES ASSUME T # {} PROVE FALSE
    OBVIOUS
  <2>1. PICK d \in T : \A y \in T : d <= y
    <3>1. T \subseteq Nat
      OBVIOUS
    <3> HIDE DEF T
    <3> QED BY <3>1, LeastNumber
  <2>2. d \in 0 .. n /\ slot \in DOMAIN f[n - d].elements
    OBVIOUS
  <2>3. d # 0
    <3>1. n - 0 = n
      OBVIOUS
    <3> QED BY <2>2, <3>1
  <2>4. PICK i \in 1 .. n : i = n - d + 1 /\ i - 1 = n - d /\ n - (d - 1) = i /\ d - 1 \in 0 .. n
    <3>1. n - d + 1 \in 1 .. n /\ (n - d + 1) - 1 = n - d /\ n - (d - 1) = n - d + 1 /\ d - 1 \in 0 .. n
      BY <2>2, <2>3
    <3> QED BY <3>1
  <2>5. slot \in DOMAIN f[i].elements
    BY <1>2, <2>2, <2>4
  <2>6. d - 1 \in T
    BY <2>4, <2>5
  <2>7. ~ (d <= d - 1)
    BY <2>2
  <2> HIDE DEF T
  <2> QED BY <2>1, <2>6, <2>7, Zenon
<1>4. ASSUME NEW i \in 0 .. n PROVE slot \notin DOMAIN f[i].elements
  <2>1. n - i \in 0 .. n /\ n - (n - i) = i
    OBVIOUS
  <2> QED BY <1>3, <2>1
<1> QED BY <1>1, <1>4

\* A sequence of n with x as its j-th element.
PutIn(s, j, x, n) ==
  [k \in 1 .. n + 1 |-> IF k < j THEN s[k] ELSE IF k = j THEN x ELSE s[k - 1]]

\* An entry that finds its home free, and would find it free after all the others, can
\* come at any time: the others are where they are without it.
LEMMA FilledWith ==
  ASSUME NEW keys, NEW vals, NEW n \in Nat, NEW map, Filled(map, keys, vals, n),
         NEW key, NEW value, NEW h, h = hash_of(key) % DICT_SIZE, h \notin DOMAIN map.elements,
         NEW m, m = n + 1, NEW j \in 1 .. m
  PROVE  Filled(WithEntry(map, h, key, value), PutIn(keys, j, key, n), PutIn(vals, j, value, n), m)
<1>1. PICK f : Fills(f, keys, vals, n) /\ map = f[n]
  BY DEF Filled
<1>2. PICK keys2 : keys2 = PutIn(keys, j, key, n)
  OBVIOUS
<1>3. PICK vals2 : vals2 = PutIn(vals, j, value, n)
  OBVIOUS
<1>4. PICK g : g = [k \in 0 .. m |-> IF k < j THEN f[k] ELSE WithEntry(f[k - 1], h, key, value)]
  OBVIOUS
<1>5. ASSUME NEW i \in 0 .. n
      PROVE  IsMap(f[i]) /\ f[i].map_size = DICT_SIZE /\ h \notin DOMAIN f[i].elements /\ h \in Slots(f[i])
  <2>1. IsMap(f[i]) /\ f[i].map_size = DICT_SIZE /\ h \notin DOMAIN f[i].elements
    <3>1. h \notin DOMAIN f[n].elements
      BY <1>1
    <3> QED BY <1>1, <3>1, FreeBefore
  <2>2. Home(f[i], key) = h
    <3>1. hash_of(key) + 0 = hash_of(key)
      BY HashOfType
    <3> QED BY <2>1, <3>1 DEF Home, Probe
  <2>3. Probe(f[i], key, 0) \in Slots(f[i])
    BY <2>1, ProbeType
  <2> QED BY <2>1, <2>2, <2>3 DEF Home
<1>6. g[0] = hashmap_init(DICT_SIZE)
  <2>1. 0 < j /\ 0 \in 0 .. m
    OBVIOUS
  <2> QED BY <1>1, <1>4, <2>1 DEF Fills
<1>7. ASSUME NEW k \in 1 .. m
      PROVE  HasRoom(g[k - 1], keys2[k]) /\ g[k] = hashmap_insert(g[k - 1], keys2[k], vals2[k])
  <2>1. k - 1 \in 0 .. m /\ k \in 0 .. m /\ k - 1 \in 0 .. n /\ k \in 1 .. n + 1
    OBVIOUS
  <2>2. CASE k < j
    <3>1. k - 1 < j /\ k \in 1 .. n
      BY <2>2
    <3>2. g[k - 1] = f[k - 1] /\ g[k] = f[k]
      BY <1>4, <2>1, <2>2, <3>1
    <3>3. keys2[k] = keys[k] /\ vals2[k] = vals[k]
      BY <1>2, <1>3, <2>1, <2>2 DEF PutIn
    <3> QED BY <1>1, <3>1, <3>2, <3>3 DEF Fills
  <2>3. CASE k = j
    <3>1. k - 1 < j /\ ~ (k < j)
      BY <2>3
    <3>2. g[k - 1] = f[k - 1] /\ g[k] = WithEntry(f[k - 1], h, key, value)
      BY <1>4, <2>1, <3>1
    <3>3. keys2[k] = key /\ vals2[k] = value
      BY <1>2, <1>3, <2>1, <2>3, <3>1 DEF PutIn
    <3>4. Home(f[k - 1], key) = h
      <4>1. hash_of(key) + 0 = hash_of(key)
        BY HashOfType
      <4> QED BY <1>5, <2>1, <4>1 DEF Home, Probe
    <3>5. HasRoom(f[k - 1], key)
      BY <1>5, <2>1, RoomWhileFree
    <3>6. FreeSlot(f[k - 1], key) = h
      BY <1>5, <2>1, <3>4, <3>5, FreeSlotProperties
    <3> QED BY <3>2, <3>3, <3>5, <3>6 DEF hashmap_insert
  <2>4. CASE k > j
    <3>1. PICK i \in 1 .. n : /\ i = k - 1 /\ ~ (k < j) /\ k # j /\ ~ (i < j)
                              /\ i \in 0 .. n /\ i - 1 \in 0 .. n
      BY <2>1, <2>4
    <3>2. g[k - 1] = WithEntry(f[i - 1], h, key, value) /\ g[k] = WithEntry(f[i], h, key, value)
      BY <1>4, <2>1, <3>1
    <3>3. keys2[k] = keys[i] /\ vals2[k] = vals[i]
      BY <1>2, <1>3, <2>1, <3>1 DEF PutIn
    <3>4. HasRoom(f[i - 1], keys[i]) /\ f[i] = hashmap_insert(f[i - 1], keys[i], vals[i])
      BY <1>1, <3>1 DEF Fills
    <3>5. /\ IsMap(f[i - 1]) /\ h \in Slots(f[i - 1])
          /\ h \notin DOMAIN hashmap_insert(f[i - 1], keys[i], vals[i]).elements
      BY <1>5, <3>1, <3>4
    <3>6. PICK less : less = f[i - 1]
      OBVIOUS
    <3>7. PICK less2 : less2 = WithEntry(less, h, key, value)
      OBVIOUS
    <3>8. /\ HasRoom(less2, keys[i])
          /\ hashmap_insert(less2, keys[i], vals[i])
               = WithEntry(hashmap_insert(less, keys[i], vals[i]), h, key, value)
      <4>1. /\ IsMap(less) /\ h \in Slots(less) /\ HasRoom(less, keys[i])
            /\ h \notin DOMAIN hashmap_insert(less, keys[i], vals[i]).elements
        BY <3>4, <3>5, <3>6
      <4> QED BY ONLY <3>7, <4>1, InsertBeside
    <3> QED BY <3>2, <3>3, <3>4, <3>6, <3>7, <3>8
  <2> QED BY <2>1, <2>2, <2>3, <2>4
<1>8. Fills(g, keys2, vals2, m)
  BY <1>6, <1>7 DEF Fills
<1>9. g[m] = WithEntry(map, h, key, value)
  <2>1. ~ (m < j) /\ m \in 0 .. m /\ m - 1 = n
    OBVIOUS
  <2> QED BY <1>1, <1>4, <2>1
<1> QED BY <1>2, <1>3, <1>8, <1>9 DEF Filled

\* Where a new key goes among keys in order.
LEMMA PlaceAmong ==
  ASSUME NEW keys, NEW n \in Nat, Ascending(keys, n), NEW key,
         \A k \in 1 .. n : place_of(keys[k]) # place_of(key)
  PROVE  \E j \in 1 .. n + 1 : /\ Ascending(PutIn(keys, j, key, n), n + 1)
                               /\ \A k \in 1 .. n : place_of(key) < place_of(keys[k]) => j <= k
<1>1. PICK r : r = [k \in 1 .. n |-> place_of(keys[k])]
  OBVIOUS
<1>2. PICK x \in Nat : x = place_of(key)
  BY HashOfType
<1>3. \A k \in 1 .. n : r[k] \in Nat /\ r[k] # x /\ r[k] = place_of(keys[k])
  BY <1>1, <1>2, HashOfType
<1>4. \A i, k \in 1 .. n : i < k => r[i] < r[k]
  BY <1>1 DEF Ascending
<1> DEFINE T == {k \in 1 .. n + 1 : k = n + 1 \/ x < r[k]}
<1>5. PICK j \in T : \A y \in T : j <= y
  <2>1. T \subseteq Nat
    OBVIOUS
  <2>2. n + 1 \in T
    OBVIOUS
  <2> HIDE DEF T
  <2> QED BY <2>1, <2>2, LeastNumber
<1>6. j \in 1 .. n + 1 /\ (j = n + 1 \/ x < r[j])
  OBVIOUS
<1>7. ASSUME NEW k \in 1 .. n, k < j PROVE r[k] < x
  <2>1. k \notin T
    <3>1. ~ (j <= k)
      BY <1>6, <1>7
    <3> HIDE DEF T
    <3> QED BY <1>5, <3>1, Zenon
  <2> QED BY <1>2, <1>3, <2>1
<1>8. ASSUME NEW k \in 1 .. n, j <= k PROVE x < r[k]
  <2>1. CASE j = k
    BY <1>6, <2>1
  <2>2. CASE j # k
    <3>1. j \in 1 .. n /\ j < k
      BY <1>6, <1>8, <2>2
    <3>2. x < r[j] /\ r[j] < r[k] /\ r[j] \in Nat /\ r[k] \in Nat
      BY <1>3, <1>4, <1>6, <3>1
    <3> QED BY <1>2, <3>2
  <2> QED BY <2>1, <2>2
<1>9. PICK keys2 : keys2 = PutIn(keys, j, key, n)
  OBVIOUS
<1>10. PICK q : q = [k \in 1 .. n + 1 |-> IF k < j THEN r[k] ELSE IF k = j THEN x ELSE r[k - 1]]
  OBVIOUS
<1>11. ASSUME NEW k \in 1 .. n + 1 PROVE place_of(keys2[k]) = q[k]
  <2>1. CASE k < j
    <3>1. k \in 1 .. n
      BY <1>6, <2>1
    <3>2. keys2[k] = keys[k] /\ q[k] = r[k]
      BY <1>9, <1>10, <2>1 DEF PutIn
    <3> QED BY <1>3, <3>1, <3>2
  <2>2. CASE k = j
    <3>1. ~ (k < j)
      BY <1>6, <2>2
    <3> QED BY <1>2, <1>9, <1>10, <2>2, <3>1 DEF PutIn
  <2>3. CASE k > j
    <3>1. ~ (k < j) /\ k # j /\ k - 1 \in 1 .. n
      BY <1>6, <2>3
    <3>2. keys2[k] = keys[k - 1] /\ q[k] = r[k - 1]
      BY <1>9, <1>10, <3>1 DEF PutIn
    <3> QED BY <1>3, <3>1, <3>2
  <2> QED BY <1>6, <2>1, <2>2, <2>3
<1>12. ASSUME NEW i \in 1 .. n + 1, NEW k \in 1 .. n + 1, i < k PROVE q[i] < q[k]
  <2>1. q[i] = IF i < j THEN r[i] ELSE IF i = j THEN x ELSE r[i - 1]
    BY <1>10
  <2>2. q[k] = IF k < j THEN r[k] ELSE IF k = j THEN x ELSE r[k - 1]
    BY <1>10
  <2>3. CASE k < j
    <3>1. i < j /\ i \in 1 .. n /\ k \in 1 .. n
      BY <1>6, <1>12, <2>3
    <3> QED BY <1>4, <1>12, <2>1, <2>2, <2>3, <3>1
  <2>4. CASE k = j
    <3>1. i < j /\ i \in 1 .. n /\ ~ (k < j)
      BY <1>6, <1>12, <2>4
    <3> QED BY <1>7, <2>1, <2>2, <2>4, <3>1
  <2>5. CASE k > j
    <3>1. ~ (k < j) /\ k # j /\ k - 1 \in 1 .. n /\ j <= k - 1
      BY <1>6, <2>5
    <3>2. q[k] = r[k - 1] /\ x < r[k - 1] /\ r[k - 1] \in Nat
      BY <1>3, <1>8, <2>2, <3>1
    <3>3. CASE i < j
      <4>1. i \in 1 .. n
        BY <1>6, <3>3
      <4>2. r[i] < x /\ r[i] \in Nat /\ q[i] = r[i]
        BY <1>3, <1>7, <2>1, <3>3, <4>1
      <4> QED BY <1>2, <3>2, <4>2
    <3>4. CASE i = j
      <4>1. ~ (i < j)
        BY <1>6, <3>4
      <4> QED BY <2>1, <3>2, <3>4, <4>1
    <3>5. CASE i > j
      <4>1. ~ (i < j) /\ i # j /\ i - 1 \in 1 .. n /\ i - 1 < k - 1
        BY <1>6, <1>12, <3>5
      <4> QED BY <1>4, <2>1, <3>1, <3>2, <4>1
    <3> QED BY <1>6, <3>3, <3>4, <3>5
  <2> QED BY <1>6, <2>3, <2>4, <2>5
<1>13. Ascending(keys2, n + 1)
  BY <1>11, <1>12 DEF Ascending
<1>14. ASSUME NEW k \in 1 .. n, place_of(key) < place_of(keys[k]) PROVE j <= k
  <2>1. r[k] \in Nat /\ x < r[k]
    BY <1>2, <1>3, <1>14
  <2>2. ~ (k < j)
    BY <1>2, <1>7, <2>1
  <2> QED BY <1>6, <2>2
<1> QED BY <1>6, <1>9, <1>13, <1>14

-----------------------------------------------------------------------------
(***************************************************************************)
(* The root of a sorted file, as it is and with a saved state              *)
(***************************************************************************)

LEMMA ReadNotRefused ==
  ASSUME NEW X, NEW part \in Seq(X), NEW v, ReadAlike(<<>>, part, v), Refused(<<>>, part)
  PROVE  FALSE
<1>1. PICK calls : calls = ListCall(<<>>) /\ ~ AwaitsKey(calls)
  BY ListCallIs
<1>2. Reads(Reading(calls), part, Placed(calls, v)) /\ Reads(Reading(calls), part, Null)
  BY <1>1 DEF ReadAlike, Refused, ListCall
<1>3. Placed(calls, v) # Null
  BY <1>1, PlacedNotNull
<1> QED BY <1>2, <1>3, ReadsOnce

\* A file of entries that can be read or are refused is refused, or decoded as them all.
LEMMA RootDecoded ==
  ASSUME NEW keys, NEW parts, NEW vals, NEW n \in Nat, FillParts(<<>>, parts, vals, n),
         NEW item, item = InBrackets("d", FlattenSeq(WithKeys(keys, parts, n))),
         NEW Z, item \in Seq(Z), bencoding_decode(item).status = "decoded"
  PROVE  \E map : /\ Filled(map, keys, vals, n) /\ AllRead(<<>>, parts, vals, n)
                  /\ bencoding_decode(item) = Decoded(Dict(map))
<1>1. PICK calls \in Seq({}) : calls = <<>>
  BY NoCallsType
<1>2. ~ AwaitsKey(calls) /\ ~ (Len(calls) + 1 > MAX_RECURSION)
  <2>1. Len(calls) = 0
    BY <1>1
  <2> QED BY <1>1, <2>1, BencodingAssumption, StateOrderAssumption DEF AwaitsKey
<1>3. FillParts(calls, parts, vals, n)
  BY <1>1
<1>4. \/ Reads(Reading(calls), item, Null)
      \/ \E map : /\ Filled(map, keys, vals, n) /\ AllRead(calls, parts, vals, n)
                  /\ Reads(Reading(calls), item, Placed(calls, Dict(map)))
  BY <1>2, <1>3, FillItem
<1>5. ~ Reads(Reading(calls), item, Null)
  <2> SUFFICES ASSUME Reads(Reading(calls), item, Null) PROVE FALSE
    OBVIOUS
  <2>1. Reads(Reading(<<>>), item, Null)
    BY <1>1
  <2>2. Null.status # "decoded"
    BY DEF Null
  <2>3. bencoding_decode(item) = Null
    BY <2>1, <2>2, DecodeReads
  <2> QED BY <2>2, <2>3
<1>6. PICK map : /\ Filled(map, keys, vals, n) /\ AllRead(calls, parts, vals, n)
                 /\ Reads(Reading(calls), item, Placed(calls, Dict(map)))
  BY <1>4, <1>5
<1>7. Placed(calls, Dict(map)) = Decoded(Dict(map))
  BY <1>1 DEF Placed
<1>8. Reads(Reading(<<>>), item, Decoded(Dict(map)))
  BY <1>1, <1>6, <1>7
<1>9. Decoded(Dict(map)).status = "decoded"
  BY DEF Decoded
<1>10. bencoding_decode(item) = Decoded(Dict(map))
  BY <1>8, <1>9, DecodeReads
<1> QED BY <1>1, <1>6, <1>10

\* The entries of a root, in order, each of them read and written as the same text.
Origin(map, keys, parts, vals, n) ==
  /\ n \in Nat /\ Ascending(keys, n) /\ Filled(map, keys, vals, n)
  /\ \E Y : \A k \in 1 .. n : parts[k] \in Seq(Y)
  /\ \A k \in 1 .. n : IF parts[k] = <<>> THEN k = n /\ vals[k] = Blank ELSE Good(parts[k], vals[k])

LEMMA OriginOf ==
  ASSUME NEW item \in DOMAIN Cutting, Cutting[item].type = "dict",
         bencoding_decode(item).status = "decoded"
  PROVE  \E map, keys, parts, vals, n : /\ Origin(map, keys, parts, vals, n)
                                        /\ bencoding_decode(item).node = Dict(map)
<1>1. PICK n \in Nat : DictOf(item, Cutting[item].keys, Cutting[item].parts, n)
  BY CutIsDict
<1>2. PICK keys, parts : DictOf(item, keys, parts, n)
  BY <1>1
<1>3. PICK vals : vals = [k \in 1 .. n |-> IF \E v : Good(parts[k], v)
                                           THEN CHOOSE v : Good(parts[k], v) ELSE Blank]
  OBVIOUS
<1>4. ASSUME NEW k \in 1 .. n, parts[k] # <<>>
      PROVE  Refused(<<>>, parts[k]) \/ Good(parts[k], vals[k])
  <2>1. Refused(<<>>, parts[k]) \/ \E v : Good(parts[k], v)
    BY <1>2, <1>4, ItemGood DEF DictOf
  <2> QED BY <1>3, <2>1
<1>5. ASSUME NEW k \in 1 .. n, parts[k] = <<>> PROVE k = n /\ vals[k] = Blank
  <2>1. \A v : ~ Good(parts[k], v)
    BY <1>5 DEF Good
  <2>2. k = n
    BY <1>2, <1>5 DEF DictOf
  <2> QED BY <1>3, <2>1, <2>2
<1>6. \E Y : \A k \in 1 .. n : parts[k] \in Seq(Y)
  BY <1>2 DEF DictOf
<1>7. FillParts(<<>>, parts, vals, n)
  <2>1. ASSUME NEW k \in 1 .. n
        PROVE  IF parts[k] = <<>> THEN k = n /\ vals[k] = Blank
               ELSE Refused(<<>>, parts[k]) \/ ReadAlike(<<>>, parts[k], vals[k])
    BY <1>4, <1>5 DEF Good
  <2> QED BY <1>6, <2>1 DEF FillParts
<1>8. PICK Z : item \in Seq(Z)
  BY CuttingType
<1>9. PICK map : /\ Filled(map, keys, vals, n) /\ AllRead(<<>>, parts, vals, n)
                 /\ bencoding_decode(item) = Decoded(Dict(map))
  <2>1. item = InBrackets("d", FlattenSeq(WithKeys(keys, parts, n)))
    BY <1>2 DEF DictOf
  <2> QED BY <1>7, <1>8, <2>1, RootDecoded
<1>10. ASSUME NEW k \in 1 .. n, parts[k] # <<>> PROVE Good(parts[k], vals[k])
  <2>1. ReadAlike(<<>>, parts[k], vals[k])
    BY <1>9, <1>10 DEF AllRead
  <2>2. \E Y : parts[k] \in Seq(Y)
    BY <1>6
  <2> QED BY <1>4, <1>10, <2>1, <2>2, ReadNotRefused
<1>11. Ascending(keys, n)
  BY <1>2 DEF DictOf
<1>12. Origin(map, keys, parts, vals, n)
  BY <1>5, <1>6, <1>9, <1>10, <1>11 DEF Origin
<1>13. bencoding_decode(item).node = Dict(map)
  BY <1>9 DEF Decoded
<1> QED BY <1>12, <1>13

LEMMA PutInAt ==
  ASSUME NEW s, NEW n \in Nat, NEW j \in 1 .. n + 1, NEW x, NEW k \in 1 .. n + 1
  PROVE  /\ k < j => k \in 1 .. n /\ PutIn(s, j, x, n)[k] = s[k]
         /\ k = j => PutIn(s, j, x, n)[k] = x
         /\ k > j => k - 1 \in 1 .. n /\ k - 1 >= j /\ PutIn(s, j, x, n)[k] = s[k - 1]
<1>1. PutIn(s, j, x, n)[k] = IF k < j THEN s[k] ELSE IF k = j THEN x ELSE s[k - 1]
  BY DEF PutIn
<1>2. CASE k < j
  BY <1>1, <1>2
<1>3. CASE k = j
  BY <1>1, <1>3
<1>4. CASE k > j
  <2>1. ~ (k < j) /\ k # j /\ k - 1 \in 1 .. n /\ k - 1 >= j
    BY <1>4
  <2> QED BY <1>1, <1>4, <2>1
<1> QED BY <1>2, <1>3, <1>4

LEMMA PutInHere ==
  ASSUME NEW s, NEW n \in Nat, NEW j \in 1 .. n + 1, NEW x
  PROVE  PutIn(s, j, x, n)[j] = x
<1>1. ~ (j < j)
  OBVIOUS
<1> QED BY <1>1 DEF PutIn

\* The root has a place for the state, in its array and among its keys.
Open(map, keys, n) ==
  /\ hash_of(STATE_KEY) % DICT_SIZE \notin DOMAIN map.elements
  /\ \A k \in 1 .. n : place_of(keys[k]) # place_of(STATE_KEY)
  /\ \E k \in 1 .. n : keys[k] = "info"

StateHome == hash_of(STATE_KEY) % DICT_SIZE
WithState(map, node) == WithEntry(map, StateHome, STATE_KEY, node)

\* The place of the state among the keys, and everything with it there.
LEMMA StatePlaced ==
  ASSUME NEW map, NEW keys, NEW parts, NEW vals, NEW n, Origin(map, keys, parts, vals, n),
         Open(map, keys, n)
  PROVE  \E j \in 1 .. n + 1 :
           /\ Ascending(PutIn(keys, j, STATE_KEY, n), n + 1)
           /\ \A k \in 1 .. n : parts[k] = <<>> => j <= k
           /\ \A node : Filled(WithState(map, node), PutIn(keys, j, STATE_KEY, n),
                               PutIn(vals, j, node, n), n + 1)
<1>1. n \in Nat /\ Ascending(keys, n) /\ Filled(map, keys, vals, n)
  BY DEF Origin
<1>2. PICK j \in 1 .. n + 1 :
        /\ Ascending(PutIn(keys, j, STATE_KEY, n), n + 1)
        /\ \A k \in 1 .. n : place_of(STATE_KEY) < place_of(keys[k]) => j <= k
  BY <1>1, PlaceAmong DEF Open
<1>3. ASSUME NEW k \in 1 .. n, parts[k] = <<>> PROVE j <= k
  <2>1. PICK i \in 1 .. n : keys[i] = "info"
    BY DEF Open
  <2>2. j <= i
    BY <1>2, <2>1, StateOrderAssumption
  <2>3. k = n
    BY <1>3 DEF Origin
  <2> QED BY <1>1, <1>2, <2>1, <2>2, <2>3
<1>4. ASSUME NEW node
      PROVE  Filled(WithState(map, node), PutIn(keys, j, STATE_KEY, n),
                    PutIn(vals, j, node, n), n + 1)
  <2>1. PICK m : m = n + 1
    OBVIOUS
  <2>2. j \in 1 .. m /\ StateHome = hash_of(STATE_KEY) % DICT_SIZE
        /\ StateHome \notin DOMAIN map.elements
    BY <1>2, <2>1 DEF StateHome, Open
  <2>3. Filled(WithEntry(map, StateHome, STATE_KEY, node), PutIn(keys, j, STATE_KEY, n),
               PutIn(vals, j, node, n), m)
    BY <1>1, <2>1, <2>2, FilledWith
  <2> QED BY <2>1, <2>3 DEF WithState
<1> QED BY <1>2, <1>3, <1>4

\* The parts of the root with the state among them.
LEMMA StateParts ==
  ASSUME NEW map, NEW keys, NEW parts, NEW vals, NEW n, Origin(map, keys, parts, vals, n),
         NEW j \in 1 .. n + 1, \A k \in 1 .. n : parts[k] = <<>> => j <= k,
         NEW X, NEW part \in Seq(X), part # <<>>, NEW node, Refused(<<>>, part) \/ ReadAlike(<<>>, part, node)
  PROVE  FillParts(<<>>, PutIn(parts, j, part, n), PutIn(vals, j, node, n), n + 1)
<1>1. n \in Nat /\ n + 1 \in Nat
  BY DEF Origin
<1>2. PICK parts2 : parts2 = PutIn(parts, j, part, n)
  OBVIOUS
<1>3. PICK vals2 : vals2 = PutIn(vals, j, node, n)
  OBVIOUS
<1>4. PICK Y : \A k \in 1 .. n : parts[k] \in Seq(Y)
  BY DEF Origin
<1>5. PICK I : I = X \cup Y
  OBVIOUS
<1>6. X \subseteq I /\ Y \subseteq I
  BY <1>5
<1>7. Seq(X) \subseteq Seq(I) /\ Seq(Y) \subseteq Seq(I)
  BY <1>6, SeqMonotonic
<1>8. ASSUME NEW k \in 1 .. n + 1
      PROVE  /\ parts2[k] \in Seq(I)
             /\ IF parts2[k] = <<>> THEN k = n + 1 /\ vals2[k] = Blank
                ELSE Refused(<<>>, parts2[k]) \/ ReadAlike(<<>>, parts2[k], vals2[k])
  <2>1. CASE k < j
    <3>1. k \in 1 .. n /\ parts2[k] = parts[k] /\ vals2[k] = vals[k]
      BY <1>1, <1>2, <1>3, <2>1, PutInAt
    <3>2. parts[k] # <<>>
      BY <1>1, <2>1, <3>1
    <3>3. Good(parts[k], vals[k])
      BY <3>1, <3>2 DEF Origin
    <3> QED BY <1>4, <1>7, <3>1, <3>2, <3>3 DEF Good
  <2>2. CASE k = j
    <3>1. parts2[k] = part /\ vals2[k] = node
      BY <1>1, <1>2, <1>3, <2>2, PutInHere
    <3> QED BY <1>7, <3>1
  <2>3. CASE k > j
    <3>1. PICK i \in 1 .. n : i = k - 1 /\ parts2[k] = parts[i] /\ vals2[k] = vals[i]
      BY <1>1, <1>2, <1>3, <2>3, PutInAt
    <3>2. CASE parts[i] = <<>>
      <4>1. i = n /\ vals[i] = Blank
        BY <3>2 DEF Origin
      <4>2. k = n + 1
        BY <1>1, <3>1, <4>1
      <4> QED BY <1>4, <1>7, <3>1, <3>2, <4>1, <4>2
    <3>3. CASE parts[i] # <<>>
      <4>1. Good(parts[i], vals[i])
        BY <3>3 DEF Origin
      <4> QED BY <1>4, <1>7, <3>1, <3>3, <4>1 DEF Good
    <3> QED BY <3>2, <3>3
  <2> QED BY <1>1, <2>1, <2>2, <2>3
<1> QED BY <1>2, <1>3, <1>8 DEF FillParts

\* The root is written with the text of its state among those of its other entries.
LEMMA StateWritten ==
  ASSUME NEW map, NEW keys, NEW parts, NEW vals, NEW n, Origin(map, keys, parts, vals, n),
         NEW j \in 1 .. n + 1, Ascending(PutIn(keys, j, STATE_KEY, n), n + 1),
         NEW node, Filled(WithState(map, node), PutIn(keys, j, STATE_KEY, n),
                          PutIn(vals, j, node, n), n + 1),
         NEW start \in Int, NEW X, NEW part \in Seq(X),
         Spells(<<ToEncode(node)>>, start, MAX_RECURSION - 1, part)
  PROVE  Spells(<<ToEncode(Dict(WithState(map, node)))>>, start, MAX_RECURSION,
                InBrackets("d", FlattenSeq(WithKeys(PutIn(keys, j, STATE_KEY, n),
                                                    PutIn(parts, j, part, n), n + 1))))
<1>1. n \in Nat /\ n + 1 \in Nat
  BY DEF Origin
<1>2. PICK keys2 : keys2 = PutIn(keys, j, STATE_KEY, n)
  OBVIOUS
<1>3. PICK parts2 : parts2 = PutIn(parts, j, part, n)
  OBVIOUS
<1>4. PICK vals2 : vals2 = PutIn(vals, j, node, n)
  OBVIOUS
<1>5. PICK m \in Nat : m = n + 1
  BY <1>1
<1>6. PICK root : root = WithState(map, node)
  OBVIOUS
<1>7. Filled(root, keys2, vals2, m) /\ Ascending(keys2, m)
  BY <1>2, <1>4, <1>5, <1>6
<1>8. PICK p : IsMap(root) /\ EntriesAt(root, p, m, keys2, vals2)
  BY <1>7, FilledEntries DEF EntriesIn
<1>9. PICK entries : entries = hashmap_entries(root, start)
  OBVIOUS
<1>10. KeysAt(root, p, m, keys2)
  <2>1. ASSUME NEW k \in 1 .. m PROVE root.elements[p[k]].key = keys2[k]
    <3>1. root.elements[p[k]] = [key |-> keys2[k], value |-> vals2[k]]
      BY <1>8 DEF EntriesAt
    <3> QED BY <3>1
  <2> QED BY <1>8, <2>1 DEF EntriesAt, KeysAt
<1>11. DOMAIN entries = 1 .. m /\ \A k \in 1 .. m : entries[k] = root.elements[p[k]]
  BY <1>7, <1>8, <1>9, <1>10, SlotsInOrder
<1>12. \A k \in 1 .. m : entries[k].key = keys2[k] /\ entries[k].value = vals2[k]
  <2> SUFFICES ASSUME NEW k \in 1 .. m PROVE entries[k].key = keys2[k] /\ entries[k].value = vals2[k]
    OBVIOUS
  <2>1. root.elements[p[k]] = [key |-> keys2[k], value |-> vals2[k]]
    BY <1>8 DEF EntriesAt
  <2> QED BY <1>11, <2>1
<1>13. PICK b \in Nat : b = MAX_RECURSION - 1 /\ b + 1 = MAX_RECURSION
  <2>1. MAX_RECURSION - 1 \in Nat /\ (MAX_RECURSION - 1) + 1 = MAX_RECURSION
    BY BencodingAssumption, StateOrderAssumption
  <2> QED BY <2>1
<1>14. PICK Y : \A k \in 1 .. n : parts[k] \in Seq(Y)
  BY DEF Origin
<1>15. PICK I : I = X \cup Y
  OBVIOUS
<1>16. X \subseteq I /\ Y \subseteq I
  BY <1>15
<1>17. Seq(X) \subseteq Seq(I) /\ Seq(Y) \subseteq Seq(I)
  BY <1>16, SeqMonotonic
<1>18. ASSUME NEW i \in 1 .. n PROVE Spells(<<ToEncode(vals[i])>>, start, b, parts[i])
  <2>1. Writes(vals[i], b, parts[i])
    <3>1. CASE parts[i] = <<>>
      <4>1. vals[i] = Blank
        BY <3>1 DEF Origin
      <4> QED BY <3>1, <4>1, WritesBlank
    <3>2. CASE parts[i] # <<>>
      <4>1. Good(parts[i], vals[i])
        BY <3>2 DEF Origin
      <4> QED BY <1>13, <4>1 DEF Good
    <3> QED BY <3>1, <3>2
  <2>2. b >= b
    OBVIOUS
  <2> QED BY <2>1, <2>2 DEF Writes
<1>19. ASSUME NEW k \in 1 .. m
       PROVE  parts2[k] \in Seq(I) /\ Spells(<<ToEncode(vals2[k])>>, start, b, parts2[k])
  <2>1. CASE k < j
    <3>1. k \in 1 .. n /\ parts2[k] = parts[k] /\ vals2[k] = vals[k]
      BY <1>1, <1>3, <1>4, <1>5, <2>1, PutInAt
    <3> QED BY <1>14, <1>17, <1>18, <3>1
  <2>2. CASE k = j
    <3>1. parts2[k] = part /\ vals2[k] = node
      BY <1>1, <1>3, <1>4, <2>2, PutInHere
    <3> QED BY <1>13, <1>17, <3>1
  <2>3. CASE k > j
    <3>1. PICK i \in 1 .. n : i = k - 1 /\ parts2[k] = parts[i] /\ vals2[k] = vals[i]
      BY <1>1, <1>3, <1>4, <1>5, <2>3, PutInAt
    <3> QED BY <1>14, <1>17, <1>18, <3>1
  <2> QED BY <1>1, <1>5, <2>1, <2>2, <2>3
<1>20. \A k \in 1 .. m : /\ entries[k].key = keys2[k] /\ parts2[k] \in Seq(I)
                         /\ Spells(<<ToEncode(entries[k].value)>>, start, b, parts2[k])
  BY <1>12, <1>19
<1>21. Spells(<<ToEncode(Dict(root))>>, start, b + 1,
              InBrackets("d", FlattenSeq(WithKeys(keys2, parts2, m))))
  BY <1>9, <1>11, <1>20, EntriesSpelled
<1> QED BY <1>2, <1>3, <1>5, <1>6, <1>13, <1>21

\* The file that save_state writes is refused, or decoded as the same root, with what
\* is read of the state.
LEMMA RootComesBack ==
  ASSUME NEW map, NEW keys, NEW parts, NEW vals, NEW n, Origin(map, keys, parts, vals, n),
         Open(map, keys, n), NEW node, NEW start \in Int, NEW X, NEW part \in Seq(X), part # <<>>,
         Spells(<<ToEncode(node)>>, start, MAX_RECURSION - 1, part),
         NEW node2, Refused(<<>>, part) \/ ReadAlike(<<>>, part, node2),
         NEW file, file = bencoding_encode(Dict(WithState(map, node)), start),
         bencoding_decode(file).status = "decoded"
  PROVE  bencoding_decode(file) = Decoded(Dict(WithState(map, node2)))
<1>1. PICK j \in 1 .. n + 1 :
        /\ Ascending(PutIn(keys, j, STATE_KEY, n), n + 1)
        /\ \A k \in 1 .. n : parts[k] = <<>> => j <= k
        /\ \A v : Filled(WithState(map, v), PutIn(keys, j, STATE_KEY, n),
                         PutIn(vals, j, v, n), n + 1)
  BY StatePlaced
<1>2. PICK keys2 : keys2 = PutIn(keys, j, STATE_KEY, n)
  OBVIOUS
<1>3. PICK parts2 : parts2 = PutIn(parts, j, part, n)
  OBVIOUS
<1>4. PICK vals2 : vals2 = PutIn(vals, j, node2, n)
  OBVIOUS
<1>5. PICK m \in Nat : m = n + 1
  <2>1. n + 1 \in Nat
    BY DEF Origin
  <2> QED BY <2>1
<1>6. PICK item : item = InBrackets("d", FlattenSeq(WithKeys(keys2, parts2, m)))
  OBVIOUS
<1>7. Spells(<<ToEncode(Dict(WithState(map, node)))>>, start, MAX_RECURSION, item)
  <2>1. Filled(WithState(map, node), PutIn(keys, j, STATE_KEY, n), PutIn(vals, j, node, n), n + 1)
    BY <1>1
  <2> QED BY <1>1, <1>2, <1>3, <1>5, <1>6, <2>1, StateWritten
<1>8. file = item
  BY <1>7, EncodeSpells
<1>9. PICK Z : item \in Seq(Z)
  BY <1>7 DEF Spells
<1>10. FillParts(<<>>, parts2, vals2, m)
  BY <1>1, <1>3, <1>4, <1>5, StateParts
<1>11. PICK root : Filled(root, keys2, vals2, m) /\ bencoding_decode(item) = Decoded(Dict(root))
  BY <1>6, <1>8, <1>9, <1>10, RootDecoded
<1>12. Filled(WithState(map, node2), keys2, vals2, m)
  BY <1>1, <1>2, <1>4, <1>5
<1>13. root = WithState(map, node2)
  BY <1>11, <1>12, FilledOnce
<1> QED BY <1>8, <1>11, <1>13

-----------------------------------------------------------------------------
(***************************************************************************)
(* The state: a bitfield, found at home, and numbers and strings           *)
(***************************************************************************)
StateKeys == {BITFIELD_KEY, DOWNLOAD_DIR_KEY, DOWNLOADED_KEY, UPLOADED_KEY}
IsLeaf(v) == v = Num(v.value) \/ v = Str(v.value, v.len)
StateEntry(e) == e.key \in StateKeys /\ IsLeaf(e.value)

StateOk(state, node) ==
  /\ IsMap(state)
  /\ Home(state, BITFIELD_KEY) \in DOMAIN state.elements
  /\ state.elements[Home(state, BITFIELD_KEY)] = [key |-> BITFIELD_KEY, value |-> node]
  /\ \A s \in DOMAIN state.elements :
       /\ StateEntry(state.elements[s])
       /\ s # Home(state, BITFIELD_KEY) => state.elements[s].key # BITFIELD_KEY

LEMMA StateBegins ==
  ASSUME NEW map, IsMap(map), DOMAIN map.elements = {}, NEW node, IsLeaf(node)
  PROVE  HasRoom(map, BITFIELD_KEY) /\ StateOk(hashmap_insert(map, BITFIELD_KEY, node), node)
<1>1. HasRoom(map, BITFIELD_KEY)
  <2>1. 0 \in Slots(map)
    BY DEF IsMap, Slots
  <2> QED BY <2>1, RoomWhileFree
<1>2. PICK map2 : map2 = hashmap_insert(map, BITFIELD_KEY, node)
  OBVIOUS
<1>3. PICK slot : slot = FreeSlot(map, BITFIELD_KEY)
  OBVIOUS
<1>4. /\ IsMap(map2) /\ map2.map_size = map.map_size
      /\ DOMAIN map2.elements = {slot}
      /\ map2.elements[slot] = [key |-> BITFIELD_KEY, value |-> node]
  BY <1>1, <1>2, <1>3, InsertProperties DEF Inserted
<1>5. slot = Home(map, BITFIELD_KEY)
  BY <1>1, <1>3, FreeSlotProperties
<1>6. Home(map2, BITFIELD_KEY) = slot
  BY <1>4, <1>5 DEF Home, Probe
<1>7. StateEntry(map2.elements[slot])
  BY <1>4 DEF StateEntry, StateKeys
<1> QED BY <1>1, <1>2, <1>4, <1>6, <1>7 DEF StateOk

LEMMA StateInsert ==
  ASSUME NEW state, NEW node, StateOk(state, node), NEW key \in StateKeys, key # BITFIELD_KEY,
         NEW value, IsLeaf(value), HasRoom(state, key)
  PROVE  StateOk(hashmap_insert(state, key, value), node)
<1>1. PICK map2 : map2 = hashmap_insert(state, key, value)
  OBVIOUS
<1>2. PICK slot : slot = FreeSlot(state, key)
  OBVIOUS
<1>3. /\ IsMap(map2) /\ map2.map_size = state.map_size
      /\ DOMAIN map2.elements = DOMAIN state.elements \cup {slot}
      /\ \A s \in DOMAIN state.elements : map2.elements[s] = state.elements[s]
      /\ map2.elements[slot] = [key |-> key, value |-> value]
  BY <1>1, <1>2, InsertProperties DEF Inserted, StateOk
<1>4. PICK home : home = Home(state, BITFIELD_KEY) /\ home = Home(map2, BITFIELD_KEY)
  BY <1>3 DEF Home, Probe
<1>5. home \in DOMAIN map2.elements /\ map2.elements[home] = [key |-> BITFIELD_KEY, value |-> node]
  BY <1>3, <1>4 DEF StateOk
<1>6. ASSUME NEW s \in DOMAIN map2.elements
      PROVE  StateEntry(map2.elements[s]) /\ (s # home => map2.elements[s].key # BITFIELD_KEY)
  <2>1. CASE s = slot
    BY <1>3, <2>1 DEF StateEntry
  <2>2. CASE s # slot
    BY <1>3, <1>4, <2>2 DEF StateOk
  <2> QED BY <2>1, <2>2
<1> QED BY <1>1, <1>3, <1>4, <1>5, <1>6 DEF StateOk

LEMMA StateOverwritten ==
  ASSUME NEW state, NEW node, StateOk(state, node), NEW key \in StateKeys, Has(state, key),
         NEW value, IsLeaf(value)
  PROVE  StateOk(Overwrite(state, key, value), IF key = BITFIELD_KEY THEN value ELSE node)
<1>1. PICK map2 : map2 = Overwrite(state, key, value)
  OBVIOUS
<1>2. PICK slot : slot = Home(state, key)
  OBVIOUS
<1>3. IsMap(state) /\ slot \in DOMAIN state.elements /\ slot \in Slots(state)
      /\ state.elements[slot].key = key
  BY <1>2 DEF StateOk, Has, IsMap
<1>4. PICK x : x = [key |-> key, value |-> value]
  OBVIOUS
<1>5. IsMap(map2) /\ map2.map_size = state.map_size /\ map2.elements = Put(state.elements, slot, x)
  BY <1>1, <1>2, <1>3, <1>4, WithEntryIs DEF Overwrite
<1>6. DOMAIN map2.elements = DOMAIN state.elements /\ map2.elements[slot] = x
  <2>1. PICK f : f = state.elements
    OBVIOUS
  <2>2. DOMAIN Put(f, slot, x) = DOMAIN f \cup {slot} /\ Put(f, slot, x)[slot] = x
    BY DEF Put
  <2>3. DOMAIN f \cup {slot} = DOMAIN f
    BY <1>3, <2>1
  <2> QED BY <1>5, <2>1, <2>2, <2>3
<1>7. \A s \in DOMAIN state.elements : s # slot => map2.elements[s] = state.elements[s]
  BY <1>5, PutElsewhere
<1>8. PICK home : home = Home(state, BITFIELD_KEY) /\ home = Home(map2, BITFIELD_KEY)
  BY <1>5 DEF Home, Probe
<1>9. /\ home \in DOMAIN state.elements
      /\ state.elements[home] = [key |-> BITFIELD_KEY, value |-> node]
      /\ \A s \in DOMAIN state.elements :
           StateEntry(state.elements[s]) /\ (s # home => state.elements[s].key # BITFIELD_KEY)
  BY <1>8 DEF StateOk
<1>10. ASSUME NEW s \in DOMAIN map2.elements
       PROVE  StateEntry(map2.elements[s]) /\ (s # home => map2.elements[s].key # BITFIELD_KEY)
  <2>1. CASE s = slot
    BY <1>3, <1>4, <1>6, <1>9, <2>1 DEF StateEntry
  <2>2. CASE s # slot
    BY <1>6, <1>7, <1>9, <2>2
  <2> QED BY <2>1, <2>2
<1>11. CASE key = BITFIELD_KEY
  <2>1. map2.elements[home] = [key |-> BITFIELD_KEY, value |-> value]
    BY <1>2, <1>4, <1>6, <1>8, <1>11
  <2> QED BY <1>1, <1>5, <1>6, <1>8, <1>9, <1>10, <1>11, <2>1 DEF StateOk
<1>12. CASE key # BITFIELD_KEY
  <2>1. home # slot
    BY <1>3, <1>9, <1>12
  <2>2. map2.elements[home] = [key |-> BITFIELD_KEY, value |-> node]
    BY <1>7, <1>9, <2>1
  <2> QED BY <1>1, <1>5, <1>6, <1>8, <1>9, <1>10, <1>12, <2>2 DEF StateOk
<1> QED BY <1>11, <1>12

\* The keys and the values of a state as it is written: the bitfield first.
StateText(keys, vals, n, node) ==
  /\ n \in Nat \ {0} /\ keys[1] = BITFIELD_KEY /\ vals[1] = node
  /\ \A k \in 1 .. n : /\ keys[k] \in StateKeys /\ IsLeaf(vals[k])
                       /\ k # 1 => keys[k] # BITFIELD_KEY

TokenOf(v) == IF v.type = "num" THEN NumToken(v.value) ELSE StrToken(v.value, v.len)
Leaves(vals, n) == [k \in 1 .. n |-> <<TokenOf(vals[k])>>]

LEMMA LeafKinds ==
  ASSUME NEW v, IsLeaf(v), NEW x, x = TokenOf(v)
  PROVE  \/ x = NumToken(v.value) /\ v = Num(v.value)
         \/ x = StrToken(v.value, v.len) /\ v = Str(v.value, v.len)
<1>1. CASE v = Num(v.value)
  <2>1. v.type = "num"
    BY <1>1 DEF Num
  <2> QED BY <1>1, <2>1 DEF TokenOf
<1>2. CASE v = Str(v.value, v.len)
  <2>1. v.type # "num"
    BY <1>2 DEF Str
  <2> QED BY <1>2, <2>1 DEF TokenOf
<1> QED BY <1>1, <1>2 DEF IsLeaf

LEMMA LeafWritten ==
  ASSUME NEW v, IsLeaf(v), NEW start \in Int, NEW b \in Nat, b >= 1
  PROVE  Spells(<<ToEncode(v)>>, start, b, <<TokenOf(v)>>)
<1>1. PICK x : x = TokenOf(v)
  OBVIOUS
<1>2. \/ x = NumToken(v.value) /\ v = Num(v.value)
      \/ x = StrToken(v.value, v.len) /\ v = Str(v.value, v.len)
  BY <1>1, LeafKinds
<1>3. x.t # "node"
  BY <1>2 DEF NumToken, StrToken
<1>4. \A from \in Int : encode_helper(v, from) = <<x>>
  BY <1>2 DEF encode_helper, Num, Str
<1>5. Writes(v, b, <<x>>)
  BY <1>3, <1>4, WritesToken
<1> QED BY <1>1, <1>5 DEF Writes

LEMMA NotEarlier ==
  ASSUME NEW map, IsMap(map), NEW start \in Int, NEW s \in Slots(map), NEW t \in Slots(map),
         Earlier(map, start, s, t)
  PROVE  s # t /\ place_of(map.elements[s].key) <= place_of(map.elements[t].key)
<1>1. PICK m \in Nat \ {0} : m = map.map_size
  BY DEF IsMap
<1>2. PICK a \in Nat : a = place_of(map.elements[s].key)
  BY HashOfType
<1>3. PICK c \in Nat : c = place_of(map.elements[t].key)
  BY HashOfType
<1>4. PICK u \in Int : u = (s + m - start) % m
  <2>1. PICK x \in Int : x = s + m - start
    BY DEF Slots, IsMap
  <2>2. x % m \in Int
    BY Z3
  <2> QED BY <2>1, <2>2
<1>5. PICK w : w = (t + m - start) % m
  OBVIOUS
<1>6. (a < c) \/ (a = c /\ u < w)
  BY <1>1, <1>2, <1>3, <1>4, <1>5 DEF Earlier
<1>7. s = t => a = c /\ u = w
  BY <1>2, <1>3, <1>4, <1>5
<1>8. s # t
  BY <1>6, <1>7
<1> QED BY <1>2, <1>3, <1>6, <1>8

\* A state is written as such a text.
LEMMA StateSpelled ==
  ASSUME NEW state, NEW node, StateOk(state, node), NEW start \in Int,
         NEW b \in Nat, b >= 1
  PROVE  \E keys, vals, n :
           /\ StateText(keys, vals, n, node)
           /\ Spells(<<ToEncode(Dict(state))>>, start, b + 1,
                     InBrackets("d", FlattenSeq(WithKeys(keys, Leaves(vals, n), n))))
<1>1. IsMap(state) /\ DOMAIN state.elements \subseteq Slots(state)
  BY DEF StateOk, IsMap
<1>2. PICK order : Orders(state, start, order)
  BY <1>1, EntriesOrdered
<1>3. PICK n \in Nat : n = Cardinality(DOMAIN state.elements)
  BY <1>1, SlotsFinite
<1>4. PICK entries : entries = hashmap_entries(state, start)
  OBVIOUS
<1>5. /\ order \in [1 .. n -> DOMAIN state.elements]
      /\ \A s \in DOMAIN state.elements : \E k \in 1 .. n : order[k] = s
      /\ \A j, k \in 1 .. n : j < k => Earlier(state, start, order[j], order[k])
      /\ entries = [k \in 1 .. n |-> state.elements[order[k]]]
  BY <1>2, <1>3, <1>4 DEF Orders
<1>6. PICK home \in DOMAIN state.elements :
        /\ state.elements[home] = [key |-> BITFIELD_KEY, value |-> node]
        /\ \A s \in DOMAIN state.elements :
             StateEntry(state.elements[s]) /\ (s # home => state.elements[s].key # BITFIELD_KEY)
  BY DEF StateOk
<1>7. PICK i \in 1 .. n : order[i] = home
  BY <1>5, <1>6
<1>8. 1 \in 1 .. n /\ n \in Nat \ {0}
  BY <1>7
<1>9. ASSUME NEW j \in 1 .. n, NEW k \in 1 .. n, j < k
      PROVE  /\ order[j] # order[k]
             /\ place_of(state.elements[order[j]].key) <= place_of(state.elements[order[k]].key)
  <2>1. order[j] \in Slots(state) /\ order[k] \in Slots(state)
    BY <1>1, <1>5
  <2>2. Earlier(state, start, order[j], order[k])
    BY <1>5, <1>9
  <2> QED BY <1>1, <2>1, <2>2, NotEarlier
<1>10. i = 1
  <2> SUFFICES ASSUME i # 1 PROVE FALSE
    OBVIOUS
  <2>1. 1 < i
    BY <1>7
  <2>2. PICK s \in DOMAIN state.elements : s = order[1]
    BY <1>5, <1>8
  <2>3. s # home /\ place_of(state.elements[s].key) <= place_of(BITFIELD_KEY)
    BY <1>6, <1>7, <1>8, <1>9, <2>1, <2>2
  <2>4. state.elements[s].key \in {DOWNLOAD_DIR_KEY, DOWNLOADED_KEY, UPLOADED_KEY}
    BY <1>6, <2>3 DEF StateEntry, StateKeys
  <2>5. place_of(BITFIELD_KEY) < place_of(state.elements[s].key)
    BY <2>4, StateOrderAssumption
  <2>6. place_of(BITFIELD_KEY) \in Nat /\ place_of(state.elements[s].key) \in Nat
    BY HashOfType
  <2> QED BY <2>3, <2>5, <2>6
<1>11. PICK keys : keys = [k \in 1 .. n |-> entries[k].key]
  OBVIOUS
<1>12. PICK vals : vals = [k \in 1 .. n |-> entries[k].value]
  OBVIOUS
<1>13. ASSUME NEW k \in 1 .. n
       PROVE  /\ entries[k].key = keys[k] /\ entries[k].value = vals[k]
              /\ keys[k] \in StateKeys /\ IsLeaf(vals[k])
              /\ k # 1 => keys[k] # BITFIELD_KEY
  <2>1. entries[k].key = keys[k] /\ entries[k].value = vals[k]
    BY <1>11, <1>12
  <2>2. PICK s \in DOMAIN state.elements : s = order[k] /\ entries[k] = state.elements[s]
    BY <1>5
  <2>3. keys[k] \in StateKeys /\ IsLeaf(vals[k])
    BY <1>6, <2>1, <2>2 DEF StateEntry
  <2>4. ASSUME k # 1 PROVE keys[k] # BITFIELD_KEY
    <3>1. 1 < k
      BY <2>4
    <3>2. s # home
      BY <1>7, <1>8, <1>9, <1>10, <2>2, <3>1
    <3> QED BY <1>6, <2>1, <2>2, <3>2
  <2> QED BY <2>1, <2>3, <2>4
<1>14. entries[1] = [key |-> BITFIELD_KEY, value |-> node]
  BY <1>5, <1>6, <1>7, <1>8, <1>10
<1>15. StateText(keys, vals, n, node)
  <2>1. keys[1] = BITFIELD_KEY /\ vals[1] = node
    BY <1>8, <1>11, <1>12, <1>14
  <2> QED BY <1>8, <1>13, <2>1 DEF StateText
<1>16. PICK parts : parts = Leaves(vals, n)
  OBVIOUS
<1>17. PICK Y : Y = {TokenOf(vals[k]) : k \in 1 .. n}
  OBVIOUS
<1>18. ASSUME NEW k \in 1 .. n
       PROVE  /\ entries[k].key = keys[k] /\ parts[k] \in Seq(Y)
              /\ Spells(<<ToEncode(entries[k].value)>>, start, b, parts[k])
  <2>1. parts[k] = <<TokenOf(vals[k])>> /\ TokenOf(vals[k]) \in Y
    BY <1>16, <1>17 DEF Leaves
  <2>2. <<TokenOf(vals[k])>> \in Seq(Y)
    BY <2>1
  <2>3. Spells(<<ToEncode(vals[k])>>, start, b, <<TokenOf(vals[k])>>)
    BY <1>13, LeafWritten
  <2> QED BY <1>13, <2>1, <2>2, <2>3
<1>19. DOMAIN entries = 1 .. n
  BY <1>5
<1>20. Spells(<<ToEncode(Dict(state))>>, start, b + 1,
              InBrackets("d", FlattenSeq(WithKeys(keys, parts, n))))
  BY <1>4, <1>18, <1>19, EntriesSpelled
<1> QED BY <1>15, <1>16, <1>20

\* What is read of such a text is a state with the same bitfield.
LEMMA StateFilled ==
  ASSUME NEW keys, NEW vals, NEW n, NEW node, StateText(keys, vals, n, node),
         NEW map, Filled(map, keys, vals, n)
  PROVE  StateOk(map, node)
<1>1. PICK f : Fills(f, keys, vals, n) /\ map = f[n]
  BY DEF Filled
<1>2. n \in Nat \ {0} /\ n \in 1 .. n /\ 1 \in 1 .. n
  BY DEF StateText
<1> DEFINE T == {i \in 1 .. n : ~ StateOk(f[i], node)}
<1> SUFFICES ASSUME T # {} PROVE FALSE
  BY <1>1, <1>2
<1>3. PICK i \in T : \A y \in T : i <= y
  <2>1. T \subseteq Nat
    OBVIOUS
  <2> HIDE DEF T
  <2> QED BY <2>1, LeastNumber
<1>4. i \in 1 .. n /\ ~ StateOk(f[i], node)
  OBVIOUS
<1>5. HasRoom(f[i - 1], keys[i]) /\ f[i] = hashmap_insert(f[i - 1], keys[i], vals[i])
  BY <1>1, <1>4 DEF Fills
<1>6. i # 1
  <2> SUFFICES ASSUME i = 1 PROVE FALSE
    OBVIOUS
  <2>1. PICK empty : empty = hashmap_init(DICT_SIZE)
    OBVIOUS
  <2>2. f[i - 1] = empty
    <3>1. i - 1 = 0
      OBVIOUS
    <3> QED BY <1>1, <2>1, <3>1 DEF Fills
  <2>3. IsMap(empty) /\ DOMAIN empty.elements = {}
    BY <2>1, BencodingAssumption, InitIsMap
  <2>4. keys[i] = BITFIELD_KEY /\ vals[i] = node /\ IsLeaf(node)
    BY <1>2 DEF StateText
  <2>5. StateOk(hashmap_insert(empty, BITFIELD_KEY, node), node)
    BY <2>3, <2>4, StateBegins
  <2> QED BY <1>4, <1>5, <2>2, <2>4, <2>5
<1>7. PICK j \in 1 .. n : j = i - 1 /\ ~ (i <= j)
  <2>1. i - 1 \in 1 .. n /\ ~ (i <= i - 1)
    BY <1>2, <1>4, <1>6
  <2> QED BY <2>1
<1>8. j \notin T
  <2> HIDE DEF T
  <2> QED BY <1>3, <1>7, Zenon
<1>9. StateOk(f[j], node)
  BY <1>7, <1>8
<1>10. keys[i] \in StateKeys /\ keys[i] # BITFIELD_KEY /\ IsLeaf(vals[i])
  BY <1>4, <1>6 DEF StateText
<1>11. StateOk(hashmap_insert(f[j], keys[i], vals[i]), node)
  BY <1>5, <1>7, <1>9, <1>10, StateInsert
<1> QED BY <1>4, <1>5, <1>7, <1>11

LEMMA LeafAlike ==
  ASSUME NEW v, IsLeaf(v), NEW top
  PROVE  ReadAlike(Append(<<>>, top), <<TokenOf(v)>>, v)
<1> SUFFICES ASSUME NEW more, ~ AwaitsKey(Append(Append(<<>>, top), more))
             PROVE  Reads(Reading(Append(Append(<<>>, top), more)), <<TokenOf(v)>>,
                          Placed(Append(Append(<<>>, top), more), v))
  BY DEF ReadAlike
<1>1. PICK X, none : none = <<>> /\ none \in Seq(X) /\ top \in X /\ more \in X
  <2>1. <<>> \in Seq({top, more}) /\ top \in {top, more} /\ more \in {top, more}
    OBVIOUS
  <2> QED BY <2>1
<1>2. PICK one \in Seq(X) : one = Append(none, top) /\ Len(one) = 1
  <2>1. Append(none, top) \in Seq(X) /\ Len(Append(none, top)) = Len(none) + 1
    BY <1>1, AppendProperties
  <2>2. Len(none) = 0
    BY <1>1
  <2>3. Append(none, top) \in Seq(X) /\ Len(Append(none, top)) = 1
    BY <2>1, <2>2
  <2> QED BY ONLY <2>3
<1>3. PICK calls \in Seq(X) : calls = Append(one, more) /\ Len(calls) = 2
  <2>1. Append(one, more) \in Seq(X) /\ Len(Append(one, more)) = Len(one) + 1
    BY <1>1, <1>2, AppendProperties
  <2>2. Append(one, more) \in Seq(X) /\ Len(Append(one, more)) = 2
    BY <1>2, <2>1
  <2> QED BY ONLY <2>2
<1>4. ~ (Len(calls) + 1 > MAX_RECURSION) /\ ~ AwaitsKey(calls)
  BY <1>1, <1>2, <1>3, BencodingAssumption, StateOrderAssumption
<1>5. PICK x : x = TokenOf(v)
  OBVIOUS
<1>6. \/ x = NumToken(v.value) /\ v = Num(v.value)
      \/ x = StrToken(v.value, v.len) /\ v = Str(v.value, v.len)
  BY <1>5, LeafKinds
<1>7. /\ \A n : Take(Reading(calls), NumToken(n)) = Placed(calls, Num(n))
      /\ \A w, n : Take(Reading(calls), StrToken(w, n)) = Placed(calls, Str(w, n))
  BY <1>4, TakesOpen
<1>8. Take(Reading(calls), x) = Placed(calls, v)
  BY <1>6, <1>7
<1> QED BY <1>1, <1>2, <1>3, <1>5, <1>8, ReadsOne

LEMMA LeafParts ==
  ASSUME NEW keys, NEW vals, NEW n, NEW node, StateText(keys, vals, n, node), NEW top
  PROVE  /\ FillParts(Append(<<>>, top), Leaves(vals, n), vals, n)
         /\ AllRead(Append(<<>>, top), Leaves(vals, n), vals, n)
<1>1. PICK Y : Y = {TokenOf(vals[k]) : k \in 1 .. n}
  OBVIOUS
<1>2. PICK parts : parts = Leaves(vals, n)
  OBVIOUS
<1>3. ASSUME NEW k \in 1 .. n
      PROVE  /\ parts[k] \in Seq(Y) /\ parts[k] # <<>>
             /\ ReadAlike(Append(<<>>, top), parts[k], vals[k])
  <2>1. parts[k] = <<TokenOf(vals[k])>> /\ TokenOf(vals[k]) \in Y
    BY <1>1, <1>2 DEF Leaves
  <2>2. <<TokenOf(vals[k])>> \in Seq(Y) /\ <<TokenOf(vals[k])>> # <<>>
    BY <2>1
  <2>3. ReadAlike(Append(<<>>, top), <<TokenOf(vals[k])>>, vals[k])
    BY LeafAlike DEF StateText
  <2> QED BY <2>1, <2>2, <2>3
<1>4. FillParts(Append(<<>>, top), parts, vals, n)
  BY <1>3 DEF FillParts
<1>5. AllRead(Append(<<>>, top), parts, vals, n)
  BY <1>3 DEF AllRead
<1> QED BY <1>2, <1>4, <1>5

\* The text of a state is refused, or read as one and the same state, in any call.
LEMMA StateComesBack ==
  ASSUME NEW keys, NEW vals, NEW n, NEW node, StateText(keys, vals, n, node),
         NEW part, part = InBrackets("d", FlattenSeq(WithKeys(keys, Leaves(vals, n), n)))
  PROVE  \/ Refused(<<>>, part)
         \/ \E map : StateOk(map, node) /\ ReadAlike(<<>>, part, Dict(map))
<1>1. PICK parts : parts = Leaves(vals, n)
  OBVIOUS
<1>2. n \in Nat
  BY DEF StateText
<1>3. ASSUME NEW top, ~ AwaitsKey(Append(<<>>, top))
      PROVE  \/ /\ Reads(Reading(Append(<<>>, top)), part, Null)
                /\ \A map : ~ Filled(map, keys, vals, n)
             \/ \E map : /\ Filled(map, keys, vals, n)
                         /\ Reads(Reading(Append(<<>>, top)), part, Placed(Append(<<>>, top), Dict(map)))
  <2>1. PICK X, calls : calls = Append(<<>>, top) /\ calls \in Seq(X) /\ Len(calls) = 1
    <3>1. <<>> \in Seq({})
      BY NoCallsType
    <3>2. \E X : On(top, <<>>) \in Seq(X)
      BY <3>1, OnProperties
    <3> QED BY <3>2, OnNothing
  <2>2. ~ AwaitsKey(calls) /\ ~ (Len(calls) + 1 > MAX_RECURSION)
    BY <1>3, <2>1, BencodingAssumption, StateOrderAssumption
  <2>3. FillParts(calls, parts, vals, n) /\ AllRead(calls, parts, vals, n)
    BY <1>1, <2>1, LeafParts
  <2>4. part = InBrackets("d", FlattenSeq(WithKeys(keys, parts, n)))
    BY <1>1
  <2>5. \/ Reads(Reading(calls), part, Null) /\ Stuck(calls, keys, parts, vals, n)
        \/ \E map : /\ Filled(map, keys, vals, n) /\ AllRead(calls, parts, vals, n)
                    /\ Reads(Reading(calls), part, Placed(calls, Dict(map)))
    BY <1>2, <2>1, <2>2, <2>3, <2>4, FillItem
  <2> QED BY <2>1, <2>3, <2>5 DEF Stuck
<1>4. CASE \A map : ~ Filled(map, keys, vals, n)
  <2>1. Refused(<<>>, part)
    BY <1>3, <1>4 DEF Refused
  <2> QED BY <2>1
<1>5. ASSUME NEW map, Filled(map, keys, vals, n)
      PROVE  StateOk(map, node) /\ ReadAlike(<<>>, part, Dict(map))
  <2>1. ASSUME NEW top, ~ AwaitsKey(Append(<<>>, top))
        PROVE  Reads(Reading(Append(<<>>, top)), part, Placed(Append(<<>>, top), Dict(map)))
    <3>1. PICK map2 : /\ Filled(map2, keys, vals, n)
                      /\ Reads(Reading(Append(<<>>, top)), part, Placed(Append(<<>>, top), Dict(map2)))
      BY <1>3, <1>5, <2>1
    <3>2. map2 = map
      BY <1>2, <1>5, <3>1, FilledOnce
    <3> QED BY <3>1, <3>2
  <2> QED BY <1>5, <2>1, StateFilled DEF ReadAlike
<1> QED BY <1>4, <1>5

LEMMA BracketsNotEmpty ==
  ASSUME NEW open, NEW Z, NEW s \in Seq(Z)
  PROVE  InBrackets(open, s) # <<>>
<1>1. PICK o : o = Token(open)
  OBVIOUS
<1>2. PICK x : x = Token("e")
  OBVIOUS
<1>3. PICK I : Z \subseteq I /\ o \in I /\ x \in I
  <2>1. Z \subseteq Z \cup {o, x} /\ o \in Z \cup {o, x} /\ x \in Z \cup {o, x}
    OBVIOUS
  <2> QED BY <2>1
<1>4. PICK u \in Seq(I), v \in Seq(I), w \in Seq(I) : u = <<o>> /\ v = <<x>> /\ w = s /\ Len(u) = 1
  <2>1. <<o>> \in Seq(I) /\ <<x>> \in Seq(I) /\ s \in Seq(I) /\ Len(<<o>>) = 1
    BY <1>3, SeqMonotonic
  <2> QED BY <2>1
<1>5. InBrackets(open, s) = (u \o w) \o v
  BY <1>1, <1>2, <1>4 DEF InBrackets
<1>6. u \o w \in Seq(I) /\ (u \o w) \o v \in Seq(I) /\ Len(u \o w) = Len(u) + Len(w)
      /\ Len((u \o w) \o v) = Len(u \o w) + Len(v) /\ Len(w) \in Nat /\ Len(v) \in Nat
  BY ONLY u \in Seq(I), v \in Seq(I), w \in Seq(I), ConcatProperties
<1>7. Len((u \o w) \o v) # 0
  BY <1>4, <1>6
<1> QED BY <1>5, <1>6, <1>7, LongIsNotEmpty

\* THEOREM: a file that was saved, if it is decoded at all, is decoded as the root that the
\* original is decoded as, with a state that has the bitfield it was saved with.
THEOREM FileIsRestored ==
  ASSUME NEW map, NEW keys, NEW parts, NEW vals, NEW n, Origin(map, keys, parts, vals, n),
         Open(map, keys, n), NEW state, NEW node, StateOk(state, node), NEW start \in Int,
         NEW file, file = bencoding_encode(Dict(WithState(map, Dict(state))), start),
         bencoding_decode(file).status = "decoded"
  PROVE  \E state2 : /\ StateOk(state2, node)
                     /\ bencoding_decode(file) = Decoded(Dict(WithState(map, Dict(state2))))
<1>1. PICK b \in Nat : b >= 1 /\ b + 1 = MAX_RECURSION - 1
  <2>1. MAX_RECURSION - 2 \in Nat /\ MAX_RECURSION - 2 >= 1 /\ (MAX_RECURSION - 2) + 1 = MAX_RECURSION - 1
    BY BencodingAssumption, StateOrderAssumption
  <2> QED BY <2>1
<1>2. PICK words, leaves, l :
        /\ StateText(words, leaves, l, node)
        /\ Spells(<<ToEncode(Dict(state))>>, start, b + 1,
                  InBrackets("d", FlattenSeq(WithKeys(words, Leaves(leaves, l), l))))
  BY <1>1, StateSpelled
<1>3. PICK part : part = InBrackets("d", FlattenSeq(WithKeys(words, Leaves(leaves, l), l)))
  OBVIOUS
<1>4. PICK X : part \in Seq(X)
  BY <1>2, <1>3 DEF Spells
<1>5. part # <<>>
  <2>1. PICK Z : WithKeys(words, Leaves(leaves, l), l) \in Seq(Seq(Z))
    <3>1. l \in Nat /\ l \in 0 .. l
      BY <1>2 DEF StateText
    <3>2. PICK leaf : leaf = Leaves(leaves, l)
      OBVIOUS
    <3>3. PICK Y : Y = {TokenOf(leaves[k]) : k \in 1 .. l}
      OBVIOUS
    <3>4. \A k \in 1 .. l : leaf[k] \in Seq(Y)
      BY <3>2, <3>3 DEF Leaves
    <3>5. \E Z : WithKeys(words, leaf, l) \in Seq(Seq(Z))
      BY <3>1, <3>4, WithKeysType, ZenonT(30)
    <3> QED BY <3>2, <3>5
  <2>2. PICK s \in Seq(Z) : s = FlattenSeq(WithKeys(words, Leaves(leaves, l), l))
    BY <2>1, FlattenType
  <2> QED BY <1>3, <2>2, BracketsNotEmpty
<1>6. PICK state2 : /\ Refused(<<>>, part) \/ ReadAlike(<<>>, part, Dict(state2))
                    /\ StateOk(state2, node)
  <2>1. CASE Refused(<<>>, part)
    BY <2>1
  <2>2. CASE \E map2 : StateOk(map2, node) /\ ReadAlike(<<>>, part, Dict(map2))
    BY <2>2
  <2> QED BY <1>2, <1>3, <2>1, <2>2, StateComesBack
<1>7. PICK old : old = Dict(state)
  OBVIOUS
<1>8. PICK new : new = Dict(state2)
  OBVIOUS
<1>9. Spells(<<ToEncode(old)>>, start, MAX_RECURSION - 1, part)
  BY <1>1, <1>2, <1>3, <1>7
<1>10. bencoding_decode(file) = Decoded(Dict(WithState(map, new)))
  BY <1>4, <1>5, <1>6, <1>7, <1>8, <1>9, RootComesBack
<1> QED BY <1>6, <1>8, <1>10

-----------------------------------------------------------------------------
(***************************************************************************)
(* A save: the decoded file is the original root with a state              *)
(***************************************************************************)
RootOf(file) == bencoding_decode(Tokens(file)).node.value

\* The root has the slot free where the state goes, and none of the keys that the
\* client looks for there.
OpenRoot(root) ==
  /\ StateHome \notin DOMAIN root.elements
  /\ \A s \in DOMAIN root.elements :
       /\ place_of(root.elements[s].key) # place_of(STATE_KEY)
       /\ root.elements[s].key \notin {DOWNLOADED_KEY, UPLOADED_KEY}

\* A torrent file whose keys are in order, and that no client has written.
Plain(file) == file.sorted /\ (Loads(Tokens(file)) => OpenRoot(RootOf(file)))

LEMMA PlainIsOpen ==
  ASSUME NEW file \in Files, Plain(file), Loads(Tokens(file)), NEW root, root = RootOf(file)
  PROVE  /\ bencoding_decode(Tokens(file)).node = Dict(root)
         /\ IsMap(root) /\ root.map_size = DICT_SIZE
         /\ \E keys, parts, vals, n : Origin(root, keys, parts, vals, n) /\ Open(root, keys, n)
<1>1. PICK item : item = Tokens(file)
  OBVIOUS
<1>2. item \in DOMAIN Cutting /\ Cutting[item].type = "dict"
  BY <1>1, CuttingAssumption DEF Plain
<1>3. bencoding_decode(item).status = "decoded"
  BY <1>1 DEF Loads
<1>4. PICK map, keys, parts, vals, n :
        Origin(map, keys, parts, vals, n) /\ bencoding_decode(item).node = Dict(map)
  BY <1>2, <1>3, OriginOf
<1>5. root = map
  BY <1>1, <1>4 DEF RootOf, Dict
<1>6. PICK p : IsMap(root) /\ root.map_size = DICT_SIZE /\ EntriesAt(root, p, n, keys, vals)
  BY <1>4, <1>5, FilledEntries DEF Origin, EntriesIn
<1>7. ASSUME NEW k \in 1 .. n
      PROVE  p[k] \in DOMAIN root.elements /\ root.elements[p[k]].key = keys[k]
  <2>1. p[k] \in DOMAIN root.elements /\ root.elements[p[k]] = [key |-> keys[k], value |-> vals[k]]
    BY <1>6 DEF EntriesAt
  <2> QED BY <2>1
<1>8. OpenRoot(root)
  BY DEF Plain
<1>9. \A k \in 1 .. n : place_of(keys[k]) # place_of(STATE_KEY)
  BY <1>7, <1>8 DEF OpenRoot
<1>10. \E k \in 1 .. n : keys[k] = "info"
  <2>1. Has(root, "info")
    <3>1. Accepted(Dict(root)) /\ Dict(root).value = root
      BY <1>1, <1>4, <1>5 DEF Loads, Dict
    <3> QED BY <3>1 DEF Accepted, IsNode
  <2>2. PICK s \in DOMAIN root.elements : root.elements[s].key = "info"
    BY <2>1 DEF Has
  <2>3. PICK k \in 1 .. n : p[k] = s
    BY <1>6 DEF EntriesAt
  <2> QED BY <1>7, <2>2, <2>3
<1>11. Open(root, keys, n)
  BY <1>8, <1>9, <1>10 DEF Open, OpenRoot, StateHome
<1> QED BY <1>1, <1>4, <1>5, <1>6, <1>11

LEMMA HomeOfState ==
  ASSUME NEW map, IsMap(map), map.map_size = DICT_SIZE
  PROVE  Home(map, STATE_KEY) = StateHome /\ StateHome \in Slots(map)
<1>1. hash_of(STATE_KEY) + 0 = hash_of(STATE_KEY)
  BY HashOfType
<1>2. Home(map, STATE_KEY) = StateHome
  BY <1>1 DEF Home, Probe, StateHome
<1>3. Probe(map, STATE_KEY, 0) \in Slots(map)
  BY ProbeType
<1> QED BY <1>2, <1>3 DEF Home

\* What is in the root with a state.
LEMMA WithStateIs ==
  ASSUME NEW root, IsMap(root), root.map_size = DICT_SIZE, OpenRoot(root), NEW node,
         NEW map, map = WithState(root, node)
  PROVE  /\ IsMap(map) /\ map.map_size = DICT_SIZE
         /\ map.elements = Put(root.elements, StateHome, [key |-> STATE_KEY, value |-> node])
         /\ StateHome \in DOMAIN map.elements
         /\ map.elements[StateHome] = [key |-> STATE_KEY, value |-> node]
         /\ DOMAIN root.elements \subseteq DOMAIN map.elements
         /\ \A s \in DOMAIN map.elements :
              s # StateHome => s \in DOMAIN root.elements /\ map.elements[s] = root.elements[s]
<1>1. StateHome \in Slots(root)
  BY HomeOfState
<1>2. PICK x : x = [key |-> STATE_KEY, value |-> node]
  OBVIOUS
<1>3. IsMap(map) /\ map.map_size = DICT_SIZE /\ map.elements = Put(root.elements, StateHome, x)
  BY <1>1, <1>2, WithEntryIs DEF WithState
<1>4. /\ StateHome \in DOMAIN map.elements
      /\ map.elements[StateHome] = x
      /\ DOMAIN root.elements \subseteq DOMAIN map.elements
      /\ \A s \in DOMAIN map.elements :
           s # StateHome => s \in DOMAIN root.elements /\ map.elements[s] = root.elements[s]
  BY <1>3 DEF Put
<1> QED BY <1>2, <1>3, <1>4

\* A save before puts its state where this one does.
LEMMA StateReplaced ==
  ASSUME NEW root, IsMap(root), root.map_size = DICT_SIZE, OpenRoot(root), NEW old,
         NEW map, map = WithState(root, old), NEW node
  PROVE  WithEntry(map, StateHome, STATE_KEY, node) = WithState(root, node)
<1>1. PICK a : a = WithEntry(map, StateHome, STATE_KEY, node)
  OBVIOUS
<1>2. PICK b : b = WithState(root, node)
  OBVIOUS
<1>3. PICK x : x = [key |-> STATE_KEY, value |-> old]
  OBVIOUS
<1>4. PICK y : y = [key |-> STATE_KEY, value |-> node]
  OBVIOUS
<1>5. IsMap(map) /\ map.map_size = DICT_SIZE /\ map.elements = Put(root.elements, StateHome, x)
  BY <1>3, WithStateIs
<1>6. IsMap(b) /\ b.map_size = DICT_SIZE /\ b.elements = Put(root.elements, StateHome, y)
  BY <1>2, <1>4, WithStateIs
<1>7. StateHome \in Slots(map)
  BY <1>5, HomeOfState
<1>8. IsMap(a) /\ a.map_size = DICT_SIZE /\ a.elements = Put(map.elements, StateHome, y)
  BY <1>1, <1>4, <1>5, <1>7, WithEntryIs
<1>9. a.elements = b.elements
  BY <1>5, <1>6, <1>8, PutAgain
<1> QED BY <1>1, <1>2, <1>6, <1>8, <1>9, SameMap

\* The root as it was loaded, or with a state of a save.
Holding(map, root, node) == \E state : StateOk(state, node) /\ map = WithState(root, Dict(state))
RootOk(map, root, count) == map = root \/ \E bits : Holding(map, root, Str(bits, count))

LEMMA NoCountsAtRoot ==
  ASSUME NEW root, IsMap(root), root.map_size = DICT_SIZE, OpenRoot(root), NEW count,
         NEW map, RootOk(map, root, count), NEW key \in {DOWNLOADED_KEY, UPLOADED_KEY}
  PROVE  ~ Has(map, key)
<1> SUFFICES ASSUME NEW s \in DOMAIN map.elements PROVE map.elements[s].key # key
  BY DEF Has
<1>1. CASE map = root
  BY <1>1 DEF OpenRoot
<1>2. CASE \E node : map = WithState(root, node)
  <2>1. STATE_KEY # key
    BY DEF STATE_KEY, DOWNLOADED_KEY, UPLOADED_KEY
  <2>5. PICK node : map = WithState(root, node)
    BY <1>2
  <2>4. /\ map.elements[StateHome] = [key |-> STATE_KEY, value |-> node]
        /\ \A i \in DOMAIN map.elements :
             i # StateHome => i \in DOMAIN root.elements /\ map.elements[i] = root.elements[i]
    BY <2>5, WithStateIs
  <2>2. CASE s = StateHome
    BY <2>1, <2>2, <2>4
  <2>3. CASE s # StateHome
    <3>1. s \in DOMAIN root.elements /\ map.elements[s] = root.elements[s]
      BY <2>3, <2>4
    <3> QED BY <3>1 DEF OpenRoot
  <2> QED BY <2>2, <2>3
<1> QED BY <1>1, <1>2 DEF RootOk, Holding

\* Where the state is, and what it is.
LEMMA StateAtRoot ==
  ASSUME NEW root, IsMap(root), root.map_size = DICT_SIZE, OpenRoot(root), NEW node
  PROVE  /\ HasPlace(root) /\ StateSlot(root) = StateHome /\ ~ Has(root, STATE_KEY)
         /\ LET map == WithState(root, Dict(node))
            IN  /\ HasPlace(map) /\ StateSlot(map) = StateHome /\ Has(map, STATE_KEY)
                /\ hashmap_get(map, STATE_KEY) = Dict(node)
<1>1. Home(root, STATE_KEY) = StateHome /\ StateHome \in Slots(root)
  BY HomeOfState
<1>2. ~ Has(root, STATE_KEY) /\ StateHome \notin DOMAIN root.elements
  BY <1>1 DEF Has, OpenRoot
<1>3. HasRoom(root, STATE_KEY)
  BY <1>1, <1>2, RoomWhileFree
<1>4. HasPlace(root) /\ StateSlot(root) = StateHome
  BY <1>1, <1>2, <1>3, FreeSlotProperties DEF HasPlace, StateSlot
<1>5. PICK map : map = WithState(root, Dict(node))
  OBVIOUS
<1>6. PICK x : x = Dict(node)
  OBVIOUS
<1>7. /\ IsMap(map) /\ map.map_size = DICT_SIZE /\ StateHome \in DOMAIN map.elements
      /\ map.elements[StateHome] = [key |-> STATE_KEY, value |-> x]
  BY <1>5, <1>6, WithStateIs
<1>8. Home(map, STATE_KEY) = StateHome
  BY <1>7, HomeOfState
<1>9. Has(map, STATE_KEY) /\ hashmap_get(map, STATE_KEY) = x
  BY <1>7, <1>8 DEF Has, hashmap_get
<1>10. IsNode(map, STATE_KEY, "dict")
  BY <1>6, <1>9 DEF IsNode, Dict
<1>11. HasPlace(map) /\ StateSlot(map) = StateHome
  BY <1>8, <1>9, <1>10 DEF HasPlace, StateSlot
<1> QED BY <1>2, <1>4, <1>5, <1>6, <1>9, <1>11

\* The record that save_state works on, once it has the bitfield.
SaveOk(s, d, node) ==
  s = [ok |-> s.ok, decoded |-> d, state |-> s.state] /\ StateOk(s.state, node)

LEMMA SaveOkState ==
  ASSUME NEW d, NEW node, NEW s, SaveOk(s, d, node), NEW map, StateOk(map, node)
  PROVE  SaveOk([s EXCEPT !.state = map], d, node) /\ SaveOk([s EXCEPT !.ok = FALSE], d, node)
<1>1. PICK no : no = FALSE
  OBVIOUS
<1>2. SaveOk([s EXCEPT !.state = map], d, node) /\ SaveOk([s EXCEPT !.ok = no], d, node)
  BY DEF SaveOk
<1> QED BY <1>1, <1>2

LEMMA SaveOkInsert ==
  ASSUME NEW d, NEW node, NEW s, SaveOk(s, d, node), NEW key \in StateKeys, key # BITFIELD_KEY,
         NEW v, IsLeaf(v)
  PROVE  SaveOk(Insert(s, key, v), d, node)
<1>1. CASE HasRoom(s.state, key)
  <2>1. StateOk(hashmap_insert(s.state, key, v), node)
    BY <1>1, StateInsert DEF SaveOk
  <2> QED BY <1>1, <2>1, SaveOkState DEF Insert
<1>2. CASE ~ HasRoom(s.state, key)
  BY <1>2, SaveOkState DEF Insert, SaveOk
<1> QED BY <1>1, <1>2

LEMMA SaveOkDir ==
  ASSUME NEW d, NEW node, NEW s, SaveOk(s, d, node), NEW t
  PROVE  SaveOk(save_download_dir(s, t), d, node)
<1>1. PICK v : v = Str(t.download_dir, 1)
  OBVIOUS
<1>2. IsLeaf(v) /\ DOWNLOAD_DIR_KEY \in StateKeys /\ DOWNLOAD_DIR_KEY # BITFIELD_KEY
  <2>1. IsLeaf(v)
    BY <1>1 DEF IsLeaf, Str
  <2> QED BY <2>1 DEF StateKeys, DOWNLOAD_DIR_KEY, BITFIELD_KEY
<1>3. CASE Has(s.state, DOWNLOAD_DIR_KEY)
  <2>1. StateOk(Overwrite(s.state, DOWNLOAD_DIR_KEY, v), node)
    BY <1>2, <1>3, StateOverwritten DEF SaveOk
  <2> QED BY <1>1, <1>3, <2>1, SaveOkState DEF save_download_dir
<1>4. CASE ~ Has(s.state, DOWNLOAD_DIR_KEY)
  <2>1. SaveOk(Insert(s, DOWNLOAD_DIR_KEY, v), d, node)
    BY <1>2, SaveOkInsert
  <2>2. SaveOk([s EXCEPT !.ok = FALSE], d, node)
    BY SaveOkState DEF SaveOk
  <2> QED BY <1>1, <1>4, <2>1, <2>2 DEF save_download_dir
<1> QED BY <1>3, <1>4

LEMMA SaveOkCount ==
  ASSUME NEW d, NEW node, NEW s, SaveOk(s, d, node), NEW key \in {DOWNLOADED_KEY, UPLOADED_KEY},
         ~ Has(d, key), NEW value
  PROVE  SaveOk(save_data_count(s, key, value), d, node)
<1>1. IsLeaf(Num(value)) /\ key \in StateKeys /\ key # BITFIELD_KEY
  <2>1. IsLeaf(Num(value))
    BY DEF IsLeaf, Num
  <2> QED BY <2>1 DEF StateKeys, BITFIELD_KEY, DOWNLOADED_KEY, UPLOADED_KEY
<1>2. SaveOk(Insert(s, key, Num(value)), d, node)
  BY <1>1, SaveOkInsert
<1>3. ~ Has(s.decoded, key)
  <2>1. s.decoded = d
    BY DEF SaveOk
  <2> QED BY <2>1
<1> QED BY <1>2, <1>3 DEF save_data_count

LEMMA SaveOkBitfield ==
  ASSUME NEW d, NEW t, NEW state,
         \/ IsMap(state) /\ DOMAIN state.elements = {}
         \/ \E bits : StateOk(state, Str(bits, t.piece_count)),
         NEW s, s = [ok |-> TRUE, decoded |-> d, state |-> state]
  PROVE  SaveOk(save_bitfield(s, t), d, Str(t.bitfield, t.piece_count))
<1>1. PICK node : node = Str(t.bitfield, t.piece_count)
  OBVIOUS
<1>2. IsLeaf(node) /\ BITFIELD_KEY \in StateKeys
  <2>1. IsLeaf(node)
    BY <1>1 DEF IsLeaf, Str
  <2> QED BY <2>1 DEF StateKeys
<1>3. PICK yes : s = [ok |-> yes, decoded |-> d, state |-> state] /\ s.state = state
  <2>1. PICK yes : yes = TRUE
    OBVIOUS
  <2>2. s = [ok |-> yes, decoded |-> d, state |-> state]
    BY <2>1, Zenon
  <2> QED BY <2>2
<1>4. ASSUME NEW map, StateOk(map, node) PROVE SaveOk([s EXCEPT !.state = map], d, node)
  <2>1. [s EXCEPT !.state = map] = [ok |-> yes, decoded |-> d, state |-> map]
    BY ONLY <1>3
  <2> QED BY <1>4, <2>1 DEF SaveOk
<1>5. CASE IsMap(state) /\ DOMAIN state.elements = {}
  <2>1. ~ Has(state, BITFIELD_KEY)
    BY <1>5 DEF Has
  <2>2. HasRoom(state, BITFIELD_KEY) /\ StateOk(hashmap_insert(state, BITFIELD_KEY, node), node)
    BY <1>2, <1>5, StateBegins
  <2> QED BY <1>1, <1>3, <1>4, <2>1, <2>2 DEF save_bitfield, Insert
<1>6. CASE \E bits : StateOk(state, Str(bits, t.piece_count))
  <2>1. PICK bits, old : old = Str(bits, t.piece_count) /\ StateOk(state, old)
    BY <1>6
  <2>2. Has(state, BITFIELD_KEY) /\ hashmap_get(state, BITFIELD_KEY) = old
    BY <2>1 DEF StateOk, Has, hashmap_get
  <2>3. IsNode(state, BITFIELD_KEY, "str") /\ hashmap_get(state, BITFIELD_KEY).len = t.piece_count
    BY <2>1, <2>2 DEF IsNode, Str
  <2>4. StateOk(Overwrite(state, BITFIELD_KEY, node), node)
    BY <1>2, <2>1, <2>2, StateOverwritten
  <2> QED BY <1>1, <1>3, <1>4, <2>2, <2>3, <2>4 DEF save_bitfield
<1> QED BY <1>1, <1>5, <1>6

\* save_state, whether it succeeds or not, leaves a root with a state that has the
\* bitfield of this save.
LEMMA SavedHolds ==
  ASSUME NEW root, IsMap(root), root.map_size = DICT_SIZE, OpenRoot(root),
         NEW t, RootOk(t.decoded, root, t.piece_count)
  PROVE  /\ StateOk(Saved(t).state, Str(t.bitfield, t.piece_count))
         /\ Saved(t).decoded = WithState(root, Dict(Saved(t).state))
<1> DEFINE d == t.decoded
           node == Str(t.bitfield, t.piece_count)
           state == IF Has(t.decoded, STATE_KEY) THEN hashmap_get(t.decoded, STATE_KEY).value
                    ELSE hashmap_init(STATE_SIZE)
           s0 == [ok |-> TRUE, decoded |-> t.decoded, state |-> state]
           s1 == save_bitfield(s0, t)
           s2 == save_download_dir(s1, t)
           s3 == save_data_count(s2, DOWNLOADED_KEY, t.downloaded)
           s4 == save_data_count(s3, UPLOADED_KEY, t.uploaded)
<1>1. /\ HasPlace(d) /\ StateSlot(d) = StateHome
      /\ \/ IsMap(state) /\ DOMAIN state.elements = {}
         \/ \E bits : StateOk(state, Str(bits, t.piece_count))
  <2>1. CASE d = root
    <3>1. ~ Has(d, STATE_KEY) /\ HasPlace(d) /\ StateSlot(d) = StateHome
      BY <2>1, StateAtRoot
    <3>2. state = hashmap_init(STATE_SIZE)
      BY <3>1
    <3> QED BY <3>1, <3>2, InitIsMap, StatePersistAssumption
  <2>2. CASE \E bits : Holding(d, root, Str(bits, t.piece_count))
    <3>1. PICK bits, old : StateOk(old, Str(bits, t.piece_count)) /\ d = WithState(root, Dict(old))
      BY <2>2 DEF Holding
    <3>2. /\ HasPlace(d) /\ StateSlot(d) = StateHome /\ Has(d, STATE_KEY)
          /\ hashmap_get(d, STATE_KEY) = Dict(old)
      BY <3>1, StateAtRoot
    <3>3. state = old
      BY <3>2 DEF Dict
    <3> QED BY <3>1, <3>2, <3>3
  <2> QED BY <2>1, <2>2 DEF RootOk
<1>2. Saved(t) = [ok |-> s4.ok, defined |-> s2.ok => DirIsString(s1.state) /\ CountsAreNumbers(t.decoded),
                  decoded |-> WithEntry(s4.decoded, StateSlot(t.decoded), STATE_KEY, Dict(s4.state)),
                  state |-> s4.state]
  BY <1>1, Zenon DEF Saved
<1>3. ~ Has(d, DOWNLOADED_KEY) /\ ~ Has(d, UPLOADED_KEY)
  BY NoCountsAtRoot
<1>4. SaveOk(s4, d, node)
  <2> HIDE DEF state, node
  <2>1. SaveOk(s1, d, node)
    BY <1>1, SaveOkBitfield DEF node
  <2> HIDE DEF s0, d, s1
  <2>2. SaveOk(s2, d, node)
    BY <2>1, SaveOkDir
  <2> HIDE DEF s2
  <2>3. SaveOk(s3, d, node)
    BY <1>3, <2>2, SaveOkCount
  <2> HIDE DEF s3
  <2> QED BY <1>3, <2>3, SaveOkCount
<1>5. PICK map : map = s4.state /\ s4.decoded = d /\ StateOk(map, node)
  BY <1>4 DEF SaveOk
<1>6. PICK more : more = WithEntry(d, StateHome, STATE_KEY, Dict(map))
  OBVIOUS
<1>7. Saved(t).state = map /\ Saved(t).decoded = more
  <2>1. PICK a, b : Saved(t) = [ok |-> a, defined |-> b, decoded |-> more, state |-> map]
    <3> HIDE DEF s4, s2
    <3> QED BY <1>1, <1>2, <1>5, <1>6, Zenon
  <2> QED BY ONLY <2>1
<1>8. more = WithState(root, Dict(map))
  <2>1. CASE d = root
    BY <1>6, <2>1 DEF WithState
  <2>2. CASE \E old : d = WithState(root, old)
    BY <1>6, <2>2, StateReplaced
  <2> QED BY <2>1, <2>2 DEF RootOk, Holding
<1> QED BY <1>5, <1>7, <1>8

-----------------------------------------------------------------------------
(***************************************************************************)
(* A start: the torrent is that of the original, with its bitfield or none *)
(***************************************************************************)
InfoLayout(info) ==
  [files |-> FileLengths(info), piece_count |-> piece_count(info),
   piece_length |-> piece_length(info), length |-> length(info)]

\* What parse_state changes in a torrent.
Parsed(t, t2, d, u, dir, bits) ==
  t2 = [t EXCEPT !.downloaded = d, !.uploaded = u, !.download_dir = dir, !.bitfield = bits]

LEMMA ParseLayout ==
  ASSUME NEW node, NEW info, info = hashmap_get(node.value, "info").value,
         NEW state, state = hashmap_get(node.value, STATE_KEY).value,
         NEW none, none = [i \in 0 .. piece_count(info) - 1 |-> 0]
  PROVE  LET t == parse_state(Torrent(node))
         IN  /\ LayoutOf(t) = InfoLayout(info)
             /\ \/ t.bitfield = none
                \/ /\ IsNode(node.value, STATE_KEY, "dict")
                   /\ t.bitfield = hashmap_get(state, BITFIELD_KEY).value
<1>1. PICK h, c, l, n, f, zero, word, map :
        /\ c = piece_count(info) /\ l = piece_length(info) /\ n = length(info)
        /\ f = FileLengths(info) /\ map = node.value
        /\ Torrent(node) = [decoded |-> map, infohash |-> h, piece_count |-> c,
                            piece_length |-> l, length |-> n, files |-> f, bitfield |-> none,
                            downloaded |-> zero, uploaded |-> zero, download_dir |-> word]
  BY Zenon DEF Torrent
<1>2. PICK t : t = Torrent(node)
  OBVIOUS
<1>3. LayoutOf(t) = InfoLayout(info) /\ t.bitfield = none /\ t.decoded = map
  BY <1>1, <1>2 DEF LayoutOf, InfoLayout
<1>4. PICK saved_bits : saved_bits = hashmap_get(state, BITFIELD_KEY).value
  OBVIOUS
<1>5. ASSUME NEW d, NEW u, NEW dir, NEW bits,
             Parsed(t, parse_state(t), d, u, dir, bits)
      PROVE  LayoutOf(parse_state(t)) = LayoutOf(t) /\ parse_state(t).bitfield = bits
  <2>1. PICK t1 : t1 = [t EXCEPT !.downloaded = d]
    OBVIOUS
  <2>2. t1 = [decoded |-> map, infohash |-> h, piece_count |-> c,
              piece_length |-> l, length |-> n, files |-> f, bitfield |-> none,
              downloaded |-> d, uploaded |-> zero, download_dir |-> word]
    BY ONLY <1>1, <1>2, <2>1
  <2>3. PICK t2 : t2 = [t1 EXCEPT !.uploaded = u]
    OBVIOUS
  <2>4. t2 = [decoded |-> map, infohash |-> h, piece_count |-> c,
              piece_length |-> l, length |-> n, files |-> f, bitfield |-> none,
              downloaded |-> d, uploaded |-> u, download_dir |-> word]
    BY <2>2, <2>3
  <2>5. PICK t3 : t3 = [t2 EXCEPT !.download_dir = dir]
    OBVIOUS
  <2>6. t3 = [decoded |-> map, infohash |-> h, piece_count |-> c,
              piece_length |-> l, length |-> n, files |-> f, bitfield |-> none,
              downloaded |-> d, uploaded |-> u, download_dir |-> dir]
    BY <2>4, <2>5
  <2>7. PICK t4 : t4 = [t3 EXCEPT !.bitfield = bits]
    OBVIOUS
  <2>8. t4 = [decoded |-> map, infohash |-> h, piece_count |-> c,
              piece_length |-> l, length |-> n, files |-> f, bitfield |-> bits,
              downloaded |-> d, uploaded |-> u, download_dir |-> dir]
    BY <2>6, <2>7
  <2>9. parse_state(t) = t4
    BY <1>5, <2>1, <2>3, <2>5, <2>7, Zenon DEF Parsed
  <2>10. LayoutOf(t) = [files |-> f, piece_count |-> c, piece_length |-> l, length |-> n]
    BY <1>1, <1>2 DEF LayoutOf
  <2>11. LayoutOf(t4) = [files |-> f, piece_count |-> c, piece_length |-> l, length |-> n]
    BY <2>8 DEF LayoutOf
  <2>12. t4.bitfield = bits
    BY <2>8
  <2> QED BY <2>9, <2>10, <2>11, <2>12
<1>6. /\ LayoutOf(parse_state(t)) = LayoutOf(t)
      /\ \/ parse_state(t).bitfield = none
         \/ IsNode(map, STATE_KEY, "dict") /\ parse_state(t).bitfield = saved_bits
  <2>1. state = hashmap_get(t.decoded, STATE_KEY).value
    BY <1>1, <1>3
  <2>2. CASE ~ IsNode(t.decoded, STATE_KEY, "dict") \/ ~ IsNode(state, DOWNLOAD_DIR_KEY, "str")
    <3>1. parse_state(t) = t
      BY <2>1, <2>2, Zenon DEF parse_state
    <3> QED BY <1>3, <3>1
  <2>3. CASE ~ (~ IsNode(t.decoded, STATE_KEY, "dict") \/ ~ IsNode(state, DOWNLOAD_DIR_KEY, "str"))
    <3>1. parse_state(t) = [t EXCEPT !.downloaded = Count(state, DOWNLOADED_KEY, @),
                                     !.uploaded = Count(state, UPLOADED_KEY, @),
                                     !.download_dir = hashmap_get(state, DOWNLOAD_DIR_KEY).value,
                                     !.bitfield = IF BitfieldFits(state, t)
                                                  THEN hashmap_get(state, BITFIELD_KEY).value ELSE @]
      BY <2>1, <2>3, Zenon DEF parse_state
    <3>2. PICK dir : dir = hashmap_get(state, DOWNLOAD_DIR_KEY).value
      OBVIOUS
    <3>3. PICK d : d = Count(state, DOWNLOADED_KEY, t.downloaded)
      OBVIOUS
    <3>4. PICK u : u = Count(state, UPLOADED_KEY, t.uploaded)
      OBVIOUS
    <3>5. PICK bits \in {none, saved_bits} :
            bits = IF BitfieldFits(state, t) THEN saved_bits ELSE none
      BY Zenon
    <3>6. parse_state(t) = [t EXCEPT !.downloaded = Count(state, DOWNLOADED_KEY, t.downloaded),
                                     !.uploaded = Count(state, UPLOADED_KEY, t.uploaded),
                                     !.download_dir = dir,
                                     !.bitfield = IF BitfieldFits(state, t)
                                                  THEN saved_bits ELSE t.bitfield]
      BY <1>4, <3>1, <3>2, Zenon
    <3>7. Parsed(t, parse_state(t), d, u, dir, bits)
      BY <1>3, <3>3, <3>4, <3>5, <3>6, Zenon DEF Parsed
    <3>8. LayoutOf(parse_state(t)) = LayoutOf(t) /\ parse_state(t).bitfield = bits
      BY ONLY <1>5, <3>7
    <3> QED BY <1>3, <2>3, <3>5, <3>8
  <2> QED BY <2>2, <2>3
<1> QED BY <1>1, <1>2, <1>3, <1>4, <1>6

LEMMA InfoStays ==
  ASSUME NEW root, IsMap(root), root.map_size = DICT_SIZE, OpenRoot(root), Has(root, "info"),
         NEW node, NEW map, map = WithState(root, node)
  PROVE  hashmap_get(map, "info") = hashmap_get(root, "info")
<1>1. PICK home \in DOMAIN root.elements : home = Home(root, "info")
  BY DEF Has
<1>2. home # StateHome
  BY DEF OpenRoot
<1>3. /\ map.map_size = DICT_SIZE /\ home \in DOMAIN map.elements
      /\ \A s \in DOMAIN map.elements :
           s # StateHome => s \in DOMAIN root.elements /\ map.elements[s] = root.elements[s]
  <2>1. /\ map.map_size = DICT_SIZE
        /\ map.elements[StateHome] = [key |-> STATE_KEY, value |-> node]
        /\ DOMAIN root.elements \subseteq DOMAIN map.elements
        /\ \A s \in DOMAIN map.elements :
             s # StateHome => s \in DOMAIN root.elements /\ map.elements[s] = root.elements[s]
    BY WithStateIs
  <2> QED BY <2>1
<1>4. Home(map, "info") = home
  BY <1>1, <1>3 DEF Home, Probe
<1>5. map.elements[home] = root.elements[home]
  BY <1>2, <1>3
<1> QED BY <1>1, <1>4, <1>5 DEF hashmap_get

\* What a start makes of the root, with or without a state.
LEMMA RootLoaded ==
  ASSUME NEW root, IsMap(root), root.map_size = DICT_SIZE, OpenRoot(root), Has(root, "info"),
         NEW info, info = hashmap_get(root, "info").value,
         NEW l, l = InfoLayout(info), NEW bits, NEW count, NEW map,
         map = root \/ Holding(map, root, Str(bits, count))
  PROVE  LET t == parse_state(Torrent(Dict(map)))
         IN  /\ LayoutOf(t) = l
             /\ t.bitfield = NoPieces(l) \/ (map # root /\ t.bitfield = bits)
<1>1. PICK node : node = Dict(map)
  OBVIOUS
<1>2. node.value = map
  BY <1>1 DEF Dict
<1>3. info = hashmap_get(map, "info").value
  <2>1. CASE map = root
    BY <2>1
  <2>2. CASE Holding(map, root, Str(bits, count))
    <3>1. PICK state : map = WithState(root, Dict(state))
      BY <2>2 DEF Holding
    <3> QED BY <3>1, InfoStays
  <2> QED BY <2>1, <2>2
<1>4. PICK none : none = [i \in 0 .. piece_count(info) - 1 |-> 0]
  OBVIOUS
<1>5. none = NoPieces(l)
  BY <1>4 DEF NoPieces, Pieces, Layout!Pieces, InfoLayout
<1>6. PICK state : state = hashmap_get(map, STATE_KEY).value
  OBVIOUS
<1>7. PICK t : t = parse_state(Torrent(node))
  OBVIOUS
<1>8. /\ LayoutOf(t) = InfoLayout(info)
      /\ \/ t.bitfield = none
         \/ IsNode(map, STATE_KEY, "dict") /\ t.bitfield = hashmap_get(state, BITFIELD_KEY).value
  BY <1>2, <1>3, <1>4, <1>6, <1>7, ParseLayout
<1>9. CASE map = root
  <2>1. ~ IsNode(map, STATE_KEY, "dict")
    BY <1>9, StateAtRoot DEF IsNode
  <2> QED BY <1>1, <1>5, <1>7, <1>8, <2>1
<1>10. CASE map # root /\ Holding(map, root, Str(bits, count))
  <2>1. PICK old, saved_node : /\ saved_node = Str(bits, count) /\ StateOk(old, saved_node)
                               /\ map = WithState(root, Dict(old))
    BY <1>10 DEF Holding
  <2>2. hashmap_get(map, STATE_KEY) = Dict(old)
    BY <2>1, StateAtRoot
  <2>3. state = old
    BY <1>6, <2>2 DEF Dict
  <2>4. hashmap_get(state, BITFIELD_KEY) = saved_node
    BY <2>1, <2>3 DEF StateOk, hashmap_get
  <2>5. hashmap_get(state, BITFIELD_KEY).value = bits
    BY <2>1, <2>4 DEF Str
  <2> QED BY <1>1, <1>5, <1>7, <1>8, <1>10, <2>5
<1> QED BY <1>9, <1>10

-----------------------------------------------------------------------------
(***************************************************************************)
(* The client implements PieceStore                                        *)
(***************************************************************************)
LoadedLayout(file) == LayoutOf(load_torrent_metadata(Tokens(file)))

\* If the tokens load at all, then as the original, with the state of a save that had
\* this bitfield.
Restores(file, tokens, bits) ==
  Loads(tokens) =>
    /\ DOMAIN bits = Pieces(LoadedLayout(file))
    /\ \E map : /\ bencoding_decode(tokens).node = Dict(map)
                /\ Holding(map, RootOf(file), Str(bits, LoadedLayout(file).piece_count))

LEMMA EmptyDoesNotLoad == ~ Loads(<<>>)
<1>1. Reads(Reading(<<>>), <<>>, Reading(<<>>))
  BY ReadsNothing
<1>2. Reading(<<>>).status # "decoded"
  BY DEF Reading
<1>3. bencoding_decode(<<>>) = Null
  BY <1>1, <1>2, NoCallsType, DecodeReads
<1> QED BY <1>3 DEF Loads, Null

LEMMA LoadRoot ==
  ASSUME NEW file \in Files, Plain(file), Loads(Tokens(file)), NEW l, l = LoadedLayout(file),
         NEW tokens, NEW bits,
         tokens = Tokens(file) \/ (Loads(tokens) /\ Restores(file, tokens, bits)),
         NEW t, t = load_torrent_metadata(tokens)
  PROVE  /\ LayoutOf(t) = l /\ RootOk(t.decoded, RootOf(file), l.piece_count)
         /\ \/ t.bitfield = NoPieces(l)
            \/ t.bitfield = bits /\ DOMAIN bits = Pieces(l)
<1>1. PICK root : root = RootOf(file)
  OBVIOUS
<1>2. bencoding_decode(Tokens(file)).node = Dict(root) /\ IsMap(root) /\ root.map_size = DICT_SIZE
  BY <1>1, PlainIsOpen
<1>3. OpenRoot(root)
  BY <1>1 DEF Plain
<1>4. Has(root, "info")
  <2>1. Accepted(Dict(root)) /\ Dict(root).value = root
    BY <1>2 DEF Loads, Dict
  <2> QED BY <2>1 DEF Accepted, IsNode
<1>5. PICK info : info = hashmap_get(root, "info").value
  OBVIOUS
<1>6. l = InfoLayout(info)
  <2>1. PICK i : i = InfoLayout(info)
    OBVIOUS
  <2>2. LayoutOf(parse_state(Torrent(Dict(root)))) = i
    BY <1>2, <1>3, <1>4, <1>5, <2>1, RootLoaded
  <2> QED BY <1>2, <2>1, <2>2 DEF LoadedLayout, load_torrent_metadata
<1>7. PICK map : /\ bencoding_decode(tokens).node = Dict(map)
                 /\ map = root \/ (Holding(map, root, Str(bits, l.piece_count)) /\ DOMAIN bits = Pieces(l))
  BY <1>1, <1>2 DEF Restores
<1>8. t = parse_state(Torrent(Dict(map)))
  BY <1>7 DEF load_torrent_metadata
<1>9. /\ LayoutOf(t) = l
      /\ t.bitfield = NoPieces(l) \/ (map # root /\ t.bitfield = bits)
  BY <1>2, <1>3, <1>4, <1>5, <1>6, <1>7, <1>8, RootLoaded
<1>10. t.decoded = map
  <2>1. t.decoded = Dict(map).value
    BY <1>8, ParseKeeps
  <2> QED BY <2>1 DEF Dict
<1>11. RootOk(t.decoded, root, l.piece_count)
  BY <1>7, <1>10 DEF RootOk
<1> QED BY <1>1, <1>7, <1>9, <1>11

\* A torrent has a piece, so that its bitfield is not nothing.
LEMMA KeptIsSomething ==
  ASSUME NEW l \in Layouts, NEW bits, DOMAIN bits = Pieces(l)
  PROVE  bits # NothingKept
<1>1. 0 \in Pieces(l)
  BY PieceStoreAssumption DEF Pieces, Layout!Pieces
<1>2. DOMAIN <<>> = 1 .. 0
  OBVIOUS
<1> QED BY <1>1, <1>2 DEF NothingKept

\* Before the first start, and after it.
Fresh == mode = "off" /\ layout = NoLayout /\ disk = <<>> /\ saved = <<>>

Resumed ==
  /\ Loads(Tokens(torrent_file)) /\ layout = LoadedLayout(torrent_file)
  /\ Loaded => /\ RootOk(torrent.decoded, RootOf(torrent_file), layout.piece_count)
               /\ DOMAIN bitfield = Pieces(layout)
  /\ mode = "save" => saved = <<>> /\ Restores(torrent_file, out, bitfield)
  /\ mode # "save" => Restores(torrent_file, saved, kept)

RestoreInv == torrent_file \in Files /\ Plain(torrent_file) /\ (Fresh \/ Resumed)

\* A start is one of PieceStore, with the bitfield that was kept or none.
LEMMA StartRestores ==
  ASSUME RestoreInv, Start
  PROVE  Resumed' /\ BeginAny
<1>1. PICK tokens, past : /\ mode = "off" /\ Load(tokens, past)
                          /\ tokens = Tokens(torrent_file) \/ tokens = saved
  BY DEF Start
<1>2. PICK t : t = load_torrent_metadata(tokens)
  OBVIOUS
<1>3. /\ Loads(tokens) /\ Begin(LayoutOf(t), t.bitfield)
      /\ torrent' = [decoded |-> t.decoded, infohash |-> t.infohash, download_dir |-> "dir",
                     downloaded |-> t.downloaded, uploaded |-> t.uploaded]
      /\ UNCHANGED <<torrent_file, saved, out, written, save_failed, saves>>
  BY <1>1, <1>2 DEF Load
<1>4. PICK file \in Files : file = torrent_file /\ Plain(file)
  BY DEF RestoreInv
<1>5. PICK l : l = LoadedLayout(file)
  OBVIOUS
<1>6. /\ Loads(Tokens(file)) /\ Restores(file, saved, kept)
      /\ disk # <<>> => l = layout
  <2>1. CASE Fresh
    <3>1. ~ Loads(saved) /\ disk = <<>>
      BY <2>1, EmptyDoesNotLoad DEF Fresh
    <3> QED BY <1>1, <1>3, <1>4, <3>1 DEF Restores
  <2>2. CASE Resumed
    BY <1>1, <1>4, <1>5, <2>2 DEF Resumed
  <2> QED BY <2>1, <2>2 DEF RestoreInv
<1>7. /\ LayoutOf(t) = l /\ RootOk(t.decoded, RootOf(file), l.piece_count)
      /\ \/ t.bitfield = NoPieces(l)
         \/ t.bitfield = kept /\ DOMAIN kept = Pieces(l)
  <2>1. tokens = Tokens(file) \/ (Loads(tokens) /\ Restores(file, tokens, kept))
    BY <1>1, <1>3, <1>4, <1>6
  <2> QED BY <1>2, <1>4, <1>5, <1>6, <2>1, LoadRoot
<1>8. l \in Layouts
  BY <1>4, <1>5, <1>6, LayoutsAssumption DEF LoadedLayout
<1>9. BeginAny
  <2>1. Begin(l, NoPieces(l)) \/ (kept # NothingKept /\ Begin(l, kept))
    BY <1>3, <1>7, <1>8, KeptIsSomething
  <2> QED BY <1>1, <1>6, <1>8, <2>1 DEF BeginAny
<1>10. /\ layout' = l /\ bitfield' = t.bitfield /\ mode' # "save" /\ UNCHANGED kept
       /\ torrent'.decoded = t.decoded
  BY <1>3, <1>7 DEF Begin
<1>11. DOMAIN t.bitfield = Pieces(l)
  BY <1>7 DEF NoPieces
<1>12. Restores(file, saved', kept')
  BY <1>3, <1>6, <1>10
<1> QED BY <1>3, <1>4, <1>5, <1>6, <1>7, <1>9, <1>10, <1>11, <1>12 DEF Resumed, Loaded

\* What save_state does to the decoded file, and what it returns.
LEMMA SaveRestores ==
  ASSUME NEW file \in Files, Plain(file), Loads(Tokens(file)),
         RootOk(torrent.decoded, RootOf(file), layout.piece_count),
         layout = LoadedLayout(file), DOMAIN bitfield = Pieces(layout)
  PROVE  /\ RootOk(Saved(Current).decoded, RootOf(file), layout.piece_count)
         /\ \A start \in {0} \cup CountSlots(Saved(Current).state) :
              Restores(file, bencoding_encode(Dict(Saved(Current).decoded), start), bitfield)
<1>1. PICK root : root = RootOf(file)
  OBVIOUS
<1>2. PICK keys, parts, vals, n : Origin(root, keys, parts, vals, n) /\ Open(root, keys, n)
  BY <1>1, PlainIsOpen
<1>3. IsMap(root) /\ root.map_size = DICT_SIZE
  BY <1>1, PlainIsOpen
<1>4. OpenRoot(root)
  BY <1>1 DEF Plain
<1>5. PICK t : t = Current
  OBVIOUS
<1>6. t.decoded = torrent.decoded /\ t.bitfield = bitfield /\ t.piece_count = layout.piece_count
  BY <1>5 DEF Current
<1>7. PICK node : node = Str(bitfield, layout.piece_count)
  OBVIOUS
<1>8. PICK state, map : /\ state = Saved(t).state /\ map = Saved(t).decoded
                        /\ StateOk(state, node) /\ map = WithState(root, Dict(state))
  <2>1. RootOk(t.decoded, root, t.piece_count)
    BY <1>1, <1>6
  <2> QED BY <1>3, <1>4, <1>6, <1>7, <2>1, SavedHolds
<1>9. RootOk(map, root, layout.piece_count)
  BY <1>7, <1>8 DEF RootOk, Holding
<1>10. ASSUME NEW start \in {0} \cup CountSlots(state)
       PROVE  Restores(file, bencoding_encode(Dict(map), start), bitfield)
  <2>1. start \in Int
    <3>1. CountSlots(state) \subseteq Int
      BY <1>8 DEF CountSlots, StateOk, IsMap, Slots
    <3> QED BY <3>1
  <2>2. PICK tokens : tokens = bencoding_encode(Dict(map), start)
    OBVIOUS
  <2>3. ASSUME Loads(tokens)
        PROVE  \E new : bencoding_decode(tokens).node = Dict(new) /\ Holding(new, root, node)
    <3>1. bencoding_decode(tokens).status = "decoded"
      BY <2>3 DEF Loads
    <3>2. PICK state2 : /\ StateOk(state2, node)
                        /\ bencoding_decode(tokens) = Decoded(Dict(WithState(root, Dict(state2))))
      BY <1>2, <1>8, <2>1, <2>2, <3>1, FileIsRestored
    <3>3. PICK new : new = WithState(root, Dict(state2))
      OBVIOUS
    <3>4. bencoding_decode(tokens).node = Dict(new)
      BY <3>2, <3>3 DEF Decoded
    <3> QED BY <3>2, <3>3, <3>4 DEF Holding
  <2> QED BY <1>1, <1>7, <2>2, <2>3 DEF Restores
<1> QED BY <1>1, <1>5, <1>8, <1>9, <1>10

\* A step that leaves the files and the layout alone.
LEMMA ResumedStays ==
  ASSUME Resumed, mode # "save", mode' # "save", UNCHANGED <<torrent_file, layout, saved, kept>>,
         Loaded' => /\ Loaded /\ torrent'.decoded = torrent.decoded
                    /\ DOMAIN bitfield' = DOMAIN bitfield
  PROVE  Resumed'
<1>1. PICK file : file = torrent_file
  OBVIOUS
<1>2. PICK l : l = layout
  OBVIOUS
<1>3. /\ Loads(Tokens(file)) /\ l = LoadedLayout(file) /\ Restores(file, saved, kept)
      /\ Loaded' => RootOk(torrent'.decoded, RootOf(file), l.piece_count) /\ DOMAIN bitfield' = Pieces(l)
  BY <1>1, <1>2 DEF Resumed
<1>4. Restores(file, saved', kept')
  BY <1>3
<1> QED BY <1>1, <1>2, <1>3, <1>4 DEF Resumed

\* Each step of the client keeps RestoreInv, and is one of PieceStore, or none.
LEMMA RestoreInvStep ==
  ASSUME ResumeInv, RestoreInv, [Next]_vars
  PROVE  RestoreInv' /\ [StoreNext]_storeVars
<1>0. torrent_file' = torrent_file
  BY DEF Next, Start, Load, InitFailsAndExits, StoreStep, CountPiece, CountServed, SaveState,
         SaveFails, WriteSaved, WriteCutShort, Killed, vars, fileVars
<1>a. Fresh' \/ Resumed' => RestoreInv'
  BY <1>0 DEF RestoreInv
<1>b. mode # "off" => Resumed
  BY DEF RestoreInv, Fresh
<1>1. CASE Start
  BY <1>1, <1>a, StartRestores DEF StoreNext
<1>2. CASE InitFailsAndExits
  <2>1. /\ InitFails /\ mode = "init" /\ mode' = "off" /\ UNCHANGED <<layout, saved, kept>>
    BY <1>2 DEF InitFailsAndExits, InitFails, Stop
  <2>2. Resumed'
    BY <1>0, <1>b, <2>1, ResumedStays DEF Loaded
  <2> QED BY <1>a, <2>1, <2>2 DEF StoreNext
<1>3. CASE StoreStep
  <2>1. UNCHANGED <<saved, torrent>>
    BY <1>3 DEF StoreStep, fileVars
  <2>2. /\ mode \in {"init", "run"} /\ mode' \in {"init", "run"}
        /\ UNCHANGED <<layout, kept, bitfield>>
    BY <1>3 DEF StoreStep, InitFile, BeginWrite, BeginRead, BeginCall, Idle, RwTurn, GiveUpCall,
                EndCall, Returned
  <2>3. Resumed'
    BY <1>0, <1>b, <2>1, <2>2, ResumedStays DEF Loaded
  <2>4. StoreNext
    <3>1. CASE mode = "run" /\ \E i \in Pieces(layout) :
                 BeginWrite(i) \/ (torrent.uploaded < MaxUploaded /\ BeginRead(i))
      BY <3>1 DEF StoreNext
    <3> QED BY <1>3, <3>1 DEF StoreStep, StoreNext
  <2> QED BY <1>a, <2>3, <2>4
<1>4. CASE CountPiece
  <2>1. /\ CompletePiece /\ mode = "run" /\ UNCHANGED <<saved, mode, layout, kept>>
        /\ \E n : torrent' = [torrent EXCEPT !.downloaded = n]
    BY <1>4 DEF CountPiece, CompletePiece, WriteReturned, Returned, fileVars
  <2>2. TorrentLoaded
    BY <2>1 DEF ResumeInv, Loaded
  <2>3. torrent'.decoded = torrent.decoded
    BY <2>1, <2>2 DEF TorrentLoaded
  <2>4. DOMAIN bitfield' = DOMAIN bitfield
    BY <2>1 DEF CompletePiece
  <2>5. Resumed'
    BY <1>0, <1>b, <2>1, <2>3, <2>4, ResumedStays DEF Loaded
  <2> QED BY <1>a, <2>1, <2>5 DEF StoreNext
<1>5. CASE CountServed
  <2>1. /\ ServePiece /\ mode = "run" /\ UNCHANGED <<saved, mode, layout, kept, bitfield>>
        /\ \E n : torrent' = [torrent EXCEPT !.uploaded = n]
    BY <1>5 DEF CountServed, ServePiece, EndCall, Returned, fileVars
  <2>2. TorrentLoaded
    BY <2>1 DEF ResumeInv, Loaded
  <2>3. torrent'.decoded = torrent.decoded
    BY <2>1, <2>2 DEF TorrentLoaded
  <2>4. Resumed'
    BY <1>0, <1>b, <2>1, <2>3, ResumedStays DEF Loaded
  <2> QED BY <1>a, <2>1, <2>4 DEF StoreNext
<1>6. ASSUME mode = "run", mode' # "off", UNCHANGED <<layout, bitfield>>,
             torrent' = [torrent EXCEPT !.decoded = Saved(Current).decoded],
             IF mode' = "save"
             THEN /\ saved' = <<>>
                  /\ \E start \in {0} \cup CountSlots(Saved(Current).state) :
                       out' = bencoding_encode(Dict(Saved(Current).decoded), start)
             ELSE UNCHANGED <<saved, kept>>
      PROVE  Resumed'
  <2>1. TorrentLoaded /\ Resumed /\ Loaded
    BY <1>6, <1>b DEF ResumeInv, Loaded
  <2>2. PICK file \in Files : file = torrent_file /\ Plain(file)
    BY DEF RestoreInv
  <2>3. PICK l : l = layout
    OBVIOUS
  <2>4. PICK map : map = Saved(Current).decoded
    OBVIOUS
  <2>5. /\ Loads(Tokens(file)) /\ l = LoadedLayout(file) /\ DOMAIN bitfield = Pieces(l)
        /\ RootOk(torrent.decoded, RootOf(file), l.piece_count)
    BY <2>1, <2>2, <2>3 DEF Resumed
  <2>6. /\ RootOk(map, RootOf(file), l.piece_count)
        /\ \A start \in {0} \cup CountSlots(Saved(Current).state) :
             Restores(file, bencoding_encode(Dict(Saved(Current).decoded), start), bitfield)
    BY <2>2, <2>3, <2>4, <2>5, SaveRestores
  <2>7. torrent'.decoded = map
    BY <1>6, <2>1, <2>4 DEF TorrentLoaded
  <2>8. mode' = "save" => saved' = <<>> /\ Restores(file, out', bitfield')
    BY <1>6, <2>6
  <2>9. mode' # "save" => Restores(file, saved', kept')
    BY <1>6, <2>1, <2>2 DEF Resumed
  <2> QED BY <1>0, <1>6, <2>2, <2>3, <2>5, <2>6, <2>7, <2>8, <2>9 DEF Resumed, Loaded
<1>7. CASE SaveState
  <2>1. /\ BeginSave /\ mode = "run" /\ mode' = "save" /\ UNCHANGED <<layout, bitfield>>
        /\ torrent' = [torrent EXCEPT !.decoded = Saved(Current).decoded]
        /\ \E start \in {0} \cup CountSlots(Saved(Current).state) :
             out' = bencoding_encode(Dict(Saved(Current).decoded), start)
        /\ saved' = <<>>
    BY <1>7 DEF SaveState, BeginSave, Idle
  <2>2. Resumed'
    BY <1>6, <2>1
  <2> QED BY <1>a, <2>1, <2>2 DEF StoreNext
<1>8. CASE SaveFails
  <2>1. /\ mode = "run" /\ UNCHANGED storeVars
        /\ torrent' = [torrent EXCEPT !.decoded = Saved(Current).decoded]
        /\ UNCHANGED saved
    BY <1>8 DEF SaveFails, Idle
  <2>2. UNCHANGED <<mode, layout, bitfield, kept>>
    BY <2>1 DEF storeVars
  <2>3. Resumed'
    BY <1>6, <2>1, <2>2
  <2> QED BY <1>a, <2>1, <2>3
<1>9. CASE WriteSaved
  <2>1. /\ EndSave /\ mode = "save" /\ mode' = "run" /\ saved' = out /\ kept' = bitfield
        /\ UNCHANGED <<layout, bitfield, torrent>>
    BY <1>9 DEF WriteSaved, EndSave
  <2>2. PICK file : file = torrent_file
    OBVIOUS
  <2>3. /\ Loads(Tokens(file)) /\ layout = LoadedLayout(file) /\ Restores(file, out, bitfield)
        /\ RootOk(torrent.decoded, RootOf(file), layout.piece_count)
        /\ DOMAIN bitfield = Pieces(layout)
    BY <1>b, <2>1, <2>2 DEF Resumed, Loaded
  <2>4. Restores(file, saved', kept')
    BY <2>1, <2>3
  <2>5. Resumed'
    BY <1>0, <2>1, <2>2, <2>3, <2>4 DEF Resumed
  <2> QED BY <1>a, <2>1, <2>5 DEF StoreNext
<1>10. ASSUME NEW file, file = torrent_file, mode # "off", UNCHANGED kept,
              saved' \in {saved} \cup Parts
       PROVE  Restores(file, saved', kept')
  <2>1. saved = <<>> \/ Restores(file, saved, kept)
    BY <1>10, <1>b DEF Resumed
  <2>2. CASE saved' = saved
    BY <1>10, <2>1, <2>2, EmptyDoesNotLoad DEF Restores
  <2>3. CASE saved' # saved
    BY <1>10, <2>3, PartDoesNotLoad DEF Restores
  <2> QED BY <2>2, <2>3
<1>11. CASE WriteCutShort
  <2>1. /\ SaveCutShort /\ mode = "save" /\ mode' = "run" /\ saved' \in {saved} \cup Parts
        /\ UNCHANGED <<kept, layout, bitfield, torrent>>
    BY <1>11 DEF WriteCutShort, SaveCutShort
  <2>2. PICK file : file = torrent_file
    OBVIOUS
  <2>3. /\ Loads(Tokens(file)) /\ layout = LoadedLayout(file)
        /\ RootOk(torrent.decoded, RootOf(file), layout.piece_count)
        /\ DOMAIN bitfield = Pieces(layout)
    BY <1>b, <2>1, <2>2 DEF Resumed, Loaded
  <2>4. Restores(file, saved', kept')
    BY <1>10, <2>1, <2>2
  <2>5. Resumed'
    BY <1>0, <2>1, <2>2, <2>3, <2>4 DEF Resumed
  <2> QED BY <1>a, <2>1, <2>5 DEF StoreNext
<1>12. CASE Killed
  <2>1. /\ Crash /\ mode # "off" /\ mode' = "off" /\ UNCHANGED <<layout, kept>>
        /\ saved' \in {saved} \cup Parts
    BY <1>12 DEF Killed, Crash, Stop
  <2>2. PICK file : file = torrent_file
    OBVIOUS
  <2>3. Loads(Tokens(file)) /\ layout = LoadedLayout(file)
    BY <1>b, <2>1, <2>2 DEF Resumed
  <2>4. Restores(file, saved', kept')
    BY <1>10, <2>1, <2>2
  <2>5. Resumed'
    BY <1>0, <2>1, <2>2, <2>3, <2>4 DEF Resumed, Loaded
  <2> QED BY <1>a, <2>1, <2>5 DEF StoreNext
<1>13. CASE UNCHANGED vars
  <2>1. UNCHANGED storeVars /\ UNCHANGED <<torrent_file, saved, out, torrent>>
    BY <1>13 DEF vars, fileVars
  <2>2. UNCHANGED <<mode, layout, disk, bitfield, kept>>
    BY <2>1 DEF storeVars
  <2>3. Fresh => Fresh'
    BY <2>1, <2>2 DEF Fresh
  <2>4. Resumed => Resumed'
    BY <2>1, <2>2 DEF Resumed, Loaded
  <2> QED BY <1>a, <2>1, <2>3, <2>4 DEF RestoreInv
<1> QED
  BY <1>1, <1>2, <1>3, <1>4, <1>5, <1>7, <1>8, <1>9, <1>11, <1>12, <1>13 DEF Next

\* THEOREM: ImplementsPieceStore, for every torrent file that is Plain, every hash
\* function and every bound: through state and torrent file, encoded, cut off by a crash,
\* and decoded, each start of the client has the torrent that the starts before had, with
\* the bitfield that was last written down, or an empty one.
THEOREM ResumeImplementsStore == Spec /\ Plain(torrent_file) => ImplementsPieceStore
<1>1. Init /\ Plain(torrent_file) => RestoreInv /\ StoreInit
  BY DEF Init, StoreInit, RestoreInv, Fresh
<1>2. ResumeInv /\ RestoreInv /\ [Next]_vars => RestoreInv' /\ [StoreNext]_storeVars
  BY RestoreInvStep
<1> QED BY <1>1, <1>2, ClientIsSound, PTL DEF Spec, StoreSpec, ImplementsPieceStore

\* THEOREM: so what PieceStore promises is true of the client with its torrent file: a
\* piece in the bitfield that it loaded is on disk, and read back as it was written.
THEOREM ResumedPiecesAreOnDisk == Spec /\ Plain(torrent_file) => [](HaveOnDisk /\ ReadsBack)
BY ResumeImplementsStore, PiecesAreOnDisk, PiecesReadBack, PTL DEF ImplementsPieceStore
=============================================================================

---------------------------- MODULE ResumeProofs ----------------------------
(***************************************************************************)
(* What holds of the torrent file that a client saves and loads, for every *)
(* torrent, every hash function, every bound and every crash.              *)
(***************************************************************************)
EXTENDS Resume, PieceStoreProofs, FiniteSetTheorems

-----------------------------------------------------------------------------
(***************************************************************************)
(* The hash map: what insertion does to lookup, for every hash function,   *)
(* every size and every content of a map.                                  *)
(***************************************************************************)
Slots(map) == 0 .. map.map_size - 1

\* A map as hashmap_init makes it and insertion leaves it.
IsMap(map) ==
  /\ map = [map_size |-> map.map_size, elements |-> map.elements]
  /\ map.map_size \in Nat \ {0}
  /\ DOMAIN map.elements \subseteq Slots(map)

\* The home of a key is taken by an entry with another key.
Displaced(map, key) ==
  /\ Home(map, key) \in DOMAIN map.elements
  /\ map.elements[Home(map, key)].key # key

-----------------------------------------------------------------------------
LEMMA InitIsMap ==
  ASSUME NEW size \in Nat \ {0}
  PROVE  IsMap(hashmap_init(size)) /\ DOMAIN hashmap_init(size).elements = {}
BY DEF hashmap_init, IsMap

LEMMA HashOfType ==
  ASSUME NEW key
  PROVE  hash_of(key) \in Nat /\ place_of(key) \in Nat
BY HashMapAssumption DEF hash_of, place_of

LEMMA ProbeType ==
  ASSUME NEW map, IsMap(map), NEW key, NEW i \in Nat
  PROVE  Probe(map, key, i) \in Slots(map)
<1> DEFINE n == hash_of(key) + i
           m == map.map_size
<1>1. n \in Nat /\ m \in Nat \ {0}
  BY HashOfType DEF IsMap
<1> HIDE DEF n, m
<1>2. n % m \in 0 .. m - 1
  BY <1>1
<1> QED BY <1>2 DEF Probe, Slots, n, m

\* A remainder is what is left of a number after any multiples of the modulus.
LEMMA RemainderUnique ==
  ASSUME NEW a \in Nat, NEW m \in Nat \ {0}, NEW r \in 0 .. m - 1
  PROVE  (a * m + r) % m = r
BY Z3

\* The search goes round the whole array: it fails only when no slot is free.
LEMMA ProbeReaches ==
  ASSUME NEW map, IsMap(map), NEW key, NEW slot \in Slots(map)
  PROVE  \E i \in Slots(map) : Probe(map, key, i) = slot
<1> DEFINE h == hash_of(key)
           m == map.map_size
           q == h \div m
           r == h % m
           i == IF slot >= r THEN slot - r ELSE slot - r + m
<1>1. h \in Nat /\ m \in Nat \ {0} /\ slot \in 0 .. m - 1
  BY HashOfType DEF IsMap, Slots
<1> HIDE DEF h, m
<1>2. q \in Nat /\ r \in 0 .. m - 1 /\ h = q * m + r
  BY <1>1, Z3
<1> HIDE DEF q, r
<1>3. i \in 0 .. m - 1
  BY <1>1, <1>2
<1>4. h + i = q * m + slot \/ h + i = (q + 1) * m + slot
  <2>1. q * m \in Nat /\ (q + 1) * m = q * m + m
    BY <1>1, <1>2
  <2> DEFINE p == q * m
  <2> HIDE DEF p
  <2>2. p \in Nat /\ (q + 1) * m = p + m /\ h = p + r
    BY <1>2, <2>1 DEF p
  <2>3. h + i = p + slot \/ h + i = (p + m) + slot
    BY <1>1, <1>2, <2>2
  <2> QED BY <2>2, <2>3 DEF p
<1> HIDE DEF i
<1>5. (h + i) % m = slot
  <2>1. q + 1 \in Nat
    BY <1>2
  <2>2. (q * m + slot) % m = slot /\ ((q + 1) * m + slot) % m = slot
    BY <1>1, <1>2, <2>1, RemainderUnique
  <2> QED BY <1>4, <2>2
<1> QED BY <1>3, <1>5 DEF Probe, Slots, h, m

\* hashmap_insert fails on a full map only.
THEOREM RoomWhileFree ==
  ASSUME NEW map, IsMap(map), NEW key
  PROVE  HasRoom(map, key) <=> DOMAIN map.elements # Slots(map)
<1>1. ASSUME HasRoom(map, key) PROVE DOMAIN map.elements # Slots(map)
  <2>1. PICK i \in 0 .. map.map_size - 1 : Probe(map, key, i) \notin DOMAIN map.elements
    BY <1>1 DEF HasRoom, FreeProbes
  <2>2. Probe(map, key, i) \in Slots(map)
    BY ProbeType
  <2> QED BY <2>1, <2>2
<1>2. ASSUME DOMAIN map.elements # Slots(map) PROVE HasRoom(map, key)
  <2>1. PICK slot \in Slots(map) : slot \notin DOMAIN map.elements
    BY <1>2 DEF IsMap
  <2>2. PICK i \in Slots(map) : Probe(map, key, i) = slot
    BY ProbeReaches
  <2> QED BY <2>1, <2>2 DEF HasRoom, FreeProbes, Slots
<1> QED BY <1>1, <1>2

\* The search ends at a free slot, and at home if that is one.
LEMMA FreeSlotProperties ==
  ASSUME NEW map, IsMap(map), NEW key, HasRoom(map, key)
  PROVE  /\ FreeSlot(map, key) \in Slots(map) \ DOMAIN map.elements
         /\ Home(map, key) \notin DOMAIN map.elements => FreeSlot(map, key) = Home(map, key)
<1> DEFINE free == FreeProbes(map, key)
           i == CHOOSE k \in free : \A j \in free : k <= j
<1>1. free \subseteq Nat /\ free # {} /\ map.map_size \in Nat \ {0}
  BY DEF FreeProbes, HasRoom, IsMap
<1>2. \E k \in free : \A j \in free : k <= j
  <2> HIDE DEF free
  <2>1. PICK k \in free : \A y \in free : ~ (<<y, k>> \in OpToRel(<, Nat))
    BY <1>1, WFMin, NatLessThanWellFounded
  <2>2. \A y \in free : ~ (y < k)
    BY <1>1, <2>1 DEF OpToRel
  <2> QED BY <1>1, <2>2
<1>3. i \in free /\ \A j \in free : i <= j
  <2> HIDE DEF free
  <2> QED BY <1>2
<1>4. FreeSlot(map, key) = Probe(map, key, i)
  BY DEF FreeSlot
<1> HIDE DEF i
<1>5. Probe(map, key, i) \in Slots(map) \ DOMAIN map.elements
  BY <1>1, <1>3, ProbeType DEF FreeProbes
<1>6. ASSUME Home(map, key) \notin DOMAIN map.elements PROVE i = 0
  <2>1. 0 \in free
    BY <1>1, <1>6 DEF FreeProbes, Home
  <2> HIDE DEF free
  <2> QED BY <1>1, <1>3, <2>1
<1> QED BY <1>4, <1>5, <1>6 DEF Home

\* An insertion fills one slot that was free, and touches no other.
Inserted(map, key, value, map2) ==
  /\ IsMap(map2) /\ map2.map_size = map.map_size
  /\ DOMAIN map2.elements = DOMAIN map.elements \cup {FreeSlot(map, key)}
  /\ \A s \in DOMAIN map.elements : map2.elements[s] = map.elements[s]
  /\ map2.elements[FreeSlot(map, key)] = [key |-> key, value |-> value]

LEMMA InsertProperties ==
  ASSUME NEW map, IsMap(map), NEW key, NEW value, HasRoom(map, key)
  PROVE  Inserted(map, key, value, hashmap_insert(map, key, value))
<1> DEFINE map2 == hashmap_insert(map, key, value)
<1> DEFINE slot == FreeSlot(map, key)
           filled == [s \in DOMAIN map.elements \cup {slot} |->
                        IF s = slot THEN [key |-> key, value |-> value]
                        ELSE map.elements[s]]
<1>1. slot \in Slots(map) \ DOMAIN map.elements
  BY FreeSlotProperties
<1>2. map2 = [map EXCEPT !.elements = filled]
  BY DEF hashmap_insert, WithEntry
<1> HIDE DEF slot, map2
<1>3. map2 = [map_size |-> map.map_size, elements |-> filled]
  <2> HIDE DEF filled
  <2> QED BY <1>2 DEF IsMap
<1>4. map2.map_size = map.map_size /\ map2.elements = filled
  <2> HIDE DEF filled
  <2> QED BY <1>3
<1>5. /\ DOMAIN filled = DOMAIN map.elements \cup {slot}
      /\ \A s \in DOMAIN map.elements : filled[s] = map.elements[s]
      /\ filled[slot] = [key |-> key, value |-> value]
  BY <1>1
<1> HIDE DEF filled
<1>6. IsMap(map2)
  BY <1>1, <1>3, <1>4, <1>5 DEF IsMap, Slots
<1> QED BY <1>4, <1>5, <1>6 DEF slot, map2, Inserted

\* What is found stays found, with its value: also when its own key is inserted again,
\* which is how a count that was saved before outlives the new one.
THEOREM FoundForGood ==
  ASSUME NEW map, IsMap(map), NEW key, NEW value, HasRoom(map, key),
         NEW other, Has(map, other)
  PROVE  LET map2 == hashmap_insert(map, key, value)
         IN  Has(map2, other) /\ hashmap_get(map2, other) = hashmap_get(map, other)
<1> DEFINE map2 == hashmap_insert(map, key, value)
<1>1. /\ map2.map_size = map.map_size
      /\ DOMAIN map.elements \subseteq DOMAIN map2.elements
      /\ \A s \in DOMAIN map.elements : map2.elements[s] = map.elements[s]
  <2>1. Inserted(map, key, value, map2)
    BY InsertProperties
  <2> HIDE DEF map2
  <2> QED BY <2>1 DEF Inserted
<1> HIDE DEF map2
<1>2. Home(map2, other) = Home(map, other)
  BY <1>1 DEF Home, Probe
<1>3. Has(map2, other) /\ hashmap_get(map2, other) = hashmap_get(map, other)
  BY <1>1, <1>2 DEF Has, hashmap_get
<1> QED BY <1>3 DEF map2

\* A key that is inserted while its home is free is found, with its value.
THEOREM InsertedIsFound ==
  ASSUME NEW map, IsMap(map), NEW key, NEW value,
         Home(map, key) \notin DOMAIN map.elements
  PROVE  LET map2 == hashmap_insert(map, key, value)
         IN  Has(map2, key) /\ hashmap_get(map2, key) = value
<1> DEFINE map2 == hashmap_insert(map, key, value)
<1>1. HasRoom(map, key)
  <2>1. 0 \in 0 .. map.map_size - 1
    BY DEF IsMap
  <2> QED BY <2>1 DEF HasRoom, FreeProbes, Home
<1>2. FreeSlot(map, key) = Home(map, key)
  BY <1>1, FreeSlotProperties
<1>3. /\ map2.map_size = map.map_size
      /\ Home(map, key) \in DOMAIN map2.elements
      /\ map2.elements[Home(map, key)] = [key |-> key, value |-> value]
  <2>1. Inserted(map, key, value, map2)
    BY <1>1, InsertProperties
  <2> HIDE DEF map2
  <2> QED BY <1>2, <2>1 DEF Inserted
<1> HIDE DEF map2
<1>4. Home(map2, key) = Home(map, key)
  BY <1>3 DEF Home, Probe
<1>5. Has(map2, key) /\ hashmap_get(map2, key) = value
  BY <1>3, <1>4 DEF Has, hashmap_get
<1> QED BY <1>5 DEF map2

\* A key whose home is taken by another is never found again, however often it is
\* inserted and whatever else is: insertion puts it elsewhere, and lookup does not
\* go there.
THEOREM DisplacedForGood ==
  ASSUME NEW map, IsMap(map), NEW key, NEW value, HasRoom(map, key),
         NEW other, Displaced(map, other)
  PROVE  LET map2 == hashmap_insert(map, key, value)
         IN  Displaced(map2, other) /\ ~ Has(map2, other)
<1> DEFINE map2 == hashmap_insert(map, key, value)
<1>1. /\ map2.map_size = map.map_size
      /\ DOMAIN map.elements \subseteq DOMAIN map2.elements
      /\ \A s \in DOMAIN map.elements : map2.elements[s] = map.elements[s]
  <2>1. Inserted(map, key, value, map2)
    BY InsertProperties
  <2> HIDE DEF map2
  <2> QED BY <2>1 DEF Inserted
<1> HIDE DEF map2
<1>2. Home(map2, other) = Home(map, other)
  BY <1>1 DEF Home, Probe
<1>3. Displaced(map2, other) /\ ~ Has(map2, other)
  BY <1>1, <1>2 DEF Has, Displaced
<1> QED BY <1>3 DEF map2

-----------------------------------------------------------------------------
(***************************************************************************)
(* Sequences of sequences, put together                                    *)
(***************************************************************************)
\* g holds the first n partial results of FlattenSeq.
Joined(seqs, g, n) ==
  \A k \in 1 .. n : g[k] = IF k = 1 THEN seqs[k] ELSE g[k - 1] \o seqs[k]
Joins(seqs, S, g, n) == g \in [1 .. n -> Seq(S)] /\ Joined(seqs, g, n)

LEMMA JoinsExist ==
  ASSUME NEW S, NEW seqs \in Seq(Seq(S)), NEW n \in 0 .. Len(seqs)
  PROVE  \E g : Joins(seqs, S, g, n)
<1> DEFINE T == {m \in 0 .. Len(seqs) : ~ \E g : Joins(seqs, S, g, m)}
<1> SUFFICES ASSUME T # {} PROVE FALSE
  OBVIOUS
<1>1. PICK m \in T : \A k \in T : m <= k
  <2>1. T \subseteq Nat
    OBVIOUS
  <2> HIDE DEF T
  <2> QED BY <2>1, LeastNumber
<1>2. m \in 0 .. Len(seqs) /\ ~ (\E g : Joins(seqs, S, g, m)) /\ Len(seqs) \in Nat
  OBVIOUS
<1>3. CASE m = 0
  <2>1. Joins(seqs, S, [k \in 1 .. 0 |-> <<>>], 0)
    BY DEF Joins, Joined
  <2> QED BY <1>2, <1>3, <2>1
<1>4. CASE m # 0
  <2>1. m - 1 \in 0 .. Len(seqs) /\ m - 1 \notin T
    <3> HIDE DEF T
    <3>1. m - 1 \in 0 .. Len(seqs) /\ ~ (m <= m - 1)
      BY <1>2, <1>4
    <3> QED BY <1>1, <3>1, Zenon
  <2>2. PICK g : Joins(seqs, S, g, m - 1)
    BY <2>1
  <2> DEFINE h == [k \in 1 .. m |-> IF k < m THEN g[k]
                                    ELSE IF k = 1 THEN seqs[k] ELSE g[k - 1] \o seqs[k]]
  <2> HIDE DEF T
  <2>3. ASSUME NEW k \in 1 .. m
        PROVE  h[k] \in Seq(S) /\ h[k] = IF k = 1 THEN seqs[k] ELSE h[k - 1] \o seqs[k]
    <3>0. k \in 1 .. Len(seqs) /\ seqs[k] \in Seq(S)
      <4>1. k \in 1 .. Len(seqs)
        BY <1>2
      <4> QED BY <4>1, ElementOfSeq
    <3>1. CASE k < m
      <4>1. k \in 1 .. m - 1 /\ (k # 1 => k - 1 \in 1 .. m - 1 /\ k - 1 < m /\ k - 1 \in 1 .. m)
        BY <1>2, <3>1
      <4>2. h[k] = g[k] /\ (k # 1 => h[k - 1] = g[k - 1])
        BY <3>1, <4>1
      <4> HIDE DEF h
      <4> QED BY <2>2, <4>1, <4>2 DEF Joins, Joined
    <3>2. CASE k = m
      <4>1. k # 1 => k - 1 \in 1 .. m - 1 /\ k - 1 < m /\ k - 1 \in 1 .. m
        BY <1>2, <3>2
      <4>2. h[k] = IF k = 1 THEN seqs[k] ELSE g[k - 1] \o seqs[k]
        BY <1>2, <3>2
      <4>3. k # 1 => h[k - 1] = g[k - 1] /\ g[k - 1] \in Seq(S)
        BY <2>2, <4>1 DEF Joins, Joined
      <4> HIDE DEF h
      <4>4. CASE k = 1
        BY <3>0, <4>2, <4>4
      <4>5. CASE k # 1
        <5>1. g[k - 1] \o seqs[k] \in Seq(S)
          BY <3>0, <4>3, <4>5, ConcatProperties
        <5> QED BY <4>2, <4>3, <4>5, <5>1
      <4> QED BY <4>4, <4>5
    <3> QED BY <1>2, <3>1, <3>2
  <2>4. h \in [1 .. m -> Seq(S)]
    BY <2>3
  <2> HIDE DEF h
  <2>5. Joins(seqs, S, h, m)
    BY <2>3, <2>4 DEF Joins, Joined
  <2> QED BY <1>2, <2>5
<1> QED BY <1>3, <1>4

LEMMA JoinsAgree ==
  ASSUME NEW seqs, NEW more, NEW g, NEW h, NEW n \in Nat, NEW m \in Nat,
         Joined(seqs, g, n), Joined(more, h, m), n <= m, \A k \in 1 .. n : more[k] = seqs[k],
         NEW j \in 1 .. n
  PROVE  g[j] = h[j]
<1> DEFINE T == {k \in 1 .. n : g[k] # h[k]}
<1> SUFFICES ASSUME T # {} PROVE FALSE
  OBVIOUS
<1>1. PICK k \in T : \A y \in T : k <= y
  <2>1. T \subseteq Nat
    OBVIOUS
  <2> HIDE DEF T
  <2> QED BY <2>1, LeastNumber
<1>2. /\ k \in 1 .. n /\ k \in 1 .. m /\ g[k] # h[k]
      /\ k # 1 => k - 1 \in 1 .. n /\ k - 1 \notin T
  BY <1>1
<1>3. k # 1 => g[k - 1] = h[k - 1]
  BY <1>2
<1>4. /\ g[k] = IF k = 1 THEN seqs[k] ELSE g[k - 1] \o seqs[k]
      /\ h[k] = IF k = 1 THEN more[k] ELSE h[k - 1] \o more[k]
  BY <1>2, Zenon DEF Joined
<1>5. more[k] = seqs[k]
  BY <1>2
<1> HIDE DEF T
<1> QED BY <1>2, <1>3, <1>4, <1>5

LEMMA FlattenJoins ==
  ASSUME NEW S, NEW seqs \in Seq(Seq(S)), seqs # <<>>
  PROVE  \E g : Joins(seqs, S, g, Len(seqs)) /\ FlattenSeq(seqs) = g[Len(seqs)]
<1> DEFINE n == Len(seqs)
           Join(g) == g = [k \in 1 .. n |-> IF k = 1 THEN seqs[k] ELSE g[k - 1] \o seqs[k]]
           flatten == CHOOSE g : Join(g)
<1>1. n \in Nat \ {0}
  BY EmptySeq
<1>2. PICK h : Joins(seqs, S, h, n)
  BY <1>1, JoinsExist
<1>3. Join(h)
  BY <1>2 DEF Joins, Joined
<1>4. Join(flatten)
  <2> HIDE DEF Join
  <2> QED BY <1>3
<1>5. FlattenSeq(seqs) = flatten[n]
  BY <1>1, Zenon DEF FlattenSeq
<1> HIDE DEF flatten
<1>6. Joined(seqs, flatten, n) /\ Joined(seqs, h, n)
  BY <1>2, <1>4 DEF Joins, Joined
<1> HIDE DEF n
<1>7. ASSUME NEW k \in 1 .. n PROVE h[k] = flatten[k]
  <2>1. n \in Nat /\ n <= n
    BY <1>1
  <2> QED BY <1>6, <2>1, JoinsAgree
<1>8. n \in 1 .. n
  BY <1>1
<1>9. FlattenSeq(seqs) = h[n]
  BY <1>5, <1>7, <1>8
<1> QED BY <1>2, <1>9 DEF n

LEMMA FlattenEmpty == FlattenSeq(<<>>) = <<>>
<1>1. Len(<<>>) = 0
  OBVIOUS
<1> QED BY <1>1 DEF FlattenSeq

\* FlattenSeq of one sequence more.
LEMMA FlattenAppend ==
  ASSUME NEW S, NEW seqs \in Seq(Seq(S)), NEW s \in Seq(S)
  PROVE  /\ FlattenSeq(seqs) \in Seq(S)
         /\ FlattenSeq(Append(seqs, s)) = FlattenSeq(seqs) \o s
<1>0. PICK n \in Nat : n = Len(seqs)
  OBVIOUS
<1>m. PICK more : more = Append(seqs, s)
  OBVIOUS
<1>1. /\ more \in Seq(Seq(S)) /\ Len(more) = n + 1 /\ more # <<>>
      /\ \A k \in 1 .. n : more[k] = seqs[k]
      /\ more[n + 1] = s /\ n \in Nat
  BY <1>0, <1>m, AppendProperties
<1>2. PICK h : Joins(more, S, h, n + 1) /\ FlattenSeq(more) = h[n + 1]
  BY <1>0, <1>1, FlattenJoins
<1>3. n + 1 \in 1 .. n + 1 /\ n + 1 - 1 = n
  BY <1>1
<1>4. CASE seqs = <<>>
  <2>1. n = 0
    BY <1>0, <1>4
  <2>2. FlattenSeq(seqs) = <<>>
    BY <1>4, FlattenEmpty
  <2>3. FlattenSeq(more) = s
    BY <1>1, <1>2, <1>3, <2>1 DEF Joins, Joined
  <2>4. <<>> \in Seq(S) /\ <<>> \o s = s
    OBVIOUS
  <2> QED BY <1>m, <2>2, <2>3, <2>4
<1>5. CASE seqs # <<>>
  <2>0. n # 0
    BY <1>0, <1>5, EmptySeq
  <2>1. PICK g : Joins(seqs, S, g, n) /\ FlattenSeq(seqs) = g[n]
    BY <1>0, <1>5, FlattenJoins
  <2>2. n \in 1 .. n /\ n + 1 # 1
    BY <1>1, <2>0
  <2>3. g[n] = h[n]
    <3>1. Joined(seqs, g, n) /\ Joined(more, h, n + 1)
      BY <1>2, <2>1, Zenon DEF Joins
    <3>2. PICK m \in Nat : m = n + 1
      OBVIOUS
    <3>3. Joined(more, h, m) /\ n <= m
      BY <3>1, <3>2
    <3>4. \A k \in 1 .. n : more[k] = seqs[k]
      BY <1>1
    <3>5. \A j \in 1 .. n : g[j] = h[j]
      BY <3>1, <3>3, <3>4, JoinsAgree
    <3> QED BY <2>2, <3>5
  <2>4. h[n + 1] = h[n] \o s
    <3>0. Joined(more, h, n + 1)
      BY <1>2, Zenon DEF Joins
    <3>1. h[n + 1] = IF n + 1 = 1 THEN more[n + 1] ELSE h[n + 1 - 1] \o more[n + 1]
      BY ONLY <1>3, <3>0 DEF Joined
    <3> QED BY ONLY <1>1, <1>3, <2>2, <3>1
  <2>5. g[n] \in Seq(S)
    BY <2>1, <2>2 DEF Joins, Joined
  <2> QED BY <1>m, <1>2, <2>1, <2>3, <2>4, <2>5
<1> QED BY <1>4, <1>5

\* FlattenSeq of two lists of sequences is FlattenSeq of the one and then of the other.
LEMMA FlattenConcat ==
  ASSUME NEW S, NEW a \in Seq(Seq(S)), NEW b \in Seq(Seq(S))
  PROVE  FlattenSeq(a \o b) = FlattenSeq(a) \o FlattenSeq(b)
<1> DEFINE Holds(i) == FlattenSeq(a \o SubSeq(b, 1, i)) = FlattenSeq(a) \o FlattenSeq(SubSeq(b, 1, i))
           T == {i \in 0 .. Len(b) : ~ Holds(i)}
<1>0. Len(b) \in Nat /\ SubSeq(b, 1, Len(b)) = b
  OBVIOUS
<1> SUFFICES ASSUME T # {} PROVE FALSE
  <2>1. Len(b) \notin T
    OBVIOUS
  <2>2. Holds(Len(b))
    BY <1>0, <2>1
  <2> QED BY <1>0, <2>2
<1>1. PICK i \in T : \A y \in T : i <= y
  <2>1. T \subseteq Nat
    OBVIOUS
  <2> HIDE DEF T
  <2> QED BY <2>1, LeastNumber
<1>2. i \in 0 .. Len(b) /\ ~ Holds(i)
  OBVIOUS
<1>a. FlattenSeq(a) \in Seq(S)
  <2>1. <<>> \in Seq(S)
    OBVIOUS
  <2> QED BY <2>1, FlattenAppend
<1>3. CASE i = 0
  <2>1. SubSeq(b, 1, i) = <<>> /\ a \o <<>> = a
    BY <1>3
  <2>2. FlattenSeq(a) \o <<>> = FlattenSeq(a)
    BY <1>a
  <2> QED BY <1>2, <2>1, <2>2, FlattenEmpty
<1>4. CASE i # 0
  <2>1. i - 1 \in 0 .. Len(b) /\ i \in 1 .. Len(b) /\ ~ (i <= i - 1)
    BY <1>0, <1>2, <1>4
  <2>2. Holds(i - 1)
    <3> HIDE DEF Holds
    <3>1. i - 1 \notin T
      <4> HIDE DEF T
      <4> QED BY <1>1, <2>1, Zenon
    <3> QED BY <2>1, <3>1
  <2>c. PICK c : c = SubSeq(b, 1, i - 1)
    OBVIOUS
  <2>3. c \in Seq(Seq(S)) /\ b[i] \in Seq(S)
    <3>1. \A j \in 1 .. i - 1 : j \in 1 .. Len(b)
      BY <2>1
    <3> QED BY <2>c, <2>1, <3>1, SubSeqProperties, ElementOfSeq
  <2> HIDE DEF T
  <2>4. SubSeq(b, 1, i) = Append(c, b[i])
    <3>1. PICK B \in Seq(Seq(S)) : B = b
      OBVIOUS
    <3>2. PICK k \in 1 .. Len(B) : k = i
      BY <2>1, <3>1
    <3>3. SubSeq(B, 1, k) = Append(SubSeq(B, 1, k - 1), B[k])
      BY ONLY B \in Seq(Seq(S)), k \in 1 .. Len(B)
    <3> QED BY <2>c, <3>1, <3>2, <3>3
  <2>5. FlattenSeq(a \o c) = FlattenSeq(a) \o FlattenSeq(c)
    BY <2>c, <2>2
  <2>6. a \o Append(c, b[i]) = Append(a \o c, b[i]) /\ a \o c \in Seq(Seq(S))
    BY <2>3
  <2>7. /\ FlattenSeq(Append(c, b[i])) = FlattenSeq(c) \o b[i]
        /\ FlattenSeq(Append(a \o c, b[i])) = FlattenSeq(a \o c) \o b[i]
        /\ FlattenSeq(c) \in Seq(S)
    BY <2>3, <2>6, FlattenAppend
  <2>8. (FlattenSeq(a) \o FlattenSeq(c)) \o b[i] = FlattenSeq(a) \o (FlattenSeq(c) \o b[i])
    <3>1. PICK x \in Seq(S) : x = FlattenSeq(a)
      BY <1>a
    <3>2. PICK y \in Seq(S) : y = FlattenSeq(c)
      BY <2>7
    <3>3. PICK z \in Seq(S) : z = b[i]
      BY <2>3
    <3>4. (x \o y) \o z = x \o (y \o z)
      BY ConcatAssociative
    <3> QED BY <3>1, <3>2, <3>3, <3>4
  <2>9. Holds(i)
    BY <2>4, <2>5, <2>6, <2>7, <2>8
  <2> QED BY <1>2, <2>9
<1> QED BY <1>3, <1>4

LEMMA FlattenType ==
  ASSUME NEW S, NEW seqs \in Seq(Seq(S))
  PROVE  FlattenSeq(seqs) \in Seq(S)
<1>1. <<>> \in Seq(S)
  OBVIOUS
<1> QED BY <1>1, FlattenAppend

-----------------------------------------------------------------------------
(***************************************************************************)
(* Trees.  A set of nodes is closed if what its nodes hold is in the set,  *)
(* so a node of a closed set is a tree without a flaw at any depth.  K has *)
(* the contents of strings and the keys.                                   *)
(***************************************************************************)
MapOver(map, S, K) ==
  IsMap(map) /\ map.elements \in [DOMAIN map.elements -> [key : K, value : S]]

IsNodeOver(node, S, K) ==
  \/ node = Num(node.value) /\ node.value \in Int
  \/ node = Str(node.value, node.len) /\ node.value \in K /\ node.len \in Nat
  \/ node = Blank
  \/ node = List(node.value) /\ node.value \in Seq(S)
  \/ node = Dict(node.value) /\ MapOver(node.value, S, K)

Closed(S, K) == \A node \in S : IsNodeOver(node, S, K)

LEMMA NodeOverMore ==
  ASSUME NEW S, NEW K, NEW S2, NEW K2, S \subseteq S2, K \subseteq K2,
         NEW node, IsNodeOver(node, S, K)
  PROVE  IsNodeOver(node, S2, K2)
<1>1. ASSUME NEW map, MapOver(map, S, K) PROVE MapOver(map, S2, K2)
  BY <1>1 DEF MapOver
<1>2. Seq(S) \subseteq Seq(S2)
  OBVIOUS
<1> QED BY <1>1, <1>2 DEF IsNodeOver

\* A node over a closed set may join it.
LEMMA ClosedWith ==
  ASSUME NEW S, NEW K, Closed(S, K), NEW node, IsNodeOver(node, S, K)
  PROVE  Closed(S \cup {node}, K)
<1>1. ASSUME NEW n \in S \cup {node} PROVE IsNodeOver(n, S, K)
  BY <1>1 DEF Closed
<1> QED BY <1>1, NodeOverMore DEF Closed

\* More contents do not matter.
LEMMA ClosedOverMore ==
  ASSUME NEW S, NEW K, NEW K2, K \subseteq K2, Closed(S, K)
  PROVE  Closed(S, K2)
BY NodeOverMore DEF Closed

LEMMA EmptyMapOver ==
  ASSUME NEW S, NEW K, NEW size \in Nat \ {0}
  PROVE  MapOver(hashmap_init(size), S, K)
<1>1. hashmap_init(size).elements = <<>>
  BY DEF hashmap_init
<1> QED BY <1>1, InitIsMap DEF MapOver

LEMMA WithEntryOver ==
  ASSUME NEW S, NEW K, NEW map, MapOver(map, S, K), NEW slot \in Slots(map),
         NEW key \in K, NEW value \in S
  PROVE  LET map2 == WithEntry(map, slot, key, value)
         IN  /\ MapOver(map2, S, K) /\ map2.map_size = map.map_size
             /\ DOMAIN map2.elements = DOMAIN map.elements \cup {slot}
             /\ \A s \in DOMAIN map.elements \ {slot} : map2.elements[s] = map.elements[s]
             /\ map2.elements[slot] = [key |-> key, value |-> value]
<1> DEFINE filled == [s \in DOMAIN map.elements \cup {slot} |->
                        IF s = slot THEN [key |-> key, value |-> value]
                        ELSE map.elements[s]]
           map2 == WithEntry(map, slot, key, value)
<1>1. map2 = [map_size |-> map.map_size, elements |-> filled]
  BY DEF WithEntry, MapOver, IsMap
<1>2. /\ filled \in [DOMAIN map.elements \cup {slot} -> [key : K, value : S]]
      /\ \A s \in DOMAIN map.elements \ {slot} : filled[s] = map.elements[s]
      /\ filled[slot] = [key |-> key, value |-> value]
  BY DEF MapOver
<1> HIDE DEF filled, map2
<1>3. DOMAIN filled = DOMAIN map.elements \cup {slot}
  BY <1>2
<1> QED BY <1>1, <1>2, <1>3 DEF MapOver, IsMap, Slots, map2

LEMMA InsertOver ==
  ASSUME NEW S, NEW K, NEW map, MapOver(map, S, K), NEW key \in K, NEW value \in S,
         HasRoom(map, key)
  PROVE  MapOver(hashmap_insert(map, key, value), S, K)
<1>1. FreeSlot(map, key) \in Slots(map)
  BY FreeSlotProperties DEF MapOver
<1> QED BY <1>1, WithEntryOver DEF hashmap_insert

\* What is found was put there.
LEMMA FoundOver ==
  ASSUME NEW S, NEW K, NEW map, MapOver(map, S, K), NEW key, Has(map, key)
  PROVE  hashmap_get(map, key) \in S /\ Home(map, key) \in Slots(map)
<1>1. Home(map, key) \in DOMAIN map.elements /\ map.elements[Home(map, key)] \in [key : K, value : S]
  BY DEF Has, MapOver
<1> QED BY <1>1 DEF hashmap_get, MapOver, IsMap

-----------------------------------------------------------------------------
(***************************************************************************)
(* Decoding: whatever the tokens, what is decoded is a tree without a flaw *)
(***************************************************************************)
Brackets == [t : {"d", "l", "e"}]
Texts(K) == Brackets \cup [t : {"i"}, value : Int] \cup [t : {"s"}, value : K, len : Nat]

\* A call that has not returned; only the last one may have no key yet.
IsCall(top, S, K) ==
  \/ top = Call(List(top.node.value), NoKey) /\ top.node.value \in Seq(S)
  \/ /\ top = Call(Dict(top.node.value), top.key) /\ MapOver(top.node.value, S, K)
     /\ \/ top.key = NoKey
        \/ top.key = <<Head(top.key)>> /\ Head(top.key) \in K
           /\ HasRoom(top.node.value, Head(top.key))

Keyed(top) == top.node.type = "dict" => top.key # NoKey

CallsOver(calls, S, K) ==
  /\ \E X : calls \in Seq(X) /\ \A top \in X : IsCall(top, S, K)
  /\ \A i \in 1 .. Len(calls) - 1 : Keyed(calls[i])

DecoderOver(d, S, K) ==
  \/ d = Null
  \/ d = Decoded(d.node) /\ d.node \in S
  \/ d = Reading(d.calls) /\ CallsOver(d.calls, S, K)

LEMMA NoCalls ==
  ASSUME NEW S, NEW K
  PROVE  DecoderOver(Reading(<<>>), S, K)
<1>1. PICK calls : calls = <<>>
  OBVIOUS
<1>2. calls \in Seq({}) /\ \A i \in 1 .. Len(calls) - 1 : Keyed(calls[i])
  BY <1>1
<1>3. CallsOver(calls, S, K)
  BY <1>2 DEF CallsOver
<1>4. Reading(calls).calls = calls
  BY DEF Reading
<1> QED BY <1>1, <1>3, <1>4 DEF DecoderOver

LEMMA CallsOverMore ==
  ASSUME NEW S, NEW K, NEW S2, S \subseteq S2, NEW calls, CallsOver(calls, S, K)
  PROVE  CallsOver(calls, S2, K)
<1>1. ASSUME NEW map, MapOver(map, S, K) PROVE MapOver(map, S2, K)
  BY <1>1 DEF MapOver
<1>2. Seq(S) \subseteq Seq(S2)
  OBVIOUS
<1>3. ASSUME NEW top, IsCall(top, S, K) PROVE IsCall(top, S2, K)
  BY <1>1, <1>2, <1>3 DEF IsCall
<1> QED BY <1>3 DEF CallsOver

\* The last call, and those before it.
LEMMA LastCall ==
  ASSUME NEW S, NEW K, NEW calls, CallsOver(calls, S, K), calls # <<>>
  PROVE  /\ CallsOver(Front(calls), S, K) /\ IsCall(Last(calls), S, K)
         /\ \A i \in 1 .. Len(Front(calls)) : Keyed(Front(calls)[i])
         /\ Len(Front(calls)) = Len(calls) - 1 /\ Len(calls) \in Nat \ {0}
<1>1. PICK X : calls \in Seq(X) /\ \A top \in X : IsCall(top, S, K)
  BY DEF CallsOver
<1>2. PICK n \in Nat \ {0} : n = Len(calls)
  BY <1>1, EmptySeq
<1>3. /\ Front(calls) \in Seq(X) /\ Len(Front(calls)) = n - 1
      /\ \A i \in 1 .. n - 1 : Front(calls)[i] = calls[i]
  BY <1>1, <1>2 DEF Front
<1>4. Last(calls) \in X
  BY <1>1, <1>2 DEF Last
<1>5. \A i \in 1 .. n - 1 : Keyed(calls[i])
  BY <1>2 DEF CallsOver
<1>6. \A i \in 1 .. n - 1 : Keyed(Front(calls)[i])
  BY <1>3, <1>5
<1>7. \A i \in 1 .. Len(Front(calls)) - 1 : Keyed(Front(calls)[i])
  BY <1>2, <1>3, <1>6
<1>8. CallsOver(Front(calls), S, K)
  BY <1>1, <1>3, <1>7 DEF CallsOver
<1> QED BY <1>1, <1>2, <1>3, <1>4, <1>6, <1>8

LEMMA OneCallMore ==
  ASSUME NEW S, NEW K, NEW calls, CallsOver(calls, S, K),
         \A i \in 1 .. Len(calls) : Keyed(calls[i]),
         NEW top, IsCall(top, S, K)
  PROVE  CallsOver(Append(calls, top), S, K)
<1>1. PICK X : calls \in Seq(X) /\ \A c \in X : IsCall(c, S, K)
  BY DEF CallsOver
<1> DEFINE more == Append(calls, top)
<1>2. PICK n \in Nat : n = Len(calls)
  BY <1>1
<1>3. /\ more \in Seq(X \cup {top}) /\ Len(more) = n + 1
      /\ \A i \in 1 .. n : more[i] = calls[i]
  BY <1>1, <1>2
<1> HIDE DEF more
<1>4. \A i \in 1 .. Len(more) - 1 : Keyed(more[i])
  BY <1>2, <1>3
<1>5. CallsOver(more, S, K)
  BY <1>1, <1>3, <1>4 DEF CallsOver
<1> QED BY <1>5 DEF more

\* The last call goes on.
LEMMA GoesOnOver ==
  ASSUME NEW S, NEW K, NEW calls, CallsOver(calls, S, K), calls # <<>>,
         NEW top, IsCall(top, S, K)
  PROVE  DecoderOver(GoesOn(calls, top), S, K)
<1>1. CallsOver(Append(Front(calls), top), S, K)
  BY LastCall, OneCallMore
<1> QED BY <1>1 DEF GoesOn, DecoderOver, Reading

\* A node goes to where it belongs.
LEMMA PlacedOver ==
  ASSUME NEW S, NEW K, NEW calls, CallsOver(calls, S, K),
         \A i \in 1 .. Len(calls) : Keyed(calls[i]), NEW node \in S
  PROVE  DecoderOver(Placed(calls, node), S, K)
<1>1. CASE calls = <<>>
  BY <1>1 DEF Placed, DecoderOver, Decoded
<1>2. CASE calls # <<>>
  <2> DEFINE top == Last(calls)
  <2>1. IsCall(top, S, K) /\ Keyed(top)
    <3>1. PICK X : calls \in Seq(X)
      BY DEF CallsOver
    <3>2. Len(calls) \in 1 .. Len(calls)
      BY <1>2, <3>1, EmptySeq
    <3>3. Last(calls) = calls[Len(calls)]
      BY DEF Last
    <3> QED BY <1>2, <3>2, <3>3, LastCall
  <2> HIDE DEF top
  <2>2. CASE top.node.type = "list"
    <3>1. top.node.value \in Seq(S)
      BY <2>1, <2>2 DEF IsCall, Call, Dict, NoKey
    <3>2. Append(top.node.value, node) \in Seq(S)
      BY <3>1
    <3>3. IsCall(Call(List(Append(top.node.value, node)), NoKey), S, K)
      BY <3>2 DEF IsCall, Call, List
    <3> QED BY <1>2, <2>2, <3>3, GoesOnOver DEF Placed, top
  <2>3. CASE top.node.type # "list"
    <3>1. /\ top.node.type = "dict" /\ MapOver(top.node.value, S, K) /\ top.key # NoKey
          /\ Head(top.key) \in K /\ HasRoom(top.node.value, Head(top.key))
      BY <2>1, <2>3 DEF IsCall, Keyed, Call, List, Dict, NoKey
    <3>2. MapOver(hashmap_insert(top.node.value, Head(top.key), node), S, K)
      BY <3>1, InsertOver
    <3>3. IsCall(Call(Dict(hashmap_insert(top.node.value, Head(top.key), node)), NoKey), S, K)
      BY <3>2 DEF IsCall, Call, Dict
    <3> QED BY <1>2, <2>3, <3>3, GoesOnOver DEF Placed, top
  <2> QED BY <2>2, <2>3
<1> QED BY <1>1, <1>2

\* What a call has decoded when it returns.
LEMMA WithBlankOver ==
  ASSUME NEW S, NEW K, Blank \in S, NEW top, IsCall(top, S, K)
  PROVE  IsNodeOver(WithBlank(top), S, K)
<1>1. CASE top = Call(List(top.node.value), NoKey) /\ top.node.value \in Seq(S)
  <2>1. WithBlank(top) = List(top.node.value)
    BY <1>1 DEF WithBlank, Call
  <2> QED BY <1>1, <2>1 DEF IsNodeOver, List
<1>2. CASE /\ top = Call(Dict(top.node.value), top.key) /\ MapOver(top.node.value, S, K)
           /\ top.key = NoKey
  <2>1. WithBlank(top) = Dict(top.node.value)
    BY <1>2 DEF WithBlank, Call
  <2> QED BY <1>2, <2>1 DEF IsNodeOver, Dict
<1>3. CASE /\ top = Call(Dict(top.node.value), top.key) /\ MapOver(top.node.value, S, K)
           /\ top.key = <<Head(top.key)>> /\ Head(top.key) \in K
           /\ HasRoom(top.node.value, Head(top.key))
  <2> DEFINE map2 == hashmap_insert(top.node.value, Head(top.key), Blank)
  <2>1. MapOver(map2, S, K)
    BY <1>3, InsertOver
  <2>2. WithBlank(top) = Dict(map2)
    BY <1>3 DEF WithBlank, NoKey
  <2> HIDE DEF map2
  <2> QED BY <2>1, <2>2 DEF IsNodeOver, Dict
<1> QED BY <1>1, <1>2, <1>3 DEF IsCall

LEMMA BlankJoins ==
  ASSUME NEW S, NEW K, Closed(S, K)
  PROVE  Closed(S \cup {Blank}, K)
BY ClosedWith DEF IsNodeOver

\* A closed set that the decoder stays over, whatever it takes.
Readable(K) == Texts(K) \cup {Token("cut")}

LEMMA ReturnOver ==
  ASSUME NEW S, NEW K, Closed(S, K), NEW calls, CallsOver(calls, S, K),
         \A i \in 1 .. Len(calls) : Keyed(calls[i]), NEW node, IsNodeOver(node, S, K)
  PROVE  \E S2 : Closed(S2, K) /\ DecoderOver(Placed(calls, node), S2, K)
<1>1. Closed(S \cup {node}, K) /\ CallsOver(calls, S \cup {node}, K)
  BY ClosedWith, CallsOverMore
<1> QED BY <1>1, PlacedOver

LEMMA TakeOver ==
  ASSUME NEW S, NEW K, Closed(S, K), NEW d, DecoderOver(d, S, K), NEW token \in Readable(K)
  PROVE  \E S2 : Closed(S2, K) /\ DecoderOver(Take(d, token), S2, K)
<1>1. CASE d.status # "reading"
  BY <1>1 DEF Take
<1>2. CASE d.status = "reading"
  <2> DEFINE calls == d.calls
  <2>1. d = Reading(calls) /\ CallsOver(calls, S, K)
    BY <1>2 DEF DecoderOver, Null, Decoded
  <2> HIDE DEF calls
  <2>2. CASE Ends(calls, token)
    <3>1. calls # <<>>
      BY <2>2 DEF Ends
    <3>2. Closed(S \cup {Blank}, K) /\ CallsOver(calls, S \cup {Blank}, K)
      BY <2>1, BlankJoins, CallsOverMore
    <3>3. /\ CallsOver(Front(calls), S \cup {Blank}, K) /\ IsCall(Last(calls), S \cup {Blank}, K)
          /\ \A i \in 1 .. Len(Front(calls)) : Keyed(Front(calls)[i])
      BY <3>1, <3>2, LastCall
    <3>4. IsNodeOver(WithBlank(Last(calls)), S \cup {Blank}, K)
      BY <3>3, WithBlankOver
    <3>5. Take(d, token) = Placed(Front(calls), WithBlank(Last(calls)))
      BY <1>2, <2>2 DEF Take, calls
    <3> QED BY <3>2, <3>3, <3>4, <3>5, ReturnOver
  <2>3. CASE ~ Ends(calls, token) /\ AwaitsKey(calls)
    <3>1. Take(d, token) = handle_key(calls, token)
      BY <1>2, <2>3 DEF Take, calls
    <3> DEFINE map == Last(calls).node.value
    <3>2. calls # <<>> /\ MapOver(map, S, K)
      <4>1. calls # <<>> /\ Last(calls).node.type = "dict"
        BY <2>3 DEF AwaitsKey
      <4>2. IsCall(Last(calls), S, K)
        BY <2>1, <4>1, LastCall
      <4>3. PICK top : top = Last(calls)
        OBVIOUS
      <4>4. MapOver(top.node.value, S, K)
        BY <4>1, <4>2, <4>3 DEF IsCall, Call, List
      <4> QED BY <4>1, <4>3, <4>4
    <3>3. CASE token.t # "s" \/ ~ HasRoom(map, token.value)
      BY <3>1, <3>3 DEF handle_key, DecoderOver
    <3>4. CASE token.t = "s" /\ HasRoom(map, token.value)
      <4>1. token.value \in K
        BY <3>4 DEF Readable, Texts, Brackets, Token
      <4>2. PICK key : key = <<token.value>>
        OBVIOUS
      <4>3. key # NoKey /\ Head(key) = token.value /\ key = <<Head(key)>>
        BY <4>2 DEF NoKey
      <4>4. IsCall(Call(Dict(map), key), S, K)
        BY <3>2, <3>4, <4>1, <4>3 DEF IsCall, Call, Dict
      <4>5. handle_key(calls, token) = GoesOn(calls, Call(Dict(map), key))
        BY <3>4, <4>2 DEF handle_key
      <4> QED BY <2>1, <3>1, <3>2, <4>4, <4>5, GoesOnOver
    <3> QED BY <3>3, <3>4
  <2>4. CASE ~ Ends(calls, token) /\ ~ AwaitsKey(calls)
    <3>1. Take(d, token) = decode_helper(calls, token)
      BY <1>2, <2>4 DEF Take, calls
    <3>2. \A i \in 1 .. Len(calls) : Keyed(calls[i])
      <4>1. CASE calls = <<>>
        BY <4>1
      <4>2. CASE calls # <<>>
        <5>1. Len(calls) \in Nat \ {0} /\ Last(calls) = calls[Len(calls)]
          BY <2>1, <4>2, LastCall DEF Last
        <5>2. Keyed(Last(calls))
          BY <2>4, <4>2 DEF AwaitsKey, Keyed
        <5>3. \A i \in 1 .. Len(calls) : i \in 1 .. Len(calls) - 1 \/ i = Len(calls)
          BY <5>1
        <5> QED BY <2>1, <5>1, <5>2, <5>3 DEF CallsOver
      <4> QED BY <4>1, <4>2
    <3>3. CASE decode_helper(calls, token) = Null
      BY <3>1, <3>3 DEF DecoderOver
    <3>4. ASSUME NEW node, decode_helper(calls, token) = Placed(calls, node), IsNodeOver(node, S, K)
          PROVE  \E S2 : Closed(S2, K) /\ DecoderOver(Take(d, token), S2, K)
      BY <2>1, <3>1, <3>2, <3>4, ReturnOver
    <3>5. ASSUME NEW top, decode_helper(calls, token) = Reading(Append(calls, top)),
                 IsCall(top, S, K)
          PROVE  \E S2 : Closed(S2, K) /\ DecoderOver(Take(d, token), S2, K)
      <4>1. CallsOver(Append(calls, top), S, K)
        BY <2>1, <3>2, <3>5, OneCallMore
      <4> QED BY <3>1, <3>5, <4>1 DEF DecoderOver, Reading
    <3>6. CASE Len(calls) + 1 > MAX_RECURSION
      BY <3>3, <3>6 DEF decode_helper
    <3>7. CASE ~ (Len(calls) + 1 > MAX_RECURSION)
      <4>1. CASE token.t = "d"
        <5>1. decode_helper(calls, token)
                = Reading(Append(calls, Call(Dict(hashmap_init(DICT_SIZE)), NoKey)))
          BY <3>7, <4>1 DEF decode_helper
        <5>2. IsCall(Call(Dict(hashmap_init(DICT_SIZE)), NoKey), S, K)
          BY EmptyMapOver, BencodingAssumption DEF IsCall, Call, Dict
        <5> QED BY <3>5, <5>1, <5>2
      <4>2. CASE token.t = "l"
        <5>1. decode_helper(calls, token) = Reading(Append(calls, Call(List(<<>>), NoKey)))
          BY <3>7, <4>2 DEF decode_helper
        <5>2. IsCall(Call(List(<<>>), NoKey), S, K)
          <6>0. <<>> \in Seq(S)
            OBVIOUS
          <6>1. PICK e \in Seq(S) : e = <<>>
            BY <6>0
          <6>2. IsCall(Call(List(e), NoKey), S, K)
            BY DEF IsCall, Call, List
          <6> QED BY <6>1, <6>2
        <5> QED BY <3>5, <5>1, <5>2
      <4>3. CASE token.t = "i"
        <5>1. decode_helper(calls, token) = Placed(calls, Num(token.value))
          BY <3>7, <4>3 DEF decode_helper
        <5>2. token.value \in Int
          BY <4>3 DEF Readable, Texts, Brackets, Token
        <5>3. IsNodeOver(Num(token.value), S, K)
          BY <5>2 DEF IsNodeOver, Num
        <5> QED BY <3>4, <5>1, <5>3
      <4>4. CASE token.t = "s"
        <5>1. decode_helper(calls, token) = Placed(calls, Str(token.value, token.len))
          BY <3>7, <4>4 DEF decode_helper
        <5>2. token.value \in K /\ token.len \in Nat
          BY <4>4 DEF Readable, Texts, Brackets, Token
        <5>3. IsNodeOver(Str(token.value, token.len), S, K)
          BY <5>2 DEF IsNodeOver, Str
        <5> QED BY <3>4, <5>1, <5>3
      <4>5. CASE token.t \notin {"d", "l", "i", "s"}
        BY <3>3, <3>7, <4>5 DEF decode_helper
      <4> QED BY <4>1, <4>2, <4>3, <4>4, <4>5
    <3> QED BY <3>6, <3>7
  <2> QED BY <2>2, <2>3, <2>4
<1> QED BY <1>1, <1>2

\* The decoder before the first token and behind each.
Decodes(file, r, n) ==
  /\ DOMAIN r = 0 .. n
  /\ \A k \in 0 .. n : r[k] = IF k = 0 THEN Reading(<<>>) ELSE Take(r[k - 1], file[k])

LEMMA DecodesExists ==
  ASSUME NEW file, NEW n \in Nat
  PROVE  \E r : Decodes(file, r, n)
<1> DEFINE T == {m \in Nat : ~ \E r : Decodes(file, r, m)}
<1> SUFFICES ASSUME T # {} PROVE FALSE
  OBVIOUS
<1>1. PICK m \in T : \A k \in T : m <= k
  <2>1. T \subseteq Nat
    OBVIOUS
  <2> HIDE DEF T
  <2> QED BY <2>1, LeastNumber
<1>2. m \in Nat /\ ~ \E r : Decodes(file, r, m)
  OBVIOUS
<1>3. CASE m = 0
  <2> DEFINE h == [k \in 0 .. 0 |-> Reading(<<>>)]
  <2>1. Decodes(file, h, 0)
    BY DEF Decodes
  <2> QED BY <1>2, <1>3, <2>1
<1>4. CASE m # 0
  <2>1. m - 1 \in Nat /\ m - 1 \notin T
    <3> HIDE DEF T
    <3>1. m - 1 \in Nat /\ ~ (m <= m - 1)
      BY <1>2, <1>4
    <3> QED BY <1>1, <3>1, Zenon
  <2>2. PICK g : Decodes(file, g, m - 1)
    BY <2>1
  <2> DEFINE h == [k \in 0 .. m |-> IF k < m THEN g[k] ELSE Take(g[m - 1], file[m])]
  <2> HIDE DEF T
  <2>3. ASSUME NEW k \in 0 .. m
        PROVE  h[k] = IF k = 0 THEN Reading(<<>>) ELSE Take(h[k - 1], file[k])
    <3>1. CASE k < m
      <4>1. k \in 0 .. m - 1 /\ (k # 0 => k - 1 \in 0 .. m - 1 /\ k - 1 < m /\ k - 1 \in 0 .. m)
        BY <1>2, <3>1
      <4>2. h[k] = g[k] /\ (k # 0 => h[k - 1] = g[k - 1])
        BY <3>1, <4>1
      <4> HIDE DEF h
      <4> QED BY <2>2, <4>1, <4>2 DEF Decodes
    <3>2. CASE k = m
      <4>1. k # 0 /\ k - 1 \in 0 .. m /\ k - 1 < m /\ k - 1 = m - 1
        BY <1>2, <1>4, <3>2
      <4>2. h[k] = Take(g[m - 1], file[m]) /\ h[k - 1] = g[m - 1]
        BY <3>2, <4>1
      <4> HIDE DEF h
      <4> QED BY <3>2, <4>1, <4>2
    <3> QED BY <1>2, <3>1, <3>2
  <2>4. DOMAIN h = 0 .. m
    OBVIOUS
  <2> HIDE DEF h
  <2>5. Decodes(file, h, m)
    BY <2>3, <2>4 DEF Decodes
  <2> QED BY <1>2, <2>5
<1> QED BY <1>3, <1>4

\* bencoding_decode returns what the decoder is behind the last token.
LEMMA DecodeIs ==
  ASSUME NEW file, NEW n \in Nat, Len(file) = n
  PROVE  \E r : /\ Decodes(file, r, n)
                /\ bencoding_decode(file) = IF r[n].status = "decoded" THEN r[n] ELSE Null
<1> DEFINE Run(g) == g = [k \in 0 .. Len(file) |->
                            IF k = 0 THEN Reading(<<>>) ELSE Take(g[k - 1], file[k])]
           after == CHOOSE g : Run(g)
<1>1. PICK h : Decodes(file, h, n)
  BY DecodesExists
<1>2. \E g : Run(g)
  <2> DEFINE g == [k \in 0 .. n |-> h[k]]
  <2>1. ASSUME NEW k \in 0 .. n
        PROVE  g[k] = IF k = 0 THEN Reading(<<>>) ELSE Take(g[k - 1], file[k])
    <3>1. k # 0 => k - 1 \in 0 .. n
      OBVIOUS
    <3> QED BY <1>1, <3>1 DEF Decodes
  <2>2. g = [k \in 0 .. n |-> g[k]]
    OBVIOUS
  <2> HIDE DEF g
  <2>3. g = [k \in 0 .. n |-> IF k = 0 THEN Reading(<<>>) ELSE Take(g[k - 1], file[k])]
    BY <2>1, <2>2
  <2> QED BY <2>3
<1>3. Run(after)
  <2> HIDE DEF Run
  <2> QED BY <1>2
<1>4. bencoding_decode(file)
        = IF after[Len(file)].status = "decoded" THEN after[Len(file)] ELSE Null
  BY Zenon DEF bencoding_decode
<1> HIDE DEF after
<1>5. Decodes(file, after, n)
  BY <1>3 DEF Decodes
<1> QED BY <1>4, <1>5

LEMMA DecodedOver ==
  ASSUME NEW K, NEW file \in Seq(Readable(K)), NEW r, NEW n \in Nat, n = Len(file),
         Decodes(file, r, n), NEW k \in 0 .. n
  PROVE  \E S : Closed(S, K) /\ DecoderOver(r[k], S, K)
<1> DEFINE Holds(i) == \E S : Closed(S, K) /\ DecoderOver(r[i], S, K)
           T == {i \in 0 .. n : ~ Holds(i)}
<1> SUFFICES ASSUME T # {} PROVE FALSE
  OBVIOUS
<1>1. PICK i \in T : \A y \in T : i <= y
  <2>1. T \subseteq Nat
    OBVIOUS
  <2> HIDE DEF T
  <2> QED BY <2>1, LeastNumber
<1>2. i \in 0 .. n /\ ~ Holds(i)
  OBVIOUS
<1>3. CASE i = 0
  <2>1. r[0] = Reading(<<>>) /\ Closed({}, K)
    BY DEF Decodes, Closed
  <2> QED BY <1>2, <1>3, <2>1, NoCalls
<1>4. CASE i # 0
  <2>1. i - 1 \in 0 .. n /\ i \in 1 .. n /\ ~ (i <= i - 1)
    BY <1>2, <1>4
  <2>2. i - 1 \notin T
    <3> HIDE DEF T
    <3> QED BY <1>1, <2>1, Zenon
  <2>3. PICK S : Closed(S, K) /\ DecoderOver(r[i - 1], S, K)
    BY <2>1, <2>2
  <2>4. file[i] \in Readable(K)
    BY <2>1, ElementOfSeq
  <2>5. r[i] = Take(r[i - 1], file[i])
    BY <1>2, <1>4 DEF Decodes
  <2> QED BY <1>2, <2>3, <2>4, <2>5, TakeOver
<1> QED BY <1>3, <1>4
LEMMA DecodeSound ==
  ASSUME NEW K, NEW file \in Seq(Readable(K)), bencoding_decode(file).status = "decoded"
  PROVE  \E S : Closed(S, K) /\ bencoding_decode(file).node \in S
<1>1. PICK n \in Nat : n = Len(file)
  OBVIOUS
<1>2. PICK r : /\ Decodes(file, r, n)
               /\ bencoding_decode(file) = IF r[n].status = "decoded" THEN r[n] ELSE Null
  BY <1>1, DecodeIs
<1>3. bencoding_decode(file) = r[n] /\ r[n].status = "decoded"
  BY <1>2 DEF Null
<1>4. PICK S : Closed(S, K) /\ DecoderOver(r[n], S, K)
  BY <1>1, <1>2, DecodedOver
<1>5. r[n].node \in S
  BY <1>3, <1>4 DEF DecoderOver, Null, Reading
<1> QED BY <1>3, <1>4, <1>5

-----------------------------------------------------------------------------
(***************************************************************************)
(* The entries of a map, in order                                          *)
(***************************************************************************)

\* Numbers with the same remainder that are not a multiple apart are the same.
LEMMA SameRemainder ==
  ASSUME NEW m \in Nat \ {0}, NEW x \in Int, NEW y \in Int,
         x % m = y % m, x - y < m, y - x < m
  PROVE  x = y
<1>0. /\ x \div m \in Int /\ x = m * (x \div m) + (x % m) /\ x % m \in Int
      /\ y \div m \in Int /\ y = m * (y \div m) + (y % m)
  BY Z3
<1>1. PICK p \in Int : p = x \div m
  BY <1>0
<1>2. PICK q \in Int : q = y \div m
  BY <1>0
<1>3. x - y = m * p - m * q
  <2>1. PICK r \in Int : r = x % m
    BY <1>0
  <2>2. x = m * p + r /\ y = m * q + r
    BY <1>0, <1>1, <1>2, <2>1
  <2>3. m * p \in Int /\ m * q \in Int
    OBVIOUS
  <2> QED BY <2>2, <2>3
<1>4. CASE p = q
  BY <1>3, <1>4
<1>5. CASE p > q
  <2>1. PICK d \in Nat : p = q + 1 + d
    <3>1. p - q - 1 \in Nat
      BY <1>5
    <3> QED BY <3>1
  <2>2. m * p - m * q = m + m * d /\ m * d \in Nat
    BY <2>1
  <2> QED BY <1>3, <2>2
<1>6. CASE p < q
  <2>1. PICK d \in Nat : q = p + 1 + d
    <3>1. q - p - 1 \in Nat
      BY <1>6
    <3> QED BY <3>1
  <2>2. m * q - m * p = m + m * d /\ m * d \in Nat
    BY <2>1
  <2> QED BY <1>3, <2>2
<1> QED BY <1>4, <1>5, <1>6

\* Earlier is a strict order of all slots in use.
LEMMA EarlierOrders ==
  ASSUME NEW map, IsMap(map), NEW start \in Int
  PROVE  LET slots == DOMAIN map.elements
         IN  /\ \A s \in slots : ~ Earlier(map, start, s, s)
             /\ \A s, t \in slots : s # t => Earlier(map, start, s, t) \/ Earlier(map, start, t, s)
             /\ \A s, t, u \in slots :
                  Earlier(map, start, s, t) /\ Earlier(map, start, t, u) => Earlier(map, start, s, u)
<1> DEFINE slots == DOMAIN map.elements
           m == map.map_size
           rank == [s \in slots |-> place_of(map.elements[s].key)]
           turn == [s \in slots |-> (s + m - start) % m]
<1>1. m \in Nat \ {0} /\ slots \subseteq 0 .. m - 1
  BY DEF IsMap, Slots
<1>2. \A s, t \in slots : Earlier(map, start, s, t)
                            <=> rank[s] < rank[t] \/ (rank[s] = rank[t] /\ turn[s] < turn[t])
  BY DEF Earlier
<1>3. \A s \in slots : rank[s] \in Nat
  BY HashOfType
<1>4. \A s \in slots : turn[s] \in Nat
  <2> TAKE s \in slots
  <2>1. PICK n \in Int : n = s + m - start
    BY <1>1
  <2>2. n % m \in Nat
    BY <1>1, Z3
  <2> QED BY <2>1, <2>2
<1>5. \A s, t \in slots : s # t => turn[s] # turn[t]
  <2> SUFFICES ASSUME NEW s \in slots, NEW t \in slots, turn[s] = turn[t] PROVE s = t
    OBVIOUS
  <2>1. PICK x \in Int : x = s + m - start
    BY <1>1
  <2>2. PICK y \in Int : y = t + m - start
    BY <1>1
  <2>3. x % m = y % m
    BY <2>1, <2>2
  <2>4. x - y < m /\ y - x < m
    BY <1>1, <2>1, <2>2
  <2>5. x = y
    BY <1>1, <2>3, <2>4, SameRemainder
  <2>6. s \in Int /\ t \in Int /\ m \in Int
    BY <1>1
  <2> QED BY ONLY <2>1, <2>2, <2>5, <2>6, start \in Int
<1> HIDE DEF rank, turn, m
<1>6. \A s \in slots : ~ Earlier(map, start, s, s)
  BY <1>2, <1>3, <1>4
<1>7. \A s, t \in slots : s # t => Earlier(map, start, s, t) \/ Earlier(map, start, t, s)
  BY <1>2, <1>3, <1>4, <1>5
<1>8. \A s, t, u \in slots :
        Earlier(map, start, s, t) /\ Earlier(map, start, t, u) => Earlier(map, start, s, u)
  BY <1>2, <1>3, <1>4
<1> QED BY <1>6, <1>7, <1>8

LEMMA SlotsFinite ==
  ASSUME NEW map, IsMap(map)
  PROVE  /\ IsFiniteSet(DOMAIN map.elements) /\ Cardinality(DOMAIN map.elements) \in Nat
         /\ Cardinality(DOMAIN map.elements) <= map.map_size
<1>1. IsFiniteSet(Slots(map)) /\ Cardinality(Slots(map)) = map.map_size
  <2>1. map.map_size \in Nat \ {0}
    BY DEF IsMap
  <2>2. PICK m \in Nat \ {0} : m = map.map_size
    BY <2>1
  <2>3. IsFiniteSet(0 .. m - 1) /\ Cardinality(0 .. m - 1) = m
    BY FS_Interval
  <2> QED BY <2>2, <2>3 DEF Slots
<1>2. DOMAIN map.elements \in SUBSET Slots(map)
  BY DEF IsMap
<1> QED BY <1>1, <1>2, FS_Subset, FS_CardinalityType

\* The slots in the order of the entries: each is there, once.
Orders(map, start, order) ==
  LET slots == DOMAIN map.elements
      n == Cardinality(slots)
  IN  /\ order \in [1 .. n -> slots]
      /\ \A s \in slots : \E k \in 1 .. n : order[k] = s
      /\ \A j, k \in 1 .. n : j < k => Earlier(map, start, order[j], order[k])
      /\ hashmap_entries(map, start) = [k \in 1 .. n |-> map.elements[order[k]]]

LEMMA EntriesOrdered ==
  ASSUME NEW map, IsMap(map), NEW start \in Int
  PROVE  \E order : Orders(map, start, order)
<1> DEFINE slots == DOMAIN map.elements
           n == Cardinality(slots)
           before == [s \in slots |-> {t \in slots : Earlier(map, start, t, s)}]
           place == [s \in slots |-> 1 + Cardinality({t \in slots : Earlier(map, start, t, s)})]
           order == [k \in 1 .. n |-> CHOOSE s \in slots : place[s] = k]
<1>1. IsFiniteSet(slots) /\ n \in Nat
  BY SlotsFinite
<1>2. hashmap_entries(map, start) = [k \in 1 .. n |-> map.elements[CHOOSE s \in slots : place[s] = k]]
  BY Zenon DEF hashmap_entries
<1>3. \A s \in slots : place[s] = 1 + Cardinality(before[s])
  OBVIOUS
<1>4. \A s, t \in slots : t \in before[s] <=> Earlier(map, start, t, s)
  OBVIOUS
<1>5. \A s \in slots : before[s] \in SUBSET slots
  OBVIOUS
<1>6. /\ \A s \in slots : ~ Earlier(map, start, s, s)
      /\ \A s, t \in slots : s # t => Earlier(map, start, s, t) \/ Earlier(map, start, t, s)
      /\ \A s, t, u \in slots :
           Earlier(map, start, s, t) /\ Earlier(map, start, t, u) => Earlier(map, start, s, u)
  BY EarlierOrders
<1>7. \A s \in slots : Cardinality(before[s]) \in Nat /\ IsFiniteSet(before[s])
  BY <1>1, <1>5, FS_Subset, FS_CardinalityType
<1>p. DOMAIN place = slots
  OBVIOUS
<1> HIDE DEF before, place, slots, n
<1>8. \A s \in slots : place[s] \in 1 .. n
  <2> TAKE s \in slots
  <2>1. before[s] # slots
    BY <1>4, <1>6
  <2>2. Cardinality(before[s]) <= n /\ Cardinality(before[s]) # n
    BY <1>1, <1>5, <2>1, FS_Subset DEF n
  <2> QED BY <1>1, <1>3, <1>7, <2>2
<1>9. \A s, t \in slots : Earlier(map, start, s, t) => place[s] < place[t]
  <2> SUFFICES ASSUME NEW s \in slots, NEW t \in slots, Earlier(map, start, s, t)
               PROVE  place[s] < place[t]
    OBVIOUS
  <2>1. before[s] \in SUBSET before[t]
    BY <1>4, <1>5, <1>6
  <2>2. s \in before[t] /\ s \notin before[s]
    BY <1>4, <1>6
  <2>3. Cardinality(before[s]) <= Cardinality(before[t]) /\ Cardinality(before[s]) # Cardinality(before[t])
    BY <1>7, <2>1, <2>2, FS_Subset
  <2> QED BY <1>3, <1>7, <2>3
<1>10. \A s, t \in slots : s # t => place[s] # place[t]
  BY <1>6, <1>8, <1>9
<1>11. \A k \in 1 .. n : \E s \in slots : place[s] = k
  <2>1. place \in [slots -> 1 .. n]
    <3>1. place = [s \in slots |-> place[s]]
      BY <1>p DEF place
    <3> QED BY <1>8, <3>1
  <2>2. place \in Injection(slots, 1 .. n)
    BY <1>10, <2>1 DEF Injection, IsInjective
  <2>3. IsFiniteSet(1 .. n) /\ Cardinality(1 .. n) = n
    BY <1>1, FS_Interval
  <2>4. place \in Surjection(slots, 1 .. n)
    BY <2>2, <2>3, FS_Injection DEF n
  <2> QED BY <2>4 DEF Surjection
<1>12. \A k \in 1 .. n : order[k] \in slots /\ place[order[k]] = k
  BY <1>11
<1>o. DOMAIN order = 1 .. n /\ order = [k \in 1 .. n |-> order[k]]
  OBVIOUS
<1>13. hashmap_entries(map, start) = [k \in 1 .. n |-> map.elements[order[k]]]
  BY <1>2
<1> HIDE DEF order
<1>14. order \in [1 .. n -> slots]
  BY <1>12, <1>o
<1>15. \A s \in slots : \E k \in 1 .. n : order[k] = s
  BY <1>8, <1>10, <1>12
<1>16. \A j, k \in 1 .. n : j < k => Earlier(map, start, order[j], order[k])
  <2> SUFFICES ASSUME NEW j \in 1 .. n, NEW k \in 1 .. n, j < k
               PROVE  Earlier(map, start, order[j], order[k])
    OBVIOUS
  <2>1. order[j] # order[k]
    BY <1>12
  <2>2. ~ Earlier(map, start, order[k], order[j])
    BY <1>1, <1>9, <1>12
  <2> QED BY <1>6, <1>12, <2>1, <2>2
<1>17. Orders(map, start, order)
  BY <1>13, <1>14, <1>15, <1>16 DEF Orders, slots, n
<1> QED BY <1>17

-----------------------------------------------------------------------------
(***************************************************************************)
(* How deep a place in a file is: how many brackets were opened before it  *)
(* and not closed                                                          *)
(***************************************************************************)
Items(S, K) == Texts(K) \cup [t : {"node"}, node : S]

Weight(item) == IF item.t \in {"d", "l"} THEN 1 ELSE IF item.t = "e" THEN -1 ELSE 0

Climbs(s, g) ==
  /\ g \in [0 .. Len(s) -> Int]
  /\ \A k \in 1 .. Len(s) : g[k] = g[k - 1] + Weight(s[k])

\* From depth a to depth b, and never less deep than m.
Rises(s, a, b, m) ==
  \E g : /\ Climbs(s, g) /\ g[0] = a /\ g[Len(s)] = b
         /\ \A k \in 0 .. Len(s) : g[k] >= m

LEMMA RisesEmpty ==
  ASSUME NEW a \in Int, NEW m \in Int, a >= m
  PROVE  Rises(<<>>, a, a, m)
<1>1. PICK g : g = [k \in 0 .. 0 |-> a]
  OBVIOUS
<1>2. Len(<<>>) = 0
  OBVIOUS
<1>3. Climbs(<<>>, g)
  BY <1>1, <1>2 DEF Climbs
<1> QED BY <1>1, <1>2, <1>3 DEF Rises

LEMMA RisesOne ==
  ASSUME NEW x, NEW a \in Int, NEW m \in Int, a >= m, a + Weight(x) >= m
  PROVE  Rises(<<x>>, a, a + Weight(x), m)
<1>1. PICK g : g = [k \in 0 .. 1 |-> IF k = 0 THEN a ELSE a + Weight(x)]
  OBVIOUS
<1>2. Len(<<x>>) = 1 /\ <<x>>[1] = x
  OBVIOUS
<1>3. Weight(x) \in Int
  BY DEF Weight
<1>4. g[0] = a /\ g[1] = a + Weight(x) /\ g \in [0 .. 1 -> Int]
  BY <1>1, <1>3
<1>5. Climbs(<<x>>, g)
  BY <1>2, <1>4 DEF Climbs
<1> QED BY <1>2, <1>4, <1>5 DEF Rises

LEMMA RisesShifted ==
  ASSUME NEW I, NEW s \in Seq(I), NEW a \in Int, NEW b \in Int, NEW m \in Int, Rises(s, a, b, m),
         NEW d \in Int, NEW m2 \in Int, m2 <= m + d
  PROVE  Rises(s, a + d, b + d, m2)
<1>1. PICK g : /\ Climbs(s, g) /\ g[0] = a /\ g[Len(s)] = b
               /\ \A k \in 0 .. Len(s) : g[k] >= m
  BY DEF Rises
<1>2. PICK n \in Nat : n = Len(s)
  OBVIOUS
<1>3. PICK h : h = [k \in 0 .. n |-> g[k] + d]
  OBVIOUS
<1>4. \A k \in 0 .. n : g[k] \in Int /\ h[k] = g[k] + d
  BY <1>1, <1>2, <1>3 DEF Climbs
<1>5. h \in [0 .. n -> Int]
  BY <1>3, <1>4
<1>6. ASSUME NEW k \in 1 .. n PROVE h[k] = h[k - 1] + Weight(s[k])
  <2>1. k \in 0 .. n /\ k - 1 \in 0 .. n /\ g[k] = g[k - 1] + Weight(s[k])
    BY <1>1, <1>2 DEF Climbs
  <2>2. Weight(s[k]) \in Int
    BY DEF Weight
  <2> QED BY <1>4, <2>1, <2>2
<1>7. Climbs(s, h)
  BY <1>2, <1>5, <1>6 DEF Climbs
<1>8. \A k \in 0 .. n : h[k] >= m2
  BY <1>1, <1>2, <1>4
<1> QED BY <1>1, <1>2, <1>4, <1>7, <1>8 DEF Rises

LEMMA RisesConcat ==
  ASSUME NEW I, NEW s \in Seq(I), NEW t \in Seq(I), NEW a, NEW b, NEW c, NEW m \in Int,
         Rises(s, a, b, m), Rises(t, b, c, m)
  PROVE  Rises(s \o t, a, c, m)
<1>1. PICK g : /\ Climbs(s, g) /\ g[0] = a /\ g[Len(s)] = b
               /\ \A k \in 0 .. Len(s) : g[k] >= m
  BY DEF Rises
<1>2. PICK h : /\ Climbs(t, h) /\ h[0] = b /\ h[Len(t)] = c
               /\ \A k \in 0 .. Len(t) : h[k] >= m
  BY DEF Rises
<1>3. PICK n \in Nat : n = Len(s)
  OBVIOUS
<1>4. PICK p \in Nat : p = Len(t)
  OBVIOUS
<1>5. PICK u : u = s \o t
  OBVIOUS
<1>6. /\ Len(u) = n + p
      /\ \A k \in 1 .. n : u[k] = s[k]
      /\ \A k \in 1 .. p : u[n + k] = t[k]
  BY <1>3, <1>4, <1>5
<1>7. PICK f : f = [k \in 0 .. n + p |-> IF k <= n THEN g[k] ELSE h[k - n]]
  OBVIOUS
<1>8. /\ \A k \in 0 .. n : f[k] = g[k] /\ g[k] \in Int /\ g[k] >= m
      /\ \A k \in 0 .. p : f[n + k] = h[k] /\ h[k] \in Int /\ h[k] >= m
  <2>1. ASSUME NEW k \in 0 .. n PROVE f[k] = g[k] /\ g[k] \in Int /\ g[k] >= m
    <3>1. g[k] \in Int /\ g[k] >= m
      BY <1>1, <1>3 DEF Climbs
    <3>2. k \in 0 .. n + p /\ k <= n
      BY ONLY n \in Nat, p \in Nat, k \in 0 .. n
    <3>3. f[k] = IF k <= n THEN g[k] ELSE h[k - n]
      BY ONLY <1>7, <3>2
    <3> QED BY <3>1, <3>2, <3>3
  <2>2. ASSUME NEW k \in 0 .. p PROVE f[n + k] = h[k] /\ h[k] \in Int /\ h[k] >= m
    <3>1. h[k] \in Int /\ h[k] >= m
      BY <1>2, <1>4 DEF Climbs
    <3>2. CASE k = 0
      <4>1. n + k = n /\ n \in 0 .. n
        BY <3>2
      <4> QED BY <1>1, <1>2, <1>3, <2>1, <3>1, <3>2, <4>1
    <3>3. CASE k # 0
      <4>1. n + k \in 0 .. n + p /\ ~ (n + k <= n) /\ n + k - n = k
        BY <3>3
      <4> QED BY <1>7, <3>1, <4>1
    <3> QED BY <3>2, <3>3
  <2> QED BY <2>1, <2>2
<1>9. \A k \in 0 .. n + p : k \in 0 .. n \/ (k - n \in 1 .. p /\ k = n + (k - n))
  OBVIOUS
<1>10. \A k \in 0 .. n + p : f[k] \in Int /\ f[k] >= m
  <2> TAKE k \in 0 .. n + p
  <2>1. CASE k \in 0 .. n
    BY <1>8, <2>1
  <2>2. CASE k - n \in 1 .. p /\ k = n + (k - n)
    <3>1. PICK j \in 0 .. p : j = k - n
      BY <2>2
    <3> QED BY <1>8, <2>2, <3>1
  <2> QED BY <1>9, <2>1, <2>2
<1>11. ASSUME NEW k \in 1 .. n + p PROVE f[k] = f[k - 1] + Weight(u[k])
  <2>1. CASE k \in 1 .. n
    <3>1. g[k] = g[k - 1] + Weight(s[k])
      BY <1>1, <1>3, <2>1 DEF Climbs
    <3>2. k \in 0 .. n /\ k - 1 \in 0 .. n
      BY <2>1
    <3> QED BY <1>6, <1>8, <2>1, <3>1, <3>2
  <2>2. CASE k \notin 1 .. n
    <3>1. PICK j \in 1 .. p : k = n + j
      <4>1. k - n \in 1 .. p /\ k = n + (k - n)
        BY <2>2
      <4> QED BY <4>1
    <3>2. h[j] = h[j - 1] + Weight(t[j])
      BY <1>2, <1>4 DEF Climbs
    <3>3. j \in 0 .. p /\ j - 1 \in 0 .. p /\ k - 1 = n + (j - 1)
      BY <3>1
    <3> QED BY <1>6, <1>8, <3>1, <3>2, <3>3
  <2> QED BY <2>1, <2>2
<1>12. f \in [0 .. n + p -> Int]
  BY <1>7, <1>10
<1>13. Climbs(u, f)
  BY <1>6, <1>11, <1>12 DEF Climbs
<1>14. f[0] = a /\ f[n + p] = c
  <2>1. 0 \in 0 .. n /\ p \in 0 .. p
    OBVIOUS
  <2> QED BY <1>1, <1>2, <1>4, <1>8, <2>1
<1>15. Rises(u, a, c, m)
  BY <1>6, <1>10, <1>13, <1>14 DEF Rises
<1> QED BY <1>5, <1>15

\* Put together, pieces rise as they do one after the other.
LEMMA FlattenRises ==
  ASSUME NEW I, NEW seqs \in Seq(Seq(I)), NEW m \in Int, NEW n \in Nat, n = Len(seqs),
         NEW g \in [0 .. n -> Int], g[0] >= m,
         \A k \in 1 .. n : Rises(seqs[k], g[k - 1], g[k], m)
  PROVE  Rises(FlattenSeq(seqs), g[0], g[n], m)
<1> DEFINE Holds(i) == Rises(FlattenSeq(SubSeq(seqs, 1, i)), g[0], g[i], m)
           T == {i \in 0 .. n : ~ Holds(i)}
<1>0. SubSeq(seqs, 1, n) = seqs
  OBVIOUS
<1> SUFFICES ASSUME T # {} PROVE FALSE
  <2>1. Holds(n)
    OBVIOUS
  <2> QED BY <1>0, <2>1
<1>1. PICK i \in T : \A y \in T : i <= y
  <2>1. T \subseteq Nat
    OBVIOUS
  <2> HIDE DEF T
  <2> QED BY <2>1, LeastNumber
<1>2. i \in 0 .. n /\ ~ Holds(i)
  OBVIOUS
<1>3. CASE i = 0
  <2>1. SubSeq(seqs, 1, i) = <<>>
    BY <1>3
  <2>2. Rises(<<>>, g[0], g[0], m)
    <3>1. PICK a \in Int : a = g[0] /\ a >= m
      <4>1. 0 \in 0 .. n
        BY ONLY n \in Nat
      <4> QED BY ONLY <4>1, g \in [0 .. n -> Int], g[0] >= m
    <3>2. Rises(<<>>, a, a, m)
      BY ONLY <3>1, RisesEmpty, m \in Int
    <3> QED BY ONLY <3>1, <3>2
  <2>3. FlattenSeq(SubSeq(seqs, 1, i)) = <<>>
    BY ONLY <2>1, FlattenEmpty
  <2> QED BY <1>2, <1>3, <2>2, <2>3
<1>4. CASE i # 0
  <2>1. i - 1 \in 0 .. n /\ i \in 1 .. n /\ ~ (i <= i - 1)
    BY <1>2, <1>4
  <2>2. Holds(i - 1)
    <3> HIDE DEF Holds
    <3>1. i - 1 \notin T
      <4> HIDE DEF T
      <4> QED BY <1>1, <2>1, Zenon
    <3> QED BY <2>1, <3>1
  <2>c. PICK c : c = SubSeq(seqs, 1, i - 1)
    OBVIOUS
  <2>3. c \in Seq(Seq(I)) /\ seqs[i] \in Seq(I)
    <3>1. \A j \in 1 .. i - 1 : j \in 1 .. Len(seqs)
      BY <2>1
    <3> QED BY <2>c, <2>1, <3>1, SubSeqProperties, ElementOfSeq
  <2> HIDE DEF T
  <2>4. SubSeq(seqs, 1, i) = Append(c, seqs[i])
    <3>1. PICK B \in Seq(Seq(I)) : B = seqs
      OBVIOUS
    <3>2. PICK k \in 1 .. Len(B) : k = i
      BY <2>1, <3>1
    <3>3. SubSeq(B, 1, k) = Append(SubSeq(B, 1, k - 1), B[k])
      BY ONLY B \in Seq(Seq(I)), k \in 1 .. Len(B)
    <3> QED BY <2>c, <3>1, <3>2, <3>3
  <2>5. /\ FlattenSeq(Append(c, seqs[i])) = FlattenSeq(c) \o seqs[i]
        /\ FlattenSeq(c) \in Seq(I)
    BY <2>3, FlattenAppend
  <2>6. Rises(FlattenSeq(c), g[0], g[i - 1], m) /\ Rises(seqs[i], g[i - 1], g[i], m)
    BY <2>c, <2>1, <2>2
  <2>7. Rises(FlattenSeq(c) \o seqs[i], g[0], g[i], m)
    BY <2>3, <2>5, <2>6, RisesConcat
  <2> QED BY <1>2, <2>4, <2>5, <2>7
<1> QED BY <1>3, <1>4

-----------------------------------------------------------------------------
(***************************************************************************)
(* Encoding: a tree without a flaw is written down as tokens whose         *)
(* brackets match                                                          *)
(***************************************************************************)

\* What one more level makes of an item.
Unfolded(item, start) ==
  IF item.t = "node" THEN encode_helper(item.node, start) ELSE <<item>>
Written(item) == IF item.t = "node" THEN <<>> ELSE <<item>>

LEMMA ItemKinds ==
  ASSUME NEW S, NEW K
  PROVE  /\ \A node \in S : ToEncode(node) \in Items(S, K) /\ Weight(ToEncode(node)) = 0
         /\ Token("d") \in Items(S, K) /\ Weight(Token("d")) = 1
         /\ Token("l") \in Items(S, K) /\ Weight(Token("l")) = 1
         /\ Token("e") \in Items(S, K) /\ Weight(Token("e")) = -1
         /\ \A n \in Int : NumToken(n) \in Items(S, K) /\ Weight(NumToken(n)) = 0
         /\ \A v \in K, n \in Nat : StrToken(v, n) \in Items(S, K) /\ Weight(StrToken(v, n)) = 0
         /\ \A x \in Items(S, K) : x.t = "node" => x.node \in S /\ x = ToEncode(x.node)
         /\ \A x \in Items(S, K) : x.t # "node" => x \in Texts(K)
BY DEF Items, Texts, Brackets, Weight, ToEncode, Token, NumToken, StrToken

\* Pieces that are each at the depth where they began.
LEMMA FlattenLevel ==
  ASSUME NEW I, NEW n \in Nat, NEW seqs, seqs = [k \in 1 .. n |-> seqs[k]],
         \A k \in 1 .. n : seqs[k] \in Seq(I) /\ Rises(seqs[k], 0, 0, 0)
  PROVE  FlattenSeq(seqs) \in Seq(I) /\ Rises(FlattenSeq(seqs), 0, 0, 0)
<1>1. seqs \in Seq(Seq(I)) /\ Len(seqs) = n
  <2>1. seqs \in [1 .. n -> Seq(I)]
    OBVIOUS
  <2> QED BY <2>1
<1>2. PICK g : g = [k \in 0 .. n |-> 0]
  OBVIOUS
<1>3. g \in [0 .. n -> Int] /\ \A k \in 0 .. n : g[k] = 0
  BY <1>2
<1>4. ASSUME NEW k \in 1 .. n PROVE Rises(seqs[k], g[k - 1], g[k], 0)
  <2>1. k \in 0 .. n /\ k - 1 \in 0 .. n
    OBVIOUS
  <2>2. g[k] = 0 /\ g[k - 1] = 0
    BY <1>3, <2>1
  <2> QED BY <2>2
<1>5. g[0] = 0 /\ g[n] = 0 /\ g[0] >= 0
  BY <1>3
<1>z. PICK z \in Int : z = 0
  OBVIOUS
<1>6. Rises(FlattenSeq(seqs), g[0], g[n], z)
  <2>1. n = Len(seqs) /\ g[0] >= z /\ \A k \in 1 .. n : Rises(seqs[k], g[k - 1], g[k], z)
    BY <1>1, <1>4, <1>5, <1>z
  <2> HIDE <1>z
  <2> QED BY ONLY <2>1, <1>1, <1>3, n \in Nat, z \in Int, FlattenRises
<1> QED BY <1>1, <1>5, <1>6, <1>z, FlattenType

\* One item alone, and a piece one bracket further down.
LEMMA OneLevel ==
  ASSUME NEW x, NEW a \in Int, NEW b \in Int, NEW m \in Int, a >= m, b >= m, b = a + Weight(x)
  PROVE  Rises(<<x>>, a, b, m)
<1>1. Rises(<<x>>, a, a + Weight(x), m)
  BY RisesOne
<1> QED BY <1>1

LEMMA LevelDown ==
  ASSUME NEW I, NEW s \in Seq(I), Rises(s, 0, 0, 0), NEW m \in Int, m <= 1
  PROVE  Rises(s, 1, 1, m)
<1>1. PICK z \in Int, one \in Int : z = 0 /\ one = 1
  OBVIOUS
<1>2. Rises(s, z, z, z)
  BY <1>1
<1>3. m <= z + one
  BY <1>1
<1>4. Rises(s, z + one, z + one, m)
  BY <1>2, <1>3, RisesShifted
<1>5. z + one = 1
  BY <1>1
<1> QED BY <1>4, <1>5

\* A bracket, what is inside, and the bracket that closes it.
LEMMA Bracketed ==
  ASSUME NEW I, NEW open \in I, NEW close \in I, Weight(open) = 1, Weight(close) = -1,
         NEW inside \in Seq(I), Rises(inside, 0, 0, 0)
  PROVE  /\ <<open>> \o inside \o <<close>> \in Seq(I)
         /\ Rises(<<open>> \o inside \o <<close>>, 0, 0, 0)
<1>1. <<open>> \in Seq(I) /\ <<close>> \in Seq(I)
  OBVIOUS
<1>z. PICK z \in Int, one \in Int : z = 0 /\ one = 1
  OBVIOUS
<1>2. Rises(<<open>>, z, one, z)
  BY <1>z, OneLevel
<1>3. Rises(inside, one, one, z)
  BY <1>z, LevelDown
<1>4. Rises(<<close>>, one, z, z)
  BY <1>z, OneLevel
<1>5. PICK left \in Seq(I) : left = <<open>> \o inside
  BY <1>1, ConcatProperties
<1>6. Rises(<<open>> \o inside, z, one, z)
  BY <1>1, <1>2, <1>3, RisesConcat
<1>7. Rises(left \o <<close>>, z, z, z)
  BY <1>1, <1>4, <1>5, <1>6, RisesConcat
<1>8. left \o <<close>> \in Seq(I)
  BY <1>1, ConcatProperties
<1> QED BY <1>5, <1>7, <1>8, <1>z

LEMMA TwoLevel ==
  ASSUME NEW I, NEW x \in I, NEW y \in I, Weight(x) = 0, Weight(y) = 0
  PROVE  <<x, y>> \in Seq(I) /\ Rises(<<x, y>>, 0, 0, 0)
<1>z. PICK z \in Int : z = 0
  OBVIOUS
<1>1. Rises(<<x>>, z, z, z) /\ Rises(<<y>>, z, z, z)
  BY <1>z, OneLevel
<1>2. <<x>> \in Seq(I) /\ <<y>> \in Seq(I) /\ <<x, y>> \in Seq(I)
  OBVIOUS
<1>3. <<x>> \o <<y>> = <<x, y>>
  <2>1. PICK s \in Seq(I) : s = <<x>> \o <<y>>
    BY <1>2, ConcatProperties
  <2>2. PICK r \in Seq(I) : r = <<x, y>>
    BY <1>2
  <2>3. Len(s) = 2 /\ s[1] = x /\ s[2] = y
    BY <1>2, <2>1
  <2>4. Len(r) = 2 /\ r[1] = x /\ r[2] = y
    BY <2>2
  <2>5. \A k \in 1 .. 2 : k = 1 \/ k = 2
    OBVIOUS
  <2>6. s = r
    BY <2>3, <2>4, <2>5, SeqEqual
  <2> QED BY <2>1, <2>2, <2>6
<1>4. Rises(<<x>> \o <<y>>, z, z, z)
  BY <1>1, <1>2, RisesConcat
<1> QED BY <1>2, <1>3, <1>4, <1>z

LEMMA EntriesLevel ==
  ASSUME NEW S, NEW K, NEW map, MapOver(map, S, K), NEW start \in Int
  PROVE  /\ EncodeEntries(map, start) \in Seq(Items(S, K))
         /\ Rises(EncodeEntries(map, start), 0, 0, 0)
<1>1. PICK order : Orders(map, start, order)
  BY EntriesOrdered DEF MapOver
<1>2. PICK n \in Nat : n = Cardinality(DOMAIN map.elements)
  BY SlotsFinite DEF MapOver
<1>3. PICK entries : entries = hashmap_entries(map, start)
  OBVIOUS
<1>4. entries = [k \in 1 .. n |-> map.elements[order[k]]] /\ order \in [1 .. n -> DOMAIN map.elements]
  BY <1>1, <1>2, <1>3 DEF Orders
<1>5. DOMAIN entries = 1 .. n /\ \A k \in 1 .. n : entries[k] \in [key : K, value : S]
  BY <1>4 DEF MapOver
<1>6. PICK seqs : seqs = [k \in 1 .. n |-> <<KeyToken(entries[k].key), ToEncode(entries[k].value)>>]
  OBVIOUS
<1>7. ASSUME NEW k \in 1 .. n
      PROVE  seqs[k] \in Seq(Items(S, K)) /\ Rises(seqs[k], 0, 0, 0)
  <2>1. KeyToken(entries[k].key) \in Items(S, K) /\ Weight(KeyToken(entries[k].key)) = 0
    BY <1>5, ItemKinds DEF KeyToken
  <2>2. ToEncode(entries[k].value) \in Items(S, K) /\ Weight(ToEncode(entries[k].value)) = 0
    BY <1>5, ItemKinds
  <2>3. seqs[k] = <<KeyToken(entries[k].key), ToEncode(entries[k].value)>>
    BY <1>6
  <2> QED BY <2>1, <2>2, <2>3, TwoLevel
<1>8. EncodeEntries(map, start) = FlattenSeq(seqs)
  BY <1>3, <1>5, <1>6 DEF EncodeEntries
<1>9. seqs = [k \in 1 .. n |-> seqs[k]]
  BY <1>6
<1> QED BY <1>7, <1>8, <1>9, FlattenLevel

LEMMA NodeLevel ==
  ASSUME NEW S, NEW K, Closed(S, K), NEW node \in S, NEW start \in Int
  PROVE  /\ encode_helper(node, start) \in Seq(Items(S, K))
         /\ Rises(encode_helper(node, start), 0, 0, 0)
<1>e. <<>> \in Seq(Items(S, K)) /\ Rises(<<>>, 0, 0, 0)
  BY RisesEmpty
<1>o. ASSUME NEW x \in Items(S, K), Weight(x) = 0
      PROVE  <<x>> \in Seq(Items(S, K)) /\ Rises(<<x>>, 0, 0, 0)
  <2>1. Rises(<<x>>, 0, 0 + Weight(x), 0)
    BY <1>o, RisesOne
  <2> QED BY <1>o, <2>1
<1>1. CASE node = Num(node.value) /\ node.value \in Int
  <2>1. encode_helper(node, start) = <<NumToken(node.value)>>
    BY <1>1 DEF encode_helper, Num
  <2>2. NumToken(node.value) \in Items(S, K) /\ Weight(NumToken(node.value)) = 0
    BY <1>1, ItemKinds
  <2> QED BY <1>o, <2>1, <2>2
<1>2. CASE node = Str(node.value, node.len) /\ node.value \in K /\ node.len \in Nat
  <2>1. encode_helper(node, start) = <<StrToken(node.value, node.len)>>
    BY <1>2 DEF encode_helper, Str
  <2>2. /\ StrToken(node.value, node.len) \in Items(S, K)
        /\ Weight(StrToken(node.value, node.len)) = 0
    <3>1. PICK v \in K, l \in Nat : v = node.value /\ l = node.len
      BY <1>2, Zenon
    <3>2. StrToken(v, l) \in Items(S, K) /\ Weight(StrToken(v, l)) = 0
      BY ItemKinds
    <3> QED BY <3>1, <3>2, Zenon
  <2> QED BY <1>o, <2>1, <2>2
<1>3. CASE node = Blank
  <2>1. encode_helper(node, start) = <<>>
    BY <1>3 DEF encode_helper, Blank
  <2> QED BY <1>e, <2>1
<1>4. CASE node = List(node.value) /\ node.value \in Seq(S)
  <2>1. PICK n \in Nat : n = Len(node.value)
    BY <1>4
  <2>2. PICK inside : inside = [k \in 1 .. n |-> ToEncode(node.value[k])]
    OBVIOUS
  <2>3. encode_helper(node, start) = <<Token("l")>> \o inside \o <<Token("e")>>
    <3>1. node.type = "list" /\ DOMAIN node.value = 1 .. n
      BY <1>4, <2>1 DEF List
    <3> QED BY <2>2, <3>1 DEF encode_helper
  <2>4. \A k \in 1 .. n : node.value[k] \in S
    BY <1>4, <2>1, ElementOfSeq
  <2>5. \A k \in 1 .. n : inside[k] \in Items(S, K) /\ Weight(inside[k]) = 0
    BY <2>2, <2>4, ItemKinds
  <2>6. inside \in Seq(Items(S, K)) /\ Len(inside) = n
    <3>1. inside \in [1 .. n -> Items(S, K)]
      BY <2>2, <2>5
    <3> QED BY <3>1
  <2>7. Rises(inside, 0, 0, 0)
    <3>1. PICK g : g = [k \in 0 .. n |-> 0]
      OBVIOUS
    <3>2. g \in [0 .. n -> Int] /\ \A k \in 0 .. n : g[k] = 0
      BY <3>1
    <3>3. ASSUME NEW k \in 1 .. n PROVE g[k] = g[k - 1] + Weight(inside[k])
      <4>1. k \in 0 .. n /\ k - 1 \in 0 .. n
        OBVIOUS
      <4>2. g[k] = 0 /\ g[k - 1] = 0 /\ Weight(inside[k]) = 0
        BY <2>5, <3>2, <4>1
      <4> QED BY <4>2
    <3>4. Climbs(inside, g)
      BY <2>6, <3>2, <3>3 DEF Climbs
    <3> QED BY <2>6, <3>2, <3>4 DEF Rises
  <2> QED BY <2>3, <2>6, <2>7, ItemKinds, Bracketed
<1>5. CASE node = Dict(node.value) /\ MapOver(node.value, S, K)
  <2>1. encode_helper(node, start)
          = <<Token("d")>> \o EncodeEntries(node.value, start) \o <<Token("e")>>
    BY <1>5 DEF encode_helper, Dict
  <2>2. /\ EncodeEntries(node.value, start) \in Seq(Items(S, K))
        /\ Rises(EncodeEntries(node.value, start), 0, 0, 0)
    BY <1>5, EntriesLevel
  <2> QED BY <2>1, <2>2, ItemKinds, Bracketed
<1> QED BY <1>1, <1>2, <1>3, <1>4, <1>5 DEF Closed, IsNodeOver

-----------------------------------------------------------------------------
(***************************************************************************)
(* Encoding all levels                                                     *)
(***************************************************************************)

\* The pieces that Encoded and TokensOf put together.
Pieced(items, start) == [k \in DOMAIN items |-> Unfolded(items[k], start)]
Texted(items) == [k \in DOMAIN items |-> Written(items[k])]

LEMMA EncodedIs ==
  ASSUME NEW items, NEW start
  PROVE  Encoded(items, start) = FlattenSeq(Pieced(items, start)) /\ TokensOf(items) = FlattenSeq(Texted(items))
BY DEF Encoded, TokensOf, Pieced, Texted, Unfolded, Written

\* What becomes of one item is as deep as the item.
LEMMA UnfoldedLevel ==
  ASSUME NEW S, NEW K, Closed(S, K), NEW x \in Items(S, K), NEW start \in Int,
         NEW a \in Nat, NEW b \in Nat, b = a + Weight(x)
  PROVE  /\ Unfolded(x, start) \in Seq(Items(S, K)) /\ Rises(Unfolded(x, start), a, b, 0)
         /\ Written(x) \in Seq(Texts(K)) /\ Rises(Written(x), a, b, 0)
<1>z. PICK z \in Int : z = 0
  OBVIOUS
<1>1. CASE x.t = "node"
  <2>1. Weight(x) = 0 /\ b = a
    BY <1>1 DEF Weight
  <2>2. Unfolded(x, start) = encode_helper(x.node, start) /\ x.node \in S /\ Written(x) = <<>>
    BY <1>1, ItemKinds DEF Unfolded, Written
  <2>3. PICK s \in Seq(Items(S, K)) : s = Unfolded(x, start) /\ Rises(s, z, z, z)
    BY <1>z, <2>2, NodeLevel
  <2>4. z <= z + a /\ a \in Int /\ z + a = a
    BY <1>z
  <2>5. Rises(s, z + a, z + a, z)
    BY <2>3, <2>4, RisesShifted
  <2>6. Rises(<<>>, a, a, z) /\ <<>> \in Seq(Texts(K))
    BY <1>z, <2>4, RisesEmpty
  <2> QED BY <1>z, <2>1, <2>2, <2>3, <2>4, <2>5, <2>6
<1>2. CASE x.t # "node"
  <2>1. Unfolded(x, start) = <<x>> /\ Written(x) = <<x>> /\ x \in Texts(K)
    BY <1>2, ItemKinds DEF Unfolded, Written
  <2>2. Rises(<<x>>, a, b, z)
    <3>1. a \in Int /\ b \in Int /\ a >= z /\ b >= z
      BY <1>z
    <3> QED BY <3>1, OneLevel
  <2> QED BY <1>z, <2>1, <2>2
<1> QED BY <1>1, <1>2

LEMMA UnfoldedType ==
  ASSUME NEW S, NEW K, Closed(S, K), NEW x \in Items(S, K), NEW start \in Int
  PROVE  /\ Unfolded(x, start) \in Seq(Items(S, K)) /\ Written(x) \in Seq(Items(S, K))
         /\ Written(x) \in Seq(Texts(K))
<1>1. PICK a \in Nat, b \in Nat : b = a + Weight(x)
  <2>1. 1 + Weight(x) \in Nat
    BY DEF Weight
  <2> QED BY <2>1
<1>2. Unfolded(x, start) \in Seq(Items(S, K)) /\ Written(x) \in Seq(Texts(K))
  BY <1>1, UnfoldedLevel
<1>3. Texts(K) \subseteq Items(S, K)
  BY DEF Items
<1> QED BY <1>2, <1>3, SeqMonotonic

\* One level more, and the tokens in the end, are as deep as they should be.
LEMMA EncodedLevel ==
  ASSUME NEW S, NEW K, Closed(S, K), NEW items \in Seq(Items(S, K)), NEW start \in Int,
         Rises(items, 0, 0, 0)
  PROVE  /\ Encoded(items, start) \in Seq(Items(S, K)) /\ Rises(Encoded(items, start), 0, 0, 0)
         /\ TokensOf(items) \in Seq(Texts(K)) /\ Rises(TokensOf(items), 0, 0, 0)
<1>z. PICK z \in Int : z = 0
  OBVIOUS
<1>n. PICK n \in Nat : n = Len(items)
  OBVIOUS
<1>1. PICK g : /\ Climbs(items, g) /\ g[0] = 0 /\ g[n] = 0
               /\ \A k \in 0 .. n : g[k] >= 0
  BY <1>n DEF Rises
<1>2. g \in [0 .. n -> Int] /\ \A k \in 0 .. n : g[k] \in Nat
  BY <1>1, <1>n DEF Climbs
<1>3. PICK p : p = Pieced(items, start)
  OBVIOUS
<1>4. PICK w : w = Texted(items)
  OBVIOUS
<1>5. ASSUME NEW k \in 1 .. n
      PROVE  /\ p[k] \in Seq(Items(S, K)) /\ Rises(p[k], g[k - 1], g[k], z)
             /\ w[k] \in Seq(Texts(K)) /\ Rises(w[k], g[k - 1], g[k], z)
  <2>1. k \in 0 .. n /\ k - 1 \in 0 .. n /\ k \in DOMAIN items /\ items[k] \in Items(S, K)
    BY <1>n, ElementOfSeq
  <2>2. g[k] \in Nat /\ g[k - 1] \in Nat /\ g[k] = g[k - 1] + Weight(items[k])
    BY <1>1, <1>2, <1>n, <2>1 DEF Climbs
  <2>3. p[k] = Unfolded(items[k], start) /\ w[k] = Written(items[k])
    BY <1>3, <1>4, <2>1 DEF Pieced, Texted
  <2> QED BY <1>z, <2>1, <2>2, <2>3, UnfoldedLevel
<1>6. p \in Seq(Seq(Items(S, K))) /\ Len(p) = n /\ w \in Seq(Seq(Texts(K))) /\ Len(w) = n
  <2>1. p \in [1 .. n -> Seq(Items(S, K))]
    <3>1. p = [k \in 1 .. n |-> p[k]]
      BY <1>3, <1>n DEF Pieced
    <3> QED BY <1>5, <3>1
  <2>2. w \in [1 .. n -> Seq(Texts(K))]
    <3>1. w = [k \in 1 .. n |-> w[k]]
      BY <1>4, <1>n DEF Texted
    <3> QED BY <1>5, <3>1
  <2> QED BY <2>1, <2>2
<1>7. g[0] >= z /\ g[0] = z /\ g[n] = z
  BY <1>1, <1>z
<1>8. Rises(FlattenSeq(p), g[0], g[n], z)
  BY ONLY <1>2, <1>5, <1>6, <1>7, n \in Nat, z \in Int, FlattenRises
<1>9. Rises(FlattenSeq(w), g[0], g[n], z)
  BY ONLY <1>2, <1>5, <1>6, <1>7, n \in Nat, z \in Int, FlattenRises
<1>10. FlattenSeq(p) \in Seq(Items(S, K)) /\ FlattenSeq(w) \in Seq(Texts(K))
  BY <1>6, FlattenType
<1> QED BY <1>z, <1>3, <1>4, <1>7, <1>8, <1>9, <1>10, EncodedIs

\* One item alone.
LEMMA EncodedOne ==
  ASSUME NEW S, NEW K, Closed(S, K), NEW x \in Items(S, K), NEW start \in Int
  PROVE  Encoded(<<x>>, start) = Unfolded(x, start) /\ TokensOf(<<x>>) = Written(x)
<1>0. Unfolded(x, start) \in Seq(Items(S, K)) /\ Written(x) \in Seq(Texts(K))
  BY UnfoldedType
<1>1. ASSUME NEW I, NEW s \in Seq(I)
      PROVE  FlattenSeq([k \in 1 .. 1 |-> s]) = s
  <2>1. [k \in 1 .. 1 |-> s] = Append(<<>>, s)
    OBVIOUS
  <2>2. <<>> \in Seq(Seq(I)) /\ <<>> \o s = s
    OBVIOUS
  <2> QED BY <2>1, <2>2, FlattenAppend, FlattenEmpty
<1>2. PICK r : r = <<x>>
  OBVIOUS
<1>3. DOMAIN r = 1 .. 1 /\ \A k \in 1 .. 1 : r[k] = x
  BY <1>2
<1>4. /\ Pieced(r, start) = [k \in 1 .. 1 |-> Unfolded(x, start)]
      /\ Texted(r) = [k \in 1 .. 1 |-> Written(x)]
  BY <1>3 DEF Pieced, Texted
<1>5. /\ FlattenSeq([k \in 1 .. 1 |-> Unfolded(x, start)]) = Unfolded(x, start)
      /\ FlattenSeq([k \in 1 .. 1 |-> Written(x)]) = Written(x)
  BY <1>0, <1>1
<1> QED BY <1>2, <1>4, <1>5, EncodedIs

Images(p, s, f) == p = [k \in DOMAIN s |-> f[s[k]]]

LEMMA EncodedConcat ==
  ASSUME NEW I, NEW start, \A x \in I : Unfolded(x, start) \in Seq(I) /\ Written(x) \in Seq(I),
         NEW s \in Seq(I), NEW t \in Seq(I)
  PROVE  /\ Encoded(s \o t, start) = Encoded(s, start) \o Encoded(t, start)
         /\ TokensOf(s \o t) = TokensOf(s) \o TokensOf(t)
<1>1. PICK n \in Nat : n = Len(s)
  OBVIOUS
<1>2. PICK m \in Nat : m = Len(t)
  OBVIOUS
<1>3. PICK u : u = s \o t
  OBVIOUS
<1>4. /\ DOMAIN u = 1 .. n + m /\ DOMAIN s = 1 .. n /\ DOMAIN t = 1 .. m
      /\ \A k \in 1 .. n : u[k] = s[k] /\ s[k] \in I
      /\ \A k \in 1 .. m : u[n + k] = t[k] /\ t[k] \in I
  BY <1>1, <1>2, <1>3
<1>e. \A k \in 1 .. n + m : u[k] \in I
  BY <1>3, <1>4
<1>5. ASSUME NEW f \in [I -> Seq(I)], NEW p, NEW q, NEW w,
             Images(p, s, f), Images(q, t, f), Images(w, u, f)
      PROVE  p \in Seq(Seq(I)) /\ q \in Seq(Seq(I)) /\ w = p \o q
  <2>0. /\ p = [k \in 1 .. n |-> f[s[k]]] /\ q = [k \in 1 .. m |-> f[t[k]]]
        /\ w = [k \in 1 .. n + m |-> f[u[k]]]
    BY <1>4, <1>5 DEF Images
  <2>1. p \in Seq(Seq(I)) /\ Len(p) = n /\ \A k \in 1 .. n : p[k] = f[s[k]]
    <3>1. p \in [1 .. n -> Seq(I)] /\ \A k \in 1 .. n : p[k] = f[s[k]]
      BY <1>4, <2>0
    <3>2. p \in Seq(Seq(I)) /\ Len(p) = n
      BY ONLY <3>1, n \in Nat
    <3> QED BY <3>1, <3>2
  <2>2. q \in Seq(Seq(I)) /\ Len(q) = m /\ \A k \in 1 .. m : q[k] = f[t[k]]
    <3>1. q \in [1 .. m -> Seq(I)] /\ \A k \in 1 .. m : q[k] = f[t[k]]
      BY <1>4, <2>0
    <3>2. q \in Seq(Seq(I)) /\ Len(q) = m
      BY ONLY <3>1, m \in Nat
    <3> QED BY <3>1, <3>2
  <2>3. PICK v \in Seq(Seq(I)) : v = p \o q
    BY <2>1, <2>2, ConcatProperties
  <2>4. /\ DOMAIN v = 1 .. n + m
        /\ \A k \in 1 .. n : v[k] = p[k]
        /\ \A k \in 1 .. m : v[n + k] = q[k]
    <3>1. p \in Seq(Seq(I)) /\ q \in Seq(Seq(I)) /\ Len(p) = n /\ Len(q) = m
      BY <2>1, <2>2
    <3>2. v \in Seq(Seq(I)) /\ Len(v) = n + m
      BY ONLY <2>3, <3>1, n \in Nat, m \in Nat
    <3>3. DOMAIN v = 1 .. n + m
      BY ONLY <3>2, n \in Nat, m \in Nat
    <3>4. \A k \in 1 .. n : v[k] = p[k]
      BY ONLY <2>3, <3>1, n \in Nat, m \in Nat
    <3>5. ASSUME NEW k \in 1 .. m PROVE v[n + k] = q[k]
      <4>1. PICK i : i = n + k /\ i \in 1 .. Len(p) + Len(q) /\ ~ (i <= Len(p)) /\ i - Len(p) = k
        BY ONLY <3>1, n \in Nat, m \in Nat, k \in 1 .. m
      <4>2. (p \o q)[i] = IF i <= Len(p) THEN p[i] ELSE q[i - Len(p)]
        <5>1. PICK Q : Q = Seq(I)
          OBVIOUS
        <5>2. p \in Seq(Q) /\ q \in Seq(Q)
          BY ONLY <3>1, <5>1, Zenon
        <5> QED BY ONLY <4>1, <5>2, ConcatProperties
      <4> QED BY ONLY <2>3, <4>1, <4>2
    <3> QED BY <3>3, <3>4, <3>5
  <2>5. ASSUME NEW k \in 1 .. n + m PROVE v[k] = w[k]
    <3>1. CASE k \in 1 .. n
      BY <1>4, <2>0, <2>1, <2>4, <3>1
    <3>2. CASE k \notin 1 .. n
      <4>1. PICK j \in 1 .. m : k = n + j
        <5>1. k - n \in 1 .. m /\ k = n + (k - n)
          BY <3>2
        <5> QED BY <5>1
      <4>2. v[k] = f[t[j]] /\ u[k] = t[j]
        BY <1>4, <2>2, <2>4, <4>1
      <4> QED BY <2>0, <4>2
    <3> QED BY <3>1, <3>2
  <2>6. v = [k \in 1 .. n + m |-> v[k]] /\ w = [k \in 1 .. n + m |-> w[k]]
    BY <2>0, <2>4
  <2> QED BY <2>1, <2>2, <2>3, <2>5, <2>6
<1>6. ASSUME NEW f \in [I -> Seq(I)], NEW p, NEW q, NEW w,
             Images(p, s, f), Images(q, t, f), Images(w, u, f)
      PROVE  FlattenSeq(w) = FlattenSeq(p) \o FlattenSeq(q)
  <2>1. p \in Seq(Seq(I)) /\ q \in Seq(Seq(I)) /\ w = p \o q
    BY <1>5, <1>6
  <2> QED BY <2>1, FlattenConcat
<1>7. FlattenSeq(Pieced(u, start)) = FlattenSeq(Pieced(s, start)) \o FlattenSeq(Pieced(t, start))
  <2>1. PICK f \in [I -> Seq(I)] : f = [x \in I |-> Unfolded(x, start)]
    OBVIOUS
  <2>2. /\ Images(Pieced(s, start), s, f) /\ Images(Pieced(t, start), t, f)
        /\ Images(Pieced(u, start), u, f)
    BY <1>4, <1>e, <2>1 DEF Pieced, Images
  <2> QED BY <1>6, <2>2
<1>8. FlattenSeq(Texted(u)) = FlattenSeq(Texted(s)) \o FlattenSeq(Texted(t))
  <2>1. PICK f \in [I -> Seq(I)] : f = [x \in I |-> Written(x)]
    OBVIOUS
  <2>2. /\ Images(Texted(s), s, f) /\ Images(Texted(t), t, f)
        /\ Images(Texted(u), u, f)
    BY <1>4, <1>e, <2>1 DEF Texted, Images
  <2> QED BY <1>6, <2>2
<1> QED BY <1>3, <1>7, <1>8, EncodedIs

\* The outer brackets stay.
LEMMA EncodedBracket ==
  ASSUME NEW S, NEW K, Closed(S, K), NEW c \in Seq(Items(S, K)), NEW start \in Int
  PROVE  /\ Encoded(<<Token("d")>> \o c \o <<Token("e")>>, start)
              = <<Token("d")>> \o Encoded(c, start) \o <<Token("e")>>
         /\ TokensOf(<<Token("d")>> \o c \o <<Token("e")>>)
              = <<Token("d")>> \o TokensOf(c) \o <<Token("e")>>
<1>1. /\ Token("d") \in Items(S, K) /\ Token("e") \in Items(S, K)
      /\ Unfolded(Token("d"), start) = <<Token("d")>> /\ Written(Token("d")) = <<Token("d")>>
      /\ Unfolded(Token("e"), start) = <<Token("e")>> /\ Written(Token("e")) = <<Token("e")>>
  BY ItemKinds DEF Unfolded, Written, Token
<1>2. ASSUME NEW I, NEW x \in I PROVE <<x>> \in Seq(I)
  OBVIOUS
<1>3. PICK d : d = <<Token("d")>> /\ d \in Seq(Items(S, K))
  BY ONLY <1>1, <1>2
<1>4. PICK e : e = <<Token("e")>> /\ e \in Seq(Items(S, K))
  BY ONLY <1>1, <1>2
<1>5. Encoded(d, start) = d /\ TokensOf(d) = d /\ Encoded(e, start) = e /\ TokensOf(e) = e
  BY <1>1, <1>3, <1>4, EncodedOne
<1>6. \A x \in Items(S, K) : Unfolded(x, start) \in Seq(Items(S, K)) /\ Written(x) \in Seq(Items(S, K))
  BY UnfoldedType
<1>7. /\ Encoded(d \o c \o e, start) = Encoded(d, start) \o Encoded(c, start) \o Encoded(e, start)
      /\ TokensOf(d \o c \o e) = TokensOf(d) \o TokensOf(c) \o TokensOf(e)
  <2>1. PICK I, from : I = Items(S, K) /\ from = start
    OBVIOUS
  <2>2. \A x \in I : Unfolded(x, from) \in Seq(I) /\ Written(x) \in Seq(I)
    BY <1>6, <2>1
  <2>3. PICK p \in Seq(I), q \in Seq(I), r \in Seq(I) : p = d /\ q = c /\ r = e
    BY <1>3, <1>4, <2>1
  <2>4. PICK u \in Seq(I) : u = p \o q
    BY ConcatProperties
  <2>5. /\ Encoded(p \o q, from) = Encoded(p, from) \o Encoded(q, from)
        /\ TokensOf(p \o q) = TokensOf(p) \o TokensOf(q)
    BY ONLY <2>2, p \in Seq(I), q \in Seq(I), EncodedConcat
  <2>6. /\ Encoded(u \o r, from) = Encoded(u, from) \o Encoded(r, from)
        /\ TokensOf(u \o r) = TokensOf(u) \o TokensOf(r)
    BY ONLY <2>2, u \in Seq(I), r \in Seq(I), EncodedConcat
  <2> QED BY <2>1, <2>3, <2>4, <2>5, <2>6
<1> QED BY <1>3, <1>4, <1>5, <1>7

\* The levels of bencoding_encode.
Levels(node, start, g, n) ==
  /\ DOMAIN g = 0 .. n
  /\ \A k \in 0 .. n : g[k] = IF k = 0 THEN <<ToEncode(node)>> ELSE Encoded(g[k - 1], start)

LEMMA LevelsExist ==
  ASSUME NEW node, NEW start, NEW n \in Nat
  PROVE  \E g : Levels(node, start, g, n)
<1> DEFINE T == {m \in Nat : ~ \E g : Levels(node, start, g, m)}
<1> SUFFICES ASSUME T # {} PROVE FALSE
  OBVIOUS
<1>1. PICK m \in T : \A k \in T : m <= k
  <2>1. T \subseteq Nat
    OBVIOUS
  <2> HIDE DEF T
  <2> QED BY <2>1, LeastNumber
<1>2. m \in Nat /\ ~ \E g : Levels(node, start, g, m)
  OBVIOUS
<1>3. CASE m = 0
  <2> DEFINE h == [k \in 0 .. 0 |-> <<ToEncode(node)>>]
  <2>1. Levels(node, start, h, 0)
    BY DEF Levels
  <2> QED BY <1>2, <1>3, <2>1
<1>4. CASE m # 0
  <2>1. m - 1 \in Nat /\ m - 1 \notin T
    <3> HIDE DEF T
    <3>1. m - 1 \in Nat /\ ~ (m <= m - 1)
      BY <1>2, <1>4
    <3> QED BY <1>1, <3>1, Zenon
  <2>2. PICK g : Levels(node, start, g, m - 1)
    BY <2>1
  <2> DEFINE h == [k \in 0 .. m |-> IF k < m THEN g[k] ELSE Encoded(g[m - 1], start)]
  <2> HIDE DEF T
  <2>3. ASSUME NEW k \in 0 .. m
        PROVE  h[k] = IF k = 0 THEN <<ToEncode(node)>> ELSE Encoded(h[k - 1], start)
    <3>1. CASE k < m
      <4>1. k \in 0 .. m - 1 /\ (k # 0 => k - 1 \in 0 .. m - 1 /\ k - 1 < m /\ k - 1 \in 0 .. m)
        BY <1>2, <3>1
      <4>2. h[k] = g[k] /\ (k # 0 => h[k - 1] = g[k - 1])
        BY <3>1, <4>1
      <4> HIDE DEF h
      <4> QED BY <2>2, <4>1, <4>2 DEF Levels
    <3>2. CASE k = m
      <4>1. k # 0 /\ k - 1 \in 0 .. m /\ k - 1 < m /\ k - 1 = m - 1
        BY <1>2, <1>4, <3>2
      <4>2. h[k] = Encoded(g[m - 1], start) /\ h[k - 1] = g[m - 1]
        BY <3>2, <4>1
      <4> HIDE DEF h
      <4> QED BY <3>2, <4>1, <4>2
    <3> QED BY <1>2, <3>1, <3>2
  <2>4. DOMAIN h = 0 .. m
    OBVIOUS
  <2> HIDE DEF h
  <2>5. Levels(node, start, h, m)
    BY <2>3, <2>4 DEF Levels
  <2> QED BY <1>2, <2>5
<1> QED BY <1>3, <1>4

LEMMA EncodeIs ==
  ASSUME NEW node, NEW start
  PROVE  \E g : /\ Levels(node, start, g, MAX_RECURSION)
                /\ bencoding_encode(node, start) = TokensOf(g[MAX_RECURSION])
<1>0. PICK n \in Nat : n = MAX_RECURSION
  BY BencodingAssumption
<1> DEFINE Run(g) == g = [k \in 0 .. MAX_RECURSION |->
                            IF k = 0 THEN <<ToEncode(node)>> ELSE Encoded(g[k - 1], start)]
           level == CHOOSE g : Run(g)
<1>1. PICK h : Levels(node, start, h, n)
  BY LevelsExist
<1>2. \E g : Run(g)
  <2> DEFINE g == [k \in 0 .. n |-> h[k]]
  <2>1. ASSUME NEW k \in 0 .. n
        PROVE  g[k] = IF k = 0 THEN <<ToEncode(node)>> ELSE Encoded(g[k - 1], start)
    <3>1. k # 0 => k - 1 \in 0 .. n
      OBVIOUS
    <3> QED BY <1>1, <3>1 DEF Levels
  <2>2. g = [k \in 0 .. n |-> g[k]]
    OBVIOUS
  <2> HIDE DEF g
  <2>3. g = [k \in 0 .. n |-> IF k = 0 THEN <<ToEncode(node)>> ELSE Encoded(g[k - 1], start)]
    BY <2>1, <2>2
  <2> QED BY <1>0, <2>3
<1>3. Run(level)
  <2> HIDE DEF Run
  <2> QED BY <1>2
<1>4. bencoding_encode(node, start) = TokensOf(level[MAX_RECURSION])
  BY Zenon DEF bencoding_encode
<1> HIDE DEF level
<1>5. Levels(node, start, level, n)
  BY <1>0, <1>3 DEF Levels
<1> QED BY <1>0, <1>4, <1>5

\* A whole file: nothing, if MAX_RECURSION is 0, or one dictionary, which is not over
\* before its last token.
Whole(file, K) ==
  file # <<>> =>
    \E c \in Seq(Texts(K)) : file = <<Token("d")>> \o c \o <<Token("e")>> /\ Rises(c, 1, 1, 1)

\* THEOREM: whatever dictionary bencoding_encode gets, what it writes is a whole file.
THEOREM EncodedWhole ==
  ASSUME NEW S, NEW K, Closed(S, K), NEW map, MapOver(map, S, K), NEW start \in Int
  PROVE  LET file == bencoding_encode(Dict(map), start)
         IN  file \in Seq(Texts(K)) /\ Whole(file, K)
<1>s. PICK S2 : Closed(S2, K) /\ Dict(map) \in S2 /\ MapOver(map, S2, K)
  <2>1. IsNodeOver(Dict(map), S, K)
    BY DEF IsNodeOver, Dict
  <2>2. Closed(S \cup {Dict(map)}, K)
    BY <2>1, ClosedWith
  <2>3. MapOver(map, S \cup {Dict(map)}, K)
    BY DEF MapOver
  <2> QED BY <2>2, <2>3
<1>n. PICK n \in Nat : n = MAX_RECURSION
  BY BencodingAssumption
<1>1. PICK g : /\ Levels(Dict(map), start, g, n)
               /\ bencoding_encode(Dict(map), start) = TokensOf(g[n])
  BY <1>n, EncodeIs
<1>r. PICK root \in Items(S2, K) : root = ToEncode(Dict(map))
  BY <1>s, ItemKinds
<1>2. g[0] = <<root>>
  BY <1>1, <1>r DEF Levels
<1> DEFINE Bracket(c) == <<Token("d")>> \o c \o <<Token("e")>>
           Holds(i) == \E c \in Seq(Items(S2, K)) : g[i] = Bracket(c) /\ Rises(c, 0, 0, 0)
           T == {i \in 1 .. n : ~ Holds(i)}
<1>c. ASSUME NEW c \in Seq(Items(S2, K))
      PROVE  /\ Encoded(Bracket(c), start) = Bracket(Encoded(c, start))
             /\ TokensOf(Bracket(c)) = Bracket(TokensOf(c))
  BY <1>s, EncodedBracket
<1>3. CASE n = 0
  <2>1. TokensOf(g[n]) = Written(root)
    BY <1>2, <1>3, <1>s, EncodedOne
  <2>2. Written(root) = <<>>
    BY <1>r DEF Written, ToEncode
  <2>3. <<>> \in Seq(Texts(K))
    OBVIOUS
  <2> QED BY <1>1, <2>1, <2>2, <2>3 DEF Whole
<1>4. CASE n # 0
  <2>1. Holds(1)
    <3>1. g[1] = Encoded(<<root>>, start)
      <4>1. 1 \in 0 .. n /\ 1 - 1 = 0
        BY <1>4
      <4> QED BY <1>1, <1>2, <4>1 DEF Levels
    <3>2. Encoded(<<root>>, start) = encode_helper(Dict(map), start)
      BY <1>r, <1>s, EncodedOne DEF Unfolded, ToEncode
    <3>3. encode_helper(Dict(map), start) = Bracket(EncodeEntries(map, start))
      BY DEF encode_helper, Dict
    <3>4. /\ EncodeEntries(map, start) \in Seq(Items(S2, K))
          /\ Rises(EncodeEntries(map, start), 0, 0, 0)
      BY <1>s, EntriesLevel
    <3> HIDE DEF Bracket
    <3> QED BY <3>1, <3>2, <3>3, <3>4
  <2>2. Holds(n)
    <3> SUFFICES ASSUME T # {} PROVE FALSE
      <4>1. n \in 1 .. n
        BY <1>4
      <4> HIDE DEF Holds
      <4> QED BY <4>1
    <3>1. PICK i \in T : \A y \in T : i <= y
      <4>1. T \subseteq Nat
        OBVIOUS
      <4> HIDE DEF T
      <4> QED BY <4>1, LeastNumber
    <3>2. i \in 1 .. n /\ ~ Holds(i)
      <4> HIDE DEF Holds
      <4> QED OBVIOUS
    <3>3. i # 1
      <4> HIDE DEF Holds
      <4> QED BY <2>1, <3>2
    <3>4. i - 1 \in 1 .. n /\ i \in 0 .. n /\ ~ (i <= i - 1)
      BY <3>2, <3>3
    <3>5. i - 1 \notin T
      <4> HIDE DEF T
      <4> QED BY <3>1, <3>4, Zenon
    <3>6. Holds(i - 1)
      <4> HIDE DEF Holds
      <4> QED BY <3>4, <3>5
    <3>7. PICK c \in Seq(Items(S2, K)) : g[i - 1] = Bracket(c) /\ Rises(c, 0, 0, 0)
      BY <3>6
    <3>8. g[i] = Encoded(g[i - 1], start)
      BY <1>1, <3>2, <3>4 DEF Levels
    <3>9. Encoded(c, start) \in Seq(Items(S2, K)) /\ Rises(Encoded(c, start), 0, 0, 0)
      BY <1>s, <3>7, EncodedLevel
    <3>10. Encoded(Bracket(c), start) = Bracket(Encoded(c, start))
      BY <1>c
    <3> HIDE DEF Bracket
    <3> QED BY <3>2, <3>7, <3>8, <3>9, <3>10
  <2>3. PICK c \in Seq(Items(S2, K)) : g[n] = Bracket(c) /\ Rises(c, 0, 0, 0)
    BY <2>2
  <2>4. PICK w \in Seq(Texts(K)) : w = TokensOf(c) /\ Rises(w, 0, 0, 0)
    BY <1>s, <2>3, EncodedLevel
  <2>5. bencoding_encode(Dict(map), start) = Bracket(w)
    BY <1>1, <1>c, <2>3, <2>4
  <2>6. Rises(w, 1, 1, 1)
    <3>1. 1 \in Int /\ 1 <= 1
      OBVIOUS
    <3> QED BY <2>4, <3>1, LevelDown
  <2>7. Bracket(w) \in Seq(Texts(K))
    <3>1. <<Token("d")>> \in Seq(Texts(K)) /\ <<Token("e")>> \in Seq(Texts(K))
      BY DEF Texts, Brackets, Token
    <3> QED BY <3>1, ConcatProperties
  <2> QED BY <2>5, <2>6, <2>7 DEF Whole
<1> QED BY <1>3, <1>4

-----------------------------------------------------------------------------
(***************************************************************************)
(* What is cut off is not decoded: there are as many calls that have not   *)
(* returned as there are brackets that were not closed                     *)
(***************************************************************************)

LEMMA FrontProperties ==
  ASSUME NEW X, NEW calls \in Seq(X), calls # <<>>
  PROVE  /\ Len(calls) \in Nat \ {0} /\ Front(calls) \in Seq(X)
         /\ Len(Front(calls)) = Len(calls) - 1
<1>1. Len(calls) \in Nat \ {0}
  OBVIOUS
<1>2. \A k \in 1 .. Len(calls) - 1 : calls[k] \in X
  BY <1>1
<1>3. PICK j \in Int, one \in Int : j = Len(calls) - 1 /\ one = 1
  BY <1>1
<1>4. /\ SubSeq(calls, one, j) \in Seq(X)
      /\ Len(SubSeq(calls, one, j)) = IF one <= j THEN j - one + 1 ELSE 0
  BY <1>2, <1>3, SubSeqProperties
<1>5. Front(calls) = SubSeq(calls, one, j)
  BY <1>3 DEF Front
<1>6. Len(Front(calls)) = j
  BY <1>1, <1>3, <1>4, <1>5
<1> QED BY <1>1, <1>3, <1>4, <1>5, <1>6

\* The decoder has not returned and has not failed, with n calls.
Pending(d, n) == \E X : \E calls \in Seq(X) : d = Reading(calls) /\ Len(calls) = n

LEMMA GoesOnPending ==
  ASSUME NEW X, NEW calls \in Seq(X), calls # <<>>, NEW top
  PROVE  Pending(GoesOn(calls, top), Len(calls))
<1>1. PICK Y : X \subseteq Y /\ top \in Y
  <2>1. X \subseteq X \cup {top} /\ top \in X \cup {top}
    OBVIOUS
  <2> QED BY <2>1
<1>2. calls \in Seq(Y)
  BY <1>1, SeqMonotonic
<1>3. Append(Front(calls), top) \in Seq(Y) /\ Len(Append(Front(calls), top)) = Len(calls)
  <2>1. PICK f \in Seq(Y) : f = Front(calls) /\ Len(f) = Len(calls) - 1 /\ Len(calls) \in Nat \ {0}
    BY <1>2, FrontProperties
  <2>2. Append(f, top) \in Seq(Y) /\ Len(Append(f, top)) = Len(f) + 1
    BY <1>1, <2>1, AppendProperties
  <2> QED BY <2>1, <2>2
<1> QED BY <1>3 DEF GoesOn, Pending

LEMMA PlacedPending ==
  ASSUME NEW X, NEW calls \in Seq(X), calls # <<>>, NEW node
  PROVE  Pending(Placed(calls, node), Len(calls))
<1>1. PICK top : Placed(calls, node) = GoesOn(calls, top)
  BY DEF Placed
<1> QED BY <1>1, GoesOnPending

\* A token that leaves a bracket open.
LEMMA TakePending ==
  ASSUME NEW K, NEW token \in Texts(K), NEW X, NEW calls \in Seq(X),
         Len(calls) + Weight(token) >= 1
  PROVE  LET d == Take(Reading(calls), token)
         IN  d = Null \/ Pending(d, Len(calls) + Weight(token))
<1>0. /\ Reading(calls).status = "reading" /\ Reading(calls).calls = calls
      /\ Len(calls) \in Nat /\ token.t \in {"d", "l", "e", "i", "s"}
  BY DEF Reading, Texts, Brackets
<1>1. CASE Ends(calls, token)
  <2>1. Take(Reading(calls), token) = Placed(Front(calls), WithBlank(Last(calls)))
    BY <1>0, <1>1 DEF Take
  <2>2. calls # <<>> /\ Weight(token) = -1
    BY <1>1 DEF Ends, Weight
  <2>3. PICK f \in Seq(X) : f = Front(calls) /\ Len(f) = Len(calls) - 1
    BY <2>2, FrontProperties
  <2>4. f # <<>> /\ Len(f) = Len(calls) + Weight(token)
    BY <1>0, <2>2, <2>3
  <2> QED BY <2>1, <2>3, <2>4, PlacedPending
<1>2. CASE ~ Ends(calls, token) /\ AwaitsKey(calls)
  <2>1. Take(Reading(calls), token) = handle_key(calls, token)
    BY <1>0, <1>2 DEF Take
  <2>2. calls # <<>>
    BY <1>2 DEF AwaitsKey
  <2>3. CASE handle_key(calls, token) = Null
    BY <2>1, <2>3
  <2>4. CASE handle_key(calls, token) # Null
    <3>1. token.t = "s" /\ \E top : handle_key(calls, token) = GoesOn(calls, top)
      BY <2>4 DEF handle_key
    <3>2. Weight(token) = 0
      BY <3>1 DEF Weight
    <3> QED BY <1>0, <2>1, <2>2, <3>1, <3>2, GoesOnPending
  <2> QED BY <2>3, <2>4
<1>3. CASE ~ Ends(calls, token) /\ ~ AwaitsKey(calls)
  <2>1. Take(Reading(calls), token) = decode_helper(calls, token)
    BY <1>0, <1>3 DEF Take
  <2>2. CASE Len(calls) + 1 > MAX_RECURSION \/ token.t = "e"
    <3>1. decode_helper(calls, token) = Null
      BY <2>2 DEF decode_helper
    <3> QED BY <2>1, <3>1
  <2>3. CASE ~ (Len(calls) + 1 > MAX_RECURSION) /\ token.t \in {"d", "l"}
    <3>1. Weight(token) = 1
      BY <2>3 DEF Weight
    <3>2. PICK top : decode_helper(calls, token) = Reading(Append(calls, top))
      BY <2>3 DEF decode_helper
    <3>3. PICK Y : calls \in Seq(Y) /\ top \in Y
      <4>1. X \subseteq X \cup {top} /\ top \in X \cup {top}
        OBVIOUS
      <4> QED BY <4>1, SeqMonotonic
    <3>4. Append(calls, top) \in Seq(Y) /\ Len(Append(calls, top)) = Len(calls) + 1
      BY <3>3, AppendProperties
    <3> QED BY <2>1, <3>1, <3>2, <3>4 DEF Pending
  <2>4. CASE ~ (Len(calls) + 1 > MAX_RECURSION) /\ token.t \in {"i", "s"}
    <3>1. Weight(token) = 0
      BY <2>4 DEF Weight
    <3>2. PICK node : decode_helper(calls, token) = Placed(calls, node)
      BY <2>4 DEF decode_helper
    <3>3. calls # <<>>
      BY <3>1
    <3> QED BY <1>0, <2>1, <3>1, <3>2, <3>3, PlacedPending
  <2> QED BY <1>0, <2>2, <2>3, <2>4
<1> QED BY <1>1, <1>2, <1>3

\* Nothing can be read from a token that was cut, and nothing goes on after an error.
LEMMA CutIsNull ==
  ASSUME NEW calls
  PROVE  Take(Reading(calls), Token("cut")) = Null /\ Take(Null, Token("cut")) = Null
BY DEF Take, Reading, Null, Ends, Token, handle_key, decode_helper

\* THEOREM: a whole file that was cut off, between two tokens or inside one, does not
\* load, whatever it held: the decoder is still inside the dictionary at the root.
THEOREM CutDoesNotLoad ==
  ASSUME NEW K, NEW whole \in Seq(Texts(K)), Whole(whole, K), NEW n \in 0 .. Len(whole) - 1
  PROVE  ~ Loads(SubSeq(whole, 1, n)) /\ ~ Loads(Append(SubSeq(whole, 1, n), Token("cut")))
<1>1. PICK c \in Seq(Texts(K)) :
        whole = <<Token("d")>> \o c \o <<Token("e")>> /\ Rises(c, 1, 1, 1)
  <2>1. whole # <<>>
    OBVIOUS
  <2> QED BY <2>1 DEF Whole
<1>2. PICK m \in Nat : m = Len(c)
  OBVIOUS
<1>3. PICK g : Climbs(c, g) /\ g[0] = 1 /\ \A k \in 0 .. m : g[k] >= 1
  BY <1>1, <1>2 DEF Rises
<1>4. n \in 0 .. m + 1 /\ whole[1] = Token("d") /\ \A k \in 1 .. m : whole[k + 1] = c[k]
  BY <1>1, <1>2
<1>5. PICK kept_part : kept_part = SubSeq(whole, 1, n)
  OBVIOUS
<1>6. Len(kept_part) = n /\ \A k \in 1 .. n : kept_part[k] = whole[k]
  BY <1>4, <1>5
<1>7. ASSUME NEW file, NEW p \in Nat, n <= p, \A k \in 1 .. n : file[k] = kept_part[k],
             NEW r, Decodes(file, r, p)
      PROVE  r[n] = Null \/ \E j \in Nat : Pending(r[n], j)
  <2> DEFINE Holds(i) == r[i] = Null \/ Pending(r[i], IF i = 0 THEN 0 ELSE g[i - 1])
             T == {i \in 0 .. n : ~ Holds(i)}
  <2>1. T = {}
    <3> SUFFICES ASSUME T # {} PROVE FALSE
      OBVIOUS
    <3>1. PICK i \in T : \A y \in T : i <= y
      <4>1. T \subseteq Nat
        OBVIOUS
      <4> HIDE DEF T
      <4> QED BY <4>1, LeastNumber
    <3>2. i \in 0 .. n /\ ~ Holds(i)
      <4> HIDE DEF Holds
      <4> QED OBVIOUS
    <3>3. CASE i = 0
      <4>1. r[0] = Reading(<<>>)
        <5>1. 0 \in 0 .. p
          OBVIOUS
        <5> QED BY <1>7, <5>1 DEF Decodes
      <4>2. PICK e \in Seq({}) : e = <<>> /\ Len(e) = 0
        <5>1. <<>> \in Seq({}) /\ Len(<<>>) = 0
          OBVIOUS
        <5> QED BY <5>1
      <4>3. Pending(r[0], 0)
        BY <4>1, <4>2 DEF Pending
      <4> QED BY <3>2, <3>3, <4>3
    <3>4. CASE i # 0
      <4>1. i - 1 \in 0 .. n /\ i \in 1 .. n /\ ~ (i <= i - 1) /\ i \in 0 .. p
        BY <1>7, <3>2, <3>4
      <4>2. i - 1 \notin T
        <5> HIDE DEF T
        <5> QED BY <3>1, <4>1, Zenon
      <4>3. Holds(i - 1)
        <5> HIDE DEF Holds
        <5> QED BY <4>1, <4>2
      <4>4. r[i] = Take(r[i - 1], whole[i])
        BY <1>6, <1>7, <3>4, <4>1 DEF Decodes
      <4>5. CASE r[i - 1] = Null
        <5>1. Take(Null, whole[i]) = Null
          BY DEF Take, Null
        <5> QED BY <3>2, <4>4, <4>5, <5>1
      <4>6. CASE r[i - 1] # Null
        <5>1. PICK X : \E calls \in Seq(X) :
                r[i - 1] = Reading(calls) /\ Len(calls) = IF i - 1 = 0 THEN 0 ELSE g[i - 2]
          <6>1. i - 1 - 1 = i - 2
            BY <4>1
          <6> QED BY <4>3, <4>6, <6>1 DEF Pending
        <5>2. PICK calls \in Seq(X) :
                r[i - 1] = Reading(calls) /\ Len(calls) = IF i - 1 = 0 THEN 0 ELSE g[i - 2]
          BY <5>1
        <5>3. Len(calls) + Weight(whole[i]) = g[i - 1] /\ g[i - 1] >= 1
          <6>1. CASE i = 1
            BY <1>3, <1>4, <5>2, <6>1 DEF Weight, Token
          <6>2. CASE i # 1
            <7>1. i - 1 \in 1 .. m /\ i - 1 \in 0 .. m /\ i = (i - 1) + 1 /\ i - 1 # 0
              BY <1>4, <4>1, <6>2
            <7>2. whole[i] = c[i - 1]
              BY <1>4, <7>1
            <7>3. g[i - 1] = g[i - 1 - 1] + Weight(c[i - 1]) /\ g[i - 1] >= 1
              BY <1>2, <1>3, <7>1 DEF Climbs
            <7>4. i - 1 - 1 = i - 2
              BY <4>1
            <7> QED BY <5>2, <7>1, <7>2, <7>3, <7>4
          <6> QED BY <6>1, <6>2
        <5>4. whole[i] \in Texts(K)
          BY <1>1, <1>2, <1>4, <4>1
        <5>5. r[i] = Null \/ Pending(r[i], g[i - 1])
          BY <4>4, <5>2, <5>3, <5>4, TakePending
        <5> QED BY <3>2, <3>4, <5>5
      <4> QED BY <4>5, <4>6
    <3> QED BY <3>3, <3>4
  <2>2. Holds(n)
    <3> HIDE DEF Holds
    <3> QED BY <2>1
  <2>3. r[n] = Null \/ \E j : Pending(r[n], j)
    BY <2>2
  <2>4. ASSUME NEW j, Pending(r[n], j) PROVE j \in Nat
    BY <2>4 DEF Pending
  <2> QED BY <2>3, <2>4
<1>8. ASSUME NEW d, d = Null \/ \E j \in Nat : Pending(d, j)
      PROVE  d.status # "decoded" /\ Take(d, Token("cut")) = Null
  <2>1. CASE d = Null
    BY <2>1, CutIsNull DEF Null
  <2>2. CASE \E calls : d = Reading(calls)
    BY <2>2, CutIsNull DEF Reading
  <2> QED BY <1>8, <2>1, <2>2 DEF Pending
<1>9. ~ Loads(kept_part)
  <2>1. PICK r : /\ Decodes(kept_part, r, n)
                 /\ bencoding_decode(kept_part) = IF r[n].status = "decoded" THEN r[n] ELSE Null
    BY <1>6, DecodeIs
  <2>2. r[n].status # "decoded"
    <3>1. r[n] = Null \/ \E j \in Nat : Pending(r[n], j)
      <4>1. n \in Nat /\ n <= n
        BY <1>4
      <4> QED BY <1>7, <2>1, <4>1
    <3> QED BY <1>8, <3>1
  <2> QED BY <2>1, <2>2 DEF Loads, Null
<1>10. ~ Loads(Append(kept_part, Token("cut")))
  <2>1. PICK file : file = Append(kept_part, Token("cut"))
    OBVIOUS
  <2>2. /\ Len(file) = n + 1 /\ file[n + 1] = Token("cut")
        /\ \A k \in 1 .. n : file[k] = kept_part[k]
    <3>1. kept_part \in Seq(Texts(K) \cup {Token("cut")})
      BY <1>4, <1>5
    <3> QED BY <1>6, <2>1, <3>1
  <2>3. PICK r : /\ Decodes(file, r, n + 1)
                 /\ bencoding_decode(file) = IF r[n + 1].status = "decoded" THEN r[n + 1] ELSE Null
    BY <2>2, DecodeIs
  <2>4. r[n] = Null \/ \E j \in Nat : Pending(r[n], j)
    <3>1. n + 1 \in Nat /\ n <= n + 1
      OBVIOUS
    <3> QED BY <1>7, <2>2, <2>3, <3>1
  <2>5. r[n + 1] = Take(r[n], Token("cut"))
    <3>1. n + 1 \in 0 .. n + 1 /\ n + 1 # 0 /\ n + 1 - 1 = n
      OBVIOUS
    <3> QED BY <2>2, <2>3, <3>1 DEF Decodes
  <2>6. r[n + 1] = Null
    BY <1>8, <2>4, <2>5
  <2> QED BY <2>1, <2>3, <2>6 DEF Loads, Null
<1> QED BY <1>5, <1>9, <1>10

-----------------------------------------------------------------------------
(***************************************************************************)
(* Metadata: what an accepted file says of the pieces                      *)
(***************************************************************************)

\* Sums of the lengths, one after the other.
Sums(lengths, g, n) ==
  /\ DOMAIN g = 0 .. n
  /\ \A k \in 0 .. n : g[k] = IF k = 0 THEN 0 ELSE g[k - 1] + lengths[k]

LEMMA SumsExist ==
  ASSUME NEW lengths \in Seq(Int), NEW n \in 0 .. Len(lengths)
  PROVE  \E g : Sums(lengths, g, n) /\ g[n] \in Int
<1> DEFINE T == {m \in 0 .. Len(lengths) : ~ \E g : Sums(lengths, g, m) /\ g[m] \in Int}
<1> SUFFICES ASSUME T # {} PROVE FALSE
  OBVIOUS
<1>1. PICK m \in T : \A k \in T : m <= k
  <2>1. T \subseteq Nat
    OBVIOUS
  <2> HIDE DEF T
  <2> QED BY <2>1, LeastNumber
<1>2. m \in 0 .. Len(lengths) /\ ~ \E g : Sums(lengths, g, m) /\ g[m] \in Int
  OBVIOUS
<1>3. CASE m = 0
  <2> DEFINE h == [k \in 0 .. 0 |-> 0]
  <2>1. Sums(lengths, h, 0) /\ h[0] \in Int
    BY DEF Sums
  <2> HIDE DEF h
  <2> QED BY <1>2, <1>3, <2>1
<1>4. CASE m # 0
  <2>1. m - 1 \in 0 .. Len(lengths) /\ m - 1 \notin T
    <3> HIDE DEF T
    <3>1. m - 1 \in 0 .. Len(lengths) /\ ~ (m <= m - 1)
      BY <1>2, <1>4
    <3> QED BY <1>1, <3>1, Zenon
  <2>2. PICK g : Sums(lengths, g, m - 1) /\ g[m - 1] \in Int
    BY <2>1
  <2>l. lengths[m] \in Int
    BY <1>2, <1>4
  <2> DEFINE h == [k \in 0 .. m |-> IF k < m THEN g[k] ELSE g[m - 1] + lengths[m]]
  <2> HIDE DEF T
  <2>3. ASSUME NEW k \in 0 .. m
        PROVE  h[k] = IF k = 0 THEN 0 ELSE h[k - 1] + lengths[k]
    <3>1. CASE k < m
      <4>1. k \in 0 .. m - 1 /\ (k # 0 => k - 1 \in 0 .. m - 1 /\ k - 1 < m /\ k - 1 \in 0 .. m)
        BY <1>2, <3>1
      <4>2. h[k] = g[k] /\ (k # 0 => h[k - 1] = g[k - 1])
        BY <3>1, <4>1
      <4> HIDE DEF h
      <4> QED BY <2>2, <4>1, <4>2 DEF Sums
    <3>2. CASE k = m
      <4>1. k # 0 /\ k - 1 \in 0 .. m /\ k - 1 < m /\ k - 1 = m - 1
        BY <1>2, <1>4, <3>2
      <4>2. h[k] = g[m - 1] + lengths[m] /\ h[k - 1] = g[m - 1]
        BY <3>2, <4>1
      <4> HIDE DEF h
      <4> QED BY <3>2, <4>1, <4>2
    <3> QED BY <1>2, <3>1, <3>2
  <2>4. DOMAIN h = 0 .. m
    OBVIOUS
  <2>5. h[m] \in Int
    <3>1. h[m] = g[m - 1] + lengths[m]
      BY <1>2
    <3> HIDE DEF h
    <3> QED BY <2>2, <2>l, <3>1
  <2> HIDE DEF h
  <2>6. Sums(lengths, h, m)
    BY <2>3, <2>4 DEF Sums
  <2> QED BY <1>2, <2>5, <2>6
<1> QED BY <1>3, <1>4

LEMMA SumsAgree ==
  ASSUME NEW lengths, NEW n \in Nat, NEW g, NEW h, Sums(lengths, g, n), Sums(lengths, h, n)
  PROVE  g[n] = h[n]
<1> DEFINE T == {k \in 0 .. n : g[k] # h[k]}
<1> SUFFICES ASSUME T # {} PROVE FALSE
  BY n \in 0 .. n
<1>1. PICK k \in T : \A y \in T : k <= y
  <2>1. T \subseteq Nat
    OBVIOUS
  <2> HIDE DEF T
  <2> QED BY <2>1, LeastNumber
<1>2. k \in 0 .. n /\ g[k] # h[k]
  OBVIOUS
<1>3. k # 0
  BY <1>2 DEF Sums
<1>4. k - 1 \in 0 .. n /\ ~ (k <= k - 1)
  BY <1>2, <1>3
<1>5. k - 1 \notin T
  <2> HIDE DEF T
  <2> QED BY <1>1, <1>4, Zenon
<1>6. g[k - 1] = h[k - 1]
  BY <1>4, <1>5
<1> QED BY <1>2, <1>3, <1>6 DEF Sums

LEMMA TotalType ==
  ASSUME NEW lengths \in Seq(Int)
  PROVE  Total(lengths) \in Int
<1> DEFINE Run(g) == g = [n \in 0 .. Len(lengths) |-> IF n = 0 THEN 0 ELSE g[n - 1] + lengths[n]]
           sum == CHOOSE g : Run(g)
<1>0. PICK n \in Nat : n = Len(lengths)
  OBVIOUS
<1>1. PICK h : Sums(lengths, h, n) /\ h[n] \in Int
  <2>1. n \in 0 .. Len(lengths)
    BY <1>0
  <2> QED BY <2>1, SumsExist
<1>2. \E g : Run(g)
  <2> DEFINE g == [k \in 0 .. n |-> h[k]]
  <2>1. ASSUME NEW k \in 0 .. n
        PROVE  g[k] = IF k = 0 THEN 0 ELSE g[k - 1] + lengths[k]
    <3>1. k # 0 => k - 1 \in 0 .. n
      OBVIOUS
    <3> QED BY <1>1, <3>1 DEF Sums
  <2>2. g = [k \in 0 .. n |-> g[k]]
    OBVIOUS
  <2> HIDE DEF g
  <2>3. g = [k \in 0 .. n |-> IF k = 0 THEN 0 ELSE g[k - 1] + lengths[k]]
    BY <2>1, <2>2
  <2> QED BY <1>0, <2>3
<1>3. Run(sum)
  <2> HIDE DEF Run
  <2> QED BY <1>2
<1>4. Total(lengths) = sum[Len(lengths)]
  BY Zenon DEF Total
<1> HIDE DEF sum
<1>5. Sums(lengths, sum, n)
  BY <1>0, <1>3 DEF Sums
<1> QED BY <1>0, <1>1, <1>4, <1>5, SumsAgree

\* A node of a closed set that was found with a type.
LEMMA FoundNode ==
  ASSUME NEW S, NEW K, Closed(S, K), NEW map, MapOver(map, S, K), NEW key
  PROVE  /\ IsNode(map, key, "num") => /\ hashmap_get(map, key) = Num(NumberOf(map, key))
                                       /\ NumberOf(map, key) \in Int
         /\ IsNode(map, key, "str") => hashmap_get(map, key).len \in Nat
         /\ IsNode(map, key, "str") => hashmap_get(map, key).value \in K
         /\ IsNode(map, key, "list") => /\ hashmap_get(map, key).value \in Seq(S)
                                        /\ hashmap_get(map, key).len = Len(hashmap_get(map, key).value)
         /\ IsNode(map, key, "dict") => MapOver(hashmap_get(map, key).value, S, K)
<1> SUFFICES ASSUME Has(map, key)
             PROVE  LET node == hashmap_get(map, key)
                    IN  /\ node.type = "num" => node = Num(node.value) /\ node.value \in Int
                        /\ node.type = "str" => node.len \in Nat
                        /\ node.type = "str" => node.value \in K
                        /\ node.type = "list" => node.value \in Seq(S) /\ node.len = Len(node.value)
                        /\ node.type = "dict" => MapOver(node.value, S, K)
  BY DEF IsNode, NumberOf
<1>1. PICK node \in S : node = hashmap_get(map, key)
  BY FoundOver
<1>2. IsNodeOver(node, S, K)
  BY DEF Closed
<1>3. CASE node = Num(node.value) /\ node.value \in Int
  <2>1. node.type = "num"
    BY <1>3 DEF Num
  <2> QED BY <1>1, <1>3, <2>1
<1>4. CASE node = Str(node.value, node.len) /\ node.value \in K /\ node.len \in Nat
  <2>1. node.type = "str"
    BY <1>4 DEF Str
  <2> QED BY <1>1, <1>4, <2>1
<1>5. CASE node = Blank
  <2>1. node.type = "none"
    BY <1>5 DEF Blank
  <2> QED BY <1>1, <2>1
<1>6. CASE node = List(node.value) /\ node.value \in Seq(S)
  <2>1. node.type = "list" /\ node.len = Len(node.value)
    BY <1>6 DEF List
  <2> QED BY <1>1, <1>6, <2>1
<1>7. CASE node = Dict(node.value) /\ MapOver(node.value, S, K)
  <2>1. node.type = "dict"
    BY <1>7 DEF Dict
  <2> QED BY <1>1, <1>7, <2>1
<1> QED BY <1>2, <1>3, <1>4, <1>5, <1>6, <1>7 DEF IsNodeOver

\* A node alone, with a type.
LEMMA DictNode ==
  ASSUME NEW S, NEW K, Closed(S, K), NEW node \in S, node.type = "dict"
  PROVE  node = Dict(node.value) /\ MapOver(node.value, S, K)
BY DEF Closed, IsNodeOver, Num, Str, Blank, List, Dict

LEMMA FileLengthsType ==
  ASSUME NEW S, NEW K, Closed(S, K), NEW info, MapOver(info, S, K), InfoAccepted(info)
  PROVE  FileLengths(info) \in Seq(Nat \ {0}) /\ FileLengths(info) # <<>>
<1>1. CASE Has(info, "files")
  <2>1. PICK files : files = hashmap_get(info, "files")
    OBVIOUS
  <2>2. FilesAccepted(files)
    BY <1>1, <2>1 DEF InfoAccepted
  <2>3. files.value \in Seq(S) /\ files.len = Len(files.value) /\ files.len # 0
    BY <1>1, <2>1, <2>2, FoundNode DEF FilesAccepted, IsNode
  <2>4. PICK n \in Nat : n = Len(files.value)
    BY <2>3
  <2>5. ASSUME NEW k \in 1 .. n PROVE NumberOf(files.value[k].value, "length") \in Nat \ {0}
    <3>1. files.value[k] \in S
      BY <2>3, <2>4, ElementOfSeq
    <3>2. FileAccepted(files.value[k])
      BY <2>2, <2>3, <2>4 DEF FilesAccepted
    <3>3. MapOver(files.value[k].value, S, K)
      BY <3>1, <3>2, DictNode DEF FileAccepted
    <3>4. NumberOf(files.value[k].value, "length") \in Int
      BY <3>2, <3>3, FoundNode DEF FileAccepted, IsPositive
    <3> QED BY <3>2, <3>4 DEF FileAccepted, IsPositive, NumberOf
  <2>6. FileLengths(info) = [k \in 1 .. n |-> NumberOf(files.value[k].value, "length")]
    <3>1. DOMAIN files.value = 1 .. n
      BY <2>3, <2>4
    <3> QED BY <1>1, <2>1, <3>1 DEF FileLengths
  <2>7. FileLengths(info) \in [1 .. n -> Nat \ {0}] /\ n # 0
    BY <2>3, <2>4, <2>5, <2>6
  <2>8. FileLengths(info) \in Seq(Nat \ {0}) /\ Len(FileLengths(info)) = n
    BY ONLY <2>7, n \in Nat
  <2> QED BY <2>7, <2>8
<1>2. CASE ~ Has(info, "files")
  <2>1. IsPositive(info, "length")
    BY <1>2 DEF InfoAccepted
  <2>2. NumberOf(info, "length") \in Int
    BY <2>1, FoundNode DEF IsPositive
  <2>3. PICK len \in Nat \ {0} : len = NumberOf(info, "length")
    BY <2>1, <2>2 DEF IsPositive, NumberOf
  <2>4. FileLengths(info) = <<len>>
    BY <1>2, <2>3 DEF FileLengths
  <2>5. <<len>> \in Seq(Nat \ {0}) /\ <<len>> # <<>>
    OBVIOUS
  <2> QED BY <2>4, <2>5
<1> QED BY <1>1, <1>2

\* What Begin gets from an accepted file.
LayoutOver(l) ==
  /\ l.files \in Seq(Nat \ {0}) /\ l.files # <<>>
  /\ l.piece_count \in Nat /\ l.piece_length \in Nat \ {0} /\ l.length \in Nat \ {0}
  /\ LengthValid(l.piece_count, l.piece_length, l.length)

LEMMA TorrentOver ==
  ASSUME NEW S, NEW K, Closed(S, K), NEW node \in S, Accepted(node)
  PROVE  MapOver(node.value, S, K) /\ LayoutOver(LayoutOf(Torrent(node)))
<1>1. MapOver(node.value, S, K)
  BY DictNode DEF Accepted
<1>2. PICK info : info = hashmap_get(node.value, "info").value
  OBVIOUS
<1>3. MapOver(info, S, K) /\ InfoAccepted(info)
  BY <1>1, <1>2, FoundNode DEF Accepted
<1>4. piece_count(info) \in Nat
  <2>1. PICK n \in Nat : n = hashmap_get(info, "pieces").len
    BY <1>3, FoundNode DEF InfoAccepted
  <2>2. n \div 20 \in Nat
    BY ONLY n \in Nat, Z3
  <2> QED BY <2>1, <2>2 DEF piece_count, HashLength
<1>5. piece_length(info) \in Nat \ {0}
  <2>1. IsPositive(info, "piece length")
    BY <1>3 DEF InfoAccepted
  <2>2. NumberOf(info, "piece length") \in Int
    BY <1>3, <2>1, FoundNode DEF IsPositive
  <2>3. PICK n : n = NumberOf(info, "piece length")
    OBVIOUS
  <2>4. n \in Int /\ n > 0
    BY <2>1, <2>2, <2>3, Zenon DEF IsPositive, NumberOf
  <2>5. n \in Nat \ {0}
    BY <2>4
  <2>6. piece_length(info) = n
    BY <2>3, Zenon DEF piece_length
  <2> QED BY <2>5, <2>6
<1>6. FileLengths(info) \in Seq(Nat \ {0}) /\ FileLengths(info) # <<>>
  BY <1>3, FileLengthsType
<1>7. length(info) \in Nat \ {0}
  <2>1. Has(info, "length") => NumberOf(info, "length") \in Int
    <3>1. Has(info, "length") => IsNode(info, "length", "num")
      BY <1>3 DEF InfoAccepted, IsPositive
    <3> QED BY <1>3, <3>1, FoundNode
  <2>2. Total(FileLengths(info)) \in Int
    <3>1. FileLengths(info) \in Seq(Int)
      <4>1. Nat \ {0} \subseteq Int
        OBVIOUS
      <4> QED BY <1>6, <4>1, SeqMonotonic
    <3> QED BY <3>1, TotalType
  <2>3. Has(info, "files") \/ Has(info, "length")
    BY <1>3 DEF InfoAccepted
  <2>4. PICK x \in Int : length(info) = x % Modulus
    BY <2>1, <2>2, <2>3 DEF length
  <2>5. x % Modulus \in Nat
    <3>1. PICK m \in Nat \ {0} : m = Modulus
      BY MetadataAssumption
    <3>2. x % m \in Nat
      BY Z3
    <3> QED BY <3>1, <3>2
  <2> QED BY <1>3, <2>4, <2>5 DEF InfoAccepted
<1>8. LengthValid(piece_count(info), piece_length(info), length(info))
  BY <1>3 DEF InfoAccepted
<1>9. LayoutOf(Torrent(node))
        = [files |-> FileLengths(info), piece_count |-> piece_count(info),
           piece_length |-> piece_length(info), length |-> length(info)]
  BY <1>2 DEF LayoutOf, Torrent
<1> QED BY <1>1, <1>4, <1>5, <1>6, <1>7, <1>8, <1>9 DEF LayoutOver

-----------------------------------------------------------------------------
(***************************************************************************)
(* Saving: what save_state makes of a decoded file is a tree without a     *)
(* flaw, too                                                               *)
(***************************************************************************)

\* The record that the parts of save_state work on, in a file of m slots.
SaveOver(s, S, K, m) ==
  /\ s = [ok |-> s.ok, decoded |-> s.decoded, state |-> s.state]
  /\ MapOver(s.decoded, S, K) /\ s.decoded.map_size = m /\ MapOver(s.state, S, K)

LEMMA SaveFailsOver ==
  ASSUME NEW S, NEW K, NEW m, NEW s, SaveOver(s, S, K, m)
  PROVE  SaveOver([s EXCEPT !.ok = FALSE], S, K, m) /\ [s EXCEPT !.ok = FALSE].decoded = s.decoded
<1>1. PICK no : no = FALSE
  OBVIOUS
<1>2. [s EXCEPT !.ok = no] = [ok |-> no, decoded |-> s.decoded, state |-> s.state]
  BY DEF SaveOver
<1>3. SaveOver([s EXCEPT !.ok = no], S, K, m) /\ [s EXCEPT !.ok = no].decoded = s.decoded
  BY <1>2 DEF SaveOver
<1> QED BY <1>1, <1>3

LEMMA OverwriteOver ==
  ASSUME NEW S, NEW K, NEW map, MapOver(map, S, K), NEW key \in K, NEW value \in S, Has(map, key)
  PROVE  MapOver(Overwrite(map, key, value), S, K) /\ Overwrite(map, key, value).map_size = map.map_size
<1>1. Home(map, key) \in Slots(map)
  BY FoundOver
<1>2. PICK slot \in Slots(map) : slot = Home(map, key)
  BY <1>1
<1>3. MapOver(WithEntry(map, slot, key, value), S, K)
  BY WithEntryOver
<1>4. WithEntry(map, slot, key, value).map_size = map.map_size
  BY DEF WithEntry, MapOver, IsMap
<1> QED BY <1>2, <1>3, <1>4 DEF Overwrite

LEMMA SaveStateOver ==
  ASSUME NEW S, NEW K, NEW m, NEW s, SaveOver(s, S, K, m), NEW map, MapOver(map, S, K)
  PROVE  SaveOver([s EXCEPT !.state = map], S, K, m) /\ [s EXCEPT !.state = map].decoded = s.decoded
BY DEF SaveOver

LEMMA SaveInsertOver ==
  ASSUME NEW S, NEW K, NEW m, NEW s, SaveOver(s, S, K, m), NEW key \in K, NEW node \in S
  PROVE  SaveOver(Insert(s, key, node), S, K, m) /\ Insert(s, key, node).decoded = s.decoded
<1>1. CASE HasRoom(s.state, key)
  <2>1. MapOver(hashmap_insert(s.state, key, node), S, K)
    BY <1>1, InsertOver DEF SaveOver
  <2> QED BY <1>1, <2>1, SaveStateOver DEF Insert
<1>2. CASE ~ HasRoom(s.state, key)
  BY <1>2, SaveFailsOver DEF Insert
<1> QED BY <1>1, <1>2

LEMMA SaveBitfieldOver ==
  ASSUME NEW S, NEW K, NEW m, NEW s, SaveOver(s, S, K, m), NEW t,
         BITFIELD_KEY \in K, Str(t.bitfield, t.piece_count) \in S
  PROVE  SaveOver(save_bitfield(s, t), S, K, m) /\ save_bitfield(s, t).decoded = s.decoded
<1>1. PICK node \in S : node = Str(t.bitfield, t.piece_count)
  OBVIOUS
<1>2. CASE ~ Has(s.state, BITFIELD_KEY)
  BY <1>1, <1>2, SaveInsertOver DEF save_bitfield
<1>3. CASE Has(s.state, BITFIELD_KEY)
  <2>1. MapOver(Overwrite(s.state, BITFIELD_KEY, node), S, K)
    BY <1>3, OverwriteOver DEF SaveOver
  <2>2. /\ SaveOver([s EXCEPT !.state = Overwrite(s.state, BITFIELD_KEY, node)], S, K, m)
        /\ [s EXCEPT !.state = Overwrite(s.state, BITFIELD_KEY, node)].decoded = s.decoded
    BY <2>1, SaveStateOver
  <2> QED BY <1>1, <1>3, <2>2, SaveFailsOver DEF save_bitfield
<1> QED BY <1>2, <1>3

LEMMA SaveDirOver ==
  ASSUME NEW S, NEW K, NEW m, NEW s, SaveOver(s, S, K, m), NEW t,
         DOWNLOAD_DIR_KEY \in K, Str(t.download_dir, 1) \in S
  PROVE  SaveOver(save_download_dir(s, t), S, K, m) /\ save_download_dir(s, t).decoded = s.decoded
<1>1. PICK node \in S : node = Str(t.download_dir, 1)
  OBVIOUS
<1>2. CASE ~ s.ok \/ t.download_dir = "none"
  BY <1>2, SaveFailsOver DEF save_download_dir
<1>3. CASE s.ok /\ t.download_dir # "none" /\ ~ Has(s.state, DOWNLOAD_DIR_KEY)
  BY <1>1, <1>3, SaveInsertOver DEF save_download_dir
<1>4. CASE s.ok /\ t.download_dir # "none" /\ Has(s.state, DOWNLOAD_DIR_KEY)
  <2>1. MapOver(Overwrite(s.state, DOWNLOAD_DIR_KEY, node), S, K)
    BY <1>4, OverwriteOver DEF SaveOver
  <2>2. /\ SaveOver([s EXCEPT !.state = Overwrite(s.state, DOWNLOAD_DIR_KEY, node)], S, K, m)
        /\ [s EXCEPT !.state = Overwrite(s.state, DOWNLOAD_DIR_KEY, node)].decoded = s.decoded
    BY <2>1, SaveStateOver
  <2> QED BY <1>1, <1>4, <2>2 DEF save_download_dir
<1> QED BY <1>2, <1>3, <1>4

LEMMA SaveCountOver ==
  ASSUME NEW S, NEW K, Closed(S, K), NEW m, NEW s, SaveOver(s, S, K, m),
         s.ok => CountsAreNumbers(s.decoded),
         NEW key \in {DOWNLOADED_KEY, UPLOADED_KEY}, key \in K, NEW value, Num(value) \in S
  PROVE  LET s2 == save_data_count(s, key, value)
         IN  SaveOver(s2, S, K, m) /\ (s2.ok => CountsAreNumbers(s2.decoded))
<1>1. CASE ~ s.ok
  BY <1>1 DEF save_data_count
<1>2. CASE s.ok /\ ~ Has(s.decoded, key)
  <2>1. /\ SaveOver(Insert(s, key, Num(value)), S, K, m)
        /\ Insert(s, key, Num(value)).decoded = s.decoded
    BY SaveInsertOver
  <2> QED BY <1>2, <2>1 DEF save_data_count
<1>3. CASE s.ok /\ Has(s.decoded, key)
  <2>1. IsNode(s.decoded, key, "num")
    BY <1>3 DEF CountsAreNumbers
  <2>2. [hashmap_get(s.decoded, key) EXCEPT !.value = value] = Num(value)
    <3>1. PICK old : hashmap_get(s.decoded, key) = Num(old)
      BY <2>1, FoundNode DEF SaveOver
    <3> QED BY <3>1 DEF Num
  <2>3. PICK map : map = Overwrite(s.decoded, key, Num(value))
    OBVIOUS
  <2>4. MapOver(map, S, K) /\ map.map_size = m
    BY <1>3, <2>3, OverwriteOver DEF SaveOver
  <2>5. CountsAreNumbers(map)
    <3> SUFFICES ASSUME NEW k \in {DOWNLOADED_KEY, UPLOADED_KEY}, Has(map, k)
                 PROVE  hashmap_get(map, k).type = "num"
      BY DEF CountsAreNumbers, IsNode
    <3>1. Home(map, k) = Home(s.decoded, k)
      BY <2>4 DEF Home, Probe, SaveOver
    <3>2. Home(s.decoded, key) \in Slots(s.decoded)
      BY <1>3, FoundOver DEF SaveOver
    <3>3. /\ DOMAIN map.elements = DOMAIN s.decoded.elements \cup {Home(s.decoded, key)}
          /\ \A slot \in DOMAIN s.decoded.elements \ {Home(s.decoded, key)} :
               map.elements[slot] = s.decoded.elements[slot]
          /\ map.elements[Home(s.decoded, key)] = [key |-> key, value |-> Num(value)]
      BY <2>3, <3>2, WithEntryOver DEF SaveOver, Overwrite
    <3>4. CASE Home(map, k) = Home(s.decoded, key)
      BY <3>3, <3>4 DEF hashmap_get, Num
    <3>5. CASE Home(map, k) # Home(s.decoded, key)
      <4>1. /\ Home(map, k) \in DOMAIN s.decoded.elements
            /\ map.elements[Home(map, k)] = s.decoded.elements[Home(map, k)]
        BY <3>3, <3>5 DEF Has
      <4>2. Has(s.decoded, k) /\ hashmap_get(map, k) = hashmap_get(s.decoded, k)
        BY <3>1, <4>1 DEF Has, hashmap_get
      <4> QED BY <1>3, <4>2 DEF CountsAreNumbers, IsNode
    <3> QED BY <3>4, <3>5
  <2>6. SaveOver([s EXCEPT !.decoded = map], S, K, m) /\ [s EXCEPT !.decoded = map].decoded = map
    BY <2>4 DEF SaveOver
  <2> QED BY <1>3, <2>2, <2>3, <2>5, <2>6 DEF save_data_count
<1> QED BY <1>1, <1>2, <1>3

\* The torrent that save_state gets.
TorrentOverNodes(t) == t.downloaded \in Int /\ t.uploaded \in Int /\ t.piece_count \in Nat

LEMMA SavedOver ==
  ASSUME NEW S0, NEW K0, Closed(S0, K0), NEW t, MapOver(t.decoded, S0, K0), TorrentOverNodes(t),
         Saved(t).defined
  PROVE  \E S, K : /\ Closed(S, K) /\ MapOver(Saved(t).decoded, S, K)
                   /\ MapOver(Saved(t).state, S, K)
<1>1. CASE ~ HasPlace(t.decoded)
  <2>1. Saved(t).decoded = t.decoded /\ Saved(t).state = hashmap_init(STATE_SIZE)
    BY <1>1 DEF Saved
  <2> QED BY <2>1, EmptyMapOver, StatePersistAssumption
<1>2. CASE HasPlace(t.decoded)
  <2> DEFINE m == t.decoded.map_size
             keys == {STATE_KEY, DOWNLOAD_DIR_KEY, BITFIELD_KEY, DOWNLOADED_KEY, UPLOADED_KEY}
             K == K0 \cup keys \cup {t.bitfield, t.download_dir}
             new == {Str(t.bitfield, t.piece_count), Str(t.download_dir, 1), Num(t.downloaded),
                     Num(t.uploaded)}
             S == S0 \cup new
             state == IF Has(t.decoded, STATE_KEY) THEN hashmap_get(t.decoded, STATE_KEY).value
                      ELSE hashmap_init(STATE_SIZE)
             s0 == [ok |-> TRUE, decoded |-> t.decoded, state |-> state]
             s1 == save_bitfield(s0, t)
             s2 == save_download_dir(s1, t)
             s3 == save_data_count(s2, DOWNLOADED_KEY, t.downloaded)
             s4 == save_data_count(s3, UPLOADED_KEY, t.uploaded)
  <2>1. Closed(S, K) /\ MapOver(t.decoded, S, K)
    <3>1. K0 \subseteq K /\ S0 \subseteq S /\ t.bitfield \in K /\ t.download_dir \in K
      OBVIOUS
    <3>2. ASSUME NEW node \in new PROVE IsNodeOver(node, S, K)
      <4> HIDE DEF K, S
      <4>1. t.bitfield \in K /\ t.download_dir \in K /\ t.piece_count \in Nat /\ 1 \in Nat
            /\ t.downloaded \in Int /\ t.uploaded \in Int
        BY <3>1 DEF TorrentOverNodes
      <4>2. ASSUME NEW v \in K, NEW l \in Nat PROVE IsNodeOver(Str(v, l), S, K)
        BY DEF IsNodeOver, Str
      <4>3. ASSUME NEW v \in Int PROVE IsNodeOver(Num(v), S, K)
        BY DEF IsNodeOver, Num
      <4> QED BY <4>1, <4>2, <4>3
    <3>3. ASSUME NEW node \in S0 PROVE IsNodeOver(node, S, K)
      <4> HIDE DEF K, S
      <4> QED BY <3>1, NodeOverMore DEF Closed
    <3>4. Closed(S, K)
      <4>1. \A node \in S : node \in S0 \/ node \in new
        OBVIOUS
      <4> HIDE DEF S, K, new
      <4> QED BY <3>2, <3>3, <4>1 DEF Closed
    <3>5. MapOver(t.decoded, S, K)
      <4> HIDE DEF K, S
      <4> QED BY <3>1 DEF MapOver
    <3> QED BY <3>4, <3>5
  <2>2. keys \subseteq K /\ new \subseteq S
    OBVIOUS
  <2>3. MapOver(state, S, K)
    <3> HIDE DEF K, S
    <3>1. CASE Has(t.decoded, STATE_KEY)
      <4>1. IsNode(t.decoded, STATE_KEY, "dict")
        BY <1>2, <3>1 DEF HasPlace
      <4> QED BY <2>1, <3>1, <4>1, FoundNode
    <3>2. CASE ~ Has(t.decoded, STATE_KEY)
      BY <3>2, EmptyMapOver, StatePersistAssumption
    <3> QED BY <3>1, <3>2
  <2>4. Saved(t) = [ok |-> s4.ok, defined |-> s2.ok => DirIsString(s1.state) /\ CountsAreNumbers(t.decoded),
                    decoded |-> WithEntry(s4.decoded, StateSlot(t.decoded), STATE_KEY, Dict(s4.state)),
                    state |-> s4.state]
    BY <1>2, Zenon DEF Saved
  <2>k. /\ BITFIELD_KEY \in K /\ DOWNLOAD_DIR_KEY \in K /\ DOWNLOADED_KEY \in K
        /\ UPLOADED_KEY \in K /\ STATE_KEY \in K
    BY <2>2
  <2>n. /\ Str(t.bitfield, t.piece_count) \in S /\ Str(t.download_dir, 1) \in S
        /\ Num(t.downloaded) \in S /\ Num(t.uploaded) \in S
    BY <2>2
  <2>5. SaveOver(s4, S, K, m)
    <3> HIDE DEF K, S
    <3>1. SaveOver(s0, S, K, m) /\ s0.decoded = t.decoded
      BY <2>1, <2>3 DEF SaveOver
    <3> HIDE DEF s0, m
    <3>2. SaveOver(s1, S, K, m) /\ s1.decoded = t.decoded
      BY <2>k, <2>n, <3>1, SaveBitfieldOver
    <3> HIDE DEF s1
    <3>3. SaveOver(s2, S, K, m) /\ s2.decoded = t.decoded
      BY <2>k, <2>n, <3>2, SaveDirOver
    <3>d. s2.ok => CountsAreNumbers(t.decoded)
      <4>1. PICK a, b, c, d : /\ Saved(t) = [ok |-> a, defined |-> b, decoded |-> c, state |-> d]
                              /\ b = (s2.ok => DirIsString(s1.state) /\ CountsAreNumbers(t.decoded))
        BY <2>4, Zenon
      <4>2. Saved(t).defined = b
        BY ONLY <4>1
      <4>3. b
        BY <4>2, Zenon
      <4> QED BY <4>1, <4>3, Zenon
    <3> HIDE DEF s2
    <3>4. SaveOver(s3, S, K, m) /\ (s3.ok => CountsAreNumbers(s3.decoded))
      BY <2>1, <2>k, <2>n, <3>3, <3>d, SaveCountOver
    <3> HIDE DEF s3
    <3> QED BY <2>1, <2>k, <2>n, <3>4, SaveCountOver
  <2>6. StateSlot(t.decoded) \in Slots(t.decoded)
    <3>1. CASE Has(t.decoded, STATE_KEY)
      <4> HIDE DEF K, S
      <4> QED BY <2>1, <3>1, FoundOver DEF StateSlot
    <3>2. CASE ~ Has(t.decoded, STATE_KEY)
      <4> HIDE DEF K, S
      <4> QED BY <1>2, <2>1, <3>2, FreeSlotProperties DEF StateSlot, HasPlace, MapOver
    <3> QED BY <3>1, <3>2
  <2>d. PICK d : d = s4.decoded /\ MapOver(d, S, K) /\ d.map_size = m
    BY <2>5 DEF SaveOver
  <2>e. PICK e : e = s4.state /\ MapOver(e, S, K)
    BY <2>5 DEF SaveOver
  <2> HIDE DEF K, S, s4
  <2>7. PICK S2 : S \subseteq S2 /\ Closed(S2, K) /\ Dict(e) \in S2
    <3>1. IsNodeOver(Dict(e), S, K)
      BY <2>e DEF IsNodeOver, Dict
    <3>2. Closed(S \cup {Dict(e)}, K)
      BY <2>1, <3>1, ClosedWith
    <3> QED BY <3>2
  <2>8. MapOver(d, S2, K) /\ StateSlot(t.decoded) \in Slots(d)
    BY <2>d, <2>6, <2>7 DEF MapOver, Slots
  <2>9. MapOver(WithEntry(d, StateSlot(t.decoded), STATE_KEY, Dict(e)), S2, K)
    BY <2>k, <2>7, <2>8, WithEntryOver
  <2> DEFINE map == WithEntry(d, StateSlot(t.decoded), STATE_KEY, Dict(e))
  <2>10. PICK a, b : Saved(t) = [ok |-> a, defined |-> b, decoded |-> map, state |-> e]
    BY <2>4, <2>d, <2>e, Zenon
  <2>11. MapOver(e, S2, K)
    BY <2>7, <2>e DEF MapOver
  <2> HIDE DEF map
  <2>12. Saved(t).decoded = map /\ Saved(t).state = e
    BY ONLY <2>10
  <2> QED BY <2>7, <2>9, <2>11, <2>12 DEF map
<1> QED BY <1>1, <1>2

-----------------------------------------------------------------------------
(***************************************************************************)
(* Loading                                                                 *)
(***************************************************************************)
LEMMA CountType ==
  ASSUME NEW S, NEW K, Closed(S, K), NEW state, MapOver(state, S, K), NEW key,
         NEW before \in Int
  PROVE  Count(state, key, before) \in Int
<1>1. ASSUME IsNode(state, key, "num") PROVE NumberOf(state, key) % Modulus \in Int
  <2>1. PICK x \in Int : x = NumberOf(state, key)
    BY <1>1, FoundNode
  <2>2. PICK m \in Nat \ {0} : m = Modulus
    BY MetadataAssumption
  <2>3. x % m \in Int
    BY Z3
  <2> QED BY <2>1, <2>2, <2>3
<1> QED BY <1>1 DEF Count

\* What load_torrent takes from an accepted file.
LEMMA ParseOver ==
  ASSUME NEW S, NEW K, Closed(S, K), NEW node \in S, Accepted(node)
  PROVE  LET t == parse_state(Torrent(node))
         IN  /\ MapOver(t.decoded, S, K) /\ t.downloaded \in Int /\ t.uploaded \in Int
             /\ LayoutOver(LayoutOf(t))
<1>1. MapOver(node.value, S, K) /\ LayoutOver(LayoutOf(Torrent(node)))
  BY TorrentOver
<1>2. PICK h, c, l, n, f, b :
        Torrent(node) = [decoded |-> node.value, infohash |-> h, piece_count |-> c,
                         piece_length |-> l, length |-> n, files |-> f, bitfield |-> b,
                         downloaded |-> 0, uploaded |-> 0, download_dir |-> "none"]
  BY Zenon DEF Torrent
<1>3. PICK state : state = hashmap_get(node.value, STATE_KEY).value
  OBVIOUS
<1>4. PICK t : t = Torrent(node)
  OBVIOUS
<1>5. t.decoded = node.value /\ t.downloaded = 0 /\ t.uploaded = 0
  BY <1>2, <1>4
<1>6. CASE parse_state(t) = t
  BY <1>1, <1>4, <1>5, <1>6
<1>7. CASE IsNode(node.value, STATE_KEY, "dict") /\ parse_state(t) # t
  <2>1. MapOver(state, S, K)
    BY <1>1, <1>3, <1>7, FoundNode
  <2>2. PICK dir, bits :
          parse_state(t) = [t EXCEPT !.downloaded = Count(state, DOWNLOADED_KEY, @),
                                     !.uploaded = Count(state, UPLOADED_KEY, @),
                                     !.download_dir = dir, !.bitfield = bits]
    <3>1. parse_state(t) = [t EXCEPT !.downloaded = Count(state, DOWNLOADED_KEY, @),
                                     !.uploaded = Count(state, UPLOADED_KEY, @),
                                     !.download_dir = hashmap_get(state, DOWNLOAD_DIR_KEY).value,
                                     !.bitfield = IF BitfieldFits(state, t)
                                                  THEN hashmap_get(state, BITFIELD_KEY).value ELSE @]
      BY <1>3, <1>5, <1>7, Zenon DEF parse_state
    <3> QED BY <3>1, Zenon
  <2>3. PICK d \in Int : d = Count(state, DOWNLOADED_KEY, 0)
    BY <2>1, CountType
  <2>4. PICK u \in Int : u = Count(state, UPLOADED_KEY, 0)
    BY <2>1, CountType
  <2>5. parse_state(t) = [decoded |-> node.value, infohash |-> h, piece_count |-> c,
                          piece_length |-> l, length |-> n, files |-> f, bitfield |-> bits,
                          downloaded |-> d, uploaded |-> u, download_dir |-> dir]
    <3>1. parse_state(t) = [t EXCEPT !.downloaded = Count(state, DOWNLOADED_KEY, t.downloaded),
                                     !.uploaded = Count(state, UPLOADED_KEY, t.uploaded),
                                     !.download_dir = dir, !.bitfield = bits]
      BY <2>2
    <3>2. parse_state(t) = [t EXCEPT !.downloaded = d, !.uploaded = u, !.download_dir = dir,
                                     !.bitfield = bits]
      BY <1>5, <2>3, <2>4, <3>1, Zenon
    <3>3. PICK none, zero : t = [decoded |-> node.value, infohash |-> h, piece_count |-> c,
                                 piece_length |-> l, length |-> n, files |-> f, bitfield |-> b,
                                 downloaded |-> zero, uploaded |-> zero, download_dir |-> none]
      BY <1>2, <1>4, Zenon
    <3>4. PICK t1 : t1 = [t EXCEPT !.downloaded = d, !.uploaded = u]
      OBVIOUS
    <3>5. t1 = [decoded |-> node.value, infohash |-> h, piece_count |-> c, piece_length |-> l,
                length |-> n, files |-> f, bitfield |-> b, downloaded |-> d, uploaded |-> u,
                download_dir |-> none]
      BY ONLY <3>3, <3>4
    <3>6. PICK t2 : t2 = [t1 EXCEPT !.download_dir = dir]
      OBVIOUS
    <3>7. t2 = [decoded |-> node.value, infohash |-> h, piece_count |-> c, piece_length |-> l,
                length |-> n, files |-> f, bitfield |-> b, downloaded |-> d, uploaded |-> u,
                download_dir |-> dir]
      BY ONLY <3>5, <3>6
    <3>8. [t2 EXCEPT !.bitfield = bits]
            = [decoded |-> node.value, infohash |-> h, piece_count |-> c, piece_length |-> l,
               length |-> n, files |-> f, bitfield |-> bits, downloaded |-> d, uploaded |-> u,
               download_dir |-> dir]
      BY ONLY <3>7
    <3>9. [t EXCEPT !.downloaded = d, !.uploaded = u, !.download_dir = dir, !.bitfield = bits]
            = [t2 EXCEPT !.bitfield = bits]
      BY ONLY <3>4, <3>6, Zenon
    <3> QED BY ONLY <3>2, <3>8, <3>9
  <2>6. LayoutOf(parse_state(t)) = LayoutOf(t)
    BY <1>2, <1>4, <2>5 DEF LayoutOf
  <2>7. /\ parse_state(t).decoded = node.value /\ parse_state(t).downloaded = d
        /\ parse_state(t).uploaded = u
    BY <2>5
  <2> QED BY <1>1, <1>4, <2>6, <2>7
<1>8. CASE ~ IsNode(node.value, STATE_KEY, "dict")
  <2>1. parse_state(t) = t
    BY <1>5, <1>8, Zenon DEF parse_state
  <2> QED BY <1>6, <2>1
<1> QED BY <1>6, <1>7, <1>8

\* A sequence of tokens that can be read, and a decoded file without a flaw.
IsFile(file) == \E K : file \in Seq(Texts(K))
IsTree(map) == \E S, K : Closed(S, K) /\ MapOver(map, S, K)

LEMMA FilesAreFiles ==
  ASSUME NEW file \in Files
  PROVE  IsFile(Tokens(file))
<1> DEFINE parts == {file.before, file.info, file.after}
           all == Range(file.before) \cup Range(file.info) \cup Range(file.after)
           K == {token.value : token \in all}
<1>1. ASSUME NEW token \in all PROVE token \in Texts(K)
  <2>1. IsToken(token)
    BY FilesAssumption
  <2>2. CASE token \in [t : {"d", "l", "e"}]
    BY <2>2 DEF Texts, Brackets
  <2>3. CASE token = NumToken(token.value) /\ token.value \in Int
    BY <2>3 DEF Texts, NumToken
  <2>4. CASE token = StrToken(token.value, token.len) /\ token.len \in Nat
    <3>1. token.value \in K
      OBVIOUS
    <3> HIDE DEF K
    <3> QED BY <2>4, <3>1 DEF Texts, StrToken
  <2> QED BY <2>1, <2>2, <2>3, <2>4 DEF IsToken
<1>2. ASSUME NEW part \in parts PROVE part \in Seq(Texts(K))
  <2>1. part \in Seq(Range(part)) /\ Range(part) \subseteq all
    BY FilesAssumption
  <2> HIDE DEF all, K, parts
  <2>2. Range(part) \subseteq Texts(K)
    BY <1>1, <2>1
  <2> QED BY <2>1, <2>2, SeqMonotonic
<1> HIDE DEF K
<1>3. file.before \o file.info \o file.after \in Seq(Texts(K))
  BY <1>2
<1> QED BY <1>3 DEF IsFile, Tokens

LEMMA LoadOver ==
  ASSUME NEW file, IsFile(file), Loads(file)
  PROVE  LET t == load_torrent_metadata(file)
         IN  /\ IsTree(t.decoded) /\ t.downloaded \in Int /\ t.uploaded \in Int
             /\ LayoutOver(LayoutOf(t))
<1>1. PICK K : file \in Seq(Texts(K))
  BY DEF IsFile
<1>2. file \in Seq(Readable(K))
  <2>1. Texts(K) \subseteq Readable(K)
    BY DEF Readable
  <2> QED BY <1>1, <2>1, SeqMonotonic
<1>3. PICK node : node = bencoding_decode(file).node
  OBVIOUS
<1>4. Accepted(node) /\ bencoding_decode(file).status = "decoded"
  BY <1>3 DEF Loads
<1>5. PICK S : Closed(S, K) /\ node \in S
  BY <1>2, <1>3, <1>4, DecodeSound
<1>6. PICK t : t = parse_state(Torrent(node))
  OBVIOUS
<1>7. /\ MapOver(t.decoded, S, K) /\ t.downloaded \in Int /\ t.uploaded \in Int
      /\ LayoutOver(LayoutOf(t))
  BY <1>4, <1>5, <1>6, ParseOver
<1>8. load_torrent_metadata(file) = t
  BY <1>3, <1>6 DEF load_torrent_metadata
<1> QED BY <1>5, <1>7, <1>8 DEF IsTree

-----------------------------------------------------------------------------
(***************************************************************************)
(* The client: what it writes is a whole file, what is on disk can be      *)
(* read, and what it has loaded is a torrent without a flaw                *)
(***************************************************************************)
IsWhole(file) == \E K : file \in Seq(Texts(K)) /\ Whole(file, K)

\* A call is one for a piece with a number.
CallHasIndex == call # NoCall => "index" \in DOMAIN call /\ call.index \in Int

TorrentLoaded ==
  /\ torrent = [decoded |-> torrent.decoded, infohash |-> torrent.infohash,
                download_dir |-> torrent.download_dir,
                downloaded |-> torrent.downloaded, uploaded |-> torrent.uploaded]
  /\ IsTree(torrent.decoded) /\ torrent.downloaded \in Int /\ torrent.uploaded \in Int
  /\ LayoutOver(layout)

FilesSound == torrent_file \in Files /\ IsFile(saved) /\ IsWhole(out)

ResumeInv == FilesSound /\ CallHasIndex /\ (Loaded => TorrentLoaded)

LEMMA EmptyFile == IsFile(<<>>) /\ IsWhole(<<>>)
BY DEF IsFile, IsWhole, Whole

LEMMA ResumeInvInit == Init => ResumeInv
BY EmptyFile DEF Init, StoreInit, ResumeInv, FilesSound, CallHasIndex, Loaded

\* rw_piece does not touch the number of the piece.
LEMMA TurnHasIndex ==
  ASSUME CallHasIndex, RwTurn
  PROVE  CallHasIndex'
<1>1. call # NoCall /\ RwStep(layout.files, call, disk, call', disk', TRUE)
  BY DEF RwTurn
<1>2. ASSUME NEW n, NEW got PROVE Moved(layout.files, call, n, got).index = call.index
                                  /\ "index" \in DOMAIN Moved(layout.files, call, n, got)
  BY <1>1 DEF Moved, CallHasIndex
<1>3. /\ Done(call).index = call.index /\ "index" \in DOMAIN Done(call)
      /\ Failed(call).index = call.index /\ "index" \in DOMAIN Failed(call)
  BY <1>1 DEF Done, Failed, CallHasIndex
<1>4. \/ call' = Done(call) \/ call' = Failed(call)
      \/ \E n, got : call' = Moved(layout.files, call, n, got)
  BY <1>1 DEF RwStep, Passed
<1> QED BY <1>1, <1>2, <1>3, <1>4 DEF CallHasIndex

LEMMA BeginHasIndex ==
  ASSUME LayoutOver(layout), NEW i \in Pieces(layout), BeginWrite(i) \/ BeginRead(i)
  PROVE  CallHasIndex'
<1>1. i \in Int
  BY DEF Pieces, Layout!Pieces, LayoutOver
<1>2. call' = rw_piece(i, i * layout.piece_length, PieceSize(layout, i), TRUE)
      \/ call' = rw_piece(i, i * layout.piece_length, PieceSize(layout, i), FALSE)
  BY DEF BeginWrite, BeginRead, BeginCall
<1> QED BY <1>1, <1>2 DEF CallHasIndex, rw_piece

LEMMA PieceSizeType ==
  ASSUME NEW l, LayoutOver(l), NEW i \in Int
  PROVE  PieceSize(l, i) \in Int
<1>1. l.length \in Int /\ l.piece_length \in Int
  BY DEF LayoutOver
<1>2. i * l.piece_length \in Int
  BY <1>1
<1> QED BY <1>1, <1>2 DEF PieceSize, Layout!calc_piece_length

\* A start from a file that is one.
LEMMA LoadSound ==
  ASSUME NEW file, IsFile(file), NEW past, Load(file, past)
  PROVE  TorrentLoaded' /\ UNCHANGED <<torrent_file, saved, out, call>>
<1>1. PICK t : t = load_torrent_metadata(file)
  OBVIOUS
<1>2. /\ Loads(file) /\ Begin(LayoutOf(t), t.bitfield)
      /\ torrent' = [decoded |-> t.decoded, infohash |-> t.infohash, download_dir |-> "dir",
                     downloaded |-> t.downloaded, uploaded |-> t.uploaded]
      /\ UNCHANGED <<torrent_file, saved, out>>
  BY <1>1 DEF Load
<1>3. IsTree(t.decoded) /\ t.downloaded \in Int /\ t.uploaded \in Int /\ LayoutOver(LayoutOf(t))
  BY <1>1, <1>2, LoadOver
<1>4. layout' = LayoutOf(t) /\ UNCHANGED call
  BY <1>2 DEF Begin
<1> QED BY <1>2, <1>3, <1>4 DEF TorrentLoaded

\* A save: the decoded file is still one, and what it is written as is whole.
LEMMA SaveSound ==
  ASSUME TorrentLoaded, Saved(Current).defined
  PROVE  /\ [torrent EXCEPT !.decoded = Saved(Current).decoded]
              = [decoded |-> Saved(Current).decoded, infohash |-> torrent.infohash,
                 download_dir |-> torrent.download_dir,
                 downloaded |-> torrent.downloaded, uploaded |-> torrent.uploaded]
         /\ IsTree(Saved(Current).decoded)
         /\ \A start \in {0} \cup CountSlots(Saved(Current).state) :
              IsWhole(bencoding_encode(Dict(Saved(Current).decoded), start))
<1>1. PICK S0, K0 : Closed(S0, K0) /\ MapOver(torrent.decoded, S0, K0)
  BY DEF TorrentLoaded, IsTree
<1>2. /\ Current.decoded = torrent.decoded
      /\ TorrentOverNodes(Current)
  BY DEF Current, TorrentOverNodes, TorrentLoaded, LayoutOver
<1>3. PICK S, K : /\ Closed(S, K) /\ MapOver(Saved(Current).decoded, S, K)
                  /\ MapOver(Saved(Current).state, S, K)
  BY <1>1, <1>2, SavedOver
<1>4. PICK map : map = Saved(Current).decoded
  OBVIOUS
<1>5. PICK state : state = Saved(Current).state
  OBVIOUS
<1>6. ASSUME NEW start \in {0} \cup CountSlots(state)
      PROVE  IsWhole(bencoding_encode(Dict(map), start))
  <2>1. CountSlots(state) \subseteq Int
    BY <1>3, <1>5 DEF CountSlots, MapOver, IsMap, Slots
  <2>2. start \in Int
    BY <2>1
  <2>3. bencoding_encode(Dict(map), start) \in Seq(Texts(K))
        /\ Whole(bencoding_encode(Dict(map), start), K)
    BY <1>3, <1>4, <2>2, EncodedWhole
  <2> QED BY <2>3 DEF IsWhole
<1>7. [torrent EXCEPT !.decoded = map]
        = [decoded |-> map, infohash |-> torrent.infohash,
           download_dir |-> torrent.download_dir,
           downloaded |-> torrent.downloaded, uploaded |-> torrent.uploaded]
  BY DEF TorrentLoaded
<1>8. IsTree(map)
  BY <1>3, <1>4 DEF IsTree
<1> QED BY <1>4, <1>5, <1>6, <1>7, <1>8

LEMMA ResumeInvStep ==
  ASSUME ResumeInv, [Next]_vars
  PROVE  ResumeInv'
<1> USE DEF Loaded
<1>1. CASE Start
  <2>1. IsFile(Tokens(torrent_file)) /\ IsFile(saved)
    BY FilesAreFiles DEF ResumeInv, FilesSound
  <2>2. TorrentLoaded' /\ UNCHANGED <<torrent_file, saved, out, call>>
    BY <1>1, <2>1, LoadSound DEF Start
  <2> QED BY <2>2 DEF ResumeInv, FilesSound, CallHasIndex
<1>2. CASE InitFailsAndExits
  <2>1. /\ mode' = "off" /\ call' = NoCall /\ out' = <<>> /\ UNCHANGED <<torrent_file, saved>>
    BY <1>2 DEF InitFailsAndExits, InitFails, Stop, Forget
  <2> QED BY <2>1, EmptyFile DEF ResumeInv, FilesSound, CallHasIndex
<1>3. CASE StoreStep
  <2>1. UNCHANGED <<torrent_file, saved, out, torrent>>
    BY <1>3 DEF StoreStep, fileVars
  <2>2. Loaded /\ UNCHANGED layout
    BY <1>3 DEF StoreStep, InitFile, BeginWrite, BeginRead, BeginCall, Idle, RwTurn, GiveUpCall,
                EndCall, Returned
  <2>3. LayoutOver(layout)
    BY <2>2 DEF ResumeInv, TorrentLoaded
  <2>4. CallHasIndex'
    <3>1. CASE InitFile \/ GiveUpCall
      BY <3>1 DEF InitFile, GiveUpCall, EndCall, ResumeInv, CallHasIndex
    <3>2. ASSUME NEW i \in Pieces(layout), BeginWrite(i) \/ BeginRead(i) PROVE CallHasIndex'
      BY <2>3, <3>2, BeginHasIndex
    <3>3. CASE RwTurn
      BY <3>3, TurnHasIndex DEF ResumeInv
    <3> QED BY <1>3, <3>1, <3>2, <3>3 DEF StoreStep
  <2>5. TorrentLoaded'
    BY <2>1, <2>2 DEF ResumeInv, TorrentLoaded
  <2> QED BY <2>1, <2>4, <2>5 DEF ResumeInv, FilesSound
<1>4. CASE CountPiece
  <2>1. /\ mode = "run" /\ call # NoCall /\ call' = NoCall
        /\ UNCHANGED <<torrent_file, saved, out, layout>>
        /\ torrent' = [torrent EXCEPT !.downloaded = @ + PieceSize(layout, call.index)]
    BY <1>4 DEF CountPiece, CompletePiece, WriteReturned, Returned, fileVars
  <2>2. TorrentLoaded /\ call.index \in Int
    BY <2>1 DEF ResumeInv, CallHasIndex
  <2>3. PICK size \in Int : size = PieceSize(layout, call.index)
    BY <2>2, PieceSizeType DEF TorrentLoaded
  <2>4. torrent' = [decoded |-> torrent.decoded, infohash |-> torrent.infohash,
                    download_dir |-> torrent.download_dir,
                    downloaded |-> torrent.downloaded + size, uploaded |-> torrent.uploaded]
    BY <2>1, <2>2, <2>3 DEF TorrentLoaded
  <2>5. TorrentLoaded'
    BY <2>1, <2>2, <2>3, <2>4 DEF TorrentLoaded
  <2> QED BY <2>1, <2>5 DEF ResumeInv, FilesSound, CallHasIndex
<1>5. CASE CountServed
  <2>1. /\ mode = "run" /\ call' = NoCall /\ UNCHANGED <<torrent_file, saved, out, layout>>
        /\ torrent' = [torrent EXCEPT !.uploaded = @ + 1]
    BY <1>5 DEF CountServed, ServePiece, EndCall, Returned, fileVars
  <2>2. TorrentLoaded
    BY <2>1 DEF ResumeInv
  <2>3. PICK n \in Int : n = torrent.uploaded + 1
    BY <2>2 DEF TorrentLoaded
  <2>4. torrent' = [decoded |-> torrent.decoded, infohash |-> torrent.infohash,
                    download_dir |-> torrent.download_dir,
                    downloaded |-> torrent.downloaded, uploaded |-> n]
    BY <2>1, <2>2, <2>3 DEF TorrentLoaded
  <2>5. TorrentLoaded'
    BY <2>1, <2>2, <2>3, <2>4 DEF TorrentLoaded
  <2> QED BY <2>1, <2>5 DEF ResumeInv, FilesSound, CallHasIndex
<1>6. CASE SaveState
  <2>1. /\ mode = "run" /\ Saved(Current).defined
        /\ torrent' = [torrent EXCEPT !.decoded = Saved(Current).decoded]
        /\ \E start \in {0} \cup CountSlots(Saved(Current).state) :
             out' = bencoding_encode(Dict(Saved(Current).decoded), start)
        /\ saved' = <<>> /\ UNCHANGED <<torrent_file, layout, call>>
    BY <1>6 DEF SaveState, BeginSave, Idle
  <2>2. TorrentLoaded
    BY <2>1 DEF ResumeInv
  <2>3. IsWhole(out') /\ IsFile(saved')
    BY <2>1, <2>2, SaveSound, EmptyFile
  <2>4. TorrentLoaded'
    <3>1. PICK map : map = Saved(Current).decoded
      OBVIOUS
    <3>2. /\ torrent' = [decoded |-> map, infohash |-> torrent.infohash,
                         download_dir |-> torrent.download_dir,
                         downloaded |-> torrent.downloaded, uploaded |-> torrent.uploaded]
          /\ IsTree(map)
      BY <2>1, <2>2, <3>1, SaveSound
    <3> QED BY <2>1, <2>2, <3>2 DEF TorrentLoaded
  <2> QED BY <2>1, <2>3, <2>4 DEF ResumeInv, FilesSound, CallHasIndex
<1>7. CASE SaveFails
  <2>1. /\ mode = "run" /\ Saved(Current).defined
        /\ torrent' = [torrent EXCEPT !.decoded = Saved(Current).decoded]
        /\ UNCHANGED <<torrent_file, saved, out, layout, call>>
    BY <1>7 DEF SaveFails, Idle, storeVars
  <2>2. TorrentLoaded
    BY <2>1 DEF ResumeInv
  <2>3. TorrentLoaded'
    <3>1. PICK map : map = Saved(Current).decoded
      OBVIOUS
    <3>2. /\ torrent' = [decoded |-> map, infohash |-> torrent.infohash,
                         download_dir |-> torrent.download_dir,
                         downloaded |-> torrent.downloaded, uploaded |-> torrent.uploaded]
          /\ IsTree(map)
      BY <2>1, <2>2, <3>1, SaveSound
    <3> QED BY <2>1, <2>2, <3>2 DEF TorrentLoaded
  <2> QED BY <2>1, <2>3 DEF ResumeInv, FilesSound, CallHasIndex
<1>8. CASE WriteSaved
  <2>1. /\ mode = "save" /\ saved' = out /\ out' = <<>>
        /\ UNCHANGED <<torrent_file, torrent, layout, call>>
    BY <1>8 DEF WriteSaved, EndSave
  <2>2. IsFile(out)
    BY DEF ResumeInv, FilesSound, IsWhole, IsFile
  <2>3. TorrentLoaded'
    BY <2>1 DEF ResumeInv, TorrentLoaded
  <2> QED BY <2>1, <2>2, <2>3, EmptyFile DEF ResumeInv, FilesSound, CallHasIndex
<1>9. ASSUME saved' \in {saved} \cup Parts PROVE IsFile(saved')
  <2>1. ASSUME NEW n \in Cuts, n < Len(out) PROVE IsFile(SubSeq(out, 1, n))
    <3>1. PICK K : out \in Seq(Texts(K))
      BY DEF ResumeInv, FilesSound, IsWhole
    <3>2. n \in Nat
      BY ResumeAssumption
    <3>3. Len(out) \in Nat /\ n <= Len(out)
      BY <2>1, <3>1, <3>2
    <3>4. SubSeq(out, 1, n) \in Seq(Texts(K))
      BY <3>1, <3>2, <3>3
    <3> QED BY <3>4 DEF IsFile
  <2> QED BY <1>9, <2>1 DEF Parts, ResumeInv, FilesSound
<1>10. CASE WriteCutShort
  <2>1. /\ mode = "save" /\ saved' \in {saved} \cup Parts /\ out' = <<>>
        /\ UNCHANGED <<torrent_file, torrent, layout, call>>
    BY <1>10 DEF WriteCutShort, SaveCutShort
  <2>2. TorrentLoaded'
    BY <2>1 DEF ResumeInv, TorrentLoaded
  <2> QED BY <1>9, <2>1, <2>2, EmptyFile DEF ResumeInv, FilesSound, CallHasIndex
<1>11. CASE Killed
  <2>1. /\ mode' = "off" /\ call' = NoCall /\ out' = <<>> /\ UNCHANGED torrent_file
        /\ saved' \in {saved} \cup Parts
    BY <1>11 DEF Killed, Crash, Stop, Forget
  <2> QED BY <1>9, <2>1, EmptyFile DEF ResumeInv, FilesSound, CallHasIndex
<1>12. CASE UNCHANGED vars
  BY <1>12 DEF vars, storeVars, fileVars, boundVars, ResumeInv, FilesSound, CallHasIndex,
               TorrentLoaded
<1> QED
  BY <1>1, <1>2, <1>3, <1>4, <1>5, <1>6, <1>7, <1>8, <1>10, <1>11, <1>12 DEF Next

\* THEOREM: at every moment of every run, whatever files there are and wherever the
\* client is killed, what save_state returned is one whole dictionary, the file on disk
\* is a sequence of tokens, and what the client has loaded and saves again is a tree
\* without a flaw, with counts that are numbers and a layout that was accepted.
THEOREM ClientIsSound == Spec => []ResumeInv
<1>1. ResumeInv /\ [Next]_vars => ResumeInv'
  BY ResumeInvStep
<1> QED BY <1>1, ResumeInvInit, PTL DEF Spec

\* THEOREM: CutIsRefused, for every torrent and every hash function: what is on disk
\* after a crash in the middle of a write does not load.
THEOREM CutFileIsRefused == Spec => []CutIsRefused
<1>1. ResumeInv => CutIsRefused
  <2> SUFFICES ASSUME ResumeInv, NEW n \in 0 .. Len(out) - 1
               PROVE  ~ Loads(SubSeq(out, 1, n)) /\ ~ Loads(Append(SubSeq(out, 1, n), Token("cut")))
    BY DEF CutIsRefused
  <2>1. PICK K : out \in Seq(Texts(K)) /\ Whole(out, K)
    BY DEF ResumeInv, FilesSound, IsWhole
  <2> QED BY <2>1, CutDoesNotLoad
<1> QED BY <1>1, ClientIsSound, PTL

-----------------------------------------------------------------------------
(***************************************************************************)
(* The layout of an accepted file                                          *)
(***************************************************************************)

\* What validate_pieces_and_length is for, as long as nothing wraps.
LEMMA LengthsAgree ==
  ASSUME NEW c \in Nat, NEW each \in Nat \ {0}, NEW total \in Nat \ {0},
         LengthValid(c, each, total), each * c < Modulus
  PROVE  c > 0 /\ each * (c - 1) <= total /\ total <= each * c
<1>1. PICK m \in Nat \ {0} : m = Modulus
  BY MetadataAssumption
<1>2. ASSUME NEW a \in Nat, a < m PROVE a % m = a
  BY <1>2
<1>3. each * c \in Nat
  OBVIOUS
<1>4. total <= each * c
  BY <1>1, <1>2, <1>3 DEF LengthValid
<1>5. c # 0
  BY <1>4
<1>6. each * (c - 1) \in Nat /\ each * (c - 1) + each = each * c
  BY <1>5
<1>7. each * (c - 1) < m
  <2> DEFINE a == each * (c - 1)
             b == each * c
  <2> HIDE DEF a, b
  <2>1. a \in Nat /\ b \in Nat /\ a + each = b /\ b < m
    BY <1>1, <1>3, <1>6 DEF a, b
  <2>2. a < m
    BY <2>1
  <2> QED BY <2>2 DEF a
<1>8. each * (c - 1) <= total
  BY <1>1, <1>2, <1>6, <1>7 DEF LengthValid
<1> QED BY <1>4, <1>5, <1>8

\* Each byte is in a piece, and each byte of a piece in the torrent.
LEMMA PiecesCover ==
  ASSUME NEW l, NEW c \in Nat \ {0}, NEW each \in Nat \ {0}, NEW total \in Nat,
         l.piece_count = c, l.piece_length = each, l.length = total,
         each * (c - 1) <= total, total <= each * c
  PROVE  UNION {Positions(l, i) : i \in Pieces(l)} = 0 .. total - 1
<1>1. Pieces(l) = 0 .. c - 1
  BY DEF Pieces, Layout!Pieces
<1>2. ASSUME NEW i \in 0 .. c - 1
      PROVE  Positions(l, i)
               = IF i + 1 = c THEN i * each .. total - 1 ELSE i * each .. i * each + each - 1
  <2>1. PICK a \in Int : a = i * each
    OBVIOUS
  <2>2. PieceSize(l, i) = IF i + 1 = c THEN total - a ELSE each
    BY <2>1 DEF PieceSize, Layout!calc_piece_length
  <2>3. Positions(l, i) = a .. a + PieceSize(l, i) - 1
    BY <2>1 DEF Positions
  <2>4. a + (total - a) - 1 = total - 1
    BY <2>1
  <2> QED BY <2>1, <2>2, <2>3, <2>4
<1>3. ASSUME NEW i \in 0 .. c - 1, NEW g \in Positions(l, i) PROVE g \in 0 .. total - 1
  <2>1. i * each \in Nat
    OBVIOUS
  <2>2. CASE i + 1 = c
    <3>1. g \in i * each .. total - 1
      BY <1>2, <1>3, <2>2
    <3> QED BY <2>1, <3>1
  <2>3. CASE i + 1 # c
    <3>1. i + 1 <= c - 1 /\ i * each + each = each * (i + 1)
      BY <2>3
    <3>2. each * (i + 1) <= each * (c - 1) /\ each * (c - 1) \in Nat /\ each * (i + 1) \in Nat
      <4>1. PICK k \in Nat : c - 1 = (i + 1) + k
        <5>1. (c - 1) - (i + 1) \in Nat
          BY <3>1
        <5> QED BY <5>1
      <4>2. each * (c - 1) = each * (i + 1) + each * k /\ each * k \in Nat
        BY <4>1
      <4>3. each * (c - 1) \in Nat /\ each * (i + 1) \in Nat
        OBVIOUS
      <4> DEFINE x == each * (c - 1)
                 y == each * (i + 1)
                 z == each * k
      <4> HIDE DEF x, y, z
      <4>4. x = y + z /\ z \in Nat /\ x \in Nat /\ y \in Nat
        BY <4>2, <4>3 DEF x, y, z
      <4>5. y <= x
        BY <4>4
      <4> QED BY <4>3, <4>5 DEF x, y
    <3>3. g \in i * each .. i * each + each - 1
      BY <1>2, <1>3, <2>3
    <3> DEFINE a == i * each
               x == each * (c - 1)
               y == each * (i + 1)
    <3> HIDE DEF a, x, y
    <3>4. a \in Nat /\ x \in Nat /\ y \in Nat /\ a + each = y /\ y <= x /\ x <= total
          /\ g \in a .. a + each - 1
      BY <2>1, <3>1, <3>2, <3>3 DEF a, x, y
    <3> QED BY <3>4
  <2> QED BY <2>2, <2>3
<1>4. ASSUME NEW g \in 0 .. total - 1 PROVE \E i \in 0 .. c - 1 : g \in Positions(l, i)
  <2>1. PICK i, r : i \in Nat /\ r \in 0 .. each - 1 /\ g = i * each + r
    <3>1. g \in Nat
      OBVIOUS
    <3>2. g \div each \in Nat /\ g % each \in 0 .. each - 1 /\ g = (g \div each) * each + (g % each)
      BY ONLY <3>1, each \in Nat \ {0}, Z3
    <3> QED BY <3>2
  <2>2. i \in 0 .. c - 1
    <3> SUFFICES ASSUME i >= c PROVE FALSE
      BY <2>1
    <3>1. PICK k \in Nat : i = c + k
      <4>1. i - c \in Nat
        BY <2>1
      <4> QED BY <2>1, <4>1
    <3>2. i * each = each * c + k * each /\ k * each \in Nat /\ each * c \in Nat
      BY <3>1
    <3> DEFINE x == i * each
               y == each * c
               z == k * each
    <3> HIDE DEF x, y, z
    <3>3. x = y + z /\ z \in Nat /\ y \in Nat /\ total <= y /\ g = x + r
      BY <2>1, <3>2 DEF x, y, z
    <3> QED BY <2>1, <3>3
  <2>3. i * each \in Nat
    BY <2>1
  <2>4. g \in Positions(l, i)
    <3> DEFINE x == i * each
    <3> HIDE DEF x
    <3>1. x \in Nat /\ g = x + r /\ r \in 0 .. each - 1
      BY <2>1, <2>3 DEF x
    <3>2. g \in x .. total - 1 /\ g \in x .. x + each - 1
      BY <3>1
    <3> QED BY <1>2, <2>2, <3>2 DEF x
  <2> QED BY <2>2, <2>4
<1>5. UNION {Positions(l, i) : i \in 0 .. c - 1} = 0 .. total - 1
  BY <1>3, <1>4
<1> QED BY <1>1, <1>5

\* THEOREM: LayoutSound, for every file that metadata.c accepts and every state that
\* was saved into one.
THEOREM LayoutIsSound == Spec => []LayoutSound
<1>1. ResumeInv => LayoutSound
  <2> SUFFICES ASSUME ResumeInv, Loaded, layout.piece_length * layout.piece_count < Modulus
               PROVE  /\ layout.piece_count > 0
                      /\ layout.piece_length * (layout.piece_count - 1) <= layout.length
                      /\ layout.length <= layout.piece_length * layout.piece_count
                      /\ UNION {Positions(layout, i) : i \in Pieces(layout)} = 0 .. layout.length - 1
    BY DEF LayoutSound
  <2>1. LayoutOver(layout)
    BY DEF ResumeInv, TorrentLoaded
  <2>2. PICK c \in Nat : c = layout.piece_count
    BY <2>1 DEF LayoutOver
  <2>3. PICK each \in Nat \ {0} : each = layout.piece_length
    BY <2>1 DEF LayoutOver
  <2>4. PICK total \in Nat \ {0} : total = layout.length
    BY <2>1 DEF LayoutOver
  <2>5. c > 0 /\ each * (c - 1) <= total /\ total <= each * c
    BY <2>1, <2>2, <2>3, <2>4, LengthsAgree DEF LayoutOver
  <2>6. c \in Nat \ {0}
    BY <2>5
  <2>7. UNION {Positions(layout, i) : i \in Pieces(layout)} = 0 .. total - 1
    BY <2>2, <2>3, <2>4, <2>5, <2>6, PiecesCover
  <2> QED BY <2>2, <2>3, <2>4, <2>5, <2>7
<1> QED BY <1>1, ClientIsSound, PTL

=============================================================================

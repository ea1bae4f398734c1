--------------------------- MODULE PieceStoreProofs ---------------------------
(***************************************************************************)
(* What rw_piece writes and reads, for any number of files of any lengths, *)
(* whatever piece and wherever it begins; and what becomes of the pieces   *)
(* in PieceStore, over any number of starts, crashes and failures.         *)
(***************************************************************************)
EXTENDS PieceStore, TLAPS, NaturalsInduction, WellFoundedInduction, SequenceTheorems

-----------------------------------------------------------------------------
(***************************************************************************)
(* Where the files begin                                                   *)
(***************************************************************************)

\* g adds up the lengths of the files before each of the first n.
AddsUp(lengths, g, n) ==
  /\ g \in [1 .. n -> Nat]
  /\ \A k \in 1 .. n : g[k] = IF k = 1 THEN 0 ELSE g[k - 1] + lengths[k - 1]

\* A set of numbers that is not empty has a least one.
LEMMA LeastNumber ==
  ASSUME NEW T \in SUBSET Nat, T # {}
  PROVE  \E n \in T : \A k \in T : n <= k
<1>1. PICK n \in T : \A y \in T : ~ (<<y, n>> \in OpToRel(<, Nat))
  BY WFMin, NatLessThanWellFounded
<1>2. \A y \in T : ~ (y < n)
  BY <1>1 DEF OpToRel
<1>3. n \in Nat /\ \A k \in T : k \in Nat
  OBVIOUS
<1>4. \A k \in T : n <= k
  BY <1>2, <1>3
<1> QED BY <1>4

LEMMA StartsExist ==
  ASSUME NEW lengths \in Seq(Nat), NEW n \in 0 .. Len(lengths) + 1
  PROVE  \E g : AddsUp(lengths, g, n)
<1> DEFINE T == {m \in 0 .. Len(lengths) + 1 : ~ \E g : AddsUp(lengths, g, m)}
<1> SUFFICES ASSUME T # {} PROVE FALSE
  OBVIOUS
<1>1. PICK m \in T : \A k \in T : m <= k
  <2>1. T \subseteq Nat
    OBVIOUS
  <2> HIDE DEF T
  <2> QED BY <2>1, LeastNumber
<1>2. m \in 0 .. Len(lengths) + 1 /\ ~ \E g : AddsUp(lengths, g, m) /\ Len(lengths) \in Nat
  OBVIOUS
<1>3. CASE m = 0
  <2>1. AddsUp(lengths, [k \in 1 .. 0 |-> 0], 0)
    BY DEF AddsUp
  <2> QED BY <1>2, <1>3, <2>1
<1>4. CASE m # 0
  <2>1. m - 1 \in 0 .. Len(lengths) + 1 /\ m - 1 \notin T
    <3> HIDE DEF T
    <3>1. m - 1 \in 0 .. Len(lengths) + 1 /\ ~ (m <= m - 1)
      BY <1>2, <1>4
    <3> QED BY <1>1, <3>1, Zenon
  <2>2. PICK g : AddsUp(lengths, g, m - 1)
    BY <2>1
  <2> DEFINE h == [k \in 1 .. m |-> IF k < m THEN g[k]
                                    ELSE IF k = 1 THEN 0 ELSE g[k - 1] + lengths[k - 1]]
  <2> HIDE DEF T
  <2>3. ASSUME NEW k \in 1 .. m
        PROVE  h[k] \in Nat /\ h[k] = IF k = 1 THEN 0 ELSE h[k - 1] + lengths[k - 1]
    <3>1. CASE k < m
      <4>1. k \in 1 .. m - 1 /\ (k # 1 => k - 1 \in 1 .. m - 1 /\ k - 1 < m /\ k - 1 \in 1 .. m)
        BY <1>2, <3>1
      <4>2. h[k] = g[k] /\ (k # 1 => h[k - 1] = g[k - 1])
        BY <3>1, <4>1
      <4> QED BY <2>2, <4>1, <4>2 DEF AddsUp
    <3>2. CASE k = m
      <4>1. k # 1 => k - 1 \in 1 .. m - 1 /\ k - 1 < m /\ k - 1 \in 1 .. m /\ k - 1 \in 1 .. Len(lengths)
        BY <1>2, <3>2
      <4>2. h[k] = IF k = 1 THEN 0 ELSE g[k - 1] + lengths[k - 1]
        BY <1>2, <3>2
      <4>3. k # 1 => h[k - 1] = g[k - 1] /\ g[k - 1] \in Nat /\ lengths[k - 1] \in Nat
        BY <2>2, <4>1 DEF AddsUp
      <4> HIDE DEF h
      <4> QED BY <4>2, <4>3
    <3> QED BY <1>2, <3>1, <3>2
  <2>4. h \in [1 .. m -> Nat]
    BY <2>3
  <2> HIDE DEF h
  <2>5. AddsUp(lengths, h, m)
    BY <2>3, <2>4 DEF AddsUp
  <2> QED BY <1>2, <2>5
<1> QED BY <1>3, <1>4

LEMMA StartsAgree ==
  ASSUME NEW lengths \in Seq(Nat), NEW n \in Nat, NEW m \in Nat, NEW g, NEW h,
         AddsUp(lengths, g, n), AddsUp(lengths, h, m), NEW j \in 1 .. n, j <= m
  PROVE  g[j] = h[j]
<1> DEFINE T == {k \in 1 .. n : k <= m /\ g[k] # h[k]}
<1> SUFFICES ASSUME T # {} PROVE FALSE
  OBVIOUS
<1>1. PICK k \in T : \A y \in T : k <= y
  <2>1. T \subseteq Nat
    OBVIOUS
  <2> HIDE DEF T
  <2> QED BY <2>1, LeastNumber
<1>2. /\ k \in 1 .. n /\ k \in 1 .. m /\ g[k] # h[k]
      /\ k # 1 => k - 1 \in 1 .. n /\ k - 1 <= m /\ k - 1 \notin T
  BY <1>1
<1>3. k # 1 => g[k - 1] = h[k - 1]
  BY <1>2
<1> QED BY <1>2, <1>3 DEF AddsUp

LEMMA FileStartAddsUp ==
  ASSUME NEW lengths \in Seq(Nat), NEW f \in 1 .. Len(lengths) + 1
  PROVE  \E g : AddsUp(lengths, g, f) /\ FileStart(lengths, f) = g[f]
<1> DEFINE Sum(g) == g = [k \in 1 .. f |-> IF k = 1 THEN 0 ELSE g[k - 1] + lengths[k - 1]]
           start == CHOOSE g : Sum(g)
<1>1. PICK h : AddsUp(lengths, h, f)
  BY StartsExist
<1>2. Sum(h)
  BY <1>1 DEF AddsUp
<1>3. Sum(start)
  <2> HIDE DEF Sum
  <2> QED BY <1>2
<1>4. FileStart(lengths, f) = start[f]
  BY DEF FileStart
<1> HIDE DEF start
<1>5. ASSUME NEW k \in 1 .. f PROVE start[k] = h[k]
  <2> DEFINE T == {j \in 1 .. f : start[j] # h[j]}
  <2> SUFFICES ASSUME T # {} PROVE FALSE
    OBVIOUS
  <2>1. PICK j \in T : \A y \in T : j <= y
    <3>1. T \subseteq Nat
      OBVIOUS
    <3> HIDE DEF T
    <3> QED BY <3>1, LeastNumber
  <2>2. j \in 1 .. f /\ start[j] # h[j] /\ (j # 1 => j - 1 \in 1 .. f /\ j - 1 \notin T)
    BY <2>1
  <2>3. j # 1 => start[j - 1] = h[j - 1]
    BY <2>2
  <2>4. start[j] = IF j = 1 THEN 0 ELSE start[j - 1] + lengths[j - 1]
    BY <1>3, <2>2
  <2> QED BY <1>1, <2>2, <2>3, <2>4 DEF AddsUp
<1> QED BY <1>1, <1>4, <1>5

\* The first file begins at 0, and each one where the one before it ends.
LEMMA FileStartProperties ==
  ASSUME NEW lengths \in Seq(Nat)
  PROVE  /\ FileStart(lengths, 1) = 0
         /\ \A f \in 1 .. Len(lengths) + 1 : FileStart(lengths, f) \in Nat
         /\ \A f \in 1 .. Len(lengths) :
              FileStart(lengths, f + 1) = FileStart(lengths, f) + lengths[f]
<1>1. ASSUME NEW f \in 1 .. Len(lengths) + 1 PROVE FileStart(lengths, f) \in Nat
  BY FileStartAddsUp DEF AddsUp
<1>2. FileStart(lengths, 1) = 0
  <2>1. 1 \in 1 .. Len(lengths) + 1
    OBVIOUS
  <2>2. PICK g : AddsUp(lengths, g, 1) /\ FileStart(lengths, 1) = g[1]
    BY <2>1, FileStartAddsUp
  <2> QED BY <2>2 DEF AddsUp
<1>3. ASSUME NEW f \in 1 .. Len(lengths)
      PROVE  FileStart(lengths, f + 1) = FileStart(lengths, f) + lengths[f]
  <2>1. f \in Nat /\ f + 1 \in Nat /\ f \in 1 .. Len(lengths) + 1 /\ f + 1 \in 1 .. Len(lengths) + 1
    OBVIOUS
  <2>2. PICK g : AddsUp(lengths, g, f) /\ FileStart(lengths, f) = g[f]
    BY <2>1, FileStartAddsUp
  <2>3. PICK h : AddsUp(lengths, h, f + 1) /\ FileStart(lengths, f + 1) = h[f + 1]
    BY <2>1, FileStartAddsUp
  <2>4. g[f] = h[f]
    BY <2>1, <2>2, <2>3, StartsAgree
  <2>5. h[f + 1] = h[f] + lengths[f]
    <3>1. f + 1 \in 1 .. f + 1 /\ f + 1 # 1 /\ f + 1 - 1 = f
      BY <2>1
    <3> QED BY <2>3, <3>1 DEF AddsUp
  <2> QED BY <2>2, <2>3, <2>4, <2>5
<1> QED BY <1>1, <1>2, <1>3

\* No file begins before an earlier one has ended.
LEMMA FilesInOrder ==
  ASSUME NEW lengths \in Seq(Nat), NEW f \in 1 .. Len(lengths),
         NEW h \in f + 1 .. Len(lengths) + 1
  PROVE  FileStart(lengths, f) + lengths[f] <= FileStart(lengths, h)
<1> DEFINE T == {k \in f + 1 .. Len(lengths) + 1 : FileStart(lengths, k) < FileStart(lengths, f + 1)}
<1> SUFFICES T = {}
  <2>1. h \notin T
    OBVIOUS
  <2>2. /\ FileStart(lengths, h) \in Nat /\ FileStart(lengths, f + 1) \in Nat
        /\ FileStart(lengths, f + 1) = FileStart(lengths, f) + lengths[f]
    <3>1. h \in 1 .. Len(lengths) + 1 /\ f + 1 \in 1 .. Len(lengths) + 1
      OBVIOUS
    <3> QED BY <3>1, FileStartProperties
  <2>3. ~ (FileStart(lengths, h) < FileStart(lengths, f + 1))
    BY <2>1
  <2> QED BY <2>2, <2>3
<1> SUFFICES ASSUME T # {} PROVE FALSE
  OBVIOUS
<1>1. PICK k \in T : \A y \in T : k <= y
  <2>1. T \subseteq Nat
    OBVIOUS
  <2> HIDE DEF T
  <2> QED BY <2>1, LeastNumber
<1>2. k \in f + 1 .. Len(lengths) + 1 /\ FileStart(lengths, k) < FileStart(lengths, f + 1)
  OBVIOUS
<1>3. /\ k # f + 1 /\ k - 1 \in f + 1 .. Len(lengths) + 1 /\ k - 1 \notin T
      /\ k - 1 \in 1 .. Len(lengths) /\ k \in 1 .. Len(lengths) + 1
      /\ k - 1 \in 1 .. Len(lengths) + 1 /\ f + 1 \in 1 .. Len(lengths) + 1
  <2>1. k # f + 1
    <3>1. f + 1 \in 1 .. Len(lengths) + 1
      OBVIOUS
    <3>2. FileStart(lengths, f + 1) \in Nat
      BY <3>1, FileStartProperties
    <3> QED BY <1>2, <3>2
  <2>2. k - 1 \notin T
    <3>1. k \in Nat
      BY <1>2
    <3> HIDE DEF T
    <3>2. ~ (k <= k - 1)
      BY <3>1
    <3> QED BY <1>1, <3>2
  <2> HIDE DEF T
  <2> QED BY <1>2, <2>1, <2>2
<1>4. /\ FileStart(lengths, k) = FileStart(lengths, k - 1) + lengths[k - 1]
      /\ FileStart(lengths, k - 1) \in Nat /\ lengths[k - 1] \in Nat
      /\ FileStart(lengths, f + 1) \in Nat
  <2>1. FileStart(lengths, (k - 1) + 1) = FileStart(lengths, k - 1) + lengths[k - 1]
    BY <1>3, FileStartProperties
  <2>2. (k - 1) + 1 = k
    BY <1>2
  <2>3. lengths[k - 1] \in Nat
    BY <1>3
  <2> QED BY <1>3, <2>1, <2>2, <2>3, FileStartProperties
<1>5. ~ (FileStart(lengths, k - 1) < FileStart(lengths, f + 1))
  BY <1>3
<1>6. PICK x \in Nat, y \in Nat, n \in Nat :
        x = FileStart(lengths, k - 1) /\ y = FileStart(lengths, f + 1) /\ n = lengths[k - 1]
  BY ONLY <1>4, Zenon
<1>7. x + n < y /\ ~ (x < y)
  BY ONLY <1>2, <1>4, <1>5, <1>6
<1> QED BY ONLY <1>7, x \in Nat, y \in Nat, n \in Nat

-----------------------------------------------------------------------------
(***************************************************************************)
(* A call, between two turns of its loop                                   *)
(***************************************************************************)

End(lengths) == FileStart(lengths, Len(lengths) + 1)

RwCall ==
  [index : Nat, from : Nat, is_write : BOOLEAN, i : Nat, piece_global_offset : Nat,
   file_global_offset : Nat, buf : Nat, buf_size : Nat, got : Seq(Int), result : {"running", "done", "failed"}]

Disk(lengths) == [1 .. Len(lengths) -> [exists : BOOLEAN, bytes : Seq(Int)]]

\* The offsets do not wrap, and are those of the buffer and of the file; the file does
\* not begin behind what is left of the piece.
CallOK(lengths, rw) ==
  /\ rw \in RwCall /\ rw.i \in 1 .. Len(lengths) + 1
  /\ rw.from + rw.buf + rw.buf_size < Width /\ End(lengths) < Width
  /\ rw.piece_global_offset = rw.from + rw.buf
  /\ rw.file_global_offset = FileStart(lengths, rw.i)
  /\ rw.buf_size = 0 \/ rw.file_global_offset <= rw.piece_global_offset

LEMMA NoWrap ==
  ASSUME NEW x \in Nat, x < Width
  PROVE  x % Width = x
<1>1. \A m \in Nat : \A r \in 0 .. m - 1 : r % m = r
  BY SMT
<1>2. Width \in Nat /\ x \in 0 .. Width - 1
  BY FileMapAssumption
<1> QED BY <1>1, <1>2

\* A call starts so, if the piece and the files are within the range of offsets.
LEMMA BeginsOK ==
  ASSUME NEW lengths \in Seq(Nat), NEW index \in Nat, NEW from \in Nat, NEW size \in Nat,
         NEW is_write \in BOOLEAN, from + size < Width, End(lengths) < Width
  PROVE  CallOK(lengths, rw_piece(index, from, size, is_write))
<1>1. FileStart(lengths, 1) = 0 /\ 1 \in 1 .. Len(lengths) + 1
  BY FileStartProperties
<1> DEFINE rw == rw_piece(index, from, size, is_write)
<1>2. rw \in RwCall
  BY EmptySeq DEF rw_piece, RwCall
<1>3. /\ rw.i = 1 /\ rw.from = from /\ rw.buf = 0 /\ rw.buf_size = size
      /\ rw.piece_global_offset = from /\ rw.file_global_offset = 0
  BY DEF rw_piece
<1> HIDE DEF rw
<1>4. CallOK(lengths, rw)
  BY <1>1, <1>2, <1>3 DEF CallOK
<1> QED BY <1>4 DEF rw

\* What a turn looks at, while the loop is not over: where the file begins and ends,
\* and how many bytes of it are bytes of the piece.
LEMMA TurnProperties ==
  ASSUME NEW lengths \in Seq(Nat), NEW rw, CallOK(lengths, rw), ~ Over(lengths, rw)
  PROVE  LET start == FileStart(lengths, rw.i)
             length == lengths[rw.i]
             at == rw.from + rw.buf
         IN  /\ rw.i \in 1 .. Len(lengths) /\ start \in Nat /\ length \in Nat /\ at \in Nat
             /\ start + length = FileStart(lengths, rw.i + 1)
             /\ start + length <= End(lengths)
             /\ (rw.file_global_offset + length) % Width = start + length
             /\ Touches(lengths, rw) <=> start + length > at
             /\ start <= at
             /\ Touches(lengths, rw) =>
                  /\ file_offset(rw) = at - start
                  /\ Share(lengths, rw) = Smaller(length - (at - start), rw.buf_size)
                  /\ Share(lengths, rw) \in 1 .. rw.buf_size
                  /\ Share(lengths, rw) <= length - (at - start)
<1> DEFINE start == FileStart(lengths, rw.i)
           length == lengths[rw.i]
           at == rw.from + rw.buf
           end == End(lengths)
<1>1. /\ rw \in RwCall /\ rw.i \in 1 .. Len(lengths) + 1
      /\ at + rw.buf_size < Width /\ end < Width
      /\ rw.piece_global_offset = at /\ rw.file_global_offset = start
      /\ rw.buf_size = 0 \/ start <= at
  BY DEF CallOK
<1>2. rw.from \in Nat /\ rw.buf \in Nat /\ rw.buf_size \in Nat /\ rw.i \in Nat /\ Len(lengths) \in Nat
  BY <1>1 DEF RwCall
<1>3. rw.i \in 1 .. Len(lengths) /\ rw.buf_size # 0
  BY <1>1, <1>2 DEF Over
<1>4. /\ start \in Nat /\ length \in Nat /\ end \in Nat
      /\ FileStart(lengths, rw.i + 1) = start + length
  <2>1. Len(lengths) + 1 \in 1 .. Len(lengths) + 1
    BY <1>2
  <2> QED BY <1>1, <1>3, <2>1, FileStartProperties DEF End
<1>5. start + length <= end
  <2>1. Len(lengths) + 1 \in rw.i + 1 .. Len(lengths) + 1
    BY <1>2, <1>3
  <2> QED BY <1>3, <2>1, FilesInOrder DEF End
<1> HIDE DEF start, length, at, end
<1>6. at \in Nat /\ start <= at
  BY <1>1, <1>2, <1>3 DEF at
<1>7. (start + length) % Width = start + length
  <2>1. start + length \in Nat /\ start + length < Width
    BY <1>1, <1>4, <1>5, FileMapAssumption
  <2> QED BY <2>1, NoWrap
<1>8. Touches(lengths, rw) <=> start + length > at
  BY <1>1, <1>7 DEF Touches, length
<1>9. ASSUME start + length > at
      PROVE  /\ file_offset(rw) = at - start
             /\ Share(lengths, rw) = Smaller(length - (at - start), rw.buf_size)
             /\ Share(lengths, rw) \in 1 .. rw.buf_size
             /\ Share(lengths, rw) <= length - (at - start)
  <2>1. /\ at - start \in Nat /\ at - start < Width
        /\ length - (at - start) \in Nat \ {0} /\ length - (at - start) < Width
    BY <1>1, <1>2, <1>4, <1>5, <1>6, <1>9, FileMapAssumption
  <2>2. file_offset(rw) = at - start
    BY <1>1, <2>1, NoWrap DEF file_offset
  <2>3. (length - (at - start)) % Width = length - (at - start)
    BY <2>1, NoWrap
  <2>4. Share(lengths, rw) = Smaller(length - (at - start), rw.buf_size)
    BY <2>2, <2>3 DEF Share, length
  <2> DEFINE rest == length - (at - start)
  <2> HIDE DEF rest
  <2>5. rest \in Nat \ {0} /\ Share(lengths, rw) = Smaller(rest, rw.buf_size)
    BY <2>1, <2>4 DEF rest
  <2>6. Share(lengths, rw) \in 1 .. rw.buf_size /\ Share(lengths, rw) <= rest
    BY <1>2, <1>3, <2>5 DEF Smaller
  <2> QED BY <2>2, <2>4, <2>6 DEF rest
<1>10. (rw.file_global_offset + length) % Width = start + length
  BY <1>1, <1>7
<1>11. /\ rw.i \in 1 .. Len(lengths) /\ start \in Nat /\ length \in Nat /\ at \in Nat
       /\ start + length = FileStart(lengths, rw.i + 1)
       /\ start + length <= end
       /\ (rw.file_global_offset + length) % Width = start + length
       /\ Touches(lengths, rw) <=> start + length > at
       /\ start <= at
       /\ Touches(lengths, rw) =>
            /\ file_offset(rw) = at - start
            /\ Share(lengths, rw) = Smaller(length - (at - start), rw.buf_size)
            /\ Share(lengths, rw) \in 1 .. rw.buf_size
            /\ Share(lengths, rw) <= length - (at - start)
  BY <1>3, <1>4, <1>5, <1>6, <1>8, <1>9, <1>10
<1> QED BY <1>11 DEF start, length, at, end

\* A turn that moves n bytes, or passes the file, leaves a call between two turns.
WentOn(rw, call2, n, got) ==
  /\ call2.index = rw.index /\ call2.from = rw.from /\ call2.is_write = rw.is_write
  /\ call2.buf = rw.buf + n /\ call2.buf_size = rw.buf_size - n
  /\ call2.got = rw.got \o got /\ call2.result = rw.result

LEMMA MovedOK ==
  ASSUME NEW lengths \in Seq(Nat), NEW rw, CallOK(lengths, rw), ~ Over(lengths, rw),
         NEW n \in Nat, NEW got \in Seq(Int),
         IF Touches(lengths, rw) THEN n = Share(lengths, rw) ELSE n = 0
  PROVE  /\ CallOK(lengths, Moved(lengths, rw, n, got))
         /\ WentOn(rw, Moved(lengths, rw, n, got), n, got)
<1> DEFINE call2 == Moved(lengths, rw, n, got)
           start == FileStart(lengths, rw.i)
           length == lengths[rw.i]
           at == rw.from + rw.buf
<1>1. /\ rw \in RwCall /\ at + rw.buf_size < Width /\ End(lengths) < Width
      /\ rw.piece_global_offset = at
  BY DEF CallOK
<1>2. /\ rw.i \in 1 .. Len(lengths) /\ start \in Nat /\ length \in Nat /\ at \in Nat
      /\ start + length = FileStart(lengths, rw.i + 1)
      /\ (rw.file_global_offset + length) % Width = start + length
      /\ Touches(lengths, rw) <=> start + length > at
      /\ start <= at
      /\ Touches(lengths, rw) =>
           /\ Share(lengths, rw) = Smaller(length - (at - start), rw.buf_size)
           /\ Share(lengths, rw) \in 1 .. rw.buf_size
           /\ Share(lengths, rw) <= length - (at - start)
  BY TurnProperties
<1>3. /\ rw.from \in Nat /\ rw.buf \in Nat /\ rw.buf_size \in Nat /\ rw.i \in Nat
      /\ rw.index \in Nat /\ rw.is_write \in BOOLEAN /\ rw.got \in Seq(Int)
      /\ rw.result \in {"running", "done", "failed"}
  BY <1>1 DEF RwCall
<1> HIDE DEF start, length, at
<1>4. n <= rw.buf_size /\ (at + n < start + length => rw.buf_size - n = 0)
  <2> DEFINE size == rw.buf_size
             rest == length - (at - start)
  <2>1. CASE Touches(lengths, rw)
    <3>1. n = Smaller(rest, size) /\ n \in 1 .. size /\ size \in Nat
      BY <1>2, <1>3, <2>1
    <3>2. n = rest => at + n = start + length
      BY <1>2
    <3> HIDE DEF size, rest
    <3>3. n <= size /\ (n = rest \/ n = size)
      BY <3>1 DEF Smaller
    <3>4. n <= size /\ (at + n < start + length => size - n = 0)
      BY <1>2, <3>1, <3>2, <3>3
    <3> QED BY <3>4 DEF size
  <2>2. CASE ~ Touches(lengths, rw)
    <3>1. n = 0 /\ start + length <= at
      BY <1>2, <2>2
    <3> QED BY <1>2, <1>3, <3>1
  <2> QED BY <2>1, <2>2
<1>5. (at + n) % Width = at + n
  <2>1. at + n \in Nat /\ at + n < Width
    BY <1>1, <1>2, <1>3, <1>4, FileMapAssumption
  <2> QED BY <2>1, NoWrap
<1>6. call2 = [rw EXCEPT !.i = rw.i + 1, !.buf = rw.buf + n,
                           !.buf_size = rw.buf_size - n,
                           !.piece_global_offset = at + n,
                           !.file_global_offset = start + length,
                           !.got = rw.got \o got]
  BY <1>1, <1>2, <1>5 DEF Moved, length, RwCall
<1> HIDE DEF call2
<1>7. /\ call2.i = rw.i + 1 /\ call2.index = rw.index /\ call2.from = rw.from /\ call2.is_write = rw.is_write
      /\ call2.buf = rw.buf + n /\ call2.buf_size = rw.buf_size - n
      /\ call2.piece_global_offset = at + n /\ call2.file_global_offset = start + length
      /\ call2.got = rw.got \o got /\ call2.result = rw.result
  BY <1>1, <1>6 DEF RwCall
<1>8. call2 \in RwCall
  <2>1. rw.got \o got \in Seq(Int)
    BY <1>3, ConcatProperties
  <2>2. rw.i + 1 \in Nat /\ rw.buf + n \in Nat /\ rw.buf_size - n \in Nat
        /\ at + n \in Nat /\ start + length \in Nat
    <3>1. rw.i \in Nat /\ rw.buf \in Nat /\ rw.buf_size \in Nat
      BY <1>3
    <3>2. at \in Nat /\ start \in Nat /\ length \in Nat /\ n <= rw.buf_size
      BY <1>2, <1>4
    <3> QED BY <3>1, <3>2
  <2> DEFINE g == rw.got \o got
  <2>3. g \in Seq(Int)
    BY <2>1
  <2>4. call2 = [rw EXCEPT !.i = rw.i + 1, !.buf = rw.buf + n,
                             !.buf_size = rw.buf_size - n,
                             !.piece_global_offset = at + n,
                             !.file_global_offset = start + length, !.got = g]
    BY <1>6
  <2> HIDE DEF g
  <2> QED BY <1>1, <2>2, <2>3, <2>4 DEF RwCall
<1>9. CallOK(lengths, call2)
  <2>1. call2.i \in 1 .. Len(lengths) + 1
    <3>1. rw.i \in 1 .. Len(lengths) /\ call2.i = rw.i + 1
      BY <1>2, <1>7
    <3> QED BY <3>1
  <2>2. call2.from + call2.buf + call2.buf_size < Width
    <3>1. call2.from + call2.buf + call2.buf_size = at + rw.buf_size
      <4>1. n \in 0 .. rw.buf_size
        BY <1>3, <1>4
      <4>2. rw.from + (rw.buf + n) + (rw.buf_size - n) = rw.from + rw.buf + rw.buf_size
        <5> DEFINE a == rw.from
                   b == rw.buf
                   c == rw.buf_size
        <5>1. n \in 0 .. c /\ a \in Nat /\ b \in Nat /\ c \in Nat
          BY <1>3, <4>1
        <5> HIDE DEF a, b, c
        <5>2. a + (b + n) + (c - n) = a + b + c
          BY <5>1
        <5> QED BY <5>2 DEF a, b, c
      <4>3. at = rw.from + rw.buf
        BY DEF at
      <4> QED BY <1>7, <4>2, <4>3, Zenon
    <3> QED BY <1>1, <3>1
  <2>3. call2.piece_global_offset = call2.from + call2.buf
    BY <1>3, <1>7 DEF at
  <2>4. call2.file_global_offset = FileStart(lengths, call2.i)
    BY <1>2, <1>7
  <2>5. call2.buf_size = 0 \/ call2.file_global_offset <= call2.piece_global_offset
    BY <1>2, <1>3, <1>4, <1>7
  <2> QED BY <1>1, <1>8, <2>1, <2>2, <2>3, <2>4, <2>5 DEF CallOK
<1> QED BY <1>7, <1>9 DEF call2, WentOn

\* n bytes of the piece land where they belong, and the others stay where they are.
Overwritten(bytes, bytes2, offset, first, n) ==
  /\ bytes2 \in Seq(Int) /\ Len(bytes2) \in Nat
  /\ Len(bytes2) >= Len(bytes) /\ (n # 0 => Len(bytes2) >= offset + n)
  /\ \A k \in 1 .. Len(bytes2) :
       bytes2[k] = IF k \in offset + 1 .. offset + n THEN first + (k - offset - 1)
                   ELSE IF k <= Len(bytes) THEN bytes[k] ELSE Zero

LEMMA WriteAtProperties ==
  ASSUME NEW bytes \in Seq(Int), NEW offset \in Nat, NEW n \in Nat, NEW rw,
         rw.from \in Nat, rw.buf \in Nat
  PROVE  Overwritten(bytes, WriteAt(bytes, offset, rw, n), offset, rw.from + rw.buf, n)
<1> DEFINE m == Larger(Len(bytes), IF n = 0 THEN 0 ELSE offset + n)
           bytes2 == WriteAt(bytes, offset, rw, n)
           Byte(k) == IF k \in offset + 1 .. offset + n
                      THEN rw.from + rw.buf + (k - offset - 1)
                      ELSE IF k <= Len(bytes) THEN bytes[k] ELSE Zero
<1>1. m \in Nat /\ m >= Len(bytes) /\ (n # 0 => m >= offset + n) /\ Len(bytes) \in Nat
  BY DEF Larger
<1>2. bytes2 = [k \in 1 .. m |-> Byte(k)]
  BY DEF WriteAt
<1>3. ASSUME NEW k \in 1 .. m PROVE Byte(k) \in Int
  <2>1. CASE k \in offset + 1 .. offset + n
    BY <2>1
  <2>2. CASE k \notin offset + 1 .. offset + n
    <3>1. Zero \in Int
      BY DEF Zero
    <3>2. k <= Len(bytes) => bytes[k] \in Int
      <4>1. k <= Len(bytes) => k \in 1 .. Len(bytes)
        BY <1>1
      <4> QED BY <4>1, ElementOfSeq
    <3> QED BY <2>2, <3>1, <3>2
  <2> QED BY <2>1, <2>2
<1> HIDE DEF m, bytes2
<1>4. bytes2 \in Seq(Int) /\ Len(bytes2) = m
  <2> HIDE DEF Byte
  <2>1. bytes2 \in [1 .. m -> Int]
    BY <1>2, <1>3
  <2> QED BY <1>1, <2>1, SeqDef, LenProperties
<1>5. \A k \in 1 .. Len(bytes2) : bytes2[k] = Byte(k)
  <2> HIDE DEF Byte
  <2> QED BY <1>2, <1>4
<1> QED BY <1>1, <1>4, <1>5 DEF bytes2, Overwritten

-----------------------------------------------------------------------------
(***************************************************************************)
(* Writing a piece                                                         *)
(***************************************************************************)

\* Bytes that a turn writes, all or some of its share, come to their places, and none
\* that was in its place leaves it.
BytesWritten(rw, dsk, n) ==
  [dsk EXCEPT ![rw.i] = File(WriteAt(dsk[rw.i].bytes, file_offset(rw), rw, n))]
BytesPlaced(lengths, dsk, disk2, from, n) ==
  /\ disk2 \in Disk(lengths)
  /\ \A g \in Int : InPlace(lengths, dsk, g) => InPlace(lengths, disk2, g)
  /\ \A g \in from .. from + n - 1 : InPlace(lengths, disk2, g)

LEMMA WritePlaces ==
  ASSUME NEW lengths \in Seq(Nat), NEW rw, CallOK(lengths, rw), ~ Over(lengths, rw),
         Touches(lengths, rw), NEW dsk \in Disk(lengths),
         NEW n \in 0 .. Share(lengths, rw)
  PROVE  BytesPlaced(lengths, dsk, BytesWritten(rw, dsk, n), rw.from + rw.buf, n)
<1> DEFINE i == rw.i
           start == FileStart(lengths, i)
           length == lengths[i]
           at == rw.from + rw.buf
           bytes == dsk[i].bytes
           bytes2 == WriteAt(bytes, at - start, rw, n)
           disk2 == BytesWritten(rw, dsk, n)
<1>1. rw.from \in Nat /\ rw.buf \in Nat
  BY DEF CallOK, RwCall
<1>2. /\ i \in 1 .. Len(lengths) /\ start \in Nat /\ length \in Nat /\ at \in Nat
      /\ start <= at /\ file_offset(rw) = at - start
      /\ Share(lengths, rw) \in Nat /\ Share(lengths, rw) <= length - (at - start)
  <2>1. /\ i \in 1 .. Len(lengths) /\ start \in Nat /\ length \in Nat /\ at \in Nat
        /\ start <= at /\ file_offset(rw) = at - start
        /\ Share(lengths, rw) \in 1 .. rw.buf_size
        /\ Share(lengths, rw) <= length - (at - start)
    BY TurnProperties
  <2> QED BY <2>1
<1>3. /\ bytes \in Seq(Int) /\ dsk \in [1 .. Len(lengths) -> [exists : BOOLEAN, bytes : Seq(Int)]]
  BY <1>2 DEF Disk
<1>4. n \in Nat /\ n <= length - (at - start) /\ at - start \in Nat
  <2>1. n \in 0 .. Share(lengths, rw)
    OBVIOUS
  <2> HIDE DEF start, length, at
  <2> QED BY <1>2, <2>1
<1>5. Overwritten(bytes, bytes2, at - start, at, n)
  <2> HIDE DEF start, length, bytes
  <2> QED BY <1>1, <1>3, <1>4, WriteAtProperties
<1>6. disk2 = [dsk EXCEPT ![i] = [exists |-> TRUE, bytes |-> bytes2]]
  BY <1>2 DEF File, BytesWritten
<1> HIDE DEF bytes2, at, start, length, i, bytes, disk2
<1>7. disk2 \in Disk(lengths) /\ disk2[i].bytes = bytes2
      /\ \A f \in 1 .. Len(lengths) : f # i => disk2[f].bytes = dsk[f].bytes
  <2>1. bytes2 \in Seq(Int)
    BY <1>5 DEF Overwritten
  <2> QED BY <1>2, <1>3, <1>6, <2>1 DEF Disk
<1>8. ASSUME NEW g \in Int, InPlace(lengths, dsk, g) PROVE InPlace(lengths, disk2, g)
  <2>1. PICK f \in 1 .. Len(lengths) :
          /\ g - FileStart(lengths, f) \in 0 .. lengths[f] - 1
          /\ g - FileStart(lengths, f) < Len(dsk[f].bytes)
          /\ dsk[f].bytes[g - FileStart(lengths, f) + 1] = g
    BY <1>8 DEF InPlace
  <2>2. CASE f # i
    BY <1>7, <2>1, <2>2 DEF InPlace
  <2>3. CASE f = i
    <3> DEFINE k == g - start + 1
    <3>1. g - start \in 0 .. length - 1 /\ g - start < Len(bytes) /\ bytes[k] = g
          /\ Len(bytes) \in Nat
      BY <1>3, <2>1, <2>3 DEF start, length, bytes
    <3>2. k \in 1 .. Len(bytes2) /\ k <= Len(bytes) /\ g - start < Len(bytes2)
      <4> DEFINE d == g - start
                 old == Len(bytes)
                 new == Len(bytes2)
      <4>1. d \in Nat /\ d < old /\ old \in Nat /\ new \in Nat /\ new >= old
        BY <1>5, <3>1 DEF Overwritten
      <4> HIDE DEF d, old, new
      <4>2. d + 1 \in 1 .. new /\ d + 1 <= old /\ d < new
        BY <4>1
      <4> QED BY <4>2 DEF d, old, new
    <3>3. at + (k - (at - start) - 1) = g
      BY <1>2
    <3>4. bytes2[k] = g
      BY <1>5, <3>1, <3>2, <3>3 DEF Overwritten
    <3> HIDE DEF k
    <3>5. disk2[i].bytes[g - start + 1] = g
      BY <1>7, <3>4 DEF k
    <3>6. /\ g - FileStart(lengths, i) \in 0 .. lengths[i] - 1
          /\ g - FileStart(lengths, i) < Len(disk2[i].bytes)
          /\ disk2[i].bytes[g - FileStart(lengths, i) + 1] = g
      BY <1>7, <3>1, <3>2, <3>5 DEF start, length
    <3> QED BY <1>2, <3>6 DEF InPlace
  <2> QED BY <2>2, <2>3
<1>9. ASSUME NEW g \in at .. at + n - 1 PROVE InPlace(lengths, disk2, g)
  <2> DEFINE k == g - start + 1
  <2>1. g \in Int /\ n # 0 /\ at <= g /\ g < at + n
    BY <1>2, <1>4
  <2>2. g - start \in 0 .. length - 1
    BY <1>2, <1>4, <2>1
  <2>3. k \in (at - start) + 1 .. (at - start) + n /\ k \in 1 .. Len(bytes2) /\ g - start < Len(bytes2)
    BY <1>2, <1>4, <1>5, <2>1 DEF Overwritten
  <2>4. at + (k - (at - start) - 1) = g
    BY <1>2, <2>1
  <2>5. bytes2[k] = g
    BY <1>5, <2>3, <2>4 DEF Overwritten
  <2> HIDE DEF k
  <2>6. disk2[i].bytes[g - start + 1] = g
    BY <1>7, <2>5 DEF k
  <2>7. /\ g - FileStart(lengths, i) \in 0 .. lengths[i] - 1
        /\ g - FileStart(lengths, i) < Len(disk2[i].bytes)
        /\ disk2[i].bytes[g - FileStart(lengths, i) + 1] = g
    BY <1>7, <2>2, <2>3, <2>6 DEF start, length
  <2> QED BY <1>2, <2>7 DEF InPlace
<1> QED BY <1>7, <1>8, <1>9 DEF at, disk2, BytesPlaced

\* A call that writes has written what it has used of the buffer.
WriteInv(lengths, rw, dsk) ==
  /\ CallOK(lengths, rw) /\ dsk \in Disk(lengths)
  /\ \A g \in rw.from .. rw.from + rw.buf - 1 : InPlace(lengths, dsk, g)

\* What a turn does to a write: nothing, or it moves some bytes, and fails or goes on.
LEMMA WriteTurn ==
  ASSUME NEW lengths \in Seq(Nat), NEW rw, NEW dsk, WriteInv(lengths, rw, dsk),
         rw.is_write, NEW call2, NEW disk2, NEW may_fail \in BOOLEAN,
         RwStep(lengths, rw, dsk, call2, disk2, may_fail)
  PROVE  /\ WriteInv(lengths, call2, disk2)
         /\ call2.is_write /\ call2.from = rw.from
         /\ call2.buf + call2.buf_size = rw.buf + rw.buf_size
         /\ \A g \in Int : InPlace(lengths, dsk, g) => InPlace(lengths, disk2, g)
         /\ call2.result = "done" => Over(lengths, call2)
<1> DEFINE n == Share(lengths, rw)
           at == rw.from + rw.buf
<1>1. /\ CallOK(lengths, rw) /\ dsk \in Disk(lengths) /\ rw \in RwCall
      /\ \A g \in rw.from .. at - 1 : InPlace(lengths, dsk, g)
      /\ rw.from \in Nat /\ rw.buf \in Nat /\ rw.buf_size \in Nat
      /\ rw.result = "running"
  BY DEF WriteInv, CallOK, RwCall, RwStep
<1>2. ASSUME NEW result \in {"done", "failed"}, call2 = [rw EXCEPT !.result = result]
      PROVE  /\ CallOK(lengths, call2) /\ call2.is_write /\ call2.from = rw.from
             /\ call2.buf = rw.buf /\ call2.buf_size = rw.buf_size
             /\ call2.i = rw.i /\ call2.result = result
  BY <1>1, <1>2 DEF CallOK, RwCall
<1>3. CASE Over(lengths, rw)
  <2>1. call2 = [rw EXCEPT !.result = "done"] /\ disk2 = dsk
    BY <1>3 DEF RwStep, Done
  <2>2. /\ CallOK(lengths, call2) /\ call2.is_write /\ call2.from = rw.from
        /\ call2.buf = rw.buf /\ call2.buf_size = rw.buf_size /\ call2.i = rw.i
    BY <1>2, <2>1
  <2> QED BY <1>1, <1>3, <2>1, <2>2 DEF WriteInv, Over
<1>4. CASE ~ Over(lengths, rw) /\ ~ Touches(lengths, rw)
  <2>1. call2 = Moved(lengths, rw, 0, <<>>) /\ disk2 = dsk
    BY <1>4 DEF RwStep, Passed
  <2>2. <<>> \in Seq(Int) /\ 0 \in Nat
    OBVIOUS
  <2>3. CallOK(lengths, call2) /\ WentOn(rw, call2, 0, <<>>)
    BY <1>1, <1>4, <2>1, <2>2, MovedOK, Zenon
  <2>4. /\ call2.from = rw.from /\ call2.is_write /\ call2.result = "running"
        /\ call2.buf = rw.buf /\ call2.buf_size = rw.buf_size
    BY <1>1, <2>3 DEF WentOn
  <2>5. WriteInv(lengths, call2, disk2)
    BY <1>1, <2>1, <2>3, <2>4 DEF WriteInv
  <2> QED BY <2>1, <2>4, <2>5
<1>5. CASE ~ Over(lengths, rw) /\ Touches(lengths, rw)
  <2>1. n \in 1 .. rw.buf_size
    BY <1>1, <1>5, TurnProperties
  <2>2. ASSUME NEW k \in 0 .. n PROVE BytesPlaced(lengths, dsk, BytesWritten(rw, dsk, k), at, k)
    BY <1>1, <1>5, WritePlaces
  <2>3. \/ call2 = Moved(lengths, rw, n, <<>>) /\ disk2 = BytesWritten(rw, dsk, n)
        \/ call2 = Failed(rw) /\ \E k \in 0 .. n - 1 : disk2 = BytesWritten(rw, dsk, k)
        \/ call2 = Failed(rw) /\ disk2 = dsk
    BY <1>5 DEF RwStep, BytesWritten
  <2>4. CASE call2 = Moved(lengths, rw, n, <<>>) /\ disk2 = BytesWritten(rw, dsk, n)
    <3>1. <<>> \in Seq(Int) /\ n \in Nat /\ n \in 0 .. n
      BY <2>1
    <3>2. CallOK(lengths, call2) /\ WentOn(rw, call2, n, <<>>)
      BY <1>1, <1>5, <2>4, <3>1, MovedOK, Zenon
    <3>3. BytesPlaced(lengths, dsk, disk2, at, n)
      BY <2>2, <2>4, <3>1
    <3> HIDE DEF n
    <3>4. ASSUME NEW g \in call2.from .. call2.from + call2.buf - 1
          PROVE  InPlace(lengths, disk2, g)
      <4>1. g \in Int /\ (g \in rw.from .. at - 1 \/ g \in at .. at + n - 1)
        BY <1>1, <3>1, <3>2 DEF WentOn
      <4> QED BY <1>1, <3>3, <4>1 DEF BytesPlaced
    <3> QED BY <1>1, <3>1, <3>2, <3>3, <3>4 DEF WriteInv, WentOn, BytesPlaced
  <2>5. CASE call2 = Failed(rw) /\ disk2 \in {dsk} \cup {BytesWritten(rw, dsk, k) : k \in 0 .. n}
    <3>1. /\ disk2 \in Disk(lengths)
          /\ \A g \in Int : InPlace(lengths, dsk, g) => InPlace(lengths, disk2, g)
      BY <1>1, <2>2, <2>5 DEF BytesPlaced
    <3>2. /\ CallOK(lengths, call2) /\ call2.is_write /\ call2.from = rw.from
          /\ call2.buf = rw.buf /\ call2.buf_size = rw.buf_size
          /\ call2.result = "failed"
      BY <1>2, <2>5 DEF Failed
    <3> HIDE DEF n
    <3> QED BY <1>1, <3>1, <3>2 DEF WriteInv
  <2>6. \A k \in 0 .. n - 1 : k \in 0 .. n
    BY <2>1
  <2> HIDE DEF n
  <2> QED BY <2>3, <2>4, <2>5, <2>6
<1> QED BY <1>3, <1>4, <1>5

\* A write that succeeds has every byte of the piece in its place, in whichever file
\* that is, as far as there are files; and no turn of it, not even the one that
\* fails, took another byte from its place.
THEOREM WritesInPlace ==
  ASSUME NEW lengths \in Seq(Nat), NEW rw, NEW dsk, WriteInv(lengths, rw, dsk),
         rw.is_write, NEW call2, NEW disk2, NEW may_fail \in BOOLEAN,
         RwStep(lengths, rw, dsk, call2, disk2, may_fail)
  PROVE  /\ WriteInv(lengths, call2, disk2)
         /\ \A g \in Int : InPlace(lengths, dsk, g) => InPlace(lengths, disk2, g)
         /\ call2.result = "done" =>
              \A g \in rw.from .. rw.from + rw.buf + rw.buf_size - 1 :
                g < End(lengths) => InPlace(lengths, disk2, g)
<1>1. /\ WriteInv(lengths, call2, disk2) /\ call2.from = rw.from
      /\ call2.buf + call2.buf_size = rw.buf + rw.buf_size
      /\ \A g \in Int : InPlace(lengths, dsk, g) => InPlace(lengths, disk2, g)
      /\ call2.result = "done" => Over(lengths, call2)
  BY WriteTurn
<1>2. /\ call2.from \in Nat /\ call2.buf \in Nat /\ call2.buf_size \in Nat
      /\ call2.i \in 1 .. Len(lengths) + 1 /\ Len(lengths) \in Nat
      /\ call2.buf_size = 0 \/ FileStart(lengths, call2.i) <= call2.from + call2.buf
      /\ \A g \in call2.from .. call2.from + call2.buf - 1 : InPlace(lengths, disk2, g)
      /\ rw.from \in Nat /\ rw.buf \in Nat /\ rw.buf_size \in Nat
  BY <1>1 DEF WriteInv, CallOK, RwCall
<1>3. ASSUME call2.result = "done",
             NEW g \in rw.from .. rw.from + rw.buf + rw.buf_size - 1,
             g < End(lengths)
      PROVE  InPlace(lengths, disk2, g)
  <2>1. call2.buf_size = 0 \/ End(lengths) <= call2.from + call2.buf
    <3>1. call2.i > Len(lengths) => call2.i = Len(lengths) + 1
      BY <1>2
    <3> QED BY <1>1, <1>2, <1>3, <3>1 DEF Over, End
  <2>2. /\ rw.from + rw.buf + rw.buf_size = call2.from + call2.buf + call2.buf_size
        /\ End(lengths) \in Nat
    <3>1. Len(lengths) + 1 \in 1 .. Len(lengths) + 1
      BY <1>2
    <3>2. End(lengths) \in Nat
      BY <3>1, FileStartProperties DEF End
    <3>3. /\ call2.buf + call2.buf_size = rw.buf + rw.buf_size /\ call2.from = rw.from
          /\ rw.from \in Nat /\ rw.buf \in Nat /\ rw.buf_size \in Nat
          /\ call2.buf \in Nat /\ call2.buf_size \in Nat
      BY <1>1, <1>2
    <3>4. rw.from + rw.buf + rw.buf_size = call2.from + call2.buf + call2.buf_size
      <4> DEFINE a == rw.from
                 b == rw.buf
                 c == rw.buf_size
                 d == call2.buf
                 e == call2.buf_size
      <4>1. a \in Nat /\ b \in Nat /\ c \in Nat /\ d \in Nat /\ e \in Nat
            /\ d + e = b + c /\ call2.from = a
        BY <3>3
      <4> HIDE DEF a, b, c, d, e
      <4>2. a + b + c = a + d + e
        BY <4>1
      <4> QED BY <4>1, <4>2 DEF a, b, c, d, e
    <3> QED BY <3>2, <3>4
  <2> DEFINE first == call2.from
             top == call2.from + call2.buf
             size == call2.buf_size
             end == End(lengths)
  <2>3. /\ first \in Nat /\ top \in Nat /\ size \in Nat
        /\ g \in first .. top + size - 1
    <3> DEFINE from == rw.from
               sum == rw.from + rw.buf + rw.buf_size
    <3>1. from \in Nat /\ sum \in Nat /\ g \in from .. sum - 1
      <4>1. rw.from \in Nat /\ rw.buf \in Nat /\ rw.buf_size \in Nat
        BY <1>2, Zenon
      <4>2. sum \in Nat
        BY <4>1
      <4>3. g \in from .. sum - 1
        BY <4>1
      <4> QED BY <4>1, <4>2, <4>3, Zenon
    <3>2. first \in Nat /\ top \in Nat /\ size \in Nat
      <4>1. call2.from \in Nat /\ call2.buf \in Nat /\ call2.buf_size \in Nat
        BY <1>2, Zenon
      <4> QED BY <4>1
    <3>3. first = from
      BY <1>1
    <3>4. sum = top + size
      BY <2>2
    <3> HIDE DEF first, top, size, from, sum
    <3> QED BY <3>1, <3>2, <3>3, <3>4
  <2>4. (size = 0 \/ end <= top) /\ end \in Nat /\ g < end
    BY <1>3, <2>1, <2>2, Zenon
  <2> HIDE DEF first, top, size, end
  <2>5. g \in first .. top - 1
    BY <2>3, <2>4
  <2> USE DEF first, top
  <2> QED BY <1>2, <2>5
<1> QED BY <1>1, <1>3

-----------------------------------------------------------------------------
(***************************************************************************)
(* Reading a piece                                                         *)
(***************************************************************************)

\* A byte is in its place in the file that it belongs to and in no other.
LEMMA PlaceUnique ==
  ASSUME NEW lengths \in Seq(Nat), NEW dsk \in Disk(lengths), NEW i \in 1 .. Len(lengths),
         NEW g \in Int, InPlace(lengths, dsk, g),
         FileStart(lengths, i) <= g, g < FileStart(lengths, i) + lengths[i]
  PROVE  /\ g - FileStart(lengths, i) + 1 \in 1 .. Len(dsk[i].bytes)
         /\ dsk[i].bytes[g - FileStart(lengths, i) + 1] = g
<1>1. PICK f \in 1 .. Len(lengths) :
        /\ g - FileStart(lengths, f) \in 0 .. lengths[f] - 1
        /\ g - FileStart(lengths, f) < Len(dsk[f].bytes)
        /\ dsk[f].bytes[g - FileStart(lengths, f) + 1] = g
  BY DEF InPlace
<1>2. /\ f \in Nat /\ i \in Nat /\ FileStart(lengths, f) \in Nat /\ FileStart(lengths, i) \in Nat
      /\ lengths[f] \in Nat /\ lengths[i] \in Nat /\ Len(dsk[f].bytes) \in Nat
  <2>1. f \in 1 .. Len(lengths) + 1 /\ i \in 1 .. Len(lengths) + 1
    OBVIOUS
  <2>2. Len(dsk[f].bytes) \in Nat
    <3>1. dsk[f].bytes \in Seq(Int)
      BY DEF Disk
    <3> QED BY <3>1
  <2>3. FileStart(lengths, f) \in Nat /\ FileStart(lengths, i) \in Nat
    BY <2>1, FileStartProperties
  <2>4. f \in Nat /\ i \in Nat /\ lengths[f] \in Nat /\ lengths[i] \in Nat
    OBVIOUS
  <2> QED BY <2>2, <2>3, <2>4
<1> DEFINE a == FileStart(lengths, f)
           c == FileStart(lengths, i)
<1>3. ~ (f < i)
  <2>1. ASSUME f < i PROVE a + lengths[f] <= c
    <3>1. i \in f + 1 .. Len(lengths) + 1
      BY <1>2, <2>1
    <3> QED BY <3>1, FilesInOrder
  <2> HIDE DEF a, c
  <2>2. PICK x \in Nat, y \in Nat, n \in Nat :
          x = FileStart(lengths, f) /\ y = FileStart(lengths, i) /\ n = lengths[f]
    BY ONLY <1>2, Zenon
  <2>3. ~ (x + n <= y)
    <3>1. g - x \in 0 .. n - 1 /\ y <= g
      BY ONLY <1>1, <2>2, FileStart(lengths, i) <= g
    <3> QED BY ONLY <3>1, g \in Int, x \in Nat, y \in Nat, n \in Nat
  <2> QED BY <2>1, <2>2, <2>3 DEF a, c
<1>4. ~ (i < f)
  <2>1. ASSUME i < f PROVE c + lengths[i] <= a
    <3>1. f \in i + 1 .. Len(lengths) + 1
      BY <1>2, <2>1
    <3> QED BY <3>1, FilesInOrder
  <2> HIDE DEF a, c
  <2>2. PICK x \in Nat, y \in Nat, n \in Nat, k \in Nat :
          /\ x = FileStart(lengths, f) /\ y = FileStart(lengths, i)
          /\ n = lengths[i] /\ k = lengths[f]
    BY ONLY <1>2, Zenon
  <2>3. ~ (y + n <= x)
    <3>1. g - x \in 0 .. k - 1 /\ g < y + n
      BY ONLY <1>1, <2>2, g < FileStart(lengths, i) + lengths[i]
    <3> QED BY ONLY <3>1, g \in Int, x \in Nat, y \in Nat, n \in Nat, k \in Nat
  <2> QED BY <2>1, <2>2, <2>3 DEF a, c
<1>5. f = i
  BY <1>2, <1>3, <1>4
<1>6. g - FileStart(lengths, f) + 1 \in 1 .. Len(dsk[f].bytes)
  <2> DEFINE d == g - FileStart(lengths, f)
             here == lengths[f]
             len == Len(dsk[f].bytes)
  <2>1. d \in 0 .. here - 1 /\ d < len /\ here \in Nat /\ len \in Nat
    BY <1>1, <1>2, Zenon
  <2> HIDE DEF d, here, len
  <2>2. d + 1 \in 1 .. len
    BY <2>1
  <2> QED BY <2>2 DEF d, len
<1> QED BY <1>1, <1>5, <1>6, Zenon

\* The piece is on disk, and a call that reads has got what it has used of the buffer.
ReadInv(lengths, rw, dsk) ==
  /\ CallOK(lengths, rw) /\ dsk \in Disk(lengths)
  /\ rw.from + rw.buf + rw.buf_size <= End(lengths)
  /\ \A g \in rw.from .. rw.from + rw.buf + rw.buf_size - 1 : InPlace(lengths, dsk, g)
  /\ rw.got = [k \in 1 .. rw.buf |-> rw.from + k - 1]

\* If a call returns with the next turn, then with the piece as it was written.
ReadAsWritten(rw, rw2) ==
  rw2.result = "done" => rw2.got = [k \in 1 .. rw.buf + rw.buf_size |-> rw.from + k - 1]

\* A piece that is on disk is read as it was written, unless the file system refuses:
\* its shares come from the right places of the right files, in order.
THEOREM ReadsWhatIsThere ==
  ASSUME NEW lengths \in Seq(Nat), NEW rw, NEW dsk, ReadInv(lengths, rw, dsk),
         ~ rw.is_write, NEW call2, NEW disk2, NEW may_fail \in BOOLEAN,
         RwStep(lengths, rw, dsk, call2, disk2, may_fail)
  PROVE  /\ disk2 = dsk
         /\ ReadInv(lengths, call2, dsk)
         /\ ReadAsWritten(rw, call2)
<1> DEFINE n == Share(lengths, rw)
           at == rw.from + rw.buf
           start == FileStart(lengths, rw.i)
           bytes == dsk[rw.i].bytes
           part == SubSeq(bytes, at - start + 1, at - start + n)
<1>1. /\ CallOK(lengths, rw) /\ dsk \in Disk(lengths) /\ rw \in RwCall
      /\ at + rw.buf_size <= End(lengths)
      /\ \A g \in rw.from .. at + rw.buf_size - 1 : InPlace(lengths, dsk, g)
      /\ rw.got = [k \in 1 .. rw.buf |-> rw.from + k - 1]
      /\ rw.from \in Nat /\ rw.buf \in Nat /\ rw.buf_size \in Nat
      /\ rw.result = "running"
  BY DEF ReadInv, CallOK, RwCall, RwStep
<1>2. ASSUME NEW result \in {"done", "failed"}, call2 = [rw EXCEPT !.result = result]
      PROVE  /\ ReadInv(lengths, call2, dsk)
             /\ call2.got = rw.got /\ call2.result = result
  BY <1>1, <1>2 DEF ReadInv, CallOK, RwCall
<1>3. CASE Over(lengths, rw)
  <2>1. call2 = [rw EXCEPT !.result = "done"] /\ disk2 = dsk
    BY <1>3 DEF RwStep, Done
  <2>2. rw.buf_size = 0
    <3>1. /\ rw.i \in 1 .. Len(lengths) + 1 /\ Len(lengths) \in Nat
          /\ rw.buf_size = 0 \/ start <= at
      BY <1>1 DEF CallOK
    <3>2. Len(lengths) + 1 \in 1 .. Len(lengths) + 1
      BY <3>1
    <3>3. End(lengths) \in Nat
      BY <3>2, FileStartProperties DEF End
    <3>4. rw.i > Len(lengths) => start = End(lengths)
      <4>1. rw.i > Len(lengths) => rw.i = Len(lengths) + 1
        BY <3>1
      <4> QED BY <4>1 DEF End
    <3> HIDE DEF start
    <3> QED BY <1>1, <1>3, <3>1, <3>3, <3>4 DEF Over
  <2>3. rw.buf + rw.buf_size = rw.buf
    BY <1>1, <2>2
  <2> QED BY <1>1, <1>2, <2>1, <2>3 DEF ReadAsWritten
<1>4. ASSUME NEW m \in 0 .. rw.buf_size, NEW got \in Seq(Int), CallOK(lengths, call2),
             WentOn(rw, call2, m, got), Len(got) = m,
             \A k \in 1 .. m : got[k] = at + k - 1
      PROVE  ReadInv(lengths, call2, dsk) /\ call2.result = "running"
  <2>1. /\ call2.from = rw.from /\ call2.buf = rw.buf + m
        /\ call2.buf_size = rw.buf_size - m /\ call2.got = rw.got \o got
        /\ call2.result = "running"
    BY <1>1, <1>4 DEF WentOn
  <2>2. call2.from + call2.buf + call2.buf_size = at + rw.buf_size
    <3> DEFINE a == rw.from
               b == rw.buf
               c == rw.buf_size
    <3>1. m \in 0 .. c /\ a \in Nat /\ b \in Nat /\ c \in Nat
      BY <1>1
    <3> HIDE DEF a, b, c
    <3>2. a + (b + m) + (c - m) = a + b + c
      BY <3>1
    <3> QED BY <2>1, <3>2 DEF a, b, c
  <2>3. rw.got \in Seq(Int) /\ Len(rw.got) = rw.buf
    <3>1. rw.got \in Seq(Int)
      BY <1>1 DEF RwCall
    <3> QED BY <1>1, <3>1, LenProperties
  <2>4. /\ Len(rw.got \o got) = rw.buf + m
        /\ \A k \in 1 .. rw.buf + m :
             (rw.got \o got)[k] = IF k <= rw.buf THEN rw.got[k] ELSE got[k - rw.buf]
        /\ rw.got \o got \in Seq(Int)
    <3> DEFINE g == rw.got
    <3>1. g \in Seq(Int) /\ got \in Seq(Int) /\ Len(g) = rw.buf /\ Len(got) = m
      BY <1>4, <2>3
    <3> HIDE DEF g
    <3>2. /\ g \o got \in Seq(Int) /\ Len(g \o got) = Len(g) + Len(got)
          /\ \A k \in 1 .. Len(g) + Len(got) :
               (g \o got)[k] = IF k <= Len(g) THEN g[k] ELSE got[k - Len(g)]
      BY <3>1, ConcatProperties
    <3>3. /\ Len(g \o got) = rw.buf + m
          /\ \A k \in 1 .. rw.buf + m :
               (g \o got)[k] = IF k <= rw.buf THEN g[k] ELSE got[k - rw.buf]
          /\ g \o got \in Seq(Int)
      BY <3>1, <3>2
    <3> QED BY <3>3 DEF g
  <2> DEFINE all == rw.got \o got
  <2>5. ASSUME NEW k \in 1 .. rw.buf + m PROVE all[k] = rw.from + k - 1
    <3>1. CASE k <= rw.buf
      <4>1. k \in 1 .. rw.buf
        BY <1>1, <3>1
      <4> QED BY <1>1, <2>4, <3>1, <4>1
    <3>2. CASE ~ (k <= rw.buf)
      <4>1. k - rw.buf \in 1 .. m /\ at + (k - rw.buf) - 1 = rw.from + k - 1
        <5> DEFINE a == rw.from
                   b == rw.buf
        <5>1. a \in Nat /\ b \in Nat /\ m \in Nat /\ k \in 1 .. b + m /\ ~ (k <= b)
          BY <1>1, <3>2
        <5> HIDE DEF a, b
        <5>2. k - b \in 1 .. m /\ (a + b) + (k - b) - 1 = a + k - 1
          BY <5>1
        <5> QED BY <5>2 DEF a, b
      <4>2. all[k] = got[k - rw.buf]
        BY <2>4, <3>2
      <4> HIDE DEF all
      <4>3. got[k - rw.buf] = at + (k - rw.buf) - 1
        BY <1>4, <4>1
      <4> QED BY <4>1, <4>2, <4>3
    <3> QED BY <3>1, <3>2
  <2>6. Len(all) = rw.buf + m /\ all \in Seq(Int)
    BY <2>4
  <2> HIDE DEF all
  <2>7. all = [k \in 1 .. rw.buf + m |-> rw.from + k - 1]
    <3>1. all = [k \in 1 .. Len(all) |-> all[k]]
      BY <2>6
    <3> QED BY <2>5, <2>6, <3>1
  <2>8. call2.got = [k \in 1 .. call2.buf |-> call2.from + k - 1]
    BY <2>1, <2>7 DEF all
  <2>9. /\ call2.from + call2.buf + call2.buf_size <= End(lengths)
        /\ \A g \in call2.from .. call2.from + call2.buf + call2.buf_size - 1 :
             InPlace(lengths, dsk, g)
    <3>1. call2.from + call2.buf + call2.buf_size - 1 = at + rw.buf_size - 1
      <4> DEFINE a == rw.from
                 b == rw.buf
                 c == rw.buf_size
      <4>1. m \in Nat /\ a \in Nat /\ b \in Nat /\ c \in Nat
        BY <1>1
      <4> HIDE DEF a, b, c
      <4>2. a + (b + m) + (c - m) - 1 = a + b + c - 1
        BY <4>1
      <4> QED BY <2>1, <4>2 DEF a, b, c
    <3> HIDE DEF at
    <3> QED BY <1>1, <2>1, <2>2, <3>1
  <2> QED BY <1>1, <1>4, <2>1, <2>8, <2>9 DEF ReadInv
<1>5. CASE ~ Over(lengths, rw) /\ ~ Touches(lengths, rw)
  <2>1. call2 = Moved(lengths, rw, 0, <<>>) /\ disk2 = dsk
    BY <1>5 DEF RwStep, Passed
  <2>2. <<>> \in Seq(Int) /\ 0 \in Nat /\ Len(<<>>) = 0 /\ 0 \in 0 .. rw.buf_size
    BY <1>1, EmptySeq
  <2>3. CallOK(lengths, call2) /\ WentOn(rw, call2, 0, <<>>)
    BY <1>1, <1>5, <2>1, <2>2, MovedOK, Zenon
  <2>4. \A k \in 1 .. 0 : <<>>[k] = at + k - 1
    OBVIOUS
  <2>5. ReadInv(lengths, call2, dsk) /\ call2.result = "running"
    BY <1>4, <2>2, <2>3, <2>4
  <2> QED BY <2>1, <2>5 DEF ReadAsWritten
<1>6. CASE ~ Over(lengths, rw) /\ Touches(lengths, rw)
  <2>1. /\ rw.i \in 1 .. Len(lengths) /\ start \in Nat /\ lengths[rw.i] \in Nat /\ at \in Nat
        /\ start <= at /\ n \in 1 .. rw.buf_size /\ n <= lengths[rw.i] - (at - start)
        /\ file_offset(rw) = at - start
    BY <1>1, <1>6, TurnProperties
  <2>2. bytes \in Seq(Int) /\ Len(bytes) \in Nat
    <3>1. bytes \in Seq(Int)
      BY <1>1, <2>1 DEF Disk
    <3> HIDE DEF bytes
    <3> QED BY <3>1
  <2>3. /\ n \in Nat /\ n >= 1 /\ n <= rw.buf_size /\ start + lengths[rw.i] >= at + n
        /\ rw.from <= at /\ rw.from \in Nat /\ rw.buf_size \in Nat
    <3>1. n \in Nat /\ n >= 1 /\ n <= rw.buf_size
      <4> HIDE DEF n
      <4> QED BY <1>1, <2>1
    <3>2. rw.from <= at
      BY <1>1
    <3>3. rw.from \in Nat /\ rw.buf_size \in Nat
      BY <1>1
    <3> DEFINE length == lengths[rw.i]
    <3>4. start \in Nat /\ length \in Nat /\ at \in Nat /\ n <= length - (at - start)
      BY <2>1
    <3> HIDE DEF n, at, start, length
    <3>5. start + length >= at + n
      BY <3>1, <3>4
    <3> QED BY <3>1, <3>2, <3>3, <3>5 DEF length
  <2>4. \/ call2 = Moved(lengths, rw, n, part) /\ disk2 = dsk
        \/ call2 = [rw EXCEPT !.result = "failed"] /\ disk2 = dsk
    BY <1>6, <2>1 DEF RwStep, Failed
  <2>5. CASE call2 = Moved(lengths, rw, n, part)
    <3> HIDE DEF n, at, bytes
    <3>1. ASSUME NEW g \in at .. at + n - 1
          PROVE  g - start + 1 \in 1 .. Len(bytes) /\ bytes[g - start + 1] = g
      <4> HIDE DEF start
      <4> DEFINE length == lengths[rw.i]
      <4> HIDE DEF length
      <4>1. g \in Int /\ at <= g /\ g <= at + n - 1
        BY <2>1, <2>3
      <4>2. start <= g /\ g < start + lengths[rw.i]
        <5>1. /\ start \in Nat /\ length \in Nat /\ at \in Nat /\ n \in Nat
              /\ start <= at /\ start + length >= at + n
          BY <2>1, <2>3 DEF length
        <5>2. start <= g /\ g < start + length
          BY <4>1, <5>1
        <5> QED BY <5>2 DEF length
      <4>3. g \in rw.from .. at + rw.buf_size - 1
        <5>1. \A a, b, c, k \in Nat : a <= b /\ k <= c /\ b <= g /\ g <= b + k - 1
                                      => g \in a .. b + c - 1
          BY <4>1
        <5>2. /\ rw.from \in Nat /\ at \in Nat /\ rw.buf_size \in Nat /\ n \in Nat
              /\ rw.from <= at /\ n <= rw.buf_size
          BY <2>1, <2>3
        <5> QED BY <4>1, <5>1, <5>2
      <4>4. InPlace(lengths, dsk, g)
        BY <1>1, <4>3
      <4> USE DEF start
      <4>5. /\ g - start + 1 \in 1 .. Len(dsk[rw.i].bytes)
            /\ dsk[rw.i].bytes[g - start + 1] = g
        <5> DEFINE i == rw.i
        <5>1. /\ i \in 1 .. Len(lengths) /\ g \in Int /\ InPlace(lengths, dsk, g)
              /\ FileStart(lengths, i) <= g /\ g < FileStart(lengths, i) + lengths[i]
              /\ dsk \in Disk(lengths)
          BY <1>1, <2>1, <4>1, <4>2, <4>4
        <5> HIDE DEF i
        <5>2. /\ g - FileStart(lengths, i) + 1 \in 1 .. Len(dsk[i].bytes)
              /\ dsk[i].bytes[g - FileStart(lengths, i) + 1] = g
          BY <5>1, PlaceUnique
        <5> QED BY <5>2 DEF i
      <4> QED BY <4>5 DEF bytes
    <3> HIDE DEF start
    <3> DEFINE d == at - start
    <3>2. d \in Nat /\ \A k \in 1 .. n : at + k - 1 \in at .. at + n - 1 /\ at + k - 1 - start + 1 = d + k
      BY <2>1, <2>3
    <3> HIDE DEF d
    <3>3. ASSUME NEW k \in 1 .. n PROVE d + k \in 1 .. Len(bytes) /\ bytes[d + k] = at + k - 1
      <4> DEFINE g == at + k - 1
      <4>1. g \in at .. at + n - 1 /\ g - start + 1 = d + k
        BY <3>2, <2>1, <2>3 DEF d
      <4> HIDE DEF g
      <4>2. g - start + 1 \in 1 .. Len(bytes) /\ bytes[g - start + 1] = g
        BY <3>1, <4>1
      <4>3. d + k \in 1 .. Len(bytes) /\ bytes[d + k] = g
        BY <4>1, <4>2
      <4> QED BY <4>3 DEF g
    <3>4. /\ part \in Seq(Int) /\ Len(part) = n
          /\ \A k \in 1 .. n : part[k] = bytes[d + k]
      <4> DEFINE a == d + 1
                 c == d + n
      <4>1. a \in Int /\ c \in Int /\ a <= c /\ c - a + 1 = n
            /\ \A k \in 1 .. n : a + k - 1 = d + k
        BY <2>3, <3>2
      <4>2. \A k \in a .. c : bytes[k] \in Int
        <5>0. d \in Nat /\ n \in Nat
          BY <2>3, <3>2
        <5>1. ASSUME NEW k \in a .. c PROVE k - d \in 1 .. n /\ d + (k - d) = k
          BY <5>0
        <5>2. ASSUME NEW k \in a .. c PROVE k \in 1 .. Len(bytes)
          <6> HIDE DEF a, c
          <6> QED BY <3>3, <5>1
        <5> HIDE DEF a, c
        <5> QED BY <2>2, <5>2, ElementOfSeq
      <4>3. part = SubSeq(bytes, a, c)
        BY DEF d
      <4> HIDE DEF a, c, part
      <4>4. /\ SubSeq(bytes, a, c) \in Seq(Int)
            /\ Len(SubSeq(bytes, a, c)) = IF a <= c THEN c - a + 1 ELSE 0
            /\ \A k \in 1 .. c - a + 1 : SubSeq(bytes, a, c)[k] = bytes[a + k - 1]
        BY <4>1, <4>2, SubSeqProperties
      <4> QED BY <4>1, <4>3, <4>4
    <3> HIDE DEF part
    <3>5. \A k \in 1 .. n : part[k] = at + k - 1
      BY <3>3, <3>4
    <3>6. CallOK(lengths, call2) /\ WentOn(rw, call2, n, part)
      <4>1. IF Touches(lengths, rw) THEN n = Share(lengths, rw) ELSE n = 0
        BY <1>6 DEF n
      <4> QED BY <1>1, <1>6, <2>3, <2>5, <3>4, <4>1, MovedOK, Zenon
    <3>7. n \in 0 .. rw.buf_size
      BY <2>3
    <3>8. ReadInv(lengths, call2, dsk) /\ call2.result = "running"
      BY <1>4, <3>4, <3>5, <3>6, <3>7
    <3> QED BY <2>4, <3>8 DEF ReadAsWritten
  <2>6. CASE call2 = [rw EXCEPT !.result = "failed"]
    BY <1>2, <2>4, <2>6 DEF ReadAsWritten
  <2> QED BY <2>4, <2>5, <2>6
<1> QED BY <1>3, <1>5, <1>6

-----------------------------------------------------------------------------
(***************************************************************************)
(* A call, whatever it does and whatever is on disk                        *)
(***************************************************************************)

\* The bytes that a read takes from a file are numbers.
LEMMA PartOfBytes ==
  ASSUME NEW bytes \in Seq(Int), NEW offset \in Nat, NEW n \in Nat \ {0},
         offset + n <= Len(bytes)
  PROVE  SubSeq(bytes, offset + 1, offset + n) \in Seq(Int)
<1>1. Len(bytes) \in Nat
  OBVIOUS
<1>2. \A k \in offset + 1 .. offset + n : k \in 1 .. Len(bytes)
  BY <1>1
<1>3. \A k \in offset + 1 .. offset + n : bytes[k] \in Int
  BY <1>2, ElementOfSeq
<1>4. offset + 1 \in Int /\ offset + n \in Int
  OBVIOUS
<1> DEFINE a == offset + 1
           b == offset + n
<1> HIDE DEF a, b
<1>5. SubSeq(bytes, a, b) \in Seq(Int)
  <2>1. a \in Int /\ b \in Int /\ \A k \in a .. b : bytes[k] \in Int
    BY <1>3, <1>4 DEF a, b
  <2> QED BY <2>1, SubSeqProperties
<1> QED BY <1>5 DEF a, b

\* It is a call for the same piece, with the same buffer.
SameCall(rw, rw2) ==
  /\ rw2.index = rw.index /\ rw2.from = rw.from /\ rw2.is_write = rw.is_write
  /\ rw2.buf + rw2.buf_size = rw.buf + rw.buf_size

LEMMA CallStays ==
  ASSUME NEW lengths \in Seq(Nat), NEW rw, CallOK(lengths, rw), NEW dsk \in Disk(lengths),
         NEW call2, NEW disk2, NEW may_fail \in BOOLEAN,
         RwStep(lengths, rw, dsk, call2, disk2, may_fail)
  PROVE  CallOK(lengths, call2) /\ SameCall(rw, call2)
<1> DEFINE n == Share(lengths, rw)
           offset == file_offset(rw)
           bytes == dsk[rw.i].bytes
           part == SubSeq(bytes, offset + 1, offset + n)
<1>1. /\ rw \in RwCall /\ rw.buf \in Nat /\ rw.buf_size \in Nat
  BY DEF CallOK, RwCall
<1>2. CASE call2 = Done(rw) \/ call2 = Failed(rw)
  BY <1>1, <1>2 DEF Done, Failed, CallOK, RwCall, SameCall
<1>3. ASSUME ~ Over(lengths, rw), NEW m \in 0 .. rw.buf_size, NEW got \in Seq(Int),
             IF Touches(lengths, rw) THEN m = n ELSE m = 0,
             call2 = Moved(lengths, rw, m, got)
      PROVE  CallOK(lengths, call2) /\ SameCall(rw, call2)
  <2>1. m \in Nat /\ m <= rw.buf_size
    BY <1>1, <1>3
  <2> HIDE DEF n
  <2>2. CallOK(lengths, call2) /\ WentOn(rw, call2, m, got)
    <3> USE DEF n
    <3> QED BY <1>3, <2>1, MovedOK, Zenon
  <2> DEFINE b == rw.buf
             c == rw.buf_size
  <2>3. b \in Nat /\ c \in Nat
    BY <1>1
  <2> HIDE DEF b, c
  <2>4. (b + m) + (c - m) = b + c
    BY <2>1, <2>3
  <2> QED BY <2>2, <2>4 DEF WentOn, SameCall, b, c
<1>4. CASE ~ Over(lengths, rw) /\ ~ Touches(lengths, rw)
  <2>1. call2 = Moved(lengths, rw, 0, <<>>)
    BY <1>4 DEF RwStep, Passed
  <2>2. <<>> \in Seq(Int) /\ 0 \in 0 .. rw.buf_size
    BY <1>1
  <2> QED BY <1>3, <1>4, <2>1, <2>2
<1>5. CASE ~ Over(lengths, rw) /\ Touches(lengths, rw) /\ call2 # Failed(rw)
  <2>1. /\ n \in 1 .. rw.buf_size /\ offset \in Nat /\ rw.i \in 1 .. Len(lengths)
    <3> DEFINE at == rw.from + rw.buf
               start == FileStart(lengths, rw.i)
    <3>1. /\ offset = at - start /\ n \in 1 .. rw.buf_size /\ rw.i \in 1 .. Len(lengths)
          /\ start <= at /\ start \in Nat /\ at \in Nat
      BY <1>5, TurnProperties
    <3> HIDE DEF n, offset, at, start
    <3> QED BY <3>1
  <2>2. bytes \in Seq(Int)
    BY <2>1 DEF Disk
  <2>3. \/ call2 = Moved(lengths, rw, n, <<>>)
        \/ offset + n <= Len(bytes) /\ call2 = Moved(lengths, rw, n, part)
    BY <1>5 DEF RwStep
  <2> HIDE DEF offset, bytes
  <2>4. n \in Nat \ {0} /\ n \in 0 .. rw.buf_size /\ <<>> \in Seq(Int)
    <3> HIDE DEF n
    <3> QED BY <1>1, <2>1
  <2>5. CASE call2 = Moved(lengths, rw, n, <<>>)
    BY <1>3, <1>5, <2>4, <2>5
  <2>6. CASE offset + n <= Len(bytes) /\ call2 = Moved(lengths, rw, n, part)
    <3>1. part \in Seq(Int)
      <4> HIDE DEF n
      <4> QED BY <2>1, <2>2, <2>4, <2>6, PartOfBytes
    <3> HIDE DEF part
    <3> QED BY <1>3, <1>5, <2>4, <2>6, <3>1
  <2> QED BY <2>3, <2>5, <2>6
<1>6. CASE Over(lengths, rw)
  BY <1>2, <1>6 DEF RwStep
<1> QED BY <1>2, <1>4, <1>5, <1>6

-----------------------------------------------------------------------------
(***************************************************************************)
(* Pieces in the files                                                     *)
(***************************************************************************)

\* A piece of a torrent that is as long as its files lies in them.
LEMMA PieceLies ==
  ASSUME NEW l \in Layouts, Covered(l), NEW i \in Pieces(l)
  PROVE  /\ i \in Nat /\ i * l.piece_length \in Nat /\ PieceSize(l, i) \in Nat
         /\ i * l.piece_length + PieceSize(l, i) <= l.length
         /\ l.length < Width /\ End(l.files) = l.length /\ l.files \in Seq(Nat)
<1> DEFINE p == l.piece_length
           c == l.piece_count
           m == l.length
<1>1. p \in Nat /\ c \in Nat \ {0} /\ m \in Nat /\ m < Width /\ l.files \in Seq(Nat)
  BY PieceStoreAssumption
<1>2. i \in 0 .. c - 1
  BY DEF Pieces, Layout!Pieces
<1>3. p * (c - 1) <= m /\ End(l.files) = m
  BY DEF Covered, End
<1>4. PieceSize(l, i) = IF i + 1 = c THEN m - i * p ELSE p
  BY DEF PieceSize, Layout!calc_piece_length
<1> HIDE DEF p, c, m
<1>5. \A x, y, z \in Nat : x <= y => x * z <= y * z
  <2> TAKE x, y, z \in Nat
  <2> HAVE x <= y
  <2>1. PICK d \in Nat : d = y - x
    OBVIOUS
  <2>2. y * z = x * z + d * z /\ d * z \in Nat /\ x * z \in Nat
    <3>1. y = x + d
      BY <2>1
    <3>2. (x + d) * z = x * z + d * z
      OBVIOUS
    <3> QED BY <3>1, <3>2
  <2> QED BY <2>2
<1>6. i \in Nat /\ i * p \in Nat
  BY <1>1, <1>2
<1>7. CASE i + 1 = c
  <2>1. c - 1 = i /\ p * (c - 1) = i * p
    BY <1>1, <1>6, <1>7
  <2>2. PieceSize(l, i) = m - i * p /\ i * p <= m
    BY <1>3, <1>4, <1>7, <2>1
  <2>3. PieceSize(l, i) \in Nat /\ i * p + PieceSize(l, i) = m
    BY <1>1, <1>6, <2>2
  <2> QED BY <1>1, <1>3, <1>6, <2>3 DEF p, m
<1>8. CASE i + 1 # c
  <2>1. i + 1 \in Nat /\ c - 1 \in Nat /\ i + 1 <= c - 1
    BY <1>1, <1>2, <1>8
  <2>2. (i + 1) * p <= (c - 1) * p
    BY <1>1, <1>5, <2>1
  <2>3. (i + 1) * p = i * p + p /\ (c - 1) * p = p * (c - 1) /\ (c - 1) * p \in Nat
    BY <1>1, <2>1, <1>6
  <2>4. i * p + p <= m
    BY <1>1, <1>3, <1>6, <2>2, <2>3
  <2> QED BY <1>1, <1>3, <1>4, <1>6, <1>8, <2>4 DEF p, m
<1> QED BY <1>7, <1>8

\* A file that is written anew takes no byte of another from its place.
LEMMA InitKeepsOthers ==
  ASSUME NEW lengths \in Seq(Nat), NEW dsk \in Disk(lengths), NEW f \in 1 .. Len(lengths),
         NEW n \in Nat
  PROVE  LET disk2 == [dsk EXCEPT ![f] = allocate_file(n)]
         IN  /\ disk2 \in Disk(lengths)
             /\ \A g \in Int :
                  /\ InPlace(lengths, dsk, g)
                  /\ g \notin FileStart(lengths, f) .. FileStart(lengths, f) + lengths[f] - 1
                  => InPlace(lengths, disk2, g)
<1> DEFINE disk2 == [dsk EXCEPT ![f] = allocate_file(n)]
           zeros == [k \in 1 .. n |-> Zero]
<1>1. zeros \in Seq(Int)
  <2>1. Zero \in Int
    BY DEF Zero
  <2>2. zeros \in [1 .. n -> Int]
    BY <2>1
  <2> HIDE DEF zeros
  <2> QED BY <2>2, SeqDef
<1>2. disk2 = [dsk EXCEPT ![f] = [exists |-> TRUE, bytes |-> zeros]]
  BY DEF allocate_file, File
<1> HIDE DEF zeros
<1>3. disk2 \in Disk(lengths) /\ \A h \in 1 .. Len(lengths) : h # f => disk2[h] = dsk[h]
  <2> DEFINE file == [exists |-> TRUE, bytes |-> zeros]
  <2>1. file \in [exists : BOOLEAN, bytes : Seq(Int)]
    BY <1>1
  <2>2. disk2 = [dsk EXCEPT ![f] = file]
    BY <1>2
  <2> HIDE DEF file, disk2
  <2> QED BY <2>1, <2>2 DEF Disk
<1> HIDE DEF disk2
<1>4. ASSUME NEW g \in Int, InPlace(lengths, dsk, g),
             g \notin FileStart(lengths, f) .. FileStart(lengths, f) + lengths[f] - 1
      PROVE  InPlace(lengths, disk2, g)
  <2>1. PICK h \in 1 .. Len(lengths) :
          /\ g - FileStart(lengths, h) \in 0 .. lengths[h] - 1
          /\ g - FileStart(lengths, h) < Len(dsk[h].bytes)
          /\ dsk[h].bytes[g - FileStart(lengths, h) + 1] = g
    BY <1>4 DEF InPlace
  <2>2. h # f
    <3> DEFINE s == FileStart(lengths, f)
               m == lengths[f]
    <3>1. s \in Nat /\ m \in Nat
      <4>1. f \in 1 .. Len(lengths) + 1
        OBVIOUS
      <4> QED BY <4>1, FileStartProperties
    <3> HIDE DEF s, m
    <3>2. g - s \notin 0 .. m - 1
      BY <1>4, <3>1 DEF s, m
    <3> QED BY <2>1, <3>2 DEF s, m
  <2>3. disk2[h] = dsk[h]
    BY <1>3, <2>2
  <2> QED BY <2>1, <2>3 DEF InPlace
<1> QED BY <1>3, <1>4 DEF disk2

-----------------------------------------------------------------------------
(***************************************************************************)
(* The invariant of PieceStore                                             *)
(***************************************************************************)

Bitfields(l) == [Pieces(l) -> {0, 1}]

\* What is known before there are files, and without what a torrent's lengths are.
StoreTypeOK ==
  /\ mode \in {"off", "init", "run", "save"}
  /\ disk # <<>> => layout \in Layouts /\ DOMAIN disk = 1 .. Len(layout.files)
  /\ Loaded => disk # <<>> /\ bitfield \in Bitfields(layout)
  /\ ~ Loaded => bitfield = <<>>
  /\ kept # NothingKept => disk # <<>> /\ kept \in Bitfields(layout)
  /\ mode = "init" => init_at \in 1 .. Len(layout.files)
  /\ mode # "run" => call = NoCall

\* The call is one for a piece of this torrent.
CallNames ==
  /\ CallOK(layout.files, call)
  /\ call.index \in Pieces(layout)
  /\ call.from = call.index * layout.piece_length
  /\ call.buf + call.buf_size = PieceSize(layout, call.index)

\* A write has put into its place what it has used of the buffer.
WriteSound ==
  call.is_write =>
    /\ WriteInv(layout.files, call, disk)
    /\ call.result = "done" => OnDisk(call.index)

\* A read finds the piece on disk, and has got what was written, unless it was wiped.
ReadSound ==
  ~ call.is_write /\ call.index \notin wiped =>
    /\ ReadInv(layout.files, call, disk)
    /\ call.result = "done" => Verifies

\* This is so of the bitfield on disk as of the one in memory: either may be the one
\* of the next start.
ClaimedOnDisk == \A i \in Claimed \ wiped : OnDisk(i)

Sound ==
  /\ disk \in Disk(layout.files)
  /\ call # NoCall => CallNames /\ WriteSound /\ ReadSound
  /\ ClaimedOnDisk

StoreInv == StoreTypeOK /\ (disk # <<>> /\ Covered(layout) => Sound)

-----------------------------------------------------------------------------
(***************************************************************************)
(* Types                                                                   *)
(***************************************************************************)

LEMMA LayoutTyped ==
  ASSUME NEW l \in Layouts
  PROVE  /\ l.files \in Seq(Nat) /\ l.files # <<>> /\ Len(l.files) \in Nat \ {0}
         /\ DOMAIN l.files = 1 .. Len(l.files) /\ 1 \in 1 .. Len(l.files)
         /\ NoPieces(l) \in Bitfields(l) /\ Bits(NoPieces(l)) = {}
         /\ l.length \in Nat /\ l.length < Width
<1>1. l.files \in Seq(Nat) /\ l.files # <<>> /\ l.length \in Nat /\ l.length < Width
  BY PieceStoreAssumption
<1>2. /\ Len(l.files) \in Nat \ {0} /\ DOMAIN l.files = 1 .. Len(l.files)
      /\ 1 \in 1 .. Len(l.files)
  <2> DEFINE s == l.files
  <2>1. s \in Seq(Nat) /\ s # <<>>
    BY <1>1
  <2> HIDE DEF s
  <2>2. Len(s) \in Nat \ {0} /\ DOMAIN s = 1 .. Len(s) /\ 1 \in 1 .. Len(s)
    BY <2>1, EmptySeq
  <2> QED BY <2>2 DEF s
<1>3. NoPieces(l) \in Bitfields(l) /\ Bits(NoPieces(l)) = {}
  BY DEF NoPieces, Bitfields, Bits
<1> QED BY <1>1, <1>2, <1>3

LEMMA StoreInvInit == StoreInit => StoreInv
<1>1. StoreInit => StoreTypeOK
  BY DEF StoreInit, StoreTypeOK, Loaded
<1> QED BY <1>1 DEF StoreInit, StoreInv

\* A start has the torrent of the starts before, and what was kept, or nothing.
LEMMA BeginsSame ==
  ASSUME StoreTypeOK, BeginAny
  PROVE  /\ layout' \in Layouts /\ bitfield' \in Bitfields(layout')
         /\ bitfield' = kept \/ Bits(bitfield') = {}
         /\ disk # <<>> => layout' = layout /\ disk' = disk
         /\ disk = <<>> => /\ kept = NothingKept
                           /\ disk' = [f \in 1 .. Len(layout'.files) |-> NoFile]
         /\ mode' \in {"init", "run"} /\ init_at' = 1
         /\ UNCHANGED <<kept, call, wiped>> /\ call = NoCall
<1>1. mode = "off" /\ call = NoCall
  BY DEF BeginAny, StoreTypeOK
<1>2. PICK l \in Layouts :
        /\ disk # <<>> => l = layout
        /\ \/ Begin(l, NoPieces(l))
           \/ kept # NothingKept /\ Begin(l, kept)
  BY DEF BeginAny
<1>3. PICK bits \in {NoPieces(l), kept} :
        Begin(l, bits) /\ (bits = NoPieces(l) \/ (bits = kept /\ kept # NothingKept))
  BY <1>2
<1>4. /\ mode' \in {"init", "run"} /\ layout' = l /\ bitfield' = bits /\ init_at' = 1
      /\ disk' = IF disk = <<>> THEN [f \in DOMAIN l.files |-> NoFile] ELSE disk
      /\ UNCHANGED <<kept, call, wiped>>
  BY <1>3 DEF Begin
<1>5. bits \in Bitfields(l) /\ (bits = kept \/ Bits(bits) = {})
  BY <1>2, <1>3, LayoutTyped DEF StoreTypeOK
<1>6. disk = <<>> => kept = NothingKept
  BY DEF StoreTypeOK
<1>7. DOMAIN l.files = 1 .. Len(l.files)
  BY LayoutTyped
<1> QED BY <1>1, <1>2, <1>4, <1>5, <1>6, <1>7

LEMMA TypeStep ==
  ASSUME StoreTypeOK, [StoreNext]_storeVars
  PROVE  StoreTypeOK'
<1> USE DEF Loaded
<1>1. CASE BeginAny
  <2>1. /\ layout' \in Layouts /\ bitfield' \in Bitfields(layout')
        /\ disk # <<>> => layout' = layout /\ disk' = disk
        /\ disk = <<>> => /\ kept = NothingKept
                          /\ disk' = [f \in 1 .. Len(layout'.files) |-> NoFile]
        /\ mode' \in {"init", "run"} /\ init_at' = 1
        /\ UNCHANGED <<kept, call, wiped>> /\ call = NoCall
    BY <1>1, BeginsSame
  <2>2. 1 \in 1 .. Len(layout'.files)
    BY <2>1, LayoutTyped
  <2>3. disk' # <<>> /\ DOMAIN disk' = 1 .. Len(layout'.files)
    <3>1. CASE disk = <<>>
      <4>1. DOMAIN disk' = 1 .. Len(layout'.files)
        BY <2>1, <3>1
      <4> QED BY <2>2, <4>1
    <3>2. CASE disk # <<>>
      BY <2>1, <3>2 DEF StoreTypeOK
    <3> QED BY <3>1, <3>2
  <2>4. kept' # NothingKept => kept' \in Bitfields(layout')
    BY <2>1 DEF StoreTypeOK
  <2> QED BY <2>1, <2>2, <2>3, <2>4 DEF StoreTypeOK
<1>2. ASSUME mode = "init", UNCHANGED <<layout, kept>>,
             DOMAIN disk' = DOMAIN disk, disk' = disk \/ disk' # <<>>,
             \/ UNCHANGED bitfield /\ UNCHANGED call
                /\ \/ mode' = "run"
                   \/ mode' = "init" /\ init_at' \in 1 .. Len(layout.files)
             \/ Stop
      PROVE  StoreTypeOK'
  BY <1>2 DEF StoreTypeOK, Stop
<1>3. ASSUME mode = "init", NEW n, disk' = [disk EXCEPT ![init_at] = allocate_file(n)]
      PROVE  DOMAIN disk' = DOMAIN disk /\ disk' # <<>>
  <2>1. DOMAIN disk' = DOMAIN disk /\ init_at \in DOMAIN disk
    BY <1>3 DEF StoreTypeOK
  <2> QED BY <2>1
<1>4. CASE InitFile
  <2>1. /\ mode = "init" /\ init_at <= Len(layout.files) /\ init_at' = init_at + 1
        /\ disk' = [disk EXCEPT ![init_at] = allocate_file(layout.files[init_at])]
        /\ mode' = IF init_at' > Len(layout.files) THEN "run" ELSE "init"
        /\ UNCHANGED <<kept, layout, bitfield, call>>
    BY <1>4 DEF InitFile
  <2>2. layout \in Layouts /\ init_at \in 1 .. Len(layout.files)
    BY <2>1 DEF StoreTypeOK
  <2>3. Len(layout.files) \in Nat
    BY <2>2, LayoutTyped
  <2>4. init_at' > Len(layout.files) \/ init_at' \in 1 .. Len(layout.files)
    BY <2>1, <2>2, <2>3
  <2>5. DOMAIN disk' = DOMAIN disk /\ disk' # <<>>
    BY <1>3, <2>1
  <2> QED BY <1>2, <2>1, <2>4, <2>5
<1>5. CASE InitFails
  <2>1. mode = "init" /\ Stop /\ UNCHANGED <<layout, kept>>
    BY <1>5 DEF InitFails, Stop
  <2>2. DOMAIN disk' = DOMAIN disk /\ (disk' = disk \/ disk' # <<>>)
    BY <1>3, <1>5, <2>1 DEF InitFails
  <2> QED BY <1>2, <2>1, <2>2
<1>6. CASE \E i \in Pieces(layout) : mode = "run" /\ (BeginWrite(i) \/ BeginRead(i))
  <2>1. mode = "run" /\ UNCHANGED <<disk, kept, mode, layout, bitfield, init_at, wiped>>
    BY <1>6 DEF BeginWrite, BeginRead, BeginCall
  <2> QED BY <2>1 DEF StoreTypeOK
<1>7. CASE RwTurn
  <2>1. /\ mode = "run" /\ UNCHANGED <<kept, mode, layout, bitfield, init_at, wiped>>
        /\ DOMAIN disk' = DOMAIN disk
    <3>1. /\ mode = "run" /\ UNCHANGED <<kept, mode, layout, bitfield, init_at, wiped>>
          /\ RwStep(layout.files, call, disk, call', disk', TRUE)
      BY <1>7 DEF RwTurn
    <3>2. DOMAIN disk' = DOMAIN disk
      BY <3>1 DEF RwStep
    <3> QED BY <3>1, <3>2
  <2>2. disk # <<>> /\ 1 \in DOMAIN disk
    BY <2>1, LayoutTyped DEF StoreTypeOK
  <2>3. disk' # <<>>
    BY <2>1, <2>2
  <2> QED BY <2>1, <2>2, <2>3 DEF StoreTypeOK
<1>8. CASE CompletePiece
  <2>1. /\ mode = "run" /\ call' = NoCall /\ UNCHANGED <<disk, kept, mode, layout, init_at>>
        /\ bitfield' = [bitfield EXCEPT ![call.index] = 1]
    BY <1>8 DEF CompletePiece, WriteReturned, Returned
  <2>2. bitfield' \in Bitfields(layout)
    BY <2>1 DEF StoreTypeOK, Bitfields
  <2> QED BY <2>1, <2>2 DEF StoreTypeOK
<1>9. CASE ServePiece \/ GiveUpCall
  BY <1>9 DEF ServePiece, GiveUpCall, EndCall, Returned, StoreTypeOK
<1>10. CASE BeginSave \/ EndSave \/ SaveCutShort
  BY <1>10 DEF BeginSave, EndSave, SaveCutShort, Idle, StoreTypeOK
<1>11. CASE Crash
  BY <1>11 DEF Crash, Stop, StoreTypeOK
<1>12. CASE UNCHANGED storeVars
  BY <1>12 DEF storeVars, StoreTypeOK
<1> QED
  BY <1>1, <1>4, <1>5, <1>6, <1>7, <1>8, <1>9, <1>10, <1>11, <1>12 DEF StoreNext

-----------------------------------------------------------------------------
(***************************************************************************)
(* What is claimed stays on disk                                           *)
(***************************************************************************)

\* What holds of a torrent that lies in its files, before and after a step.
LEMMA SameTorrent ==
  ASSUME StoreTypeOK, Loaded, Covered(layout), layout' = layout
  PROVE  /\ layout \in Layouts /\ layout.files \in Seq(Nat)
         /\ \A i : (OnDisk(i))' <=> \A g \in Positions(layout, i) : InPlace(layout.files, disk', g)
         /\ \A i \in Pieces(layout) :
              /\ Positions(layout, i) \subseteq 0 .. End(layout.files) - 1
              /\ Positions(layout, i) \subseteq Int
<1>1. layout \in Layouts /\ layout.files \in Seq(Nat)
  BY LayoutTyped DEF StoreTypeOK
<1>2. ASSUME NEW i
      PROVE  (OnDisk(i))' <=> \A g \in Positions(layout, i) : InPlace(layout.files, disk', g)
  BY DEF OnDisk
<1>3. ASSUME NEW i \in Pieces(layout)
      PROVE  /\ Positions(layout, i) \subseteq 0 .. End(layout.files) - 1
             /\ Positions(layout, i) \subseteq Int
  <2> DEFINE a == i * layout.piece_length
             n == PieceSize(layout, i)
             m == layout.length
  <2>1. a \in Nat /\ n \in Nat /\ a + n <= m /\ End(layout.files) = m /\ m \in Nat
    BY <1>1, PieceLies, LayoutTyped
  <2>2. Positions(layout, i) = a .. a + n - 1
    BY DEF Positions
  <2> HIDE DEF a, n, m
  <2> QED BY <2>1, <2>2
<1> QED BY <1>1, <1>2, <1>3

\* What is claimed are pieces of the torrent.
LEMMA ClaimedPieces ==
  ASSUME StoreTypeOK, Loaded
  PROVE  Claimed \subseteq Pieces(layout)
<1>1. bitfield \in Bitfields(layout) /\ (kept # NothingKept => kept \in Bitfields(layout))
  BY DEF StoreTypeOK
<1>2. Bits(bitfield) \subseteq Pieces(layout)
  BY <1>1 DEF Bits, Bitfields
<1>3. CASE kept = <<>>
  BY <1>2, <1>3 DEF Bits, Claimed
<1>4. CASE kept # NothingKept
  BY <1>1, <1>2, <1>4 DEF Bits, Bitfields, Claimed
<1> QED BY <1>3, <1>4 DEF NothingKept

\* Nothing more is claimed, nothing less is wiped, and the files are the same.
LEMMA ClaimedStays ==
  ASSUME ClaimedOnDisk, UNCHANGED <<layout, disk>>,
         Claimed' \ wiped' \subseteq Claimed \ wiped
  PROVE  ClaimedOnDisk'
<1> SUFFICES ASSUME NEW i \in Claimed' \ wiped' PROVE (OnDisk(i))'
  BY DEF ClaimedOnDisk
<1>1. OnDisk(i)
  BY DEF ClaimedOnDisk
<1> QED BY <1>1 DEF OnDisk

\* A file is written anew: of the pieces in it nothing is said any more.
LEMMA InitSound ==
  ASSUME StoreTypeOK, Sound, mode = "init", Covered(layout), layout' = layout, Wipe,
         NEW n \in Nat, disk' = [disk EXCEPT ![init_at] = allocate_file(n)],
         Claimed' \subseteq Claimed, call' = NoCall
  PROVE  Sound'
<1>1. /\ init_at \in 1 .. Len(layout.files) /\ disk \in Disk(layout.files) /\ Loaded
      /\ bitfield \in Bitfields(layout) /\ kept # NothingKept => kept \in Bitfields(layout)
  BY DEF StoreTypeOK, Sound, Loaded
<1>2. /\ layout.files \in Seq(Nat)
      /\ \A i : (OnDisk(i))' <=> \A g \in Positions(layout, i) : InPlace(layout.files, disk', g)
      /\ \A i \in Pieces(layout) : Positions(layout, i) \subseteq Int
  BY <1>1, SameTorrent
<1> DEFINE from == FileStart(layout.files, init_at)
           to == from + layout.files[init_at] - 1
<1>3. /\ disk' \in Disk(layout.files)
      /\ \A g \in Int : InPlace(layout.files, disk, g) /\ g \notin from .. to
                        => InPlace(layout.files, disk', g)
  BY <1>1, <1>2, InitKeepsOthers
<1> HIDE DEF from, to
<1>4. Claimed \subseteq Pieces(layout)
  BY <1>1, ClaimedPieces
<1>5. ASSUME NEW i \in Claimed' \ wiped' PROVE (OnDisk(i))'
  <2>1. i \in Claimed /\ i \in Pieces(layout) /\ i \notin wiped /\ i \notin PiecesIn(layout, init_at)
    BY <1>4 DEF Wipe
  <2>2. Positions(layout, i) \cap (from .. to) = {}
    BY <2>1 DEF PiecesIn, from, to
  <2>3. \A g \in Positions(layout, i) : InPlace(layout.files, disk, g)
    BY <2>1 DEF Sound, ClaimedOnDisk, OnDisk
  <2>4. \A g \in Positions(layout, i) : InPlace(layout.files, disk', g)
    BY <1>2, <1>3, <2>1, <2>2, <2>3
  <2> QED BY <1>2, <2>4
<1> QED BY <1>3, <1>5 DEF Sound, ClaimedOnDisk

\* A call begins.
LEMMA BeginCallSound ==
  ASSUME StoreTypeOK, Sound, Covered(layout), NEW i \in Pieces(layout), NEW is_write \in BOOLEAN,
         BeginCall(i, is_write), ~ is_write => i \in Bits(bitfield)
  PROVE  Sound'
<1> DEFINE from == i * layout.piece_length
           size == PieceSize(layout, i)
           lengths == layout.files
<1>1. /\ call' = rw_piece(i, from, size, is_write)
      /\ UNCHANGED <<disk, kept, layout, bitfield, wiped>> /\ Loaded
  BY DEF BeginCall, Idle, Loaded
<1>2. layout \in Layouts
  BY <1>1 DEF StoreTypeOK
<1>3. /\ i \in Nat /\ from \in Nat /\ size \in Nat /\ from + size <= End(lengths)
      /\ End(lengths) < Width /\ lengths \in Seq(Nat) /\ End(lengths) \in Nat
  BY <1>2, PieceLies, LayoutTyped
<1>4. from + size < Width
  <2> HIDE DEF from, size, lengths
  <2>1. Width \in Nat
    BY FileMapAssumption
  <2> QED BY <1>3, <2>1
<1>5. CallOK(lengths, call')
  <2> HIDE DEF from, size, lengths
  <2> QED BY <1>1, <1>3, <1>4, BeginsOK
<1>6. /\ call'.index = i /\ call'.from = from /\ call'.is_write = is_write /\ call'.buf = 0
      /\ call'.buf_size = size /\ call'.got = <<>> /\ call'.result = "running"
  BY <1>1 DEF rw_piece
<1>7. disk \in Disk(lengths) /\ ClaimedOnDisk
  BY DEF Sound
<1>8. CallNames'
  <2>1. call'.buf + call'.buf_size = size
    BY <1>3, <1>6
  <2> QED BY <1>1, <1>5, <1>6, <2>1 DEF CallNames
<1>9. WriteSound'
  <2>1. \A g \in call'.from .. call'.from + call'.buf - 1 : FALSE
    BY <1>3, <1>6
  <2>2. WriteInv(lengths, call', disk)
    BY <1>5, <1>7, <2>1 DEF WriteInv
  <2> QED BY <1>1, <1>6, <2>2 DEF WriteSound
<1>10. ReadSound'
  <2> SUFFICES ASSUME ~ is_write, i \notin wiped PROVE ReadInv(lengths, call', disk)
    BY <1>1, <1>6 DEF ReadSound
  <2>1. OnDisk(i)
    BY <1>7 DEF ClaimedOnDisk, Claimed
  <2>2. \A g \in from .. from + size - 1 : InPlace(lengths, disk, g)
    BY <2>1 DEF OnDisk, Positions
  <2>3. /\ call'.from + call'.buf + call'.buf_size = from + size
        /\ call'.from + call'.buf + call'.buf_size - 1 = from + size - 1
    BY <1>3, <1>6
  <2>4. call'.got = [k \in 1 .. call'.buf |-> call'.from + k - 1]
    BY <1>6
  <2> HIDE DEF from, size, lengths
  <2>5. \A g \in call'.from .. call'.from + call'.buf + call'.buf_size - 1 : InPlace(lengths, disk, g)
    BY <1>6, <2>2, <2>3
  <2> QED BY <1>3, <1>5, <1>7, <2>3, <2>4, <2>5 DEF ReadInv
<1>11. ClaimedOnDisk'
  BY <1>1, <1>7, ClaimedStays DEF Claimed
<1> QED BY <1>1, <1>7, <1>8, <1>9, <1>10, <1>11 DEF Sound


\* A turn of a call: what was on disk stays, and what is written comes to its place.
LEMMA RwTurnSound ==
  ASSUME StoreTypeOK, Sound, Covered(layout), RwTurn
  PROVE  Sound'
<1> DEFINE lengths == layout.files
           i == call.index
<1>1. /\ call # NoCall /\ RwStep(lengths, call, disk, call', disk', TRUE)
      /\ UNCHANGED <<kept, layout, bitfield, wiped>> /\ Loaded
  BY DEF RwTurn, Loaded
<1>2. /\ CallOK(lengths, call) /\ i \in Pieces(layout)
      /\ call.from = i * layout.piece_length
      /\ call.buf + call.buf_size = PieceSize(layout, i)
      /\ disk \in Disk(lengths) /\ WriteSound /\ ReadSound /\ ClaimedOnDisk
  BY <1>1 DEF Sound, CallNames
<1>3. /\ layout \in Layouts /\ lengths \in Seq(Nat)
      /\ \A j : (OnDisk(j))' <=> \A g \in Positions(layout, j) : InPlace(lengths, disk', g)
      /\ \A j \in Pieces(layout) :
           /\ Positions(layout, j) \subseteq 0 .. End(lengths) - 1
           /\ Positions(layout, j) \subseteq Int
  BY <1>1, SameTorrent
<1> HIDE DEF lengths
<1>4. /\ CallOK(lengths, call') /\ call'.index = i /\ call'.from = call.from
      /\ call'.is_write = call.is_write
      /\ call'.buf + call'.buf_size = call.buf + call.buf_size
  <2>1. /\ lengths \in Seq(Nat) /\ CallOK(lengths, call) /\ disk \in Disk(lengths)
        /\ RwStep(lengths, call, disk, call', disk', TRUE) /\ TRUE \in BOOLEAN
    BY <1>1, <1>2, <1>3
  <2>2. CallOK(lengths, call') /\ SameCall(call, call')
    BY ONLY <2>1, CallStays
  <2> QED BY <2>2 DEF SameCall
<1>5. CallNames'
  BY <1>1, <1>2, <1>4 DEF CallNames, lengths
<1>6. call.is_write \in BOOLEAN
  BY <1>2 DEF CallOK, RwCall
<1>7. CASE call.is_write
  <2>1. WriteInv(lengths, call, disk)
    BY <1>2, <1>7 DEF WriteSound, lengths
  <2>2. /\ WriteInv(lengths, call', disk')
        /\ \A g \in Int : InPlace(lengths, disk, g) => InPlace(lengths, disk', g)
        /\ call'.result = "done" =>
             \A g \in call.from .. call.from + call.buf + call.buf_size - 1 :
               g < End(lengths) => InPlace(lengths, disk', g)
    BY <1>1, <1>3, <1>7, <2>1, WritesInPlace
  <2>3. ASSUME call'.result = "done" PROVE (OnDisk(i))'
    <3>1. Positions(layout, i) = call.from .. call.from + call.buf + call.buf_size - 1
      <4> DEFINE size == PieceSize(layout, i)
                 a == call.from
                 b == call.buf
                 c == call.buf_size
      <4>1. a \in Nat /\ b \in Nat /\ c \in Nat /\ b + c = size
        BY <1>2 DEF CallOK, RwCall
      <4>2. Positions(layout, i) = a .. a + size - 1
        BY <1>2 DEF Positions
      <4> HIDE DEF size, a, b, c
      <4>3. a + size - 1 = a + b + c - 1
        BY <4>1
      <4> QED BY <4>2, <4>3 DEF a, b, c
    <3>2. End(lengths) \in Nat
      BY <1>2, <1>3, PieceLies, LayoutTyped DEF lengths
    <3>3. ASSUME NEW g \in Positions(layout, i) PROVE InPlace(lengths, disk', g)
      <4>1. g \in 0 .. End(lengths) - 1
        BY <1>2, <1>3
      <4>2. g < End(lengths)
        BY <3>2, <4>1
      <4> QED BY <2>2, <2>3, <3>1, <4>2
    <3> QED BY <1>3, <1>4, <3>3
  <2>4. WriteSound'
    BY <1>1, <1>4, <2>2, <2>3 DEF WriteSound, lengths
  <2>5. ReadSound'
    BY <1>4, <1>7 DEF ReadSound
  <2>6. ASSUME NEW j \in Claimed \ wiped PROVE (OnDisk(j))'
    <3>1. j \in Pieces(layout)
      BY <1>1, ClaimedPieces
    <3>2. \A g \in Positions(layout, j) : g \in Int /\ InPlace(lengths, disk, g)
      BY <1>2, <1>3, <3>1 DEF ClaimedOnDisk, OnDisk, lengths
    <3> QED BY <1>3, <2>2, <3>2
  <2>7. ClaimedOnDisk'
    BY <1>1, <2>6 DEF ClaimedOnDisk, Claimed
  <2>8. disk' \in Disk(lengths)
    BY <2>2 DEF WriteInv
  <2> QED BY <1>1, <1>5, <2>4, <2>5, <2>7, <2>8 DEF Sound, lengths
<1>8. CASE ~ call.is_write
  <2>1. disk' = disk
    BY <1>1, <1>8 DEF RwStep
  <2>2. ASSUME i \notin wiped
        PROVE  ReadInv(lengths, call', disk) /\ (call'.result = "done" => Verifies')
    <3>1. ReadInv(lengths, call, disk)
      BY <1>2, <1>8, <2>2 DEF ReadSound, lengths
    <3>2. /\ ReadInv(lengths, call', disk)
          /\ ReadAsWritten(call, call')
      <4>1. lengths \in Seq(Nat) /\ RwStep(lengths, call, disk, call', disk', TRUE) /\ TRUE \in BOOLEAN
        BY <1>1, <1>3
      <4> QED BY ONLY <4>1, <3>1, <1>8, ReadsWhatIsThere
    <3> QED BY <1>1, <1>2, <1>4, <3>2 DEF Verifies, ReadAsWritten
  <2>3. ReadSound'
    BY <1>1, <1>4, <2>1, <2>2 DEF ReadSound, lengths
  <2>4. WriteSound'
    BY <1>4, <1>8 DEF WriteSound
  <2>5. ClaimedOnDisk'
    BY <1>1, <1>2, <2>1, ClaimedStays DEF Claimed
  <2> QED BY <1>1, <1>2, <1>5, <2>1, <2>3, <2>4, <2>5 DEF Sound, lengths
<1> QED BY <1>6, <1>7, <1>8

\* A piece was written, and counts as there.
LEMMA CompleteSound ==
  ASSUME StoreTypeOK, Sound, CompletePiece
  PROVE  Sound'
<1>1. /\ call # NoCall /\ call.result = "done" /\ call.is_write /\ call' = NoCall
      /\ bitfield' = [bitfield EXCEPT ![call.index] = 1] /\ wiped' = wiped \ {call.index}
      /\ UNCHANGED <<disk, kept, layout>>
  BY DEF CompletePiece, WriteReturned, Returned
<1>2. OnDisk(call.index)
  BY <1>1 DEF Sound, WriteSound
<1>3. Claimed' \subseteq Claimed \cup {call.index}
  BY <1>1 DEF Claimed, Bits
<1>4. ASSUME NEW i \in Claimed' \ wiped' PROVE OnDisk(i)
  BY <1>1, <1>2, <1>3 DEF Sound, ClaimedOnDisk
<1>5. \A i : OnDisk(i) => (OnDisk(i))'
  BY <1>1 DEF OnDisk
<1> QED BY <1>1, <1>4, <1>5 DEF Sound, ClaimedOnDisk


-----------------------------------------------------------------------------
(***************************************************************************)
(* The theorems                                                            *)
(***************************************************************************)

LEMMA SoundStep ==
  ASSUME StoreInv, [StoreNext]_storeVars, disk' # <<>>, Covered(layout)'
  PROVE  Sound'
<1>1. StoreTypeOK /\ StoreTypeOK'
  BY TypeStep DEF StoreInv
<1>2. CASE BeginAny
  <2>1. /\ layout' \in Layouts
        /\ bitfield' = kept \/ Bits(bitfield') = {}
        /\ disk # <<>> => layout' = layout /\ disk' = disk
        /\ disk = <<>> => /\ kept = NothingKept
                          /\ disk' = [f \in 1 .. Len(layout'.files) |-> NoFile]
        /\ UNCHANGED <<kept, call, wiped>> /\ call = NoCall
    BY <1>1, <1>2, BeginsSame
  <2>2. CASE disk = <<>>
    <3>1. Bits(kept) = {}
      BY <2>1, <2>2 DEF Bits, NothingKept
    <3>2. Claimed' = {}
      BY <2>1, <2>2, <3>1 DEF Claimed
    <3>3. NoFile \in [exists : BOOLEAN, bytes : Seq(Int)]
      BY EmptySeq DEF NoFile
    <3>4. disk' \in Disk(layout'.files)
      BY <2>1, <2>2, <3>3 DEF Disk
    <3> QED BY <2>1, <3>2, <3>4 DEF Sound, ClaimedOnDisk
  <2>3. CASE disk # <<>>
    <3>1. Sound
      BY <2>1, <2>3 DEF StoreInv
    <3>2. Claimed' \subseteq Claimed
      BY <2>1 DEF Claimed
    <3>3. ClaimedOnDisk'
      BY <2>1, <2>3, <3>1, <3>2, ClaimedStays DEF Sound
    <3> QED BY <2>1, <2>3, <3>1, <3>3 DEF Sound
  <2> QED BY <2>2, <2>3
<1>3. ASSUME Loaded, layout' = layout
      PROVE  Covered(layout) /\ Sound
  BY <1>1, <1>3 DEF StoreInv, StoreTypeOK
<1>4. CASE InitFile
  <2>1. /\ mode = "init" /\ Wipe /\ UNCHANGED <<kept, layout, bitfield, call>>
        /\ disk' = [disk EXCEPT ![init_at] = allocate_file(layout.files[init_at])]
    BY <1>4 DEF InitFile
  <2>2. Covered(layout) /\ Sound /\ call = NoCall
    BY <1>1, <1>3, <2>1 DEF Loaded, StoreTypeOK
  <2>3. layout.files[init_at] \in Nat
    <3>1. layout \in Layouts /\ init_at \in 1 .. Len(layout.files)
      BY <1>1, <2>1 DEF StoreTypeOK, Loaded
    <3> QED BY <3>1, LayoutTyped
  <2> QED BY <1>1, <2>1, <2>2, <2>3, InitSound DEF Claimed
<1>5. CASE InitFails
  <2>1. /\ mode = "init" /\ UNCHANGED <<kept, layout>> /\ bitfield' = <<>> /\ call' = NoCall
    BY <1>5 DEF InitFails, Stop
  <2>2. Covered(layout) /\ Sound
    BY <1>3, <2>1 DEF Loaded
  <2>3. Claimed' \subseteq Claimed
    BY <2>1 DEF Claimed, Bits
  <2>4. CASE UNCHANGED <<disk, wiped>>
    <3>1. ClaimedOnDisk'
      BY <2>1, <2>2, <2>3, <2>4, ClaimedStays DEF Sound
    <3> QED BY <2>1, <2>2, <2>4, <3>1 DEF Sound
  <2>5. ASSUME NEW n \in 0 .. layout.files[init_at] - 1,
               disk' = [disk EXCEPT ![init_at] = allocate_file(n)], Wipe
        PROVE  Sound'
    <3>1. n \in Nat
      <4>1. layout \in Layouts /\ init_at \in 1 .. Len(layout.files)
        BY <1>1, <2>1 DEF StoreTypeOK, Loaded
      <4>2. layout.files[init_at] \in Nat
        BY <4>1, LayoutTyped
      <4> QED BY <2>5, <4>2
    <3> QED BY <1>1, <2>1, <2>2, <2>3, <2>5, <3>1, InitSound
  <2> QED BY <1>5, <2>4, <2>5 DEF InitFails
<1>6. ASSUME NEW i \in Pieces(layout), mode = "run", BeginWrite(i) \/ BeginRead(i)
      PROVE  Sound'
  <2>1. PICK is_write \in BOOLEAN :
          BeginCall(i, is_write) /\ (~ is_write => bitfield[i] = 1)
    BY <1>6 DEF BeginWrite, BeginRead
  <2>2. Covered(layout) /\ Sound
    BY <1>3, <1>6, <2>1 DEF Loaded, BeginCall
  <2>3. ~ is_write => i \in Bits(bitfield)
    BY <1>1, <1>6, <2>1 DEF StoreTypeOK, Loaded, Bitfields, Bits
  <2> QED BY <1>1, <2>1, <2>2, <2>3, BeginCallSound
<1>7. CASE RwTurn
  <2>1. Covered(layout) /\ Sound
    BY <1>3, <1>7 DEF RwTurn, Loaded
  <2> QED BY <1>1, <1>7, <2>1, RwTurnSound
<1>8. CASE CompletePiece
  <2>1. Sound
    BY <1>3, <1>8 DEF CompletePiece, WriteReturned, Returned, Loaded
  <2> QED BY <1>1, <1>8, <2>1, CompleteSound
<1>9. ASSUME Loaded, UNCHANGED <<disk, layout, wiped>>, Claimed' \subseteq Claimed, call' = NoCall
      PROVE  Sound'
  <2>1. Sound
    BY <1>3, <1>9
  <2>2. ClaimedOnDisk'
    BY <1>9, <2>1, ClaimedStays DEF Sound
  <2> QED BY <1>9, <2>1, <2>2 DEF Sound
<1>10. CASE ServePiece \/ GiveUpCall
  <2>1. mode = "run" /\ call' = NoCall /\ UNCHANGED <<disk, kept, mode, layout, bitfield, wiped>>
    BY <1>10 DEF ServePiece, GiveUpCall, EndCall, Returned
  <2> QED BY <1>9, <2>1 DEF Loaded, Claimed
<1>11. CASE BeginSave \/ EndSave \/ SaveCutShort
  <2>1. /\ Loaded /\ call' = NoCall /\ UNCHANGED <<disk, layout, bitfield, wiped>>
        /\ kept' \in {bitfield, NothingKept, kept}
    BY <1>1, <1>11 DEF BeginSave, EndSave, SaveCutShort, Idle, Loaded, StoreTypeOK
  <2>2. Bits(NothingKept) = {}
    BY DEF Bits, NothingKept
  <2> QED BY <1>9, <2>1, <2>2 DEF Claimed
<1>12. CASE Crash
  <2>1. Loaded /\ bitfield' = <<>> /\ call' = NoCall /\ UNCHANGED <<disk, kept, layout, wiped>>
    BY <1>12 DEF Crash, Stop, Loaded
  <2>2. Bits(<<>>) = {}
    BY DEF Bits
  <2> QED BY <1>9, <2>1, <2>2 DEF Claimed
<1>13. CASE UNCHANGED storeVars
  BY <1>13 DEF storeVars, StoreInv, Sound, CallNames, WriteSound, ReadSound, ClaimedOnDisk,
               Claimed, OnDisk, Verifies, Covered
<1> QED
  BY <1>2, <1>4, <1>5, <1>6, <1>7, <1>8, <1>10, <1>11, <1>12, <1>13 DEF StoreNext

\* The files, the bitfields and the call under way fit together at all times.
THEOREM StoreStands == StoreSpec => []StoreInv
<1>1. StoreInit => StoreInv
  BY StoreInvInit
<1>2. StoreInv /\ [StoreNext]_storeVars => StoreInv'
  <2> SUFFICES ASSUME StoreInv, [StoreNext]_storeVars PROVE StoreInv'
    OBVIOUS
  <2>1. StoreTypeOK'
    BY TypeStep DEF StoreInv
  <2>2. disk' # <<>> /\ Covered(layout)' => Sound'
    BY SoundStep
  <2> QED BY <2>1, <2>2 DEF StoreInv
<1> QED BY <1>1, <1>2, PTL DEF StoreSpec

\* A piece that the client takes itself to have is in its files, each byte at its
\* place, unless an initialisation wiped it: for every torrent that is as long as
\* its files, over any number of starts, failing writes, saves and crashes.
THEOREM PiecesAreOnDisk == StoreSpec => []HaveOnDisk
<1>1. StoreInv => HaveOnDisk
  BY DEF StoreInv, StoreTypeOK, Sound, ClaimedOnDisk, Claimed, HaveOnDisk
<1> QED BY <1>1, StoreStands, PTL

\* A piece that is loaded to be served is what was written, and verifies.
THEOREM PiecesReadBack == StoreSpec => []ReadsBack
<1>1. StoreInv => ReadsBack
  BY DEF StoreInv, StoreTypeOK, Loaded, Sound, ReadSound, ReadsBack, Returned
<1> QED BY <1>1, StoreStands, PTL

=============================================================================

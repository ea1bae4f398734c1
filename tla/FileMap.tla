------------------------------ MODULE FileMap ------------------------------
(***************************************************************************)
(* fs.c: a torrent's files are its bytes one after the other, so a piece   *)
(* may begin in one file and end in another.  init_file writes a file full *)
(* of zeros; rw_piece reads or writes a piece, file by file.               *)
(*                                                                         *)
(* A byte of the torrent is its position, so that a byte in the wrong      *)
(* place shows.  A call of rw_piece is a record of its local variables:    *)
(* one turn of its loop takes it to the next.                              *)
(***************************************************************************)
EXTENDS Integers, Sequences

CONSTANT
  Width            \* 2^64, at which offsets wrap

ASSUME FileMapAssumption == Width \in Nat \ {0}

Zero == -1         \* what a file is initialised with

\* A file on disk.
File(bytes) == [exists |-> TRUE, bytes |-> bytes]
NoFile == [exists |-> FALSE, bytes |-> <<>>]

\* A file with n zeros: all of its length, or less if the disk refuses more.
allocate_file(n) == File([k \in 1 .. n |-> Zero])

Smaller(m, n) == IF m < n THEN m ELSE n
Larger(m, n) == IF m > n THEN m ELSE n

-----------------------------------------------------------------------------
(***************************************************************************)
(* rw_piece, with the lengths of the files and the length of a piece       *)
(***************************************************************************)

\* A call for a piece that begins at some position of the torrent: buf is how
\* much of the buffer was used, got what a read has put there, result what the
\* call returns in the end.
rw_piece(index, from, size, is_write) ==
  [index |-> index, from |-> from, is_write |-> is_write,
   i |-> 1, piece_global_offset |-> from, file_global_offset |-> 0,
   buf |-> 0, buf_size |-> size, got |-> <<>>, result |-> "running"]

\* The loop is over.
Over(lengths, call) == call.i > Len(lengths) \/ call.buf_size = 0

\* This file has bytes of the piece.
Touches(lengths, call) ==
  (call.file_global_offset + lengths[call.i]) % Width > call.piece_global_offset

\* Mutant: every file is read and written from its start.
file_offset_start(call) == 0

file_offset(call) == (call.piece_global_offset - call.file_global_offset) % Width

\* How many bytes rw_for_file moves.
Share(lengths, call) ==
  Smaller((lengths[call.i] - file_offset(call)) % Width, call.buf_size)

\* n bytes of the buffer written at an offset of a file.  A gap is zeros.
WriteAt(bytes, offset, call, n) ==
  [k \in 1 .. Larger(Len(bytes), IF n = 0 THEN 0 ELSE offset + n) |->
     IF k \in offset + 1 .. offset + n THEN call.from + call.buf + (k - offset - 1)
     ELSE IF k <= Len(bytes) THEN bytes[k] ELSE Zero]

\* The call after n bytes were moved in this turn, got being what was read.
Moved(lengths, call, n, got) ==
  [call EXCEPT !.i = @ + 1,
               !.buf = @ + n, !.buf_size = @ - n,
               !.piece_global_offset = (@ + n) % Width,
               !.file_global_offset = (@ + lengths[call.i]) % Width,
               !.got = @ \o got]

\* The same if this file has none of the piece's bytes.
Passed(lengths, call) == Moved(lengths, call, 0, <<>>)

Failed(call) == [call EXCEPT !.result = "failed"]
Done(call) == [call EXCEPT !.result = "done"]

\* One turn of the loop, or its end: call and disk become call2 and disk2.  may_fail
\* is whether the file system may refuse, or take only some of the bytes.
RwStep(lengths, call, disk, call2, disk2, may_fail) ==
  /\ call.result = "running"
  /\ IF Over(lengths, call) THEN call2 = Done(call) /\ disk2 = disk
     ELSE IF ~ Touches(lengths, call) THEN call2 = Passed(lengths, call) /\ disk2 = disk
     ELSE LET bytes == disk[call.i].bytes
              offset == file_offset(call)
              n == Share(lengths, call)
              Written(k) == [disk EXCEPT ![call.i] = File(WriteAt(bytes, offset, call, k))]
              opens == disk[call.i].exists
              readable == offset + n <= Len(bytes)
          IN  \/ /\ call.is_write /\ opens
                 /\ call2 = Moved(lengths, call, n, <<>>) /\ disk2 = Written(n)
              \/ /\ call.is_write /\ opens /\ may_fail
                 /\ call2 = Failed(call) /\ \E k \in 0 .. n - 1 : disk2 = Written(k)
              \/ /\ ~ call.is_write /\ opens /\ readable /\ disk2 = disk
                 /\ call2 = Moved(lengths, call, n, SubSeq(bytes, offset + 1, offset + n))
              \/ /\ may_fail \/ ~ opens \/ (~ call.is_write /\ ~ readable)
                 /\ call2 = Failed(call) /\ disk2 = disk

-----------------------------------------------------------------------------
(***************************************************************************)
(* The reference: where a byte belongs, whatever rw_piece does.            *)
(***************************************************************************)

\* Where file f begins.
FileStart(lengths, f) ==
  LET start[k \in 1 .. f] == IF k = 1 THEN 0 ELSE start[k - 1] + lengths[k - 1]
  IN  start[f]

\* Position g of the torrent is on disk, in its place.
InPlace(lengths, disk, g) ==
  \E f \in 1 .. Len(lengths) :
    /\ g - FileStart(lengths, f) \in 0 .. lengths[f] - 1
    /\ g - FileStart(lengths, f) < Len(disk[f].bytes)
    /\ disk[f].bytes[g - FileStart(lengths, f) + 1] = g

=============================================================================

---------------------------- MODULE PieceLayout ----------------------------
(***************************************************************************)
(* How a torrent's bytes are cut into pieces, and a piece into the blocks  *)
(* that are requested one by one.  Shared by every module that speaks of   *)
(* pieces.                                                                 *)
(***************************************************************************)
EXTENDS Integers, Sequences, FiniteSets

CONSTANTS
  PieceCount,   \* torrent->piece_count
  PieceLength,  \* torrent->piece_length
  Length,       \* torrent->length
  RequestSize   \* REQUEST_SIZE, the most bytes one request asks for

(***************************************************************************)
(* What the loaded metadata guarantees, except the strict inequality:      *)
(* metadata.c also accepts a length of exactly piece_length times          *)
(* (piece_count - 1), which leaves the last piece empty.                   *)
(***************************************************************************)
ASSUME LayoutAssumption ==
  /\ PieceCount \in Nat \ {0}
  /\ PieceLength \in Nat \ {0}
  /\ RequestSize \in Nat \ {0}
  /\ Length \in Nat
  /\ PieceLength * (PieceCount - 1) < Length
  /\ Length <= PieceLength * PieceCount

Pieces == 0 .. PieceCount - 1

\* Mutant: the last piece is taken to be as long as the others.
calc_piece_length_full(i) == PieceLength

\* Every piece has PieceLength bytes but the last, which has what is left.
calc_piece_length(i) ==
  IF i + 1 = PieceCount THEN Length - i * PieceLength ELSE PieceLength

\* How many blocks of at most RequestSize bytes cover piece i.
BlockCount(i) == (calc_piece_length(i) + RequestSize - 1) \div RequestSize

\* The bytes of the pieces in S together: only the last piece may be shorter.
BytesIn(S) ==
  Cardinality(S) * PieceLength
    - (IF PieceCount - 1 \in S THEN PieceLength * PieceCount - Length ELSE 0)

\* Where the blocks of piece i begin.
Begins(i) == { k * RequestSize : k \in 0 .. BlockCount(i) - 1 }

=============================================================================

------------------------------- MODULE MCWire -------------------------------
(***************************************************************************)
(* An instance of Wire for TLC: messages with 1, 4 and 6 bytes behind a    *)
(* prefix of 2.  The second does not fit the window, the third not even    *)
(* the buffer.  One of the first and a part of another fill one direction, *)
(* exactly two fill the other.                                             *)
(***************************************************************************)
EXTENDS Wire

CONSTANTS here, there

BothEnds == {here, there}

ThreeLengths == {3, 6, 8}

TwoRooms == (here :> 5) @@ (there :> 6)

=============================================================================

---------------------------- MODULE MCDownload ----------------------------
(***************************************************************************)
(* Instances of Download for TLC: two peers and two pieces, the first of   *)
(* two blocks and the last of one, so that a piece can be half received,   *)
(* and up to two requests sent at a time.                                  *)
(***************************************************************************)
EXTENDS Download, TLC

CONSTANTS p1, p2

AllPeers == {p1, p2}

PeerSymmetry == Permutations(AllPeers)

PeerFaults == {"drop", "corrupt", "io"}
SendFaults == {"send"}

=============================================================================

------------------------------ MODULE MCUpload ------------------------------
(***************************************************************************)
(* Instances of Upload for TLC: two peers and one upload slot, so that     *)
(* random chokes happen, and two pieces, so that the buffer changes.       *)
(***************************************************************************)
EXTENDS Upload, TLC

CONSTANTS p1, p2

AllPeers == {p1, p2}

PeerSymmetry == Permutations(AllPeers)

TwoPieces == {0, 1}

AllFaults == FaultKinds
DropFaults == {"drop"}
IoFaults == {"io"}
NoFaults == {}

=============================================================================

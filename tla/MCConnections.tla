--------------------------- MODULE MCConnections ---------------------------
(***************************************************************************)
(* An instance of Connections for TLC: three peers, two dialled            *)
(* connections, numbers for the listener and the peers, none to spare.     *)
(***************************************************************************)
EXTENDS Connections

CONSTANTS p1, p2, p3

AllPeers == {p1, p2, p3}

InvalidSocket == -1

=============================================================================

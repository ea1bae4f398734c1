---------------------------- MODULE MCSendQueue ----------------------------
(***************************************************************************)
(* An instance of SendQueue for TLC: messages of two and three bytes, so   *)
(* that a send can end at every kind of place in them, and a queue of two  *)
(* with up to four messages, so that it can be full.                       *)
(***************************************************************************)
EXTENDS SendQueue

TwoLengths == {2, 3}

=============================================================================

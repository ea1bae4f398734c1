SPECIFICATION Spec
CONSTANTS
  p1 = p1
  p2 = p2
  Peers <- AllPeers
  None = None
  PieceCount = 2
  PieceLength = 2
  Length = 3
  RequestSize = 1
  MaxSentRequests = 2
  CountModulus = 16
  Faults <- SendFaults
  MaxLate = 1
CHECK_DEADLOCK FALSE
SYMMETRY PeerSymmetry
INVARIANTS
  IInv
  AnnouncedExact
  SentCountExact
PROPERTIES
  HaveForGood

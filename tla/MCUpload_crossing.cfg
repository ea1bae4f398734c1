SPECIFICATION Spec
CONSTANTS
  p1 = p1
  p2 = p2
  Peers <- AllPeers
  None = None
  Pieces <- TwoPieces
  FirstPiece = 0
  MAX_UPLOAD_PEERS = 1
  Faults <- NoFaults
  MaxRequests = 2
SYMMETRY PeerSymmetry
PROPERTIES
  CrossedRequestIgnored

SPECIFICATION FairSpec
CONSTANTS
  p1 = p1
  p2 = p2
  Peers <- AllPeers
  None = None
  PieceCount = 2
  PieceLength = 2
  Length = 3
  RequestSize = 1
  MaxSentRequests = 1
  CountModulus = 16
  Faults <- PeerFaults
  MaxLate = 0
INVARIANTS
  SingleSource
  OwnedBuffered
  StrandedOnlyByFailure
  DownloadedExact
  RequestsUnique
  QueueExact
  AnswersWelcome
  InterestTold
  CursorSafe
PROPERTIES
  NoPieceStuck
  DownloadCompletes

SPECIFICATION FairSpec
CONSTANTS
  p1 = p1
  p2 = p2
  p3 = p3
  Peers <- AllPeers
  Fds = {0, 1, 2, 3, 4}
  ZeroFd = 0
  INVALID_SOCKET <- InvalidSocket
  Free = Free
  Lost = Lost
  Client = Client
  Server = Server
  MAX_CONNECTIONS = 2
CHECK_DEADLOCK FALSE
INVARIANTS
  CountExact
  SocketsExact
PROPERTIES
  Dialled

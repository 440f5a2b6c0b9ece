\* Two peers, two datagrams and one TCP connection; yamux allows one substream
\* without an acknowledgement, so that the backlog fills.
CONSTANTS
  TcpConn = {c1}
  UdpLoop = udp
  Requester = {c1, udp}
  Peer = {p1, p2}
  MaxDatagrams = 2
  Backlog = 1
  NoRequest = NoRequest
  None = None
SPECIFICATION FairSpec
INVARIANTS TypeOK OneSessionPerPeer
PROPERTIES PathsSpec OnlySilentTcpBlocks TeardownCompletes
CHECK_DEADLOCK FALSE

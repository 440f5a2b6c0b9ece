\* No fault, the first transport possibly silent.
CONSTANTS
  alice = alice
  k1 = k1
  quic = quic
  tcp = tcp
  me = alice
  secret = k1
  Name = {alice}
  Token = {k1}
  Port <- MCPort
  Configs <- MCConfigs
  Tunnel = {t1, t2, t3}
  Conn = {}
  OsBusy = {}
  AcceptFails = FALSE
  MaxInFlight = 2
  NoTunnel = NoTunnel
  NoUser = NoUser
  NoReply = NoReply
  NoRelay = NoRelay
  Priority <- MCTcpFirst
  Wanted <- MCTcpOnly
  Healths <- MCSilent
  CutIn = {}
  Faults = {}
  MaxFaults = 0
SPECIFICATION SysFairSpec
PROPERTY AlwaysActiveAgain
CHECK_DEADLOCK FALSE

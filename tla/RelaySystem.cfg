\* One fault or edit of the config, every blocked transport refusing connections, and a tunnel cut off
\* only in an active session.
CONSTANTS
  alice = alice
  k1 = k1
  quic = quic
  tcp = tcp
  me = alice
  secret = k1
  Name = {alice}
  Token = {k1}
  Port <- MCPort
  Configs <- MCAnyConfig
  Tunnel = {t1, t2, t3}
  Conn = {c1}
  OsBusy = {}
  AcceptFails = FALSE
  MaxInFlight = 2
  NoTunnel = NoTunnel
  NoUser = NoUser
  NoReply = NoReply
  NoRelay = NoRelay
  Priority <- MCPriority
  Wanted <- MCTcpOnly
  Healths <- MCRefusing
  CutIn = {"active"}
  Faults = {"reset", "cut", "break", "edit"}
  MaxFaults = 1
SPECIFICATION SysFairSpec
INVARIANTS SysTypeOK LiveIsServed Lockstep
PROPERTIES DeadTunnelIsLeft AlwaysActiveAgain
CHECK_DEADLOCK FALSE

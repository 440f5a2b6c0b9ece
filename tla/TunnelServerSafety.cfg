\* Two tunnels, the second may follow or overlap the first, accept errors
\* possible, the dashboard switching the config.
\* Deadlock is off: every tunnel may be over.
CONSTANTS
  alice = alice
  k1 = k1
  k2 = k2
  Tunnel = {t1, t2}
  Conn = {c1}
  Name <- MCName
  Token <- MCToken
  Port <- MCPort
  Configs <- MCConfigs
  OsBusy = {}
  AcceptFails = TRUE
  MaxInFlight = 1
  NoTunnel = NoTunnel
  NoUser = NoUser
  NoReply = NoReply
  NoRelay = NoRelay
SPECIFICATION Spec
SYMMETRY Symmetry
INVARIANTS TypeOK PermittedPorts EndedLeavesNoLoop RegistryComplete UdpPeersFollowOwner
PROPERTY LeasesSpec
CHECK_DEADLOCK FALSE

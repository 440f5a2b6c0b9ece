\* One tunnel, two public peers, under the fairness of the runtime and with no
\* accept errors.
\* Deadlock is off: every tunnel may be over.
CONSTANTS
  alice = alice
  k1 = k1
  k2 = k2
  Tunnel = {t1}
  Conn = {c1, c2}
  Name <- MCName
  Token <- MCToken
  Port <- MCPort
  Configs <- MCOneConfig
  OsBusy = {}
  AcceptFails = FALSE
  MaxInFlight = 2
  NoTunnel = NoTunnel
  NoUser = NoUser
  NoReply = NoReply
  NoRelay = NoRelay
SPECIFICATION FairSpec
INVARIANT AckIsLive
PROPERTIES EndedLetsGo LinkDownEndsHandler
CHECK_DEADLOCK FALSE

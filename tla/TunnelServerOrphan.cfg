\* One tunnel under the fairness of the runtime.
\* Deadlock is off: every tunnel may be over.
CONSTANTS
  alice = alice
  k1 = k1
  k2 = k2
  Tunnel = {t1}
  Conn = {c1}
  Name <- MCName
  Token <- MCToken
  Port <- MCPort
  Configs <- MCOneConfig
  OsBusy = {}
  AcceptFails = FALSE
  MaxInFlight = 1
  NoTunnel = NoTunnel
  NoUser = NoUser
  NoReply = NoReply
  NoRelay = NoRelay
SPECIFICATION FairSpec
PROPERTY LinkDownFreesPorts
CHECK_DEADLOCK FALSE

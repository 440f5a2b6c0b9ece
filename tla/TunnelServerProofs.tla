------------------------- MODULE TunnelServerProofs -------------------------
(***************************************************************************)
(* Proofs about TunnelServer for any number of tunnels, connections, users,*)
(* ports and configs: its types, who may hold a public port, and that it   *)
(* implements PortLease.                                                   *)
(***************************************************************************)
EXTENDS TunnelServer, SequenceTheorems, TLAPS

\* A socket is owned exactly while something holds it.
OwnedIffHeld == \A e \in Endpoint : owner[e] = NoTunnel <=> loop[e] = "none"

\* The login of a tunnel: its user comes from its snapshot, a control loop has
\* a user, and a login is answered before anything else is read.
LoginOrder ==
    \A t \in Tunnel :
        /\ user[t] # NoUser => user[t] \in snap[t] /\ phase[t] \notin {"idle", "noise", "control"}
        /\ phase[t] = "serving" => user[t] # NoUser
        /\ phase[t] \in {"idle", "noise", "control"} => reply[t] = NoReply
        /\ phase[t] = "login" /\ reply[t] = NoReply => user[t] = NoUser
        /\ reply[t] # NoReply /\ reply[t].type = "LoginOk" => phase[t] = "login" /\ user[t] # NoUser
        /\ reply[t] # NoReply /\ reply[t].type # "LoginOk" /\ phase[t] = "login" =>
               reply[t].type = "LoginErr" /\ user[t] = NoUser
        /\ reply[t] # NoReply => phase[t] \in {"login", "serving"}
        /\ reply[t] # NoReply /\ phase[t] = "serving" => reply[t].type # "LoginErr"

\* A socket belongs to a tunnel that logged in.
OwnersLoggedIn ==
    \A e \in Endpoint : owner[e] # NoTunnel =>
        user[owner[e]] # NoUser /\ phase[owner[e]] \in {"serving", "ended", "failed"}

\* A UDP peer waiting for its substream is served by a loop that still runs.
OpeningHasLoop ==
    \A c \in Conn : relay[c] # NoRelay /\ relay[c].ep.kind = "udp" /\ relay[c].st = "opening" =>
        loop[relay[c].ep] \in {"running", "aborting"}

\* Only the end of a control loop aborts, and only an abort or a socket error
\* leaves sessions behind.
StoppedForAReason ==
    \A e \in Endpoint :
        /\ loop[e] = "aborting" => phase[owner[e]] = "ended"
        /\ loop[e] = "held" => phase[owner[e]] = "ended" \/ AcceptFails

Safe == /\ OwnedIffHeld
        /\ LoginOrder
        /\ OwnersLoggedIn
        /\ PermittedPorts
        /\ EndedLeavesNoLoop
        /\ UdpPeersFollowOwner
        /\ OpeningHasLoop
        /\ StoppedForAReason
        /\ RegistryComplete

\* The inductive invariant.
IInv == TypeOK /\ Safe
-----------------------------------------------------------------------------
(* Types.                                                                  *)

\* What reading a frame off a control stream gives and leaves.
LEMMA TakeFrameType ==
    ASSUME TypeOK, NEW t \in Tunnel, inbox[t] # <<>>
    PROVE  /\ Head(inbox[t]) \in Frame
           /\ Tail(inbox[t]) \in Seq(Frame)
  <1>1. inbox[t] \in Seq(Frame)
    BY DEF TypeOK
  <1> QED
    BY <1>1

\* The initial states are well typed.
LEMMA InitType == Init => TypeOK
  BY ConfigsAssumption DEF Init, TypeOK, Phase

\* Every step preserves the types.
LEMMA StepType == TypeOK /\ OwnedIffHeld /\ [Next]_vars => TypeOK'
  <1> SUFFICES ASSUME TypeOK, OwnedIffHeld, [Next]_vars PROVE TypeOK'
    OBVIOUS
  <1> USE DEF TypeOK, connVars, authVars, portVars
  <1>1. ASSUME NEW t \in Tunnel, AcceptTunnel(t) PROVE TypeOK'
    BY <1>1 DEF AcceptTunnel, Phase
  <1>2. ASSUME NEW t \in Tunnel, NoiseDone(t) PROVE TypeOK'
    BY <1>2 DEF NoiseDone, Phase
  <1>3. ASSUME NEW t \in Tunnel, NoiseFails(t) PROVE TypeOK'
    BY <1>3 DEF NoiseFails, Phase
  <1>4. ASSUME NEW t \in Tunnel, AcceptControl(t) PROVE TypeOK'
    BY <1>4, ConfigsAssumption DEF AcceptControl, Phase
  <1>5. ASSUME NEW t \in Tunnel, NoControl(t) PROVE TypeOK'
    BY <1>5 DEF NoControl, Phase
  <1>6. ASSUME NEW t \in Tunnel, LoginAccepted(t) PROVE TypeOK'
    BY <1>6, TakeFrameType DEF LoginAccepted, Reads, TakeFrame, Answer, Reply
  <1>7. ASSUME NEW t \in Tunnel, LoginRejected(t) PROVE TypeOK'
    BY <1>7, TakeFrameType DEF LoginRejected, Reads, TakeFrame, Answer, Reply
  <1>8. ASSUME NEW t \in Tunnel, LoginMissing(t) PROVE TypeOK'
    BY <1>8 DEF LoginMissing, Phase
  <1>9. ASSUME NEW t \in Tunnel, WriteReply(t) PROVE TypeOK'
    <2>1. phase' \in [Tunnel -> Phase]
      BY <1>9 DEF WriteReply, Phase
    <2>2. outbox' \in [Tunnel -> Seq(Reply)]
      BY <1>9 DEF WriteReply
    <2>3. /\ DOMAIN registry' \subseteq Tunnel
          /\ registry' \in [DOMAIN registry' -> SUBSET Endpoint]
      BY <1>9 DEF WriteReply
    <2> QED
      BY <1>9, <2>1, <2>2, <2>3 DEF WriteReply, Answer
  <1>10. ASSUME NEW t \in Tunnel, WriteFails(t) PROVE TypeOK'
    BY <1>10 DEF WriteFails, Answer, Unlist, Phase
  <1>11. ASSUME NEW t \in Tunnel, RegisterGranted(t) PROVE TypeOK'
    BY <1>11, TakeFrameType
    DEF RegisterGranted, Reads, TakeFrame, Answer, ListProxy, Frame, Reply
  <1>12. ASSUME NEW t \in Tunnel, RegisterRefused(t) PROVE TypeOK'
    BY <1>12, TakeFrameType
    DEF RegisterRefused, Reads, TakeFrame, Answer, ListProxy, Frame, Reply
  <1>13. ASSUME NEW t \in Tunnel, PingRead(t) PROVE TypeOK'
    BY <1>13, TakeFrameType DEF PingRead, Reads, TakeFrame, Answer, Reply
  <1>14. ASSUME NEW t \in Tunnel, OtherRead(t) PROVE TypeOK'
    BY <1>14, TakeFrameType DEF OtherRead, Reads, TakeFrame
  <1>15. ASSUME NEW t \in Tunnel, LeaveLoop(t) PROVE TypeOK'
    BY <1>15 DEF LeaveLoop, Aborted, Unlist, Phase
  <1>16. ASSUME NEW t \in Tunnel, MuxDropped(t) PROVE TypeOK'
    BY <1>16 DEF MuxDropped
  <1>17. ASSUME NEW e \in Endpoint, StopLoop(e) PROVE TypeOK'
    BY <1>17 DEF StopLoop
  <1>18. ASSUME NEW c \in Conn, SubstreamOpens(c) PROVE TypeOK'
    BY <1>18 DEF SubstreamOpens, Opening, Relay
  <1>19. ASSUME NEW c \in Conn, SubstreamFails(c) PROVE TypeOK'
    BY <1>19 DEF SubstreamFails
  <1>20. ASSUME NEW c \in Conn, RelayEnds(c) PROVE TypeOK'
    BY <1>20 DEF RelayEnds
  <1>21. CASE ConfigSwap
    BY <1>21 DEF ConfigSwap
  <1>22. ASSUME NEW t \in Tunnel, ClientReads(t) PROVE TypeOK'
    BY <1>22 DEF ClientReads
  <1>23. ASSUME NEW t \in Tunnel, LinkFails(t) PROVE TypeOK'
    BY <1>23 DEF LinkFails
  <1>24. ASSUME NEW t \in Tunnel, NEW f \in Frame, ClientSends(t, f) PROVE TypeOK'
    BY <1>24 DEF ClientSends
  <1>25. ASSUME NEW c \in Conn, NEW e \in Endpoint, PublicArrives(c, e) PROVE TypeOK'
    BY <1>25 DEF PublicArrives, OwnedIffHeld, Relay
  <1>26. CASE UNCHANGED vars
    BY <1>26 DEF vars
  <1> QED
    BY <1>1, <1>2, <1>3, <1>4, <1>5, <1>6, <1>7, <1>8, <1>9, <1>10, <1>11, <1>12, <1>13,
       <1>14, <1>15, <1>16, <1>17, <1>18, <1>19, <1>20, <1>21, <1>22, <1>23, <1>24, <1>25, <1>26
    DEF Next, ServerNext, EnvNext, Handler, ControlClosed, HeartbeatTimeout, AbortTask, LoopBreaks
-----------------------------------------------------------------------------
(* The invariant.                                                          *)

\* A login that matches a user of the snapshot keeps the invariant.
LEMMA LoginAcceptedSafe ==
    ASSUME IInv, NEW t \in Tunnel, LoginAccepted(t)
    PROVE  Safe'
  <1> USE NoValuesAssumption DEF IInv, Safe, TypeOK, connVars, authVars, portVars, LoginAccepted
  <1>1. OwnedIffHeld'
    BY DEF OwnedIffHeld, Reads, TakeFrame, Answer, Reply
  <1>2. LoginOrder'
    BY DEF LoginOrder, Reads, TakeFrame, Answer, Reply
  <1>3. OwnersLoggedIn'
    BY DEF OwnersLoggedIn, LoginOrder, OwnedIffHeld, Reads, TakeFrame, Answer, Reply
  <1>4. PermittedPorts'
    BY DEF PermittedPorts, OwnersLoggedIn, LoginOrder, Reads, TakeFrame, Answer, Reply
  <1>5. EndedLeavesNoLoop'
    BY DEF EndedLeavesNoLoop, OwnersLoggedIn, OwnedIffHeld, LoginOrder, Reads, TakeFrame, Answer, Reply
  <1>6. UdpPeersFollowOwner'
    BY DEF UdpPeersFollowOwner, OwnedIffHeld, OpeningHasLoop, Reads, TakeFrame, Answer, Reply
  <1>7. OpeningHasLoop'
    BY DEF OpeningHasLoop, OwnedIffHeld, Reads, TakeFrame, Answer, Reply
  <1>8. StoppedForAReason'
    BY DEF StoppedForAReason, EndedLeavesNoLoop, OwnedIffHeld, OwnersLoggedIn, LoginOrder, Reads, TakeFrame, Answer, Reply
  <1>9. RegistryComplete'
    BY DEF RegistryComplete, OwnersLoggedIn, LoginOrder, OwnedIffHeld, Reads, TakeFrame, Answer, Reply
  <1> QED
    BY <1>1, <1>2, <1>3, <1>4, <1>5, <1>6, <1>7, <1>8, <1>9

\* Writing a reply keeps the invariant: LoginOk opens a control loop that holds no port.
LEMMA WriteReplySafe ==
    ASSUME IInv, NEW t \in Tunnel, WriteReply(t)
    PROVE  Safe'
  <1> USE NoValuesAssumption DEF IInv, Safe, TypeOK, connVars, authVars, portVars, WriteReply
  <1>1. OwnedIffHeld'
    BY DEF OwnedIffHeld, Answer, Reply
  <1>2. LoginOrder'
    BY DEF LoginOrder, Answer, Reply
  <1>3. OwnersLoggedIn'
    BY DEF OwnersLoggedIn, LoginOrder, OwnedIffHeld, Answer, Reply
  <1>4. PermittedPorts'
    BY DEF PermittedPorts, OwnersLoggedIn, LoginOrder, Answer, Reply
  <1>5. EndedLeavesNoLoop'
    BY DEF EndedLeavesNoLoop, OwnersLoggedIn, OwnedIffHeld, LoginOrder, Answer, Reply
  <1>6. UdpPeersFollowOwner'
    BY DEF UdpPeersFollowOwner, OwnedIffHeld, OpeningHasLoop, Answer, Reply
  <1>7. OpeningHasLoop'
    BY DEF OpeningHasLoop, OwnedIffHeld, Answer, Reply
  <1>8. StoppedForAReason'
    BY DEF StoppedForAReason, EndedLeavesNoLoop, OwnedIffHeld, OwnersLoggedIn, LoginOrder, Answer, Reply
  <1>9. RegistryComplete'
    BY DEF RegistryComplete, OwnersLoggedIn, LoginOrder, OwnedIffHeld, Answer, Reply
  <1> QED
    BY <1>1, <1>2, <1>3, <1>4, <1>5, <1>6, <1>7, <1>8, <1>9

\* A failed write keeps the invariant: the ports stay, with their loops.
LEMMA WriteFailsSafe ==
    ASSUME IInv, NEW t \in Tunnel, WriteFails(t)
    PROVE  Safe'
  <1> USE NoValuesAssumption DEF IInv, Safe, TypeOK, connVars, authVars, portVars, WriteFails
  <1>1. OwnedIffHeld'
    BY DEF OwnedIffHeld, Answer, Unlist
  <1>2. LoginOrder'
    BY DEF LoginOrder, Answer, Unlist
  <1>3. OwnersLoggedIn'
    BY DEF OwnersLoggedIn, LoginOrder, OwnedIffHeld, Answer, Unlist
  <1>4. PermittedPorts'
    BY DEF PermittedPorts, OwnersLoggedIn, LoginOrder, Answer, Unlist
  <1>5. EndedLeavesNoLoop'
    BY DEF EndedLeavesNoLoop, OwnersLoggedIn, OwnedIffHeld, LoginOrder, Answer, Unlist
  <1>6. UdpPeersFollowOwner'
    BY DEF UdpPeersFollowOwner, OwnedIffHeld, OpeningHasLoop, Answer, Unlist
  <1>7. OpeningHasLoop'
    BY DEF OpeningHasLoop, OwnedIffHeld, Answer, Unlist
  <1>8. StoppedForAReason'
    BY ZenonT(40) DEF StoppedForAReason, OwnedIffHeld, LoginOrder, Answer, Unlist
  <1>9. RegistryComplete'
    BY DEF RegistryComplete, OwnersLoggedIn, LoginOrder, OwnedIffHeld, Answer, Unlist
  <1> QED
    BY <1>1, <1>2, <1>3, <1>4, <1>5, <1>6, <1>7, <1>8, <1>9

\* Binding a port keeps the invariant: it was free, and its user may have it.
LEMMA RegisterGrantedSafe ==
    ASSUME IInv, NEW t \in Tunnel, RegisterGranted(t)
    PROVE  Safe'
  <1> USE NoValuesAssumption DEF IInv, Safe, TypeOK, connVars, authVars, portVars, RegisterGranted
  <1>1. OwnedIffHeld'
    BY DEF OwnedIffHeld, Reads, TakeFrame, Answer, ListProxy, Allowed, CanBind, Frame, Reply, Relay
  <1>2. LoginOrder'
    BY DEF LoginOrder, Reads, TakeFrame, Answer, ListProxy, Allowed, CanBind, Frame, Reply, Relay
  <1>3. OwnersLoggedIn'
    BY DEF OwnersLoggedIn, LoginOrder, OwnedIffHeld, Reads, TakeFrame, Answer, ListProxy, Allowed, CanBind, Frame, Reply, Relay
  <1>4. PermittedPorts'
    BY DEF PermittedPorts, OwnersLoggedIn, LoginOrder, Reads, TakeFrame, Answer, ListProxy, Allowed, CanBind, Frame, Reply, Relay
  <1>5. EndedLeavesNoLoop'
    BY DEF EndedLeavesNoLoop, OwnersLoggedIn, OwnedIffHeld, LoginOrder, Reads, TakeFrame, Answer, ListProxy, Allowed, CanBind, Frame, Reply, Relay
  <1>6. UdpPeersFollowOwner'
    BY DEF UdpPeersFollowOwner, OwnedIffHeld, OpeningHasLoop, Reads, TakeFrame, Answer, ListProxy, Allowed, CanBind, Frame, Reply, Relay
  <1>7. OpeningHasLoop'
    BY DEF OpeningHasLoop, OwnedIffHeld, Reads, TakeFrame, Answer, ListProxy, Allowed, CanBind, Frame, Reply, Relay
  <1>8. StoppedForAReason'
    BY DEF StoppedForAReason, EndedLeavesNoLoop, OwnedIffHeld, OwnersLoggedIn, LoginOrder, Reads, TakeFrame, Answer, ListProxy, Allowed, CanBind, Frame, Reply, Relay
  <1>9. RegistryComplete'
    BY DEF RegistryComplete, OwnersLoggedIn, LoginOrder, OwnedIffHeld, Reads, TakeFrame, Answer, ListProxy, Allowed, CanBind, Frame, Reply, Relay
  <1> QED
    BY <1>1, <1>2, <1>3, <1>4, <1>5, <1>6, <1>7, <1>8, <1>9

\* The end of a control loop keeps the invariant: each of its loops is told to stop.
LEMMA LeaveLoopSafe ==
    ASSUME IInv, NEW t \in Tunnel, ControlClosed(t) \/ HeartbeatTimeout(t)
    PROVE  Safe'
  <1>0. LeaveLoop(t) /\ phase[t] = "serving" /\ reply[t] = NoReply
    BY DEF ControlClosed, HeartbeatTimeout, Reads
  <1> USE NoValuesAssumption DEF IInv, Safe, TypeOK, connVars, authVars, portVars, LeaveLoop
  <1>1. OwnedIffHeld'
    BY <1>0 DEF OwnedIffHeld, Aborted, Unlist, Relay
  <1>2. LoginOrder'
    BY <1>0 DEF LoginOrder, Aborted, Unlist, Relay
  <1>3. OwnersLoggedIn'
    BY <1>0 DEF OwnersLoggedIn, LoginOrder, OwnedIffHeld, Aborted, Unlist, Relay
  <1>4. PermittedPorts'
    BY <1>0 DEF PermittedPorts, OwnersLoggedIn, LoginOrder, Aborted, Unlist, Relay
  <1>5. EndedLeavesNoLoop'
    BY <1>0 DEF EndedLeavesNoLoop, OwnersLoggedIn, OwnedIffHeld, LoginOrder, Aborted, Unlist, Relay
  <1>6. UdpPeersFollowOwner'
    BY <1>0 DEF UdpPeersFollowOwner, OwnedIffHeld, OpeningHasLoop, Aborted, Unlist, Relay
  <1>7. OpeningHasLoop'
    BY <1>0 DEF OpeningHasLoop, OwnedIffHeld, Aborted, Unlist, Relay
  <1>8. StoppedForAReason'
    BY <1>0 DEF StoppedForAReason, EndedLeavesNoLoop, OwnedIffHeld, OwnersLoggedIn, LoginOrder, Aborted, Unlist, Relay
  <1>9. RegistryComplete'
    BY <1>0 DEF RegistryComplete, OwnersLoggedIn, LoginOrder, OwnedIffHeld, Aborted, Unlist, Relay
  <1> QED
    BY <1>1, <1>2, <1>3, <1>4, <1>5, <1>6, <1>7, <1>8, <1>9

\* A loop that stops keeps the invariant: the socket stays exactly with its sessions.
LEMMA StopLoopSafe ==
    ASSUME IInv, NEW e \in Endpoint, AbortTask(e) \/ LoopBreaks(e)
    PROVE  Safe'
  <1>0. StopLoop(e) /\ (loop[e] = "aborting" \/ (loop[e] = "running" /\ AcceptFails))
    BY DEF AbortTask, LoopBreaks
  <1> USE NoValuesAssumption DEF IInv, Safe, TypeOK, connVars, authVars, portVars, StopLoop
  <1>1. OwnedIffHeld'
    BY <1>0 DEF OwnedIffHeld, SessionsOn, Relay
  <1>2. LoginOrder'
    BY <1>0 DEF LoginOrder, SessionsOn, Relay
  <1>3. OwnersLoggedIn'
    BY <1>0 DEF OwnersLoggedIn, LoginOrder, OwnedIffHeld, SessionsOn, Relay
  <1>4. PermittedPorts'
    BY <1>0 DEF PermittedPorts, OwnersLoggedIn, LoginOrder, SessionsOn, Relay
  <1>5. EndedLeavesNoLoop'
    BY <1>0 DEF EndedLeavesNoLoop, OwnersLoggedIn, OwnedIffHeld, LoginOrder, SessionsOn, Relay
  <1>6. UdpPeersFollowOwner'
    BY <1>0 DEF UdpPeersFollowOwner, OwnedIffHeld, OpeningHasLoop, SessionsOn, Relay
  <1>7. OpeningHasLoop'
    BY <1>0 DEF OpeningHasLoop, OwnedIffHeld, SessionsOn, Relay
  <1>8. StoppedForAReason'
    BY <1>0 DEF StoppedForAReason, EndedLeavesNoLoop, OwnedIffHeld, OwnersLoggedIn, LoginOrder, SessionsOn, Relay
  <1>9. RegistryComplete'
    BY <1>0 DEF RegistryComplete, OwnersLoggedIn, LoginOrder, OwnedIffHeld, SessionsOn, Relay
  <1> QED
    BY <1>1, <1>2, <1>3, <1>4, <1>5, <1>6, <1>7, <1>8, <1>9

\* A relay that ends gives its socket back only when nobody else holds it.
LEMMA RelayEndsSafe ==
    ASSUME IInv, NEW c \in Conn, RelayEnds(c)
    PROVE  Safe'
  <1> DEFINE g == relay[c].ep
  <1>1. /\ UNCHANGED <<phase, registry, snap, user, reply>>
        /\ relay'[c] = NoRelay /\ \A d \in Conn \ {c} : relay'[d] = relay[d]
    BY DEF RelayEnds, authVars, connVars, IInv, TypeOK
  <1>2. \A e \in Endpoint : \/ owner'[e] = owner[e] /\ loop'[e] = loop[e]
                            \/ /\ owner'[e] = NoTunnel /\ loop'[e] = "none"
                               /\ loop[e] = "held" /\ SessionsOn(e) = {c}
    <2>1. \A e \in Endpoint : IF e = g /\ LastHandle(c, e) THEN owner'[e] = NoTunnel /\ loop'[e] = "none"
                                                           ELSE owner'[e] = owner[e] /\ loop'[e] = loop[e]
      BY DEF RelayEnds, IInv, TypeOK
    <2> QED
      BY <2>1 DEF LastHandle
  <1>3. \A e \in Endpoint : owner'[e] # NoTunnel => owner'[e] = owner[e] /\ loop'[e] = loop[e]
    BY <1>2
  <1>4. OwnedIffHeld'
    BY <1>2 DEF OwnedIffHeld, IInv, Safe
  <1>5. LoginOrder'
    BY <1>1 DEF LoginOrder, IInv, Safe
  <1>6. OwnersLoggedIn' /\ PermittedPorts' /\ EndedLeavesNoLoop'
    BY <1>1, <1>3 DEF OwnersLoggedIn, PermittedPorts, EndedLeavesNoLoop, IInv, Safe
  <1>7. ASSUME NEW d \in Conn, relay'[d] # NoRelay, relay'[d].ep.kind = "udp"
        PROVE  /\ owner'[relay'[d].ep] = relay'[d].tun
               /\ relay'[d].st = "opening" => loop'[relay'[d].ep] \in {"running", "aborting"}
    <2>1. d # c /\ relay'[d] = relay[d] /\ relay[d] \in Relay
      BY <1>1, <1>7 DEF IInv, TypeOK
    <2>2. relay[d].ep \in Endpoint /\ relay[d].st \in {"opening", "relaying"}
      BY <2>1 DEF Relay
    <2>3. /\ owner[relay[d].ep] = relay[d].tun
          /\ relay[d].st = "opening" => loop[relay[d].ep] \in {"running", "aborting"}
      BY <1>7, <2>1 DEF IInv, Safe, UdpPeersFollowOwner, OpeningHasLoop
    <2>4. owner'[relay[d].ep] = owner[relay[d].ep] /\ loop'[relay[d].ep] = loop[relay[d].ep]
      <3>1. SUFFICES ASSUME loop[relay[d].ep] = "held", SessionsOn(relay[d].ep) = {c} PROVE FALSE
        BY <1>2, <2>2
      <3>2. d \in SessionsOn(relay[d].ep)
        BY <1>7, <2>1, <2>2, <2>3, <3>1 DEF SessionsOn
      <3> QED
        BY <2>1, <3>1, <3>2
    <2> QED
      BY <2>1, <2>3, <2>4
  <1>8. UdpPeersFollowOwner' /\ OpeningHasLoop'
    BY <1>7 DEF UdpPeersFollowOwner, OpeningHasLoop
  <1>9. StoppedForAReason'
    BY <1>1, <1>2 DEF StoppedForAReason, IInv, Safe
  <1>10. RegistryComplete'
    <2>1. \A e \in Endpoint : owner'[e] \in DOMAIN registry' => e \in registry'[owner'[e]]
      <3>1. NoTunnel \notin DOMAIN registry
        BY NoValuesAssumption DEF IInv, Safe, RegistryComplete
      <3> QED
        BY <1>1, <1>2, <3>1 DEF IInv, Safe, RegistryComplete
    <2> QED
      BY <1>1, <2>1 DEF IInv, Safe, RegistryComplete
  <1> QED
    BY <1>4, <1>5, <1>6, <1>8, <1>9, <1>10 DEF Safe

\* Every step keeps the invariant.
LEMMA StepSafe == IInv /\ [Next]_vars => Safe'
  <1> SUFFICES ASSUME IInv, [Next]_vars PROVE Safe'
    OBVIOUS
  <1> USE NoValuesAssumption
      DEF IInv, Safe, TypeOK, connVars, authVars, portVars, OwnedIffHeld, LoginOrder,
          OwnersLoggedIn, PermittedPorts, EndedLeavesNoLoop, UdpPeersFollowOwner,
          OpeningHasLoop, StoppedForAReason, RegistryComplete
  <1>1. ASSUME NEW t \in Tunnel, AcceptTunnel(t) PROVE Safe'
    BY <1>1 DEF AcceptTunnel
  <1>2. ASSUME NEW t \in Tunnel, NoiseDone(t) PROVE Safe'
    BY <1>2 DEF NoiseDone
  <1>3. ASSUME NEW t \in Tunnel, NoiseFails(t) PROVE Safe'
    BY <1>3 DEF NoiseFails
  <1>4. ASSUME NEW t \in Tunnel, AcceptControl(t) PROVE Safe'
    BY <1>4 DEF AcceptControl
  <1>5. ASSUME NEW t \in Tunnel, NoControl(t) PROVE Safe'
    BY <1>5 DEF NoControl
  <1>6. ASSUME NEW t \in Tunnel, LoginAccepted(t) PROVE Safe'
    BY <1>6, LoginAcceptedSafe
  <1>7. ASSUME NEW t \in Tunnel, LoginRejected(t) PROVE Safe'
    BY <1>7 DEF LoginRejected, Reads, TakeFrame, Answer
  <1>8. ASSUME NEW t \in Tunnel, LoginMissing(t) PROVE Safe'
    BY <1>8 DEF LoginMissing, Reads
  <1>9. ASSUME NEW t \in Tunnel, WriteReply(t) PROVE Safe'
    BY <1>9, WriteReplySafe
  <1>10. ASSUME NEW t \in Tunnel, WriteFails(t) PROVE Safe'
    BY <1>10, WriteFailsSafe
  <1>11. ASSUME NEW t \in Tunnel, RegisterGranted(t) PROVE Safe'
    BY <1>11, RegisterGrantedSafe
  <1>12. ASSUME NEW t \in Tunnel, RegisterRefused(t) PROVE Safe'
    BY <1>12 DEF RegisterRefused, Reads, TakeFrame, Answer, ListProxy, Frame
  <1>13. ASSUME NEW t \in Tunnel, PingRead(t) PROVE Safe'
    BY <1>13 DEF PingRead, Reads, TakeFrame, Answer
  <1>14. ASSUME NEW t \in Tunnel, OtherRead(t) PROVE Safe'
    BY <1>14 DEF OtherRead, Reads, TakeFrame
  <1>15. ASSUME NEW t \in Tunnel, ControlClosed(t) \/ HeartbeatTimeout(t) PROVE Safe'
    BY <1>15, LeaveLoopSafe
  <1>16. ASSUME NEW t \in Tunnel, MuxDropped(t) PROVE Safe'
    BY <1>16 DEF MuxDropped
  <1>17. ASSUME NEW e \in Endpoint, AbortTask(e) \/ LoopBreaks(e) PROVE Safe'
    BY <1>17, StopLoopSafe
  <1>18. ASSUME NEW c \in Conn, SubstreamOpens(c) PROVE Safe'
    BY <1>18 DEF SubstreamOpens, Opening, Relay
  <1>19. ASSUME NEW c \in Conn, SubstreamFails(c) PROVE Safe'
    BY <1>19 DEF SubstreamFails, Opening
  <1>20. ASSUME NEW c \in Conn, RelayEnds(c) PROVE Safe'
    BY <1>20, RelayEndsSafe
  <1>21. CASE ConfigSwap
    BY <1>21 DEF ConfigSwap
  <1>22. ASSUME NEW t \in Tunnel, ClientReads(t) PROVE Safe'
    BY <1>22 DEF ClientReads
  <1>23. ASSUME NEW t \in Tunnel, LinkFails(t) PROVE Safe'
    BY <1>23 DEF LinkFails
  <1>24. ASSUME NEW t \in Tunnel, NEW f \in Frame, ClientSends(t, f) PROVE Safe'
    BY <1>24 DEF ClientSends
  <1>25. ASSUME NEW c \in Conn, NEW e \in Endpoint, PublicArrives(c, e) PROVE Safe'
    BY <1>25 DEF PublicArrives, Relay
  <1>26. CASE UNCHANGED vars
    BY <1>26 DEF vars
  <1> QED
    BY <1>1, <1>2, <1>3, <1>4, <1>5, <1>6, <1>7, <1>8, <1>9, <1>10, <1>11, <1>12, <1>13, <1>14, <1>15, <1>16, <1>17, <1>18, <1>19, <1>20, <1>21, <1>22, <1>23, <1>24, <1>25, <1>26
    DEF Next, ServerNext, EnvNext, Handler
-----------------------------------------------------------------------------
(* The theorems.                                                           *)

\* The inductive invariant holds initially.
LEMMA InitInv == Init => IInv
  <1> SUFFICES ASSUME Init PROVE IInv
    OBVIOUS
  <1>1. TypeOK
    BY InitType
  <1>2. Safe
    BY NoValuesAssumption
    DEF Init, Safe, OwnedIffHeld, LoginOrder, OwnersLoggedIn, PermittedPorts, EndedLeavesNoLoop,
        UdpPeersFollowOwner, OpeningHasLoop, StoppedForAReason, RegistryComplete
  <1> QED
    BY <1>1, <1>2 DEF IInv

\* Every step of handlers, loops, relays and environment keeps it.
LEMMA StepInv == IInv /\ [Next]_vars => IInv'
  BY StepType, StepSafe DEF IInv, Safe

\* The inductive invariant holds of every reachable state.
THEOREM Invariance == Spec => []IInv
  BY InitInv, StepInv, PTL DEF Spec

\* Every variable keeps its type.
THEOREM TypeCorrect == Spec => []TypeOK
  <1>1. IInv => TypeOK
    BY DEF IInv
  <1> QED
    BY <1>1, Invariance, PTL

\* Whatever the dashboard does to the config and in whatever order tunnels come
\* and go, a bound public port belongs to a logged-in tunnel whose user may
\* have it.
THEOREM PortsPermitted == Spec => []PermittedPorts
  <1>1. IInv => PermittedPorts
    BY DEF IInv, Safe
  <1> QED
    BY <1>1, Invariance, PTL

\* A handler that leaves its control loop tells every one of its loops to stop.
THEOREM EndedStopsLoops == Spec => []EndedLeavesNoLoop
  <1>1. IInv => EndedLeavesNoLoop
    BY DEF IInv, Safe
  <1> QED
    BY <1>1, Invariance, PTL

\* The dashboard registry holds exactly the tunnels being served and misses none
\* of their ports.
THEOREM RegistryIsComplete == Spec => []RegistryComplete
  <1>1. IInv => RegistryComplete
    BY DEF IInv, Safe
  <1> QED
    BY <1>1, Invariance, PTL

\* No UDP peer is served on a port by a tunnel that does not hold the port.
THEOREM UdpPeersStay == Spec => []UdpPeersFollowOwner
  <1>1. IInv => UdpPeersFollowOwner
    BY DEF IInv, Safe
  <1> QED
    BY <1>1, Invariance, PTL

\* Before any tunnel is accepted no port is leased.
LEMMA InitLeases == Init => Leases!Init
  BY NoValuesAssumption DEF Init, Leases!Init, MayTake, Served

\* Every step of the server is a step of PortLease or changes nothing it shows.
LEMMA StepLeases == IInv /\ [Next]_vars => [Leases!Next]_(Leases!vars)
  <1> SUFFICES ASSUME IInv, [Next]_vars PROVE [Leases!Next]_(Leases!vars)
    OBVIOUS
  <1> DEFINE Same == owner' = owner /\ MayTake' = MayTake /\ Served' = Served
  <1> USE NoValuesAssumption
      DEF IInv, Safe, TypeOK, connVars, authVars, portVars, Served, MayTake, Allowed
  <1>1. ASSUME NEW t \in Tunnel, LoginAccepted(t) PROVE Leases!Admit(t)
    <2>1. t \notin Served /\ Served' = Served \cup {t}
      BY <1>1 DEF LoginAccepted, Reads, LoginOrder
    <2>2. \A e \in Endpoint : owner[e] # t
      <3>1. phase[t] = "login"
        BY <1>1 DEF LoginAccepted, Reads
      <3>2. t # NoTunnel
        OBVIOUS
      <3>3. \A e \in Endpoint : owner[e] # NoTunnel => phase[owner[e]] # "login"
        BY DEF OwnersLoggedIn
      <3> QED
        BY <3>1, <3>2, <3>3, Zenon
    <2>3. MayTake' = [MayTake EXCEPT ![t] = {e \in Endpoint : e.port \in user'[t].ports}]
      <3> DEFINE m == [MayTake EXCEPT ![t] = {e \in Endpoint : e.port \in user'[t].ports}]
      <3>1. user'[t] # NoUser /\ \A s \in Tunnel \ {t} : user'[s] = user[s]
        BY <1>1 DEF LoginAccepted, Reads
      <3>2. \A s \in Tunnel : MayTake'[s] = m[s]
        BY <3>1
      <3> QED
        BY <3>2
    <2> QED
      BY <1>1, <2>1, <2>2, <2>3 DEF LoginAccepted, Leases!Admit
  <1>2. ASSUME NEW t \in Tunnel, ControlClosed(t) \/ HeartbeatTimeout(t) PROVE Leases!Close(t)
    <2>1. LeaveLoop(t) /\ phase[t] = "serving"
      BY <1>2 DEF ControlClosed, HeartbeatTimeout, Reads
    <2> QED
      BY <2>1 DEF LeaveLoop, LoginOrder, Leases!Close
  <1>3. ASSUME NEW t \in Tunnel, WriteFails(t) PROVE Leases!Close(t) \/ Same
    BY <1>3 DEF WriteFails, LoginOrder, Leases!Close
  <1>4. ASSUME NEW t \in Tunnel, RegisterGranted(t)
        PROVE  \E e \in Endpoint : Leases!Grant(t, e)
    <2> DEFINE e == Head(inbox[t]).ep
    <2>1. e \in Endpoint
      BY <1>4, TakeFrameType DEF RegisterGranted, Reads, Frame
    <2>2. t \in Served /\ user[t] # NoUser
      BY <1>4 DEF RegisterGranted, Reads, LoginOrder
    <2>3. e.port \in user[t].ports /\ owner[e] = NoTunnel /\ owner' = [owner EXCEPT ![e] = t]
      BY <1>4 DEF RegisterGranted, CanBind
    <2>4. MayTake' = MayTake /\ Served' = Served
      BY <1>4 DEF RegisterGranted
    <2>5. e \in MayTake[t]
      BY <2>1, <2>2, <2>3
    <2>6. Leases!Grant(t, e)
      BY <2>2, <2>3, <2>4, <2>5 DEF Leases!Grant
    <2> QED
      BY <2>1, <2>6
  <1>5. ASSUME NEW e \in Endpoint, AbortTask(e) \/ LoopBreaks(e)
        PROVE  Leases!GiveBack(e) \/ Same
    <2>1. StopLoop(e) /\ (loop[e] = "aborting" \/ (loop[e] = "running" /\ AcceptFails))
      BY <1>5 DEF AbortTask, LoopBreaks
    <2> QED
      <3>1. CASE SessionsOn(e) = {}
        BY <2>1, <3>1 DEF StopLoop, OwnedIffHeld, StoppedForAReason, Leases!GiveBack
      <3>2. CASE SessionsOn(e) # {}
        BY <2>1, <3>2 DEF StopLoop
      <3> QED
        BY <3>1, <3>2
  <1>6. ASSUME NEW c \in Conn, RelayEnds(c)
        PROVE  (\E e \in Endpoint : Leases!GiveBack(e)) \/ Same
    <2> DEFINE e == relay[c].ep
    <2>1. e \in Endpoint /\ MayTake' = MayTake /\ Served' = Served
      BY <1>6 DEF RelayEnds, Relay
    <2>2. CASE LastHandle(c, e)
      <3>1. owner' = [owner EXCEPT ![e] = NoTunnel]
        BY <1>6, <2>2 DEF RelayEnds
      <3>2. owner[e] # NoTunnel /\ (owner[e] \notin Served \/ AcceptFails)
        BY <2>1, <2>2 DEF LastHandle, OwnedIffHeld, StoppedForAReason
      <3> QED
        BY <2>1, <3>1, <3>2 DEF Leases!GiveBack
    <2>3. CASE ~(LastHandle(c, e))
      BY <1>6, <2>1, <2>3 DEF RelayEnds
    <2> QED
      BY <2>2, <2>3
  <1>7. ASSUME Same PROVE UNCHANGED Leases!vars
    BY <1>7 DEF Leases!vars
  <1>8. ASSUME NEW t \in Tunnel, AcceptTunnel(t) PROVE Same
    BY <1>8 DEF Same, AcceptTunnel
  <1>9. ASSUME NEW t \in Tunnel, NoiseDone(t) PROVE Same
    BY <1>9 DEF Same, NoiseDone
  <1>10. ASSUME NEW t \in Tunnel, NoiseFails(t) PROVE Same
    BY <1>10 DEF Same, NoiseFails
  <1>11. ASSUME NEW t \in Tunnel, AcceptControl(t) PROVE Same
    BY <1>11 DEF Same, AcceptControl, LoginOrder
  <1>12. ASSUME NEW t \in Tunnel, NoControl(t) PROVE Same
    BY <1>12 DEF Same, NoControl
  <1>13. ASSUME NEW t \in Tunnel, LoginRejected(t) PROVE Same
    BY <1>13 DEF Same, LoginRejected, Reads
  <1>14. ASSUME NEW t \in Tunnel, LoginMissing(t) PROVE Same
    BY <1>14 DEF Same, LoginMissing, Reads, LoginOrder
  <1>15. ASSUME NEW t \in Tunnel, WriteReply(t) PROVE Same
    BY <1>15 DEF Same, WriteReply, LoginOrder
  <1>16. ASSUME NEW t \in Tunnel, RegisterRefused(t) PROVE Same
    BY <1>16 DEF Same, RegisterRefused
  <1>17. ASSUME NEW t \in Tunnel, PingRead(t) PROVE Same
    BY <1>17 DEF Same, PingRead
  <1>18. ASSUME NEW t \in Tunnel, OtherRead(t) PROVE Same
    BY <1>18 DEF Same, OtherRead
  <1>19. ASSUME NEW t \in Tunnel, MuxDropped(t) PROVE Same
    BY <1>19 DEF Same, MuxDropped
  <1>20. ASSUME NEW c \in Conn, SubstreamOpens(c) PROVE Same
    BY <1>20 DEF Same, SubstreamOpens
  <1>21. ASSUME NEW c \in Conn, SubstreamFails(c) PROVE Same
    BY <1>21 DEF Same, SubstreamFails
  <1>22. ASSUME ConfigSwap PROVE Same
    BY <1>22 DEF Same, ConfigSwap
  <1>23. ASSUME NEW t \in Tunnel, ClientReads(t) PROVE Same
    BY <1>23 DEF Same, ClientReads
  <1>24. ASSUME NEW t \in Tunnel, LinkFails(t) PROVE Same
    BY <1>24 DEF Same, LinkFails
  <1>25. ASSUME NEW t \in Tunnel, NEW f \in Frame, ClientSends(t, f) PROVE Same
    BY <1>25 DEF Same, ClientSends
  <1>26. ASSUME NEW c \in Conn, NEW e \in Endpoint, PublicArrives(c, e) PROVE Same
    BY <1>26 DEF Same, PublicArrives
  <1>27. ASSUME UNCHANGED vars PROVE Same
    BY <1>27 DEF Same, vars
  <1> QED
    BY <1>1, <1>2, <1>3, <1>4, <1>5, <1>6, <1>7, <1>8, <1>9, <1>10, <1>11, <1>12, <1>13, <1>14, <1>15, <1>16, <1>17, <1>18, <1>19, <1>20, <1>21, <1>22, <1>23, <1>24, <1>25, <1>26, <1>27
    DEF Next, ServerNext, EnvNext, Handler, Leases!Next

\* The server implements PortLease: a public port is leased to one logged-in
\* tunnel at a time and never passes directly from one tunnel to another.
THEOREM LeasesHold == Spec => LeasesSpec
  <1>1. Init => Leases!Init
    BY InitLeases
  <1>2. IInv /\ [Next]_vars => [Leases!Next]_(Leases!vars)
    BY StepLeases
  <1> QED
    BY <1>1, <1>2, Invariance, PTL DEF Spec, LeasesSpec, Leases!Spec
-----------------------------------------------------------------------------
(* What the client was told.                                               *)

\* What the server tells tunnel t or has told it, the client still to read it.
Told(t, r) == r = reply[t] \/ \E i \in 1..Len(outbox[t]) : r = outbox[t][i]

\* Until its handler is over, a tunnel is told nothing of a port but the truth.
\* (AckIsLive, which looks at control loops only, does not say what the tunnel
\* has been told when its control loop begins.)
Truthful == \A t \in Tunnel : phase[t] \notin {"ended", "failed"} =>
               \A r \in Reply : Told(t, r) => AckedAndLive(t, r)

\* What is told is a reply.
LEMMA ToldReply ==
    ASSUME TypeOK, NEW t \in Tunnel
    PROVE  /\ \A i \in 1..Len(outbox[t]) : outbox[t][i] \in Reply
           /\ reply[t] # NoReply => reply[t] \in Reply
  <1>1. outbox[t] \in Seq(Reply)
    BY DEF TypeOK
  <1> QED
    BY <1>1, ElementOfSeq DEF TypeOK

\* A step after which a tunnel is told nothing new, keeps its ports and their
\* loops, and whose handler was not over before, keeps it truthful.
LEMMA NothingNew ==
    ASSUME Truthful, NEW t \in Tunnel,
           phase'[t] \notin {"ended", "failed"} => phase[t] \notin {"ended", "failed"},
           \A r \in Reply : Told(t, r)' => Told(t, r) \/ r.type # "RegisterOk",
           \A e \in Endpoint : owner[e] = t /\ loop[e] = "running" =>
                                   owner'[e] = t /\ loop'[e] = "running"
    PROVE  phase'[t] \notin {"ended", "failed"} =>
               \A r \in Reply : Told(t, r)' => AckedAndLive(t, r)'
  <1> SUFFICES ASSUME phase'[t] \notin {"ended", "failed"}, NEW r \in Reply, Told(t, r)',
                      r.type = "RegisterOk"
               PROVE  AckedAndLive(t, r)'
    BY DEF AckedAndLive
  <1>1. r.ep \in Endpoint
    BY DEF Reply
  <1>2. owner[r.ep] = t /\ loop[r.ep] = "running"
    BY DEF Truthful, AckedAndLive
  <1> QED
    BY <1>1, <1>2 DEF AckedAndLive

\* Taking replies away from a tunnel tells it nothing new; one more is the only new one.
LEMMA ToldLess ==
    ASSUME TypeOK, NEW t \in Tunnel, reply' = reply, outbox'[t] = <<>> \/
           (outbox[t] # <<>> /\ outbox'[t] = Tail(outbox[t])), NEW r, Told(t, r)'
    PROVE  Told(t, r)
  <1>1. outbox[t] \in Seq(Reply)
    BY DEF TypeOK
  <1>2. CASE outbox'[t] = <<>>
    BY <1>2 DEF Told
  <1>3. CASE outbox[t] # <<>> /\ outbox'[t] = Tail(outbox[t])
    BY <1>1, <1>3, HeadTailProperties DEF Told
  <1> QED
    BY <1>2, <1>3

\* Writing the reply moves it to the outbox.
LEMMA ToldWritten ==
    ASSUME TypeOK, NEW t \in Tunnel, NEW s \in Tunnel, WriteReply(t), NEW r \in Reply, Told(s, r)'
    PROVE  Told(s, r)
  <1>1. outbox[t] \in Seq(Reply) /\ reply[t] \in Reply
    BY DEF TypeOK, WriteReply
  <1>2. CASE s = t
    <2>1. outbox'[t] = Append(outbox[t], reply[t]) /\ reply'[t] = NoReply /\ r # NoReply
      BY <1>1, NoValuesAssumption DEF WriteReply, Answer, TypeOK
    <2> QED
      BY <1>1, <1>2, <2>1, AppendProperties DEF Told
  <1>3. CASE s # t
    BY <1>3 DEF WriteReply, Answer, TypeOK, Told
  <1> QED
    BY <1>2, <1>3

\* Every step in which no socket fails keeps what tunnels were told true.
LEMMA StepTruthful ==
    ASSUME IInv, Truthful, [Next]_vars, \A e \in Endpoint : ~LoopBreaks(e)
    PROVE  Truthful'
  <1> DEFINE Keeps(s) == /\ phase'[s] \notin {"ended", "failed"} => phase[s] \notin {"ended", "failed"}
                         /\ \A r \in Reply : Told(s, r)' => Told(s, r) \/ r.type # "RegisterOk"
                         /\ \A e \in Endpoint : owner[e] = s /\ loop[e] = "running" =>
                                                   owner'[e] = s /\ loop'[e] = "running"
             Goes(s) == phase'[s] \in {"ended", "failed"}
  <1> USE DEF connVars, authVars, portVars
  <1>0. (\A s \in Tunnel : Keeps(s) \/ Goes(s)) => Truthful'
    BY NothingNew DEF Truthful
  <1> HIDE DEF Keeps
  <1>a. TypeOK
    BY DEF IInv
  <1>1. ASSUME NEW t \in Tunnel,
               \/ AcceptTunnel(t) \/ NoiseDone(t) \/ NoiseFails(t) \/ AcceptControl(t)
               \/ NoControl(t) \/ LoginMissing(t) \/ OtherRead(t) \/ MuxDropped(t)
        PROVE  \A s \in Tunnel : Keeps(s)
    BY <1>1, <1>a DEF AcceptTunnel, NoiseDone, NoiseFails, AcceptControl, NoControl, LoginMissing, Reads,
                      OtherRead, MuxDropped, TypeOK, Phase, Told, Keeps
  <1>2. ASSUME NEW t \in Tunnel, LoginAccepted(t) \/ LoginRejected(t) \/ RegisterRefused(t) \/ PingRead(t)
        PROVE  \A s \in Tunnel : Keeps(s)
    BY <1>2, <1>a DEF LoginAccepted, LoginRejected, RegisterRefused, PingRead, Answer,
                      TypeOK, Told, Keeps
  <1>3. ASSUME NEW t \in Tunnel, WriteReply(t) PROVE \A s \in Tunnel : Keeps(s)
    <2>1. \A s \in Tunnel : phase'[s] \notin {"ended", "failed"} => phase[s] \notin {"ended", "failed"}
      BY <1>3 DEF WriteReply, IInv, Safe, LoginOrder, TypeOK
    <2>2. UNCHANGED <<owner, loop>>
      BY <1>3 DEF WriteReply
    <2> QED
      BY <1>3, <1>a, <2>1, <2>2, ToldWritten DEF Keeps
  <1>4. ASSUME NEW t \in Tunnel, WriteFails(t) PROVE \A s \in Tunnel : Keeps(s) \/ Goes(s)
    BY <1>4, <1>a DEF WriteFails, Answer, TypeOK, Told, Keeps
  <1>5. ASSUME NEW t \in Tunnel, RegisterGranted(t) PROVE Truthful'
    <2> DEFINE e == Head(inbox[t]).ep
    <2>1. /\ e \in Endpoint /\ owner[e] = NoTunnel /\ owner' = [owner EXCEPT ![e] = t]
          /\ loop' = [loop EXCEPT ![e] = "running"]
          /\ reply' = [reply EXCEPT ![t] = [type |-> "RegisterOk", ep |-> e]]
          /\ UNCHANGED <<phase, outbox>>
      BY <1>5, <1>a, TakeFrameType DEF RegisterGranted, Reads, CanBind, Answer, Frame
    <2>2. owner'[e] = t /\ loop'[e] = "running"
      BY <1>a, <2>1 DEF TypeOK
    <2>3. \A d \in Endpoint, s \in Tunnel : owner[d] = s /\ loop[d] = "running" =>
              owner'[d] = s /\ loop'[d] = "running"
      BY <1>a, <2>1, NoValuesAssumption DEF TypeOK
    <2>4. ASSUME NEW s \in Tunnel, phase[s] \notin {"ended", "failed"}, NEW r \in Reply, Told(s, r)'
          PROVE  AckedAndLive(s, r)'
      <3>1. Told(s, r) \/ (s = t /\ r = [type |-> "RegisterOk", ep |-> e])
        BY <1>a, <2>1, <2>4 DEF Told, TypeOK
      <3>2. CASE Told(s, r)
        BY <2>3, <2>4, <3>2 DEF Truthful, AckedAndLive, Reply
      <3>3. CASE s = t /\ r = [type |-> "RegisterOk", ep |-> e]
        BY <2>2, <3>3 DEF AckedAndLive
      <3> QED
        BY <3>1, <3>2, <3>3
    <2> QED
      BY <2>1, <2>4 DEF Truthful
  <1>6. ASSUME NEW t \in Tunnel, ControlClosed(t) \/ HeartbeatTimeout(t)
        PROVE  \A s \in Tunnel : Keeps(s) \/ Goes(s)
    <2>1. LeaveLoop(t)
      BY <1>6 DEF ControlClosed, HeartbeatTimeout
    <2> QED
      BY <2>1, <1>a DEF LeaveLoop, Aborted, TypeOK, Told, Keeps
  <1>7. ASSUME NEW e \in Endpoint, AbortTask(e) \/ LoopBreaks(e) PROVE \A s \in Tunnel : Keeps(s)
    <2>1. StopLoop(e) /\ loop[e] = "aborting"
      BY <1>7 DEF AbortTask
    <2> QED
      BY <2>1, <1>a DEF StopLoop, TypeOK, Told, Keeps
  <1>8. ASSUME NEW c \in Conn, RelayEnds(c) PROVE \A s \in Tunnel : Keeps(s)
    <2>1. \A e \in Endpoint : loop[e] = "running" => owner'[e] = owner[e] /\ loop'[e] = loop[e]
      BY <1>8, <1>a DEF RelayEnds, LastHandle, TypeOK
    <2> QED
      BY <1>8, <2>1 DEF RelayEnds, Told, Keeps
  <1>9. ASSUME NEW c \in Conn, SubstreamOpens(c) \/ SubstreamFails(c) PROVE \A s \in Tunnel : Keeps(s)
    BY <1>9 DEF SubstreamOpens, SubstreamFails, Told, Keeps
  <1>10. ASSUME NEW c \in Conn, NEW e \in Endpoint, PublicArrives(c, e) PROVE \A s \in Tunnel : Keeps(s)
    BY <1>10 DEF PublicArrives, Told, Keeps
  <1>11. ASSUME NEW t \in Tunnel, NEW f \in Frame, ClientSends(t, f) PROVE \A s \in Tunnel : Keeps(s)
    BY <1>11 DEF ClientSends, Told, Keeps
  <1>12. ASSUME NEW t \in Tunnel, ClientReads(t) \/ LinkFails(t) PROVE \A s \in Tunnel : Keeps(s)
    <2>1. UNCHANGED <<phase, reply, owner, loop>>
      BY <1>12 DEF ClientReads, LinkFails
    <2>2. ASSUME NEW s \in Tunnel, NEW r \in Reply, Told(s, r)' PROVE Told(s, r)
      <3>1. CASE s = t
        BY <1>12, <1>a, <2>1, <2>2, <3>1, ToldLess DEF ClientReads, LinkFails, TypeOK
      <3>2. CASE s # t
        BY <1>12, <1>a, <2>1, <2>2, <3>2 DEF ClientReads, LinkFails, TypeOK, Told
      <3> QED
        BY <3>1, <3>2
    <2> QED
      BY <2>1, <2>2 DEF Keeps
  <1>13. ASSUME ConfigSwap PROVE \A s \in Tunnel : Keeps(s)
    BY <1>13 DEF ConfigSwap, Told, Keeps
  <1>14. ASSUME UNCHANGED vars PROVE \A s \in Tunnel : Keeps(s)
    BY <1>14 DEF vars, Told, Keeps
  <1> QED
    BY <1>0, <1>1, <1>2, <1>3, <1>4, <1>5, <1>6, <1>7, <1>8, <1>9, <1>10, <1>11, <1>12, <1>13, <1>14
    DEF Next, ServerNext, EnvNext, Handler

\* No tunnel has been told anything at first.
LEMMA InitTruthful == Init => Truthful
  BY NoValuesAssumption DEF Init, Truthful, Told

\* What a served tunnel has been told is part of what any tunnel has been told.
LEMMA TruthfulIsLive == IInv /\ Truthful => AckIsLive
  <1> SUFFICES ASSUME IInv, Truthful, NEW t \in Tunnel, phase[t] = "serving",
                      NEW r \in Reply, Told(t, r)
               PROVE  AckedAndLive(t, r)
    BY ToldReply DEF AckIsLive, IInv, Told
  <1> QED
    BY DEF Truthful

\* As long as the operating system fails no socket it granted, a client that
\* reads RegisterOk, or will, has a port with a loop accepting on it, however
\* the tunnels share and lose ports meanwhile.
THEOREM AckAlwaysLive == ASSUME ~AcceptFails PROVE Spec => []AckIsLive
  <1>1. Truthful /\ IInv /\ [Next]_vars => Truthful'
    BY StepTruthful DEF LoopBreaks
  <1> QED
    BY <1>1, TruthfulIsLive, InitTruthful, Invariance, PTL DEF Spec
=============================================================================

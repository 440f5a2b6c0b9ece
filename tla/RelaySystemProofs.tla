-------------------------- MODULE RelaySystemProofs --------------------------
(***************************************************************************)
(* Proofs about RelaySystem for any transports, proxies, faults, users and *)
(* number of tunnels: its types, that the server stays as TunnelServer     *)
(* promises, that client and server speak in lockstep, and that what the   *)
(* client counts as live is served.                                        *)
(***************************************************************************)
EXTENDS RelaySystem, TunnelServerProofs

\* A tunnel nobody has dialed, or that was given back, holds nothing.
IdleIsBlank ==
    \A t \in Tunnel : phase[t] = "idle" =>
        inbox[t] = <<>> /\ outbox[t] = <<>> /\ reply[t] = NoReply

\* A handler that has written anything is past the login.
WrittenIsPastLogin ==
    \A t \in Tunnel : outbox[t] # <<>> => phase[t] \in {"serving", "ended", "failed"}

\* The client's own variables: a session is a tunnel, proxies count as live only
\* after the login, and it waits only for what it asked.
ClientOrder ==
    /\ cur = NoTunnel <=> cst \in {"waiting", "dialing"}
    /\ cur # NoTunnel => phase[cur] # "idle"
    /\ cst \notin {"registering", "active"} => live = {}
    /\ asked => cst = "registering" /\ todo # <<>>

\* The frame the client may have under way before it is active, and the reply.
Asks(f) ==
    \/ cst = "login" /\ f.type = "Login"
    \/ cst = "registering" /\ asked /\ f.type = "Register" /\ f.ep = Head(todo)
Answers(r) ==
    \/ cst = "login" /\ r.type \in {"LoginOk", "LoginErr"}
    \/ cst = "registering" /\ asked /\ r.type \in {"RegisterOk", "RegisterErr"} /\ r.ep = Head(todo)

\* At most one frame is under way on a tunnel that is not cut off, until the
\* session is active: the client's request, the reply the handler has in hand,
\* or the reply it wrote.
Quiet(t) == inbox[t] = <<>> /\ reply[t] = NoReply /\ outbox[t] = <<>>
Asking(t, f) == inbox[t] = <<f>> /\ reply[t] = NoReply /\ outbox[t] = <<>> /\ Asks(f)
Replying(t) == inbox[t] = <<>> /\ reply[t] # NoReply /\ outbox[t] = <<>> /\ Answers(reply[t])
Replied(t, r) == inbox[t] = <<>> /\ reply[t] = NoReply /\ outbox[t] = <<r>> /\ Answers(r)
OneUnderWay(t) == \/ Quiet(t) \/ Replying(t)
                  \/ \E f \in Frame : Asking(t, f)
                  \/ \E r \in Reply : Replied(t, r)

\* Then pings and pongs are, any number of them.
Pinging(t) == /\ \A i \in DOMAIN inbox[t] : inbox[t][i].type = "Ping"
              /\ reply[t] # NoReply => reply[t].type = "Pong"
              /\ \A i \in DOMAIN outbox[t] : outbox[t][i].type = "Pong"

Conversation == cur # NoTunnel /\ cur \notin cutoff =>
                    IF cst = "active" THEN Pinging(cur) ELSE OneUnderWay(cur)

\* The inductive invariant; the last of it as long as no public accept fails.
SysInv == /\ IInv /\ SysTypeOK
          /\ IdleIsBlank /\ WrittenIsPastLogin /\ ClientOrder /\ Conversation
          /\ ~AcceptFails => Truthful /\ LiveIsServed
-----------------------------------------------------------------------------
(* The server's half.                                                      *)

\* There is a first transport, and one after each that is not the last.
LEMMA FirstTransport ==
    /\ 1 \in DOMAIN Priority
    /\ \A i \in DOMAIN Priority : i < Len(Priority) => i + 1 \in DOMAIN Priority
  <1>1. Len(Priority) \in Nat /\ DOMAIN Priority = 1..Len(Priority)
    BY PriorityAssumption, LenProperties
  <1>2. Len(Priority) # 0
    BY PriorityAssumption, EmptySeq
  <1> QED
    BY <1>1, <1>2

\* Nothing has happened at first.
LEMMA InitSys == SysInit => SysInv
  <1> SUFFICES ASSUME SysInit PROVE SysInv
    OBVIOUS
  <1>1. IInv /\ Truthful
    BY InitInv, InitTruthful DEF SysInit
  <1>2. SysTypeOK
    <2>1. try \in DOMAIN Priority
      BY FirstTransport DEF SysInit
    <2>2. todo \in Seq(Endpoint)
      BY DEF SysInit
    <2>3. faults \in 0..MaxFaults
      BY ClientAssumption DEF SysInit
    <2> QED
      BY <1>1, <2>1, <2>2, <2>3 DEF SysInit, SysTypeOK, IInv
  <1> QED
    BY <1>1, <1>2, NoValuesAssumption
    DEF SysInit, Init, SysInv, IdleIsBlank, WrittenIsPastLogin, ClientOrder, Conversation, LiveIsServed

\* What the client writes on its tunnel the server's environment allows.
LEMMA PutIsServerStep ==
    ASSUME cur \in Tunnel, NEW f \in Frame, Put(f)
    PROVE  [Next]_vars /\ UNCHANGED loop
  BY DEF Put, Next, EnvNext, ClientSends, portVars, vars

\* For the server a step of the system is a step of TunnelServer, or gives the
\* name of a tunnel that left no trace to a later one.
LEMMA SysStepServer ==
    ASSUME SysTypeOK, ClientOrder, [SysNext]_sysVars
    PROVE  [Next]_vars \/ \E t \in Tunnel : Recycle(t)
  <1> USE DEF SysTypeOK
  <1>1. CASE Redial \/ TransportRefused \/ HandshakeDone \/ Activate \/ HeartbeatLost \/ Cut \/ Break \/ Recover
    BY <1>1 DEF Redial, TransportRefused, HandshakeDone, Activate, HeartbeatLost, Cut, Break, Recover, vars
  <1>2. ASSUME NEW t \in Tunnel, Connect(t) PROVE [Next]_vars
    BY <1>2 DEF Connect, Next, ServerNext
  <1>3. CASE SendLogin \/ SendRegister \/ Ping
    <2>1. cur \in Tunnel
      BY <1>3 DEF SendLogin, SendRegister, Ping, ClientOrder
    <2>2. PICK f \in Frame : Put(f)
      <3>1. CASE SendLogin
        BY <3>1, ClientAssumption DEF SendLogin, Frame
      <3>2. CASE SendRegister
        <4>1. Head(todo) \in Endpoint
          BY <3>2 DEF SendRegister
        <4> QED
          BY <3>2, <4>1 DEF SendRegister, Frame
      <3>3. CASE Ping
        BY <3>3 DEF Ping, Frame
      <3> QED
        BY <1>3, <3>1, <3>2, <3>3
    <2> QED
      BY <2>1, <2>2, PutIsServerStep
  <1>4. CASE LoggedIn \/ LoginDenied \/ Registered \/ Pong
    BY <1>4 DEF LoggedIn, LoginDenied, Registered, Pong, Hears, Next, EnvNext
  <1>5. CASE TunnelClosed \/ HandshakeFails
    BY <1>5 DEF TunnelClosed, HandshakeFails, ServerGone, Next, EnvNext, vars
  <1>6. CASE ServerStep
    BY <1>6 DEF ServerStep, Next, ServerNext
  <1>7. CASE Reset \/ Edit \/ PublicStep
    BY <1>7 DEF Reset, Fault, Edit, PublicStep, Next, EnvNext
  <1>8. CASE UNCHANGED sysVars
    BY <1>8 DEF sysVars
  <1> QED
    BY <1>1, <1>2, <1>3, <1>4, <1>5, <1>6, <1>7, <1>8 DEF SysNext, ClientNext

\* Giving a name back keeps the server's invariant...
LEMMA RecycleInv ==
    ASSUME IInv, NEW t \in Tunnel, Recycle(t)
    PROVE  IInv'
  <1> USE NoValuesAssumption DEF IInv, TypeOK, Recycle
  <1>1. TypeOK'
    BY DEF Phase
  <1>2. OwnedIffHeld' /\ UdpPeersFollowOwner' /\ OpeningHasLoop'
    BY DEF Safe, OwnedIffHeld, UdpPeersFollowOwner, OpeningHasLoop
  <1>3. LoginOrder'
    BY DEF Safe, LoginOrder
  <1>4. OwnersLoggedIn' /\ PermittedPorts'
    BY DEF Safe, OwnersLoggedIn, PermittedPorts
  <1>5. EndedLeavesNoLoop' /\ StoppedForAReason'
    BY DEF Safe, EndedLeavesNoLoop, StoppedForAReason, OwnedIffHeld
  <1>6. RegistryComplete'
    BY DEF Safe, RegistryComplete
  <1> QED
    BY <1>1, <1>2, <1>3, <1>4, <1>5, <1>6 DEF Safe

\* ... and makes no answer untrue.
LEMMA RecycleTruthful ==
    ASSUME IInv, Truthful, NEW t \in Tunnel, Recycle(t)
    PROVE  Truthful'
  BY NoValuesAssumption DEF IInv, TypeOK, Recycle, Truthful, Told, AckedAndLive, Reply

\* Every step keeps the server's invariant, and without failed accepts the truth
\* of its answers.
LEMMA ServerKeeps ==
    ASSUME SysInv, [SysNext]_sysVars
    PROVE  IInv' /\ (~AcceptFails => Truthful')
  <1>1. CASE [Next]_vars
    BY <1>1, StepInv, StepTruthful DEF SysInv, LoopBreaks
  <1>2. ASSUME NEW t \in Tunnel, Recycle(t) PROVE IInv' /\ (~AcceptFails => Truthful')
    BY <1>2, RecycleInv, RecycleTruthful DEF SysInv
  <1> QED
    BY <1>1, <1>2, SysStepServer DEF SysInv

\* Past the login a tunnel stays past the login, no tunnel enters the control
\* loop twice, and, unless an accept fails, the ports with a running loop stay
\* with it while it is served.
PastLogin(t) == phase[t] \in {"serving", "ended", "failed"}
StaysServed(t) ==
    /\ phase[t] # "idle" => phase'[t] # "idle"
    /\ PastLogin(t) => PastLogin(t)'
    /\ PastLogin(t) /\ phase'[t] = "serving" => phase[t] = "serving"
    /\ ~AcceptFails /\ phase'[t] = "serving" => \A e \in Endpoint :
           owner[e] = t /\ loop[e] = "running" => owner'[e] = t /\ loop'[e] = "running"

\* Every step of the server keeps to that.
LEMMA ServedOn ==
    ASSUME IInv, [Next]_vars, NEW t \in Tunnel
    PROVE  StaysServed(t)
  <1> USE NoValuesAssumption DEF StaysServed, PastLogin, connVars, authVars, portVars
  <1>0. TypeOK
    BY DEF IInv
  <1>1. CASE UNCHANGED <<phase, owner, loop>>
    BY <1>1
  <1>2. ASSUME NEW s \in Tunnel, AcceptTunnel(s) \/ NoiseDone(s) \/ NoiseFails(s) \/ AcceptControl(s)
                                 \/ NoControl(s) \/ LoginMissing(s)
        PROVE  StaysServed(t)
    BY <1>0, <1>2 DEF AcceptTunnel, NoiseDone, NoiseFails, AcceptControl, NoControl, LoginMissing, Reads, TypeOK
  <1>3. ASSUME NEW s \in Tunnel, WriteReply(s) \/ WriteFails(s) PROVE StaysServed(t)
    BY <1>0, <1>3 DEF WriteReply, WriteFails, IInv, Safe, LoginOrder, TypeOK
  <1>4. ASSUME NEW s \in Tunnel, RegisterGranted(s) PROVE StaysServed(t)
    BY <1>0, <1>4 DEF RegisterGranted, CanBind, TypeOK
  <1>5. ASSUME NEW s \in Tunnel, ControlClosed(s) \/ HeartbeatTimeout(s) PROVE StaysServed(t)
    <2>1. LeaveLoop(s) /\ phase[s] = "serving"
      BY <1>5 DEF ControlClosed, HeartbeatTimeout, Reads
    <2> QED
      BY <1>0, <2>1 DEF LeaveLoop, Aborted, TypeOK
  <1>6. ASSUME NEW e \in Endpoint, AbortTask(e) \/ LoopBreaks(e) PROVE StaysServed(t)
    <2>1. StopLoop(e) /\ phase' = phase
      BY <1>6 DEF AbortTask, LoopBreaks, StopLoop
    <2>2. AcceptFails \/ loop[e] # "running"
      BY <1>6 DEF AbortTask, LoopBreaks
    <2> QED
      BY <1>0, <2>1, <2>2 DEF StopLoop, TypeOK
  <1>7. ASSUME NEW c \in Conn, RelayEnds(c) PROVE StaysServed(t)
    BY <1>0, <1>7 DEF RelayEnds, LastHandle, TypeOK
  <1>8. ASSUME NEW s \in Tunnel, \/ LoginAccepted(s) \/ LoginRejected(s) \/ RegisterRefused(s) \/ PingRead(s)
                                 \/ OtherRead(s) \/ MuxDropped(s) \/ ClientReads(s) \/ LinkFails(s)
                                 \/ \E f \in Frame : ClientSends(s, f)
        PROVE  UNCHANGED <<phase, owner, loop>>
    BY <1>8 DEF LoginAccepted, LoginRejected, RegisterRefused, PingRead, OtherRead, MuxDropped,
                ClientReads, LinkFails, ClientSends
  <1>9. ASSUME NEW c \in Conn, SubstreamOpens(c) \/ SubstreamFails(c) \/ \E e \in Endpoint : PublicArrives(c, e)
        PROVE  UNCHANGED <<phase, owner, loop>>
    BY <1>9 DEF SubstreamOpens, SubstreamFails, PublicArrives
  <1>10. CASE ConfigSwap \/ UNCHANGED vars
    BY <1>10 DEF ConfigSwap, vars
  <1> QED
    BY <1>1, <1>2, <1>3, <1>4, <1>5, <1>6, <1>7, <1>8, <1>9, <1>10
    DEF Next, ServerNext, EnvNext, Handler

\* A prefix of the empty sequence, or of one of a single element.
LEMMA EmptyCut == \A k \in 0..Len(<<>>) : SubSeq(<<>>, 1, k) = <<>>
  OBVIOUS

\* A prefix of a sequence of one element is that or nothing.
LEMMA SingleCut ==
    ASSUME NEW f \in Frame, NEW k \in 0..Len(<<f>>)
    PROVE  SubSeq(<<f>>, 1, k) \in {<<>>, <<f>>}
  <1>1. <<f>> \in Seq(Frame) /\ Len(<<f>>) = 1
    OBVIOUS
  <1>2. CASE k = 0
    BY <1>2
  <1>3. CASE k = Len(<<f>>)
    BY <1>1, <1>3, SubSeqFull
  <1> QED
    BY <1>1, <1>2, <1>3

\* The server gives a tunnel it has not accepted nothing to hold, and writes
\* nothing before the login.
LEMMA BlankStays ==
    ASSUME IInv, IdleIsBlank, WrittenIsPastLogin, [Next]_vars
    PROVE  IdleIsBlank' /\ WrittenIsPastLogin'
  <1> USE NoValuesAssumption DEF IdleIsBlank, WrittenIsPastLogin, connVars, authVars, portVars
  <1>0. TypeOK
    BY DEF IInv
  <1> DEFINE Goal == IdleIsBlank' /\ WrittenIsPastLogin'
  <1>1. CASE UNCHANGED <<phase, inbox, outbox, reply>>
    BY <1>1
  <1>2. ASSUME NEW s \in Tunnel, AcceptTunnel(s) \/ NoiseDone(s) \/ NoiseFails(s) \/ AcceptControl(s)
                                 \/ NoControl(s) \/ LoginMissing(s)
        PROVE  Goal
    BY <1>0, <1>2, ZenonT(40) DEF AcceptTunnel, NoiseDone, NoiseFails, AcceptControl, NoControl, LoginMissing, Reads, TypeOK
  <1>3. ASSUME NEW s \in Tunnel, WriteReply(s) PROVE Goal
    <2>1. /\ phase[s] \in {"login", "serving"} /\ phase'[s] \in {"serving", "ended"}
          /\ UNCHANGED inbox
          /\ \A t \in Tunnel \ {s} : UNCHANGED <<phase[t], outbox[t], reply[t]>>
      BY <1>0, <1>3 DEF WriteReply, Answer, IInv, Safe, LoginOrder, TypeOK
    <2> QED
      BY <1>0, <2>1 DEF TypeOK
  <1>4. ASSUME NEW s \in Tunnel, WriteFails(s) PROVE Goal
    BY <1>0, <1>4 DEF WriteFails, Answer, TypeOK
  <1>5. ASSUME NEW s \in Tunnel, \/ LoginAccepted(s) \/ LoginRejected(s) \/ RegisterGranted(s)
                                 \/ RegisterRefused(s) \/ PingRead(s) \/ OtherRead(s)
        PROVE  Goal
    <2>1. /\ UNCHANGED <<phase, outbox>> /\ phase[s] \in {"login", "serving"}
          /\ \A t \in Tunnel \ {s} : UNCHANGED <<inbox[t], reply[t]>>
      BY <1>0, <1>5 DEF LoginAccepted, LoginRejected, RegisterGranted, RegisterRefused, PingRead, OtherRead,
                        Reads, TakeFrame, Answer, TypeOK
    <2> QED
      BY <1>0, <2>1 DEF TypeOK
  <1>6. ASSUME NEW s \in Tunnel, ControlClosed(s) \/ HeartbeatTimeout(s) PROVE Goal
    <2>1. LeaveLoop(s)
      BY <1>6 DEF ControlClosed, HeartbeatTimeout
    <2> QED
      BY <1>0, <2>1 DEF LeaveLoop, TypeOK
  <1>7. ASSUME NEW s \in Tunnel, ClientReads(s) PROVE Goal
    BY <1>0, <1>7 DEF ClientReads, TypeOK
  <1>8. ASSUME NEW s \in Tunnel, LinkFails(s) PROVE Goal
    <2>1. PICK k \in 0..Len(inbox[s]) : inbox' = [inbox EXCEPT ![s] = SubSeq(@, 1, k)]
      BY <1>8 DEF LinkFails
    <2>2. inbox[s] = <<>> => inbox'[s] = <<>>
      BY <1>0, <2>1, EmptyCut DEF TypeOK
    <2> QED
      BY <1>0, <1>8, <2>1, <2>2 DEF LinkFails, TypeOK
  <1>9. ASSUME NEW s \in Tunnel, NEW f \in Frame, ClientSends(s, f) PROVE Goal
    BY <1>0, <1>9 DEF ClientSends, TypeOK
  <1>10. ASSUME NEW s \in Tunnel, MuxDropped(s) PROVE Goal
    BY <1>10 DEF MuxDropped
  <1>11. ASSUME NEW e \in Endpoint, AbortTask(e) \/ LoopBreaks(e) PROVE Goal
    BY <1>11 DEF AbortTask, LoopBreaks, StopLoop
  <1>12. ASSUME NEW c \in Conn, \/ SubstreamOpens(c) \/ SubstreamFails(c) \/ RelayEnds(c)
                                \/ \E e \in Endpoint : PublicArrives(c, e)
         PROVE  Goal
    BY <1>12 DEF SubstreamOpens, SubstreamFails, RelayEnds, PublicArrives
  <1>13. CASE ConfigSwap \/ UNCHANGED vars
    BY <1>13 DEF ConfigSwap, vars
  <1> QED
    BY <1>1, <1>2, <1>3, <1>4, <1>5, <1>6, <1>7, <1>8, <1>9, <1>10, <1>11, <1>12, <1>13
    DEF Next, ServerNext, EnvNext, Handler
-----------------------------------------------------------------------------
(* Who speaks next.                                                        *)

Turn(t) == <<inbox[t], reply[t], outbox[t]>>
Mood == <<cst, todo, asked>>

\* As long as neither end of a tunnel does anything, the turn stays.
LEMMA TurnStays ==
    ASSUME NEW t, OneUnderWay(t), UNCHANGED <<Turn(t), Mood>>
    PROVE  OneUnderWay(t)'
  BY DEF OneUnderWay, Quiet, Asking, Replying, Replied, Asks, Answers, Turn, Mood

\* Reading the request is what a handler can do with it: it answers in kind, or
\* ignores it.
LEMMA TurnRead ==
    ASSUME TypeOK, NEW t \in Tunnel, OneUnderWay(t), UNCHANGED Mood,
           \/ LoginAccepted(t) \/ LoginRejected(t) \/ RegisterGranted(t) \/ RegisterRefused(t)
           \/ PingRead(t) \/ OtherRead(t)
    PROVE  OneUnderWay(t)'
  <1> USE NoValuesAssumption DEF Mood
  <1>1. PICK f \in Frame : Asking(t, f)
    BY DEF OneUnderWay, Quiet, Replying, Replied, LoginAccepted, LoginRejected, RegisterGranted,
           RegisterRefused, PingRead, OtherRead, Reads
  <1>2. Head(inbox[t]) = f /\ Tail(inbox[t]) = <<>> /\ outbox[t] = <<>> /\ Asks(f)
    BY <1>1 DEF Asking
  <1>3. inbox'[t] = <<>> /\ outbox'[t] = <<>>
    BY <1>2 DEF LoginAccepted, LoginRejected, RegisterGranted, RegisterRefused, PingRead, OtherRead,
                TakeFrame, TypeOK, connVars
  <1>4. CASE OtherRead(t)
    BY <1>1, <1>3, <1>4 DEF OtherRead, Asking, OneUnderWay, Quiet
  <1>5. CASE LoginAccepted(t) \/ LoginRejected(t)
    <2>1. reply'[t] # NoReply /\ reply'[t].type \in {"LoginOk", "LoginErr"} /\ f.type = "Login"
      BY <1>2, <1>5 DEF LoginAccepted, LoginRejected, Reads, Answer, TypeOK, Reply
    <2> QED
      BY <1>2, <1>3, <2>1 DEF OneUnderWay, Replying, Asks, Answers
  <1>6. CASE RegisterGranted(t) \/ RegisterRefused(t)
    <2>1. /\ reply'[t].type \in {"RegisterOk", "RegisterErr"} /\ reply'[t].ep = f.ep
          /\ f.type = "Register" /\ reply'[t] \in Reply
      BY <1>2, <1>6 DEF RegisterGranted, RegisterRefused, Reads, Answer, TypeOK, Reply, Frame
    <2> QED
      BY <1>2, <1>3, <2>1 DEF OneUnderWay, Replying, Asks, Answers
  <1>7. CASE PingRead(t)
    <2>1. reply'[t] # NoReply /\ reply'[t].type = "Pong" /\ f.type = "Ping"
      BY <1>2, <1>7 DEF PingRead, Reads, Answer, TypeOK, Reply
    <2> QED
      BY <1>2, <1>3, <2>1 DEF OneUnderWay, Replying, Asks, Answers
  <1> QED
    BY <1>4, <1>5, <1>6, <1>7

\* Writing the reply passes the turn to the client, or loses the reply.
LEMMA TurnWritten ==
    ASSUME TypeOK, NEW t \in Tunnel, OneUnderWay(t), UNCHANGED Mood, WriteReply(t) \/ WriteFails(t)
    PROVE  OneUnderWay(t)'
  <1> USE DEF Mood
  <1>1. Replying(t) /\ reply[t] \in Reply
    BY DEF OneUnderWay, Quiet, Asking, Replied, WriteReply, WriteFails, TypeOK
  <1>2. inbox'[t] = <<>> /\ reply'[t] = NoReply
    BY <1>1 DEF WriteReply, WriteFails, Answer, Replying, TypeOK, connVars
  <1>3. CASE WriteReply(t)
    <2>1. outbox'[t] = <<reply[t]>>
      BY <1>1, <1>3 DEF WriteReply, Replying, TypeOK
    <2> QED
      BY <1>1, <1>2, <2>1 DEF Replied, Replying, Answers, OneUnderWay
  <1>4. CASE WriteFails(t)
    BY <1>1, <1>2, <1>4 DEF WriteFails, Replying, OneUnderWay, Quiet
  <1> QED
    BY <1>3, <1>4

\* A tunnel that breaks loses what is under way, or leaves a frame to be read.
LEMMA TurnBroken ==
    ASSUME TypeOK, NEW t \in Tunnel, OneUnderWay(t), UNCHANGED Mood, LinkFails(t)
    PROVE  OneUnderWay(t)'
  <1> USE DEF Mood
  <1>1. PICK k \in 0..Len(inbox[t]) : inbox' = [inbox EXCEPT ![t] = SubSeq(@, 1, k)]
    BY DEF LinkFails
  <1>2. inbox'[t] = SubSeq(inbox[t], 1, k) /\ outbox'[t] = <<>> /\ reply' = reply
    BY <1>1 DEF LinkFails, TypeOK
  <1>3. CASE inbox[t] = <<>>
    <2>1. inbox'[t] = <<>>
      BY <1>2, <1>3, EmptyCut
    <2> QED
      BY <1>2, <1>3, <2>1 DEF OneUnderWay, Quiet, Asking, Replying, Replied, Answers
  <1>4. ASSUME NEW f \in Frame, Asking(t, f) PROVE OneUnderWay(t)'
    <2>1. inbox'[t] \in {<<>>, <<f>>}
      BY <1>2, <1>4, SingleCut DEF Asking
    <2> QED
      BY <1>2, <1>4, <2>1 DEF OneUnderWay, Quiet, Asking, Asks
  <1> QED
    BY <1>3, <1>4 DEF OneUnderWay, Quiet, Replying, Replied

\* No step of the server disturbs the turn.
LEMMA TurnOfServer ==
    ASSUME IInv, NEW t \in Tunnel, OneUnderWay(t), ServerStep
    PROVE  OneUnderWay(t)'
  <1> USE DEF connVars, authVars, portVars
  <1>0. TypeOK /\ UNCHANGED Mood
    BY DEF IInv, ServerStep, client, Mood
  <1>1. CASE UNCHANGED Turn(t)
    BY <1>0, <1>1, TurnStays
  <1>2. ASSUME NEW s \in Tunnel, \/ NoiseDone(s) \/ NoiseFails(s) \/ MuxDropped(s) \/ HeartbeatTimeout(s)
                                 \/ AcceptControl(s) \/ NoControl(s) \/ LoginMissing(s) \/ ControlClosed(s)
        PROVE  UNCHANGED Turn(t)
    BY <1>2 DEF NoiseDone, NoiseFails, MuxDropped, HeartbeatTimeout, AcceptControl, NoControl, LoginMissing,
                ControlClosed, LeaveLoop, Turn
  <1>3. ASSUME NEW e \in Endpoint, AbortTask(e) \/ LoopBreaks(e) PROVE UNCHANGED Turn(t)
    BY <1>3 DEF AbortTask, LoopBreaks, StopLoop, Turn
  <1>6. ASSUME NEW c \in Conn, SubstreamOpens(c) \/ SubstreamFails(c) \/ RelayEnds(c) PROVE UNCHANGED Turn(t)
    BY <1>6 DEF SubstreamOpens, SubstreamFails, RelayEnds, Turn
  <1>4. ASSUME NEW s \in Tunnel, \/ LoginAccepted(s) \/ LoginRejected(s) \/ RegisterGranted(s)
                                 \/ RegisterRefused(s) \/ PingRead(s) \/ OtherRead(s)
        PROVE  OneUnderWay(t)'
    <2>1. CASE s = t
      BY <1>0, <1>4, <2>1, TurnRead
    <2>2. CASE s # t
      <3>1. UNCHANGED Turn(t)
        BY <1>0, <1>4, <2>2 DEF LoginAccepted, LoginRejected, RegisterGranted, RegisterRefused, PingRead,
                                OtherRead, TakeFrame, Answer, TypeOK, Turn
      <3> QED
        BY <1>1, <3>1
    <2> QED
      BY <2>1, <2>2
  <1>5. ASSUME NEW s \in Tunnel, WriteReply(s) \/ WriteFails(s) PROVE OneUnderWay(t)'
    <2>1. CASE s = t
      BY <1>0, <1>5, <2>1, TurnWritten
    <2>2. CASE s # t
      <3>1. UNCHANGED Turn(t)
        BY <1>0, <1>5, <2>2 DEF WriteReply, WriteFails, Answer, TypeOK, Turn
      <3> QED
        BY <1>1, <3>1
    <2> QED
      BY <2>1, <2>2
  <1> QED
    BY <1>1, <1>2, <1>3, <1>4, <1>5, <1>6 DEF ServerStep, Handler

\* Every frame of a sequence is of one type.
Only(q, type) == \A i \in DOMAIN q : q[i].type = type

\* Appending to, taking from and cutting such a sequence leaves one.
LEMMA OnlyKept ==
    ASSUME NEW S, NEW q \in Seq(S), NEW type, Only(q, type)
    PROVE  /\ \A f \in S : f.type = type => Only(Append(q, f), type)
           /\ q # <<>> => Only(Tail(q), type)
           /\ \A k \in 0..Len(q) : Only(SubSeq(q, 1, k), type)
  <1>1. ASSUME NEW f \in S, f.type = type PROVE Only(Append(q, f), type)
    BY <1>1 DEF Only
  <1>2. ASSUME q # <<>> PROVE Only(Tail(q), type)
    BY <1>2 DEF Only
  <1>3. ASSUME NEW k \in 0..Len(q) PROVE Only(SubSeq(q, 1, k), type)
    BY <1>3 DEF Only
  <1> QED
    BY <1>1, <1>2, <1>3

\* What a handler reads and writes on a tunnel that only pings are pings and
\* pongs.
LEMMA PingingStays ==
    ASSUME IInv, NEW t \in Tunnel, Pinging(t), ServerStep
    PROVE  Pinging(t)'
  <1> USE NoValuesAssumption DEF connVars, authVars, portVars
  <1>0. TypeOK /\ inbox[t] \in Seq(Frame) /\ outbox[t] \in Seq(Reply)
    BY DEF IInv, TypeOK
  <1>1. Only(inbox[t], "Ping") /\ Only(outbox[t], "Pong")
    BY DEF Pinging, Only
  <1>2. CASE UNCHANGED Turn(t)
    BY <1>2 DEF Pinging, Turn
  <1>3. ASSUME NEW s \in Tunnel, \/ NoiseDone(s) \/ NoiseFails(s) \/ MuxDropped(s) \/ HeartbeatTimeout(s)
                                 \/ AcceptControl(s) \/ NoControl(s) \/ LoginMissing(s) \/ ControlClosed(s)
        PROVE  UNCHANGED Turn(t)
    BY <1>3 DEF NoiseDone, NoiseFails, MuxDropped, HeartbeatTimeout, AcceptControl, NoControl, LoginMissing,
                ControlClosed, LeaveLoop, Turn
  <1>4. ASSUME NEW e \in Endpoint, AbortTask(e) \/ LoopBreaks(e) PROVE UNCHANGED Turn(t)
    BY <1>4 DEF AbortTask, LoopBreaks, StopLoop, Turn
  <1>5. ASSUME NEW c \in Conn, SubstreamOpens(c) \/ SubstreamFails(c) \/ RelayEnds(c) PROVE UNCHANGED Turn(t)
    BY <1>5 DEF SubstreamOpens, SubstreamFails, RelayEnds, Turn
  <1>6. ASSUME NEW s \in Tunnel, \/ LoginAccepted(s) \/ LoginRejected(s) \/ RegisterGranted(s)
                                 \/ RegisterRefused(s) \/ PingRead(s) \/ OtherRead(s)
        PROVE  Pinging(t)'
    <2>1. CASE s = t
      <3>1. inbox[t] # <<>> /\ Head(inbox[t]).type = "Ping"
        BY <1>0, <1>6, <2>1 DEF LoginAccepted, LoginRejected, RegisterGranted, RegisterRefused, PingRead,
                                OtherRead, Reads, Pinging
      <3>2. PingRead(t)
        BY <1>6, <2>1, <3>1 DEF LoginAccepted, LoginRejected, RegisterGranted, RegisterRefused, OtherRead, Reads
      <3>3. inbox'[t] = Tail(inbox[t]) /\ reply'[t] = [type |-> "Pong"] /\ outbox'[t] = outbox[t]
        BY <1>0, <3>2 DEF PingRead, TakeFrame, Answer, TypeOK
      <3>4. Only(inbox'[t], "Ping")
        BY <1>0, <1>1, <3>1, <3>3, OnlyKept
      <3> QED
        BY <1>1, <3>3, <3>4 DEF Pinging, Only
    <2>2. CASE s # t
      <3>1. UNCHANGED Turn(t)
        BY <1>0, <1>6, <2>2 DEF LoginAccepted, LoginRejected, RegisterGranted, RegisterRefused, PingRead,
                                OtherRead, TakeFrame, Answer, TypeOK, Turn
      <3> QED
        BY <1>2, <3>1
    <2> QED
      BY <2>1, <2>2
  <1>7. ASSUME NEW s \in Tunnel, WriteReply(s) \/ WriteFails(s) PROVE Pinging(t)'
    <2>1. CASE s = t
      <3>1. reply[t] \in Reply /\ reply[t].type = "Pong"
        BY <1>0, <1>7, <2>1 DEF WriteReply, WriteFails, Pinging, TypeOK
      <3>2. inbox'[t] = inbox[t] /\ reply'[t] = NoReply /\ outbox'[t] \in {outbox[t], Append(outbox[t], reply[t])}
        BY <1>0, <1>7, <2>1 DEF WriteReply, WriteFails, Answer, TypeOK
      <3>3. Only(Append(outbox[t], reply[t]), "Pong")
        BY <1>0, <1>1, <3>1, OnlyKept
      <3>4. Only(outbox'[t], "Pong")
        BY <1>1, <3>2, <3>3
      <3> QED
        BY <1>1, <3>2, <3>4 DEF Pinging, Only
    <2>2. CASE s # t
      <3>1. UNCHANGED Turn(t)
        BY <1>0, <1>7, <2>2 DEF WriteReply, WriteFails, Answer, TypeOK, Turn
      <3> QED
        BY <1>2, <3>1
    <2> QED
      BY <2>1, <2>2
  <1> QED
    BY <1>2, <1>3, <1>4, <1>5, <1>6, <1>7 DEF ServerStep, Handler

\* A reset loses pings, and every pong the client has not read.
LEMMA PingingBroken ==
    ASSUME TypeOK, NEW t \in Tunnel, Pinging(t), LinkFails(t)
    PROVE  Pinging(t)'
  <1>1. PICK k \in 0..Len(inbox[t]) : inbox' = [inbox EXCEPT ![t] = SubSeq(@, 1, k)]
    BY DEF LinkFails
  <1>2. inbox'[t] = SubSeq(inbox[t], 1, k) /\ outbox'[t] = <<>> /\ reply' = reply
    BY <1>1 DEF LinkFails, TypeOK
  <1>3. inbox[t] \in Seq(Frame) /\ Only(inbox[t], "Ping")
    BY DEF TypeOK, Pinging, Only
  <1>4. Only(inbox'[t], "Ping")
    BY <1>2, <1>3, OnlyKept
  <1> QED
    BY <1>2, <1>4 DEF Pinging, Only
-----------------------------------------------------------------------------
(* The client's half.                                                      *)

Half == /\ SysTypeOK /\ ClientOrder /\ Conversation
        /\ ~AcceptFails => LiveIsServed

\* What the next transport is, and that there is one.
LEMMA NextIsTransport ==
    ASSUME SysTypeOK, NextTransport
    PROVE  cst' \in {"waiting", "dialing"} /\ try' \in DOMAIN Priority
  BY FirstTransport DEF SysTypeOK, NextTransport

\* A session that ends, or a handshake that fails, leaves nothing behind in the
\* client.
LEMMA HalfLeft ==
    ASSUME TypeOK', DropTunnel, cst' \in {"waiting", "dialing"}, try' \in DOMAIN Priority,
           health' \in Healths, cutoff' \subseteq Tunnel, faults' \in 0..MaxFaults
    PROVE  Half'
  <1>1. /\ todo' = <<>> /\ todo' \in Seq(Endpoint) /\ cur' = NoTunnel /\ asked' = FALSE /\ live' = {}
        /\ faults' \in 0..MaxFaults
    BY DEF DropTunnel
  <1>2. SysTypeOK'
    BY <1>1 DEF SysTypeOK
  <1> QED
    BY <1>1, <1>2 DEF Half, ClientOrder, Conversation, LiveIsServed

\* The client dials: it has no session yet, then a blank tunnel.
LEMMA HalfDials ==
    ASSUME SysInv, TypeOK', Redial \/ TransportRefused \/ \E t \in Tunnel : Connect(t)
    PROVE  Half'
  <1> USE DEF SysInv, SysTypeOK, session, network
  <1>1. CASE Redial \/ TransportRefused
    <2>1. cur' = NoTunnel /\ cst' \in {"waiting", "dialing"} /\ try' \in DOMAIN Priority
      BY <1>1, FirstTransport, NextIsTransport DEF Redial, TransportRefused, ClientOrder
    <2>2. SysTypeOK'
      BY <1>1, <2>1 DEF Redial, TransportRefused
    <2> QED
      BY <1>1, <2>1, <2>2 DEF Redial, TransportRefused, Half, ClientOrder, Conversation, LiveIsServed
  <1>2. ASSUME NEW t \in Tunnel, Connect(t) PROVE Half'
    <2>1. /\ cst' = "handshake" /\ cur' = t /\ todo' = Wanted /\ live' = {}
          /\ UNCHANGED <<try, asked, health, cutoff, faults>>
          /\ cst = "dialing" /\ phase[t] = "idle"
      BY <1>2 DEF Connect, AcceptTunnel
    <2>2. phase'[t] # "idle" /\ Quiet(t)'
      BY <1>2, <2>1 DEF Connect, AcceptTunnel, IdleIsBlank, Quiet, connVars, TypeOK
    <2>3. SysTypeOK'
      BY <2>1, ClientAssumption
    <2>4. asked = FALSE
      BY <2>1 DEF ClientOrder
    <2> QED
      BY <2>1, <2>2, <2>3, <2>4, NoValuesAssumption
      DEF Half, ClientOrder, Conversation, OneUnderWay, LiveIsServed
  <1> QED
    BY <1>1, <1>2

\* Between its steps a client that asked nothing has a quiet tunnel.
LEMMA NothingAsked ==
    ASSUME SysInv, cur # NoTunnel, cur \notin cutoff,
           cst \in {"handshake", "connected"} \/ (cst = "registering" /\ ~asked)
    PROVE  Quiet(cur)
  BY DEF SysInv, Conversation, OneUnderWay, Asking, Replying, Replied, Asks, Answers

\* The client goes on without a word: the handshake is over, or the last answer
\* has come.
LEMMA HalfGoesOn ==
    ASSUME SysInv, TypeOK', HandshakeDone \/ Activate
    PROVE  Half'
  <1> USE DEF SysInv, session, network
  <1>1. UNCHANGED <<vars, try, cur, todo, asked, live, health, cutoff, faults>>
    BY DEF HandshakeDone, Activate
  <1>2. /\ cur # NoTunnel /\ asked = FALSE
        /\ cst \in {"handshake", "registering"} /\ cst' \in {"connected", "active"}
        /\ cst' = "active" <=> cst = "registering"
    BY DEF HandshakeDone, Activate, ClientOrder, SysTypeOK
  <1>3. Conversation'
    <2>1. cur \notin cutoff => Quiet(cur)'
      BY <1>1, <1>2, NothingAsked DEF Quiet, vars
    <2>2. Quiet(cur)' => OneUnderWay(cur)' /\ Pinging(cur)'
      BY DEF OneUnderWay, Pinging, Quiet
    <2> QED
      BY <1>1, <2>1, <2>2 DEF Conversation
  <1>4. SysTypeOK' /\ ClientOrder'
    BY <1>1, <1>2 DEF SysTypeOK, ClientOrder, vars
  <1>5. ~AcceptFails => LiveIsServed'
    BY <1>1, <1>2 DEF LiveIsServed, vars
  <1> QED
    BY <1>3, <1>4, <1>5 DEF Half

\* A frame put on a tunnel with nothing under way is the one under way.
LEMMA PutAsks ==
    ASSUME TypeOK, cur \in Tunnel, Quiet(cur), NEW f \in Frame, Put(f), Asks(f)', cur' = cur, cur \notin cutoff
    PROVE  OneUnderWay(cur)'
  <1>1. ClientSends(cur, f)
    BY DEF Put
  <1>2. inbox'[cur] = <<f>> /\ UNCHANGED <<reply, outbox>>
    BY <1>1 DEF ClientSends, Quiet, TypeOK
  <1> QED
    BY <1>2 DEF OneUnderWay, Asking, Quiet

\* The client's requests: it sends one only when none is under way.
LEMMA HalfAsks ==
    ASSUME SysInv, TypeOK', SendLogin \/ SendRegister
    PROVE  Half'
  <1> USE DEF SysInv, session, network
  <1>1. cur \in Tunnel /\ cst' # "active"
    BY DEF SendLogin, SendRegister, ClientOrder, SysTypeOK
  <1>2. PICK f \in Frame : Put(f) /\ Asks(f)'
    <2>1. CASE SendLogin
      BY <2>1, ClientAssumption DEF SendLogin, Frame, Asks
    <2>2. CASE SendRegister
      <3>1. Head(todo) \in Endpoint
        BY <2>2 DEF SendRegister, SysTypeOK
      <3> QED
        BY <2>2, <3>1 DEF SendRegister, Frame, Asks
    <2> QED
      BY <2>1, <2>2
  <1>3. UNCHANGED <<try, cur, todo, live, health, cutoff, faults>>
    BY DEF SendLogin, SendRegister
  <1>4. UNCHANGED <<phase, owner, loop>>
    BY <1>2 DEF Put, ClientSends, portVars, vars
  <1>5. SysTypeOK'
    BY <1>3 DEF SysTypeOK, SendLogin, SendRegister
  <1>6. ClientOrder'
    BY <1>3, <1>4 DEF ClientOrder, SendLogin, SendRegister
  <1>7. Conversation'
    <2>1. cur \notin cutoff => Quiet(cur)
      BY <1>1, NoValuesAssumption, NothingAsked DEF SendLogin, SendRegister
    <2> QED
      BY <1>1, <1>2, <1>3, <2>1, PutAsks DEF Conversation, IInv
  <1>8. ~AcceptFails => LiveIsServed'
    BY <1>3, <1>4 DEF LiveIsServed, SendLogin, SendRegister, ClientOrder
  <1> QED
    BY <1>5, <1>6, <1>7, <1>8 DEF Half

\* What the client hears before it is active is the reply under way, and then
\* nothing is.
LEMMA HeardAnswer ==
    ASSUME SysInv, NEW types, Hears(types), cst # "active"
    PROVE  /\ cur \in Tunnel /\ cur \notin cutoff
           /\ Head(outbox[cur]) \in Reply /\ Answers(Head(outbox[cur])) /\ Told(cur, Head(outbox[cur]))
           /\ Head(outbox[cur]).type \in types
           /\ PastLogin(cur)
           /\ Quiet(cur)'\/ cur' # cur
           /\ UNCHANGED <<phase, owner, loop>>
  <1> USE DEF SysInv
  <1>1. /\ cur \in Tunnel /\ cur \notin cutoff /\ outbox[cur] # <<>> /\ Head(outbox[cur]).type \in types
        /\ ClientReads(cur)
    BY DEF Hears, SysTypeOK
  <1>2. PICK r \in Reply : Replied(cur, r)
    BY <1>1, NoValuesAssumption DEF Conversation, OneUnderWay, Quiet, Asking, Replying
  <1>3. Head(outbox[cur]) = r /\ Tail(outbox[cur]) = <<>> /\ Len(outbox[cur]) = 1 /\ outbox[cur][1] = r
    BY <1>2 DEF Replied
  <1>4. Quiet(cur)' \/ cur' # cur
    BY <1>1, <1>2, <1>3 DEF ClientReads, Replied, Quiet, IInv, TypeOK
  <1>5. PastLogin(cur)
    BY <1>1 DEF WrittenIsPastLogin, PastLogin
  <1>6. Told(cur, r)
    BY <1>3 DEF Told
  <1> QED
    BY <1>1, <1>2, <1>3, <1>4, <1>5, <1>6 DEF Replied, ClientReads, portVars

\* The client's answers: each takes the reply under way, and a proxy counts as
\* live only after the server has said so.
LEMMA HalfHears ==
    ASSUME SysInv, TypeOK', LoggedIn \/ Registered
    PROVE  Half'
  <1> USE DEF SysInv, session, network
  <1>1. /\ cur \in Tunnel /\ cur \notin cutoff /\ PastLogin(cur)
        /\ Head(outbox[cur]) \in Reply /\ Answers(Head(outbox[cur])) /\ Told(cur, Head(outbox[cur]))
        /\ Quiet(cur)' \/ cur' # cur
        /\ UNCHANGED <<phase, owner, loop>>
    BY HeardAnswer DEF LoggedIn, Registered
  <1>2. UNCHANGED <<try, cur, health, cutoff, faults>> /\ cst' = "registering"
    BY DEF LoggedIn, Registered
  <1>3. Conversation'
    BY <1>1, <1>2 DEF Conversation, OneUnderWay
  <1>4. CASE LoggedIn
    <2>1. live = {} /\ asked = FALSE
      BY <1>4 DEF LoggedIn, ClientOrder, SysTypeOK
    <2> QED
      BY <1>1, <1>2, <1>3, <1>4, <2>1 DEF LoggedIn, Half, SysTypeOK, ClientOrder, LiveIsServed, PastLogin
  <1>5. CASE Registered
    <2>1. todo # <<>> /\ Head(todo) \in Endpoint /\ Tail(todo) \in Seq(Endpoint)
      BY <1>5 DEF Registered, ClientOrder, SysTypeOK
    <2>2. live' \subseteq Endpoint
      BY <1>5, <2>1 DEF Registered, SysTypeOK
    <2>3. SysTypeOK' /\ ClientOrder'
      BY <1>1, <1>2, <1>5, <2>1, <2>2 DEF Registered, SysTypeOK, ClientOrder
    <2>4. ASSUME ~AcceptFails, phase[cur] = "serving", NEW e \in live'
          PROVE  owner[e] = cur /\ loop[e] = "running"
      <3>1. CASE e \in live
        BY <1>5, <2>4, <3>1 DEF Registered, LiveIsServed
      <3>2. CASE e \notin live
        <4>1. e = Head(todo) /\ Head(outbox[cur]).type = "RegisterOk"
          BY <1>5, <2>4, <3>2 DEF Registered
        <4>2. Head(outbox[cur]).ep = Head(todo)
          BY <1>1, <1>5 DEF Answers, Registered
        <4> QED
          BY <1>1, <2>4, <4>1, <4>2 DEF Truthful, AckedAndLive
      <3> QED
        BY <3>1, <3>2
    <2>5. ~AcceptFails => LiveIsServed'
      BY <1>1, <1>2, <1>5, <2>4 DEF Registered, LiveIsServed, PastLogin
    <2> QED
      BY <1>3, <2>3, <2>5 DEF Half
  <1> QED
    BY <1>4, <1>5

\* A step that leaves the client's variables alone leaves it its half, if its
\* tunnel stays with what it serves, and is cut off or goes on as it should.
LEMMA HalfWaits ==
    ASSUME SysInv, TypeOK', UNCHANGED client,
           health' \in Healths, cutoff' \subseteq Tunnel, faults' \in 0..MaxFaults,
           cur # NoTunnel => StaysServed(cur),
           cur # NoTunnel /\ cur \notin cutoff' =>
               IF cst = "active" THEN Pinging(cur)' ELSE OneUnderWay(cur)'
    PROVE  Half'
  <1> USE DEF client, SysInv
  <1>1. SysTypeOK'
    BY DEF SysTypeOK
  <1>2. ClientOrder'
    BY DEF ClientOrder, StaysServed
  <1>3. Conversation'
    BY DEF Conversation
  <1>4. ~AcceptFails => LiveIsServed'
    BY DEF LiveIsServed, StaysServed, PastLogin, ClientOrder, SysTypeOK
  <1> QED
    BY <1>1, <1>2, <1>3, <1>4 DEF Half

\* As long as neither end of a tunnel does anything, its conversation stays.
LEMMA TalkStays ==
    ASSUME SysInv, UNCHANGED <<Turn(cur), client>>, cur # NoTunnel, cur \notin cutoff
    PROVE  IF cst = "active" THEN Pinging(cur)' ELSE OneUnderWay(cur)'
  <1>1. UNCHANGED <<Mood, cur>>
    BY DEF client, Mood
  <1>2. CASE cst = "active"
    <2>1. Pinging(cur)
      BY <1>2 DEF SysInv, Conversation
    <2> QED
      BY <1>1, <1>2, <2>1 DEF Pinging, Turn
  <1>3. CASE cst # "active"
    <2>1. OneUnderWay(cur)
      BY <1>3 DEF SysInv, Conversation
    <2>2. OneUnderWay(cur)'
      BY <1>1, <2>1, TurnStays
    <2> QED
      BY <1>3, <2>2
  <1> QED
    BY <1>2, <1>3

\* An active client sends its pings and takes the pongs, and nothing else is
\* under way.
LEMMA HalfPings ==
    ASSUME SysInv, TypeOK', Ping \/ Pong
    PROVE  Half'
  <1> USE DEF SysInv, network
  <1>1. cst = "active" /\ cur \in Tunnel /\ UNCHANGED <<client, health, cutoff, faults>>
    BY DEF Ping, Pong, ClientOrder, SysTypeOK
  <1>2. [Next]_vars /\ StaysServed(cur)
    <2>1. CASE Ping
      <3>1. [type |-> "Ping"] \in Frame
        BY DEF Frame
      <3> QED
        BY <1>1, <2>1, <3>1, PutIsServerStep, ServedOn DEF Ping
    <2>2. CASE Pong
      <3>1. [Next]_vars
        BY <1>1, <2>2 DEF Pong, Hears, Next, EnvNext
      <3> QED
        BY <1>1, <3>1, ServedOn
    <2> QED
      BY <2>1, <2>2
  <1>3. ASSUME cur \notin cutoff PROVE Pinging(cur)'
    <2>1. /\ inbox[cur] \in Seq(Frame) /\ outbox[cur] \in Seq(Reply)
          /\ Only(inbox[cur], "Ping") /\ Only(outbox[cur], "Pong")
          /\ reply[cur] # NoReply => reply[cur].type = "Pong"
      BY <1>1, <1>3, NoValuesAssumption DEF Conversation, Pinging, Only, IInv, TypeOK
    <2>2. CASE Ping
      <3> DEFINE f == [type |-> "Ping"]
      <3>1. inbox'[cur] = Append(inbox[cur], f) /\ UNCHANGED <<reply, outbox, cur>>
        BY <1>1, <1>3, <2>2 DEF Ping, Put, ClientSends, IInv, TypeOK, client
      <3>2. f \in Frame /\ f.type = "Ping"
        BY DEF Frame
      <3>3. Only(inbox'[cur], "Ping")
        BY <2>1, <3>1, <3>2, OnlyKept
      <3> QED
        BY <2>1, <3>1, <3>3 DEF Pinging, Only
    <2>3. CASE Pong
      <3>1. outbox[cur] # <<>> /\ outbox'[cur] = Tail(outbox[cur]) /\ UNCHANGED <<inbox, reply, cur>>
        BY <1>1, <2>3 DEF Pong, Hears, ClientReads, IInv, TypeOK, client
      <3>2. Only(outbox'[cur], "Pong")
        BY <2>1, <3>1, OnlyKept
      <3> QED
        BY <2>1, <3>1, <3>2 DEF Pinging, Only
    <2> QED
      BY <2>2, <2>3
  <1> QED
    BY <1>1, <1>2, <1>3, HalfWaits DEF SysTypeOK

\* The server's steps, the network's, and a name given back.
LEMMA HalfOfOthers ==
    ASSUME SysInv, [SysNext]_sysVars, TypeOK',
           \/ ServerStep \/ PublicStep \/ Edit \/ Reset \/ Cut \/ Recover
           \/ UNCHANGED sysVars \/ \E t \in Tunnel : Recycle(t)
    PROVE  Half'
  <1> USE DEF SysInv, network
  <1>0. cur # NoTunnel => cur \in Tunnel
    BY DEF SysTypeOK
  <1>1. ASSUME [Next]_vars, cur # NoTunnel PROVE StaysServed(cur)
    BY <1>0, <1>1, ServedOn
  <1>2. CASE ServerStep
    <2>1. [Next]_vars /\ UNCHANGED <<client, health, cutoff, faults>>
      BY <1>2 DEF ServerStep, Next, ServerNext
    <2>2. ASSUME cur # NoTunnel, cur \notin cutoff
          PROVE  IF cst = "active" THEN Pinging(cur)' ELSE OneUnderWay(cur)'
      <3>1. UNCHANGED cur
        BY <2>1 DEF client
      <3> QED
        BY <1>0, <1>2, <2>2, <3>1, TurnOfServer, PingingStays DEF Conversation
    <2> QED
      BY <1>1, <2>1, <2>2, HalfWaits DEF SysTypeOK
  <1>3. CASE Reset
    <2>1. /\ UNCHANGED <<client, cutoff>> /\ LinkFails(cur) /\ cur \in Tunnel /\ cur \notin cutoff
          /\ health' \in Healths /\ faults' \in 0..MaxFaults
      BY <1>0, <1>3, ClientAssumption DEF Reset, Fault, SysTypeOK
    <2>2. [Next]_vars /\ UNCHANGED <<Mood, cur>> /\ TypeOK
      BY <2>1 DEF Next, EnvNext, client, Mood, IInv
    <2>3. IF cst = "active" THEN Pinging(cur)' ELSE OneUnderWay(cur)'
      <3>1. CASE cst = "active"
        <4>1. Pinging(cur)
          BY <1>0, <1>3, <2>1, <3>1 DEF Conversation, Reset, Fault
        <4> QED
          BY <2>1, <2>2, <3>1, <4>1, PingingBroken
      <3>2. CASE cst # "active"
        <4>1. OneUnderWay(cur)
          BY <1>0, <1>3, <2>1, <3>2 DEF Conversation, Reset, Fault
        <4> QED
          BY <2>1, <2>2, <3>2, <4>1, TurnBroken
      <3> QED
        BY <3>1, <3>2
    <2> QED
      BY <1>1, <2>1, <2>2, <2>3, HalfWaits DEF SysTypeOK
  <1>4. CASE PublicStep \/ Edit \/ Cut \/ Recover \/ UNCHANGED sysVars
    <2>1. UNCHANGED <<client, inbox, reply, outbox>>
      BY <1>4 DEF PublicStep, PublicArrives, Edit, ConfigSwap, Cut, Recover, sysVars, vars, connVars
    <2>2. [Next]_vars
      BY <1>4 DEF PublicStep, Edit, Cut, Recover, sysVars, Next, EnvNext
    <2>3. health' \in Healths /\ cutoff' \subseteq Tunnel /\ faults' \in 0..MaxFaults /\ cutoff \subseteq cutoff'
      BY <1>0, <1>4, ClientAssumption DEF PublicStep, Edit, Cut, Fault, Recover, sysVars, SysTypeOK
    <2>4. UNCHANGED <<Turn(cur), client>>
      BY <2>1 DEF Turn, client
    <2> QED
      BY <1>1, <2>1, <2>2, <2>3, <2>4, TalkStays, HalfWaits
  <1>5. ASSUME NEW t \in Tunnel, Recycle(t) PROVE Half'
    <2>1. UNCHANGED <<client, owner, loop, health, faults>> /\ t # cur /\ cutoff' = cutoff \ {t}
      BY <1>5 DEF Recycle
    <2>2. cur # NoTunnel => UNCHANGED <<Turn(cur), phase[cur]>>
      BY <1>0, <1>5 DEF Recycle, IInv, TypeOK, Turn, client
    <2>3. cur # NoTunnel => StaysServed(cur)
      BY <2>1, <2>2 DEF StaysServed, PastLogin, client
    <2>4. cur # NoTunnel /\ cur \notin cutoff' =>
              IF cst = "active" THEN Pinging(cur)' ELSE OneUnderWay(cur)'
      BY <2>1, <2>2, TalkStays
    <2> QED
      BY <2>1, <2>3, <2>4, HalfWaits DEF SysTypeOK
  <1> QED
    BY <1>2, <1>3, <1>4, <1>5
-----------------------------------------------------------------------------
(* The theorems.                                                           *)

\* Every step of client, server and network keeps the client's half.
LEMMA StepHalf == ASSUME SysInv, [SysNext]_sysVars, TypeOK' PROVE Half'
  <1>0. SysTypeOK
    BY DEF SysInv
  <1>1. CASE Redial \/ TransportRefused \/ \E t \in Tunnel : Connect(t)
    BY <1>1, HalfDials
  <1>2. CASE SendLogin \/ SendRegister
    BY <1>2, HalfAsks
  <1>3. CASE LoggedIn \/ Registered
    BY <1>3, HalfHears
  <1>4. CASE HandshakeDone \/ Activate
    BY <1>4, HalfGoesOn
  <1>5. CASE Ping \/ Pong
    BY <1>5, HalfPings
  <1>6. CASE LoginDenied \/ TunnelClosed \/ HeartbeatLost \/ HandshakeFails
    <2>1. DropTunnel /\ UNCHANGED <<health, cutoff, faults>>
      BY <1>6 DEF LoginDenied, TunnelClosed, HeartbeatLost, HandshakeFails, Leave, LeaveSession, network
    <2>2. cst' \in {"waiting", "dialing"} /\ try' \in DOMAIN Priority
      BY <1>0, <1>6, NextIsTransport
      DEF LoginDenied, TunnelClosed, HeartbeatLost, HandshakeFails, Leave, LeaveSession, SysTypeOK
    <2> QED
      BY <1>0, <2>1, <2>2, HalfLeft DEF SysTypeOK
  <1>7. CASE Break
    <2>1. /\ DropTunnel /\ cst' \in {"waiting", "dialing"} /\ try' \in DOMAIN Priority
          /\ health' \in Healths /\ cutoff' \subseteq Tunnel /\ faults' \in 0..MaxFaults
      BY <1>0, <1>7, ClientAssumption DEF Break, Leave, Fault, SysTypeOK
    <2> QED
      BY <2>1, HalfLeft
  <1> QED
    BY <1>1, <1>2, <1>3, <1>4, <1>5, <1>6, <1>7, HalfOfOthers DEF SysNext, ClientNext

\* Every step keeps the inductive invariant.
LEMMA StepSys == SysInv /\ [SysNext]_sysVars => SysInv'
  <1> SUFFICES ASSUME SysInv, [SysNext]_sysVars PROVE SysInv'
    OBVIOUS
  <1>1. IInv' /\ (~AcceptFails => Truthful')
    BY ServerKeeps
  <1>2. IdleIsBlank' /\ WrittenIsPastLogin'
    <2>1. CASE [Next]_vars
      BY <2>1, BlankStays DEF SysInv
    <2>2. ASSUME NEW t \in Tunnel, Recycle(t) PROVE IdleIsBlank' /\ WrittenIsPastLogin'
      BY <2>2 DEF SysInv, IdleIsBlank, WrittenIsPastLogin, Recycle, IInv, TypeOK
    <2> QED
      BY <2>1, <2>2, SysStepServer DEF SysInv
  <1>3. Half'
    BY <1>1, StepHalf DEF IInv
  <1> QED
    BY <1>1, <1>2, <1>3 DEF SysInv, Half

\* The inductive invariant holds of every reachable state of the system.
THEOREM SysInvariance == SysSpec => []SysInv
  BY InitSys, StepSys, PTL DEF SysSpec

\* Client, server and network keep their types.
THEOREM SysTypeCorrect == SysSpec => []SysTypeOK
  <1>1. SysInv => SysTypeOK
    BY DEF SysInv
  <1> QED
    BY <1>1, SysInvariance, PTL

\* With this client, and with names of tunnels used again and again, the server
\* keeps what it promises any client: ports only to those who may have them, no
\* loop left behind when a control loop is left, a complete registry, and, as
\* long as no public accept fails, no untrue answer.
THEOREM ServerKeepsPromises ==
    SysSpec => []( /\ PermittedPorts /\ EndedLeavesNoLoop /\ RegistryComplete
                   /\ ~AcceptFails => AckIsLive )
  <1>1. SysInv => /\ PermittedPorts /\ EndedLeavesNoLoop /\ RegistryComplete
                  /\ ~AcceptFails => AckIsLive
    BY TruthfulIsLive DEF SysInv, IInv, Safe
  <1> QED
    BY <1>1, SysInvariance, PTL

\* Unless a public accept fails, the proxies the client counts as live in its
\* session are served by the server on that very tunnel, until the handler of
\* the tunnel is over.  An accept that fails ends the loop of its port
\* (server.rs:435), and the client is not told.
THEOREM LiveAlwaysServed == ASSUME ~AcceptFails PROVE SysSpec => []LiveIsServed
  <1>1. SysInv => LiveIsServed
    BY DEF SysInv
  <1> QED
    BY <1>1, SysInvariance, PTL

\* One frame on one side, or none on either, is at most one under way.
LEMMA FramesUnderWay ==
    \A q, r : /\ q = <<>> /\ r = <<>> => Len(q) + Len(r) <= 1
              /\ \A f : (q = <<f>> /\ r = <<>>) \/ (q = <<>> /\ r = <<f>>) => Len(q) + Len(r) <= 1
  <1>1. Len(<<>>) = 0 /\ \A f : Len(<<f>>) = 1
    OBVIOUS
  <1>2. ASSUME NEW q, NEW r, q = <<>>, r = <<>> PROVE Len(q) + Len(r) <= 1
    <2>1. Len(q) = 0 /\ Len(r) = 0
      BY <1>1, <1>2
    <2> QED
      BY <2>1
  <1>3. ASSUME NEW q, NEW r, NEW f, q = <<f>>, r = <<>> PROVE Len(q) + Len(r) <= 1
    <2>1. Len(q) = 1 /\ Len(r) = 0
      BY <1>1, <1>3
    <2> QED
      BY <2>1
  <1>4. ASSUME NEW q, NEW r, NEW f, q = <<>>, r = <<f>> PROVE Len(q) + Len(r) <= 1
    <2>1. Len(q) = 0 /\ Len(r) = 1
      BY <1>1, <1>4
    <2> QED
      BY <2>1
  <1> QED
    BY <1>2, <1>3, <1>4

\* Until the session is active the answer a client reads is the one to its last
\* request, whichever requests, answers, faults and reconnections came before;
\* from then on nothing but pings and pongs, in any number, crosses the tunnel.
THEOREM AlwaysLockstep == SysSpec => []Lockstep
  <1>1. SysInv => Lockstep
    <2> SUFFICES ASSUME SysInv, cur # NoTunnel, cur \notin cutoff
                 PROVE  /\ cst # "active" => Len(outbox[cur]) + Len(inbox[cur]) <= 1
                        /\ cst = "registering" /\ ~asked => outbox[cur] = <<>> /\ inbox[cur] = <<>>
                        /\ cst = "registering" /\ outbox[cur] # <<>> =>
                              /\ Head(outbox[cur]).type \in {"RegisterOk", "RegisterErr"}
                              /\ Head(outbox[cur]).ep = Head(todo)
                        /\ cst = "active" => Pinging(cur)
      BY DEF Lockstep, Pinging
    <2>1. CASE cst = "active"
      BY <2>1 DEF SysInv, Conversation
    <2>2. CASE cst # "active"
      <3>1. OneUnderWay(cur)
        BY <2>2 DEF SysInv, Conversation
      <3>2. CASE Quiet(cur) \/ Replying(cur)
        <4>1. outbox[cur] = <<>> /\ inbox[cur] = <<>>
          BY <3>2 DEF Quiet, Replying
        <4> QED
          BY <2>2, <4>1, FramesUnderWay
      <3>3. ASSUME NEW f \in Frame, Asking(cur, f)
            PROVE  /\ Len(outbox[cur]) + Len(inbox[cur]) <= 1 /\ outbox[cur] = <<>>
                   /\ cst = "registering" => asked
        <4>1. outbox[cur] = <<>> /\ inbox[cur] = <<f>> /\ (cst = "registering" => asked)
          BY <3>3 DEF Asking, Asks
        <4> QED
          BY <4>1, FramesUnderWay
      <3>4. ASSUME NEW r \in Reply, Replied(cur, r)
            PROVE  /\ Len(outbox[cur]) + Len(inbox[cur]) <= 1
                   /\ cst = "registering" => /\ asked
                                             /\ Head(outbox[cur]).type \in {"RegisterOk", "RegisterErr"}
                                             /\ Head(outbox[cur]).ep = Head(todo)
        <4>1. outbox[cur] = <<r>> /\ inbox[cur] = <<>> /\ Head(<<r>>) = r /\ Answers(r)
          BY <3>4 DEF Replied
        <4> QED
          BY <4>1, FramesUnderWay DEF Answers
      <3> QED
        BY <2>2, <3>1, <3>2, <3>3, <3>4 DEF OneUnderWay
    <2> QED
      BY <2>1, <2>2
  <1> QED
    BY <1>1, SysInvariance, PTL
=============================================================================

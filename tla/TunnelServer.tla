---------------------------- MODULE TunnelServer ----------------------------
(***************************************************************************)
(* The relay server's side of its client tunnels (rs_srpd/src/server.rs):  *)
(* the per-tunnel handler from the Noise handshake to its return, the      *)
(* public-port tasks it spawns, the connections those tasks relay, and the *)
(* dashboard registry it keeps.  Every await at which another task can run *)
(* and matter is a step boundary; in particular binding a public port and  *)
(* writing the reply to the client are two steps.                          *)
(*                                                                         *)
(* The clients and the network are the environment: a client may send any  *)
(* frame at any time, and a link may fail at any time, leaving a prefix of  *)
(* the frames sent so far for the server to read.  Names of proxies are    *)
(* data the server only carries, so a proxy is its public endpoint.        *)
(***************************************************************************)
EXTENDS Naturals, Sequences, FiniteSets

CONSTANTS
    Tunnel,        \* tunnels; each is accepted at most once
    Conn,          \* public TCP connections and UDP peers
    Name, Token,   \* user names and their secrets
    Port,          \* public ports
    Configs,       \* the user tables the server config may hold
    OsBusy,        \* endpoints other programs of the host have bound
    AcceptFails,   \* TRUE if accept/recv on a bound socket may return an error
    MaxInFlight,   \* bound: frames of one tunnel not yet read or answered
    NoTunnel, NoUser, NoReply, NoRelay

Kind == {"tcp", "udp"}
Endpoint == [kind : Kind, port : Port]
User == [name : Name, token : Token, ports : SUBSET Port]

Frame == [type : {"Login"}, name : Name, token : Token]
         \cup [type : {"Register"}, ep : Endpoint]
         \cup [type : {"Ping", "Other", "Garbage"}]
Reply == [type : {"LoginOk", "LoginErr", "Pong"}]
         \cup [type : {"RegisterOk", "RegisterErr"}, ep : Endpoint]
Relay == [tun : Tunnel, ep : Endpoint, st : {"opening", "relaying"}]

Phase == {"idle", "noise", "control", "login", "serving", "ended", "failed"}

ASSUME ConfigsAssumption == Configs # {} /\ Configs \subseteq SUBSET User
ASSUME SwitchAssumption == AcceptFails \in BOOLEAN /\ OsBusy \subseteq Endpoint
ASSUME NoValuesAssumption ==
    NoTunnel \notin Tunnel /\ NoUser \notin User /\ NoReply \notin Reply /\ NoRelay \notin Relay

VARIABLES
    config,      \* the shared config: the current table of users
    phase,       \* where each tunnel's handler is
    link,        \* the handler's byte stream: "none", "up" or "down"
    inbox,       \* control frames that reached the server, unread
    outbox,      \* control frames the server wrote, unread by the client
    reply,       \* the reply a handler is about to write, or NoReply
    snap,        \* the config snapshot of each tunnel
    user,        \* the user each tunnel logged in as, or NoUser
    registry,    \* the dashboard's live tunnels: a set of proxies for each
    owner,       \* the tunnel whose socket holds each public endpoint
    loop,        \* the task behind each endpoint
    relay        \* what each public connection is doing

connVars == <<inbox, outbox, reply>>
authVars == <<snap, user>>
portVars == <<owner, loop>>
vars == <<config, phase, link, inbox, outbox, reply, snap, user, registry,
          owner, loop, relay>>

Init == /\ config \in Configs
        /\ phase = [t \in Tunnel |-> "idle"]
        /\ link = [t \in Tunnel |-> "none"]
        /\ inbox = [t \in Tunnel |-> <<>>]
        /\ outbox = [t \in Tunnel |-> <<>>]
        /\ reply = [t \in Tunnel |-> NoReply]
        /\ snap = [t \in Tunnel |-> {}]
        /\ user = [t \in Tunnel |-> NoUser]
        /\ registry = [t \in {} |-> {}]
        /\ owner = [e \in Endpoint |-> NoTunnel]
        /\ loop = [e \in Endpoint |-> "none"]
        /\ relay = [c \in Conn |-> NoRelay]
-----------------------------------------------------------------------------
(* The tunnel handler, up to the login.                                    *)

\* A listener accepts a byte stream and spawns its handler, which starts the
\* Noise handshake.
AcceptTunnel(t) ==
    /\ phase[t] = "idle"
    /\ phase' = [phase EXCEPT ![t] = "noise"]
    /\ link' = [link EXCEPT ![t] = "up"]
    /\ UNCHANGED <<config, connVars, authVars, registry, portVars, relay>>

\* The handshake completes (both sides hold the same secret) and the
\* multiplexer starts.
NoiseDone(t) ==
    /\ phase[t] = "noise" /\ link[t] = "up"
    /\ phase' = [phase EXCEPT ![t] = "control"]
    /\ UNCHANGED <<config, link, connVars, authVars, registry, portVars, relay>>

\* The handshake fails: wrong secret, bad message or a broken stream.  The
\* handler returns and drops the stream.
NoiseFails(t) ==
    /\ phase[t] = "noise"
    /\ phase' = [phase EXCEPT ![t] = "failed"]
    /\ link' = [link EXCEPT ![t] = "down"]
    /\ UNCHANGED <<config, connVars, authVars, registry, portVars, relay>>

\* yamux announces a substream with its first frame; the handler takes the
\* substream and the config snapshot without waiting in between.
AcceptControl(t) ==
    /\ phase[t] = "control" /\ inbox[t] # <<>>
    /\ phase' = [phase EXCEPT ![t] = "login"]
    /\ snap' = [snap EXCEPT ![t] = config]
    /\ UNCHANGED <<config, link, connVars, user, registry, portVars, relay>>

\* The connection ends with no control substream opened.
NoControl(t) ==
    /\ phase[t] = "control" /\ inbox[t] = <<>> /\ link[t] = "down"
    /\ phase' = [phase EXCEPT ![t] = "failed"]
    /\ UNCHANGED <<config, link, connVars, authVars, registry, portVars, relay>>

Matches(u, f) == u.name = f.name /\ u.token = f.token

\* Reading the next control frame of t takes it off the stream.
TakeFrame(t) == inbox' = [inbox EXCEPT ![t] = Tail(@)]
Answer(t, r) == reply' = [reply EXCEPT ![t] = r]

\* The handler of t can read frame f in phase ph.
Reads(t, ph, types) ==
    /\ phase[t] = ph /\ reply[t] = NoReply
    /\ inbox[t] # <<>> /\ Head(inbox[t]).type \in types

LoginAccepted(t) ==
    /\ Reads(t, "login", {"Login"})
    /\ \E u \in snap[t] : /\ Matches(u, Head(inbox[t]))
                          /\ user' = [user EXCEPT ![t] = u]
    /\ TakeFrame(t) /\ Answer(t, [type |-> "LoginOk"])
    /\ UNCHANGED <<config, phase, link, outbox, snap, registry, portVars, relay>>

LoginRejected(t) ==
    /\ Reads(t, "login", {"Login"})
    /\ \A u \in snap[t] : ~Matches(u, Head(inbox[t]))
    /\ TakeFrame(t) /\ Answer(t, [type |-> "LoginErr"])
    /\ UNCHANGED <<config, phase, link, outbox, authVars, registry, portVars, relay>>

\* Anything but a Login, or the end of the stream, fails the handler.
LoginMissing(t) ==
    /\ \/ Reads(t, "login", {"Register", "Ping", "Other", "Garbage"})
       \/ /\ phase[t] = "login" /\ reply[t] = NoReply
          /\ inbox[t] = <<>> /\ link[t] = "down"
    /\ phase' = [phase EXCEPT ![t] = "failed"]
    /\ UNCHANGED <<config, link, connVars, authVars, registry, portVars, relay>>
-----------------------------------------------------------------------------
(* Writing a reply: one write for every branch of the handler.             *)

\* Seeded bug: nothing unlists a tunnel whose handler returns.
UnlistNever(t) == registry

Unlist(t) == [s \in DOMAIN registry \ {t} |-> registry[s]]

\* The write succeeds.  After LoginOk the tunnel enters the registry and its
\* control loop; after LoginErr the handler returns.
WriteReply(t) ==
    /\ reply[t] # NoReply /\ link[t] = "up"
    /\ outbox' = [outbox EXCEPT ![t] = Append(@, reply[t])]
    /\ Answer(t, NoReply)
    /\ phase' = [phase EXCEPT ![t] = IF reply[t].type = "LoginOk" THEN "serving"
                                  ELSE IF reply[t].type = "LoginErr" THEN "ended" ELSE @]
    /\ registry' = IF reply[t].type = "LoginOk"
                   THEN [s \in DOMAIN registry \cup {t} |->
                           IF s = t THEN {} ELSE registry[s]]
                   ELSE registry
    /\ UNCHANGED <<config, link, inbox, authVars, portVars, relay>>

\* The write fails and `?` returns from the handler at once: TunnelReg's drop
\* unlists the tunnel, and the proxy tasks are neither awaited nor aborted.
WriteFails(t) ==
    /\ reply[t] # NoReply /\ link[t] = "down"
    /\ Answer(t, NoReply)
    /\ phase' = [phase EXCEPT ![t] = "failed"]
    /\ registry' = Unlist(t)
    /\ UNCHANGED <<config, link, inbox, outbox, authVars, portVars, relay>>
-----------------------------------------------------------------------------
(* The control loop.                                                       *)

\* Seeded bug: no permission check.
AllowedUnchecked(t, e) == TRUE

\* port_allowed, over the user record copied at login.
Allowed(t, e) == e.port \in user[t].ports

\* Seeded bug: sockets bound with SO_REUSEPORT.
CanBindShared(e) == e \notin OsBusy

\* bind succeeds exactly on an endpoint nobody holds.
CanBind(e) == owner[e] = NoTunnel /\ e \notin OsBusy

\* The proxy is listed on the dashboard before anything is checked.
ListProxy(t, e) == registry' = [registry EXCEPT ![t] = @ \cup {e}]

RegisterGranted(t) ==
    /\ Reads(t, "serving", {"Register"})
    /\ LET e == Head(inbox[t]).ep IN
       /\ Allowed(t, e) /\ CanBind(e)
       /\ owner' = [owner EXCEPT ![e] = t]
       /\ loop' = [loop EXCEPT ![e] = "running"]
       /\ ListProxy(t, e)
       /\ Answer(t, [type |-> "RegisterOk", ep |-> e])
    /\ TakeFrame(t)
    /\ UNCHANGED <<config, phase, link, outbox, authVars, relay>>

RegisterRefused(t) ==
    /\ Reads(t, "serving", {"Register"})
    /\ LET e == Head(inbox[t]).ep IN
       /\ ~(Allowed(t, e) /\ CanBind(e))
       /\ ListProxy(t, e)
       /\ Answer(t, [type |-> "RegisterErr", ep |-> e])
    /\ TakeFrame(t)
    /\ UNCHANGED <<config, phase, link, outbox, authVars, portVars, relay>>

PingRead(t) ==
    /\ Reads(t, "serving", {"Ping"})
    /\ TakeFrame(t) /\ Answer(t, [type |-> "Pong"])
    /\ UNCHANGED <<config, phase, link, outbox, authVars, registry, portVars, relay>>

OtherRead(t) ==
    /\ Reads(t, "serving", {"Login", "Other"})
    /\ TakeFrame(t)
    /\ UNCHANGED <<config, phase, link, outbox, reply, authVars, registry, portVars, relay>>

\* Seeded bug: only the TCP tasks are aborted.
AbortedTcpOnly(t) ==
    [e \in Endpoint |-> IF owner[e] = t /\ loop[e] = "running" /\ e.kind = "tcp"
                        THEN "aborting" ELSE loop[e]]

\* What the end of the loop aborts: every task this handler spawned.
Aborted(t) == [e \in Endpoint |->
                 IF owner[e] = t /\ loop[e] = "running" THEN "aborting" ELSE loop[e]]

LeaveLoop(t) ==
    /\ phase' = [phase EXCEPT ![t] = "ended"]
    /\ loop' = Aborted(t)
    /\ registry' = Unlist(t)
    /\ UNCHANGED <<config, link, connVars, authVars, owner, relay>>

\* Seeded bug: an end of the control stream is retried like an ignored message.
ControlClosedOnGarbage(t) == Reads(t, "serving", {"Garbage"}) /\ LeaveLoop(t)

\* The control stream ended or a frame did not decode.
ControlClosed(t) ==
    /\ \/ Reads(t, "serving", {"Garbage"})
       \/ /\ phase[t] = "serving" /\ reply[t] = NoReply
          /\ inbox[t] = <<>> /\ link[t] = "down"
    /\ LeaveLoop(t)

\* Nothing was readable for CONTROL_IDLE.
HeartbeatTimeout(t) ==
    /\ phase[t] = "serving" /\ reply[t] = NoReply /\ inbox[t] = <<>>
    /\ LeaveLoop(t)
-----------------------------------------------------------------------------
(* The public-port tasks and the connections they relay.                   *)

\* Seeded bug: sessions borrow the socket of the loop that started them.
NoSessions(e) == {}

\* UDP sessions keep the proxy's socket alive after its loop is gone.
SessionsOn(e) == {c \in Conn : /\ relay[c] # NoRelay /\ relay[c].ep = e
                               /\ e.kind = "udp" /\ relay[c].st = "relaying"}

\* The loop of e stops, by abort or by error: it drops its socket handle, its
\* handle on the multiplexer and, if it was opening a substream, that too.
StopLoop(e) ==
    /\ loop' = [loop EXCEPT ![e] = IF SessionsOn(e) = {} THEN "none" ELSE "held"]
    /\ owner' = [owner EXCEPT ![e] = IF SessionsOn(e) = {} THEN NoTunnel ELSE @]
    /\ relay' = [c \in Conn |->
                   IF relay[c] # NoRelay /\ relay[c].ep = e /\ e.kind = "udp"
                      /\ relay[c].st = "opening"
                   THEN NoRelay ELSE relay[c]]
    /\ UNCHANGED <<config, phase, link, connVars, authVars, registry>>

AbortTask(e) == loop[e] = "aborting" /\ StopLoop(e)

\* An error from accept or recv_from breaks the loop for good.
LoopBreaks(e) == AcceptFails /\ loop[e] = "running" /\ StopLoop(e)

\* A public TCP connection is accepted and served by a task of its own; a
\* datagram from a new peer makes the UDP loop itself open a substream, so it
\* takes one at a time.  A loop that is being aborted may be in the middle of
\* its last poll and still take a connection.
PublicArrives(c, e) ==
    /\ loop[e] \in {"running", "aborting"} /\ relay[c] = NoRelay
    /\ e.kind = "udp" => \A d \in Conn : relay[d] # NoRelay =>
                              ~(relay[d].ep = e /\ relay[d].st = "opening")
    /\ relay' = [relay EXCEPT ![c] = [tun |-> owner[e], ep |-> e, st |-> "opening"]]
    /\ UNCHANGED <<config, phase, link, connVars, authVars, registry, portVars>>

Opening(c) == relay[c] # NoRelay /\ relay[c].st = "opening"

SubstreamOpens(c) ==
    /\ Opening(c) /\ link[relay[c].tun] = "up"
    /\ relay' = [relay EXCEPT ![c] = [tun |-> @.tun, ep |-> @.ep, st |-> "relaying"]]
    /\ UNCHANGED <<config, phase, link, connVars, authVars, registry, portVars>>

SubstreamFails(c) ==
    /\ Opening(c) /\ link[relay[c].tun] = "down"
    /\ relay' = [relay EXCEPT ![c] = NoRelay]
    /\ UNCHANGED <<config, phase, link, connVars, authVars, registry, portVars>>

\* Seeded bug: the last session closes the socket under a running loop.
LastSession(c, e) == SessionsOn(e) = {c}

\* The last UDP session of a stopped loop has the last handle on the socket.
LastHandle(c, e) == loop[e] = "held" /\ SessionsOn(e) = {c}

\* Either side of the relay ends.
RelayEnds(c) ==
    /\ relay[c] # NoRelay /\ relay[c].st = "relaying"
    /\ LET e == relay[c].ep IN
       /\ owner' = [owner EXCEPT ![e] = IF LastHandle(c, e) THEN NoTunnel ELSE @]
       /\ loop' = [loop EXCEPT ![e] = IF LastHandle(c, e) THEN "none" ELSE @]
    /\ relay' = [relay EXCEPT ![c] = NoRelay]
    /\ UNCHANGED <<config, phase, link, connVars, authVars, registry>>

\* The handler, the running loops and the TCP connections share the
\* multiplexer; its driver closes the link when the last of them drops it.
MuxShared(t) ==
    \/ phase[t] \notin {"ended", "failed"}
    \/ \E e \in Endpoint : owner[e] = t /\ loop[e] \in {"running", "aborting"}
    \/ \E c \in Conn : relay[c] # NoRelay /\ relay[c].tun = t /\ relay[c].ep.kind = "tcp"

MuxDropped(t) ==
    /\ link[t] = "up" /\ ~MuxShared(t)
    /\ link' = [link EXCEPT ![t] = "down"]
    /\ UNCHANGED <<config, phase, connVars, authVars, registry, portVars, relay>>
-----------------------------------------------------------------------------
(* The environment: the dashboard, the clients and the network.            *)

\* Seeded bug: the edited table is merged with the one it replaces.
ConfigSwapMerging == /\ \E c \in Configs \ {config} : config' = config \cup c
                     /\ UNCHANGED <<phase, link, connVars, authVars, registry, portVars, relay>>

\* The dashboard replaces the shared config.
ConfigSwap == /\ config' \in Configs \ {config}
              /\ UNCHANGED <<phase, link, connVars, authVars, registry, portVars, relay>>

InFlight(t) == Len(inbox[t]) + Len(outbox[t]) + (IF reply[t] = NoReply THEN 0 ELSE 1)

ClientSends(t, f) ==
    /\ phase[t] \in {"control", "login", "serving"} /\ link[t] = "up"
    /\ InFlight(t) < MaxInFlight
    /\ inbox' = [inbox EXCEPT ![t] = Append(@, f)]
    /\ UNCHANGED <<config, phase, link, outbox, reply, authVars, registry, portVars, relay>>

ClientReads(t) ==
    /\ outbox[t] # <<>>
    /\ outbox' = [outbox EXCEPT ![t] = Tail(@)]
    /\ UNCHANGED <<config, phase, link, inbox, reply, authVars, registry, portVars, relay>>

\* The client closes the tunnel or the network breaks it.  A prefix of the
\* frames in flight has arrived and can still be read; replies are lost.
LinkFails(t) ==
    /\ link[t] = "up"
    /\ link' = [link EXCEPT ![t] = "down"]
    /\ \E k \in 0..Len(inbox[t]) : inbox' = [inbox EXCEPT ![t] = SubSeq(@, 1, k)]
    /\ outbox' = [outbox EXCEPT ![t] = <<>>]
    /\ UNCHANGED <<config, phase, reply, authVars, registry, portVars, relay>>
-----------------------------------------------------------------------------
Handler(t) ==
    \/ AcceptControl(t) \/ NoControl(t)
    \/ LoginAccepted(t) \/ LoginRejected(t) \/ LoginMissing(t)
    \/ WriteReply(t) \/ WriteFails(t)
    \/ RegisterGranted(t) \/ RegisterRefused(t) \/ PingRead(t) \/ OtherRead(t)
    \/ ControlClosed(t)

ServerNext ==
    \/ \E t \in Tunnel : \/ AcceptTunnel(t) \/ NoiseDone(t) \/ NoiseFails(t)
                         \/ Handler(t) \/ HeartbeatTimeout(t) \/ MuxDropped(t)
    \/ \E e \in Endpoint : AbortTask(e) \/ LoopBreaks(e)
    \/ \E c \in Conn : \/ SubstreamOpens(c) \/ SubstreamFails(c) \/ RelayEnds(c)

EnvNext ==
    \/ ConfigSwap
    \/ \E t \in Tunnel : \/ ClientReads(t) \/ LinkFails(t)
                         \/ \E f \in Frame : ClientSends(t, f)
    \/ \E c \in Conn, e \in Endpoint : PublicArrives(c, e)

Next == ServerNext \/ EnvNext

Spec == Init /\ [][Next]_vars

\* The runtime polls every ready task, so a handler that can step does, an
\* aborted task is dropped, and a substream request is answered.  A UDP session
\* whose loop is gone sees its datagram channel close (or its idle timer fire).
\* Nothing is assumed of the clients, the network, the public users, or of the
\* end of a TCP relay, which may stay idle for ever.
ServerFairness ==
    /\ \A t \in Tunnel : /\ WF_vars(Handler(t)) /\ WF_vars(MuxDropped(t))
                         /\ WF_vars(link[t] = "down" /\ NoiseFails(t))
    /\ \A e \in Endpoint : WF_vars(AbortTask(e))
    /\ \A c \in Conn : /\ WF_vars(SubstreamOpens(c) \/ SubstreamFails(c))
                       /\ WF_vars(/\ relay[c] # NoRelay /\ loop[relay[c].ep] = "held"
                                  /\ RelayEnds(c))

FairSpec == Spec /\ ServerFairness
-----------------------------------------------------------------------------
(* Properties.                                                             *)

\* Every variable keeps the type of the Rust value it stands for.
TypeOK ==
    /\ config \in Configs
    /\ phase \in [Tunnel -> Phase]
    /\ link \in [Tunnel -> {"none", "up", "down"}]
    /\ inbox \in [Tunnel -> Seq(Frame)]
    /\ outbox \in [Tunnel -> Seq(Reply)]
    /\ reply \in [Tunnel -> Reply \cup {NoReply}]
    /\ snap \in [Tunnel -> SUBSET User]
    /\ user \in [Tunnel -> User \cup {NoUser}]
    /\ DOMAIN registry \subseteq Tunnel
    /\ registry \in [DOMAIN registry -> SUBSET Endpoint]
    /\ owner \in [Endpoint -> Tunnel \cup {NoTunnel}]
    /\ loop \in [Endpoint -> {"none", "running", "aborting", "held"}]
    /\ relay \in [Conn -> Relay \cup {NoRelay}]

\* A public socket is bound only for a tunnel that logged in with a user its
\* config snapshot holds, on a port that user may have: the check of
\* register_proxy holds for as long as the socket lives, whatever the
\* dashboard does to the config meanwhile.
PermittedPorts ==
    \A e \in Endpoint : owner[e] # NoTunnel =>
        /\ user[owner[e]] # NoUser
        /\ user[owner[e]] \in snap[owner[e]]
        /\ e.port \in user[owner[e]].ports

\* A handler that left its control loop leaves no task that was not told to
\* stop: the abort loop at its end misses none of the tasks it spawned.
EndedLeavesNoLoop ==
    \A e \in Endpoint : owner[e] # NoTunnel /\ phase[owner[e]] = "ended" =>
        loop[e] \in {"aborting", "held"}

\* The dashboard lists exactly the tunnels in their control loop, and lists
\* every public port such a tunnel holds: whichever way the handler returns,
\* TunnelReg's drop takes the tunnel off the registry.
RegistryComplete ==
    /\ DOMAIN registry = {t \in Tunnel : phase[t] = "serving"}
    /\ \A e \in Endpoint : owner[e] \in DOMAIN registry => e \in registry[owner[e]]

\* A UDP peer is served through the public socket by the tunnel that holds
\* it: no session of an earlier tunnel is left when the port changes hands,
\* although sessions outlive the loop that started them.
UdpPeersFollowOwner ==
    \A c \in Conn : relay[c] # NoRelay /\ relay[c].ep.kind = "udp" =>
        owner[relay[c].ep] = relay[c].tun

\* A tunnel that was told RegisterOk has its port, with a loop accepting on
\* it, for as long as it is served ("Server -> client: the proxy is live").
AckedAndLive(t, r) == r.type = "RegisterOk" => owner[r.ep] = t /\ loop[r.ep] = "running"
AckIsLive ==
    \A t \in Tunnel : phase[t] = "serving" =>
        /\ reply[t] # NoReply => AckedAndLive(t, reply[t])
        /\ \A i \in 1..Len(outbox[t]) : AckedAndLive(t, outbox[t][i])

\* A tunnel whose handler left its control loop gives every public port back,
\* and its link is closed unless a public TCP connection still uses it.
EndedLetsGo ==
    \A t \in Tunnel : phase[t] = "ended" ~>
        /\ \A e \in Endpoint : owner[e] # t
        /\ \/ link[t] = "down"
           \/ \E c \in Conn : relay[c] # NoRelay /\ relay[c].tun = t /\ relay[c].ep.kind = "tcp"

\* A handler whose link is gone returns, after the frames that still arrived.
LinkDownEndsHandler ==
    \A t \in Tunnel : link[t] = "down" ~> phase[t] \in {"ended", "failed"}

\* A tunnel whose link is gone gives every public port back, however its
\* handler returned.
LinkDownFreesPorts ==
    \A t \in Tunnel, e \in Endpoint : (link[t] = "down" /\ owner[e] = t) ~> owner[e] # t

\* The public ports are leased as PortLease promises.
Served == {t \in Tunnel : user[t] # NoUser /\ phase[t] \in {"login", "serving"}}
MayTake == [t \in Tunnel |-> IF user[t] = NoUser THEN {} ELSE {e \in Endpoint : Allowed(t, e)}]

Leases == INSTANCE PortLease WITH lease <- owner, may <- MayTake, open <- Served,
                                  SocketsFail <- AcceptFails
LeasesSpec == Leases!Spec
=============================================================================

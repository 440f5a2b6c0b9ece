----------------------------- MODULE RelaySystem -----------------------------
(***************************************************************************)
(* One client (rs_srpc/src/client.rs) against the server of TunnelServer:  *)
(* the client dials the transports in their order of priority, logs in,    *)
(* registers its proxies one by one, then pings until its tunnel is over,  *)
(* and starts again.  The server's steps are those of TunnelServer, failed *)
(* accepts, dashboard edits and public connections included; the client's  *)
(* replace the arbitrary client of that module.                            *)
(*                                                                         *)
(* The network may reset a tunnel, which both ends notice; cut it off      *)
(* silently, which neither does; or break the client's end only (a reset   *)
(* by a middlebox, a restart of the client's host).  Time is left out: a   *)
(* timer that the peer keeps resetting does not fire, and one the peer     *)
(* cannot reset may fire at any moment.  A path that is silent or cut off  *)
(* is one of TCP or WSS; over QUIC its own idle timeout makes it a         *)
(* transport that refuses, or a tunnel that is reset.                      *)
(***************************************************************************)
EXTENDS TunnelServer, SequencesExt

CONSTANTS
    Wanted,       \* the client's proxies, in the order of its config
    me, secret,   \* its credentials
    Priority,     \* its transports, in order of priority
    Healths,      \* how the transports may behave: "open", "refused", "silent"
    CutIn,        \* the client states in which a tunnel may be cut off
    Faults,       \* what the outside may do: "reset", "cut", "break", "edit"
    MaxFaults     \* bound on their number

\* A config with no transport is refused.
ASSUME PriorityAssumption == Priority \in Seq(ToSet(Priority)) /\ Priority # <<>>
ASSUME HealthsAssumption ==
    Healths # {} /\ Healths \subseteq [ToSet(Priority) -> {"open", "refused", "silent"}]
ASSUME ClientAssumption ==
    me \in Name /\ secret \in Token /\ Wanted \in Seq(Endpoint) /\ MaxFaults \in Nat

VARIABLES
    cst,      \* what the client is doing
    try,      \* the transport it dials next, an index into Priority
    cur,      \* its tunnel, or NoTunnel
    todo,     \* the proxies not yet answered in this session
    asked,    \* whether it waits for the server's answer
    live,     \* the proxies the server acknowledged in this session
    health,   \* how each transport behaves
    cutoff,   \* the tunnels cut off silently
    faults    \* faults so far

session == <<cur, todo, asked, live>>
network == <<health, cutoff, faults>>
client == <<cst, try, cur, todo, asked, live>>
sysVars == <<vars, client, network>>

SysInit == /\ Init
           /\ cst = "waiting" /\ try = 1 /\ cur = NoTunnel
           /\ todo = <<>> /\ asked = FALSE /\ live = {}
           /\ health \in Healths /\ cutoff = {} /\ faults = 0
-----------------------------------------------------------------------------
(* The client.                                                             *)

\* The end of the backoff: the fallback starts over with the first transport.
Redial == /\ cst = "waiting"
          /\ cst' = "dialing" /\ try' = 1
          /\ UNCHANGED <<vars, session, network>>

\* What follows a transport that failed: the next one, or another backoff.
NextTransport == IF try < Len(Priority) THEN cst' = "dialing" /\ try' = try + 1
                                        ELSE cst' = "waiting" /\ UNCHANGED try

\* Seeded bug: only the first transport is ever tried.
TransportRefusedGivesUp ==
    /\ cst = "dialing" /\ try \in DOMAIN Priority /\ health[Priority[try]] = "refused"
    /\ cst' = "waiting"
    /\ UNCHANGED <<vars, try, session, network>>

\* Seeded bug: the index runs on past the last transport.
TransportRefusedRunsOn ==
    /\ cst = "dialing" /\ try \in DOMAIN Priority /\ health[Priority[try]] = "refused"
    /\ try' = try + 1
    /\ UNCHANGED <<vars, cst, session, network>>

\* A transport that fails to connect.  A silent one fails nothing: no step of
\* the connection attempt or the handshake has a timeout.
TransportRefused ==
    /\ cst = "dialing" /\ try \in DOMAIN Priority /\ health[Priority[try]] = "refused"
    /\ NextTransport
    /\ UNCHANGED <<vars, session, network>>

\* The names of tunnels are interchangeable: a new one takes any free name, and
\* waits for one in an instance that has none left.
Free == {t \in Tunnel : phase[t] = "idle"}
Connect(t) ==
    /\ cst = "dialing" /\ health[Priority[try]] = "open"
    /\ t \in Free /\ t = CHOOSE s \in Free : TRUE
    /\ AcceptTunnel(t)
    /\ cst' = "handshake" /\ cur' = t /\ todo' = Wanted /\ live' = {}
    /\ UNCHANGED <<try, asked, network>>

\* The handshake succeeds for the client once the server has answered it.
HandshakeDone ==
    /\ cst = "handshake" /\ phase[cur] = "control" /\ link[cur] = "up"
    /\ cst' = "connected"
    /\ UNCHANGED <<vars, try, session, network>>

\* Bytes written on a tunnel that is cut off are buffered and lost.
Put(f) == IF cur \in cutoff THEN UNCHANGED vars ELSE ClientSends(cur, f)

SendLogin ==
    /\ cst = "connected" /\ link[cur] = "up"
    /\ Put([type |-> "Login", name |-> me, token |-> secret])
    /\ cst' = "login"
    /\ UNCHANGED <<try, session, network>>

\* Seeded bug: the registrations are sent without waiting for the answers.
SendRegisterEager ==
    /\ cst = "registering" /\ todo # <<>> /\ link[cur] = "up"
    /\ Put([type |-> "Register", ep |-> Head(todo)])
    /\ asked' = TRUE
    /\ UNCHANGED <<cst, try, cur, todo, live, network>>

SendRegister ==
    /\ cst = "registering" /\ todo # <<>> /\ ~asked /\ link[cur] = "up"
    /\ Put([type |-> "Register", ep |-> Head(todo)])
    /\ asked' = TRUE
    /\ UNCHANGED <<cst, try, cur, todo, live, network>>

\* The next reply of the server is of one of these types.
Hears(types) == /\ cur # NoTunnel /\ cur \notin cutoff
                /\ outbox[cur] # <<>> /\ Head(outbox[cur]).type \in types
                /\ ClientReads(cur)

LoggedIn == /\ cst = "login" /\ Hears({"LoginOk"})
            /\ cst' = "registering"
            /\ UNCHANGED <<try, session, network>>

\* Seeded bug: a refused proxy is counted as active too.
RegisteredAnyway ==
    /\ cst = "registering" /\ asked /\ Hears({"RegisterOk", "RegisterErr"})
    /\ live' = live \cup {Head(todo)}
    /\ todo' = Tail(todo) /\ asked' = FALSE
    /\ UNCHANGED <<cst, try, cur, network>>

\* Either answer moves on to the next proxy; a refused one is only logged.
Registered ==
    /\ cst = "registering" /\ asked /\ Hears({"RegisterOk", "RegisterErr"})
    /\ live' = IF Head(outbox[cur]).type = "RegisterOk" THEN live \cup {Head(todo)} ELSE live
    /\ todo' = Tail(todo) /\ asked' = FALSE
    /\ UNCHANGED <<cst, try, cur, network>>

Activate == /\ cst = "registering" /\ todo = <<>>
            /\ cst' = "active"
            /\ UNCHANGED <<vars, try, session, network>>

\* heartbeat pings whether or not the last ping was answered; MaxInFlight bounds
\* how many pings are under way.  control_reader takes the pongs.
Ping == /\ cst = "active" /\ link[cur] = "up"
        /\ Put([type |-> "Ping"])
        /\ UNCHANGED <<client, network>>

Pong == /\ cst = "active" /\ Hears({"Pong"})
        /\ UNCHANGED <<client, network>>

\* The client drops its multiplexer, or the stream of a failed handshake.
DropTunnel == cur' = NoTunnel /\ asked' = FALSE /\ todo' = <<>> /\ live' = {}

\* The session is over for the client, which backs off.
Leave == cst' = "waiting" /\ UNCHANGED try /\ DropTunnel
LeaveSession == Leave /\ UNCHANGED network

\* The control stream or the multiplexer ended and everything was read.
ServerGone == /\ cur # NoTunnel /\ cur \notin cutoff
              /\ link[cur] = "down" \/ phase[cur] \in {"ended", "failed"}
              /\ outbox[cur] = <<>>

\* A handshake that fails is a transport that failed.
HandshakeFails ==
    /\ cst = "handshake" /\ ServerGone
    /\ IF link[cur] = "up" THEN LinkFails(cur) ELSE UNCHANGED vars
    /\ NextTransport /\ DropTunnel /\ UNCHANGED network

TunnelClosed ==
    /\ cst # "handshake" /\ ServerGone
    /\ IF link[cur] = "up" THEN LinkFails(cur) ELSE UNCHANGED vars
    /\ LeaveSession

\* The server does not know the credentials.
LoginDenied == /\ cst = "login" /\ Hears({"LoginErr"}) /\ LeaveSession

\* Seeded bug: only a failing write ends the heartbeat, never a missing pong.
HeartbeatIgnored == FALSE /\ LeaveSession /\ UNCHANGED vars

\* No pong for HEARTBEAT_TIMEOUT: only the heartbeat of an active session
\* notices that a tunnel is cut off.  Closing it does not reach the server.
HeartbeatLost == /\ cst = "active" /\ cur \in cutoff
                 /\ LeaveSession /\ UNCHANGED vars

ClientNext ==
    \/ Redial \/ TransportRefused \/ \E t \in Tunnel : Connect(t)
    \/ HandshakeDone \/ HandshakeFails \/ SendLogin \/ LoggedIn \/ LoginDenied
    \/ SendRegister \/ Registered \/ Activate
    \/ Ping \/ Pong \/ TunnelClosed \/ HeartbeatLost
-----------------------------------------------------------------------------
(* The server and the network.                                             *)

\* The client's pings keep the server's timer from firing on a tunnel it uses.
Silent(t) == t # cur \/ t \in cutoff

\* Every step of TunnelServer's server except that it accepts only what the
\* client dials, and that a handshake fails only with its stream: the client has
\* the right keys.
ServerStep ==
    /\ \/ \E t \in Tunnel : \/ NoiseDone(t) \/ (link[t] = "down" /\ NoiseFails(t))
                            \/ Handler(t) \/ MuxDropped(t)
                            \/ (Silent(t) /\ HeartbeatTimeout(t))
       \/ \E e \in Endpoint : AbortTask(e) \/ LoopBreaks(e)
       \/ \E c \in Conn : SubstreamOpens(c) \/ SubstreamFails(c) \/ RelayEnds(c)
    /\ UNCHANGED <<client, network>>

\* The public connects.
PublicStep == /\ \E c \in Conn, e \in Endpoint : PublicArrives(c, e)
              /\ UNCHANGED <<client, network>>

\* The operator edits the config.
Edit == /\ "edit" \in Faults /\ faults < MaxFaults /\ faults' = faults + 1
        /\ ConfigSwap
        /\ UNCHANGED <<client, health, cutoff>>

Fault(kind) == /\ kind \in Faults /\ faults < MaxFaults /\ faults' = faults + 1
               /\ cur # NoTunnel /\ cur \notin cutoff /\ link[cur] = "up"
               /\ health' \in Healths

Reset == Fault("reset") /\ LinkFails(cur) /\ UNCHANGED <<client, cutoff>>

\* Nothing more crosses the tunnel.
Cut == /\ Fault("cut") /\ cst \in CutIn
       /\ cutoff' = cutoff \cup {cur}
       /\ UNCHANGED <<vars, client>>

\* The client's end fails, or the client starts over: the server hears nothing.
Break == /\ Fault("break")
         /\ cutoff' = cutoff \cup {cur}
         /\ Leave
         /\ UNCHANGED vars

\* When no transport works, one comes back.
Unreachable == \A i \in DOMAIN Priority : health[Priority[i]] # "open"
Recover == /\ Unreachable /\ health' \in Healths
           /\ UNCHANGED <<vars, client, cutoff, faults>>

\* A tunnel that left no trace lends its name to a later one.
Recycle(t) ==
    /\ t # cur /\ phase[t] \in {"ended", "failed"} /\ link[t] = "down"
    /\ \A e \in Endpoint : owner[e] # t
    /\ \A c \in Conn : relay[c] # NoRelay => relay[c].tun # t
    /\ phase' = [phase EXCEPT ![t] = "idle"] /\ link' = [link EXCEPT ![t] = "none"]
    /\ inbox' = [inbox EXCEPT ![t] = <<>>] /\ outbox' = [outbox EXCEPT ![t] = <<>>]
    /\ reply' = [reply EXCEPT ![t] = NoReply]
    /\ snap' = [snap EXCEPT ![t] = {}] /\ user' = [user EXCEPT ![t] = NoUser]
    /\ cutoff' = cutoff \ {t}
    /\ UNCHANGED <<config, registry, owner, loop, relay, client, health, faults>>

SysNext == ClientNext \/ ServerStep \/ PublicStep \/ Edit \/ Reset \/ Cut \/ Break \/ Recover
           \/ \E t \in Tunnel : Recycle(t)

SysSpec == SysInit /\ [][SysNext]_sysVars

\* Both runtimes run what can run; every timer that nothing resets fires.  The
\* network may do without faults but not without delivering, and it comes back.
SysFairSpec ==
    /\ SysSpec
    /\ WF_sysVars(ClientNext) /\ WF_sysVars(Recover /\ ~Unreachable')
    /\ \A t \in Tunnel : /\ WF_sysVars(ServerStep /\ (NoiseDone(t) \/ NoiseFails(t) \/ Handler(t)))
                         /\ WF_sysVars(ServerStep /\ MuxDropped(t))
                         /\ WF_sysVars(ServerStep /\ Silent(t) /\ HeartbeatTimeout(t))
                         /\ WF_sysVars(Recycle(t))
    /\ \A e \in Endpoint : WF_sysVars(ServerStep /\ AbortTask(e))
    /\ \A c \in Conn : /\ WF_sysVars(ServerStep /\ (SubstreamOpens(c) \/ SubstreamFails(c)))
                       /\ WF_sysVars(/\ relay[c] # NoRelay /\ loop[relay[c].ep] = "held"
                                     /\ ServerStep /\ RelayEnds(c))
-----------------------------------------------------------------------------
(* Properties.                                                             *)

SysTypeOK ==
    /\ TypeOK
    /\ cst \in {"waiting", "dialing", "handshake", "connected", "login", "registering",
               "active"}
    /\ try \in DOMAIN Priority /\ cur \in Tunnel \cup {NoTunnel}
    /\ todo \in Seq(Endpoint) /\ asked \in BOOLEAN /\ live \subseteq Endpoint
    /\ health \in Healths /\ cutoff \subseteq Tunnel /\ faults \in 0..MaxFaults

\* The two ends agree: what the client counts as live in its session, the
\* server serves on that very tunnel, until the server's handler is over.  This
\* is so where no public accept fails (AcceptFails = FALSE): one that does ends
\* the port's loop, and nothing in the code tells the client.
LiveIsServed ==
    cst \in {"registering", "active"} =>
        /\ phase[cur] \in {"serving", "ended", "failed"}
        /\ phase[cur] = "serving" => \A e \in live : owner[e] = cur /\ loop[e] = "running"

\* The client matches answers to requests by their order only.  Until it is
\* active one frame at most is under way, and what it waits for is what the
\* server is about to say; then only pings and pongs are: nothing is left over
\* from an earlier request, and no ping was sent before the last answer came.
Lockstep ==
    cur # NoTunnel /\ cur \notin cutoff =>
        /\ cst # "active" => Len(outbox[cur]) + Len(inbox[cur]) <= 1
        /\ cst = "registering" /\ ~asked => outbox[cur] = <<>> /\ inbox[cur] = <<>>
        /\ cst = "registering" /\ outbox[cur] # <<>> =>
               Head(outbox[cur]).type \in {"RegisterOk", "RegisterErr"} /\ Head(outbox[cur]).ep = Head(todo)
        /\ cst = "active" => /\ \A i \in DOMAIN inbox[cur] : inbox[cur][i].type = "Ping"
                             /\ \A i \in DOMAIN outbox[cur] : outbox[cur][i].type = "Pong"

\* "A heartbeat detects a silently-dead tunnel": an active client leaves a
\* tunnel that is cut off.
DeadTunnelIsLeft == cst = "active" /\ cur \in cutoff ~> cst = "waiting"

\* A client the server knows, from some time on, always gets back to an active
\* session, on whichever transport works.
Known == \E u \in config : u.name = me /\ u.token = secret
AlwaysActiveAgain == <>[]Known => []<>(cst = "active")
=============================================================================

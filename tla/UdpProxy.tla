------------------------------- MODULE UdpProxy -------------------------------
(***************************************************************************)
(* One public UDP port of a tunnel: the loop that receives its datagrams   *)
(* (rs_srpd/src/server.rs, udp_proxy_loop), a session of two tasks for     *)
(* each peer (udp_session), and the client's half of a session             *)
(* (rs_srpc/src/client.rs, relay_udp).  The loop shares the multiplexer    *)
(* with public TCP connections, reduced to what they do to it.             *)
(*                                                                         *)
(* A session is named after the datagram that opened it.  Time is left     *)
(* out: an idle timer may fire whenever nothing is there to reset it.      *)
(* Stopping a task is one step; until then it may still take its own.      *)
(***************************************************************************)
EXTENDS Mux

CONSTANTS
    Peer,           \* source addresses
    MaxDatagrams,   \* bound: the datagrams that arrive
    TcpConn,        \* public TCP connections of the tunnel
    UdpLoop,        \* the UDP loop as a requester of substreams
    None

ASSUME RequesterAssumption == Requester = TcpConn \cup {UdpLoop} /\ UdpLoop \notin TcpConn

Datagram == 1 .. MaxDatagrams

ASSUME NoneAssumption == None \notin Peer /\ None \notin Datagram

VARIABLES
    from,      \* the source of each datagram that has arrived, or None
    socket,    \* the datagrams the loop has not received
    handler,   \* the tunnel's handler: "serving" or "over"
    loop,      \* "recv", "open" or "ended"
    held,      \* the datagram that waits for a substream, or None
    sessions,  \* the session each peer's sender belongs to, or None
    chan,      \* what each session's channel holds
    up,        \* udp_peer_to_tunnel: "none", "head", "relay" or "done"
    down,      \* udp_tunnel_to_peer: "none", "run" or "done"
    frames,    \* datagrams on the substream, towards the client
    relay,     \* the client's half: "none", "relay" or "over"
    acked,     \* the sessions with a datagram back, which acknowledges the substream
    tcp,       \* "idle", "opening", "silent", "speaking" or "over"
    served     \* history: the datagrams the local service got

loopVars == <<from, socket, loop, held, sessions>>
pathVars == <<chan, up, down, frames, relay, acked, served>>
vars == <<muxVars, loopVars, pathVars, handler, tcp>>

Init == /\ MuxInit
        /\ from = [n \in Datagram |-> None] /\ socket = <<>>
        /\ handler = "serving" /\ loop = "recv" /\ held = None
        /\ sessions = [p \in Peer |-> None]
        /\ chan = [n \in Datagram |-> <<>>] /\ frames = [n \in Datagram |-> <<>>]
        /\ up = [n \in Datagram |-> "none"] /\ down = [n \in Datagram |-> "none"]
        /\ relay = [n \in Datagram |-> "none"] /\ acked = {}
        /\ tcp = [c \in TcpConn |-> "idle"] /\ served = {}
-----------------------------------------------------------------------------
(* The loop.                                                               *)

Arrived == {n \in Datagram : from[n] # None}

\* Datagrams are numbered as they arrive.
Arrives(p) == /\ loop # "ended"
              /\ \E n \in Datagram \ Arrived :
                    /\ \A m \in Datagram \ Arrived : n <= m
                    /\ from' = [from EXCEPT ![n] = p] /\ socket' = Append(socket, n)
              /\ UNCHANGED <<muxVars, loop, held, sessions, pathVars, handler, tcp>>

\* Seeded bug: every datagram is taken for one of a new peer.
ReachesNobody(p) == FALSE

\* The sender in the map has a receiver.
Reaches(p) == sessions[p] # None /\ up[sessions[p]] # "done"

\* A datagram of a peer with a live session goes into its channel.
Forwards == /\ loop = "recv" /\ socket # <<>>
            /\ LET n == Head(socket) IN
               /\ Reaches(from[n])
               /\ chan' = [chan EXCEPT ![sessions[from[n]]] = Append(@, n)]
            /\ socket' = Tail(socket)
            /\ UNCHANGED <<muxVars, from, loop, held, sessions, up, down, frames, relay, acked,
                           served, handler, tcp>>

\* Any other is held while a substream opens for it.
AsksForSubstream ==
    /\ loop = "recv" /\ socket # <<>>
    /\ LET n == Head(socket) IN
       /\ ~Reaches(from[n])
       /\ sessions' = [sessions EXCEPT ![from[n]] = None]
       /\ held' = n
    /\ loop' = "open" /\ socket' = Tail(socket)
    /\ Request(UdpLoop)
    /\ UNCHANGED <<from, pathVars, handler, tcp>>

NewSession ==
    /\ loop = "open" /\ answer[UdpLoop] = "ok" /\ Consume(UdpLoop)
    /\ chan' = [chan EXCEPT ![held] = <<held>>]
    /\ sessions' = [sessions EXCEPT ![from[held]] = held]
    /\ up' = [up EXCEPT ![held] = "head"] /\ down' = [down EXCEPT ![held] = "run"]
    /\ loop' = "recv" /\ held' = None
    /\ UNCHANGED <<from, socket, frames, relay, acked, served, handler, tcp>>

\* Seeded bug: the datagram is kept for another try that never comes.
OpenFailedKeeps == /\ loop = "open" /\ answer[UdpLoop] = "err" /\ Consume(UdpLoop)
                   /\ loop' = "recv"
                   /\ UNCHANGED <<from, socket, held, sessions, pathVars, handler, tcp>>

\* The datagram is lost and the loop goes on.
OpenFailed == /\ loop = "open" /\ answer[UdpLoop] = "err" /\ Consume(UdpLoop)
              /\ loop' = "recv" /\ held' = None
              /\ UNCHANGED <<from, socket, sessions, pathVars, handler, tcp>>

\* The loop's senders, its request and its handle on the mux go with it.
LoopGone == /\ loop' = "ended" /\ held' = None /\ socket' = <<>>
            /\ sessions' = [p \in Peer |-> None]
            /\ UNCHANGED <<from, pathVars, handler, tcp>>

RecvFails == loop = "recv" /\ LoopGone /\ UNCHANGED muxVars

\* Seeded bug: the loop of a handler that returned is not stopped.
AbortedNever == FALSE /\ LoopGone /\ UNCHANGED muxVars

\* handle.abort() at the end of the handler, at the loop's next await.
Aborted == /\ handler = "over" /\ loop # "ended" /\ LoopGone
           /\ IF loop = "open" THEN Withdraw(UdpLoop) ELSE UNCHANGED muxVars
-----------------------------------------------------------------------------
(* A session of the server.                                                *)

\* The client hears of a substream with its first frame, the DataHead.
WritesHead(s) == /\ up[s] = "head" /\ driver = "running"
                 /\ up' = [up EXCEPT ![s] = "relay"] /\ relay' = [relay EXCEPT ![s] = "relay"]
                 /\ UNCHANGED <<muxVars, loopVars, chan, down, frames, acked, served, handler, tcp>>

\* Seeded bug: a datagram is written and stays at the head of the channel.
WritesTwice(s) == /\ up[s] = "relay" /\ chan[s] # <<>> /\ driver = "running"
                  /\ Len(frames[s]) < MaxDatagrams
                  /\ frames' = [frames EXCEPT ![s] = Append(@, Head(chan[s]))]
                  /\ UNCHANGED <<muxVars, loopVars, chan, up, down, relay, acked, served, handler, tcp>>

\* What is written after the client has left is lost.
Writes(s) == /\ up[s] = "relay" /\ chan[s] # <<>> /\ driver = "running"
             /\ chan' = [chan EXCEPT ![s] = Tail(@)]
             /\ frames' = IF relay[s] = "over" THEN frames
                          ELSE [frames EXCEPT ![s] = Append(@, Head(chan[s]))]
             /\ UNCHANGED <<muxVars, loopVars, up, down, relay, acked, served, handler, tcp>>

UpDone(s) == /\ up' = [up EXCEPT ![s] = "done"] /\ chan' = [chan EXCEPT ![s] = <<>>]
             /\ UNCHANGED <<muxVars, loopVars, down, frames, relay, acked, served, handler, tcp>>

\* A write fails: the multiplexer is over or the client has reset the substream.
WriteFails(s) == /\ up[s] = "head" \/ (up[s] = "relay" /\ chan[s] # <<>>)
                 /\ driver = "ended" \/ relay[s] = "over"
                 /\ UpDone(s)

\* The channel is empty and its sender gone.
ChannelCloses(s) == /\ up[s] = "relay" /\ chan[s] = <<>>
                    /\ \A p \in Peer : sessions[p] # s
                    /\ UpDone(s)

\* udp_session stops the one task after the other has ended.
StopsUp(s) == up[s] \in {"head", "relay"} /\ down[s] = "done" /\ UpDone(s)

DownDone(s) == /\ down' = [down EXCEPT ![s] = "done"]
               /\ UNCHANGED <<muxVars, loopVars, chan, up, frames, relay, acked, served, handler, tcp>>

StopsDown(s) == down[s] = "run" /\ up[s] = "done" /\ DownDone(s)

\* Nothing to read for UDP_IDLE, the end of the substream, or a failing socket.
IdleOrEnd(s) == down[s] = "run" /\ DownDone(s)
-----------------------------------------------------------------------------
(* A session of the client.                                                *)

\* The DataHead is read, a local socket bound for the session, and datagrams
\* go to the service in turn.
ToLocal(s) == /\ relay[s] = "relay" /\ frames[s] # <<>>
              /\ frames' = [frames EXCEPT ![s] = Tail(@)]
              /\ served' = served \cup {Head(frames[s])}
              /\ UNCHANGED <<muxVars, loopVars, chan, up, down, relay, acked, handler, tcp>>

\* A datagram of the service goes back to the peer; only the first matters to
\* the multiplexer.
Answers(s) == /\ relay[s] = "relay" /\ down[s] = "run" /\ driver = "running"
              /\ s \in served \ acked /\ acked' = acked \cup {s}
              /\ UNCHANGED <<muxVars, loopVars, chan, up, down, frames, relay, served, handler, tcp>>

\* An idle timer, an error of the local socket, the end of the substream or an
\* unknown proxy: the client lets go of the substream.
LetsGo(s) == /\ relay[s] = "relay"
             /\ relay' = [relay EXCEPT ![s] = "over"] /\ frames' = [frames EXCEPT ![s] = <<>>]
             /\ UNCHANGED <<muxVars, loopVars, chan, up, down, acked, served, handler, tcp>>
-----------------------------------------------------------------------------
(* The rest of the tunnel.                                                 *)

TcpArrives(c) == /\ tcp[c] = "idle" /\ handler = "serving" /\ tcp' = [tcp EXCEPT ![c] = "opening"]
                 /\ Request(c) /\ UNCHANGED <<loopVars, pathVars, handler>>

TcpAnswered(c) == /\ tcp[c] = "opening" /\ answer[c] \in {"ok", "err"} /\ Consume(c)
                  /\ tcp' = [tcp EXCEPT ![c] = IF answer[c] = "ok" THEN "silent" ELSE "over"]
                  /\ UNCHANGED <<loopVars, pathVars, handler>>

\* The first byte back acknowledges the substream.
TcpSpeaks(c) == /\ tcp[c] = "silent" /\ driver = "running" /\ tcp' = [tcp EXCEPT ![c] = "speaking"]
                /\ UNCHANGED <<muxVars, loopVars, pathVars, handler>>

TcpEnds(c) == /\ tcp[c] \in {"silent", "speaking"} /\ tcp' = [tcp EXCEPT ![c] = "over"]
              /\ UNCHANGED <<muxVars, loopVars, pathVars, handler>>

\* The handler leaves its control loop, for one of the reasons of TunnelServer.
\* (A handler that fails aborts nothing; TunnelServer shows what is left then.)
HandlerEnds == /\ handler = "serving" /\ handler' = "over"
               /\ UNCHANGED <<muxVars, loopVars, pathVars, tcp>>

\* Substreams that yamux counts as not acknowledged.
Unacked ==
    Cardinality({s \in Datagram : /\ up[s] # "none" /\ ~(up[s] = "done" /\ down[s] = "done")
                                  /\ s \notin acked /\ relay[s] # "over"})
    + Cardinality({c \in TcpConn : tcp[c] = "silent"})
    + Cardinality({r \in Requester : answer[r] = "ok"})

\* The handler, the loop and every TCP connection have a handle on the mux.
Shared == \/ handler = "serving" \/ loop # "ended"
          \/ \E c \in TcpConn : tcp[c] \in {"opening", "silent", "speaking"}

MuxStep == \/ TakeRequest \/ OpenReady(Unacked) \/ OpenRefused \/ LinkFails \/ SeesEnd
           \/ (~Shared /\ SeesNoHandles) \/ Closed

LoopStep == \/ Forwards \/ AsksForSubstream \/ NewSession \/ OpenFailed \/ RecvFails \/ Aborted
            \/ \E p \in Peer : Arrives(p)

UpStep(s) == WritesHead(s) \/ Writes(s) \/ WriteFails(s) \/ ChannelCloses(s) \/ StopsUp(s)
DownStep(s) == StopsDown(s) \/ IdleOrEnd(s)
ClientStep(s) == ToLocal(s) \/ Answers(s) \/ LetsGo(s)

Next == \/ LoopStep \/ HandlerEnds
        \/ MuxStep /\ UNCHANGED <<loopVars, pathVars, handler, tcp>>
        \/ \E s \in Datagram : UpStep(s) \/ DownStep(s) \/ ClientStep(s)
        \/ \E c \in TcpConn : TcpArrives(c) \/ TcpAnswered(c) \/ TcpSpeaks(c) \/ TcpEnds(c)

Spec == Init /\ [][Next]_vars

\* Every task that can run does, idle timers fire, and an ended multiplexer
\* ends the TCP relays.  Nothing else ends a relay whose two sides keep silent,
\* and nothing makes a handler, a link or a public peer act.
Fairness ==
    LET Mux(A) == A /\ UNCHANGED <<loopVars, pathVars, handler, tcp>>
    IN /\ WF_vars(Mux(TakeRequest)) /\ WF_vars(Mux(OpenReady(Unacked))) /\ WF_vars(Mux(SeesEnd))
       /\ WF_vars(Mux(~Shared /\ SeesNoHandles)) /\ WF_vars(Mux(Closed))
       /\ WF_vars(link = "down" /\ HandlerEnds)
       /\ WF_vars(Forwards \/ AsksForSubstream \/ NewSession \/ OpenFailed) /\ WF_vars(Aborted)
       /\ \A s \in Datagram : /\ WF_vars(UpStep(s)) /\ WF_vars(DownStep(s))
                              /\ WF_vars(LetsGo(s))
       /\ \A c \in TcpConn : WF_vars(TcpAnswered(c)) /\ WF_vars(driver = "ended" /\ TcpEnds(c))

FairSpec == Spec /\ Fairness
-----------------------------------------------------------------------------
(* Properties.                                                             *)

TypeOK == /\ MuxTypeOK
          /\ from \in [Datagram -> Peer \cup {None}] /\ socket \in Seq(Datagram)
          /\ handler \in {"serving", "over"} /\ loop \in {"recv", "open", "ended"}
          /\ held \in Datagram \cup {None} /\ (held # None <=> loop = "open")
          /\ sessions \in [Peer -> Datagram \cup {None}]
          /\ chan \in [Datagram -> Seq(Datagram)] /\ frames \in [Datagram -> Seq(Datagram)]
          /\ up \in [Datagram -> {"none", "head", "relay", "done"}]
          /\ down \in [Datagram -> {"none", "run", "done"}]
          /\ relay \in [Datagram -> {"none", "relay", "over"}]
          /\ acked \subseteq Datagram
          /\ tcp \in [TcpConn -> {"idle", "opening", "silent", "speaking", "over"}]
          /\ served \subseteq Datagram

\* "One logical session per peer": although the map keeps senders of sessions
\* that are over and the tasks of a session stop one after the other, two
\* sessions of a peer never both take its datagrams, and the map names the one
\* that does.
OneSessionPerPeer ==
    \A s, t \in Datagram :
        /\ up[s] \in {"head", "relay"} /\ up[t] \in {"head", "relay"} /\ from[s] = from[t] => s = t
        /\ up[s] \in {"head", "relay"} /\ loop # "ended" => sessions[from[s]] = s

\* The peers' datagrams travel as UdpPaths promises.
Paths == INSTANCE UdpPaths WITH
    Path <- Datagram, NoPath <- None,
    path <- [p \in Peer |-> IF Reaches(p) THEN sessions[p] ELSE None],
    owed <- [s \in Datagram |-> IF relay[s] = "over" THEN <<>> ELSE frames[s] \o chan[s]],
    used <- {s \in Datagram : up[s] # "none"}
PathsSpec == Paths!Spec

\* The loop takes one request to the multiplexer at a time and waits for it
\* with every other peer's datagrams behind it.  It waits for ever only if TCP
\* relays without a byte back, which no timer ends, hold every slot for good.
OnlySilentTcpBlocks ==
    \A r \in Requester :
        <>[](answer[r] = "waiting") =>
        <>[](Cardinality({c \in TcpConn : tcp[c] = "silent"}) = Backlog)

\* A handler that is over leaves no UDP session behind at either end, and its
\* multiplexer ends unless a TCP connection still has a handle on it.
TeardownCompletes ==
    handler = "over" ~>
        /\ \A s \in Datagram : up[s] \in {"none", "done"} /\ relay[s] \in {"none", "over"}
        /\ driver = "ended" \/ \E c \in TcpConn : tcp[c] \in {"opening", "silent", "speaking"}
=============================================================================

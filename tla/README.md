# rs_srp in TLA+

A verification project for `rs_srp`, a reverse-proxy relay: a public server
(`rs_srpd`) gives clients behind NAT (`rs_srpc`) public TCP and UDP ports, over
one encrypted, multiplexed tunnel per client. The modules here are translated
from the Rust sources; TLC checks small instances of them and TLAPS proves the
main safety properties for every instance. `PROJECT.json` lists the components,
the runs, which lines each definition stands for, the hazards the properties are
aimed at, the disagreements found and the theorems.

To check a run: `tlc -config <run>.cfg <module>`; to check a proof module:
`tlapm <module>.tla`.

## Inventory

| Component (source) | State | Operations | Hard behaviour | What makes it correct |
|---|---|---|---|---|
| Tunnel handler (`rs_srpd/src/server.rs`, `handle_tunnel`) | config snapshot, logged-in user, handles of its port tasks | handshake, accept the control substream, login, register, ping, idle timeout, end | the client and the link may stop anywhere; every await lets other tasks run; early return by `?` | only permitted ports; nothing left behind; an acknowledged port is live |
| Public-port loops and relays (`tcp_proxy_loop`, `udp_proxy_loop`, `udp_session`) | public sockets, one relay per peer, shares of the multiplexer | accept / receive, open a substream, relay, end, be aborted | abort is asynchronous; UDP sessions outlive the loop and hold the socket; TCP relays outlive the tunnel | a port serves one tunnel at a time and comes back |
| UDP public ports (`udp_proxy_loop`, `udp_session`, `relay_udp`) | map from peer to session, a channel and two tasks per session, the client's half of it | receive, forward, open for a new peer, idle out, stop | stale senders in the map, the two tasks stop one after the other, the loop opens substreams inline | one session per peer; datagrams in order, none twice; nothing left behind |
| Multiplexer (`srp-core/src/mux.rs`) | one driver task, a queue of open requests, the pending one, accepted substreams | open, accept, drive, close | the driver ends on error, on close, or when the last handle is gone; one pending request holds up the rest | open requests are answered; the link closes |
| Heartbeat and timers (`client.rs`, `server.rs`) | ages of the last ping, pong, frame; backoff | ping, pong, judge, wait, dial | late frames against margins, a link cut without a word | no live tunnel is dropped, a dead one is left in time |
| Client (`rs_srpc/src/client.rs`) | current session, backoff, last pong | fallback over transports, login, register each proxy, heartbeat, reconnect | silent peers, half-dead tunnels, retries that race the server's timers | always gets back; both ends agree |
| Encrypted session (`srp-core/src/session.rs`) | record framer of each direction, buffers | poll_read, poll_write, flush, shutdown | partial reads and writes at every octet, end of stream anywhere | a byte stream |
| Dashboard edits (`rs_srpd/src/dashboard.rs`, `config.rs`) | shared config, config file | upsert, delete, reload at start | concurrent requests, a crash inside a write | no edit lost; the file always loads |
| Traffic registry (`rs_srpd/src/metrics.rs`) | live tunnels, counters, retired totals, history, its file | register, count, retire, sample, persist, restart | counters move while they are summed; tunnels retire under the sampler; restart | samples are true and monotonic |
| Wire protocol (`srp-core/src/proto.rs`, `types.rs`) | none | frames, datagrams | frames that do not decode | request and answer stay in step |
| Server identity (`srp-core/src/identity.rs`, `rs_srpd/src/client_config.rs`) | two pairs of files, the keys in memory, the client configs handed out | load or create, serve, render a client config | two processes, a crash or a failing write between two files | the pinned keys never change by themselves |
| Transports (`transport.rs`, `quic.rs`, `wss.rs`, `tlspin.rs`) | listeners, streams | connect, accept | accepting does a handshake inline | a slow peer holds up nobody |
| Key derivation, client config parsing, command lines, logging, dashboard page | none | pure functions, I/O | - | - |

How they interact: a client dials a transport and runs the handshake of the
session layer on it; each end then hands the session to a multiplexer driver.
The first substream is the control stream, on which frames go back and forth in
lockstep. A registration makes the server spawn a port task; that task opens a
data substream for every public peer, through the multiplexer handle it shares
with the handler. Handlers and port tasks update the traffic registry, which a
sampler task and the dashboard read; dashboard requests replace the shared
config, from which each handler copies a snapshot once.

## The modules

**`TunnelServer`** is the server of one process: handlers, port loops and relays
of several tunnels. A step runs from one await at which another task can
interfere to the next. `phase` is where a handler's code stands; `inbox`,
`outbox` and `reply` are the control stream (a reply is chosen in one step,
together with the bind it reports, and written in another, because the write may
wait or fail); `registry` is the dashboard's list; `owner` and `loop` are the
public sockets and the tasks behind them; `relay` is every public connection.
`loop[e] = "held"` is a socket whose loop is gone and which only UDP sessions
still hold. The clients and the network are arbitrary: any frame may come at any
time, a link may fail at any time and a prefix of what was sent is still read.

| Code | Actions |
|---|---|
| accept loops, `spawn_tunnel` | `AcceptTunnel` |
| `handle_tunnel` to the login | `NoiseDone`, `NoiseFails`, `AcceptControl`, `NoControl`, `LoginAccepted`, `LoginRejected`, `LoginMissing` |
| every `write_frame` of the handler, and its `?` | `WriteReply`, `WriteFails` |
| control loop and `register_proxy` | `RegisterGranted`, `RegisterRefused`, `PingRead`, `OtherRead`, `ControlClosed`, `HeartbeatTimeout` |
| port loops | `PublicArrives`, `AbortTask`, `LoopBreaks` |
| relays | `SubstreamOpens`, `SubstreamFails`, `RelayEnds` |
| the last multiplexer handle dropped | `MuxDropped` |
| `apply` of the dashboard | `ConfigSwap` |

**`PortLease`** is the abstract specification of what the server promises about
public ports: a port is leased to one open tunnel that may take it, and never
passes from one tunnel to another without being free in between. `TunnelServer`
implements it with `lease <- owner` and the permissions of the logged-in users.

**`RelaySystem`** composes `TunnelServer` with the client of `client.rs`: the
client's steps replace the arbitrary client, and every step of the server and of
the public is there (`ServerStep`, `PublicStep`), as are edits of the config
(`Edit`, counted as a fault). Transports may be open, refuse, or
be silent, and change when a fault happens; all of them may refuse at once, and
then the network changes again (`Recover`). The network may reset a tunnel (both
ends notice), cut it off silently (neither does), or break the client's end only.
A handshake that fails is a transport that failed: the client tries the next one
in the same attempt (`HandshakeFails`), and backs off after the last. Silent
transports and cuts are those of TCP and WSS; quinn's idle timeout makes them a
refusal or a reset over QUIC. Two limits: the handshake fails only with its
stream, because the client has the right keys, and the properties are checked and
proved for a server whose public accepts do not fail. One that does
(`server.rs:435`) ends the port's loop and nobody tells the client, so that
`LiveIsServed` is false then; `LiveAlwaysServed` has `~AcceptFails` as its
hypothesis.

| Code | Actions |
|---|---|
| `run`: backoff | `Redial` |
| `connect_tunnel` | `TransportRefused`, `Connect`, `HandshakeDone`, `HandshakeFails` |
| `run_session` | `SendLogin`, `LoggedIn`, `LoginDenied`, `SendRegister`, `Registered`, `Activate`, `TunnelClosed` |
| `heartbeat`, `control_reader` | `Ping`, `Pong`, `HeartbeatLost` |
| the server, the public | `ServerStep`, `PublicStep`, `Edit` |
| the network | `Reset`, `Cut`, `Break`, `Recover` |

**`ConfigStore`** has the shared table of users, the config file, the requests
that edit them, deaths of the process and restarts. `std::fs::write` truncates the
file and then writes the text from its start, so writing is several steps
(`OpenFile`, `WriteSome`, `WriteFile`), and a failing write or a death leaves what
was written so far. A prefix of the text may parse: users are written one after
the other, and only a user's name and token are required. `Parts` is what it may
parse as: some of the users, or some and one more without its ports, which default
to none, that is to no permission. The order of the users is left out, so any of
them may be the ones a prefix holds, and a name or a token is never cut, because
its closing quote would be missing. Over the file of another
request anything may be left (`Mixture`). What is not modelled is a power failure:
what was written reaches the file.

A death or a full disk in the middle of a save may therefore lose acknowledged
users at the next start. The code does not write a new file and rename it, and no
text promises more; `RestartGrantsNothing` says what remains true.

| Code | Actions |
|---|---|
| `upsert_user`, `delete_user` | `EditCopy`, `Refuse` |
| `apply` | `OpenFile`, `WriteSome`, `WriteFile`, `WriteError`, `Swap` |
| the process, `load` with `validate` | `Crash`, `Restart` |

**`Metrics`** has the registry, the counters, the sampler with the lock it holds
while it loads them one by one, the history and its file. Bytes in and bytes out
are kept by the same statements, so one counter stands for both. The lock is the
variable `holder`; the history's own lock is never held across a step another
task could see, except during the write of the file, when only the sampler is
involved. `due`, `last` and `floor` are history variables for the properties:
`due` counts the bytes relayed while their tunnel was on the list, and `floor` is
what was due when the sampler took the lock. It is counted where a relay counts,
not summed as the sampler sums, so a total that is forgotten or not yet added
shows. Bytes that a detached relay counts after its tunnel's counter was loaded are
in no total, in the model as in the code.

| Code | Actions |
|---|---|
| `register_tunnel`, `register_proxy` | `RegisterTunnel`, `RegisterProxy` |
| `CountingStream`, the UDP counters | `Count` |
| `unregister_tunnel` | `Unregister`, `Load`, `Retire` |
| `totals`, `sample` | `SampleBegins`, `Load`, `SampleSummed`, `SamplePushed` |
| `persist` | `PersistBegins`, `PersistEnds`, `PersistFails` |
| `Metrics::new` | `Restart` |

**`NoiseStream`** is one direction of the session layer: the writer's buffer, the
stream below, the reader's framer. An octet is known by its record and its
position, so a reader that lost the framing would see it. What is below is
**`TransportStream`**: a plain TCP or QUIC stream, which takes any part of a write,
or the WebSocket adapter of `wss.rs`, which makes a message of every write
(`sink` until tungstenite sends it, `wire` under way, `readBuf` the message being
read). **`ByteStream`** is what the layers above rely on; `NoiseStream` implements
it over both.

| Code | Actions |
|---|---|
| `NoiseStream::poll_write`, `poll_drain`, `poll_flush`, `poll_shutdown` | `Write`, `Drain`, `Flush`, `Shutdown`, `WriteFails` |
| `NoiseStream::poll_read`, a turn of its loop each | `Deliver`, `Pending`, `Read`, `HeaderRead`, `BodyRead`, `End`, `ReadFails` |
| `WsStream::poll_write`, `poll_flush`, `poll_shutdown` | `Takes`, `Sent`, `Closes` inside the session's steps |
| `WsStream::poll_read` | `NextMessage` (`Refills`), `Fills`, `Ends`, `Fails` |
| tungstenite, the network | `Sends`, `Breaks` (`Below`) |

**`Heartbeat`** is one client, its tunnel and the server's timer on it, with
clocks. Every clock is an age in one unit; `Elapse` adds one to all of them and
waits until what is due has been done. Frames under way are their ages.

| Code | Actions |
|---|---|
| `run` of the client: backoff, jitter, the reset after real uptime | `AttemptFails`, `WakesUp`, `Leaves`, `Connected` |
| `heartbeat` | `Beats`, `BeatsStale` |
| `control_reader` | `PongArrives`, `ClientSeesEnd` |
| control loop of the server | `PingArrives`, `IdleTimeout`, `ServerSeesEnd` |
| the network | `Breaks` (one end, then the other notices), `IsCut` (nobody is) |

**`Mux`** is the driver of the multiplexer and its requests for substreams:
`queue` is the channel, `pending` the request the driver works on, `answer` what
each requester knows. yamux itself is external: it makes a request wait while
`Backlog` substreams are not acknowledged. **`UdpProxy`** extends it with one
public UDP port of a tunnel at both ends: the receive loop and its map
(`sessions`), per session the channel, the task towards the tunnel (`up`), the
task back (`down`), the substream (`frames`) and the client's half (`relay`);
the tunnel's TCP connections are reduced to their hold on the multiplexer. A
session is named after the datagram that opened it.

| Code | Actions |
|---|---|
| `Mux::open`, the driver's poll loop | `Request`, `TakeRequest`, `OpenReady`, `OpenRefused`, `SeesEnd`, `SeesNoHandles`, `Closed` |
| `udp_proxy_loop` | `Arrives`, `Forwards`, `AsksForSubstream`, `NewSession`, `OpenFailed`, `RecvFails`, `Aborted` |
| `udp_session`, `udp_peer_to_tunnel` | `WritesHead`, `Writes`, `WriteFails`, `ChannelCloses`, `StopsUp` |
| `udp_tunnel_to_peer` | `IdleOrEnd`, `StopsDown` |
| `relay_udp` of the client | `ToLocal`, `Answers`, `LetsGo` |

**`UdpPaths`** is what the peers are promised: one path at a time, in order,
nothing twice, losses from the end. `UdpProxy` implements it; a path owes what is
on the substream followed by what is in the channel.

**`Identity`** is the four files of `identity.rs`, the two kinds of process that
load or make them (`rs_srpd run` and the `client-config` tool), and the client
configs that pin the public halves. Each file operation is a step, making a file
is two; a process may die at each, and the operator may lose a file. What is read
is not looked at when it is loaded, as in the code: a bad pair shows when the
server binds a listener (`CannotBind`) or a client checks what it pinned. The
dashboard is spawned before the listeners are bound and may hand out a config of a
server that then cannot bind (`FromDashboard`). A write is whole or leaves the
file empty; a key file cut short in the middle is left out.

| Code | Actions |
|---|---|
| `load_or_create`, the existence checks and the reads | `Starts`, `FindsPair`, `Reads` |
| generating and writing a pair | `Generates`, `CreatesOne`, `WritesOne`, `CreatesTwo`, `WritesTwo` |
| every `?` on a file operation, the end of a process | `Dies` |
| `run` of the server | `Serves`, `CannotBind` |
| `render_srpc_toml`, `load` of the client | `FromTool`, `FromDashboard` |

**`TunnelServerProofs`, `RelaySystemProofs`, `ConfigStoreProofs`,
`MetricsProofs`, `NoiseStreamProofs`, `HeartbeatProofs`, `UdpProxyProofs`,
`IdentityProofs`** hold the theorems. The `MC*`
modules give the constants of the instances. Definitions whose comment starts
with "Seeded bug" are variants of the definition that follows them with a
plausible mistake in it; no specification uses them. Each property is known to
fail under one of them.

## What the runs check

| Run | Instance | Question |
|---|---|---|
| `server_safety` | two tunnels, one peer, TCP and UDP port 80, two user tables, accept errors | who may hold a port; what a returning handler leaves; the dashboard's list; leases |
| `server_service` | one tunnel, two peers, two frames in flight, fairness | an acknowledged port is live; handlers return; everything is given back |
| `server_orphan` (violated) | one tunnel, fairness | are the ports freed however the handler returns? |
| `config_serial` | one request at a time, writes that fail or stop at any prefix, deaths | file and memory; what a restart may serve |
| `config_overlap` (violated) | two overlapping requests | is an answered edit ever lost? |
| `relay_system` | client and server, one public peer, two transports, two frames in flight, one fault or edit, three user tables, fairness | do the ends agree; does the client always get back? |
| `relay_silent` (violated) | the first transport, TCP, may be silent | is a blocked transport routed around? |
| `metrics` | two tunnels, two proxies, three bytes, three samples, two restarts | does a sample miss or repeat a byte counted on the list; are samples monotonic; what does a restart do to them? |
| `noise_stream` | three bytes, chunks of two, over a plain stream or a WebSocket | is the session a byte stream; does what was flushed arrive; is a broken WebSocket ever taken for an orderly end? |
| `heartbeat` | pings every 3 units, timers of 9, frames of up to 3, waits of 1 to 6 | do late frames ever end a live tunnel; is a cut one left in time; is the backoff right? |
| `udp_proxy` | two peers, two datagrams, one TCP connection, one unacknowledged substream, fairness | one session per peer; `UdpPaths`; who can block the loop; is everything torn down? |
| `identity` | five keys, starts one at a time, crashes, lost files | do clients find what they pinned; is a pair rewritten or mixed when no file of it was lost? |

`LinkDownFreesPorts`, `OneEditAtATime` (overlapping) and `AlwaysActiveAgain`
(silent transport) state what a comment or the documentation says and the code
does not do; the entries under "findings" in `PROJECT.json` quote both. Three
more disagreements are hazards without a run of their own: the dashboard lists a
proxy before its bind is tried and keeps it when the bind fails
(`server.rs:332`); a proxy refused at registration is not tried again until the
next session (`client.rs:114`); and the totals of the history start again from
what the file of samples does not hold (`metrics.rs:123`), of which
`OneStepBackPerRestart` checks the extent: one step back for each restart and no
other.

### Bounds, and why they are enough

- Two tunnels: every hazard between tunnels is about a port that one gives back
  and another takes, or about one tunnel's table entries and another's. The
  proofs remove the bound for the safety properties.
- One public peer in the safety run and two in the service run: peers interact
  through the multiplexer (one is enough to keep it) and through the handle on a
  UDP socket (two distinguish the last from the first).
- One port with two kinds gives two endpoints, of which one has TCP's and the
  other UDP's life cycle. Two tables differ in the token and in the permission,
  so a tunnel may be served under a table that is no longer current.
- `MaxInFlight`: one unread or unanswered frame per tunnel in the safety run, two
  in the service run, so that a frame can follow one whose answer is unread.
  In `relay_system` it is two as well: the heartbeat pings whether or not the last
  pong came, so the bound is what keeps pings from piling up, and two show one
  behind the other. `Lockstep` limits frames only before the session is active,
  where the client's own code does; the proof has no bound but `MaxInFlight`.
- `RelaySystem`: three tunnels are a current one, an old one the server has not
  given up, and one to be named next; names that left no trace are used again
  (`Recycle`), so sessions are unbounded in number. One fault per behaviour; a
  cut only in an active session, because before it the client has no heartbeat.
  `AlwaysActiveAgain` asks for a client the server knows from some time on
  (`<>[]Known`), since an edit may remove or restore it.
- `Metrics`: a tunnel retiring while another is summed needs two tunnels, two
  counters and a byte before, between and after. A sample more than
  `HistoryCap` overflows history and file.
- `NoiseStream`: chunks of two bytes and a tag of one octet make records of four
  and five octets, a write of three is cut, and room for one byte leaves
  plaintext behind.
- `Heartbeat`: one unit stands for 5 s, so 3 and 9 are the 15 s and 45 s of the
  code; a frame may take a whole interval, the most for which the margins are
  claimed. The least wait, 1 s, is rounded up to one unit. The proofs hold for
  every choice with the 3x margins.
- `UdpProxy`: two datagrams are the least for two sessions of one peer, or two
  peers of which one waits behind the other; `Backlog = 1` stands for yamux's
  256, and one TCP connection without a byte back fills it. The invariants and the
  refinement of `UdpPaths` are proved for every size.
- `Identity`: five keys are five generations, enough for a first start that dies,
  both pairs, and each of them made anew; the run's deadlock check shows that the
  last key is never the reason that nothing can happen.
- `Metrics` has three starts, so that a restart follows a restart, with a history
  of three samples.
- Deadlock is checked in `heartbeat` and `identity`. It is off in the other runs,
  whose systems may come to rest (all tunnels used up, a stream at its end, a
  bound reached).

### Fairness

The tokio runtime polls every task that is ready, so a handler that can step does
(`WF` on `Handler`), an aborted task is dropped (`AbortTask`), a request for a
substream is answered, and the driver closes a link nobody shares (`MuxDropped`).
A UDP session whose loop is gone ends, because its channel closes; a TCP relay
need not. Nothing is assumed of clients, public peers or faults in
`TunnelServer`. In `RelaySystem` the client's own step is weakly fair too, and so
are the timers nobody resets (the server's idle timer on a tunnel the client does
not use, the client's heartbeat on one that is cut off), and a network on which no
transport is open recovers in the end: no client can return to a server it
cannot reach. `NoiseStream` assumes
only that the reader goes on reading; messages that nobody flushes may stay in
the sink for ever. In `UdpProxy` every task that can run does,
idle timers of UDP fire, a handler whose link is down ends, and an ended
multiplexer ends the TCP relays on it; a TCP relay with two silent sides need
never end, and nothing makes a handler, a healthy link or a peer act.
`Heartbeat` and `Identity` check safety only and assume no fairness: a deadline
is an age that is never exceeded.

## What is proved

Every invariant that a passing run checks is also a theorem, and so are the
refinements of the four abstract specifications and every safety property of a
step. The theorems hold for every value of the constants that satisfies the
named assumptions of the modules; where a theorem has a hypothesis of its own,
it is a constant that says how the environment behaves, and it is named here.

**`TunnelServer`.** The sets of tunnels, peers, users, ports and tables are
arbitrary. The invariant `IInv` is `TypeOK` together with `Safe`, the part that
relates the sockets to the handlers. The checked invariants are not inductive by
themselves. That a bound port is permitted needs that a user comes from the
tunnel's snapshot and is set once, before any bind (`LoginOrder`), and that only
logged-in tunnels own sockets (`OwnersLoggedIn`). That UDP peers follow the owner
needs that a socket is owned exactly while something holds it (`OwnedIffHeld`)
and that a peer whose substream is still opening has a loop (`OpeningHasLoop`).
That an ended handler leaves no running loop needs to know why a loop stopped
(`StoppedForAReason`). `StepSafe` has
one case per action, and a lemma for each action that moves a socket or a phase
(`RegisterGrantedSafe`, `LeaveLoopSafe`, `StopLoopSafe`, ...). From `Invariance`
follow `TypeCorrect`, `PortsPermitted`, `EndedStopsLoops`, `RegistryIsComplete`
and `UdpPeersStay`. `LeasesHold` proves the refinement of `PortLease`: initial
states map to initial states (`InitLeases`) and every step to a step or a stutter
(`StepLeases`). `AckAlwaysLive` has the hypothesis `~AcceptFails`: where the
system fails the accept of a socket it granted, the loop ends and the port is
dead although it was acknowledged, which is the hazard at `server.rs:435`. Its
invariant `Truthful` speaks of every `RegisterOk` that was chosen and not yet
read, in the reply or anywhere in the outbox, and not only of those at its head.

**`RelaySystem`.** Every step of the composed system is a step of `TunnelServer`
or gives back a tunnel that left no trace (`SysStepServer`, `RecycleInv`), so
that what the server promises alone it promises with the client too
(`ServerKeepsPromises`); as alone, acknowledged ports are live if no accept fails
(`~AcceptFails`), and `LiveAlwaysServed` has that hypothesis too.
`AlwaysLockstep` and `LiveAlwaysServed` need each other.
On a tunnel that is not cut off at most one frame is under way until the session is
active, in one of four
places: nowhere, asked, being answered, answered (`OneUnderWay`); which, and
which frame, follows from where the client's code stands (`HalfAsks`,
`HalfHears`). In an active session any number of pings, the answer to one of them
and any number of pongs may be (`Pinging`). `TurnOfServer` reduces every step of
the server to what it does to that conversation. `ClientOrder` says where the client is in its list of proxies.
Assumed of the constants: the list of transports is not empty, and each network
health gives every transport one of its three states.

**`ConfigStore`.** For any number of overlapping requests, the table in memory
loads, and so does the file when it holds a whole table (`SavesLoad`); the
invariant adds that the copy of every request in progress loads, and `EditLoads`
is the lemma about the edit itself. The other three theorems have the hypothesis
`OneAtATime`; without it they are false, as the run `config_overlap` shows for
one of them. Their invariant `Serial` says what the file and the memory may hold
at every stage of the one request: before it opens the file, that reads as the
memory or is what a failed edit of the memory left (`Settled`, `HalfSaved`);
while it writes, the file is empty, a prefix of the text of its edit, or all of it
(`Ahead`). After a death the file may hold the edit of the request that the death
aborted, and no other (`Left`). `RestartNeverGrants` follows: what a prefix parses
as has no user, token or port that its text has not. That it has all of them is
not so, and not claimed.

**`Metrics`.** `AlwaysInWindow` says a sample has every byte that was due when
the sampler took the lock, and no more than was relayed, although the relays count
without the lock. What makes it inductive is a quantity
that no step within a process makes smaller: `Held`, the total the next holder of
the lock would find if nothing were relayed in between. It is what is retired,
what the listed counters hold, and, while a handler is between taking its tunnel
off the list and retiring it, what that handler has summed up and has still to
load (`UnregisterHeld`, `LoadHeld`, `StepHeld`). `Account` says nothing is retired
that was not relayed, so that `Held` is at most the bytes relayed (`HeldIsReal`).
What is due never exceeds `Held`: a byte that is due is one in a listed counter
(`CountHeld`). `Window` compares the sampler's partial sum and its sample with
`Held`, with what was due and with the last sample; `AlwaysMonotonic` follows. Between a
loaded counter and its sum a relay may count: `sum` is then too low, and only the
two-sided window is inductive. `OneStepBackAlways` bounds the descents of the
history: a push adds one only as the first of its process, trimming removes the
oldest sample and adds none (`AppendDescents`, `TailDescents`), and the file is an
earlier history (`Steps`). The sums are the community modules' fold over a set;
`SumIsAdded` and `AddingExists` show that it does not depend on the order, by
taking a smallest set for which it would (`SmallestSet`), and from there come
`SumStep`, `SumSplit`, `SumSame` and `SumBumped`.

**`NoiseStream`.** For every size of chunk, tag and buffer and over both kinds of
stream, the octets the reader has collected, those in the message it is reading,
those under way and those the writer has still to push are, in this order, one
line of octets without a gap, from the one the reader expects to the last one
framed (`Collected`, `Chained`; `LineAppend`, `LineNext`, `LineCut`, `LineTaken`
are what a write, a record's end, a break and a read do to a line). From it follow
that no record is taken for a broken one (`AlwaysGenuine`), that over a WebSocket
a clean end comes after everything (`EndAlwaysWhole`, `Ended`), and, with what the
records stand for (`Written`, `Decrypted`), the refinement of `ByteStream`
(`IsByteStream`).

**`Heartbeat`.** For every interval, timeout and delay with the margins
named in `MarginAssumption` and `DelayAssumption`, neither timer comes near
to a tunnel that is served (`NeverFalseAlarm`) and a cut link is left in
time (`AlwaysLeftInTime`). A bound on `sincePong` alone is not inductive: the
invariant says who owes the next answer. While a pong is under way the last one
is no older than an interval, a delay and the age of the oldest pong; while only
a ping is, an interval and its age; with nothing under way, no older than the
last tick (`PongsFresh`; `PingsFresh` is the same for the server). For the cut
link, `Checked` says a tick looked at the pongs and `CutAge` compares the ages.
`BackoffAlwaysFollows`: doubling up to a cap gives the capped power of two for
any number of failures. The powers are those of the standard library, of which
the provers know nothing: `PowerOfNext` finds the step from n to n + 1 by counting
subsets.

**`UdpProxy`.** `AlwaysOneSessionPerPeer`: the invariant adds that the
datagram that waits for a substream belongs to a peer without a sender (`Held`),
so that the session made for it is the only one that takes datagrams (`Mapped`,
`Single`), and that everything in the socket has a source (`Sourced`). The types
of the multiplexer need that the loop has a request exactly while it waits
(`Asked`). `PathsHold` is the refinement of `UdpPaths`. Its invariant looks at the
line of each session, what is on its substream followed by what is in its
channel: no datagram is on two lines or twice on one, none that waits in the
socket is on a line or was served (`Placed`), the map names a session of that very
peer, and the client knows exactly the sessions that have sent their head
(`Sent`). A step either leaves the paths
(`Stays`), lengthens one, opens one, serves its head or cuts its end, with a lemma
each (`ForwardsRefines`, `NewSessionRefines`, `ToLocalRefines`,
`UpDoneRefines`, ...).

**`Identity`.** `PinnedAlwaysServed` and `PairAlwaysStays` have the hypothesis
`~Overlap`, for every set of keys. The invariant follows a start through its
stages: the second file of a pair is never there before the first is whole
(`Ordered`), so a start that died leaves a pair that the next one makes anew,
with a key that is new (`Old`, `Stages`); what a process holds is what the disk
holds (`Loaded`), and so is what clients pinned (`Pins`). Both theorems except a
pair that lost a file: the next start makes it anew, and if that start dies after
the first file and the other one was still there, the pair is left with the halves
of two keys, which later starts load. With `Overlap = TRUE`
both are false: two first starts, of the server and of the tool, may each make a
pair and mix their halves. `TypeCorrect` holds either way.

Only model-checked: the liveness properties (`EndedLetsGo`,
`LinkDownEndsHandler`, `DeadTunnelIsLeft`, `AlwaysActiveAgain`,
`FlushedArrives`, `OnlySilentTcpBlocks`, `TeardownCompletes`), which are out of
the prover's reach: their proofs need `ENABLED` and fairness.

## Not modelled

- Durations outside `Heartbeat`: elsewhere a timer fires or does not.
- The bytes of a relay and the framing of a datagram. `TunnelServer` knows a
  relay as opening, relaying or gone; `UdpProxy` follows datagrams.
- The yamux protocol, the cryptography of the handshake, TLS and QUIC: taken as
  given. An authenticated cipher refuses any body but the next record's. yamux
  counts a substream as acknowledged at the first frame back or when the other
  end drops it, and a write on a link that is cut does not fail by itself.
- A power failure. Files are written in pieces only where a prefix means something
  to the next start: the config (`ConfigStore`) and the history, of which every
  prefix is taken for no history (`Torn` of `Metrics`). A key file is written whole
  or left empty.
- The accept loops' inline handshakes and waits (`quic.rs:111`, `wss.rs`): a byte
  stream arrives at the handler with the Noise handshake pending. What tungstenite
  does is assumed: it keeps messages whole and in order, reports a connection that
  breaks without a Close message as an error, and answers pings by itself.
- Names of proxies: the server only carries them; a proxy is its public endpoint.
- Parsing of ports (a permission is a set of ports; port 0 is left out), of the
  config files, and command lines. Of a client config only what it pins is kept.
- The dashboard's read-only handlers and its page.

## Plan

Done: `TunnelServer` with `PortLease` and their proofs, `ConfigStore`,
`RelaySystem`, `Metrics`, `NoiseStream` over `TransportStream` with `ByteStream`, `Heartbeat`, `Mux` and
`UdpProxy` with `UdpPaths`, `Identity`; the safety properties and the refinements
of all of them proved.

Left, in this order:

1. `AcceptLoop`: listeners that do a handshake inline, against slow peers.
2. `PortRange`: `parse_port_range` and `port_allowed` as operators over bounded
   inputs, with the boundary ports; the client's `validate` against what
   `render_srpc_toml` writes.

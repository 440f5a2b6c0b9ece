------------------------------ MODULE Heartbeat ------------------------------
(***************************************************************************)
(* The clocks of one client: keep-alive pings, the two timers that judge a *)
(* tunnel (rs_srpc/src/client.rs, heartbeat and control_reader;            *)
(* rs_srpd/src/server.rs, control loop) and the wait between two sessions  *)
(* (client.rs, run).  Clocks are ages in one unit of time; Elapse advances *)
(* all of them and waits for what is due.  A tunnel enters the model when  *)
(* its proxies are registered.  While a link is up a frame takes at most   *)
(* MaxDelay; a link that is cut swallows every frame and fails no write.   *)
(***************************************************************************)
EXTENDS Naturals, Sequences

CONSTANTS
    Interval,      \* HEARTBEAT_INTERVAL
    Timeout,       \* HEARTBEAT_TIMEOUT, of the client
    ControlIdle,   \* CONTROL_IDLE, of the server
    MaxDelay,      \* the longest a frame takes on a link that is up
    BackoffMin, BackoffMax,  \* RECONNECT_MIN, RECONNECT_MAX
    Jitter,        \* the most jitter() adds to a wait
    Uptime         \* what an attempt must outlast to reset the backoff

ASSUME ClockAssumption ==
    /\ Interval \in Nat \ {0} /\ Timeout \in Nat /\ ControlIdle \in Nat
    /\ BackoffMin \in Nat \ {0} /\ BackoffMax \in Nat /\ BackoffMin <= BackoffMax
    /\ Jitter \in Nat /\ Uptime \in Nat
\* "a generous 3x margin" (server.rs, CONTROL_IDLE); the client's is the same.
ASSUME MarginAssumption == 3 * Interval <= Timeout /\ 3 * Interval <= ControlIdle
ASSUME DelayAssumption == MaxDelay \in Nat /\ MaxDelay <= Interval

VARIABLES
    phase,       \* the client: "connecting", "session" or "waiting"
    sinceTick,   \* since the heartbeat's ticker last fired
    sincePong,   \* since last_pong
    attempt,     \* since `started`, counted up to Uptime + 1
    backoff,     \* the next wait, before jitter
    left,        \* what is left of the present wait
    link,        \* "up" or "cut"
    pings, pongs,  \* ages of the frames under way, the oldest first
    server,      \* the tunnel's handler: "reading" or "gone"
    idle,        \* since the handler began to wait for a frame
    cutFor,      \* history: how long somebody has been on a link that is cut
    quick        \* history: waits since the last attempt with real uptime, up to the longest

clientVars == <<phase, sinceTick, sincePong, attempt, backoff, left, quick>>
netVars == <<link, pings, pongs, cutFor>>
serverVars == <<server, idle>>
vars == <<clientVars, netVars, serverVars>>

Init == /\ phase = "connecting" /\ sinceTick = 0 /\ sincePong = 0 /\ attempt = 0
        /\ backoff = BackoffMin /\ left = 0 /\ quick = 0
        /\ link = "up" /\ pings = <<>> /\ pongs = <<>> /\ cutFor = 0
        /\ server = "gone" /\ idle = 0
-----------------------------------------------------------------------------
(* The run loop of the client.                                             *)

\* Seeded bug: the backoff is never reset.
ResetNever == backoff
Reset == IF attempt > Uptime THEN BackoffMin ELSE backoff

\* Seeded bug: doubled without a limit.
DoubledFreely == 2 * backoff
Doubled == IF 2 * backoff <= BackoffMax THEN 2 * backoff ELSE BackoffMax

\* The attempt is over, before or after it became a session: the mux is
\* dropped with what it has under way, and the client sleeps.
Leaves == /\ phase' = "waiting"
          /\ backoff' = Reset
          /\ \E j \in 0 .. Jitter : left' = Reset + j
          /\ quick' = IF attempt > Uptime THEN 0 ELSE quick
          /\ pings' = <<>> /\ pongs' = <<>>
          /\ UNCHANGED <<sinceTick, sincePong, attempt>>

AttemptFails == /\ phase = "connecting" /\ Leaves
                /\ UNCHANGED <<link, cutFor, serverVars>>

WakesUp == /\ phase = "waiting" /\ left = 0
           /\ phase' = "connecting" /\ attempt' = 0
           /\ backoff' = Doubled
           /\ quick' = IF backoff = BackoffMax THEN quick ELSE quick + 1
           /\ UNCHANGED <<sinceTick, sincePong, left, netVars, serverVars>>

\* A tunnel is up and its proxies are registered.  The handler of the tunnel
\* before, if there still is one, is left to itself.  The ticker fires at once.
Connected == /\ phase = "connecting"
             /\ phase' = "session" /\ sinceTick' = Interval /\ sincePong' = 0
             /\ link' = "up" /\ pings' = <<>> /\ pongs' = <<>> /\ cutFor' = 0
             /\ server' = "reading" /\ idle' \in 0 .. MaxDelay
             /\ UNCHANGED <<attempt, backoff, left, quick>>
-----------------------------------------------------------------------------
(* The session.                                                            *)

\* Seeded bug: the age of the last ping is compared.
StaleSinceTick == sinceTick > Timeout
Stale == sincePong > Timeout

\* Nothing answers a ping on a link that is cut or after the handler is gone.
Sent(q) == IF link = "up" /\ server = "reading" THEN Append(q, 0) ELSE q

\* The ticker fires: the ping is written, then the last pong is looked at.
Beats == /\ phase = "session" /\ sinceTick = Interval /\ ~Stale
         /\ pings' = Sent(pings) /\ sinceTick' = 0
         /\ UNCHANGED <<phase, sincePong, attempt, backoff, left, quick,
                        link, pongs, cutFor, serverVars>>

BeatsStale == /\ phase = "session" /\ sinceTick = Interval /\ Stale
              /\ Leaves /\ UNCHANGED <<link, cutFor, serverVars>>

PingArrives == /\ server = "reading" /\ pings # <<>>
               /\ pings' = Tail(pings) /\ pongs' = Append(pongs, 0) /\ idle' = 0
               /\ UNCHANGED <<clientVars, link, cutFor, server>>

\* Seeded bug: a pong is read and not recorded.
PongArrivesUnrecorded == /\ phase = "session" /\ pongs # <<>>
                         /\ pongs' = Tail(pongs)
                         /\ UNCHANGED <<clientVars, link, pings, cutFor, serverVars>>
PongArrives == /\ phase = "session" /\ pongs # <<>>
               /\ pongs' = Tail(pongs) /\ sincePong' = 0
               /\ UNCHANGED <<phase, sinceTick, attempt, backoff, left, quick,
                              link, pings, cutFor, serverVars>>

\* The handler's timeout around read_frame.
IdleTimeout == /\ server = "reading" /\ idle = ControlIdle
               /\ server' = "gone" /\ pings' = <<>>
               /\ UNCHANGED <<clientVars, link, pongs, cutFor, idle>>

\* Over a link that is up an end notices that the other has left.
ServerSeesEnd == /\ link = "up" /\ server = "reading" /\ phase # "session"
                 /\ server' = "gone"
                 /\ UNCHANGED <<clientVars, netVars, idle>>
ClientSeesEnd == /\ link = "up" /\ server = "gone" /\ phase = "session"
                 /\ Leaves /\ UNCHANGED <<link, cutFor, serverVars>>
-----------------------------------------------------------------------------
(* The network and time.                                                   *)

\* The connection fails, at one end before the other sees it.
Breaks == /\ link = "up" /\ phase = "session" /\ server = "reading"
          /\ \/ Leaves /\ UNCHANGED <<link, cutFor, serverVars>>
             \/ /\ server' = "gone" /\ pings' = <<>>
                /\ UNCHANGED <<clientVars, link, pongs, cutFor, idle>>

\* Nobody is told.
IsCut == /\ link = "up" /\ phase = "session"
         /\ link' = "cut" /\ pings' = <<>> /\ pongs' = <<>>
         /\ UNCHANGED <<clientVars, cutFor, serverVars>>

Aged(q) == [i \in DOMAIN q |-> q[i] + 1]
InTime(q) == \A i \in DOMAIN q : q[i] < MaxDelay

\* One unit of time; nothing that is due by now is left undone.
Elapse ==
    /\ InTime(pings) /\ InTime(pongs)
    /\ phase = "session" => sinceTick < Interval
    /\ phase = "waiting" => left > 0
    /\ server = "reading" => idle < ControlIdle
    /\ pings' = Aged(pings) /\ pongs' = Aged(pongs)
    /\ sinceTick' = IF phase = "session" THEN sinceTick + 1 ELSE sinceTick
    /\ sincePong' = IF phase = "session" THEN sincePong + 1 ELSE sincePong
    /\ attempt' = IF phase # "waiting" /\ attempt <= Uptime THEN attempt + 1 ELSE attempt
    /\ left' = IF phase = "waiting" THEN left - 1 ELSE left
    /\ idle' = IF server = "reading" THEN idle + 1 ELSE idle
    /\ cutFor' = IF link = "cut" /\ (phase = "session" \/ server = "reading")
                 THEN cutFor + 1 ELSE cutFor
    /\ UNCHANGED <<phase, backoff, quick, link, server>>

Next == \/ AttemptFails \/ WakesUp \/ Connected \/ Beats \/ BeatsStale
        \/ PingArrives \/ PongArrives \/ IdleTimeout \/ ServerSeesEnd \/ ClientSeesEnd
        \/ Breaks \/ IsCut \/ Elapse

Spec == Init /\ [][Next]_vars
-----------------------------------------------------------------------------
(* Type correctness: the wait is within its limits (client.rs, "Reconnect  *)
(* backoff bounds") and no frame is under way longer than a link allows.   *)
TypeOK == /\ phase \in {"connecting", "session", "waiting"}
          /\ sinceTick \in 0 .. Interval /\ sincePong \in Nat
          /\ attempt \in 0 .. Uptime + 1
          /\ backoff \in BackoffMin .. BackoffMax /\ left \in 0 .. BackoffMax + Jitter
          /\ link \in {"up", "cut"}
          /\ pings \in Seq(0 .. MaxDelay) /\ pongs \in Seq(0 .. MaxDelay)
          /\ server \in {"reading", "gone"} /\ idle \in 0 .. ControlIdle
          /\ cutFor \in Nat /\ quick \in Nat

\* No timer of a tunnel with a link that is up comes near to expiring, however
\* late within MaxDelay every frame is: the heartbeat of client.rs does not
\* give up a live server, the idle timer of server.rs not a live client.
NoFalseAlarm ==
    phase = "session" /\ link = "up" /\ server = "reading" =>
        /\ ~Stale
        /\ idle < ControlIdle

\* A link that was cut is left in time: by the client at the first tick after
\* the last pong is too old, by the server (whose ports it blocks) earlier.
LeftInTime ==
    link = "cut" => /\ phase = "session" => cutFor <= Timeout + Interval
                    /\ server = "reading" => cutFor <= ControlIdle

\* The wait is what the number of waits since the last attempt with real uptime
\* makes it (client.rs, "exponential backoff"): 2^quick times the least, up to
\* the most, whatever else happened.
BackoffFollowsFailures ==
    LET full == BackoffMin * 2 ^ quick
    IN backoff = IF full <= BackoffMax THEN full ELSE BackoffMax
=============================================================================

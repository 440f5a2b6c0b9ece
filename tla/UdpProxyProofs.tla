---------------------------- MODULE UdpProxyProofs ----------------------------
(***************************************************************************)
(* UdpProxy for every set of peers, of TCP connections, every number of    *)
(* datagrams and every backlog: one session per peer, its types, and that  *)
(* it implements UdpPaths.                                                 *)
(***************************************************************************)
EXTENDS UdpProxy, SequenceTheorems, TLAPS

Live == {"head", "relay"}

Types == /\ from \in [Datagram -> Peer \cup {None}] /\ socket \in Seq(Datagram)
         /\ sessions \in [Peer -> Datagram \cup {None}]
         /\ up \in [Datagram -> {"none", "head", "relay", "done"}]

\* What waits in the socket, waits for a substream or has a session has a source.
Sourced == /\ \A i \in DOMAIN socket : from[socket[i]] \in Peer
           /\ \A s \in Datagram : up[s] # "none" => from[s] \in Peer

\* The peer whose datagram waits for a substream has no sender in the map.
Held == loop = "open" => /\ held \in Datagram /\ from[held] \in Peer
                         /\ sessions[from[held]] = None

\* A session that takes datagrams is the one the map names.
Mapped == loop # "ended" =>
              \A s \in Datagram : up[s] \in Live => sessions[from[s]] = s

\* Without the loop no session is added, and there was one for each peer.
Single == \A s, t \in Datagram : up[s] \in Live /\ up[t] \in Live /\ from[s] = from[t] => s = t

IInv == Types /\ Sourced /\ Held /\ Mapped /\ Single

\* There is no session at first.
LEMMA InitHolds == Init => IInv
BY EmptySeq, NoneAssumption DEF Init, IInv, Types, Sourced, Held, Mapped, Single, Live

\* A datagram that arrives has a source and no session.
LEMMA ArrivesHolds == ASSUME IInv, NEW p \in Peer, Arrives(p) PROVE IInv'
<1>1. PICK n \in Datagram \ Arrived : /\ from' = [from EXCEPT ![n] = p]
                                      /\ socket' = Append(socket, n)
  BY DEF Arrives
<1>2. UNCHANGED <<loop, held, sessions, up>>
  BY DEF Arrives, pathVars
<1>3. from[n] = None /\ from[n] \notin Peer /\ from' \in [Datagram -> Peer \cup {None}]
  BY <1>1, NoneAssumption DEF Arrived, IInv, Types
<1>4. \A m \in Datagram : from[m] \in Peer => from'[m] = from[m] /\ m # n
  BY <1>1, <1>3 DEF IInv, Types
<1>5. up[n] = "none"
  BY <1>3 DEF IInv, Sourced
<1>6. /\ socket' \in Seq(Datagram) /\ Len(socket') = Len(socket) + 1
      /\ \A i \in 1 .. Len(socket) : socket'[i] = socket[i]
      /\ socket'[Len(socket) + 1] = n
  BY <1>1, AppendProperties DEF IInv, Types
<1>7. \A i \in DOMAIN socket' : from'[socket'[i]] \in Peer
  <2>. SUFFICES ASSUME NEW i \in DOMAIN socket' PROVE from'[socket'[i]] \in Peer
    OBVIOUS
  <2>1. CASE i \in DOMAIN socket
    <3>1. socket[i] \in Datagram /\ from[socket[i]] \in Peer /\ socket'[i] = socket[i]
      BY <2>1, <1>6 DEF IInv, Types, Sourced
    <3>. QED BY <3>1, <1>4
  <2>2. CASE i = Len(socket) + 1
    BY <2>2, <1>1, <1>6 DEF IInv, Types
  <2>. QED BY <2>1, <2>2, <1>6 DEF IInv, Types
<1>8. Types'
  BY <1>2, <1>3, <1>6 DEF IInv, Types
<1>9. Sourced' /\ Held'
  BY <1>2, <1>4, <1>7 DEF IInv, Types, Sourced, Held
<1>10. \A s \in Datagram : up[s] \in Live => from'[s] = from[s]
  BY <1>4 DEF IInv, Sourced, Live
<1>11. Mapped' /\ Single'
  BY <1>2, <1>10 DEF IInv, Mapped, Single
<1>. QED BY <1>8, <1>9, <1>11 DEF IInv

\* Taking the head of the socket leaves datagrams that have a source.
LEMMA TailSourced ==
    ASSUME IInv, socket # <<>>, socket' = Tail(socket), from' = from
    PROVE  /\ Head(socket) \in Datagram /\ from[Head(socket)] \in Peer
           /\ socket' \in Seq(Datagram)
           /\ \A i \in DOMAIN socket' : from'[socket'[i]] \in Peer
<1>1. /\ socket \in Seq(Datagram) /\ 1 \in DOMAIN socket /\ Head(socket) = socket[1]
      /\ Tail(socket) \in Seq(Datagram) /\ Len(Tail(socket)) = Len(socket) - 1
      /\ \A i \in 1 .. Len(Tail(socket)) : Tail(socket)[i] = socket[i + 1]
  BY HeadTailProperties, EmptySeq DEF IInv, Types
<1>2. \A i \in DOMAIN Tail(socket) : i + 1 \in DOMAIN socket
  BY <1>1
<1>. QED BY <1>1, <1>2 DEF IInv, Types, Sourced

\* What the loop takes from the socket has a source.
LEMMA LoopHolds == ASSUME IInv, Forwards \/ AsksForSubstream PROVE IInv'
<1>1. CASE Forwards
  <2>1. UNCHANGED <<from, loop, held, sessions, up>> /\ socket # <<>> /\ socket' = Tail(socket)
    BY <1>1 DEF Forwards
  <2>. QED BY <2>1, TailSourced DEF IInv, Types, Sourced, Held, Mapped, Single
<1>2. CASE AsksForSubstream
  <2>1. /\ UNCHANGED <<from, up>> /\ socket # <<>> /\ socket' = Tail(socket)
        /\ loop = "recv" /\ loop' = "open" /\ held' = Head(socket)
        /\ ~Reaches(from[Head(socket)])
        /\ sessions' = [sessions EXCEPT ![from[Head(socket)]] = None]
    BY <1>2 DEF AsksForSubstream, pathVars
  <2>2. /\ Head(socket) \in Datagram /\ from[Head(socket)] \in Peer
        /\ socket' \in Seq(Datagram)
        /\ \A i \in DOMAIN socket' : from'[socket'[i]] \in Peer
    BY <2>1, TailSourced
  <2>3. \A s \in Datagram : up[s] \in Live => from[s] # from[Head(socket)]
    <3>. SUFFICES ASSUME NEW s \in Datagram, up[s] \in Live, from[s] = from[Head(socket)]
                  PROVE  FALSE
      OBVIOUS
    <3>1. sessions[from[Head(socket)]] = s
      BY <2>1 DEF IInv, Mapped
    <3>. QED BY <3>1, <2>1, NoneAssumption DEF Reaches, Live
  <2>4. Types' /\ Sourced'
    BY <2>1, <2>2 DEF IInv, Types, Sourced
  <2>5. Held'
    BY <2>1, <2>2 DEF IInv, Types, Held
  <2>6. Mapped' /\ Single'
    BY <2>1, <2>2, <2>3 DEF IInv, Types, Sourced, Mapped, Single, Live
  <2>. QED BY <2>4, <2>5, <2>6 DEF IInv
<1>. QED BY <1>1, <1>2

\* The session is opened for a peer that has none.
LEMMA NewSessionHolds == ASSUME IInv, NewSession PROVE IInv'
<1>1. /\ UNCHANGED <<from, socket>> /\ loop = "open" /\ loop' = "recv"
      /\ sessions' = [sessions EXCEPT ![from[held]] = held]
      /\ up' = [up EXCEPT ![held] = "head"]
  BY DEF NewSession
<1>2. held \in Datagram /\ from[held] \in Peer /\ sessions[from[held]] = None
  BY <1>1 DEF IInv, Held
<1>3. \A s \in Datagram : up[s] \in Live => from[s] # from[held]
  BY <1>1, <1>2, NoneAssumption DEF IInv, Mapped
<1>4. Types' /\ Sourced' /\ Held'
  BY <1>1, <1>2 DEF IInv, Types, Sourced, Held
<1>5. \A s \in Datagram : up'[s] \in Live => s = held \/ (up[s] \in Live /\ from[s] # from[held])
  BY <1>1, <1>2, <1>3 DEF IInv, Types
<1>6. Mapped' /\ Single'
  BY <1>1, <1>2, <1>5 DEF IInv, Types, Sourced, Mapped, Single, Live
<1>. QED BY <1>4, <1>6 DEF IInv

\* Without the loop nothing more is mapped.
LEMMA LoopGoneHolds == ASSUME IInv, LoopGone PROVE IInv'
BY EmptySeq DEF LoopGone, IInv, Types, Sourced, Held, Mapped, Single, pathVars

\* A task of a session that goes on or ends.
LEMMA UpHolds == ASSUME IInv, NEW s \in Datagram, UpStep(s) PROVE IInv'
<1>1. UNCHANGED loopVars
  BY DEF UpStep, WritesHead, Writes, WriteFails, ChannelCloses, StopsUp, UpDone
<1>2. \/ UNCHANGED up
      \/ up[s] = "head" /\ up' = [up EXCEPT ![s] = "relay"]
      \/ up[s] \in Live /\ up' = [up EXCEPT ![s] = "done"]
  BY DEF UpStep, WritesHead, Writes, WriteFails, ChannelCloses, StopsUp, UpDone, Live
<1>3. /\ \A t \in Datagram : up'[t] \in Live => up[t] \in Live
      /\ \A t \in Datagram : up'[t] # "none" => up[t] # "none"
      /\ up' \in [Datagram -> {"none", "head", "relay", "done"}]
  BY <1>2 DEF IInv, Types, Live
<1>. QED
  BY <1>1, <1>3 DEF IInv, Types, Sourced, Held, Mapped, Single, loopVars

\* The rest of the tunnel does not touch the sessions.
LEMMA OthersHold == ASSUME IInv, UNCHANGED <<loopVars, up>> PROVE IInv'
BY DEF IInv, Types, Sourced, Held, Mapped, Single, loopVars

\* Every step keeps one session per peer.
LEMMA StepHolds == IInv /\ [Next]_vars => IInv'
<1>. SUFFICES ASSUME IInv, [Next]_vars PROVE IInv'
  OBVIOUS
<1>1. CASE LoopStep
  <2>1. CASE OpenFailed
    BY <2>1 DEF OpenFailed, IInv, Types, Sourced, Held, Mapped, Single, pathVars
  <2>2. CASE RecvFails \/ Aborted
    BY <2>2, LoopGoneHolds DEF RecvFails, Aborted
  <2>. QED BY <1>1, <2>1, <2>2, ArrivesHolds, LoopHolds, NewSessionHolds DEF LoopStep
<1>2. CASE HandlerEnds \/ (MuxStep /\ UNCHANGED <<loopVars, pathVars, handler, tcp>>)
  BY <1>2, OthersHold DEF HandlerEnds, pathVars
<1>3. ASSUME NEW s \in Datagram, UpStep(s) \/ DownStep(s) \/ ClientStep(s) PROVE IInv'
  <2>1. CASE UpStep(s)
    BY <2>1, UpHolds
  <2>2. CASE DownStep(s) \/ ClientStep(s)
    BY <2>2, OthersHold
       DEF DownStep, StopsDown, IdleOrEnd, DownDone, ClientStep, ToLocal, Answers, LetsGo
  <2>. QED BY <1>3, <2>1, <2>2
<1>4. ASSUME NEW c \in TcpConn,
             TcpArrives(c) \/ TcpAnswered(c) \/ TcpSpeaks(c) \/ TcpEnds(c)
      PROVE  IInv'
  BY <1>4, OthersHold DEF TcpArrives, TcpAnswered, TcpSpeaks, TcpEnds, pathVars
<1>5. CASE UNCHANGED vars
  BY <1>5, OthersHold DEF vars, pathVars
<1>. QED BY <1>1, <1>2, <1>3, <1>4, <1>5 DEF Next

\* At most one session of a peer takes its datagrams, the one the map names.
THEOREM AlwaysOneSessionPerPeer == Spec => []OneSessionPerPeer
<1>1. IInv => OneSessionPerPeer
  BY DEF IInv, Mapped, Single, Live, OneSessionPerPeer
<1>. QED BY <1>1, InitHolds, StepHolds, PTL DEF Spec
-----------------------------------------------------------------------------
(* Types, and the requests of the multiplexer.                             *)

\* The loop waits for an answer only while it opens a substream, a connection
\* that has not begun never does.
Asked == /\ loop = "recv" => answer[UdpLoop] = "none"
         /\ \A c \in TcpConn : tcp[c] = "idle" => answer[c] = "none"

Typed == TypeOK /\ Asked

\* A request of a task that waits for nothing is queued once.
LEMMA RequestTyped ==
    ASSUME MuxTypeOK, NEW r \in Requester, answer[r] \notin {"waiting", "gone"}, Request(r)
    PROVE  /\ MuxTypeOK'
           /\ \A q \in Requester \ {r} : answer'[q] = answer[q]
<1>. USE MuxAssumption
<1>1. r \notin Unanswered
  BY DEF MuxTypeOK
<1>2. \A q \in Requester \ {r} : answer'[q] = answer[q]
  BY DEF Request, MuxTypeOK
<1>3. CASE driver = "ended"
  <2>1. answer' = [answer EXCEPT ![r] = "err"] /\ UNCHANGED <<link, driver, queue, pending>>
    BY <1>3 DEF Request
  <2>. QED BY <1>1, <1>2, <2>1 DEF MuxTypeOK, Unanswered
<1>4. CASE driver # "ended"
  <2>1. /\ answer' = [answer EXCEPT ![r] = "waiting"] /\ queue' = Append(queue, r)
        /\ UNCHANGED <<link, driver, pending>>
    BY <1>4 DEF Request
  <2>2. /\ queue' \in Seq(Requester) /\ DOMAIN queue = 1..Len(queue) /\ Len(queue) \in Nat
        /\ DOMAIN queue' = 1..(Len(queue) + 1)
        /\ \A i \in 1..Len(queue) : queue'[i] = queue[i]
        /\ queue'[Len(queue) + 1] = r
    BY <2>1, AppendProperties DEF MuxTypeOK
  <2>3. Unanswered' = Unanswered \cup {r}
    BY <2>1, <2>2 DEF Unanswered
  <2>4. \A i, j \in DOMAIN queue' : queue'[i] = queue'[j] => i = j
    BY <1>1, <2>2 DEF MuxTypeOK, Unanswered
  <2>5. \A i \in DOMAIN queue' : queue'[i] # pending'
    BY <1>1, <2>1, <2>2 DEF MuxTypeOK, Unanswered
  <2>6. /\ \A q \in Requester : answer'[q] = "waiting" => q \in Unanswered'
        /\ \A q \in Unanswered' : answer'[q] \in {"waiting", "gone"}
    BY <1>1, <2>1, <2>3 DEF MuxTypeOK
  <2>. QED BY <2>1, <2>2, <2>4, <2>5, <2>6 DEF MuxTypeOK
<1>. QED BY <1>2, <1>3, <1>4

\* An answer is taken by the task that waited for it; a task that waits may be
\* stopped.
LEMMA AnswerTyped ==
    ASSUME MuxTypeOK, NEW r \in Requester,
           (Consume(r) /\ answer[r] \in {"ok", "err"}) \/ Withdraw(r)
    PROVE  /\ MuxTypeOK'
           /\ \A q \in Requester \ {r} : answer'[q] = answer[q]
<1>1. UNCHANGED <<link, driver, queue, pending>>
  BY DEF Consume, Withdraw
<1>2. Unanswered' = Unanswered
  BY <1>1 DEF Unanswered
<1>3. CASE Consume(r) /\ answer[r] \in {"ok", "err"}
  <2>1. r \notin Unanswered /\ answer' = [answer EXCEPT ![r] = "none"]
    BY <1>3 DEF MuxTypeOK, Consume
  <2>. QED BY <1>1, <1>2, <2>1 DEF MuxTypeOK
<1>4. CASE Withdraw(r)
  BY <1>1, <1>2, <1>4 DEF MuxTypeOK, Withdraw
<1>. QED BY <1>3, <1>4

\* The driver answers only requests it holds, each once.
LEMMA MuxTyped ==
    ASSUME MuxTypeOK, MuxStep
    PROVE  /\ MuxTypeOK'
           /\ \A r \in Requester : answer[r] = "none" => answer'[r] = "none"
<1>. USE MuxAssumption
<1>1. CASE TakeRequest
  <2>1. /\ pending = NoRequest /\ queue # <<>> /\ pending' = Head(queue) /\ queue' = Tail(queue)
        /\ UNCHANGED <<link, driver, answer>>
    BY <1>1 DEF TakeRequest
  <2>2. /\ queue' \in Seq(Requester) /\ pending' \in Requester /\ pending' = queue[1]
        /\ DOMAIN queue = 1..Len(queue) /\ Len(queue) \in Nat \ {0}
        /\ DOMAIN queue' = 1..(Len(queue) - 1)
        /\ \A i \in DOMAIN queue' : queue'[i] = queue[i + 1]
    BY <2>1, HeadTailProperties, EmptySeq DEF MuxTypeOK
  <2>3. Unanswered' = Unanswered
    <3>1. \A r \in Requester : r \in Unanswered' => r \in Unanswered
      BY <2>2 DEF Unanswered
    <3>2. ASSUME NEW r \in Unanswered PROVE r \in Unanswered'
      <4>1. PICK i \in DOMAIN queue : queue[i] = r
        BY <2>1, <3>2 DEF Unanswered
      <4>2. CASE i = 1
        BY <2>2, <4>1, <4>2, <3>2 DEF Unanswered
      <4>3. CASE i # 1
        <5>1. i - 1 \in DOMAIN queue' /\ queue'[i - 1] = r
          BY <2>2, <4>1, <4>3
        <5>. QED BY <5>1, <3>2 DEF Unanswered
      <4>. QED BY <4>2, <4>3
    <3>. QED BY <3>1, <3>2 DEF Unanswered
  <2>4. \A i, j \in DOMAIN queue' : queue'[i] = queue'[j] => i = j
    <3>1. \A i \in DOMAIN queue' : i + 1 \in DOMAIN queue
      BY <2>2
    <3>. QED BY <2>2, <3>1 DEF MuxTypeOK
  <2>5. \A i \in DOMAIN queue' : queue'[i] # pending'
    <3>1. \A i \in DOMAIN queue' : i + 1 \in DOMAIN queue /\ 1 \in DOMAIN queue /\ i + 1 # 1
      BY <2>2
    <3>. QED BY <2>2, <3>1 DEF MuxTypeOK
  <2>. QED BY <2>1, <2>2, <2>3, <2>4, <2>5 DEF MuxTypeOK
<1>2. ASSUME NEW what \in {"ok", "err"}, pending # NoRequest, Reply(pending, what), pending' = NoRequest,
             UNCHANGED <<link, driver, queue>>
      PROVE  MuxTypeOK' /\ \A r \in Requester : answer[r] = "none" => answer'[r] = "none"
  <2>1. pending \in Requester
    BY <1>2 DEF MuxTypeOK
  <2>2. Unanswered' = Unanswered \ {pending}
    BY <1>2, <2>1 DEF Unanswered, MuxTypeOK
  <2>3. /\ answer' \in [Requester -> {"none", "waiting", "ok", "err", "gone"}]
        /\ answer'[pending] # "waiting"
        /\ \A r \in Requester \ {pending} : answer'[r] = answer[r]
        /\ \A r \in Requester : answer[r] = "none" => answer'[r] = "none"
    BY <1>2, <2>1 DEF Reply, MuxTypeOK
  <2>4. \A i \in DOMAIN queue : queue[i] \in Requester
    BY DEF MuxTypeOK
  <2>5. \A i \in DOMAIN queue' : queue'[i] # pending'
    BY <1>2, <2>4
  <2>6. /\ \A r \in Requester : answer'[r] = "waiting" => r \in Unanswered'
        /\ \A r \in Unanswered' : answer'[r] \in {"waiting", "gone"}
    <3>1. Unanswered \subseteq Requester
      BY DEF Unanswered
    <3>. QED BY <2>2, <2>3, <3>1 DEF MuxTypeOK
  <2>. QED BY <1>2, <2>3, <2>5, <2>6 DEF MuxTypeOK
<1>3. CASE OpenReady(Unacked) \/ OpenRefused
  BY <1>2, <1>3 DEF OpenReady, OpenRefused
<1>4. CASE LinkFails \/ SeesEnd \/ SeesNoHandles
  <2>1. UNCHANGED <<queue, pending, answer>> /\ link' \in {"up", "down"}
        /\ driver' \in {"running", "closing", "ended"}
    BY <1>4 DEF LinkFails, SeesEnd, SeesNoHandles, MuxTypeOK
  <2>. QED BY <2>1 DEF MuxTypeOK, Unanswered
<1>5. CASE Closed
  <2>1. /\ driver' = "ended" /\ link' = "down" /\ queue' = <<>> /\ pending' = NoRequest
        /\ answer' = [r \in Requester |-> IF r \in Unanswered /\ answer[r] = "waiting"
                                          THEN "err" ELSE answer[r]]
    BY <1>5 DEF Closed
  <2>2. Unanswered' = {}
    BY <2>1 DEF Unanswered
  <2>3. queue' \in Seq(Requester) /\ DOMAIN queue' = {}
    BY <2>1
  <2>4. /\ answer' \in [Requester -> {"none", "waiting", "ok", "err", "gone"}]
        /\ \A r \in Requester : answer'[r] # "waiting"
        /\ \A r \in Requester : answer[r] = "none" => answer'[r] = "none"
    BY <2>1 DEF MuxTypeOK
  <2>. QED BY <2>1, <2>2, <2>3, <2>4 DEF MuxTypeOK
<1>. QED BY <1>1, <1>3, <1>4, <1>5 DEF MuxStep

\* The rest of TypeOK, which the multiplexer does not touch.
Rest == /\ handler \in {"serving", "over"} /\ loop \in {"recv", "open", "ended"}
        /\ held \in Datagram \cup {None} /\ (held # None <=> loop = "open")
        /\ chan \in [Datagram -> Seq(Datagram)] /\ frames \in [Datagram -> Seq(Datagram)]
        /\ down \in [Datagram -> {"none", "run", "done"}]
        /\ relay \in [Datagram -> {"none", "relay", "over"}]
        /\ acked \subseteq Datagram
        /\ tcp \in [TcpConn -> {"idle", "opening", "silent", "speaking", "over"}]
        /\ served \subseteq Datagram

\* TypeOK in its parts.
LEMMA TypesAndRest == TypeOK <=> MuxTypeOK /\ Types /\ Rest
BY DEF TypeOK, Types, Rest

\* Every variable has its type at first, and nothing is asked.
LEMMA InitTyped == Init => Typed
<1>. SUFFICES ASSUME Init PROVE Typed
  OBVIOUS
<1>1. MuxTypeOK
  BY MuxAssumption DEF Init, MuxInit, MuxTypeOK, Unanswered
<1>2. Types /\ Rest
  BY NoneAssumption DEF Init, Types, Rest
<1>3. Asked
  BY RequesterAssumption DEF Init, MuxInit, Asked
<1>. QED BY <1>1, <1>2, <1>3, TypesAndRest DEF Typed

\* A step of the loop keeps the types.
LEMMA LoopTyped == ASSUME Typed, IInv, LoopStep PROVE MuxTypeOK' /\ Rest' /\ Asked'
<1>. USE NoneAssumption, RequesterAssumption DEF Typed
<1>0. MuxTypeOK /\ Types /\ Rest /\ Asked
  BY TypesAndRest
<1>1. ASSUME UNCHANGED muxVars PROVE MuxTypeOK'
  BY <1>0, <1>1 DEF muxVars, MuxTypeOK, Unanswered
<1>2. ASSUME NEW p \in Peer, Arrives(p) PROVE MuxTypeOK' /\ Rest' /\ Asked'
  <2>1. UNCHANGED <<muxVars, handler, loop, held, pathVars, tcp>>
    BY <1>2 DEF Arrives
  <2>. QED BY <1>0, <1>1, <2>1 DEF Rest, Asked, pathVars, muxVars
<1>3. CASE Forwards
  <2>. DEFINE n == Head(socket)
  <2>1. /\ UNCHANGED <<muxVars, handler, loop, held, down, frames, relay, acked, tcp, served>>
        /\ socket # <<>> /\ Reaches(from[n])
        /\ chan' = [chan EXCEPT ![sessions[from[n]]] = Append(@, n)]
    BY <1>3 DEF Forwards
  <2>2. n \in Datagram
    BY <1>0, <2>1 DEF Types
  <2>3. chan' \in [Datagram -> Seq(Datagram)]
    <3>1. from[n] \in Peer
      BY <2>1, TailSourced, <1>3 DEF Forwards
    <3>2. sessions[from[n]] \in Datagram
      BY <1>0, <2>1, <3>1 DEF Types, Reaches
    <3>3. Append(chan[sessions[from[n]]], n) \in Seq(Datagram)
      BY <1>0, <2>2, <3>2 DEF Rest
    <3>. QED BY <1>0, <2>1, <3>2, <3>3 DEF Rest
  <2>. QED BY <1>0, <1>1, <2>1, <2>3 DEF Rest, Asked, muxVars
<1>4. CASE AsksForSubstream
  <2>1. /\ UNCHANGED <<handler, pathVars, tcp>> /\ loop = "recv" /\ loop' = "open"
        /\ socket # <<>> /\ held' = Head(socket) /\ Request(UdpLoop)
    BY <1>4 DEF AsksForSubstream
  <2>2. held' \in Datagram
    BY <1>0, <2>1 DEF Types
  <2>3. answer[UdpLoop] = "none" /\ UdpLoop \in Requester
    BY <1>0, <2>1 DEF Asked
  <2>4. MuxTypeOK' /\ \A q \in Requester \ {UdpLoop} : answer'[q] = answer[q]
    BY <1>0, <2>1, <2>3, RequestTyped
  <2>. QED BY <1>0, <2>1, <2>2, <2>4 DEF Rest, Asked, pathVars
<1>5. CASE NewSession \/ OpenFailed
  <2>1. /\ UNCHANGED <<handler, frames, relay, acked, tcp, served>> /\ loop = "open" /\ loop' = "recv"
        /\ held' = None /\ Consume(UdpLoop) /\ answer[UdpLoop] \in {"ok", "err"}
    BY <1>5 DEF NewSession, OpenFailed, pathVars
  <2>2. /\ chan' \in [Datagram -> Seq(Datagram)] /\ down' \in [Datagram -> {"none", "run", "done"}]
    <3>1. CASE NewSession
      <4>1. held \in Datagram
        BY <1>0, <2>1 DEF Rest
      <4>. QED BY <1>0, <3>1, <4>1 DEF NewSession, Rest
    <3>2. CASE OpenFailed
      BY <1>0, <3>2 DEF OpenFailed, pathVars, Rest
    <3>. QED BY <1>5, <3>1, <3>2
  <2>3. MuxTypeOK' /\ \A q \in Requester \ {UdpLoop} : answer'[q] = answer[q]
    BY <1>0, <2>1, AnswerTyped
  <2>4. answer'[UdpLoop] = "none"
    BY <1>0, <2>1 DEF Consume, MuxTypeOK
  <2>. QED BY <1>0, <2>1, <2>2, <2>3, <2>4 DEF Rest, Asked
<1>6. CASE RecvFails \/ Aborted
  <2>1. LoopGone
    BY <1>6 DEF RecvFails, Aborted
  <2>2. MuxTypeOK' /\ \A q \in Requester \ {UdpLoop} : answer'[q] = answer[q]
    <3>1. CASE UNCHANGED muxVars
      BY <1>1, <3>1 DEF muxVars
    <3>2. CASE Withdraw(UdpLoop)
      BY <1>0, <3>2, AnswerTyped
    <3>. QED BY <1>6, <3>1, <3>2 DEF RecvFails, Aborted
  <2>. QED BY <1>0, <2>1, <2>2 DEF LoopGone, Rest, Asked, pathVars
<1>. QED BY <1>2, <1>3, <1>4, <1>5, <1>6 DEF LoopStep

\* A step of a session, at either end, keeps the types.
LEMMA SessionTyped ==
    ASSUME Typed, NEW s \in Datagram, UpStep(s) \/ DownStep(s) \/ ClientStep(s)
    PROVE  MuxTypeOK' /\ Rest' /\ Asked'
<1>. USE DEF Typed
<1>0. MuxTypeOK /\ Types /\ Rest /\ Asked
  BY TypesAndRest
<1>1. UNCHANGED <<muxVars, loopVars, handler, tcp>>
  BY DEF UpStep, WritesHead, Writes, WriteFails, ChannelCloses, StopsUp, UpDone, DownStep, StopsDown,
         IdleOrEnd, DownDone, ClientStep, ToLocal, Answers, LetsGo
<1>2. MuxTypeOK' /\ Asked'
  BY <1>0, <1>1 DEF muxVars, loopVars, MuxTypeOK, Unanswered, Asked
<1>3. CASE Writes(s)
  <2>1. Head(chan[s]) \in Datagram /\ Tail(chan[s]) \in Seq(Datagram)
    BY <1>0, <1>3 DEF Writes, Rest
  <2>. QED BY <1>0, <1>1, <1>2, <1>3, <2>1 DEF Writes, Rest, loopVars
<1>4. CASE ToLocal(s)
  <2>1. Head(frames[s]) \in Datagram /\ Tail(frames[s]) \in Seq(Datagram)
    BY <1>0, <1>4 DEF ToLocal, Rest
  <2>. QED BY <1>0, <1>1, <1>2, <1>4, <2>1 DEF ToLocal, Rest, loopVars
<1>5. CASE WritesHead(s) \/ DownDone(s) \/ Answers(s)
  BY <1>0, <1>1, <1>2, <1>5 DEF WritesHead, DownDone, Answers, Rest, loopVars
<1>6. CASE UpDone(s) \/ LetsGo(s)
  <2>1. /\ UNCHANGED <<down, acked, served>>
        /\ chan' = chan \/ chan' = [chan EXCEPT ![s] = <<>>]
        /\ frames' = frames \/ frames' = [frames EXCEPT ![s] = <<>>]
        /\ relay' = relay \/ relay' = [relay EXCEPT ![s] = "over"]
    BY <1>6 DEF UpDone, LetsGo
  <2>2. /\ chan' \in [Datagram -> Seq(Datagram)] /\ frames' \in [Datagram -> Seq(Datagram)]
        /\ relay' \in [Datagram -> {"none", "relay", "over"}]
    <3>1. <<>> \in Seq(Datagram)
      OBVIOUS
    <3>2. chan' \in [Datagram -> Seq(Datagram)]
      BY <1>0, <2>1, <3>1 DEF Rest
    <3>3. frames' \in [Datagram -> Seq(Datagram)]
      BY <1>0, <2>1, <3>1 DEF Rest
    <3>. QED BY <1>0, <2>1, <3>2, <3>3 DEF Rest
  <2>. QED BY <1>0, <1>1, <1>2, <2>1, <2>2 DEF Rest, loopVars
<1>. QED BY <1>3, <1>4, <1>5, <1>6 DEF UpStep, WriteFails, ChannelCloses, StopsUp, DownStep, StopsDown,
                                 IdleOrEnd, ClientStep

\* A step of a public TCP connection keeps the types.
LEMMA TcpTyped ==
    ASSUME Typed, NEW c \in TcpConn, TcpArrives(c) \/ TcpAnswered(c) \/ TcpSpeaks(c) \/ TcpEnds(c)
    PROVE  MuxTypeOK' /\ Rest' /\ Asked'
<1>. USE RequesterAssumption DEF Typed
<1>0. MuxTypeOK /\ Types /\ Rest /\ Asked /\ c \in Requester /\ c # UdpLoop
  BY TypesAndRest
<1>1. UNCHANGED <<loopVars, pathVars, handler>> /\ tcp'[c] # "idle"
      /\ tcp' \in [TcpConn -> {"idle", "opening", "silent", "speaking", "over"}]
      /\ \A d \in TcpConn \ {c} : tcp'[d] = tcp[d]
  BY <1>0 DEF TcpArrives, TcpAnswered, TcpSpeaks, TcpEnds, Rest
<1>2. MuxTypeOK' /\ \A q \in Requester \ {c} : answer'[q] = answer[q]
  <2>1. CASE TcpArrives(c)
    BY <1>0, <2>1, RequestTyped DEF TcpArrives, Asked
  <2>2. CASE TcpAnswered(c)
    BY <1>0, <2>2, AnswerTyped DEF TcpAnswered
  <2>3. CASE TcpSpeaks(c) \/ TcpEnds(c)
    BY <1>0, <2>3 DEF TcpSpeaks, TcpEnds, muxVars, MuxTypeOK, Unanswered
  <2>. QED BY <2>1, <2>2, <2>3
<1>. QED BY <1>0, <1>1, <1>2 DEF Rest, Asked, loopVars, pathVars

\* Every step keeps the types and asks for no more than one substream.
LEMMA StepTyped == Typed /\ IInv /\ [Next]_vars => Typed'
<1>. SUFFICES ASSUME Typed, IInv, [Next]_vars PROVE Typed'
  OBVIOUS
<1>0. MuxTypeOK /\ Types /\ Rest /\ Asked
  BY TypesAndRest DEF Typed
<1>1. Types'
  BY StepHolds DEF IInv
<1>2. MuxTypeOK' /\ Rest' /\ Asked'
  <2>1. CASE HandlerEnds
    BY <1>0, <2>1 DEF HandlerEnds, muxVars, loopVars, pathVars, MuxTypeOK, Unanswered, Rest, Asked
  <2>2. CASE MuxStep /\ UNCHANGED <<loopVars, pathVars, handler, tcp>>
    BY <1>0, <2>2, MuxTyped, RequesterAssumption DEF loopVars, pathVars, Rest, Asked
  <2>3. CASE UNCHANGED vars
    BY <1>0, <2>3 DEF vars, muxVars, loopVars, pathVars, MuxTypeOK, Unanswered, Rest, Asked
  <2>. QED BY <2>1, <2>2, <2>3, LoopTyped, SessionTyped, TcpTyped DEF Next
<1>3. TypeOK'
  BY <1>1, <1>2 DEF TypeOK, Types, Rest
<1>. QED BY <1>2, <1>3 DEF Typed

\* Every variable keeps its type; in particular whoever waits for a substream
\* is known to the multiplexer's driver, exactly once.
THEOREM TypeCorrect == Spec => []TypeOK
<1>1. Typed => TypeOK
  BY DEF Typed
<1>. QED BY <1>1, InitHolds, StepHolds, InitTyped, StepTyped, PTL DEF Spec
-----------------------------------------------------------------------------
(* Where each datagram is.                                                 *)

\* What each session has taken and the local service not got, in order.
Routes == [Datagram -> Seq(Datagram)]
Lines == [s \in Datagram |-> frames[s] \o chan[s]]

\* A datagram is in one place of one line.
Holds(L, d) == \E s \in Datagram : \E i \in 1..Len(L[s]) : L[s][i] = d
Apart(L) == \A s, t \in Datagram : \A i \in 1..Len(L[s]), j \in 1..Len(L[t]) :
                L[s][i] = L[t][j] => s = t /\ i = j

\* A datagram that was given to a session, or opened one.
Passed(d) == d \in served \/ up[d] # "none" \/ Holds(Lines, d)

\* Each datagram is in the socket, or held, or in one line, or served.
Placed == /\ Apart(Lines)
          /\ \A d \in served : ~Holds(Lines, d)
          /\ \A d \in Datagram : Passed(d) => from[d] \in Peer
          /\ \A i, j \in 1..Len(socket) : socket[i] = socket[j] => i = j
          /\ \A i \in 1..Len(socket) : ~Passed(socket[i]) /\ socket[i] # held
          /\ held # None => ~Passed(held)

\* What the map names is a session of that peer, and a session that has not sent
\* its head is unknown to the client.
Sent == /\ \A p \in Peer : sessions[p] # None =>
               up[sessions[p]] # "none" /\ from[sessions[p]] = p
        /\ \A s \in Datagram : /\ up[s] = "none" => chan[s] = <<>>
                               /\ up[s] \in {"none", "head"} => relay[s] = "none"
                               /\ up[s] = "relay" => relay[s] # "none"
                               /\ relay[s] # "relay" => frames[s] = <<>>

\* One more datagram at the end of a line.
LEMMA LineGrows ==
    ASSUME NEW L \in Routes, NEW M \in Routes, NEW s \in Datagram, NEW d \in Datagram,
           M[s] = Append(L[s], d), \A t \in Datagram \ {s} : M[t] = L[t], Apart(L), ~Holds(L, d)
    PROVE  Apart(M) /\ \A x : Holds(M, x) => Holds(L, x) \/ x = d
<1>1. L[s] \in Seq(Datagram) /\ M[s] = Append(L[s], d) /\ \A t \in Datagram \ {s} : M[t] = L[t]
  BY DEF Routes
<1>2. /\ Len(M[s]) = Len(L[s]) + 1 /\ Len(L[s]) \in Nat
      /\ \A i \in 1..Len(L[s]) : M[s][i] = L[s][i]
      /\ M[s][Len(L[s]) + 1] = d
  BY <1>1, AppendProperties, LenProperties
<1>3. \A t \in Datagram : \A i \in 1..Len(M[t]) :
          \/ i \in 1..Len(L[t]) /\ M[t][i] = L[t][i]
          \/ t = s /\ i = Len(L[s]) + 1 /\ M[t][i] = d
  BY <1>1, <1>2
<1>4. \A t \in Datagram : \A i \in 1..Len(L[t]) : L[t][i] # d
  BY DEF Holds
<1>5. Apart(M)
  BY <1>3, <1>4 DEF Apart
<1>. QED BY <1>3, <1>5 DEF Holds

\* A line that keeps a part of itself, from its place k + 1 on.
Part(l, m, k) == \A i \in 1..Len(m) : i + k \in 1..Len(l) /\ m[i] = l[i + k]
Keeps(L, M, s, k) == (\A t \in Datagram \ {s} : M[t] = L[t]) /\ Part(L[s], M[s], k)

\* A line that keeps a part of itself keeps its datagrams apart.
LEMMA LineKept ==
    ASSUME NEW L \in Routes, NEW M \in Routes, NEW s \in Datagram, NEW k \in Nat,
           Keeps(L, M, s, k), Apart(L)
    PROVE  /\ Apart(M)
           /\ \A x : Holds(M, x) => Holds(L, x)
           /\ k > 0 /\ L[s] # <<>> => ~Holds(M, L[s][1])
<1>. DEFINE shift(t) == IF t = s THEN k ELSE 0
<1>1. \A t \in Datagram : Len(L[t]) \in Nat /\ Len(M[t]) \in Nat
  BY DEF Routes
<1>2. \A t \in Datagram : \A i \in 1..Len(M[t]) :
          i + shift(t) \in 1..Len(L[t]) /\ M[t][i] = L[t][i + shift(t)]
  BY <1>1 DEF Keeps, Part
<1>3. Apart(M)
  <2>. SUFFICES ASSUME NEW t \in Datagram, NEW u \in Datagram,
                       NEW i \in 1..Len(M[t]), NEW j \in 1..Len(M[u]), M[t][i] = M[u][j]
                PROVE  t = u /\ i = j
    BY DEF Apart
  <2>1. /\ i + shift(t) \in 1..Len(L[t]) /\ M[t][i] = L[t][i + shift(t)]
        /\ j + shift(u) \in 1..Len(L[u]) /\ M[u][j] = L[u][j + shift(u)]
    BY <1>2
  <2>. HIDE DEF shift
  <2>2. \A a \in 1..Len(L[t]), b \in 1..Len(L[u]) : L[t][a] = L[u][b] => t = u /\ a = b
    BY DEF Apart
  <2>3. t = u /\ i + shift(t) = j + shift(u)
    BY <2>1, <2>2
  <2>4. shift(t) \in Nat
    BY DEF shift
  <2>. QED BY <1>1, <2>3, <2>4
<1>4. ASSUME NEW x, Holds(M, x) PROVE Holds(L, x)
  BY <1>2, <1>4 DEF Holds
<1>5. ASSUME k > 0, L[s] # <<>>, Holds(M, L[s][1]) PROVE FALSE
  <2>1. PICK t \in Datagram : \E i \in 1..Len(M[t]) : M[t][i] = L[s][1]
    BY <1>5 DEF Holds
  <2>2. 1 \in 1..Len(L[s])
    BY <1>1, <1>5, EmptySeq DEF Routes
  <2>3. PICK i \in 1..Len(M[t]) : M[t][i] = L[s][1]
    BY <2>1
  <2>4. t = s /\ i + shift(t) = 1
    BY <1>2, <2>2, <2>3, SMTT(40) DEF Apart
  <2>. QED BY <1>5, <2>3, <2>4
<1>. QED BY <1>3, <1>4, <1>5

\* Two queues of each session make a line of each.
LEMMA LinesTyped ==
    ASSUME NEW f \in Routes, NEW c \in Routes
    PROVE  [s \in Datagram |-> f[s] \o c[s]] \in Routes
BY ConcatProperties DEF Routes

\* A step after which a line keeps a part of itself, and no datagram but the
\* first of the line, if the line lets go of it, is new to the service.
LEMMA PlacedKept ==
    ASSUME TypeOK, TypeOK', Placed, NEW s \in Datagram, NEW k \in Nat, Keeps(Lines, Lines', s, k),
           UNCHANGED <<from, socket, held>>,
           served' = served \/ (k > 0 /\ Lines[s] # <<>> /\ served' = served \cup {Lines[s][1]}),
           \A d \in Datagram : up'[d] # "none" => up[d] # "none"
    PROVE  Placed'
<1>1. Lines \in Routes /\ Lines' \in Routes
  BY LinesTyped DEF TypeOK, Lines, Routes
<1>2. /\ Apart(Lines')
      /\ \A x : Holds(Lines', x) => Holds(Lines, x)
      /\ k > 0 /\ Lines[s] # <<>> => ~Holds(Lines', Lines[s][1])
  BY <1>1, LineKept DEF Placed
<1>3. ASSUME NEW d \in served' PROVE ~Holds(Lines', d) /\ (d \in served \/ Holds(Lines, d))
  <2>1. CASE d \in served
    BY <1>2, <2>1 DEF Placed
  <2>2. CASE d \notin served
    <3>1. k > 0 /\ Lines[s] # <<>> /\ d = Lines[s][1]
      BY <1>3, <2>2
    <3>2. 1 \in 1..Len(Lines[s])
      BY <1>1, <3>1, EmptySeq, LenProperties DEF Routes
    <3>3. Holds(Lines, d)
      BY <3>1, <3>2 DEF Holds
    <3>. QED BY <1>2, <3>1, <3>3
  <2>. QED BY <2>1, <2>2
<1>4. \A d \in Datagram : Passed(d)' => Passed(d)
  BY <1>2, <1>3 DEF Passed
<1>5. \A i \in 1..Len(socket) : socket[i] \in Datagram
  BY DEF TypeOK
<1>6. held # None => held \in Datagram
  BY DEF TypeOK
<1>. QED BY <1>2, <1>3, <1>4, <1>5, <1>6 DEF Placed

\* What a task does to the two halves of its line, seen on the line.
LEMMA LineParts ==
    ASSUME NEW S, NEW f \in Seq(S), NEW c \in Seq(S)
    PROVE  /\ Part(f \o c, f \o c, 0)
           /\ Part(f \o c, f \o <<>>, 0)
           /\ Part(f \o c, <<>> \o c, Len(f))
           /\ f # <<>> => /\ Part(f \o c, Tail(f) \o c, 1)
                          /\ f \o c # <<>> /\ (f \o c)[1] = Head(f)
           /\ c # <<>> => /\ Part(<<>> \o c, <<>> \o Tail(c), 1)
                          /\ Append(f, Head(c)) \o Tail(c) = f \o c
<1>1. /\ f \o c \in Seq(S) /\ Len(f \o c) = Len(f) + Len(c) /\ Len(f) \in Nat /\ Len(c) \in Nat
      /\ \A i \in 1..Len(f) + Len(c) : (f \o c)[i] = IF i <= Len(f) THEN f[i] ELSE c[i - Len(f)]
      /\ f \o <<>> = f /\ <<>> \o c = c
  BY ConcatProperties, ConcatEmptySeq, LenProperties
<1>2. Part(f \o c, f \o c, 0) /\ Part(f \o c, f \o <<>>, 0) /\ Part(f \o c, <<>> \o c, Len(f))
  BY <1>1 DEF Part
<1>3. ASSUME f # <<>>
      PROVE  Part(f \o c, Tail(f) \o c, 1) /\ f \o c # <<>> /\ (f \o c)[1] = Head(f)
  <2>1. /\ Tail(f) \in Seq(S) /\ Len(Tail(f)) = Len(f) - 1 /\ Len(f) # 0
        /\ \A i \in 1..Len(f) - 1 : Tail(f)[i] = f[i + 1]
        /\ Head(f) = f[1]
    BY <1>3, HeadTailProperties, EmptySeq
  <2>2. /\ Len(Tail(f) \o c) = Len(f) - 1 + Len(c)
        /\ \A i \in 1..Len(f) - 1 + Len(c) :
               (Tail(f) \o c)[i] = IF i <= Len(f) - 1 THEN Tail(f)[i] ELSE c[i - (Len(f) - 1)]
    BY <2>1, ConcatProperties
  <2>3. Part(f \o c, Tail(f) \o c, 1)
    BY <1>1, <2>1, <2>2 DEF Part
  <2>4. 1 <= Len(f)
    BY <1>1, <2>1
  <2>. QED BY <1>1, <2>1, <2>3, <2>4, EmptySeq
<1>4. ASSUME c # <<>>
      PROVE  Part(<<>> \o c, <<>> \o Tail(c), 1) /\ Append(f, Head(c)) \o Tail(c) = f \o c
  <2>1. /\ Tail(c) \in Seq(S) /\ Len(Tail(c)) = Len(c) - 1 /\ Len(c) # 0
        /\ \A i \in 1..Len(c) - 1 : Tail(c)[i] = c[i + 1]
        /\ Head(c) \in S /\ <<Head(c)>> \in Seq(S)
    BY <1>4, HeadTailProperties, EmptySeq
  <2>2. Part(<<>> \o c, <<>> \o Tail(c), 1)
    BY <1>1, <2>1, ConcatEmptySeq DEF Part
  <2>3. Append(f, Head(c)) \o Tail(c) = f \o (<<Head(c)>> \o Tail(c))
    BY <2>1, AppendIsConcat, ConcatAssociative
  <2>4. <<Head(c)>> \o Tail(c) = c
    BY <1>4
  <2>. QED BY <2>2, <2>3, <2>4
<1>. QED BY <1>2, <1>3, <1>4

\* Every step of a session keeps a part of its line, and what the service gets
\* is the first of the line.
LEMMA SessionKeeps ==
    ASSUME TypeOK, Sent, NEW s \in Datagram, UpStep(s) \/ DownStep(s) \/ ClientStep(s)
    PROVE  \E k \in Nat :
               /\ Keeps(Lines, Lines', s, k)
               /\ \/ served' = served
                  \/ k > 0 /\ Lines[s] # <<>> /\ served' = served \cup {Lines[s][1]}
<1>1. /\ frames[s] \in Seq(Datagram) /\ chan[s] \in Seq(Datagram)
      /\ Lines[s] = frames[s] \o chan[s] /\ Len(frames[s]) \in Nat
  BY LenProperties DEF TypeOK, Lines
<1>2. \A t \in Datagram : Lines'[t] = frames'[t] \o chan'[t]
  BY DEF Lines
<1>3. ASSUME UNCHANGED <<chan, frames>> PROVE Keeps(Lines, Lines', s, 0)
  BY <1>1, <1>2, <1>3, LineParts DEF Keeps, Lines
<1>4. ASSUME \A t \in Datagram \ {s} : chan'[t] = chan[t] /\ frames'[t] = frames[t]
      PROVE  \A t \in Datagram \ {s} : Lines'[t] = Lines[t]
  BY <1>2, <1>4 DEF Lines
<1>5. CASE Writes(s)
  <2>1. /\ chan'[s] = Tail(chan[s]) /\ chan[s] # <<>> /\ served' = served /\ up[s] = "relay"
        /\ \A t \in Datagram \ {s} : chan'[t] = chan[t] /\ frames'[t] = frames[t]
    BY <1>5 DEF Writes, TypeOK
  <2>2. CASE relay[s] = "over"
    <3>1. frames[s] = <<>> /\ frames'[s] = <<>>
      BY <1>5, <2>2 DEF Writes, Sent
    <3>2. Keeps(Lines, Lines', s, 1)
      BY <1>1, <1>2, <1>4, <2>1, <3>1, LineParts DEF Keeps
    <3>. QED BY <2>1, <3>2
  <2>3. CASE relay[s] # "over"
    <3>1. frames'[s] = Append(frames[s], Head(chan[s]))
      BY <1>5, <2>3 DEF Writes, TypeOK
    <3>2. Append(frames[s], Head(chan[s])) \o Tail(chan[s]) = frames[s] \o chan[s]
      <4>1. frames[s] \in Seq(Datagram) /\ chan[s] \in Seq(Datagram) /\ chan[s] # <<>>
        BY <1>1, <2>1
      <4>. QED BY <4>1, LineParts
    <3>3. Lines'[s] = Lines[s] /\ Part(Lines[s], Lines[s], 0)
      <4>1. Part(Lines[s], Lines[s], 0)
        BY <1>1, LineParts
      <4>. QED BY <1>1, <1>2, <2>1, <3>1, <3>2, <4>1
    <3>4. Keeps(Lines, Lines', s, 0)
      BY <1>4, <2>1, <3>3 DEF Keeps
    <3>. QED BY <2>1, <3>4
  <2>. QED BY <2>2, <2>3
<1>6. CASE UpDone(s)
  <2>1. /\ chan'[s] = <<>> /\ frames'[s] = frames[s] /\ served' = served
        /\ \A t \in Datagram \ {s} : chan'[t] = chan[t] /\ frames'[t] = frames[t]
    BY <1>6 DEF UpDone, TypeOK
  <2>2. Lines'[s] = frames[s] \o <<>>
    BY <1>2, <2>1
  <2>3. Part(Lines[s], Lines'[s], 0)
    BY <1>1, <2>2, LineParts
  <2>. QED BY <1>4, <2>1, <2>3 DEF Keeps
<1>7. CASE ToLocal(s)
  <2>1. /\ frames[s] # <<>> /\ frames'[s] = Tail(frames[s]) /\ chan'[s] = chan[s]
        /\ served' = served \cup {Head(frames[s])}
        /\ \A t \in Datagram \ {s} : chan'[t] = chan[t] /\ frames'[t] = frames[t]
    BY <1>7 DEF ToLocal, TypeOK
  <2>2. Lines'[s] = Tail(frames[s]) \o chan[s]
    BY <1>2, <2>1
  <2>3. Part(Lines[s], Lines'[s], 1) /\ Lines[s] # <<>> /\ Lines[s][1] = Head(frames[s])
    <3>1. frames[s] \in Seq(Datagram) /\ chan[s] \in Seq(Datagram) /\ frames[s] # <<>>
      BY <1>1, <2>1
    <3>2. /\ Part(frames[s] \o chan[s], Tail(frames[s]) \o chan[s], 1)
          /\ frames[s] \o chan[s] # <<>> /\ (frames[s] \o chan[s])[1] = Head(frames[s])
      BY <3>1, LineParts
    <3>. QED BY <1>1, <2>2, <3>2
  <2>. QED BY <1>4, <2>1, <2>3 DEF Keeps
<1>8. CASE LetsGo(s)
  <2>1. /\ frames'[s] = <<>> /\ chan'[s] = chan[s] /\ served' = served
        /\ \A t \in Datagram \ {s} : chan'[t] = chan[t] /\ frames'[t] = frames[t]
    BY <1>8 DEF LetsGo, TypeOK
  <2>2. Lines'[s] = <<>> \o chan[s]
    BY <1>2, <2>1
  <2>3. Part(Lines[s], Lines'[s], Len(frames[s]))
    BY <1>1, <2>2, LineParts
  <2>. QED BY <1>1, <1>4, <2>1, <2>3 DEF Keeps
<1>9. CASE WritesHead(s) \/ DownDone(s) \/ Answers(s)
  BY <1>3, <1>9 DEF WritesHead, DownDone, Answers
<1>. QED BY <1>5, <1>6, <1>7, <1>8, <1>9
         DEF UpStep, WriteFails, ChannelCloses, StopsUp, DownStep, StopsDown, IdleOrEnd, ClientStep

\* A session's steps keep every datagram where it is said to be.
LEMMA SessionPlaced ==
    ASSUME TypeOK, TypeOK', Placed, Sent, NEW s \in Datagram, UpStep(s) \/ DownStep(s) \/ ClientStep(s)
    PROVE  Placed' /\ Sent'
<1>1. UNCHANGED <<from, socket, held, sessions>>
  BY DEF UpStep, WritesHead, Writes, WriteFails, ChannelCloses, StopsUp, UpDone, DownStep, StopsDown,
         IdleOrEnd, DownDone, ClientStep, ToLocal, Answers, LetsGo, loopVars
<1>2. \A d \in Datagram : up'[d] # "none" <=> up[d] # "none"
  <2>1. up' = up \/ (up[s] # "none" /\ \E x \in {"relay", "done"} : up' = [up EXCEPT ![s] = x])
    BY DEF UpStep, WritesHead, Writes, WriteFails, ChannelCloses, StopsUp, UpDone, DownStep, StopsDown,
           IdleOrEnd, DownDone, ClientStep, ToLocal, Answers, LetsGo
  <2>. QED BY <2>1 DEF TypeOK
<1>3. Placed'
  BY <1>1, <1>2, SessionKeeps, PlacedKept
<1>4. \A p \in Peer : sessions[p] # None => sessions[p] \in Datagram
  BY DEF TypeOK
<1>5. \A p \in Peer : sessions'[p] # None => up'[sessions'[p]] # "none" /\ from'[sessions'[p]] = p
  BY <1>1, <1>2, <1>4 DEF Sent
<1>6. ASSUME NEW t \in Datagram
      PROVE  /\ up'[t] = "none" => chan'[t] = <<>>
             /\ up'[t] \in {"none", "head"} => relay'[t] = "none"
             /\ up'[t] = "relay" => relay'[t] # "none"
             /\ relay'[t] # "relay" => frames'[t] = <<>>
  <2>1. CASE WritesHead(s)
    BY <2>1 DEF WritesHead, Sent, TypeOK
  <2>2. CASE Writes(s)
    BY <2>2 DEF Writes, Sent, TypeOK
  <2>3. CASE UpDone(s) /\ up[s] # "none"
    BY <2>3 DEF UpDone, Sent, TypeOK
  <2>4. CASE ToLocal(s)
    BY <2>4 DEF ToLocal, Sent, TypeOK
  <2>6. CASE LetsGo(s)
    BY <2>6 DEF LetsGo, Sent, TypeOK
  <2>5. CASE DownDone(s) \/ Answers(s)
    BY <2>5 DEF DownDone, Answers, Sent
  <2>. QED BY <2>1, <2>2, <2>3, <2>4, <2>5, <2>6
           DEF UpStep, WriteFails, ChannelCloses, StopsUp, DownStep, StopsDown, IdleOrEnd, ClientStep
<1>. QED BY <1>3, <1>5, <1>6 DEF Sent

\* One more element at the end of two sequences put together.
LEMMA ConcatAppend ==
    ASSUME NEW S, NEW s \in Seq(S), NEW u \in Seq(S), NEW e \in S
    PROVE  s \o Append(u, e) = Append(s \o u, e)
<1>1. <<e>> \in Seq(S) /\ s \o u \in Seq(S)
  OBVIOUS
<1>. QED BY <1>1, AppendIsConcat, ConcatAssociative

\* The next datagram of the socket, and those behind it.
LEMMA NextDatagram ==
    ASSUME TypeOK, Sourced, Placed, socket # <<>>
    PROVE  /\ Head(socket) \in Datagram /\ from[Head(socket)] \in Peer
           /\ ~Passed(Head(socket)) /\ Head(socket) # held
           /\ Len(Tail(socket)) \in Nat
           /\ \A i \in 1..Len(Tail(socket)) :
                  /\ Tail(socket)[i] = socket[i + 1] /\ i + 1 \in 1..Len(socket)
                  /\ Tail(socket)[i] # Head(socket)
<1>1. /\ socket \in Seq(Datagram) /\ Head(socket) = socket[1] /\ Tail(socket) \in Seq(Datagram)
      /\ Len(socket) \in Nat \ {0} /\ Len(Tail(socket)) = Len(socket) - 1
      /\ \A i \in 1..Len(socket) - 1 : Tail(socket)[i] = socket[i + 1]
  BY HeadTailProperties, EmptySeq, LenProperties DEF TypeOK
<1>2. 1 \in 1..Len(socket) /\ DOMAIN socket = 1..Len(socket)
  BY <1>1
<1>3. \A i \in 1..Len(Tail(socket)) : i + 1 \in 1..Len(socket) /\ i + 1 # 1
  BY <1>1
<1>4. \A i \in 1..Len(Tail(socket)) : Tail(socket)[i] # Head(socket)
  BY <1>1, <1>2, <1>3 DEF Placed
<1>. QED BY <1>1, <1>2, <1>3, <1>4 DEF Sourced, Placed

\* A step that gives no datagram to a session leaves every one of them where it is.
LEMMA PassedStays ==
    ASSUME UNCHANGED <<chan, frames, served, up>>
    PROVE  UNCHANGED Lines /\ \A d : Passed(d)' = Passed(d)
BY DEF Lines, Passed, Holds

\* A datagram that nobody has passed on is the last of the line it joins.
LEMMA Joins ==
    ASSUME TypeOK, TypeOK', Placed, NEW s \in Datagram, NEW d \in Datagram, ~Passed(d),
           Lines'[s] = Append(Lines[s], d), \A t \in Datagram \ {s} : Lines'[t] = Lines[t],
           served' = served
    PROVE  /\ Apart(Lines') /\ \A x \in served : ~Holds(Lines', x)
           /\ \A x : Holds(Lines', x) => Holds(Lines, x) \/ x = d
<1>1. Lines \in Routes /\ Lines' \in Routes
  BY LinesTyped, ZenonT(40) DEF TypeOK, Lines, Routes
<1>3. Apart(Lines) /\ ~Holds(Lines, d)
  BY DEF Placed, Passed
<1>4. Apart(Lines') /\ \A x : Holds(Lines', x) => Holds(Lines, x) \/ x = d
  BY <1>1, <1>3, LineGrows
<1>. QED BY <1>4 DEF Placed, Passed

\* A datagram that arrives is in the socket only.
LEMMA ArrivesPlaced ==
    ASSUME TypeOK, TypeOK', IInv, Placed, Sent, NEW p \in Peer, Arrives(p)
    PROVE  Placed' /\ Sent'
<1>1. PICK n \in Datagram \ Arrived : /\ from' = [from EXCEPT ![n] = p]
                                      /\ socket' = Append(socket, n)
  BY DEF Arrives
<1>2. UNCHANGED <<held, sessions, chan, frames, up, relay, served>>
  BY DEF Arrives, pathVars
<1>3. from[n] = None /\ from[n] \notin Peer /\ \A m \in Datagram \ {n} : from'[m] = from[m]
  BY <1>1, NoneAssumption DEF Arrived, TypeOK
<1>4. UNCHANGED Lines /\ \A d : Passed(d)' = Passed(d)
  BY <1>2, PassedStays
<1>5. ~Passed(n) /\ (\A i \in 1..Len(socket) : socket[i] # n) /\ (held # None => n # held)
  <2>1. DOMAIN socket = 1..Len(socket)
    BY DEF TypeOK
  <2>. QED BY <1>3, <2>1 DEF Placed, IInv, Sourced, Held, TypeOK
<1>6. /\ Len(socket') = Len(socket) + 1 /\ Len(socket) \in Nat
      /\ \A i \in 1..Len(socket) : socket'[i] = socket[i]
      /\ socket'[Len(socket) + 1] = n
  BY <1>1, AppendProperties, LenProperties DEF TypeOK
<1>7. \A i \in 1..Len(socket') : (i \in 1..Len(socket) /\ socket'[i] = socket[i]) \/ (i = Len(socket) + 1 /\ socket'[i] = n)
  BY <1>6
<1>8. \A i, j \in 1..Len(socket') : socket'[i] = socket'[j] => i = j
  BY <1>5, <1>7 DEF Placed
<1>9. n # None
  BY NoneAssumption
<1>10. Placed'
  <2>1. \A i \in 1..Len(socket') : ~Passed(socket'[i]) /\ socket'[i] # held
    BY <1>5, <1>7, <1>9 DEF Placed
  <2>2. \A d \in Datagram : Passed(d) => from'[d] \in Peer
    BY <1>3, <1>5 DEF Placed
  <2>. QED BY <1>2, <1>4, <1>8, <2>1, <2>2 DEF Placed
<1>11. Sent'
  <2>1. \A q \in Peer : sessions[q] # None => sessions[q] \in Datagram /\ sessions[q] # n
    BY <1>3 DEF Sent, TypeOK
  <2>. QED BY <1>2, <1>3, <2>1 DEF Sent
<1>. QED BY <1>10, <1>11

\* A datagram that is forwarded moves from the socket to the end of a line.
LEMMA ForwardsPlaced ==
    ASSUME TypeOK, TypeOK', IInv, Placed, Sent, Forwards
    PROVE  Placed' /\ Sent'
<1>. DEFINE n == Head(socket)
            s == sessions[from[n]]
<1>1. /\ socket # <<>> /\ socket' = Tail(socket) /\ loop = "recv" /\ Reaches(from[n])
      /\ chan' = [chan EXCEPT ![s] = Append(@, n)]
      /\ UNCHANGED <<from, held, sessions, up, frames, relay, served>>
  BY DEF Forwards
<1>2. held = None
  BY <1>1 DEF TypeOK
<1>3. /\ n \in Datagram /\ from[n] \in Peer /\ ~Passed(n)
      /\ \A i \in 1..Len(socket') : socket'[i] = socket[i + 1] /\ i + 1 \in 1..Len(socket) /\ socket'[i] # n
      /\ Len(socket') \in Nat
  BY <1>1, NextDatagram DEF IInv
<1>4. s \in Datagram /\ up[s] # "none"
  BY <1>1, <1>3 DEF Reaches, Sent, TypeOK
<1>5. /\ chan'[s] = Append(chan[s], n) /\ \A t \in Datagram \ {s} : chan'[t] = chan[t]
  BY <1>1, <1>4 DEF TypeOK
<1>6. /\ Lines'[s] = Append(Lines[s], n)
      /\ \A t \in Datagram \ {s} : Lines'[t] = Lines[t]
  <2>. HIDE DEF n, s
  <2>1. frames[s] \in Seq(Datagram) /\ chan[s] \in Seq(Datagram) /\ n \in Datagram
    BY <1>3, <1>4 DEF TypeOK
  <2>2. frames[s] \o Append(chan[s], n) = Append(frames[s] \o chan[s], n)
    <3>. DEFINE f == frames[s]
                c == chan[s]
    <3>1. f \in Seq(Datagram) /\ c \in Seq(Datagram) /\ n \in Datagram
      BY <2>1
    <3>. HIDE DEF f, c
    <3>2. f \o Append(c, n) = Append(f \o c, n)
      BY <3>1, ConcatAppend
    <3>. QED BY <3>2 DEF f, c
  <2>3. \A t \in Datagram : Lines[t] = frames[t] \o chan[t] /\ Lines'[t] = frames[t] \o chan'[t]
    BY <1>1 DEF Lines
  <2>. QED BY <1>4, <1>5, <2>2, <2>3
<1>7. /\ Apart(Lines') /\ \A x \in served : ~Holds(Lines', x)
      /\ \A x : Holds(Lines', x) => Holds(Lines, x) \/ x = n
  BY <1>1, <1>3, <1>4, <1>6, Joins
<1>8. \A d : Passed(d)' => Passed(d) \/ d = n
  BY <1>1, <1>7 DEF Passed
<1>. HIDE DEF n, s
<1>9. \A d : (\E i \in 1..Len(socket') : d = socket'[i]) => ~Passed(d)' /\ d # None
  <2>1. \A i \in 1..Len(socket') : ~Passed(socket'[i]) /\ socket'[i] # n /\ socket'[i] # held
    BY <1>3 DEF Placed
  <2>. QED BY <1>2, <1>8, <2>1
<1>10. \A i, j \in 1..Len(socket') : socket'[i] = socket'[j] => i = j
  BY <1>3 DEF Placed
<1>11. Placed'
  BY <1>1, <1>2, <1>3, <1>7, <1>8, <1>9, <1>10 DEF Placed
<1>12. Sent'
  BY <1>1, <1>4, <1>5 DEF Sent
<1>. QED BY <1>11, <1>12

\* A datagram that waits for a substream has left the socket.
LEMMA AsksPlaced ==
    ASSUME TypeOK, TypeOK', IInv, Placed, Sent, AsksForSubstream
    PROVE  Placed' /\ Sent'
<1>1. /\ socket # <<>> /\ socket' = Tail(socket) /\ held' = Head(socket)
      /\ sessions' = [sessions EXCEPT ![from[Head(socket)]] = None]
      /\ UNCHANGED <<from, up, chan, frames, relay, served>>
  BY DEF AsksForSubstream, pathVars
<1>2. UNCHANGED Lines /\ \A d : Passed(d)' = Passed(d)
  BY <1>1, PassedStays
<1>3. /\ ~Passed(Head(socket)) /\ Len(socket') \in Nat
      /\ \A i \in 1..Len(socket') : /\ socket'[i] = socket[i + 1] /\ i + 1 \in 1..Len(socket)
                                   /\ socket'[i] # Head(socket)
  BY <1>1, NextDatagram DEF IInv
<1>4. \A i, j \in 1..Len(socket') : socket'[i] = socket'[j] => i = j
  BY <1>3 DEF Placed
<1>5. \A i \in 1..Len(socket') : ~Passed(socket'[i]) /\ socket'[i] # held'
  BY <1>1, <1>3 DEF Placed
<1>6. Placed'
  BY <1>1, <1>2, <1>3, <1>4, <1>5 DEF Placed
<1>7. \A q \in Peer : sessions'[q] # None => sessions'[q] = sessions[q]
  BY <1>1 DEF TypeOK
<1>8. Sent'
  BY <1>1, <1>7 DEF Sent
<1>. QED BY <1>6, <1>8

\* A datagram that waited is the first of its line.
LEMMA NewSessionPlaced ==
    ASSUME TypeOK, TypeOK', IInv, Placed, Sent, NewSession
    PROVE  Placed' /\ Sent'
<1>1. /\ loop = "open" /\ held' = None
      /\ sessions' = [sessions EXCEPT ![from[held]] = held]
      /\ up' = [up EXCEPT ![held] = "head"] /\ chan' = [chan EXCEPT ![held] = <<held>>]
      /\ UNCHANGED <<from, socket, frames, relay, served>>
  BY DEF NewSession
<1>2. held \in Datagram /\ held # None /\ from[held] \in Peer /\ ~Passed(held)
  BY <1>1, NoneAssumption DEF IInv, Held, Placed
<1>3. up[held] = "none" /\ chan[held] = <<>> /\ relay[held] = "none" /\ frames[held] = <<>>
  BY <1>2 DEF Passed, Sent
<1>4. PICK h \in Datagram : h = held
  BY <1>2
<1>11. Lines'[h] = Append(Lines[h], h) /\ \A t \in Datagram \ {h} : Lines'[t] = Lines[t]
  <2>1. chan'[h] = <<h>> /\ \A t \in Datagram \ {h} : chan'[t] = chan[t]
    BY <1>1, <1>4 DEF TypeOK
  <2>2. <<>> \o <<h>> = Append(<<>> \o <<>>, h)
    OBVIOUS
  <2>3. \A t \in Datagram : Lines[t] = frames[t] \o chan[t] /\ Lines'[t] = frames[t] \o chan'[t]
    BY <1>1 DEF Lines
  <2>4. frames[h] = <<>> /\ chan[h] = <<>>
    BY <1>3, <1>4
  <2>. QED BY <2>1, <2>2, <2>3, <2>4
<1>5. /\ Apart(Lines') /\ \A x \in served : ~Holds(Lines', x)
      /\ \A x : Holds(Lines', x) => Holds(Lines, x) \/ x = h
  BY <1>1, <1>2, <1>4, <1>11, Joins
<1>6. up'[held] = "head" /\ \A t \in Datagram \ {held} : up'[t] = up[t]
  BY <1>1, <1>2 DEF TypeOK
<1>7. \A d \in Datagram : Passed(d)' => Passed(d) \/ d = h
  BY <1>1, <1>4, <1>5, <1>6 DEF Passed
<1>8. \A i \in 1..Len(socket) : socket[i] \in Datagram
  BY DEF TypeOK
<1>9. Placed'
  <2>1. \A d \in Datagram : Passed(d)' => from'[d] \in Peer
    BY <1>1, <1>2, <1>4, <1>7 DEF Placed
  <2>2. \A d : (\E i \in 1..Len(socket') : d = socket'[i]) => ~Passed(d)' /\ d # None
    <3>1. \A i \in 1..Len(socket') : /\ socket'[i] \in Datagram /\ ~Passed(socket'[i])
                                     /\ socket'[i] # h
      BY <1>1, <1>2, <1>4, <1>8 DEF Placed
    <3>. QED BY <1>7, <3>1, NoneAssumption
  <2>. QED BY <1>1, <1>5, <2>1, <2>2 DEF Placed
<1>10. Sent'
  <2>1. \A p \in Peer : sessions'[p] # None => up'[sessions'[p]] # "none" /\ from'[sessions'[p]] = p
    <3>. SUFFICES ASSUME NEW p \in Peer, sessions'[p] # None
                  PROVE  up'[sessions'[p]] # "none" /\ from'[sessions'[p]] = p
      OBVIOUS
    <3>1. CASE p = from[held]
      BY <1>1, <1>2, <1>6, <3>1 DEF TypeOK
    <3>2. CASE p # from[held]
      <4>1. sessions'[p] = sessions[p] /\ sessions[p] \in Datagram
        BY <1>1, <3>2 DEF TypeOK
      <4>. QED BY <1>1, <1>6, <4>1 DEF Sent
    <3>. QED BY <3>1, <3>2
  <2>2. \A t \in Datagram \ {held} : chan'[t] = chan[t]
    BY <1>1 DEF TypeOK
  <2>. QED BY <1>1, <1>3, <1>6, <2>1, <2>2 DEF Sent
<1>. QED BY <1>9, <1>10

\* Every step keeps each datagram in its one place.
LEMMA StepPlaced ==
    ASSUME TypeOK, TypeOK', IInv, Placed, Sent, [Next]_vars
    PROVE  Placed' /\ Sent'
<1>1. CASE OpenFailed
  <2>1. held' = None /\ UNCHANGED <<from, socket, sessions, up, chan, frames, relay, served>>
    BY <1>1 DEF OpenFailed, pathVars
  <2>2. UNCHANGED Lines /\ \A d : Passed(d)' = Passed(d)
    BY <2>1, PassedStays
  <2>3. \A i \in 1..Len(socket) : socket[i] # None
    BY NoneAssumption DEF TypeOK
  <2>. QED BY <2>1, <2>2, <2>3 DEF Placed, Sent
<1>2. CASE LoopGone
  <2>1. /\ held' = None /\ socket' = <<>> /\ sessions' = [p \in Peer |-> None]
        /\ UNCHANGED <<from, up, chan, frames, relay, served>>
    BY <1>2 DEF LoopGone, pathVars
  <2>2. UNCHANGED Lines /\ \A d : Passed(d)' = Passed(d)
    BY <2>1, PassedStays
  <2>. QED BY <2>1, <2>2 DEF Placed, Sent
<1>3. CASE UNCHANGED <<loopVars, pathVars>>
  <2>1. UNCHANGED <<from, socket, held, sessions, up, chan, frames, relay, served>>
    BY <1>3 DEF loopVars, pathVars
  <2>2. UNCHANGED Lines /\ \A d : Passed(d)' = Passed(d)
    BY <2>1, PassedStays
  <2>. QED BY <2>1, <2>2 DEF Placed, Sent
<1>4. ASSUME NEW c \in TcpConn, TcpArrives(c) \/ TcpAnswered(c) \/ TcpSpeaks(c) \/ TcpEnds(c)
      PROVE  UNCHANGED <<loopVars, pathVars>>
  BY <1>4 DEF TcpArrives, TcpAnswered, TcpSpeaks, TcpEnds
<1>5. CASE HandlerEnds \/ UNCHANGED vars
  BY <1>3, <1>5 DEF HandlerEnds, vars
<1>. QED BY <1>1, <1>2, <1>3, <1>4, <1>5, ArrivesPlaced, ForwardsPlaced, AsksPlaced, NewSessionPlaced,
            SessionPlaced DEF Next, LoopStep, RecvFails, Aborted
-----------------------------------------------------------------------------
(* The peers' datagrams travel as UdpPaths promises.                       *)

\* What UdpPaths shows of a peer and of a session.
Leads(p) == IF Reaches(p) THEN sessions[p] ELSE None
Owes(s) == IF relay[s] = "over" THEN <<>> ELSE frames[s] \o chan[s]

PathNow == [p \in Peer |-> Leads(p)]
OwedNow == [s \in Datagram |-> Owes(s)]
UsedNow == {s \in Datagram : up[s] # "none"}

SamePaths == \A p \in Peer : Leads(p)' = Leads(p)
SameOwed(s) == \A t \in Datagram \ {s} : Owes(t)' = Owes(t)
SameUsed == \A s \in Datagram : up'[s] # "none" <=> up[s] # "none"

\* Paths that stay owe what they are said to owe.
LEMMA Stays ==
    ASSUME SamePaths, SameOwed(None), SameUsed, served' = served
    PROVE  UNCHANGED Paths!vars
<1>1. PathNow' = PathNow /\ UsedNow' = UsedNow
  BY DEF SamePaths, SameUsed, PathNow, UsedNow
<1>2. OwedNow' = OwedNow
  BY NoneAssumption DEF SameOwed, OwedNow
<1>. QED BY <1>1, <1>2 DEF PathNow, OwedNow, UsedNow, Leads, Owes, Paths!vars

\* A path takes a datagram.
LEMMA Takes ==
    ASSUME NEW p \in Peer, NEW d \in Datagram, NEW s \in Datagram, Leads(p) = s,
           Owes(s)' = Append(Owes(s), d), SameOwed(s), SamePaths, SameUsed, served' = served
    PROVE  Paths!Next
<1>1. PathNow' = PathNow /\ UsedNow' = UsedNow
  BY DEF SamePaths, SameUsed, PathNow, UsedNow
<1>2. PathNow[p] = s /\ s # None
  BY NoneAssumption DEF PathNow
<1>3. OwedNow' = [OwedNow EXCEPT ![s] = Append(OwedNow[s], d)]
  BY DEF SameOwed, OwedNow
<1>4. OwedNow' = [OwedNow EXCEPT ![PathNow[p]] = Append(OwedNow[PathNow[p]], d)]
  BY <1>2, <1>3
<1>5. Paths!Take(p, d)
  BY <1>1, <1>2, <1>4 DEF PathNow, OwedNow, UsedNow, Leads, Owes, Paths!Take
<1>. QED BY <1>5 DEF Paths!Next

\* A path is opened.
LEMMA Opens ==
    ASSUME NEW p \in Peer, NEW s \in Datagram, Leads(p) = None, up[s] = "none",
           Leads(p)' = s, \A q \in Peer \ {p} : Leads(q)' = Leads(q),
           Owes(s)' = <<s>>, SameOwed(s), up'[s] # "none",
           \A t \in Datagram \ {s} : up'[t] = up[t], served' = served
    PROVE  Paths!Next
<1>1. PathNow' = [PathNow EXCEPT ![p] = s] /\ PathNow[p] = None
  BY DEF PathNow
<1>2. OwedNow' = [OwedNow EXCEPT ![s] = <<s>>]
  BY DEF SameOwed, OwedNow
<1>3. UsedNow' = UsedNow \cup {s} /\ s \notin UsedNow
  BY DEF UsedNow
<1>4. Paths!Open(p, s, s)
  BY <1>1, <1>2, <1>3 DEF PathNow, OwedNow, UsedNow, Leads, Owes, Paths!Open
<1>. QED BY <1>4 DEF Paths!Next

\* A path hands a datagram over.
LEMMA Serves ==
    ASSUME NEW s \in Datagram, Owes(s) # <<>>, Head(Owes(s)) \notin served,
           served' = served \cup {Head(Owes(s))}, Owes(s)' = Tail(Owes(s)), SameOwed(s),
           SamePaths, SameUsed
    PROVE  Paths!Next
<1>1. PathNow' = PathNow /\ UsedNow' = UsedNow
  BY DEF SamePaths, SameUsed, PathNow, UsedNow
<1>2. OwedNow' = [OwedNow EXCEPT ![s] = Tail(OwedNow[s])] /\ OwedNow[s] = Owes(s)
  BY DEF SameOwed, OwedNow
<1>3. /\ OwedNow[s] # <<>> /\ Head(OwedNow[s]) \notin served
      /\ served' = served \cup {Head(OwedNow[s])}
  BY <1>2
<1>4. Paths!Serve(s)
  BY <1>1, <1>2, <1>3 DEF PathNow, OwedNow, UsedNow, Leads, Owes, Paths!Serve
<1>. QED BY <1>4 DEF Paths!Next

\* Paths are given up, or lose the last of what they owe.
LEMMA GivesUp ==
    ASSUME NEW P \in SUBSET Peer, \A p \in Peer : Leads(p)' = IF p \in P THEN None ELSE Leads(p),
           \A s \in Datagram : \E k \in 0 .. Len(Owes(s)) : Owes(s)' = SubSeq(Owes(s), 1, k),
           SameUsed, served' = served
    PROVE  Paths!Next
<1>1. /\ PathNow' = [p \in Peer |-> IF p \in P THEN None ELSE PathNow[p]]
      /\ UsedNow' = UsedNow
  BY DEF SameUsed, PathNow, UsedNow
<1>2. /\ DOMAIN OwedNow' = Datagram
      /\ \A s \in Datagram : OwedNow[s] = Owes(s) /\ OwedNow'[s] = Owes(s)'
  BY DEF OwedNow
<1>3. \A s \in Datagram : \E k \in 0 .. Len(OwedNow[s]) : OwedNow'[s] = SubSeq(OwedNow[s], 1, k)
  BY <1>2
<1>4. Paths!GiveUp(P)
  BY <1>1, <1>2, <1>3 DEF PathNow, OwedNow, UsedNow, Leads, Owes, Paths!GiveUp
<1>. QED BY <1>4 DEF Paths!Next

\* What is left of a line that loses its end, all of it, nothing, or its first.
LEMMA LineCuts ==
    ASSUME NEW S, NEW f \in Seq(S), NEW c \in Seq(S)
    PROVE  /\ Len(f) \in 0 .. Len(f \o c) /\ SubSeq(f \o c, 1, Len(f)) = f \o <<>>
           /\ Len(f \o c) \in 0 .. Len(f \o c) /\ SubSeq(f \o c, 1, Len(f \o c)) = f \o c
           /\ 0 \in 0 .. Len(f \o c) /\ SubSeq(f \o c, 1, 0) = <<>>
           /\ f # <<>> => /\ Tail(f \o c) = Tail(f) \o c /\ f \o c # <<>>
                          /\ Head(f \o c) = Head(f)
<1>1. /\ f \o c \in Seq(S) /\ Len(f \o c) = Len(f) + Len(c) /\ Len(f) \in Nat /\ Len(c) \in Nat
      /\ \A i \in 1..Len(f) + Len(c) : (f \o c)[i] = IF i <= Len(f) THEN f[i] ELSE c[i - Len(f)]
      /\ f \o <<>> = f
  BY ConcatProperties, ConcatEmptySeq, LenProperties
<1>2. SubSeq(f \o c, 1, Len(f)) = f
  <2>1. \A i \in 1 .. Len(f) : (f \o c)[i] = f[i]
    BY <1>1
  <2>. QED BY <1>1, <2>1
<1>3. SubSeq(f \o c, 1, Len(f \o c)) = f \o c /\ SubSeq(f \o c, 1, 0) = <<>>
  BY <1>1
<1>4. ASSUME f # <<>>
      PROVE  Tail(f \o c) = Tail(f) \o c /\ f \o c # <<>> /\ Head(f \o c) = Head(f)
  <2>1. Len(f) # 0
    BY <1>4, EmptySeq
  <2>2. f \o c # <<>>
    BY <1>1, <2>1
  <2>. QED BY <1>4, <2>2
<1>. QED BY <1>1, <1>2, <1>3, <1>4

\* Sessions and paths are typed.
LEMMA PathTypes ==
    ASSUME TypeOK
    PROVE  /\ \A p \in Peer : Leads(p) \in Datagram \cup {None}
           /\ \A s \in Datagram : Owes(s) \in Seq(Datagram) /\ Len(Owes(s)) \in 0 .. Len(Owes(s))
                                  /\ SubSeq(Owes(s), 1, Len(Owes(s))) = Owes(s)
<1>1. \A p \in Peer : Leads(p) \in Datagram \cup {None}
  BY DEF TypeOK, Leads
<1>2. ASSUME NEW s \in Datagram
      PROVE  Owes(s) \in Seq(Datagram) /\ Len(Owes(s)) \in 0 .. Len(Owes(s))
             /\ SubSeq(Owes(s), 1, Len(Owes(s))) = Owes(s)
  <2>1. frames[s] \in Seq(Datagram) /\ chan[s] \in Seq(Datagram)
    BY DEF TypeOK
  <2>2. Owes(s) \in Seq(Datagram)
    BY <2>1, ConcatProperties DEF Owes
  <2>. QED BY <2>2
<1>. QED BY <1>1, <1>2

\* What the loop forwards joins its peer's path, or is lost where the client has left.
LEMMA ForwardsRefines ==
    ASSUME TypeOK, IInv, Placed, Sent, Forwards
    PROVE  Paths!Next \/ UNCHANGED Paths!vars
<1>1. /\ socket # <<>> /\ Reaches(from[Head(socket)])
      /\ chan' = [chan EXCEPT ![sessions[from[Head(socket)]]] = Append(@, Head(socket))]
      /\ UNCHANGED <<from, sessions, up, frames, relay, served>>
  BY DEF Forwards
<1>2. PICK n \in Datagram, p \in Peer : n = Head(socket) /\ p = from[n]
  BY <1>1, NextDatagram DEF IInv
<1>3. PICK s \in Datagram : s = sessions[p] /\ Leads(p) = s
  BY <1>1, <1>2 DEF Leads, Reaches, TypeOK
<1>4. chan'[s] = Append(chan[s], n) /\ \A t \in Datagram \ {s} : chan'[t] = chan[t]
  BY <1>1, <1>2, <1>3 DEF TypeOK
<1>5. SamePaths /\ SameUsed
  BY <1>1 DEF SamePaths, SameUsed, Leads, Reaches
<1>6. SameOwed(s)
  BY <1>1, <1>4 DEF SameOwed, Owes
<1>7. CASE relay[s] = "over"
  <2>1. Owes(s)' = Owes(s)
    BY <1>1, <1>7 DEF Owes
  <2>2. SameOwed(None)
    BY <1>6, <2>1 DEF SameOwed
  <2>. QED BY <1>1, <1>5, <2>2, Stays
<1>8. CASE relay[s] # "over"
  <2>1. frames[s] \in Seq(Datagram) /\ chan[s] \in Seq(Datagram)
    BY DEF TypeOK
  <2>2. frames[s] \o Append(chan[s], n) = Append(frames[s] \o chan[s], n)
    <3>. DEFINE f == frames[s]
                c == chan[s]
    <3>1. f \in Seq(Datagram) /\ c \in Seq(Datagram)
      BY <2>1
    <3>. HIDE DEF f, c
    <3>2. f \o Append(c, n) = Append(f \o c, n)
      BY <3>1, ConcatAppend
    <3>. QED BY <3>2 DEF f, c
  <2>3. Owes(s)' = Append(Owes(s), n)
    BY <1>1, <1>4, <1>8, <2>2 DEF Owes
  <2>. QED BY <1>1, <1>3, <1>5, <1>6, <2>3, Takes
<1>. QED BY <1>7, <1>8

\* A session for the datagram that waited is a path for its peer, who has none.
LEMMA NewSessionRefines ==
    ASSUME TypeOK, IInv, Placed, Sent, NewSession
    PROVE  Paths!Next
<1>1. /\ loop = "open" /\ sessions' = [sessions EXCEPT ![from[held]] = held]
      /\ up' = [up EXCEPT ![held] = "head"] /\ chan' = [chan EXCEPT ![held] = <<held>>]
      /\ UNCHANGED <<from, frames, relay, served>>
  BY DEF NewSession
<1>2. PICK s \in Datagram, p \in Peer : s = held /\ p = from[s] /\ sessions[p] = None
  BY <1>1 DEF IInv, Held
<1>3. up[s] = "none" /\ relay[s] = "none" /\ frames[s] = <<>>
  BY <1>1, <1>2, NoneAssumption DEF Placed, Passed, Sent
<1>4. /\ sessions'[p] = s /\ \A q \in Peer \ {p} : sessions'[q] = sessions[q]
      /\ up'[s] = "head" /\ \A t \in Datagram \ {s} : up'[t] = up[t]
      /\ chan'[s] = <<s>> /\ \A t \in Datagram \ {s} : chan'[t] = chan[t]
  BY <1>1, <1>2 DEF TypeOK
<1>5. Leads(p) = None /\ Leads(p)' = s
  BY <1>2, <1>4, NoneAssumption DEF Leads, Reaches
<1>6. ASSUME NEW q \in Peer \ {p} PROVE Leads(q)' = Leads(q)
  <2>1. sessions[q] # None => sessions[q] \in Datagram \ {s}
    BY <1>3 DEF Sent, TypeOK
  <2>. QED BY <1>4, <2>1 DEF Leads, Reaches
<1>7. Owes(s)' = <<s>> /\ SameOwed(s)
  <2>1. <<>> \o <<s>> = <<s>>
    OBVIOUS
  <2>. QED BY <1>1, <1>3, <1>4, <2>1 DEF Owes, SameOwed
<1>. QED BY <1>1, <1>3, <1>4, <1>5, <1>6, <1>7, Opens

\* A datagram is dropped from the sessions' own hands only with what came after it.
LEMMA UpDoneRefines ==
    ASSUME TypeOK, Sent, NEW s \in Datagram, up[s] # "none", UpDone(s)
    PROVE  Paths!Next
<1>1. /\ up' = [up EXCEPT ![s] = "done"] /\ chan' = [chan EXCEPT ![s] = <<>>]
      /\ UNCHANGED <<from, sessions, frames, relay, served>>
  BY DEF UpDone, loopVars
<1>2. /\ up'[s] = "done" /\ \A t \in Datagram \ {s} : up'[t] = up[t]
      /\ chan'[s] = <<>> /\ \A t \in Datagram \ {s} : chan'[t] = chan[t]
  BY <1>1 DEF TypeOK
<1>. DEFINE P == {p \in Peer : sessions[p] = s}
<1>3. ASSUME NEW p \in Peer PROVE Leads(p)' = IF p \in P THEN None ELSE Leads(p)
  <2>1. CASE sessions[p] = s
    BY <1>1, <1>2, <2>1 DEF Leads, Reaches
  <2>2. CASE sessions[p] # s
    <3>1. sessions[p] \in (Datagram \ {s}) \cup {None}
      BY <2>2 DEF TypeOK
    <3>. QED BY <1>1, <1>2, <2>2, <3>1 DEF Leads, Reaches
  <2>. QED BY <2>1, <2>2
<1>4. ASSUME NEW t \in Datagram
      PROVE  \E k \in 0 .. Len(Owes(t)) : Owes(t)' = SubSeq(Owes(t), 1, k)
  <2>1. CASE t = s /\ relay[s] # "over"
    <3>1. frames[s] \in Seq(Datagram) /\ chan[s] \in Seq(Datagram)
      BY DEF TypeOK
    <3>2. Owes(s) = frames[s] \o chan[s] /\ Owes(s)' = frames[s] \o <<>>
      BY <1>1, <1>2, <2>1 DEF Owes
    <3>3. /\ Len(frames[s]) \in 0 .. Len(frames[s] \o chan[s])
          /\ SubSeq(frames[s] \o chan[s], 1, Len(frames[s])) = frames[s] \o <<>>
      BY <3>1, LineCuts
    <3>. QED BY <2>1, <3>2, <3>3
  <2>2. CASE ~(t = s /\ relay[s] # "over")
    <3>1. Owes(t)' = Owes(t)
      BY <1>1, <1>2, <2>2 DEF Owes
    <3>. QED BY <3>1, PathTypes
  <2>. QED BY <2>1, <2>2
<1>5. SameUsed
  BY <1>2 DEF SameUsed
<1>. QED BY <1>1, <1>3, <1>4, <1>5, GivesUp

\* What a session moves from its channel to its substream it owes as before.
LEMMA WritesRefines ==
    ASSUME TypeOK, Sent, NEW s \in Datagram, Writes(s)
    PROVE  UNCHANGED Paths!vars
<1>1. /\ chan[s] # <<>> /\ chan'[s] = Tail(chan[s]) /\ \A t \in Datagram \ {s} : chan'[t] = chan[t]
      /\ UNCHANGED <<from, sessions, up, relay, served>>
  BY DEF Writes, loopVars, TypeOK
<1>2. CASE relay[s] = "over"
  <2>1. frames' = frames
    BY <1>2 DEF Writes
  <2>2. SameOwed(None)
    BY <1>1, <1>2, <2>1 DEF SameOwed, Owes
  <2>. QED BY <1>1, <2>2, Stays DEF SamePaths, SameUsed, Leads, Reaches
<1>3. CASE relay[s] # "over"
  <2>1. /\ frames'[s] = Append(frames[s], Head(chan[s]))
        /\ \A t \in Datagram \ {s} : frames'[t] = frames[t]
    BY <1>3 DEF Writes, TypeOK
  <2>2. frames[s] \in Seq(Datagram) /\ chan[s] \in Seq(Datagram)
    BY DEF TypeOK
  <2>3. Append(frames[s], Head(chan[s])) \o Tail(chan[s]) = frames[s] \o chan[s]
    BY <1>1, <2>2, LineParts
  <2>4. Owes(s)' = Owes(s)
    BY <1>1, <1>3, <2>1, <2>3 DEF Owes
  <2>5. SameOwed(None)
    BY <1>1, <2>1, <2>4 DEF SameOwed, Owes
  <2>. QED BY <1>1, <2>5, Stays DEF SamePaths, SameUsed, Leads, Reaches
<1>. QED BY <1>2, <1>3

\* The client hands over the first datagram of its session's line.
LEMMA ToLocalRefines ==
    ASSUME TypeOK, Placed, NEW s \in Datagram, ToLocal(s)
    PROVE  Paths!Next
<1>1. /\ relay[s] = "relay" /\ frames[s] # <<>> /\ served' = served \cup {Head(frames[s])}
      /\ frames'[s] = Tail(frames[s]) /\ \A t \in Datagram \ {s} : frames'[t] = frames[t]
      /\ UNCHANGED <<from, sessions, chan, up, relay>>
  BY DEF ToLocal, loopVars, TypeOK
<1>2. frames[s] \in Seq(Datagram) /\ chan[s] \in Seq(Datagram)
  BY DEF TypeOK
<1>3. /\ Tail(frames[s] \o chan[s]) = Tail(frames[s]) \o chan[s] /\ frames[s] \o chan[s] # <<>>
      /\ Head(frames[s] \o chan[s]) = Head(frames[s])
  <2>1. ASSUME NEW f \in Seq(Datagram), NEW c \in Seq(Datagram), f # <<>>
        PROVE  Tail(f \o c) = Tail(f) \o c /\ f \o c # <<>> /\ Head(f \o c) = Head(f)
    BY <2>1, LineCuts
  <2>. QED BY <1>1, <1>2, <2>1
<1>4. Owes(s) = frames[s] \o chan[s] /\ Owes(s)' = Tail(frames[s]) \o chan[s] /\ SameOwed(s)
  BY <1>1 DEF Owes, SameOwed
<1>5. Head(Owes(s)) \notin served
  <2>1. Lines[s] = Owes(s) /\ Owes(s) \in Seq(Datagram) /\ Owes(s) # <<>>
    BY <1>3, <1>4, PathTypes DEF Lines
  <2>2. 1 \in 1 .. Len(Lines[s]) /\ Lines[s][1] = Head(Owes(s))
    BY <2>1, EmptySeq, LenProperties
  <2>. QED BY <2>2 DEF Placed, Holds
<1>. QED BY <1>1, <1>3, <1>4, <1>5, Serves DEF SamePaths, SameUsed, Leads, Reaches

\* A client that lets go of a session loses all that the session owes.
LEMMA LetsGoRefines ==
    ASSUME TypeOK, NEW s \in Datagram, LetsGo(s)
    PROVE  Paths!Next
<1>1. /\ relay'[s] = "over" /\ \A t \in Datagram \ {s} : relay'[t] = relay[t] /\ frames'[t] = frames[t]
      /\ UNCHANGED <<from, sessions, chan, up, served>>
  BY DEF LetsGo, loopVars, TypeOK
<1>2. ASSUME NEW t \in Datagram
      PROVE  \E k \in 0 .. Len(Owes(t)) : Owes(t)' = SubSeq(Owes(t), 1, k)
  <2>1. CASE t = s
    <3>1. Owes(s)' = <<>>
      BY <1>1 DEF Owes
    <3>2. Owes(s) \in Seq(Datagram)
      BY PathTypes
    <3>3. SubSeq(Owes(s), 1, 0) = <<>> /\ 0 \in 0 .. Len(Owes(s))
      BY <3>2
    <3>. QED BY <2>1, <3>1, <3>3
  <2>2. CASE t # s
    <3>1. Owes(t)' = Owes(t)
      BY <1>1, <2>2 DEF Owes
    <3>. QED BY <3>1, PathTypes
  <2>. QED BY <2>1, <2>2
<1>. DEFINE P == {}
<1>3. P \in SUBSET Peer /\ \A p \in Peer : Leads(p)' = IF p \in P THEN None ELSE Leads(p)
  BY <1>1 DEF Leads, Reaches
<1>4. SameUsed
  BY <1>1 DEF SameUsed
<1>. HIDE DEF P
<1>. QED BY <1>1, <1>2, <1>3, <1>4, GivesUp

\* A session's steps are steps of its path.
LEMMA SessionRefines ==
    ASSUME TypeOK, Placed, Sent, NEW s \in Datagram, UpStep(s) \/ DownStep(s) \/ ClientStep(s)
    PROVE  Paths!Next \/ UNCHANGED Paths!vars
<1>1. CASE WritesHead(s)
  <2>1. /\ up[s] = "head" /\ up'[s] = "relay" /\ relay'[s] = "relay" /\ relay[s] # "over"
        /\ \A t \in Datagram \ {s} : up'[t] = up[t] /\ relay'[t] = relay[t]
        /\ UNCHANGED <<from, sessions, chan, frames, served>>
    BY <1>1 DEF WritesHead, loopVars, Sent, TypeOK
  <2>2. SameOwed(None) /\ SameUsed
    BY <2>1 DEF SameOwed, Owes, SameUsed
  <2>3. ASSUME NEW p \in Peer PROVE Leads(p)' = Leads(p)
    <3>1. sessions[p] \in Datagram \cup {None}
      BY DEF TypeOK
    <3>. QED BY <2>1, <3>1 DEF Leads, Reaches
  <2>. QED BY <2>1, <2>2, <2>3, Stays DEF SamePaths
<1>2. CASE DownDone(s) \/ Answers(s)
  <2>1. UNCHANGED <<from, sessions, up, relay, chan, frames, served>>
    BY <1>2 DEF DownDone, Answers, loopVars
  <2>. QED BY <2>1, Stays DEF SamePaths, SameOwed, SameUsed, Leads, Owes, Reaches
<1>. QED BY <1>1, <1>2, WritesRefines, UpDoneRefines, ToLocalRefines, LetsGoRefines
         DEF UpStep, WriteFails, ChannelCloses, StopsUp, DownStep, StopsDown, IdleOrEnd, ClientStep

\* Every step of the proxy is a step of the paths, or changes nothing of them.
LEMMA StepRefines ==
    ASSUME TypeOK, IInv, Placed, Sent, [Next]_vars
    PROVE  Paths!Next \/ UNCHANGED Paths!vars
<1>1. CASE UNCHANGED <<sessions, pathVars>>
  <2>1. UNCHANGED <<sessions, up, relay, chan, frames, served>>
    BY <1>1 DEF pathVars
  <2>. QED BY <2>1, Stays DEF SamePaths, SameOwed, SameUsed, Leads, Owes, Reaches
<1>2. CASE AsksForSubstream
  <2>1. /\ socket # <<>> /\ ~Reaches(from[Head(socket)])
        /\ sessions' = [sessions EXCEPT ![from[Head(socket)]] = None]
        /\ UNCHANGED <<up, relay, chan, frames, served>>
    BY <1>2 DEF AsksForSubstream, pathVars
  <2>2. PICK q \in Peer : q = from[Head(socket)]
    BY <2>1, NextDatagram DEF IInv
  <2>3. Leads(q)' = None /\ Leads(q) = None /\ \A p \in Peer \ {q} : sessions'[p] = sessions[p]
    BY <2>1, <2>2 DEF Leads, Reaches, TypeOK
  <2>4. SamePaths
    BY <2>1, <2>3 DEF SamePaths, Leads, Reaches
  <2>. QED BY <2>1, <2>4, Stays DEF SameOwed, SameUsed, Owes
<1>3. CASE LoopGone
  <2>1. /\ \A p \in Peer : sessions'[p] = None
        /\ UNCHANGED <<up, relay, chan, frames, served>>
    BY <1>3 DEF LoopGone, pathVars
  <2>2. SameUsed /\ \A p \in Peer : Leads(p)' = IF p \in Peer THEN None ELSE Leads(p)
    BY <2>1 DEF SameUsed, Leads, Reaches
  <2>3. \A s \in Datagram : Owes(s)' = Owes(s)
    BY <2>1 DEF Owes
  <2>4. \A s \in Datagram : \E k \in 0 .. Len(Owes(s)) : Owes(s)' = SubSeq(Owes(s), 1, k)
    BY <2>3, PathTypes
  <2>. QED BY <2>1, <2>2, <2>4, GivesUp
<1>4. ASSUME NEW p \in Peer, Arrives(p) PROVE UNCHANGED <<sessions, pathVars>>
  BY <1>4 DEF Arrives
<1>5. ASSUME NEW c \in TcpConn, TcpArrives(c) \/ TcpAnswered(c) \/ TcpSpeaks(c) \/ TcpEnds(c)
      PROVE  UNCHANGED <<sessions, pathVars>>
  BY <1>5 DEF TcpArrives, TcpAnswered, TcpSpeaks, TcpEnds, loopVars
<1>6. CASE OpenFailed \/ HandlerEnds \/ UNCHANGED vars
  BY <1>1, <1>6 DEF OpenFailed, HandlerEnds, vars, loopVars
<1>7. CASE MuxStep /\ UNCHANGED <<loopVars, pathVars, handler, tcp>>
  BY <1>1, <1>7 DEF loopVars
<1>. QED BY <1>1, <1>2, <1>3, <1>4, <1>5, <1>6, <1>7, ForwardsRefines, NewSessionRefines, SessionRefines
         DEF Next, LoopStep, RecvFails, Aborted

\* No peer has a path before anything arrives.
LEMMA InitRefines == Init => Paths!Init /\ Placed /\ Sent
<1>. SUFFICES ASSUME Init PROVE Paths!Init /\ Placed /\ Sent
  OBVIOUS
<1>1. /\ \A p \in Peer : ~Reaches(p)
      /\ \A s \in Datagram : /\ frames[s] \o chan[s] = <<>> /\ up[s] = "none" /\ relay[s] = "none"
                             /\ frames[s] = <<>> /\ chan[s] = <<>>
      /\ served = {} /\ socket = <<>> /\ held = None /\ \A p \in Peer : sessions[p] = None
  BY DEF Init, Reaches
<1>2. Paths!Init
  BY <1>1 DEF Paths!Init
<1>3. \A s \in Datagram : Lines[s] = <<>>
  BY <1>1 DEF Lines
<1>4. (\A d : ~Holds(Lines, d)) /\ Apart(Lines)
  BY <1>3 DEF Holds, Apart
<1>5. Placed /\ Sent
  BY <1>1, <1>4 DEF Placed, Sent, Passed
<1>. QED BY <1>2, <1>5

\* The datagrams of a peer travel as UdpPaths promises: on one path at a time,
\* handed over in their order and never twice, whatever the peers, the clock,
\* the multiplexer and the client do.
THEOREM PathsHold == Spec => PathsSpec
<1>1. Typed /\ IInv /\ Placed /\ Sent /\ [Next]_vars => (Placed /\ Sent)'
  <2>1. Typed /\ IInv /\ [Next]_vars => Typed'
    BY StepTyped
  <2>. QED BY <2>1, StepPlaced DEF Typed
<1>2. Typed /\ IInv /\ Placed /\ Sent /\ [Next]_vars => [Paths!Next]_(Paths!vars)
  BY StepRefines DEF Typed
<1>. QED BY <1>1, <1>2, InitRefines, InitHolds, StepHolds, InitTyped, StepTyped, PTL
         DEF Spec, PathsSpec, Paths!Spec
=============================================================================

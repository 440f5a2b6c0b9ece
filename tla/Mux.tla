--------------------------------- MODULE Mux ---------------------------------
(***************************************************************************)
(* The multiplexer of one tunnel (srp-core/src/mux.rs): a driver task owns *)
(* the yamux connection and serves requests for substreams one at a time.  *)
(* A request waits in an unbounded channel, then as the one the driver     *)
(* works on; yamux makes it wait while too many substreams have not been   *)
(* acknowledged by the other end.                                          *)
(***************************************************************************)
EXTENDS Naturals, Sequences, FiniteSets

CONSTANTS
    Requester,   \* the tasks that open substreams
    Backlog,     \* yamux: the most substreams without an acknowledgement
    NoRequest

ASSUME MuxAssumption == Backlog \in Nat \ {0} /\ NoRequest \notin Requester

VARIABLES
    link,      \* the byte stream below: "up" or "down"
    driver,    \* "running", "closing" or "ended"
    queue,     \* the requests the driver has not picked up
    pending,   \* the request it works on, or NoRequest
    answer     \* what each task knows: "none", "waiting", "ok", "err", or
               \* "gone" when the task was stopped

muxVars == <<link, driver, queue, pending, answer>>

MuxInit == /\ link = "up" /\ driver = "running"
           /\ queue = <<>> /\ pending = NoRequest
           /\ answer = [r \in Requester |-> "none"]

\* Mux::open: the channel is closed once the driver is over.
Request(r) ==
    /\ IF driver = "ended"
       THEN answer' = [answer EXCEPT ![r] = "err"] /\ UNCHANGED queue
       ELSE answer' = [answer EXCEPT ![r] = "waiting"] /\ queue' = Append(queue, r)
    /\ UNCHANGED <<link, driver, pending>>

\* The task takes its answer, or is stopped while it waits.
Consume(r) == answer' = [answer EXCEPT ![r] = "none"] /\ UNCHANGED <<link, driver, queue, pending>>
Withdraw(r) == answer' = [answer EXCEPT ![r] = "gone"] /\ UNCHANGED <<link, driver, queue, pending>>

TakeRequest == /\ driver = "running" /\ pending = NoRequest /\ queue # <<>>
               /\ pending' = Head(queue) /\ queue' = Tail(queue)
               /\ UNCHANGED <<link, driver, answer>>

Reply(r, what) == answer' = [answer EXCEPT ![r] = IF @ = "waiting" THEN what ELSE @]

\* A substream opens; one that nobody waits for any more is dropped at once.
OpenReady(unacked) == /\ driver = "running" /\ pending # NoRequest /\ unacked < Backlog
                      /\ Reply(pending, "ok") /\ pending' = NoRequest
                      /\ UNCHANGED <<link, driver, queue>>

\* yamux refuses, for instance when it is out of identifiers.
OpenRefused == /\ driver = "running" /\ pending # NoRequest
               /\ Reply(pending, "err") /\ pending' = NoRequest
               /\ UNCHANGED <<link, driver, queue>>

LinkFails == link = "up" /\ link' = "down" /\ UNCHANGED <<driver, queue, pending, answer>>

SeesEnd == /\ driver = "running" /\ link = "down"
           /\ driver' = "closing" /\ UNCHANGED <<link, queue, pending, answer>>

\* No handle is left.  The channel is not looked at while a request is pending.
SeesNoHandles == /\ driver = "running" /\ pending = NoRequest /\ queue = <<>>
                 /\ driver' = "closing" /\ UNCHANGED <<link, queue, pending, answer>>

Unanswered == {r \in Requester : pending = r \/ \E i \in DOMAIN queue : queue[i] = r}

\* Seeded bug: the request the driver worked on is not answered.
ClosedForgetsPending ==
    /\ driver = "closing"
    /\ driver' = "ended" /\ link' = "down" /\ queue' = <<>> /\ pending' = NoRequest
    /\ answer' = [r \in Requester |-> IF r \in Unanswered \ {pending} /\ answer[r] = "waiting"
                                      THEN "err" ELSE answer[r]]

\* The driver returns and drops every request it holds.
Closed ==
    /\ driver = "closing"
    /\ driver' = "ended" /\ link' = "down" /\ queue' = <<>> /\ pending' = NoRequest
    /\ answer' = [r \in Requester |-> IF r \in Unanswered /\ answer[r] = "waiting"
                                      THEN "err" ELSE answer[r]]

\* Whoever waits is known to the driver, once; nobody else is.
MuxTypeOK ==
    /\ link \in {"up", "down"} /\ driver \in {"running", "closing", "ended"}
    /\ queue \in Seq(Requester) /\ pending \in Requester \cup {NoRequest}
    /\ answer \in [Requester -> {"none", "waiting", "ok", "err", "gone"}]
    /\ \A i, j \in DOMAIN queue : queue[i] = queue[j] => i = j
    /\ \A i \in DOMAIN queue : queue[i] # pending
    /\ \A r \in Requester : answer[r] = "waiting" => r \in Unanswered
    /\ \A r \in Unanswered : answer[r] \in {"waiting", "gone"}
=============================================================================

------------------------------- MODULE Metrics -------------------------------
(***************************************************************************)
(* The dashboard's traffic registry (rs_srpd/src/metrics.rs) and the task  *)
(* that samples it (server.rs, run).  Relays bump the counters of their    *)
(* proxy without any lock; registering, retiring and summing hold the lock *)
(* of the registry, and load the counters one after the other; the history *)
(* has a lock of its own and is written to disk now and then.  Counters of *)
(* both directions are kept by the same statements: one stands for both.   *)
(* The process may die at any step and is then started again.              *)
(***************************************************************************)
EXTENDS Naturals, Sequences, FiniteSets, FiniteSetsExt, SequencesExt

CONSTANTS
    Tunnel,        \* tunnels
    Proxy,         \* registrations of proxies: each has counters of its own
    HistoryCap,    \* HISTORY_CAP
    PersistEvery,  \* samples between two writes of the history
    MaxBytes,      \* bound: bytes relayed by one process
    MaxSamples,    \* bound: samples of one process
    MaxStarts,     \* bound: starts of the process
    Nobody, Torn   \* no holder of the lock; a file cut short

ASSUME BoundsAssumption ==
    /\ HistoryCap \in Nat \ {0} /\ PersistEvery \in Nat \ {0}
    /\ MaxBytes \in Nat /\ MaxSamples \in Nat /\ MaxStarts \in Nat \ {0}
ASSUME NamesAssumption == "sampler" \notin Tunnel /\ Nobody \notin Tunnel \cup {"sampler"}

VARIABLES
    tunnels,     \* the registry: the proxies of each live tunnel
    left,        \* tunnels that are over, in this process
    bytes,       \* the counter of each proxy that has one, shared with its relays
    retired,     \* bytes of the tunnels that are over
    holder,      \* who holds the lock of the registry
    sum, unread, \* the holder's sum so far, and the counters it has still to load
    sampler,     \* what the sampler does: "idle", "sum", "push", "persist", "write"
    total,       \* the total to push next
    n,           \* samples taken
    history,     \* the samples, oldest first
    file,        \* the history on disk, or Torn
    starts,      \* starts of the process
    due,         \* history variable: the bytes counted while their tunnel was listed
    last, floor  \* history variables: the last sample of this process, and the
                 \* bytes due when the sampler took the lock

registryVars == <<tunnels, left, bytes, retired, due>>
lockVars == <<holder, sum, unread>>
sampleVars == <<sampler, total, n, history, last, floor>>
vars == <<registryVars, lockVars, sampleVars, file, starts>>

Fresh == /\ tunnels = [t \in {} |-> {}] /\ left = {}
         /\ bytes = [p \in {} |-> 0] /\ retired = 0 /\ due = 0
         /\ holder = Nobody /\ sum = 0 /\ unread = {}
         /\ sampler = "idle" /\ total = 0 /\ n = 0 /\ last = 0 /\ floor = 0

Init == Fresh /\ history = <<>> /\ file = <<>> /\ starts = 1

Total(ps) == MapThenSumSet(LAMBDA p : bytes[p], ps)
Listed == UNION {tunnels[t] : t \in DOMAIN tunnels}
-----------------------------------------------------------------------------
(* The handlers and the relays.                                            *)

RegisterTunnel(t) ==
    /\ holder = Nobody /\ t \notin DOMAIN tunnels \cup left
    /\ tunnels' = [s \in DOMAIN tunnels \cup {t} |-> IF s = t THEN {} ELSE tunnels[s]]
    /\ UNCHANGED <<left, bytes, retired, due, lockVars, sampleVars, file, starts>>

\* Only the handler of t registers proxies of t, and it is live meanwhile.
RegisterProxy(t, p) ==
    /\ holder = Nobody /\ t \in DOMAIN tunnels /\ p \notin DOMAIN bytes
    /\ bytes' = [q \in DOMAIN bytes \cup {p} |-> IF q = p THEN 0 ELSE bytes[q]]
    /\ tunnels' = [tunnels EXCEPT ![t] = @ \cup {p}]
    /\ UNCHANGED <<left, retired, due, lockVars, sampleVars, file, starts>>

\* A relay counts a byte, whether its tunnel is still listed or not: TCP
\* connections and UDP sessions outlive the handler.
Count(p) ==
    /\ p \in DOMAIN bytes /\ Total(DOMAIN bytes) < MaxBytes
    /\ bytes' = [bytes EXCEPT ![p] = @ + 1]
    /\ due' = IF p \in Listed THEN due + 1 ELSE due
    /\ UNCHANGED <<tunnels, left, retired, lockVars, sampleVars, file, starts>>

\* Seeded bug: the tunnel stays on the registry while it is retired.
KeptOnTheList(t) == tunnels

Delisted(t) == [s \in DOMAIN tunnels \ {t} |-> tunnels[s]]

\* unregister_tunnel takes the tunnel off the registry, adds up its counters
\* and retires the sum before it lets go of the lock.
Unregister(t) ==
    /\ holder = Nobody /\ t \in DOMAIN tunnels \ left
    /\ holder' = t /\ sum' = 0 /\ unread' = tunnels[t]
    /\ tunnels' = Delisted(t)
    /\ left' = left \cup {t}
    /\ UNCHANGED <<bytes, retired, due, sampleVars, file, starts>>

\* The holder of the lock loads one more counter.
Load(p) ==
    /\ p \in unread
    /\ unread' = unread \ {p} /\ sum' = sum + bytes[p]
    /\ UNCHANGED <<holder, registryVars, sampleVars, file, starts>>

\* Seeded bug: the traffic of a tunnel that is over is forgotten.
RetiredNever == retired

Retired == retired + sum

Retire(t) ==
    /\ holder = t /\ unread = {}
    /\ retired' = Retired
    /\ holder' = Nobody /\ sum' = 0
    /\ UNCHANGED <<tunnels, left, bytes, due, unread, sampleVars, file, starts>>
-----------------------------------------------------------------------------
(* The sampler.                                                            *)

\* totals takes the lock of the registry and starts from the retired total.
SampleBegins ==
    /\ sampler = "idle" /\ n < MaxSamples /\ holder = Nobody
    /\ holder' = "sampler" /\ sum' = retired /\ unread' = Listed
    /\ floor' = due
    /\ sampler' = "sum"
    /\ UNCHANGED <<registryVars, total, n, history, last, file, starts>>

SampleSummed ==
    /\ sampler = "sum" /\ holder = "sampler" /\ unread = {}
    /\ total' = sum
    /\ holder' = Nobody /\ sum' = 0 /\ sampler' = "push"
    /\ UNCHANGED <<registryVars, unread, n, history, last, floor, file, starts>>

\* Seeded bug: the history is never trimmed.
TrimmedNever(samples) == samples

Trimmed(samples) == IF Len(samples) > HistoryCap THEN Tail(samples) ELSE samples

PersistAfter(k) == k % PersistEvery = 0

\* The sample is pushed under the history's own lock; every PersistEvery-th
\* time the history is written to disk next.
SamplePushed ==
    /\ sampler = "push"
    /\ history' = Trimmed(Append(history, total))
    /\ last' = total /\ total' = 0 /\ floor' = 0
    /\ n' = n + 1
    /\ sampler' = IF PersistAfter(n') THEN "persist" ELSE "idle"
    /\ UNCHANGED <<registryVars, lockVars, file, starts>>

\* std::fs::write cuts the file to nothing and then writes it; an error is only
\* logged.
PersistBegins ==
    /\ sampler = "persist"
    /\ file' = Torn /\ sampler' = "write"
    /\ UNCHANGED <<registryVars, lockVars, total, n, history, last, floor, starts>>

PersistEnds ==
    /\ sampler = "write"
    /\ file' = history /\ sampler' = "idle"
    /\ UNCHANGED <<registryVars, lockVars, total, n, history, last, floor, starts>>

PersistFails ==
    /\ sampler \in {"persist", "write"} /\ sampler' = "idle"
    /\ UNCHANGED <<registryVars, lockVars, total, n, history, last, floor, file, starts>>
-----------------------------------------------------------------------------
\* Metrics::new takes a history that does not parse for none at all.
Loaded == IF file = Torn THEN <<>> ELSE file

\* The process dies and is started again: the registry starts empty and its
\* totals at zero, the history goes on from the file.
Restart ==
    /\ starts < MaxStarts /\ starts' = starts + 1
    /\ history' = Loaded
    /\ tunnels' = [t \in {} |-> {}] /\ left' = {}
    /\ bytes' = [p \in {} |-> 0] /\ retired' = 0 /\ due' = 0
    /\ holder' = Nobody /\ sum' = 0 /\ unread' = {}
    /\ sampler' = "idle" /\ total' = 0 /\ n' = 0 /\ last' = 0 /\ floor' = 0
    /\ UNCHANGED file

Next ==
    \/ \E t \in Tunnel : \/ RegisterTunnel(t) \/ Unregister(t) \/ Retire(t)
                         \/ \E p \in Proxy : RegisterProxy(t, p)
    \/ \E p \in Proxy : Count(p) \/ Load(p)
    \/ SampleBegins \/ SampleSummed \/ SamplePushed
    \/ PersistBegins \/ PersistEnds \/ PersistFails
    \/ Restart

Spec == Init /\ [][Next]_vars
-----------------------------------------------------------------------------
(* Properties.                                                             *)

\* The variables keep their types, and the history its cap, in memory and on
\* disk.
TypeOK ==
    /\ tunnels \in [DOMAIN tunnels -> SUBSET Proxy] /\ DOMAIN tunnels \subseteq Tunnel
    /\ left \subseteq Tunnel /\ left \cap DOMAIN tunnels = {}
    /\ DOMAIN bytes \subseteq Proxy /\ bytes \in [DOMAIN bytes -> 0..MaxBytes]
    /\ retired \in Nat /\ sum \in Nat /\ total \in Nat
    /\ due \in Nat /\ last \in Nat /\ floor \in Nat
    /\ holder \in Tunnel \cup {"sampler", Nobody} /\ unread \subseteq DOMAIN bytes
    /\ sampler \in {"idle", "sum", "push", "persist", "write"} /\ n \in 0..MaxSamples
    /\ history \in Seq(Nat) /\ file \in Seq(Nat) \cup {Torn} /\ starts \in 1..MaxStarts
    /\ Len(history) <= HistoryCap
    /\ file # Torn => Len(file) <= HistoryCap

\* A sample is worth its name although the counters move while they are loaded
\* and tunnels come and go: it has every byte that was counted, while its tunnel
\* was on the list, before the sampler took the lock, those of tunnels retired
\* since among them, and no byte that was not relayed, nor any twice.  A byte
\* that a connection counts after its tunnel was taken off the list need not be
\* in it: unregister_tunnel may have loaded that counter already, and then the
\* byte is in no total ever after.
SampleInWindow ==
    sampler = "push" => floor <= total /\ total <= Total(DOMAIN bytes)

\* "Bytes from tunnels that have since disconnected, so cumulative totals stay
\* monotonic": within one process no sample is below an earlier one.
SamplesMonotonic == [][n' = n + 1 => last <= last']_vars

\* "Cumulative bytes since the history began" holds up to restarts, each of
\* which starts the totals anew: with whatever a crash left in the file, the
\* samples of the history step back at most once for every restart.
OneStepBackPerRestart ==
    Cardinality({i \in 1 .. Len(history) - 1 : history[i] > history[i + 1]}) < starts
=============================================================================

------------------------------- MODULE Identity -------------------------------
(***************************************************************************)
(* The server's identity on disk and in memory (srp-core/src/identity.rs): *)
(* a TLS certificate with its key and a Noise key pair, each two files     *)
(* that a start either loads or makes.  The server (rs_srpd run) and the   *)
(* client-config tool start in the same way; the tool and the dashboard    *)
(* render client configs that pin the two public halves, which the client  *)
(* loads.  Every file operation is a step, so that a process may die, or a *)
(* write may fail, between any two; making a file empties it first.        *)
(***************************************************************************)
CONSTANTS
    Key,       \* generated keys
    TcpOnly,   \* TRUE if the config may enable the TCP transport alone
    Overlap    \* TRUE if two processes may start at the same time

Process == {"server", "tool"}
Artifact == {"tls", "noise"}

\* What a file holds: nothing at all, no bytes, or its half of a key.
Content == {"absent", "empty"} \cup Key

ASSUME KeyAssumption == "absent" \notin Key /\ "empty" \notin Key
ASSUME SwitchAssumption == TcpOnly \in BOOLEAN /\ Overlap \in BOOLEAN

VARIABLES
    one,      \* the file made first: tls_cert.pem, noise_static_priv.bin
    two,      \* the file made second: tls_key.pem, noise_static_pub.bin
    pc,       \* where each process is
    art,      \* the artifact it is about
    mem,      \* what it has in memory of each artifact's files
    used,     \* history: the keys generated so far
    pinned,   \* the client configs that clients have loaded
    lost      \* history: the artifacts of which the operator has lost a file

disk == <<one, two>>
vars == <<disk, pc, art, mem, used, pinned, lost>>

Nothing == [a \in Artifact |-> [one |-> "absent", two |-> "absent"]]

Init == /\ one = [a \in Artifact |-> "absent"] /\ two = [a \in Artifact |-> "absent"]
        /\ pc = [p \in Process |-> "off"] /\ art = [p \in Process |-> "tls"]
        /\ mem = [p \in Process |-> Nothing]
        /\ used = {} /\ pinned = {} /\ lost = {}
-----------------------------------------------------------------------------
(* load_or_create: the TLS pair, then the Noise pair.                      *)

Starting(p) == pc[p] \notin {"off", "up"}
Goes(p, stage) == pc' = [pc EXCEPT ![p] = stage]
Ends(p) == /\ Goes(p, "off") /\ art' = [art EXCEPT ![p] = "tls"]
           /\ mem' = [mem EXCEPT ![p] = Nothing]

Starts(p) == /\ pc[p] = "off"
             /\ Overlap \/ \A q \in Process : ~Starting(q)
             /\ Goes(p, "check")
             /\ UNCHANGED <<disk, art, mem, used, pinned, lost>>

\* Seeded bug: one file missing of the four and the whole identity is made anew.
ThereTogether(a) == \A b \in Artifact : one[b] # "absent" /\ two[b] # "absent"
There(a) == one[a] # "absent" /\ two[a] # "absent"

\* Both files are there...
FindsPair(p) == /\ pc[p] = "check" /\ There(art[p])
                /\ Goes(p, "read")
                /\ UNCHANGED <<disk, art, mem, used, pinned, lost>>

\* ... or one is missing and a new key is generated for both.
Generates(p) == /\ pc[p] = "check" /\ ~There(art[p])
                /\ \E k \in Key \ used :
                      /\ mem' = [mem EXCEPT ![p][art[p]] = [one |-> k, two |-> k]]
                      /\ used' = used \cup {k}
                /\ Goes(p, "create one")
                /\ UNCHANGED <<disk, art, pinned, lost>>

\* After the TLS pair comes the Noise pair.
NextArtifact(p) == IF art[p] = "tls" THEN Goes(p, "check") /\ art' = [art EXCEPT ![p] = "noise"]
                                     ELSE Goes(p, "loaded") /\ UNCHANGED art

\* What is read is not looked at.
Reads(p) == /\ pc[p] = "read"
            /\ mem' = [mem EXCEPT ![p][art[p]] = [one |-> one[art[p]], two |-> two[art[p]]]]
            /\ NextArtifact(p)
            /\ UNCHANGED <<disk, used, pinned, lost>>

CreatesOne(p) == /\ pc[p] = "create one" /\ Goes(p, "write one")
                 /\ one' = [one EXCEPT ![art[p]] = "empty"]
                 /\ UNCHANGED <<two, art, mem, used, pinned, lost>>

WritesOne(p) == /\ pc[p] = "write one" /\ Goes(p, "create two")
                /\ one' = [one EXCEPT ![art[p]] = mem[p][art[p]].one]
                /\ UNCHANGED <<two, art, mem, used, pinned, lost>>

CreatesTwo(p) == /\ pc[p] = "create two" /\ Goes(p, "write two")
                 /\ two' = [two EXCEPT ![art[p]] = "empty"]
                 /\ UNCHANGED <<one, art, mem, used, pinned, lost>>

\* Seeded bug: the second file is written and the artifact not left.
WritesTwoAgain(p) == /\ pc[p] = "write two" /\ Goes(p, "two written")
                     /\ two' = [two EXCEPT ![art[p]] = mem[p][art[p]].two]
                     /\ UNCHANGED <<one, art, mem, used, pinned, lost>>

WritesTwo(p) == /\ pc[p] = "write two" /\ NextArtifact(p)
                /\ two' = [two EXCEPT ![art[p]] = mem[p][art[p]].two]
                /\ UNCHANGED <<one, mem, used, pinned, lost>>

\* The process dies, or an operation on a file fails and ends the start.
Dies(p) == /\ pc[p] # "off" /\ Ends(p)
           /\ UNCHANGED <<disk, used, pinned, lost>>
-----------------------------------------------------------------------------
(* What becomes of a loaded identity.                                      *)

\* QUIC and WSS take a certificate with the key that belongs to it; with TCP
\* alone nobody looks at either.
TlsUsable(m) == m.tls.one \in Key /\ m.tls.two = m.tls.one

Serves == /\ pc["server"] = "loaded"
          /\ TlsUsable(mem["server"]) \/ TcpOnly
          /\ Goes("server", "up")
          /\ UNCHANGED <<disk, art, mem, used, pinned, lost>>

CannotBind == /\ pc["server"] = "loaded" /\ ~TlsUsable(mem["server"]) /\ Ends("server")
              /\ UNCHANGED <<disk, used, pinned, lost>>

\* A client config pins the Noise public key and the fingerprint of the
\* certificate; without a certificate in the file there is no fingerprint and
\* rendering fails, and the client's `validate` takes no blank key.
Rendered(m) == [noise |-> m.noise.two, tls |-> m.tls.one]
HasCertificate(m) == m.tls.one \in Key
Usable(c) == c.noise \in Key

Provisions(m) == /\ HasCertificate(m) /\ Usable(Rendered(m))
                 /\ pinned' = pinned \cup {Rendered(m)}

\* What a client checks of the server it reaches: the fingerprint of the
\* certificate, and in the handshake that the server has the private key.
TrustsTls(c, m) == m.tls.one = c.tls
TrustsNoise(c, m) == m.noise.one = c.noise

FromTool == /\ pc["tool"] = "loaded" /\ Ends("tool")
            /\ Provisions(mem["tool"])
            /\ UNCHANGED <<disk, used, lost>>

\* The dashboard is spawned before the transports are bound.
FromDashboard == /\ pc["server"] \in {"loaded", "up"} /\ Provisions(mem["server"])
                 /\ UNCHANGED <<disk, pc, art, mem, used, lost>>

\* The operator loses a file while no process starts.
Loses(a) == /\ \A p \in Process : ~Starting(p)
            /\ \/ one[a] # "absent" /\ one' = [one EXCEPT ![a] = "absent"] /\ UNCHANGED two
               \/ two[a] # "absent" /\ two' = [two EXCEPT ![a] = "absent"] /\ UNCHANGED one
            /\ lost' = lost \cup {a}
            /\ UNCHANGED <<pc, art, mem, used, pinned>>

Load(p) == \/ Starts(p) \/ FindsPair(p) \/ Generates(p) \/ Reads(p)
           \/ CreatesOne(p) \/ WritesOne(p) \/ CreatesTwo(p) \/ WritesTwo(p) \/ Dies(p)

Next == \/ \E p \in Process : Load(p)
        \/ Serves \/ CannotBind \/ FromTool \/ FromDashboard
        \/ \E a \in Artifact : Loses(a)

Spec == Init /\ [][Next]_vars
-----------------------------------------------------------------------------
(* Properties.                                                             *)

TypeOK == /\ one \in [Artifact -> Content] /\ two \in [Artifact -> Content]
          /\ pc \in [Process -> {"off", "check", "read", "create one", "write one",
                                 "create two", "write two", "loaded", "up"}]
          /\ art \in [Process -> Artifact] /\ pc["tool"] # "up"
          /\ mem \in [Process -> [Artifact -> [one : Content, two : Content]]]
          /\ used \subseteq Key /\ lost \subseteq Artifact
          /\ pinned \subseteq [noise : Key, tls : Key]

\* "The fingerprints a client pins stay stable across restarts": whatever
\* starts died or failed at whichever file, every client that could load its
\* config finds the server it pinned, unless that artifact lost a file; losing
\* a file of the one does not rotate the other.
PinnedIsServed ==
    pc["server"] = "up" =>
        \A c \in pinned : /\ "noise" \notin lost => TrustsNoise(c, mem["server"])
                          /\ "tls" \notin lost => TrustsTls(c, mem["server"])

\* A pair written to the end is written again only after one of its files was
\* lost; and unless one was, no pair holds the halves of two keys, whatever starts
\* died in between.  (After a loss it may: a start that makes the pair anew and
\* dies after the first file leaves the second one of the older key, and the next
\* start loads the two.)
Complete(a) == one[a] \in Key /\ two[a] = one[a]
Mixed(a) == one[a] \in Key /\ two[a] \in Key /\ two[a] # one[a]
Unmixed == \A a \in Artifact : Mixed(a) => a \in lost
LeftAlone == \A a \in Artifact : Complete(a) => /\ one'[a] \in {one[a], "absent"}
                                                /\ two'[a] \in {two[a], "absent"}
PairStays == []Unmixed /\ [][LeftAlone]_vars
=============================================================================

------------------------------- MODULE UdpPaths -------------------------------
(***************************************************************************)
(* What the relay promises the peers of a public UDP port.  A peer has one *)
(* path at a time.  A path takes datagrams until it is given up, for good, *)
(* and hands them to the local service in the order it took them; none is  *)
(* handed over twice.  Datagrams may be lost, the latest first.            *)
(***************************************************************************)
EXTENDS Naturals, Sequences

CONSTANTS Peer, Path, Datagram, NoPath

VARIABLES
    path,     \* the path each peer's datagrams take, or NoPath
    owed,     \* what each path has taken and not handed over
    used,     \* the paths opened so far
    served    \* the datagrams handed to the local service

vars == <<path, owed, used, served>>

Init == /\ path = [p \in Peer |-> NoPath] /\ owed = [a \in Path |-> <<>>]
        /\ used = {} /\ served = {}

Open(p, a, d) == /\ path[p] = NoPath /\ a \notin used
                 /\ path' = [path EXCEPT ![p] = a] /\ used' = used \cup {a}
                 /\ owed' = [owed EXCEPT ![a] = <<d>>]
                 /\ UNCHANGED served

Take(p, d) == /\ path[p] # NoPath
              /\ owed' = [owed EXCEPT ![path[p]] = Append(@, d)]
              /\ UNCHANGED <<path, used, served>>

Serve(a) == /\ owed[a] # <<>> /\ Head(owed[a]) \notin served
            /\ served' = served \cup {Head(owed[a])}
            /\ owed' = [owed EXCEPT ![a] = Tail(@)]
            /\ UNCHANGED <<path, used>>

\* Some peers lose their paths; any path may lose the last of what it owes.
GiveUp(P) == /\ path' = [p \in Peer |-> IF p \in P THEN NoPath ELSE path[p]]
             /\ DOMAIN owed' = Path
             /\ \A a \in Path : \E k \in 0 .. Len(owed[a]) : owed'[a] = SubSeq(owed[a], 1, k)
             /\ UNCHANGED <<used, served>>

Next == \/ \E p \in Peer, d \in Datagram : Take(p, d) \/ \E a \in Path : Open(p, a, d)
        \/ \E a \in Path : Serve(a)
        \/ \E P \in SUBSET Peer : GiveUp(P)

Spec == Init /\ [][Next]_vars
=============================================================================

------------------------------ MODULE PortLease ------------------------------
(***************************************************************************)
(* What the relay server promises about its public ports, whatever the     *)
(* clients, the network and the operating system do: a public port is      *)
(* leased to at most one tunnel at a time, only to a tunnel the server has *)
(* logged in, only where that tunnel's user may have it, and a lease stays  *)
(* with its tunnel until that tunnel is over.  A port never passes from one *)
(* tunnel to another in one step: it is given back first.                   *)
(***************************************************************************)
CONSTANTS
    Tunnel,       \* client tunnels, each serving at most once
    Endpoint,     \* public endpoints: a transport kind and a port
    NoTunnel,     \* the owner of a free endpoint
    SocketsFail   \* TRUE if the operating system may fail a bound socket

VARIABLES
    lease,        \* the tunnel holding each endpoint, or NoTunnel
    may,          \* the endpoints each tunnel may take once logged in
    open          \* the tunnels being served

vars == <<lease, may, open>>

Init == /\ lease = [e \in Endpoint |-> NoTunnel]
        /\ may = [t \in Tunnel |-> {}]
        /\ open = {}

\* A tunnel is logged in; the login settles for good what it may lease.
Admit(t) == /\ t \notin open
            /\ \A e \in Endpoint : lease[e] # t
            /\ open' = open \cup {t}
            /\ \E S \in SUBSET Endpoint : may' = [may EXCEPT ![t] = S]
            /\ UNCHANGED lease

Grant(t, e) == /\ t \in open /\ e \in may[t] /\ lease[e] = NoTunnel
               /\ lease' = [lease EXCEPT ![e] = t]
               /\ UNCHANGED <<may, open>>

Close(t) == /\ t \in open
            /\ open' = open \ {t}
            /\ UNCHANGED <<lease, may>>

\* Only a lease whose tunnel is over comes back, unless its socket failed.
GiveBack(e) == /\ lease[e] # NoTunnel
               /\ lease[e] \notin open \/ SocketsFail
               /\ lease' = [lease EXCEPT ![e] = NoTunnel]
               /\ UNCHANGED <<may, open>>

Next == \/ \E t \in Tunnel : Admit(t) \/ Close(t) \/ \E e \in Endpoint : Grant(t, e)
        \/ \E e \in Endpoint : GiveBack(e)

Spec == Init /\ [][Next]_vars
=============================================================================

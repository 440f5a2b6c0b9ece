--------------------------- MODULE MCTunnelServer ---------------------------
(***************************************************************************)
(* Small instances of TunnelServer.  The dashboard switches between two    *)
(* tables of users: in one alice may have port 80, in the other she has    *)
(* another token and may have none.                                        *)
(***************************************************************************)
EXTENDS TunnelServer, TLC

CONSTANTS alice, k1, k2

MCName == {alice}
MCToken == {k1, k2}
MCPort == {80}

MCConfigs == { {[name |-> alice, token |-> k1, ports |-> {80}]},
               {[name |-> alice, token |-> k2, ports |-> {}]} }

\* No dashboard edit: the table that lets alice in.
MCOneConfig == { {[name |-> alice, token |-> k1, ports |-> {80}]} }

Symmetry == Permutations(Tunnel)
=============================================================================

---------------------------- MODULE MCRelaySystem ----------------------------
(***************************************************************************)
(* One client that asks for TCP port 80, over two transports.              *)
(***************************************************************************)
EXTENDS RelaySystem

CONSTANTS alice, k1, quic, tcp

MCConfigs == { {[name |-> alice, token |-> k1, ports |-> {80}]} }

\* The server may not know alice, or not let her have the port.
MCAnyConfig == MCConfigs \cup { {}, {[name |-> alice, token |-> k1, ports |-> {}]} }
MCPort == {80}
MCTcpOnly == << [kind |-> "tcp", port |-> 80] >>
MCPriority == <<quic, tcp>>

\* A blocked transport answers with an error...
MCRefusing == [{quic, tcp} -> {"open", "refused"}]

\* ... or, in the second family, the client prefers TCP and its path may accept
\* the connection and stay silent.
MCTcpFirst == <<tcp, quic>>
MCSilent == MCRefusing \cup { [k \in {quic, tcp} |-> IF k = tcp THEN "silent" ELSE "open"] }
=============================================================================

---------------------------- MODULE MCServerConn ----------------------------
(* Two connections: at one port or two, from one address or two.  The port *)
(* and the address of the first are fixed, the others being alike.         *)
EXTENDS ServerConn

MCConns == {1, 2}
MCPorts == {9000, 9001}
MCAddresses == {"a", "b"}
MCOrigins == {o \in [MCConns -> [port : MCPorts, peer : MCAddresses]] :
                o[1] = [port |-> 9000, peer |-> "a"]}
=============================================================================

--------------------------- MODULE MCProxyServer ---------------------------
(***************************************************************************)
(* A process started up to three times, on one of two ports each time,     *)
(* with up to three clients and descriptors for three sockets.             *)
(***************************************************************************)
EXTENDS ProxyServer

MCPorts == {3000, 3001}

=============================================================================

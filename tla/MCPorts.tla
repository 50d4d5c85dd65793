------------------------------ MODULE MCPorts -------------------------------
(* The life of one port with few faults and relinks.                       *)
EXTENDS Ports
=============================================================================

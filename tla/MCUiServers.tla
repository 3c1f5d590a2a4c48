----------------------------- MODULE MCUiServers -----------------------------
(***************************************************************************)
(* TLC instance of UiServers: one port more than there are threads.        *)
(***************************************************************************)
EXTENDS UiServers

MCPorts == 1..4
MCDefaultPort == [t \in Threads |-> CASE t = "verte" -> 1 [] t = "bleue" -> 2 [] t = "bouton" -> 3]
=============================================================================

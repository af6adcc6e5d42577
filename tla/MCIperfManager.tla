-------------------------- MODULE MCIperfManager --------------------------
(***************************************************************************)
(* Two ports, so that a loop can break off between them, and three         *)
(* managers, which may all run at a time.                                  *)
(***************************************************************************)
EXTENDS IperfManager

MCPorts == <<5000, 5020>>
=============================================================================

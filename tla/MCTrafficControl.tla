------------------------- MODULE MCTrafficControl -------------------------
(***************************************************************************)
(* Small configurations of TrafficControl: three port groups, one of them  *)
(* without a default port and one whose default port is itself emulated    *)
(* (as 6000 is in server.json), and three rules of different delay, with   *)
(* one, two and one ports.                                                 *)
(***************************************************************************)
EXTENDS TrafficControl

MCGroups == << [proto |-> "tcp", default |-> 80,     ports |-> {2000, 2100}],
               [proto |-> "tcp", default |-> NoPort, ports |-> {5000}],
               [proto |-> "udp", default |-> 6000,   ports |-> {6000, 2100}] >>

MCRules == << [delay |-> 0,   loss |-> 1, ports |-> <<2000>>],
              [delay |-> 100, loss |-> 1, ports |-> <<2100, 5000>>],
              [delay |-> 100, loss |-> 5, ports |-> <<6000>>] >>
=============================================================================

--------------------------- MODULE MCEchoServer ---------------------------
(***************************************************************************)
(* EchoServer with one TCP client and one or two clients of the kill port. *)
(* Two are what it takes for a child to be forked while both kinds of      *)
(* connections are open; two chunks on a killable connection are what it   *)
(* takes for data_str to be stale.                                         *)
(***************************************************************************)
EXTENDS EchoServer, TLC

KillSymmetry == Permutations(KillClients)
OneChunk == [c \in Conns |-> 1]
TwoToKill == [c \in Conns |-> IF c \in KillClients THEN 2 ELSE 1]
=============================================================================

---------------------------- MODULE Emulation ----------------------------
(***************************************************************************)
(* What traffic_manager.py promises to a device under test: every emulated *)
(* port has a condition of its own (README.md, "Each service is exposed    *)
(* over multiple ports, with each port emulating a different condition"),  *)
(* a port is never given the condition of another one, and the server only *)
(* announces that the rules are configured once every port has its own.    *)
(*                                                                         *)
(* A "lane" is one port seen in one direction, the unit tc filters match.  *)
(***************************************************************************)
EXTENDS Naturals

CONSTANTS Lanes,       \* the (port, direction) pairs to be shaped
          Wanted       \* Wanted[l]: the condition configured for lane l

VARIABLES shaped,      \* shaped[l]: the conditions packets of lane l undergo
          announced    \* the configuration was reported as successful

vars == <<shaped, announced>>

Fully == [l \in Lanes |-> {Wanted[l]}]
Bare  == [l \in Lanes |-> {}]

Init == shaped = Bare /\ announced = FALSE

(* Some lanes that had no condition get their own. *)
Shape == /\ ~announced
         /\ \E S \in SUBSET Lanes :
               shaped' = [l \in Lanes |-> IF l \in S THEN {Wanted[l]} ELSE shaped[l]]
         /\ UNCHANGED announced

(* The network namespace or the queueing tree is gone: all lanes at once.  *)
Wipe == /\ shaped' = Bare
        /\ announced' = FALSE

(* A new configuration run begins on top of the old one. *)
Reopen == announced' = FALSE /\ UNCHANGED shaped

Announce == /\ shaped = Fully
            /\ announced' = TRUE
            /\ UNCHANGED shaped

Next == Shape \/ Wipe \/ Reopen \/ Announce

Spec == Init /\ [][Next]_vars
=============================================================================

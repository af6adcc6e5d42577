--------------------------- MODULE MCDynamicHttp ---------------------------
(***************************************************************************)
(* A client with TCP and echo, one with UDP and echo, and one with UDP that*)
(* repeats its message.                                                    *)
(***************************************************************************)
EXTENDS DynamicHttp, TLC

CONSTANTS t, u, v

MCMaxParts == [c \in Clients |-> IF c = t THEN 3 ELSE 1]
=============================================================================

--------------------------- MODULE MCTlsServer ----------------------------
(***************************************************************************)
(* A listener with and one without client certificates, and three clients, *)
(* two of them of the same listener; two descriptors.                      *)
(***************************************************************************)
EXTENDS TlsServer, TLC

CONSTANTS c1, c2, c3, tls, mutual

MCListenerOf == (c1 :> tls) @@ (c2 :> mutual) @@ (c3 :> mutual)
=============================================================================

--------------------------- MODULE MCDataService --------------------------
(***************************************************************************)
(* One data file, and two servers in the background: one with a thread for *)
(* files and one for DTLS echo, one with udp_handle.                       *)
(***************************************************************************)
EXTENDS DataService, TLC

MCFiles    == <<"text">>
MCServices == <<"udp", "echo">>
MCProcess  == ("files" :> "udp") @@ ("dtls_echo" :> "udp") @@ ("udp_handle" :> "echo")
=============================================================================

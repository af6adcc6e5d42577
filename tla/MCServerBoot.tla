--------------------------- MODULE MCServerBoot ---------------------------
(***************************************************************************)
(* Three data files in two folders, and two servers in the background.     *)
(***************************************************************************)
EXTENDS ServerBoot

MCFiles    == <<"text", "text", "video">>
MCServices == <<"udp", "echo">>
=============================================================================

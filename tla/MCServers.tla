------------------------------- MODULE MCServers -------------------------------
(* An instance of Servers for TLC.                                         *)
EXTENDS Servers

OneStream == <<"tcp">>
=============================================================================

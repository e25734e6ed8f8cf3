---------------------------- MODULE MCServerRace ----------------------------
(***************************************************************************)
(* ServerRace with the requests of MCServer.                               *)
(***************************************************************************)
EXTENDS ServerRace, MCServer
=============================================================================

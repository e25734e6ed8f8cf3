--------------------------- MODULE MCNetworkClient ---------------------------
(***************************************************************************)
(* One chat to subscribe to, as often as one likes.                        *)
(***************************************************************************)
EXTENDS NetworkClient

CONSTANT c1
=============================================================================

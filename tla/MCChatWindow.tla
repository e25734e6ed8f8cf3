---------------------------- MODULE MCChatWindow ----------------------------
(***************************************************************************)
(* Network clients for the window, interchangeable, and what they signal:  *)
(* a message of the peer, and one of the user, as another device or an     *)
(* echo of the server would have it.                                       *)
(***************************************************************************)
EXTENDS ChatWindow, TLC

CONSTANTS k1, k2

Clients == Permutations(Client)

LocalIds == {"", "1"}

Messages == {[localId |-> "", outgoing |-> FALSE, status |-> Pending],
             [localId |-> "1", outgoing |-> TRUE, status |-> Sent]}
=============================================================================

------------------------------ MODULE MCDelivery ------------------------------
(***************************************************************************)
(* The requests of MCServer with nobody listening, and one chat whose      *)
(* messages clients listen to.                                             *)
(***************************************************************************)
EXTENDS Delivery, MCServer

CONSTANT s1

Users == {"u", "v"}

SendAs(u) == [Send EXCEPT !.sender = u, !.ciphertext = <<"ct", u>>]

Newest == {History(1, 0), History(2, 0)}

DeliveryRequests == Requests \cup {SendAs("v")} \cup Newest

Quiet == \A s \in Stream : thread[s] = "none"

\* The chat is there; two messages, and the newest ones of the chat.
Listening == /\ \A id \in Id : CASE id = 1 -> asked[id] = Create
                                 [] id = 2 -> asked[id] = SendAs("u")
                                 [] id = 3 -> asked[id] \in {SendAs("u"), SendAs("v")}
                                 [] id = 4 -> asked[id] \in Newest
                                 [] OTHER -> FALSE
             /\ Len(replies) > 0 /\ replies[1].id = 1 /\ replies[1].status = "OK"

BoundedDelivery == \/ Quiet /\ (\A id \in Id : asked[id] \in Requests) /\ Bounded
                   \/ Listening

\* As a guard, the bound keeps TLC from looking at the states behind it.
BoundedSpec == DeliveryInit /\ [][DeliveryNext /\ BoundedDelivery']_deliveryVars
=============================================================================

--------------------------- MODULE OrderedChannel ---------------------------
(***************************************************************************)
(* What a pair of sessions promises its two users.  Messages addressed to  *)
(* a peer are numbered in the order they are sent.  A call that takes a    *)
(* message returns one of them or none; the reliable channel returns the   *)
(* next one on every call, the lossy one is free to return nothing, but    *)
(* what it returns is in order and not repeated.                           *)
(***************************************************************************)
EXTENDS Integers, Sequences

CONSTANT Peer

VARIABLES sent,       \* sent[p]: how many messages were addressed to p
          taken,      \* taken[p]: calls p made to take a message
          delivered   \* delivered[p]: the numbers handed to p, oldest first

vars == <<sent, taken, delivered>>

LastDelivered(p) ==
    IF delivered[p] = <<>> THEN 0 ELSE delivered[p][Len(delivered[p])]

Init == /\ sent = [p \in Peer |-> 0]
        /\ taken = [p \in Peer |-> 0]
        /\ delivered = [p \in Peer |-> <<>>]

Send(p) == /\ sent' = [sent EXCEPT ![p] = @ + 1]
           /\ UNCHANGED <<taken, delivered>>

Return(p, i) == /\ taken' = [taken EXCEPT ![p] = @ + 1]
                /\ delivered' = [delivered EXCEPT ![p] = Append(@, i)]
                /\ UNCHANGED sent

ReturnNothing(p) == /\ taken' = [taken EXCEPT ![p] = @ + 1]
                    /\ UNCHANGED <<sent, delivered>>

ReliableNext ==
    \E p \in Peer : \/ Send(p)
                    \/ taken[p] < sent[p] /\ Return(p, taken[p] + 1)

LossyNext ==
    \E p \in Peer : \/ Send(p)
                    \/ ReturnNothing(p)
                    \/ \E i \in LastDelivered(p) + 1 .. sent[p] : Return(p, i)

ReliableSpec == Init /\ [][ReliableNext]_vars

LossySpec == Init /\ [][LossyNext]_vars
=============================================================================

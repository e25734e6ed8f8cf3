------------------------------ MODULE MCEvents ------------------------------
(***************************************************************************)
(* Two calls of SubscribeEvents, two users.                                *)
(***************************************************************************)
EXTENDS Events, TLC

CONSTANTS s1, s2, u1, u2

Calls == Permutations(Call)
=============================================================================

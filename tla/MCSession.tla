------------------------------ MODULE MCSession ------------------------------
(***************************************************************************)
(* Values for the constants of Session.                                    *)
(***************************************************************************)
EXTENDS Session

NoOneTimeKey == <<>>

BobsOneTimeKey == <<OneTimeKey(Bob)>>
=============================================================================

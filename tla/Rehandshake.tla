----------------------------- MODULE Rehandshake -----------------------------
(***************************************************************************)
(* Session without its discipline about who starts.  CryptoEngine's        *)
(* InitOutbound and InitInbound are static functions that any caller may   *)
(* call at any time: both users can start a session at once, one can start *)
(* over while messages of the old session are in flight, and either end    *)
(* can keep decrypting with a session its peer has replaced.  These are    *)
(* the situations in which Decrypt meets an unknown key in a header and    *)
(* takes a RatchetStep.                                                    *)
(***************************************************************************)
EXTENDS Session

CONSTANTS MaxKeys,       \* bound: key pairs a peer has generated when it starts over
          OneTimeUse     \* whether callers pass a one-time pre-key, or may do either

ASSUME RestartAssumption == MaxKeys \in Nat /\ OneTimeUse \subseteq BOOLEAN

OneTimeChoices(p) == {IF use THEN <<OneTimeKey(p)>> ELSE <<>> : use \in OneTimeUse}

\* p starts a session from its peer's bundle, dropping the one it holds.
RestartOutbound(p, oneTime) ==
    /\ generated[p] < MaxKeys
    /\ sess' = [sess EXCEPT ![p] =
                  InitOutbound(IdentityKey(p), IdentityKey(Other(p)), SignedPreKey(Other(p)),
                               oneTime, X25519Generate(p, generated[p]))]
    /\ generated' = [generated EXCEPT ![p] = @ + 1]
    /\ UNCHANGED <<wire, read, delivered, failed>>

\* p answers the key in the header of message i, dropping the one it holds.
RestartInbound(p, i, oneTime) ==
    /\ sess' = [sess EXCEPT ![p] =
                  InitInbound(IdentityKey(p), SignedPreKey(p), oneTime,
                              IdentityKey(Other(p)), wire[p][i].header.dh_pub)]
    /\ UNCHANGED <<generated, wire, read, delivered, failed>>

RestartNext ==
    \E p \in Peer :
        \/ \E oneTime \in OneTimeChoices(Other(p)) : RestartOutbound(p, oneTime)
        \/ /\ NextUnread(p) <= Len(wire[p])
           /\ \E oneTime \in OneTimeChoices(p) : RestartInbound(p, NextUnread(p), oneTime)
        \/ Send(p)
        \/ FifoReceive(p)

-----------------------------------------------------------------------------
(***************************************************************************)
(* Properties.                                                             *)
(***************************************************************************)

\* The computation a key was derived by last: a handshake or a ratchet step.
DerivedBy(secret) == secret[Len(secret)].info

Ratcheted(s) == DerivedBy(s.root_key) # "X3DH"

\* RatchetStep labels the receiving chain "DR" and the sending chain "DR2"
\* (CryptoEngine.cpp:176 and :182), so what is sent after one ratchet step can
\* be opened by no peer, whatever sessions the two ends hold.
RatchetedIsNeverUnderstood ==
    \A p \in Peer : \A k \in 1 .. Len(delivered[p]) :
        DerivedBy(wire[p][delivered[p][k]].ct.key.base) = "X3DH"

\* A Decrypt that takes the ratchet step never returns a plaintext, and neither
\* does a later one in the session it leaves: the step ends the conversation.
RatchetedIsDeaf ==
    [][\A p \in Peer : delivered'[p] # delivered[p] => ~ Ratcheted(sess'[p])]_vars
=============================================================================

------------------------------- MODULE Session -------------------------------
(***************************************************************************)
(* Two users of CryptoEngine exchanging messages over one session each, as *)
(* client/core/README.md and tests/test_cryptoengine.cpp set it up: Alice  *)
(* calls InitOutbound on Bob's bundle, Bob calls InitInbound with the      *)
(* ephemeral key found in the header of a message of hers, and both then   *)
(* call Encrypt and Decrypt as they please.                                *)
(*                                                                         *)
(* wire[p] is every message ever addressed to p.  FifoNext hands them to   *)
(* Decrypt one by one in the order they were sent (one receive stream);    *)
(* FaultyNext hands over any of them at any time, so that messages are     *)
(* lost, reordered and repeated (several streams, or ChatService's         *)
(* GetHistory, which lists the newest message first).                      *)
(***************************************************************************)
EXTENDS CryptoEngine

CONSTANTS NoSession,      \* the caller holds no SessionState yet
          BundleOneTime,  \* Bob's one-time pre-key in the bundle, if any
          MaxSend,        \* bound: messages addressed to one peer
          MaxReceive      \* bound: Decrypt calls of one peer (faulty network)

ASSUME NoSessionAssumption == NoSession \notin SessionState

ASSUME BundleAssumption == BundleOneTime \in {<<>>, <<OneTimeKey(Bob)>>}

ASSUME BoundsAssumption == MaxSend \in Nat /\ MaxReceive \in Nat

VARIABLES sess,       \* sess[p]: the SessionState p holds for the other peer
          generated,  \* generated[p]: key pairs X25519Generate gave to p
          wire,       \* wire[p]: the messages addressed to p, oldest first
          read,       \* read[p]: Decrypt calls p has made
          delivered,  \* delivered[p]: the plaintexts Decrypt returned to p
          failed      \* failed[p]: the Decrypt calls of p that threw

vars == <<sess, generated, wire, read, delivered, failed>>

TypeOK == /\ sess \in [Peer -> SessionState \cup {NoSession}]
          /\ generated \in [Peer -> Nat]
          /\ wire \in [Peer -> Seq(Message)]
          /\ read \in [Peer -> Nat]
          /\ delivered \in [Peer -> Seq(Nat)]
          /\ failed \in [Peer -> Nat]

Init == /\ sess = [p \in Peer |-> NoSession]
        /\ generated = [p \in Peer |-> 0]
        /\ wire = [p \in Peer |-> <<>>]
        /\ read = [p \in Peer |-> 0]
        /\ delivered = [p \in Peer |-> <<>>]
        /\ failed = [p \in Peer |-> 0]

-----------------------------------------------------------------------------
\* Alice starts the session from Bob's pre-key bundle.
StartOutbound ==
    /\ sess[Alice] = NoSession
    /\ sess' = [sess EXCEPT ![Alice] =
                  InitOutbound(IdentityKey(Alice), IdentityKey(Bob), SignedPreKey(Bob),
                               BundleOneTime, X25519Generate(Alice, generated[Alice]))]
    /\ generated' = [generated EXCEPT ![Alice] = @ + 1]
    /\ UNCHANGED <<wire, read, delivered, failed>>

\* Bob answers it with the key in the header of message i of hers.
StartInbound(i) ==
    /\ sess[Bob] = NoSession
    /\ sess' = [sess EXCEPT ![Bob] =
                  InitInbound(IdentityKey(Bob), SignedPreKey(Bob), BundleOneTime,
                              IdentityKey(Alice), wire[Bob][i].header.dh_pub)]
    /\ UNCHANGED <<generated, wire, read, delivered, failed>>

\* p encrypts one more message; its plaintext is its number.
Send(p) ==
    /\ sess[p] # NoSession
    /\ Len(wire[Other(p)]) < MaxSend
    /\ LET number == Len(wire[Other(p)]) + 1
       IN  wire' = [wire EXCEPT ![Other(p)] = Append(@, Encrypted(sess[p], number))]
    /\ sess' = [sess EXCEPT ![p] = AfterEncrypt(@)]
    /\ UNCHANGED <<generated, read, delivered, failed>>

\* p calls Decrypt on message i of its wire.
Receive(p, i) ==
    /\ sess[p] # NoSession
    /\ read' = [read EXCEPT ![p] = @ + 1]
    /\ LET m == wire[p][i]
           newPair == X25519Generate(p, generated[p])
       IN  /\ sess' = [sess EXCEPT ![p] = AfterDecrypt(@, m, newPair)]
           /\ generated' = [generated EXCEPT ![p] =
                              IF Ratchets(sess[p], m) THEN @ + 1 ELSE @]
           /\ IF Opens(sess[p], m, newPair)
              THEN /\ delivered' = [delivered EXCEPT ![p] = Append(@, m.ct.body)]
                   /\ UNCHANGED failed
              ELSE /\ failed' = [failed EXCEPT ![p] = @ + 1]
                   /\ UNCHANGED delivered
    /\ UNCHANGED wire

-----------------------------------------------------------------------------
NextUnread(p) == read[p] + 1

FifoReceive(p) == /\ NextUnread(p) <= Len(wire[p])
                  /\ Receive(p, NextUnread(p))

FifoStartInbound == NextUnread(Bob) <= Len(wire[Bob]) /\ StartInbound(NextUnread(Bob))

FifoNext == \/ StartOutbound
            \/ FifoStartInbound
            \/ \E p \in Peer : Send(p) \/ FifoReceive(p)

FifoSpec == Init /\ [][FifoNext]_vars

\* The application answers a first message, and keeps reading its stream.
FifoFairness == /\ WF_vars(FifoStartInbound)
                /\ \A p \in Peer : WF_vars(FifoReceive(p))

FairFifoSpec == FifoSpec /\ FifoFairness

FaultyNext ==
    \/ StartOutbound
    \/ \E i \in 1 .. Len(wire[Bob]) : StartInbound(i)
    \/ \E p \in Peer : \/ Send(p)
                       \/ /\ read[p] < MaxReceive
                          /\ \E i \in 1 .. Len(wire[p]) : Receive(p, i)

FaultySpec == Init /\ [][FaultyNext]_vars

-----------------------------------------------------------------------------
(***************************************************************************)
(* Properties.                                                             *)
(***************************************************************************)

Established == \A p \in Peer : sess[p] # NoSession

\* InitInbound mirrors InitOutbound: once both ends hold a session they have
\* derived the same root key, each sends on the chain the other receives on,
\* and each addresses the other's current key.
HandshakeAgrees ==
    Established => \A p \in Peer :
        LET s == sess[p]
            t == sess[Other(p)]
        IN  /\ s.root_key = t.root_key
            /\ s.chain_key_send.base = t.chain_key_recv.base
            /\ s.our_dh = t.their_dh_pub

\* CryptoEngine never takes a RatchetStep between two peers that share one
\* handshake: the key each end advertises is the one it was set up with.
NeverRatchets ==
    \A p \in Peer : sess[p] # NoSession =>
        /\ Len(sess[p].root_key) = 1
        /\ \A i \in 1 .. Len(wire[p]) : ~ Ratchets(sess[p], wire[p][i])

\* Encrypt seals no two messages of one sender under the same message key.
MessageKeysUsedOnce ==
    \A p \in Peer : \A i, j \in 1 .. Len(wire[p]) :
        wire[p][i].ct.key = wire[p][j].ct.key => i = j

\* The sessions, seen by their users, are an ordered channel.
Channel == INSTANCE OrderedChannel
             WITH sent <- [p \in Peer |-> Len(wire[p])], taken <- read

\* On an ordered stream no Decrypt throws: the n-th call returns the n-th plaintext.
ImplementsReliableChannel == Channel!ReliableSpec

\* Whatever the network loses, repeats or reorders, the plaintexts Decrypt
\* returns are plaintexts that were encrypted, in that order and none twice.
ImplementsLossyChannel == Channel!LossySpec

\* A Decrypt that throws has used up a chain key but not a counter value, so
\* from then on the session opens nothing (until the failures are a multiple
\* of 2^32): one lost, early or repeated message ends the conversation.
FailureIsFinal ==
    [][\A p \in Peer : failed[p] % CounterModulus # 0 => delivered'[p] = delivered[p]]_vars

\* On an ordered stream, with both ends reading, a peer that is sent no more
\* messages has at last been given them all.
EventualDelivery ==
    \A p \in Peer :
        <>[][wire'[p] = wire[p]]_vars => []<>(Len(delivered[p]) = Len(wire[p]))

\* tests/test_cryptoengine.cpp:26, of the first reply: "new ratchet header
\* triggers on Alice side".  A ratchet step mixes more into her root key than
\* the handshake did.
ReplyTriggersRatchet == delivered[Alice] # <<>> => Len(sess[Alice].root_key) > 1
=============================================================================

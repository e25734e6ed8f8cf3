---------------------------- MODULE CryptoEngine ----------------------------
(***************************************************************************)
(* The session algebra of client/core/src/CryptoEngine.cpp, as operators   *)
(* on values.  Byte strings are abstracted to the terms they are computed  *)
(* from: a key pair is its public key, a Diffie-Hellman result the set of  *)
(* the two keys that produce it, and an HKDF output the sequence of inputs *)
(* that were mixed into it.  Two byte strings are equal in the model       *)
(* exactly when the same computation produced them.                        *)
(***************************************************************************)
EXTENDS Integers, Sequences

CONSTANTS Alice,      \* the peer that builds its session from a bundle first
          Bob,        \* the peer that answers
          ByteBase    \* values of one nonce byte (256 in the code)

ASSUME PeersAssumption == Alice # Bob

ASSUME ByteAssumption == ByteBase \in Nat /\ ByteBase >= 2

Peer == {Alice, Bob}

Other(p) == IF p = Alice THEN Bob ELSE Alice

-----------------------------------------------------------------------------
(***************************************************************************)
(* Key pairs and the primitives.                                           *)
(***************************************************************************)

Key == [kind : {"identity", "signed", "oneTime", "ephemeral"},
        owner : Peer, n : Nat]

IdentityKey(p)  == [kind |-> "identity",  owner |-> p, n |-> 0]
SignedPreKey(p) == [kind |-> "signed",    owner |-> p, n |-> 0]
OneTimeKey(p)   == [kind |-> "oneTime",   owner |-> p, n |-> 0]

\* Mutated: the generator returns one and the same pair.
X25519GenerateStale(p, n) == [kind |-> "ephemeral", owner |-> p, n |-> 0]

\* The n-th key pair X25519Generate returns to peer p.
X25519Generate(p, n) == [kind |-> "ephemeral", owner |-> p, n |-> n]

\* The private half of one key with the public half of the other: commutative.
X25519(a, b) == {a, b}

KdfInput == [info : {"X3DH", "DR", "DR2"}, ikm : Seq(SUBSET Key)]

\* Key material: everything that was mixed in, in order (the salt first).
Secret == Seq(KdfInput)

HKDF(ikm, salt, info) == Append(salt, [info |-> info, ikm |-> ikm])

\* KDF_CK applied n times ("CK") to the second half of an HKDF output.  The
\* message key ("MK") of a chain key is identified with that chain key.
ChainKey == [base : Secret, n : Nat]

FirstChainKey(secret) == [base |-> secret, n |-> 0]

KDF_CK(ck) == [ck EXCEPT !.n = @ + 1]

\* uint32_t: a counter is what the four big-endian nonce bytes can hold.
CounterModulus == ByteBase * (ByteBase * (ByteBase * ByteBase))

Counter == 0 .. CounterModulus - 1

\* Mutated: a counter that does not wrap.
IncrementUnbounded(c) == c + 1

Increment(c) == (c + 1) % CounterModulus

DeriveNonce(n) ==
    LET n1 == n \div ByteBase
        n2 == n1 \div ByteBase
        n3 == n2 \div ByteBase
    IN  <<n3 % ByteBase, n2 % ByteBase, n1 % ByteBase, n % ByteBase>>

Nonce == Seq(0 .. ByteBase - 1)

Ciphertext == [key : ChainKey, nonce : Nonce, aad : Key, body : Nat]

AEAD_Encrypt(key, nonce, aad, plaintext) ==
    [key |-> key, nonce |-> nonce, aad |-> aad, body |-> plaintext]

\* GCM authentication accepts exactly the key, nonce and aad of the sealing.
AEAD_Opens(key, nonce, aad, ct) ==
    ct.key = key /\ ct.nonce = nonce /\ ct.aad = aad

-----------------------------------------------------------------------------
(***************************************************************************)
(* SessionState and the four operations on it.                             *)
(***************************************************************************)

SessionState == [root_key : Secret, chain_key_send : ChainKey,
                 chain_key_recv : ChainKey, our_dh : Key, their_dh_pub : Key,
                 pn : Counter, n_send : Counter, n_recv : Counter]

Header == [dh_pub : Key, pn : Counter, n : Counter]

Message == [header : Header, ct : Ciphertext]

\* std::optional<one-time pre-key>: the empty sequence or a single key.
OptionalDH(eph, opk) == [i \in 1 .. Len(opk) |-> X25519(eph, opk[i])]

\* Both directions start on the same chain key, with all counters at zero.
NewSession(secret, ours, theirs) ==
    [root_key |-> secret,
     chain_key_send |-> FirstChainKey(secret),
     chain_key_recv |-> FirstChainKey(secret),
     our_dh |-> ours, their_dh_pub |-> theirs,
     pn |-> 0, n_send |-> 0, n_recv |-> 0]

InitOutbound(ourIdentity, theirIdentity, theirSigned, theirOneTime, eph) ==
    LET dhk == <<X25519(ourIdentity, theirSigned),
                 X25519(eph, theirIdentity),
                 X25519(eph, theirSigned)>> \o OptionalDH(eph, theirOneTime)
    IN  NewSession(HKDF(dhk, <<>>, "X3DH"), eph, theirSigned)

\* Mutated: DH1 and DH2 are concatenated in the responder's own order.
InitInboundSwapped(ourIdentity, ourSigned, ourOneTime, theirIdentity, theirEph) ==
    LET dhk == <<X25519(ourIdentity, theirEph),
                 X25519(ourSigned, theirIdentity),
                 X25519(ourSigned, theirEph)>> \o OptionalDH(theirEph, ourOneTime)
    IN  NewSession(HKDF(dhk, <<>>, "X3DH"), ourSigned, theirEph)

\* Mutated: the optional DH4 is forgotten on the inbound side.
InitInboundThreeDH(ourIdentity, ourSigned, ourOneTime, theirIdentity, theirEph) ==
    LET dhk == <<X25519(ourSigned, theirIdentity),
                 X25519(ourIdentity, theirEph),
                 X25519(ourSigned, theirEph)>>
    IN  NewSession(HKDF(dhk, <<>>, "X3DH"), ourSigned, theirEph)

\* Mutated: the peer's identity key is recorded as its current ratchet key.
InitInboundIdentity(ourIdentity, ourSigned, ourOneTime, theirIdentity, theirEph) ==
    LET dhk == <<X25519(ourSigned, theirIdentity),
                 X25519(ourIdentity, theirEph),
                 X25519(ourSigned, theirEph)>> \o OptionalDH(theirEph, ourOneTime)
    IN  NewSession(HKDF(dhk, <<>>, "X3DH"), ourSigned, theirIdentity)

InitInbound(ourIdentity, ourSigned, ourOneTime, theirIdentity, theirEph) ==
    LET dhk == <<X25519(ourSigned, theirIdentity),
                 X25519(ourIdentity, theirEph),
                 X25519(ourSigned, theirEph)>> \o OptionalDH(theirEph, ourOneTime)
    IN  NewSession(HKDF(dhk, <<>>, "X3DH"), ourSigned, theirEph)

\* Mutated: the old root key is not mixed in, and both steps share one label.
RatchetStepUnsalted(s, newTheirDh, newPair) ==
    LET rk  == HKDF(<<X25519(s.our_dh, newTheirDh)>>, <<>>, "DR")
        rk2 == HKDF(<<X25519(newPair, newTheirDh)>>, <<>>, "DR")
    IN  [root_key |-> rk2,
         chain_key_send |-> FirstChainKey(rk2),
         chain_key_recv |-> FirstChainKey(rk),
         our_dh |-> newPair, their_dh_pub |-> newTheirDh,
         pn |-> s.n_recv, n_send |-> 0, n_recv |-> 0]

RatchetStep(s, newTheirDh, newPair) ==
    LET rk  == HKDF(<<X25519(s.our_dh, newTheirDh)>>, s.root_key, "DR")
        rk2 == HKDF(<<X25519(newPair, newTheirDh)>>, rk, "DR2")
    IN  [root_key |-> rk2,
         chain_key_send |-> FirstChainKey(rk2),
         chain_key_recv |-> FirstChainKey(rk),
         our_dh |-> newPair, their_dh_pub |-> newTheirDh,
         pn |-> s.n_recv, n_send |-> 0, n_recv |-> 0]

-----------------------------------------------------------------------------
\* The message Encrypt returns in state s, and the state it leaves.
Encrypted(s, plaintext) ==
    [header |-> [dh_pub |-> s.our_dh, pn |-> s.pn, n |-> s.n_send],
     ct |-> AEAD_Encrypt(s.chain_key_send, DeriveNonce(s.n_send), s.our_dh, plaintext)]

\* Mutated: the sending chain is not advanced.
AfterEncryptStuck(s) == [s EXCEPT !.n_send = Increment(@)]

AfterEncrypt(s) ==
    [s EXCEPT !.chain_key_send = KDF_CK(@), !.n_send = Increment(@)]

Ratchets(s, m) == m.header.dh_pub # s.their_dh_pub

\* The state Decrypt reaches before it touches the receiving chain.
Prepared(s, m, newPair) ==
    IF Ratchets(s, m) THEN RatchetStep(s, m.header.dh_pub, newPair) ELSE s

\* Neither header.n nor header.pn is looked at: the receiver's own chain and
\* counter decide which message it can open.
Opens(s, m, newPair) ==
    LET t == Prepared(s, m, newPair)
    IN  AEAD_Opens(t.chain_key_recv, DeriveNonce(t.n_recv), m.header.dh_pub, m.ct)

\* Mutated: the receiving chain is advanced only if the message opens.
AfterDecryptTransactional(s, m, newPair) ==
    LET t == Prepared(s, m, newPair)
    IN  IF Opens(s, m, newPair)
        THEN [t EXCEPT !.chain_key_recv = KDF_CK(@), !.n_recv = Increment(@)]
        ELSE s

\* Mutated: neither the receiving chain nor the counter is advanced.
AfterDecryptStuck(s, m, newPair) == Prepared(s, m, newPair)

\* What Decrypt leaves in the caller's SessionState.  The ratchet step and the
\* advanced chain key stay when AEAD_Decrypt throws; n_recv++ is then skipped.
AfterDecrypt(s, m, newPair) ==
    LET t == Prepared(s, m, newPair)
    IN  [t EXCEPT !.chain_key_recv = KDF_CK(@),
                  !.n_recv = IF Opens(s, m, newPair) THEN Increment(@) ELSE @]
=============================================================================

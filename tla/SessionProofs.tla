---------------------------- MODULE SessionProofs ----------------------------
(***************************************************************************)
(* Proofs about CryptoEngine and Session, for every byte width and bound,  *)
(* and for a bundle with or without a one-time pre-key.                    *)
(*                                                                         *)
(* The argument rests on one closed form: a session that was set up by the *)
(* handshake is determined by three counts, the messages its holder sent,  *)
(* the Decrypt calls it made and the plaintexts it got back (Running), and *)
(* message i addressed to a peer is determined by i (Sealed).              *)
(***************************************************************************)
EXTENDS Session, TLAPS

-----------------------------------------------------------------------------
(***************************************************************************)
(* Facts about the operators of CryptoEngine, for every ByteBase.          *)
(***************************************************************************)

\* A quotient and a remainder are determined by their number.
LEMMA RemainderIsUnique ==
  ASSUME NEW m \in Nat \ {0}, NEW q \in Int, NEW k \in Int,
         NEW r \in 0 .. m - 1, NEW s \in 0 .. m - 1, m * q + r = m * k + s
  PROVE  q = k /\ r = s
<1>1. m * (q - k) = s - r
  OBVIOUS
<1>2. CASE q - k >= 1
  <2>1. m * (q - k) >= m
    BY <1>2
  <2> QED BY <1>1, <2>1
<1>3. CASE q - k <= -1
  <2>1. m * (k - q) >= m
    BY <1>3
  <2>2. m * (k - q) = r - s
    BY <1>1
  <2> QED BY <2>1, <2>2
<1>4. CASE q = k
  BY <1>1, <1>4
<1> QED BY <1>2, <1>3, <1>4

LEMMA DivMod ==
  ASSUME NEW m \in Nat \ {0}, NEW x \in Nat
  PROVE  /\ x = m * (x \div m) + (x % m)
         /\ x % m \in 0 .. m - 1
         /\ x \div m \in Nat
  OBVIOUS

LEMMA QuotientRemainder ==
  ASSUME NEW m \in Nat \ {0}, NEW x \in Nat
  PROVE  \E q \in Int, r \in 0 .. m - 1 : x = m * q + r /\ r = x % m
<1> DEFINE q == x \div m
           r == x % m
<1>1. x = m * q + r /\ r \in 0 .. m - 1 /\ q \in Int
  BY DivMod
<1>2. r = x % m
  OBVIOUS
<1> HIDE DEF q, r
<1> QED BY <1>1, <1>2, Zenon

LEMMA ModOfSum ==
  ASSUME NEW m \in Nat \ {0}, NEW x \in Nat, NEW q \in Int, NEW r \in 0 .. m - 1,
         x = m * q + r
  PROVE  x % m = r
<1>1. PICK k \in Int, s \in 0 .. m - 1 : x = m * k + s /\ s = x % m
  BY QuotientRemainder
<1>2. m * q + r = m * k + s
  BY <1>1
<1>3. r = s
  BY <1>2, RemainderIsUnique
<1> QED BY <1>1, <1>3

\* Incrementing a wrapped counter wraps the incremented count.
LEMMA ModSuccessor ==
  ASSUME NEW m \in Nat \ {0}, NEW x \in Nat
  PROVE  ((x % m) + 1) % m = (x + 1) % m
<1>1. PICK q \in Int, r \in 0 .. m - 1 : x = m * q + r /\ r = x % m
  BY QuotientRemainder
<1>2. CASE r + 1 < m
  <2>1. r + 1 \in 0 .. m - 1 /\ r + 1 \in Nat /\ x + 1 \in Nat
    BY <1>2
  <2>2. x + 1 = m * q + (r + 1) /\ r + 1 = m * 0 + (r + 1)
    BY <1>1
  <2>3. (x + 1) % m = r + 1
    BY <2>1, <2>2, ModOfSum
  <2>4. (r + 1) % m = r + 1
    BY <2>1, <2>2, ModOfSum
  <2> QED BY <1>1, <2>3, <2>4
<1>3. CASE r + 1 = m
  <2>1. x + 1 = m * (q + 1) + 0
    <3>1. m * (q + 1) = m * q + m
      BY <1>3, q \in Int, m \in Int
    <3>2. x = m * q + r
      BY <1>1
    <3> QED BY <1>3, <3>1, <3>2
  <2>2. r + 1 = m * 1 + 0
    BY <1>3
  <2>3. (x + 1) % m = 0
    BY <2>1, ModOfSum, 0 \in 0 .. m - 1, x + 1 \in Nat, q + 1 \in Int
  <2>4. (r + 1) % m = 0
    BY <2>2, ModOfSum, 0 \in 0 .. m - 1, r + 1 \in Nat
  <2> QED BY <1>1, <2>3, <2>4
<1> QED BY <1>1, <1>2, <1>3

\* Equal remainders: the difference is a multiple of the modulus.
LEMMA ModDifference ==
  ASSUME NEW m \in Nat \ {0}, NEW x \in Nat, NEW d \in Nat, x % m = (x + d) % m
  PROVE  d % m = 0
<1>1. PICK q \in Int, r \in 0 .. m - 1 : x = m * q + r /\ r = x % m
  BY QuotientRemainder
<1>2. PICK k \in Int, s \in 0 .. m - 1 : x + d = m * k + s /\ s = (x + d) % m
  BY QuotientRemainder, x + d \in Nat
<1>3. d = m * (k - q) + 0
  <2>1. m * (k - q) = m * k - m * q
    BY k \in Int, q \in Int, m \in Int
  <2>2. x = m * q + r /\ x + d = m * k + r
    BY <1>1, <1>2
  <2> QED BY <2>1, <2>2
<1> QED BY <1>3, ModOfSum, k - q \in Int, 0 \in 0 .. m - 1

-----------------------------------------------------------------------------
LEMMA ModulusType == CounterModulus \in Nat \ {0}
<1>1. ByteBase * ByteBase \in Nat \ {0}
  BY ByteAssumption
<1>2. ByteBase * (ByteBase * ByteBase) \in Nat \ {0}
  BY <1>1, ByteAssumption
<1>3. ByteBase * (ByteBase * (ByteBase * ByteBase)) \in Nat \ {0}
  BY <1>2, ByteAssumption
<1> QED BY <1>3 DEF CounterModulus

LEMMA CounterType == \A n \in Nat : n % CounterModulus \in Counter
BY ModulusType, DivMod DEF Counter

\* A counter is its low byte and the three bytes above it.
LEMMA BytesDetermine ==
  ASSUME NEW m \in Nat \ {0}, NEW x \in Nat, NEW y \in Nat,
         x % m = y % m, x \div m = y \div m
  PROVE  x = y
<1>1. x = m * (x \div m) + (x % m)
  BY DivMod
<1>2. y = m * (y \div m) + (y % m)
  BY DivMod
<1> QED BY <1>1, <1>2, Zenon

LEMMA ShiftBound ==
  ASSUME NEW m \in Nat \ {0}, NEW k \in Nat, NEW x \in Nat, x < m * k
  PROVE  x \div m \in Nat /\ x \div m < k
<1>1. PICK q \in Nat, r \in 0 .. m - 1 : x = m * q + r /\ q = x \div m
  <2> DEFINE q == x \div m
             r == x % m
  <2>1. x = m * q + r /\ r \in 0 .. m - 1 /\ q \in Nat
    BY DivMod
  <2>2. q = x \div m
    OBVIOUS
  <2> HIDE DEF q, r
  <2> QED BY <2>1, <2>2, Zenon
<1>2. ASSUME q >= k PROVE FALSE
  <2>1. x = m * q + r
    BY <1>1
  <2>2. m * q >= m * k
    BY <1>2
  <2> QED BY <2>1, <2>2
<1> QED BY <1>1, <1>2

LEMMA SmallMod ==
  ASSUME NEW m \in Nat \ {0}, NEW x \in Nat, x < m
  PROVE  x % m = x
<1>1. x = m * 0 + x /\ x \in 0 .. m - 1
  OBVIOUS
<1> QED BY <1>1, ModOfSum

\* DeriveNonce gives two different counter values two different nonces: the
\* four bytes it writes hold the whole uint32_t.
THEOREM NonceInjective ==
  ASSUME NEW c \in Counter, NEW d \in Counter, DeriveNonce(c) = DeriveNonce(d)
  PROVE  c = d
<1> DEFINE B  == ByteBase
           c1 == c \div B
           c2 == c1 \div B
           c3 == c2 \div B
           d1 == d \div B
           d2 == d1 \div B
           d3 == d2 \div B
<1>1. B \in Nat \ {0} /\ B * B \in Nat /\ B * (B * B) \in Nat
  BY ByteAssumption
<1>2. c \in Nat /\ c < B * (B * (B * B)) /\ d \in Nat /\ d < B * (B * (B * B))
  BY ModulusType DEF Counter, CounterModulus
<1>3. c3 % B = d3 % B /\ c2 % B = d2 % B /\ c1 % B = d1 % B /\ c % B = d % B
  BY DEF DeriveNonce
<1>4. c1 \in Nat /\ c1 < B * (B * B) /\ d1 \in Nat /\ d1 < B * (B * B)
  BY <1>1, <1>2, ShiftBound
<1>5. c2 \in Nat /\ c2 < B * B /\ d2 \in Nat /\ d2 < B * B
  BY <1>1, <1>4, ShiftBound
<1>6. c3 \in Nat /\ c3 < B /\ d3 \in Nat /\ d3 < B
  BY <1>1, <1>5, ShiftBound
<1>7. c3 = d3
  BY <1>1, <1>3, <1>6, SmallMod
<1>8. c2 = d2
  BY <1>1, <1>3, <1>5, <1>7, BytesDetermine
<1>9. c1 = d1
  BY <1>1, <1>3, <1>4, <1>8, BytesDetermine
<1> QED BY <1>1, <1>2, <1>3, <1>9, BytesDetermine

-----------------------------------------------------------------------------
(***************************************************************************)
(* Sessions in closed form.                                                *)
(***************************************************************************)

FirstKey == X25519Generate(Alice, 0)

\* What InitOutbound derives on Alice's side.
HandshakeKeys ==
    <<X25519(IdentityKey(Alice), SignedPreKey(Bob)),
      X25519(FirstKey, IdentityKey(Bob)),
      X25519(FirstKey, SignedPreKey(Bob))>> \o OptionalDH(FirstKey, BundleOneTime)

HandshakeSecret == HKDF(HandshakeKeys, <<>>, "X3DH")

Advertised(p) == IF p = Alice THEN FirstKey ELSE SignedPreKey(Bob)

Chain(n) == [base |-> HandshakeSecret, n |-> n]

Wrapped(n) == n % CounterModulus

\* p's session after it sent s messages and made r calls of Decrypt, o of
\* which returned a plaintext.
Running(p, s, r, o) ==
    [root_key |-> HandshakeSecret,
     chain_key_send |-> Chain(s), chain_key_recv |-> Chain(r),
     our_dh |-> Advertised(p), their_dh_pub |-> Advertised(Other(p)),
     pn |-> 0, n_send |-> Wrapped(s), n_recv |-> Wrapped(o)]

\* Message i addressed to p.
Sealed(p, i) ==
    [header |-> [dh_pub |-> Advertised(Other(p)), pn |-> 0, n |-> Wrapped(i - 1)],
     ct |-> [key |-> Chain(i - 1), nonce |-> DeriveNonce(Wrapped(i - 1)),
             aad |-> Advertised(Other(p)), body |-> i]]

-----------------------------------------------------------------------------
(***************************************************************************)
(* The handshake.                                                          *)
(***************************************************************************)

LEMMA PeerFacts ==
  /\ Alice \in Peer /\ Bob \in Peer
  /\ Other(Alice) = Bob /\ Other(Bob) = Alice
  /\ \A p \in Peer : Other(p) \in Peer /\ Other(p) # p /\ Other(Other(p)) = p
BY PeersAssumption DEF Peer, Other

LEMMA WrappedFacts ==
  /\ Wrapped(0) = 0
  /\ 0 \in Counter
  /\ \A n \in Nat : Wrapped(n) \in Counter /\ Increment(Wrapped(n)) = Wrapped(n + 1)
<1>1. \A n \in Nat : Wrapped(n) \in Counter
  BY CounterType DEF Wrapped
<1>2. \A n \in Nat : Increment(Wrapped(n)) = Wrapped(n + 1)
  BY ModulusType, ModSuccessor DEF Wrapped, Increment
<1>3. Wrapped(0) = 0
  BY ModulusType, SmallMod, 0 < CounterModulus DEF Wrapped
<1> QED BY <1>1, <1>2, <1>3

\* InitInbound is the mirror of InitOutbound: called on the two ends of one
\* bundle and one ephemeral key, they derive the same secret from the same
\* Diffie-Hellman results in the same order.
THEOREM HandshakeMirrors ==
  /\ InitOutbound(IdentityKey(Alice), IdentityKey(Bob), SignedPreKey(Bob),
                  BundleOneTime, FirstKey) = Running(Alice, 0, 0, 0)
  /\ InitInbound(IdentityKey(Bob), SignedPreKey(Bob), BundleOneTime,
                 IdentityKey(Alice), FirstKey) = Running(Bob, 0, 0, 0)
<1>1. InitOutbound(IdentityKey(Alice), IdentityKey(Bob), SignedPreKey(Bob),
                   BundleOneTime, FirstKey) = Running(Alice, 0, 0, 0)
  BY PeerFacts, WrappedFacts
  DEF InitOutbound, Running, NewSession, FirstChainKey, Chain, HandshakeSecret,
      HandshakeKeys, Advertised
<1>2. \A a, b \in Key : X25519(a, b) = X25519(b, a)
  BY DEF X25519
<1>3. <<X25519(SignedPreKey(Bob), IdentityKey(Alice)),
        X25519(IdentityKey(Bob), FirstKey),
        X25519(SignedPreKey(Bob), FirstKey)>> \o OptionalDH(FirstKey, BundleOneTime)
      = HandshakeKeys
  BY DEF HandshakeKeys, X25519
<1>4. Advertised(Alice) = FirstKey /\ Advertised(Bob) = SignedPreKey(Bob)
  BY PeersAssumption DEF Advertised
<1>5. InitInbound(IdentityKey(Bob), SignedPreKey(Bob), BundleOneTime,
                  IdentityKey(Alice), FirstKey) = Running(Bob, 0, 0, 0)
  BY <1>3, <1>4, PeerFacts, WrappedFacts
  DEF InitInbound, Running, NewSession, FirstChainKey, Chain, HandshakeSecret
<1> QED BY <1>1, <1>5

LEMMA KeyTypes ==
  /\ FirstKey \in Key
  /\ \A p \in Peer : IdentityKey(p) \in Key /\ SignedPreKey(p) \in Key
                     /\ OneTimeKey(p) \in Key /\ Advertised(p) \in Key
BY PeerFacts DEF Key, FirstKey, X25519Generate, IdentityKey, SignedPreKey,
                 OneTimeKey, Advertised

LEMMA SecretType == HandshakeSecret \in Secret
<1>1. \A a, b \in Key : X25519(a, b) \in SUBSET Key
  BY DEF X25519
<1>2. OptionalDH(FirstKey, BundleOneTime) \in Seq(SUBSET Key)
  <2>1. CASE BundleOneTime = <<>>
    BY <2>1 DEF OptionalDH
  <2>2. CASE BundleOneTime = <<OneTimeKey(Bob)>>
    <3>1. OptionalDH(FirstKey, BundleOneTime)
            = [i \in 1 .. 1 |-> X25519(FirstKey, OneTimeKey(Bob))]
      BY <2>2 DEF OptionalDH
    <3> QED BY <3>1, <1>1, KeyTypes, PeerFacts
  <2> QED BY <2>1, <2>2, BundleAssumption
<1>3. HandshakeKeys \in Seq(SUBSET Key)
  BY <1>1, <1>2, KeyTypes, PeerFacts DEF HandshakeKeys
<1>4. [info |-> "X3DH", ikm |-> HandshakeKeys] \in KdfInput
  BY <1>3 DEF KdfInput
<1> QED BY <1>4 DEF HandshakeSecret, HKDF, Secret

LEMMA RunningType ==
  ASSUME NEW p \in Peer, NEW s \in Nat, NEW r \in Nat, NEW o \in Nat
  PROVE  Running(p, s, r, o) \in SessionState
BY SecretType, KeyTypes, PeerFacts, WrappedFacts
DEF Running, SessionState, Chain, ChainKey

LEMMA NonceType == \A c \in Nat : DeriveNonce(c) \in Nonce
<1> SUFFICES ASSUME NEW c \in Nat PROVE DeriveNonce(c) \in Nonce
  OBVIOUS
<1>1. ByteBase \in Nat \ {0}
  BY ByteAssumption
<1> DEFINE c1 == c \div ByteBase
           c2 == c1 \div ByteBase
           c3 == c2 \div ByteBase
<1>2. c1 \in Nat /\ c % ByteBase \in 0 .. ByteBase - 1
  BY <1>1, DivMod
<1>3. c2 \in Nat /\ c1 % ByteBase \in 0 .. ByteBase - 1
  BY <1>1, <1>2, DivMod
<1>4. c3 \in Nat /\ c2 % ByteBase \in 0 .. ByteBase - 1
  BY <1>1, <1>3, DivMod
<1>5. c3 % ByteBase \in 0 .. ByteBase - 1
  BY <1>1, <1>4, DivMod
<1> HIDE DEF c1, c2, c3
<1> QED BY <1>2, <1>3, <1>4, <1>5 DEF DeriveNonce, Nonce, c1, c2, c3

LEMMA SealedType ==
  ASSUME NEW p \in Peer, NEW i \in Nat \ {0}
  PROVE  Sealed(p, i) \in Message
<1>1. i - 1 \in Nat /\ Wrapped(i - 1) \in Counter /\ Wrapped(i - 1) \in Nat
  BY WrappedFacts DEF Counter
<1>2. DeriveNonce(Wrapped(i - 1)) \in Nonce
  BY <1>1, NonceType
<1>3. Chain(i - 1) \in ChainKey
  BY <1>1, SecretType DEF Chain, ChainKey
<1> QED BY <1>1, <1>2, <1>3, KeyTypes, PeerFacts, WrappedFacts
        DEF Sealed, Message, Header, Ciphertext

-----------------------------------------------------------------------------
(***************************************************************************)
(* The invariant that holds on every network.                              *)
(***************************************************************************)

Typed == /\ generated \in [Peer -> Nat]
         /\ wire \in [Peer -> Seq(Message)]
         /\ read \in [Peer -> Nat]
         /\ delivered \in [Peer -> Seq(Nat)]
         /\ failed \in [Peer -> Nat]

Idle(p) == /\ wire[Other(p)] = <<>>
           /\ read[p] = 0
           /\ delivered[p] = <<>>
           /\ failed[p] = 0
           /\ p = Alice => generated[p] = 0

\* A peer without a session has done nothing; a session is in closed form.
SessionOf(p) ==
    \/ /\ sess[p] = NoSession
       /\ Idle(p)
    \/ sess[p] = Running(p, Len(wire[Other(p)]), read[p], Len(delivered[p]))

WireOf(p) == \A i \in 1 .. Len(wire[p]) : wire[p][i] = Sealed(p, i)

SessionInv == /\ Typed
              /\ sess = [p \in Peer |-> sess[p]]
              /\ \A p \in Peer : SessionOf(p) /\ WireOf(p)

LEMMA RunningIsASession ==
  ASSUME NEW p \in Peer, NEW s \in Nat, NEW r \in Nat, NEW o \in Nat
  PROVE  Running(p, s, r, o) # NoSession
BY RunningType, NoSessionAssumption

LEMMA Counts ==
  SessionInv => \A p \in Peer : /\ Len(wire[p]) \in Nat
                               /\ read[p] \in Nat
                               /\ Len(delivered[p]) \in Nat
BY DEF SessionInv, Typed

\* Which of the two cases of SessionOf holds.
LEMMA SessionCases ==
  SessionInv => \A p \in Peer :
      IF sess[p] = NoSession
      THEN Idle(p)
      ELSE sess[p] = Running(p, Len(wire[Other(p)]), read[p], Len(delivered[p]))
<1> SUFFICES ASSUME SessionInv, NEW p \in Peer
             PROVE  sess[p] = NoSession => Idle(p)
  BY DEF SessionInv, SessionOf
<1>1. Running(p, Len(wire[Other(p)]), read[p], Len(delivered[p])) # NoSession
  BY Counts, PeerFacts, RunningIsASession
<1> QED BY <1>1 DEF SessionInv, SessionOf

LEMMA SessionInvInit == Init => SessionInv
BY PeerFacts DEF Init, SessionInv, Typed, SessionOf, WireOf, Idle

LEMMA SessionInvType == SessionInv => TypeOK
<1> SUFFICES ASSUME SessionInv, NEW p \in Peer
             PROVE  sess[p] \in SessionState \cup {NoSession}
  BY DEF SessionInv, TypeOK, Typed
<1>1. Len(wire[Other(p)]) \in Nat /\ read[p] \in Nat /\ Len(delivered[p]) \in Nat
  BY Counts, PeerFacts
<1>2. Running(p, Len(wire[Other(p)]), read[p], Len(delivered[p])) \in SessionState
  BY <1>1, RunningType
<1> QED BY <1>2 DEF SessionInv, SessionOf

LEMMA StartOutboundStep == SessionInv /\ StartOutbound => SessionInv'
<1> SUFFICES ASSUME SessionInv, StartOutbound PROVE SessionInv'
  OBVIOUS
<1>1. /\ sess[Alice] = NoSession
      /\ UNCHANGED <<wire, read, delivered, failed>>
      /\ generated' = [generated EXCEPT ![Alice] = @ + 1]
  BY DEF StartOutbound
<1>2. /\ wire[Bob] = <<>> /\ read[Alice] = 0 /\ delivered[Alice] = <<>>
      /\ generated[Alice] = 0
  BY <1>1, PeerFacts, SessionCases DEF Idle
<1>3. sess' = [sess EXCEPT ![Alice] = Running(Alice, 0, 0, 0)]
  BY <1>2, HandshakeMirrors DEF StartOutbound, FirstKey
<1>4. Typed'
  BY <1>1, PeerFacts DEF SessionInv, Typed
<1>5. SessionOf(Alice)'
  BY <1>1, <1>2, <1>3, PeerFacts DEF SessionInv, SessionOf
<1>6. SessionOf(Bob)'
  BY <1>1, <1>3, PeerFacts, PeersAssumption DEF SessionInv, SessionOf, Idle
<1>7. \A p \in Peer : WireOf(p)'
  BY <1>1 DEF SessionInv, WireOf
<1> QED BY <1>3, <1>4, <1>5, <1>6, <1>7 DEF SessionInv, Peer

LEMMA StartInboundStep ==
  ASSUME SessionInv, NEW i \in 1 .. Len(wire[Bob]), StartInbound(i)
  PROVE  SessionInv'
<1>1. /\ sess[Bob] = NoSession
      /\ UNCHANGED <<generated, wire, read, delivered, failed>>
  BY DEF StartInbound
<1>2. wire[Alice] = <<>> /\ read[Bob] = 0 /\ delivered[Bob] = <<>>
  BY <1>1, PeerFacts, SessionCases DEF Idle
<1>3. wire[Bob][i].header.dh_pub = FirstKey
  <2>1. wire[Bob][i] = Sealed(Bob, i)
    BY PeerFacts DEF SessionInv, WireOf
  <2> QED BY <2>1, PeerFacts DEF Sealed, Advertised
<1>4. sess' = [sess EXCEPT ![Bob] = Running(Bob, 0, 0, 0)]
  BY <1>3, HandshakeMirrors DEF StartInbound
<1>5. Typed'
  BY <1>1 DEF SessionInv, Typed
<1>6. SessionOf(Bob)'
  BY <1>1, <1>2, <1>4, PeerFacts DEF SessionInv, SessionOf
<1>7. SessionOf(Alice)'
  BY <1>1, <1>4, PeerFacts, PeersAssumption DEF SessionInv, SessionOf, Idle
<1>8. \A p \in Peer : WireOf(p)'
  BY <1>1 DEF SessionInv, WireOf
<1> QED BY <1>4, <1>5, <1>6, <1>7, <1>8 DEF SessionInv, Peer

\* Between the two updates that Encrypt and Decrypt make to a session.
Halfway(p, cs, cr, ns, nr) ==
    [root_key |-> HandshakeSecret,
     chain_key_send |-> Chain(cs), chain_key_recv |-> Chain(cr),
     our_dh |-> Advertised(p), their_dh_pub |-> Advertised(Other(p)),
     pn |-> 0, n_send |-> Wrapped(ns), n_recv |-> Wrapped(nr)]

LEMMA EncryptClosedForm ==
  ASSUME NEW p \in Peer, NEW s \in Nat, NEW r \in Nat, NEW o \in Nat
  PROVE  /\ Encrypted(Running(p, s, r, o), s + 1) = Sealed(Other(p), s + 1)
         /\ AfterEncrypt(Running(p, s, r, o)) = Running(p, s + 1, r, o)
<1>1. Encrypted(Running(p, s, r, o), s + 1) = Sealed(Other(p), s + 1)
  <2>1. (s + 1) - 1 = s
    OBVIOUS
  <2>2. Sealed(Other(p), s + 1) =
          [header |-> [dh_pub |-> Advertised(p), pn |-> 0, n |-> Wrapped(s)],
           ct |-> [key |-> Chain(s), nonce |-> DeriveNonce(Wrapped(s)),
                   aad |-> Advertised(p), body |-> s + 1]]
    BY <2>1, PeerFacts, Zenon DEF Sealed
  <2> QED BY <2>2 DEF Encrypted, AEAD_Encrypt, Running
<1>2. KDF_CK(Chain(s)) = Chain(s + 1) /\ Increment(Wrapped(s)) = Wrapped(s + 1)
  BY WrappedFacts DEF KDF_CK, Chain
<1> DEFINE st == Running(p, s, r, o)
<1>3. st.chain_key_send = Chain(s) /\ st.n_send = Wrapped(s)
  BY DEF Running
<1>4. [st EXCEPT !.chain_key_send = Chain(s + 1)] = Halfway(p, s + 1, r, s, o)
  BY DEF Running, Halfway
<1>5. [Halfway(p, s + 1, r, s, o) EXCEPT !.n_send = Wrapped(s + 1)] = Running(p, s + 1, r, o)
  BY DEF Running, Halfway
<1> HIDE DEF st
<1>6. AfterEncrypt(st) = Running(p, s + 1, r, o)
  BY <1>2, <1>3, <1>4, <1>5 DEF AfterEncrypt
<1> QED BY <1>1, <1>6 DEF st

LEMMA SendStep ==
  ASSUME SessionInv, NEW p \in Peer, Send(p)
  PROVE  SessionInv'
<1> DEFINE q == Other(p)
           k == Len(wire[q])
<1>1. /\ sess[p] # NoSession
      /\ UNCHANGED <<generated, read, delivered, failed>>
  BY DEF Send
<1>2. q \in Peer /\ q # p /\ Other(q) = p
  BY PeerFacts
<1>3. k \in Nat /\ read[p] \in Nat /\ Len(delivered[p]) \in Nat
  BY <1>2, Counts
<1>4. sess[p] = Running(p, k, read[p], Len(delivered[p]))
  BY <1>1, SessionCases
<1>5. wire' = [wire EXCEPT ![q] = Append(@, Sealed(q, k + 1))]
  <2>1. Encrypted(sess[p], k + 1) = Sealed(q, k + 1)
    <3>1. Encrypted(Running(p, k, read[p], Len(delivered[p])), k + 1) = Sealed(Other(p), k + 1)
      BY <1>3, EncryptClosedForm
    <3> QED BY <1>4, <3>1
  <2>2. wire' = [wire EXCEPT ![q] = Append(@, Encrypted(sess[p], k + 1))]
    BY Zenon DEF Send
  <2> HIDE DEF q, k
  <2> QED BY <2>1, <2>2
<1>6. sess' = [sess EXCEPT ![p] = Running(p, k + 1, read[p], Len(delivered[p]))]
  <2>1. AfterEncrypt(sess[p]) = Running(p, k + 1, read[p], Len(delivered[p]))
    BY <1>3, <1>4, EncryptClosedForm
  <2>2. sess' = [sess EXCEPT ![p] = AfterEncrypt(sess[p])]
    BY DEF Send
  <2> HIDE DEF q, k
  <2> QED BY <2>1, <2>2
<1>7. Sealed(q, k + 1) \in Message /\ wire \in [Peer -> Seq(Message)]
  BY <1>2, <1>3, k + 1 \in Nat \ {0}, SealedType DEF SessionInv, Typed
<1>8. wire' \in [Peer -> Seq(Message)] /\ Len(wire'[q]) = k + 1 /\ wire'[p] = wire[p]
  BY <1>2, <1>5, <1>7
<1>9. Typed'
  BY <1>1, <1>8 DEF SessionInv, Typed
<1>10. SessionOf(p)'
  BY <1>1, <1>2, <1>6, <1>8 DEF SessionInv, SessionOf
<1>11. SessionOf(q)'
  BY <1>1, <1>2, <1>6, <1>8 DEF SessionInv, SessionOf, Idle
<1>12. WireOf(p)'
  BY <1>8 DEF SessionInv, WireOf
<1>13. WireOf(q)'
  <2> SUFFICES ASSUME NEW i \in 1 .. k + 1 PROVE wire'[q][i] = Sealed(q, i)
    BY <1>8 DEF WireOf
  <2>1. wire'[q] = Append(wire[q], Sealed(q, k + 1)) /\ wire[q] \in Seq(Message)
    BY <1>2, <1>5, <1>7
  <2>2. \A j \in 1 .. k : wire[q][j] = Sealed(q, j)
    BY <1>2 DEF SessionInv, WireOf
  <2> QED BY <1>3, <2>1, <2>2
<1>14. \A x \in Peer : x = p \/ x = q
  BY <1>2 DEF Peer
<1> QED BY <1>6, <1>9, <1>10, <1>11, <1>12, <1>13, <1>14 DEF SessionInv

\* The counts under which a session that made r calls, o of them successful,
\* opens message i.
Accepts(i, r, o) == /\ i = r + 1
                    /\ DeriveNonce(Wrapped(i - 1)) = DeriveNonce(Wrapped(o))

LEMMA DecryptClosedForm ==
  ASSUME NEW p \in Peer, NEW s \in Nat, NEW r \in Nat, NEW o \in Nat,
         NEW i \in Nat \ {0}, NEW pair \in Key
  PROVE  LET st == Running(p, s, r, o)
             m  == Sealed(p, i)
         IN  /\ ~ Ratchets(st, m)
             /\ Opens(st, m, pair) <=> Accepts(i, r, o)
             /\ Opens(st, m, pair) => AfterDecrypt(st, m, pair) = Running(p, s, r + 1, o + 1)
             /\ ~ Opens(st, m, pair) => AfterDecrypt(st, m, pair) = Running(p, s, r + 1, o)
<1> DEFINE st == Running(p, s, r, o)
           m  == Sealed(p, i)
<1>1. ~ Ratchets(st, m)
  BY DEF Ratchets, Running, Sealed
<1>2. Prepared(st, m, pair) = st
  BY <1>1 DEF Prepared
<1>3. Opens(st, m, pair) <=> Accepts(i, r, o)
  <2>1. Chain(i - 1) = Chain(r) <=> i = r + 1
    BY DEF Chain
  <2>2. /\ st.chain_key_recv = Chain(r) /\ st.n_recv = Wrapped(o)
        /\ m.ct.key = Chain(i - 1) /\ m.ct.nonce = DeriveNonce(Wrapped(i - 1))
        /\ m.ct.aad = m.header.dh_pub
    BY DEF Running, Sealed
  <2> HIDE DEF st, m
  <2> QED BY <1>2, <2>1, <2>2 DEF Opens, AEAD_Opens, Accepts
<1>4. KDF_CK(Chain(r)) = Chain(r + 1) /\ Increment(Wrapped(o)) = Wrapped(o + 1)
  BY WrappedFacts DEF KDF_CK, Chain
<1>5. st.chain_key_recv = Chain(r) /\ st.n_recv = Wrapped(o)
  BY DEF Running
<1>6. [st EXCEPT !.chain_key_recv = Chain(r + 1)] = Halfway(p, s, r + 1, s, o)
  BY DEF Running, Halfway
<1>7. \A n \in Nat : [Halfway(p, s, r + 1, s, o) EXCEPT !.n_recv = Wrapped(n)]
                       = Running(p, s, r + 1, n)
  BY DEF Running, Halfway
<1> HIDE DEF st, m
<1>8. Opens(st, m, pair) => AfterDecrypt(st, m, pair) = Running(p, s, r + 1, o + 1)
  <2>1. [Halfway(p, s, r + 1, s, o) EXCEPT !.n_recv = Wrapped(o + 1)]
          = Running(p, s, r + 1, o + 1)
    BY <1>7
  <2> QED BY <1>2, <1>4, <1>5, <1>6, <2>1 DEF AfterDecrypt
<1>9. ~ Opens(st, m, pair) => AfterDecrypt(st, m, pair) = Running(p, s, r + 1, o)
  <2>1. [Halfway(p, s, r + 1, s, o) EXCEPT !.n_recv = Wrapped(o)] = Running(p, s, r + 1, o)
    BY <1>7
  <2> QED BY <1>2, <1>4, <1>5, <1>6, <2>1 DEF AfterDecrypt
<1> QED BY <1>1, <1>3, <1>8, <1>9 DEF st, m

\* What a call of Decrypt on message i does, in terms of the counts.
LEMMA ReceiveEffect ==
  ASSUME SessionInv, NEW p \in Peer, NEW i \in 1 .. Len(wire[p]), Receive(p, i)
  PROVE  /\ UNCHANGED <<wire, generated>>
         /\ read' = [read EXCEPT ![p] = @ + 1]
         /\ sess' = [sess EXCEPT ![p] = Running(p, Len(wire[Other(p)]), read[p] + 1,
                                                Len(delivered'[p]))]
         /\ \/ /\ Accepts(i, read[p], Len(delivered[p]))
               /\ delivered' = [delivered EXCEPT ![p] = Append(@, i)]
               /\ UNCHANGED failed
            \/ /\ ~ Accepts(i, read[p], Len(delivered[p]))
               /\ failed' = [failed EXCEPT ![p] = @ + 1]
               /\ UNCHANGED delivered
<1> DEFINE s == Len(wire[Other(p)])
           r == read[p]
           o == Len(delivered[p])
           m == wire[p][i]
           pair == X25519Generate(p, generated[p])
<1>1. s \in Nat /\ r \in Nat /\ o \in Nat /\ i \in Nat \ {0}
  BY Counts, PeerFacts
<1>2. pair \in Key
  BY DEF SessionInv, Typed, X25519Generate, Key
<1>3. sess[p] = Running(p, s, r, o)
  BY SessionCases DEF Receive
<1>4. m = Sealed(p, i)
  BY DEF SessionInv, WireOf
<1>5. /\ ~ Ratchets(sess[p], m)
      /\ Opens(sess[p], m, pair) <=> Accepts(i, r, o)
      /\ Opens(sess[p], m, pair) => AfterDecrypt(sess[p], m, pair) = Running(p, s, r + 1, o + 1)
      /\ ~ Opens(sess[p], m, pair) => AfterDecrypt(sess[p], m, pair) = Running(p, s, r + 1, o)
  <2> HIDE DEF s, r, o, m, pair
  <2>1. LET st == Running(p, s, r, o)
            sealed == Sealed(p, i)
        IN  /\ ~ Ratchets(st, sealed)
            /\ Opens(st, sealed, pair) <=> Accepts(i, r, o)
            /\ Opens(st, sealed, pair) =>
                  AfterDecrypt(st, sealed, pair) = Running(p, s, r + 1, o + 1)
            /\ ~ Opens(st, sealed, pair) =>
                  AfterDecrypt(st, sealed, pair) = Running(p, s, r + 1, o)
    BY <1>1, <1>2, DecryptClosedForm
  <2> QED BY <1>3, <1>4, <2>1
<1>6. m.ct.body = i
  BY <1>4 DEF Sealed
<1>7. /\ read' = [read EXCEPT ![p] = @ + 1]
      /\ UNCHANGED wire
      /\ sess' = [sess EXCEPT ![p] = AfterDecrypt(@, m, pair)]
      /\ generated' = [generated EXCEPT ![p] = IF Ratchets(sess[p], m) THEN @ + 1 ELSE @]
      /\ IF Opens(sess[p], m, pair)
         THEN /\ delivered' = [delivered EXCEPT ![p] = Append(@, m.ct.body)]
              /\ UNCHANGED failed
         ELSE /\ failed' = [failed EXCEPT ![p] = @ + 1]
              /\ UNCHANGED delivered
  BY DEF Receive
<1>8. delivered \in [Peer -> Seq(Nat)] /\ generated \in [Peer -> Nat]
      /\ sess = [x \in Peer |-> sess[x]]
  BY DEF SessionInv, Typed
<1>9. UNCHANGED generated
  BY <1>5, <1>7, <1>8
<1> HIDE DEF s, r, o, m, pair
<1>10. CASE Opens(sess[p], m, pair)
  <2>1. delivered' = [delivered EXCEPT ![p] = Append(@, i)]
    BY <1>6, <1>7, <1>10
  <2>2. Len(delivered'[p]) = o + 1
    BY <2>1, <1>1, <1>8 DEF o
  <2>3. sess' = [sess EXCEPT ![p] = Running(p, s, r + 1, Len(delivered'[p]))]
    BY <1>5, <1>7, <1>8, <1>10, <2>2
  <2> QED BY <1>5, <1>7, <1>9, <1>10, <2>1, <2>3 DEF s, r, o
<1>11. CASE ~ Opens(sess[p], m, pair)
  <2>1. UNCHANGED delivered /\ failed' = [failed EXCEPT ![p] = @ + 1]
    BY <1>7, <1>11
  <2>2. sess' = [sess EXCEPT ![p] = Running(p, s, r + 1, Len(delivered'[p]))]
    BY <1>5, <1>7, <1>8, <1>11, <2>1 DEF o
  <2> QED BY <1>5, <1>7, <1>9, <1>11, <2>1, <2>2 DEF s, r, o
<1> QED BY <1>10, <1>11

LEMMA ReceiveStep ==
  ASSUME SessionInv, NEW p \in Peer, NEW i \in 1 .. Len(wire[p]), Receive(p, i)
  PROVE  SessionInv'
<1> DEFINE q == Other(p)
<1>1. /\ UNCHANGED <<wire, generated>>
      /\ read' = [read EXCEPT ![p] = @ + 1]
      /\ sess' = [sess EXCEPT ![p] = Running(p, Len(wire[q]), read[p] + 1, Len(delivered'[p]))]
      /\ \/ delivered' = [delivered EXCEPT ![p] = Append(@, i)] /\ UNCHANGED failed
         \/ failed' = [failed EXCEPT ![p] = @ + 1] /\ UNCHANGED delivered
  BY ReceiveEffect
<1>2. q \in Peer /\ q # p /\ \A x \in Peer : x = p \/ x = q
  BY PeerFacts DEF Peer
<1>3. /\ read \in [Peer -> Nat] /\ failed \in [Peer -> Nat]
      /\ delivered \in [Peer -> Seq(Nat)] /\ i \in Nat
      /\ sess = [x \in Peer |-> sess[x]]
  BY DEF SessionInv, Typed
<1>4. /\ read' \in [Peer -> Nat] /\ failed' \in [Peer -> Nat]
      /\ delivered' \in [Peer -> Seq(Nat)]
  <2>1. read[p] + 1 \in Nat /\ failed[p] + 1 \in Nat /\ Append(delivered[p], i) \in Seq(Nat)
    BY <1>3
  <2> QED BY <1>1, <1>3, <2>1
<1>5. /\ read'[p] = read[p] + 1
      /\ read'[q] = read[q] /\ failed'[q] = failed[q] /\ delivered'[q] = delivered[q]
  BY <1>1, <1>2, <1>3
<1>6. Typed'
  BY <1>1, <1>4 DEF SessionInv, Typed
<1>7. SessionOf(p)'
  BY <1>1, <1>3, <1>5 DEF SessionOf
<1>8. SessionOf(q)'
  BY <1>1, <1>2, <1>3, <1>5 DEF SessionInv, SessionOf, Idle
<1>9. \A x \in Peer : WireOf(x)'
  BY <1>1 DEF SessionInv, WireOf
<1>10. sess' = [x \in Peer |-> sess'[x]]
  BY <1>1, <1>3
<1> QED BY <1>2, <1>6, <1>7, <1>8, <1>9, <1>10 DEF SessionInv

LEMMA SessionStutter == SessionInv /\ UNCHANGED vars => SessionInv'
BY DEF SessionInv, Typed, SessionOf, Idle, WireOf, vars

-----------------------------------------------------------------------------
(***************************************************************************)
(* What the invariant says of the two ends.                                *)
(***************************************************************************)

LEMMA AgreementFollows == SessionInv => HandshakeAgrees
<1> SUFFICES ASSUME SessionInv, Established, NEW p \in Peer
             PROVE  /\ sess[p].root_key = sess[Other(p)].root_key
                    /\ sess[p].chain_key_send.base = sess[Other(p)].chain_key_recv.base
                    /\ sess[p].our_dh = sess[Other(p)].their_dh_pub
  BY DEF HandshakeAgrees
<1> DEFINE q == Other(p)
<1>1. q \in Peer /\ Other(q) = p
  BY PeerFacts
<1>2. /\ sess[p] = Running(p, Len(wire[q]), read[p], Len(delivered[p]))
      /\ sess[q] = Running(q, Len(wire[p]), read[q], Len(delivered[q]))
  BY <1>1, SessionCases DEF Established
<1> QED BY <1>1, <1>2 DEF Running, Chain

LEMMA NoRatchetFollows == SessionInv => NeverRatchets
<1> SUFFICES ASSUME SessionInv, NEW p \in Peer, sess[p] # NoSession
             PROVE  /\ Len(sess[p].root_key) = 1
                    /\ \A i \in 1 .. Len(wire[p]) : ~ Ratchets(sess[p], wire[p][i])
  BY DEF NeverRatchets
<1>1. sess[p] = Running(p, Len(wire[Other(p)]), read[p], Len(delivered[p]))
  BY SessionCases
<1>2. Len(HandshakeSecret) = 1
  BY DEF HandshakeSecret, HKDF
<1>3. Len(sess[p].root_key) = 1
  BY <1>1, <1>2 DEF Running
<1>4. ASSUME NEW i \in 1 .. Len(wire[p]) PROVE ~ Ratchets(sess[p], wire[p][i])
  <2>1. wire[p][i] = Sealed(p, i)
    BY DEF SessionInv, WireOf
  <2> QED BY <1>1, <2>1 DEF Ratchets, Running, Sealed
<1> QED BY <1>3, <1>4

LEMMA FreshKeysFollow == SessionInv => MessageKeysUsedOnce
<1> SUFFICES ASSUME SessionInv, NEW p \in Peer,
                    NEW i \in 1 .. Len(wire[p]), NEW j \in 1 .. Len(wire[p]),
                    wire[p][i].ct.key = wire[p][j].ct.key
             PROVE  i = j
  BY DEF MessageKeysUsedOnce
<1>1. wire[p][i] = Sealed(p, i) /\ wire[p][j] = Sealed(p, j)
  BY DEF SessionInv, WireOf
<1>2. Chain(i - 1) = Chain(j - 1)
  BY <1>1 DEF Sealed
<1> QED BY <1>2, Counts DEF Chain

-----------------------------------------------------------------------------
(***************************************************************************)
(* The ordered stream.                                                     *)
(***************************************************************************)

FifoInv == /\ SessionInv
           /\ \A p \in Peer : /\ failed[p] = 0
                              /\ read[p] <= Len(wire[p])
                              /\ delivered[p] = [i \in 1 .. read[p] |-> i]

LEMMA FifoInvInit == Init => FifoInv
BY SessionInvInit, PeerFacts DEF Init, FifoInv

\* The next message is always accepted.
LEMMA FifoReceiveEffect ==
  ASSUME FifoInv, NEW p \in Peer, FifoReceive(p)
  PROVE  /\ read[p] < Len(wire[p])
         /\ UNCHANGED <<wire, failed>>
         /\ read' = [read EXCEPT ![p] = @ + 1]
         /\ delivered' = [delivered EXCEPT ![p] = Append(@, read[p] + 1)]
<1> DEFINE n == read[p] + 1
<1>1. n \in 1 .. Len(wire[p]) /\ Receive(p, n) /\ read[p] \in Nat
  BY Counts DEF FifoReceive, NextUnread, FifoInv
<1>2. Len(delivered[p]) = read[p]
  <2>1. delivered[p] = [i \in 1 .. read[p] |-> i] /\ read[p] \in Nat
    BY <1>1 DEF FifoInv
  <2> QED BY <2>1
<1>3. Accepts(n, read[p], Len(delivered[p]))
  <2>1. n - 1 = read[p]
    BY <1>1
  <2> QED BY <1>2, <2>1 DEF Accepts
<1> QED BY <1>1, <1>3, ReceiveEffect, Counts DEF FifoInv

LEMMA FifoInvNext == FifoInv /\ [FifoNext]_vars => FifoInv'
<1> SUFFICES ASSUME FifoInv, [FifoNext]_vars PROVE FifoInv'
  OBVIOUS
<1>1. SessionInv /\ wire \in [Peer -> Seq(Message)] /\ read \in [Peer -> Nat]
      /\ delivered \in [Peer -> Seq(Nat)]
  BY DEF FifoInv, SessionInv, Typed
<1>2. CASE StartOutbound
  BY <1>1, <1>2, StartOutboundStep DEF FifoInv, StartOutbound
<1>3. CASE FifoStartInbound
  <2>1. NextUnread(Bob) \in 1 .. Len(wire[Bob])
    BY <1>1, <1>3, PeerFacts DEF FifoStartInbound, NextUnread
  <2> QED BY <1>1, <1>3, <2>1, StartInboundStep DEF FifoInv, FifoStartInbound, StartInbound
<1>4. ASSUME NEW p \in Peer, Send(p) PROVE FifoInv'
  <2>1. SessionInv'
    BY <1>1, <1>4, SendStep
  <2>2. UNCHANGED <<read, delivered, failed>>
    BY <1>4 DEF Send
  <2>3. PICK m : wire' = [wire EXCEPT ![Other(p)] = Append(@, m)]
    BY <1>4 DEF Send
  <2>4. wire' \in [Peer -> Seq(Message)]
    BY <2>1 DEF SessionInv, Typed
  <2>5. \A x \in Peer : Len(wire[x]) <= Len(wire'[x])
    <3> SUFFICES ASSUME NEW x \in Peer PROVE Len(wire[x]) <= Len(wire'[x])
      OBVIOUS
    <3>1. CASE x # Other(p)
      BY <1>1, <2>3, <3>1
    <3>2. CASE x = Other(p)
      <4>1. wire'[x] = Append(wire[x], m)
        BY <1>1, <2>3, <3>2
      <4> QED BY <1>1, <4>1
    <3> QED BY <3>1, <3>2
  <2>6. \A x \in Peer : read[x] <= Len(wire'[x])
    BY <1>1, <2>4, <2>5 DEF FifoInv
  <2> QED BY <2>1, <2>2, <2>6 DEF FifoInv
<1>5. ASSUME NEW p \in Peer, FifoReceive(p) PROVE FifoInv'
  <2>1. /\ read[p] < Len(wire[p])
        /\ UNCHANGED <<wire, failed>>
        /\ read' = [read EXCEPT ![p] = @ + 1]
        /\ delivered' = [delivered EXCEPT ![p] = Append(@, read[p] + 1)]
    BY <1>5, FifoReceiveEffect
  <2>2. SessionInv'
    <3>1. NextUnread(p) \in 1 .. Len(wire[p])
      BY <1>1, <2>1 DEF NextUnread
    <3> QED BY <1>1, <1>5, <3>1, ReceiveStep DEF FifoReceive
  <2> SUFFICES ASSUME NEW x \in Peer
               PROVE  /\ failed'[x] = 0
                      /\ read'[x] <= Len(wire'[x])
                      /\ delivered'[x] = [i \in 1 .. read'[x] |-> i]
    BY <2>2 DEF FifoInv
  <2>3. CASE x # p
    BY <1>1, <2>1, <2>3 DEF FifoInv
  <2>4. CASE x = p
    <3>1. read'[x] = read[p] + 1 /\ delivered'[x] = Append(delivered[p], read[p] + 1)
      BY <1>1, <2>1, <2>4
    <3>2. delivered[p] = [i \in 1 .. read[p] |-> i] /\ read[p] \in Nat
      BY <1>1 DEF FifoInv
    <3>3. Append(delivered[p], read[p] + 1) = [i \in 1 .. read[p] + 1 |-> i]
      BY <3>2
    <3> QED BY <1>1, <2>1, <2>4, <3>1, <3>3 DEF FifoInv
  <2> QED BY <2>3, <2>4
<1>6. CASE UNCHANGED vars
  BY <1>1, <1>6, SessionStutter DEF FifoInv, vars
<1> QED BY <1>2, <1>3, <1>4, <1>5, <1>6 DEF FifoNext

LEMMA FifoInvariance == FifoSpec => []FifoInv
BY FifoInvInit, FifoInvNext, PTL DEF FifoSpec

\* On an ordered stream every variable keeps its type, the wrapping counters
\* of the session and of every header included.
THEOREM FifoTypeCorrect == FifoSpec => []TypeOK
<1>1. FifoInv => TypeOK
  BY SessionInvType DEF FifoInv
<1> QED BY <1>1, FifoInvariance, PTL

\* InitOutbound and InitInbound leave the two ends of an ordered stream in
\* agreement, however many messages have passed in either direction.
THEOREM FifoHandshakeAgrees == FifoSpec => []HandshakeAgrees
<1>1. FifoInv => HandshakeAgrees
  BY AgreementFollows DEF FifoInv
<1> QED BY <1>1, FifoInvariance, PTL

\* Encrypt never seals two messages under one message key.
THEOREM FifoKeysUsedOnce == FifoSpec => []MessageKeysUsedOnce
<1>1. FifoInv => MessageKeysUsedOnce
  BY FreshKeysFollow DEF FifoInv
<1> QED BY <1>1, FifoInvariance, PTL

-----------------------------------------------------------------------------
(***************************************************************************)
(* The sessions implement the abstract channels.                           *)
(***************************************************************************)

LEMMA ChannelInit == Init => Channel!Init
BY DEF Init, Channel!Init

\* An Encrypt is a Send of the channel, a step that changes nothing else.
LEMMA SendIsChannelSend ==
  ASSUME SessionInv, NEW p \in Peer, Send(p)
  PROVE  Channel!Send(Other(p))
<1> DEFINE q == Other(p)
<1>1. PICK m : wire' = [wire EXCEPT ![q] = Append(@, m)]
  BY DEF Send
<1>2. q \in Peer /\ wire \in [Peer -> Seq(Message)]
  BY PeerFacts DEF SessionInv, Typed
<1>3. Len(wire'[q]) = Len(wire[q]) + 1
  <2>1. wire'[q] = Append(wire[q], m) /\ wire[q] \in Seq(Message)
    BY <1>1, <1>2
  <2> QED BY <2>1
<1>4. \A x \in Peer : x # q => wire'[x] = wire[x]
  BY <1>1, <1>2
<1>5. [x \in Peer |-> Len(wire[x])]' = [[x \in Peer |-> Len(wire[x])] EXCEPT ![q] = @ + 1]
  BY <1>2, <1>3, <1>4
<1>6. UNCHANGED <<read, delivered>>
  BY DEF Send
<1> QED BY <1>5, <1>6 DEF Channel!Send

LEMMA ReliableStep == FifoInv /\ [FifoNext]_vars => [Channel!ReliableNext]_(Channel!vars)
<1> SUFFICES ASSUME FifoInv, [FifoNext]_vars
             PROVE  Channel!ReliableNext \/ UNCHANGED Channel!vars
  OBVIOUS
<1>1. CASE StartOutbound \/ FifoStartInbound \/ UNCHANGED vars
  BY <1>1 DEF StartOutbound, FifoStartInbound, StartInbound, vars, Channel!vars
<1>2. ASSUME NEW p \in Peer, Send(p) PROVE Channel!ReliableNext
  BY <1>2, SendIsChannelSend, PeerFacts DEF FifoInv, Channel!ReliableNext
<1>3. ASSUME NEW p \in Peer, FifoReceive(p) PROVE Channel!ReliableNext
  BY <1>3, FifoReceiveEffect DEF Channel!ReliableNext, Channel!Return
<1> QED BY <1>1, <1>2, <1>3 DEF FifoNext

\* On an ordered stream every call of Decrypt returns the next plaintext.
THEOREM FifoImplementsReliableChannel == FifoSpec => ImplementsReliableChannel
<1>1. Init => Channel!Init
  BY ChannelInit
<1>2. FifoInv /\ [FifoNext]_vars => [Channel!ReliableNext]_(Channel!vars)
  BY ReliableStep
<1> QED BY <1>1, <1>2, FifoInvariance, PTL
        DEF FifoSpec, ImplementsReliableChannel, Channel!ReliableSpec

-----------------------------------------------------------------------------
(***************************************************************************)
(* The network that loses, repeats and reorders.                           *)
(***************************************************************************)

\* Every call of Decrypt is counted as an answer or a failure, and no plaintext
\* returned is newer than the number of calls made.
FaultyInv == /\ SessionInv
             /\ \A p \in Peer : /\ read[p] = Len(delivered[p]) + failed[p]
                                /\ Channel!LastDelivered(p) \in Nat
                                /\ Channel!LastDelivered(p) <= read[p]

LEMMA FaultyInvInit == Init => FaultyInv
BY SessionInvInit, PeerFacts DEF Init, FaultyInv, Channel!LastDelivered

LEMMA FaultyReceive ==
  ASSUME FaultyInv, NEW p \in Peer, NEW i \in 1 .. Len(wire[p]), Receive(p, i)
  PROVE  /\ FaultyInv'
         /\ Channel!LossyNext
         /\ failed[p] % CounterModulus # 0 => delivered'[p] = delivered[p]
<1> DEFINE r == read[p]
           o == Len(delivered[p])
<1>1. /\ UNCHANGED wire
      /\ read' = [read EXCEPT ![p] = @ + 1]
      /\ \/ /\ Accepts(i, r, o)
            /\ delivered' = [delivered EXCEPT ![p] = Append(@, i)]
            /\ UNCHANGED failed
         \/ /\ failed' = [failed EXCEPT ![p] = @ + 1]
            /\ UNCHANGED delivered
  BY ReceiveEffect DEF FaultyInv
<1>2. /\ read \in [Peer -> Nat] /\ failed \in [Peer -> Nat]
      /\ delivered \in [Peer -> Seq(Nat)] /\ i \in Nat /\ i >= 1
      /\ r \in Nat /\ o \in Nat /\ failed[p] \in Nat
  BY Counts DEF FaultyInv, SessionInv, Typed
<1>3. SessionInv'
  BY ReceiveStep DEF FaultyInv
<1>4. CASE Accepts(i, r, o) /\ delivered' = [delivered EXCEPT ![p] = Append(@, i)]
           /\ UNCHANGED failed
  <2>1. i = r + 1
    BY <1>4 DEF Accepts
  <2>2. delivered'[p] = Append(delivered[p], i) /\ Len(delivered'[p]) = o + 1
    BY <1>2, <1>4
  <2>3. Channel!LastDelivered(p)' = i
    <3>1. delivered'[p] # <<>> /\ delivered'[p][Len(delivered'[p])] = i
      <4>1. delivered[p] \in Seq(Nat) /\ Append(delivered[p], i)[o + 1] = i
        BY <1>2
      <4>2. delivered'[p] # <<>>
        <5>1. Len(<<>>) = 0 /\ Len(delivered'[p]) # 0
          BY <1>2, <2>2
        <5> QED BY <5>1
      <4> QED BY <2>2, <4>1, <4>2
    <3> QED BY <3>1 DEF Channel!LastDelivered
  <2>4. \A x \in Peer : x # p => /\ delivered'[x] = delivered[x] /\ read'[x] = read[x]
                                 /\ Channel!LastDelivered(x)' = Channel!LastDelivered(x)
    BY <1>1, <1>2, <1>4 DEF Channel!LastDelivered
  <2>5. FaultyInv'
    <3> SUFFICES ASSUME NEW x \in Peer
                 PROVE  /\ read'[x] = Len(delivered'[x]) + failed'[x]
                        /\ Channel!LastDelivered(x)' \in Nat
                        /\ Channel!LastDelivered(x)' <= read'[x]
      BY <1>3 DEF FaultyInv
    <3>1. CASE x = p
      <4>1. read'[p] = r + 1 /\ failed'[p] = failed[p] /\ r = o + failed[p]
        BY <1>1, <1>2, <1>4 DEF FaultyInv
      <4> QED BY <1>2, <2>1, <2>2, <2>3, <3>1, <4>1
    <3>2. CASE x # p
      BY <1>4, <2>4, <3>2 DEF FaultyInv
    <3> QED BY <3>1, <3>2
  <2>6. Channel!LossyNext
    <3>1. i \in Channel!LastDelivered(p) + 1 .. Len(wire[p])
      BY <1>2, <2>1 DEF FaultyInv
    <3>2. Channel!Return(p, i)
      BY <1>1, <1>4 DEF Channel!Return
    <3> QED BY <3>1, <3>2 DEF Channel!LossyNext
  <2>7. failed[p] % CounterModulus = 0
    <3>1. Wrapped(i - 1) = Wrapped(o)
      <4>1. i - 1 \in Nat
        BY <1>2
      <4>2. Wrapped(i - 1) \in Counter /\ Wrapped(o) \in Counter
        BY <1>2, <4>1, WrappedFacts
      <4> QED BY <1>4, <4>2, NonceInjective DEF Accepts
    <3>2. i - 1 = o + failed[p]
      BY <1>2, <2>1 DEF FaultyInv
    <3>3. o % CounterModulus = (o + failed[p]) % CounterModulus
      BY <3>1, <3>2 DEF Wrapped
    <3> QED BY <1>2, <3>3, ModulusType, ModDifference
  <2> QED BY <2>5, <2>6, <2>7
<1>5. CASE failed' = [failed EXCEPT ![p] = @ + 1] /\ UNCHANGED delivered
  <2>1. FaultyInv'
    <3> SUFFICES ASSUME NEW x \in Peer
                 PROVE  /\ read'[x] = Len(delivered'[x]) + failed'[x]
                        /\ Channel!LastDelivered(x)' \in Nat
                        /\ Channel!LastDelivered(x)' <= read'[x]
      BY <1>3 DEF FaultyInv
    <3>1. Channel!LastDelivered(x)' = Channel!LastDelivered(x)
      BY <1>5 DEF Channel!LastDelivered
    <3>2. read[x] \in Nat /\ failed[x] \in Nat /\ Len(delivered[x]) \in Nat
      BY <1>2
    <3>3. CASE x = p
      <4>1. read'[x] = read[x] + 1 /\ failed'[x] = failed[x] + 1
        BY <1>1, <1>2, <1>5, <3>3
      <4>2. /\ read[x] = Len(delivered[x]) + failed[x] /\ delivered'[x] = delivered[x]
            /\ Channel!LastDelivered(x) \in Nat /\ Channel!LastDelivered(x) <= read[x]
        BY <1>5 DEF FaultyInv
      <4> QED BY <3>1, <3>2, <4>1, <4>2
    <3>4. CASE x # p
      BY <1>1, <1>2, <1>5, <3>1, <3>4 DEF FaultyInv
    <3> QED BY <3>3, <3>4
  <2>2. Channel!LossyNext
    BY <1>1, <1>5 DEF Channel!LossyNext, Channel!ReturnNothing
  <2> QED BY <1>5, <2>1, <2>2
<1> QED BY <1>1, <1>4, <1>5

LEMMA FaultyStep ==
  FaultyInv /\ [FaultyNext]_vars =>
      /\ FaultyInv'
      /\ [Channel!LossyNext]_(Channel!vars)
      /\ \A p \in Peer : failed[p] % CounterModulus # 0 => delivered'[p] = delivered[p]
<1> SUFFICES ASSUME FaultyInv, [FaultyNext]_vars
             PROVE  /\ FaultyInv'
                    /\ Channel!LossyNext \/ UNCHANGED Channel!vars
                    /\ \A p \in Peer : failed[p] % CounterModulus # 0
                                         => delivered'[p] = delivered[p]
  OBVIOUS
<1>1. CASE StartOutbound
  <2>1. SessionInv' /\ UNCHANGED <<wire, read, delivered, failed>>
    BY <1>1, StartOutboundStep DEF FaultyInv, StartOutbound
  <2> QED BY <2>1 DEF FaultyInv, Channel!vars, Channel!LastDelivered
<1>2. ASSUME NEW i \in 1 .. Len(wire[Bob]), StartInbound(i)
      PROVE  FaultyInv' /\ UNCHANGED Channel!vars /\ UNCHANGED delivered
  <2>1. SessionInv' /\ UNCHANGED <<wire, read, delivered, failed>>
    BY <1>2, StartInboundStep DEF FaultyInv, StartInbound
  <2> QED BY <2>1 DEF FaultyInv, Channel!vars, Channel!LastDelivered
<1>3. ASSUME NEW p \in Peer, Send(p)
      PROVE  FaultyInv' /\ Channel!LossyNext /\ UNCHANGED delivered
  <2>1. SessionInv' /\ UNCHANGED <<read, delivered, failed>>
    BY <1>3, SendStep DEF FaultyInv, Send
  <2>2. Channel!LossyNext
    BY <1>3, SendIsChannelSend, PeerFacts DEF FaultyInv, Channel!LossyNext
  <2> QED BY <2>1, <2>2 DEF FaultyInv, Channel!LastDelivered
<1>4. ASSUME NEW p \in Peer, NEW i \in 1 .. Len(wire[p]), Receive(p, i)
      PROVE  /\ FaultyInv' /\ Channel!LossyNext
             /\ \A x \in Peer : failed[x] % CounterModulus # 0 => delivered'[x] = delivered[x]
  <2>1. /\ FaultyInv' /\ Channel!LossyNext
        /\ failed[p] % CounterModulus # 0 => delivered'[p] = delivered[p]
    BY <1>4, FaultyReceive
  <2>2. \A x \in Peer : x # p => delivered'[x] = delivered[x]
    <3>1. \/ delivered' = [delivered EXCEPT ![p] = Append(@, i)]
          \/ UNCHANGED delivered
      BY <1>4, ReceiveEffect DEF FaultyInv
    <3>2. delivered \in [Peer -> Seq(Nat)]
      BY DEF FaultyInv, SessionInv, Typed
    <3> QED BY <3>1, <3>2
  <2> QED BY <2>1, <2>2
<1>5. CASE UNCHANGED vars
  <2>1. SessionInv'
    BY <1>5, SessionStutter DEF FaultyInv
  <2> QED BY <1>5, <2>1 DEF FaultyInv, vars, Channel!vars, Channel!LastDelivered
<1> QED BY <1>1, <1>2, <1>3, <1>4, <1>5 DEF FaultyNext

LEMMA FaultyInvariance == FaultySpec => []FaultyInv
<1>1. FaultyInv /\ [FaultyNext]_vars => FaultyInv'
  BY FaultyStep
<1> QED BY <1>1, FaultyInvInit, PTL DEF FaultySpec

\* Whatever is lost, repeated or reordered, the peers of one handshake never
\* meet an unknown key, and so Decrypt never takes a RatchetStep.
THEOREM FaultyNeverRatchets == FaultySpec => []NeverRatchets
<1>1. FaultyInv => NeverRatchets
  BY NoRatchetFollows DEF FaultyInv
<1> QED BY <1>1, FaultyInvariance, PTL

\* On such a network Decrypt returns plaintexts in order and none twice.
THEOREM FaultyImplementsLossyChannel == FaultySpec => ImplementsLossyChannel
<1>1. Init => Channel!Init
  BY ChannelInit
<1>2. FaultyInv /\ [FaultyNext]_vars => [Channel!LossyNext]_(Channel!vars)
  BY FaultyStep
<1> QED BY <1>1, <1>2, FaultyInvariance, PTL
        DEF FaultySpec, ImplementsLossyChannel, Channel!LossySpec

\* After a Decrypt that throws, the session returns nothing until the number of
\* failures is a multiple of the counter's range: the chain has moved and the
\* counter has not, and two counter values never share a nonce.
THEOREM FaultyFailureIsFinal == FaultySpec => FailureIsFinal
<1>1. FaultyInv /\ [FaultyNext]_vars =>
        [\A p \in Peer : failed[p] % CounterModulus # 0 => delivered'[p] = delivered[p]]_vars
  BY FaultyStep
<1> QED BY <1>1, FaultyInvariance, PTL DEF FaultySpec, FailureIsFinal
=============================================================================

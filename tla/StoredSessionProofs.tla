------------------------- MODULE StoredSessionProofs -------------------------
(***************************************************************************)
(* Proofs about StoredSession, for every byte width and every bound on     *)
(* messages, key pairs and restarts.                                       *)
(*                                                                         *)
(* Every key is traced to the label of the HKDF that derived it.  A        *)
(* sending chain, and so every message, comes from "X3DH" or "DR2"; a      *)
(* receiving chain from "X3DH" or "DR".  What opens a message is in both.  *)
(***************************************************************************)
EXTENDS StoredSession, SessionProofs

\* A session that the operations of CryptoEngine can produce.
Derived(s) == /\ s \in SessionState
              /\ DerivedBy(s.chain_key_send.base) \in {"X3DH", "DR2"}
              /\ DerivedBy(s.chain_key_recv.base) \in {"X3DH", "DR"}
              /\ DerivedBy(s.chain_key_recv.base) = "X3DH" => ~ Ratcheted(s)

\* A message that Encrypt can return in such a session.
Sendable(m) == m \in Message /\ DerivedBy(m.ct.key.base) \in {"X3DH", "DR2"}

-----------------------------------------------------------------------------
(***************************************************************************)
(* The operations of CryptoEngine.                                         *)
(***************************************************************************)

LEMMA SharedType == \A a, b \in Key : X25519(a, b) \in SUBSET Key
BY DEF X25519

LEMMA Labels ==
  ASSUME NEW ikm \in Seq(SUBSET Key), NEW salt \in Secret,
         NEW info \in {"X3DH", "DR", "DR2"}
  PROVE  HKDF(ikm, salt, info) \in Secret /\ DerivedBy(HKDF(ikm, salt, info)) = info
<1> DEFINE input == [info |-> info, ikm |-> ikm]
<1>1. input \in KdfInput /\ input.info = info
  BY DEF KdfInput
<1> HIDE DEF input
<1>2. salt \in Seq(KdfInput) /\ HKDF(ikm, salt, info) = Append(salt, input)
  BY DEF HKDF, Secret, input
<1>3. /\ Append(salt, input) \in Seq(KdfInput)
      /\ Append(salt, input)[Len(Append(salt, input))] = input
  BY <1>1, <1>2
<1>4. QED
  BY <1>1, <1>2, <1>3 DEF Secret, DerivedBy

LEMMA OptionalType ==
  ASSUME NEW eph \in Key, NEW k \in Key, NEW opk \in {<<>>, <<k>>}
  PROVE  OptionalDH(eph, opk) \in Seq(SUBSET Key)
<1>1. CASE opk = <<>>
  BY <1>1 DEF OptionalDH
<1>2. CASE opk = <<k>>
  <2>1. OptionalDH(eph, opk) = [i \in 1 .. 1 |-> X25519(eph, k)]
    BY <1>2 DEF OptionalDH
  <2>2. QED
    BY <2>1, SharedType
<1>3. QED
  BY <1>1, <1>2

LEMMA NewSessionDerived ==
  ASSUME NEW dhk \in Seq(SUBSET Key), NEW ours \in Key, NEW theirs \in Key
  PROVE  Derived(NewSession(HKDF(dhk, <<>>, "X3DH"), ours, theirs))
<1> DEFINE secret == HKDF(dhk, <<>>, "X3DH")
<1>1. <<>> \in Secret
  BY DEF Secret
<1>2. secret \in Secret /\ DerivedBy(secret) = "X3DH"
  BY <1>1, Labels
<1> HIDE DEF secret
<1>3. Derived(NewSession(secret, ours, theirs))
  BY <1>2, WrappedFacts
  DEF NewSession, FirstChainKey, Derived, Ratcheted, SessionState, ChainKey
<1>4. QED
  BY <1>3 DEF secret

LEMMA OutboundDerived ==
  ASSUME NEW p \in Peer, NEW oneTime \in OneTimeChoices(Other(p)), NEW eph \in Key
  PROVE  Derived(InitOutbound(IdentityKey(p), IdentityKey(Other(p)), SignedPreKey(Other(p)),
                              oneTime, eph))
<1>1. oneTime \in {<<>>, <<OneTimeKey(Other(p))>>}
  BY DEF OneTimeChoices
<1>2. OptionalDH(eph, oneTime) \in Seq(SUBSET Key)
  BY <1>1, OptionalType, KeyTypes, PeerFacts
<1>3. <<X25519(IdentityKey(p), SignedPreKey(Other(p))),
        X25519(eph, IdentityKey(Other(p))),
        X25519(eph, SignedPreKey(Other(p)))>> \o OptionalDH(eph, oneTime) \in Seq(SUBSET Key)
  BY <1>2, SharedType, KeyTypes, PeerFacts
<1>4. QED
  BY <1>3, NewSessionDerived, KeyTypes, PeerFacts DEF InitOutbound

LEMMA InboundDerived ==
  ASSUME NEW p \in Peer, NEW oneTime \in OneTimeChoices(p), NEW eph \in Key
  PROVE  Derived(InitInbound(IdentityKey(p), SignedPreKey(p), oneTime,
                             IdentityKey(Other(p)), eph))
<1>1. oneTime \in {<<>>, <<OneTimeKey(p)>>}
  BY DEF OneTimeChoices
<1>2. OptionalDH(eph, oneTime) \in Seq(SUBSET Key)
  BY <1>1, OptionalType, KeyTypes
<1>3. <<X25519(SignedPreKey(p), IdentityKey(Other(p))),
        X25519(IdentityKey(p), eph),
        X25519(SignedPreKey(p), eph)>> \o OptionalDH(eph, oneTime) \in Seq(SUBSET Key)
  BY <1>2, SharedType, KeyTypes, PeerFacts
<1>4. QED
  BY <1>3, NewSessionDerived, KeyTypes, PeerFacts DEF InitInbound

LEMMA RatchetDerived ==
  ASSUME NEW s \in SessionState, NEW theirs \in Key, NEW ours \in Key
  PROVE  Derived(RatchetStep(s, theirs, ours))
<1> DEFINE rk  == HKDF(<<X25519(s.our_dh, theirs)>>, s.root_key, "DR")
           rk2 == HKDF(<<X25519(ours, theirs)>>, rk, "DR2")
<1>1. /\ <<X25519(s.our_dh, theirs)>> \in Seq(SUBSET Key)
      /\ <<X25519(ours, theirs)>> \in Seq(SUBSET Key)
      /\ s.root_key \in Secret
  BY SharedType DEF SessionState
<1>2. rk \in Secret /\ DerivedBy(rk) = "DR"
  BY <1>1, Labels
<1> HIDE DEF rk
<1>3. rk2 \in Secret /\ DerivedBy(rk2) = "DR2"
  BY <1>1, <1>2, Labels
<1>4. RatchetStep(s, theirs, ours) =
        [root_key |-> rk2, chain_key_send |-> FirstChainKey(rk2),
         chain_key_recv |-> FirstChainKey(rk), our_dh |-> ours, their_dh_pub |-> theirs,
         pn |-> s.n_recv, n_send |-> 0, n_recv |-> 0]
  BY DEF RatchetStep, rk
<1> HIDE DEF rk2
<1>5. QED
  BY <1>2, <1>3, <1>4, WrappedFacts
  DEF FirstChainKey, Derived, Ratcheted, SessionState, ChainKey

LEMMA IncrementType == \A c \in Counter : Increment(c) \in Counter
BY CounterType, ModulusType DEF Increment, Counter

LEMMA ChainStep == \A ck \in ChainKey : KDF_CK(ck) \in ChainKey /\ KDF_CK(ck).base = ck.base
BY DEF KDF_CK, ChainKey

LEMMA EncryptDerived ==
  ASSUME NEW s, Derived(s), NEW number \in Nat
  PROVE  /\ Derived(AfterEncrypt(s))
         /\ Sendable(Encrypted(s, number)) /\ Encrypted(s, number).ct.body = number
<1>1. Derived(AfterEncrypt(s))
  <2>1. PICK ck \in ChainKey, c \in Counter :
            /\ AfterEncrypt(s) = [s EXCEPT !.chain_key_send = ck, !.n_send = c]
            /\ ck.base = s.chain_key_send.base
    BY ChainStep, IncrementType DEF AfterEncrypt, Derived, SessionState
  <2>2. QED
    BY <2>1 DEF Derived, Ratcheted, SessionState
<1>2. DeriveNonce(s.n_send) \in Nonce
  BY NonceType, ModulusType DEF Derived, SessionState, Counter
<1>3. QED
  BY <1>1, <1>2
  DEF Encrypted, AEAD_Encrypt, Sendable, Derived, SessionState, Message, Header, Ciphertext

\* A message opens only in a chain that the handshake derived.
LEMMA DecryptDerived ==
  ASSUME NEW s, Derived(s), NEW m, Sendable(m), NEW newPair \in Key
  PROVE  /\ Derived(AfterDecrypt(s, m, newPair))
         /\ Opens(s, m, newPair) => /\ DerivedBy(m.ct.key.base) = "X3DH"
                                    /\ ~ Ratcheted(AfterDecrypt(s, m, newPair))
<1> DEFINE t == Prepared(s, m, newPair)
<1>1. Derived(t)
  BY RatchetDerived DEF Prepared, Derived, Sendable, Message, Header
<1>2. AfterDecrypt(s, m, newPair) =
        [t EXCEPT !.chain_key_recv = KDF_CK(@),
                  !.n_recv = IF Opens(s, m, newPair) THEN Increment(@) ELSE @]
  BY DEF AfterDecrypt
<1>3. Opens(s, m, newPair) => t.chain_key_recv = m.ct.key
  BY DEF Opens, AEAD_Opens
<1> HIDE DEF t
<1>4. Derived(AfterDecrypt(s, m, newPair))
  <2>1. PICK ck \in ChainKey, c \in Counter :
            /\ AfterDecrypt(s, m, newPair) = [t EXCEPT !.chain_key_recv = ck, !.n_recv = c]
            /\ ck.base = t.chain_key_recv.base
    <3>1. t.chain_key_recv \in ChainKey /\ t.n_recv \in Counter
      BY <1>1 DEF Derived, SessionState
    <3>2. KDF_CK(t.chain_key_recv) \in ChainKey
          /\ KDF_CK(t.chain_key_recv).base = t.chain_key_recv.base
          /\ Increment(t.n_recv) \in Counter
      BY <3>1, ChainStep, IncrementType
    <3>3. QED
      BY <1>2, <3>1, <3>2
  <2>2. QED
    BY <1>1, <2>1 DEF Derived, Ratcheted, SessionState
<1>5. AfterDecrypt(s, m, newPair).root_key = t.root_key
  BY <1>1, <1>2 DEF Derived, SessionState
<1>6. QED
  BY <1>1, <1>3, <1>4, <1>5 DEF Derived, Sendable, Ratcheted

-----------------------------------------------------------------------------
(***************************************************************************)
(* The invariant: what either peer holds, in memory or in its table, what  *)
(* is on the way, and what was returned.                                   *)
(***************************************************************************)

Holdable(f) == /\ f \in [Peer -> SessionState \cup {NoSession}]
               /\ \A p \in Peer : f[p] # NoSession => Derived(f[p])

OnTheWay(p) == \A i \in 1 .. Len(wire[p]) :
                   Sendable(wire[p][i]) /\ wire[p][i].ct.body = i

Understood(p) == \A k \in 1 .. Len(delivered[p]) :
                     /\ delivered[p][k] \in 1 .. Len(wire[p])
                     /\ DerivedBy(wire[p][delivered[p][k]].ct.key.base) = "X3DH"

StoredInv == /\ Typed
             /\ Holdable(sess) /\ Holdable(store)
             /\ \A p \in Peer : OnTheWay(p) /\ Understood(p)

LEMMA StoredInvInit == StoredInit => StoredInv
<1> SUFFICES ASSUME StoredInit PROVE StoredInv
  OBVIOUS
<1>1. Typed
  BY DEF StoredInit, Init, Typed
<1>2. Holdable(sess) /\ Holdable(store)
  BY DEF StoredInit, Init, Holdable
<1>3. \A p \in Peer : OnTheWay(p) /\ Understood(p)
  BY DEF StoredInit, Init, OnTheWay, Understood
<1>4. QED
  BY <1>1, <1>2, <1>3 DEF StoredInv

\* A session that is new, and nothing else that the invariant speaks of.
LEMMA ReplaceKeeps ==
  ASSUME StoredInv, NEW p \in Peer, NEW s, s = NoSession \/ Derived(s),
         sess' = [sess EXCEPT ![p] = s], generated' \in [Peer -> Nat],
         UNCHANGED <<wire, read, delivered, failed, store>>
  PROVE  StoredInv'
<1>1. Typed'
  BY DEF StoredInv, Typed
<1>2. Holdable(sess)'
  BY DEF StoredInv, Holdable, Derived
<1>3. Holdable(store)'
  BY DEF StoredInv, Holdable
<1>4. \A q \in Peer : OnTheWay(q)' /\ Understood(q)'
  BY DEF StoredInv, OnTheWay, Understood
<1>5. QED
  BY <1>1, <1>2, <1>3, <1>4 DEF StoredInv

LEMMA OutboundKeeps ==
  ASSUME StoredInv, NEW p \in Peer, NEW oneTime \in OneTimeChoices(Other(p)),
         RestartOutbound(p, oneTime), UNCHANGED store
  PROVE  StoredInv'
<1>1. X25519Generate(p, generated[p]) \in Key /\ generated' \in [Peer -> Nat]
  BY DEF StoredInv, Typed, X25519Generate, Key, RestartOutbound
<1>2. QED
  BY <1>1, OutboundDerived, ReplaceKeeps DEF RestartOutbound

LEMMA InboundKeeps ==
  ASSUME StoredInv, NEW p \in Peer, NEW i \in 1 .. Len(wire[p]),
         NEW oneTime \in OneTimeChoices(p), RestartInbound(p, i, oneTime), UNCHANGED store
  PROVE  StoredInv'
<1>1. wire[p] \in Seq(Message) /\ generated' \in [Peer -> Nat]
  BY DEF StoredInv, Typed, RestartInbound
<1>2. wire[p][i] \in Message
  BY <1>1
<1>3. wire[p][i].header.dh_pub \in Key
  BY <1>2 DEF Message, Header
<1>4. QED
  BY <1>1, <1>3, InboundDerived, ReplaceKeeps DEF RestartInbound

LEMMA SendKeeps ==
  ASSUME StoredInv, NEW p \in Peer, Send(p), UNCHANGED store
  PROVE  StoredInv'
<1> DEFINE q == Other(p)
           number == Len(wire[q]) + 1
           m == Encrypted(sess[p], number)
<1>1. q \in Peer /\ wire[q] \in Seq(Message) /\ number \in Nat
  BY PeerFacts DEF StoredInv, Typed
<1>2. Derived(AfterEncrypt(sess[p])) /\ Sendable(m) /\ m.ct.body = number
  BY <1>1, EncryptDerived DEF Send, StoredInv, Holdable
<1>3. wire' = [wire EXCEPT ![q] = Append(@, m)] /\ sess' = [sess EXCEPT ![p] = AfterEncrypt(@)]
  BY DEF Send
<1> HIDE DEF m, q
<1>4. wire' \in [Peer -> Seq(Message)]
  BY <1>1, <1>2, <1>3 DEF StoredInv, Typed, Sendable
<1>5. ASSUME NEW r \in Peer
      PROVE  /\ Len(wire[r]) \in Nat /\ Len(wire'[r]) \in Nat /\ Len(wire[r]) <= Len(wire'[r])
             /\ \A i \in 1 .. Len(wire[r]) : wire'[r][i] = wire[r][i]
             /\ \A i \in 1 .. Len(wire'[r]) : \/ i \in 1 .. Len(wire[r])
                                              \/ wire'[r][i] = m /\ i = number
  <2>1. CASE r = q
    <3>1. wire'[r] = Append(wire[r], m) /\ wire[r] \in Seq(Message) /\ m \in Message
      BY <1>1, <1>2, <1>3, <2>1 DEF StoredInv, Typed, Sendable
    <3>2. QED
      BY <2>1, <3>1
  <2>2. CASE r # q
    <3>1. wire'[r] = wire[r] /\ wire[r] \in Seq(Message)
      BY <1>3, <2>2 DEF StoredInv, Typed
    <3>2. QED
      BY <3>1
  <2>3. QED
    BY <2>1, <2>2
<1>6. Typed'
  BY <1>4 DEF StoredInv, Typed, Send
<1>7. Holdable(sess)' /\ Holdable(store)'
  BY <1>2, <1>3 DEF StoredInv, Holdable, Derived
<1>8. ASSUME NEW r \in Peer PROVE OnTheWay(r)'
  <2> HIDE DEF number
  <2>1. OnTheWay(r)
    BY DEF StoredInv
  <2>2. QED
    BY <1>2, <1>5, <2>1 DEF OnTheWay
<1>9. ASSUME NEW r \in Peer PROVE Understood(r)'
  <2>1. Understood(r) /\ delivered' = delivered
    BY DEF StoredInv, Send
  <2>2. \A i \in 1 .. Len(wire[r]) : i \in 1 .. Len(wire'[r]) /\ wire'[r][i] = wire[r][i]
    BY <1>5
  <2>3. QED
    BY <2>1, <2>2 DEF Understood
<1>10. QED
  BY <1>6, <1>7, <1>8, <1>9 DEF StoredInv

\* What is returned was derived by the handshake, and so is the session left.
LEMMA ReceiveKeeps ==
  ASSUME StoredInv, NEW p \in Peer, NEW i \in 1 .. Len(wire[p]), Receive(p, i),
         UNCHANGED store
  PROVE  /\ StoredInv'
         /\ \A q \in Peer : delivered'[q] # delivered[q] => ~ Ratcheted(sess'[q])
<1> DEFINE m == wire[p][i]
           newPair == X25519Generate(p, generated[p])
<1>1. Sendable(m) /\ m.ct.body = i /\ newPair \in Key /\ i \in Nat
  BY DEF StoredInv, OnTheWay, Typed, X25519Generate, Key
<1>2. /\ Derived(AfterDecrypt(sess[p], m, newPair))
      /\ Opens(sess[p], m, newPair) =>
            /\ DerivedBy(m.ct.key.base) = "X3DH"
            /\ ~ Ratcheted(AfterDecrypt(sess[p], m, newPair))
  BY <1>1, DecryptDerived DEF Receive, StoredInv, Holdable
<1>3. /\ sess' = [sess EXCEPT ![p] = AfterDecrypt(@, m, newPair)]
      /\ generated' = [generated EXCEPT ![p] = IF Ratchets(sess[p], m) THEN @ + 1 ELSE @]
      /\ read' = [read EXCEPT ![p] = @ + 1]
      /\ failed' = [failed EXCEPT ![p] = @ + 1] \/ failed' = failed
      /\ UNCHANGED wire
      /\ \/ UNCHANGED delivered
         \/ Opens(sess[p], m, newPair) /\ delivered' = [delivered EXCEPT ![p] = Append(@, i)]
  BY <1>1 DEF Receive
<1> HIDE DEF newPair
<1>4. Typed'
  <2>1. generated' \in [Peer -> Nat] /\ read' \in [Peer -> Nat] /\ failed' \in [Peer -> Nat]
    <3>1. generated \in [Peer -> Nat] /\ read \in [Peer -> Nat] /\ failed \in [Peer -> Nat]
      BY DEF StoredInv, Typed
    <3>2. /\ generated' = [generated EXCEPT ![p] = IF Ratchets(sess[p], m) THEN @ + 1 ELSE @]
          /\ read' = [read EXCEPT ![p] = @ + 1]
          /\ failed' = [failed EXCEPT ![p] = @ + 1] \/ failed' = failed
      BY <1>3
    <3>3. generated' \in [Peer -> Nat]
      BY <3>1, <3>2
    <3>4. read' \in [Peer -> Nat]
      <4>1. read[p] + 1 \in Nat
        BY <3>1
      <4>2. read' = [read EXCEPT ![p] = read[p] + 1]
        BY <3>2
      <4>3. QED
        BY <3>1, <4>1, <4>2
    <3>5. failed' \in [Peer -> Nat]
      <4>1. failed[p] + 1 \in Nat
        BY <3>1
      <4>2. failed' = [failed EXCEPT ![p] = failed[p] + 1] \/ failed' = failed
        BY <3>2
      <4>3. QED
        BY <3>1, <4>1, <4>2
    <3>6. QED
      BY <3>3, <3>4, <3>5
  <2>2. delivered' \in [Peer -> Seq(Nat)]
    <3>1. delivered \in [Peer -> Seq(Nat)] /\ Append(delivered[p], i) \in Seq(Nat)
      BY <1>1 DEF StoredInv, Typed
    <3>2. QED
      BY <1>3, <3>1
  <2>3. QED
    BY <1>3, <2>1, <2>2 DEF StoredInv, Typed
<1>5. Holdable(sess)' /\ Holdable(store)'
  BY <1>2, <1>3 DEF StoredInv, Holdable, Derived
<1>6. \A q \in Peer : OnTheWay(q)'
  BY <1>3 DEF StoredInv, OnTheWay
<1>7. ASSUME NEW q \in Peer PROVE Understood(q)'
  <2>1. delivered[q] \in Seq(Nat) /\ Understood(q) /\ UNCHANGED wire
    BY <1>3 DEF StoredInv, Typed
  <2>2. CASE delivered'[q] = delivered[q]
    BY <2>1, <2>2 DEF Understood
  <2>3. CASE delivered'[q] # delivered[q]
    <3>1. q = p /\ delivered'[q] = Append(delivered[q], i) /\ DerivedBy(m.ct.key.base) = "X3DH"
      BY <1>2, <1>3, <2>3 DEF StoredInv, Typed
    <3>2. \A k \in 1 .. Len(delivered'[q]) : \/ /\ k \in 1 .. Len(delivered[q])
                                                 /\ delivered'[q][k] = delivered[q][k]
                                              \/ delivered'[q][k] = i
      BY <2>1, <3>1, <1>1
    <3>3. QED
      BY <2>1, <3>1, <3>2 DEF Understood
  <2>4. QED
    BY <2>2, <2>3
<1>8. \A q \in Peer : delivered'[q] # delivered[q] => ~ Ratcheted(sess'[q])
  BY <1>2, <1>3 DEF StoredInv, Typed, Holdable
<1>9. QED
  BY <1>4, <1>5, <1>6, <1>7, <1>8 DEF StoredInv

LEMMA StoredInvNext ==
  ASSUME StoredInv, StoredNext
  PROVE  /\ StoredInv'
         /\ \A q \in Peer : delivered'[q] # delivered[q] => ~ Ratcheted(sess'[q])
<1>1. ASSUME NEW p \in Peer, NEW oneTime \in OneTimeChoices(Other(p)),
             RestartOutbound(p, oneTime), UNCHANGED store
      PROVE  StoredInv' /\ UNCHANGED delivered
  BY <1>1, OutboundKeeps DEF RestartOutbound
<1>2. ASSUME NEW p \in Peer, NextUnread(p) <= Len(wire[p]), NEW oneTime \in OneTimeChoices(p),
             RestartInbound(p, NextUnread(p), oneTime), UNCHANGED store
      PROVE  StoredInv' /\ UNCHANGED delivered
  <2>1. NextUnread(p) \in 1 .. Len(wire[p])
    BY <1>2 DEF NextUnread, StoredInv, Typed
  <2>2. QED
    BY <1>2, <2>1, InboundKeeps DEF RestartInbound
<1>3. ASSUME NEW p \in Peer, Send(p), UNCHANGED store
      PROVE  StoredInv' /\ UNCHANGED delivered
  BY <1>3, SendKeeps DEF Send
<1>4. ASSUME NEW p \in Peer, FifoReceive(p), UNCHANGED store
      PROVE  /\ StoredInv'
             /\ \A q \in Peer : delivered'[q] # delivered[q] => ~ Ratcheted(sess'[q])
  <2>1. NextUnread(p) \in 1 .. Len(wire[p])
    BY <1>4 DEF FifoReceive, NextUnread, StoredInv, Typed
  <2>2. QED
    BY <1>4, <2>1, ReceiveKeeps DEF FifoReceive
<1>5. ASSUME NEW p \in Keeper, SaveSession(p)
      PROVE  StoredInv' /\ UNCHANGED delivered
  <2>1. p \in Peer /\ UNCHANGED vars /\ store' = [store EXCEPT ![p] = sess[p]]
    BY <1>5, StoreAssumption DEF SaveSession
  <2>2. Typed' /\ Holdable(sess)' /\ \A q \in Peer : OnTheWay(q)' /\ Understood(q)'
    BY <2>1 DEF StoredInv, vars, Typed, Holdable, OnTheWay, Understood
  <2>3. Holdable(store)'
    BY <2>1 DEF StoredInv, Holdable
  <2>4. QED
    BY <2>1, <2>2, <2>3 DEF StoredInv, vars
<1>6. ASSUME NEW p \in Keeper, LoadSession(p)
      PROVE  StoredInv' /\ UNCHANGED delivered
  <2>1. p \in Peer /\ (store[p] = NoSession \/ Derived(store[p])) /\ generated' \in [Peer -> Nat]
    BY <1>6, StoreAssumption DEF LoadSession, StoredInv, Holdable, Typed
  <2>2. QED
    BY <1>6, <2>1, ReplaceKeeps DEF LoadSession
<1>7. QED
  BY <1>1, <1>2, <1>3, <1>4, <1>5, <1>6 DEF StoredNext, InMemory, RestartNext

LEMMA StoredInvCorrect == StoredSpec => []StoredInv
<1>1. StoredInv /\ [StoredNext]_storedVars => StoredInv'
  <2> SUFFICES ASSUME StoredInv, UNCHANGED storedVars PROVE StoredInv'
    BY StoredInvNext
  <2>1. QED
    BY DEF storedVars, stored, vars, StoredInv, Typed, Holdable, OnTheWay, Understood
<1>2. QED
  BY <1>1, StoredInvInit, PTL DEF StoredSpec

(***************************************************************************)
(* RatchetStep (CryptoEngine.cpp, 173-190) labels its two chains so that   *)
(* what is sent after it is opened by no session whatever.                 *)
(***************************************************************************)
THEOREM RatchetedStaysUnread == StoredSpec => []RatchetedIsNeverUnderstood
<1>1. StoredInv => RatchetedIsNeverUnderstood
  BY DEF StoredInv, Understood, RatchetedIsNeverUnderstood
<1>2. QED
  BY <1>1, StoredInvCorrect, PTL

(***************************************************************************)
(* Decrypt returns no plaintext in a session that has taken a RatchetStep, *)
(* in that call or before.                                                 *)
(***************************************************************************)
THEOREM RatchetedStaysDeaf == StoredSpec => RatchetedIsDeaf
<1>1. StoredInv /\ [StoredNext]_storedVars =>
        [\A p \in Peer : delivered'[p] # delivered[p] => ~ Ratcheted(sess'[p])]_vars
  BY StoredInvNext DEF storedVars
<1>2. QED
  BY <1>1, StoredInvCorrect, PTL DEF StoredSpec, RatchetedIsDeaf

-----------------------------------------------------------------------------
(***************************************************************************)
(* Message keys are used once.  A generated key pair is mixed into the     *)
(* last HKDF of the one sending chain it advertises, so equal message keys *)
(* come with equal pairs; and a session that was not rolled back is ahead  *)
(* of every message sealed with its pair.                                  *)
(***************************************************************************)

Pair(p) == {e \in Key : e.kind = "ephemeral" /\ e.owner = p}

Among(e, ikm) == \E j \in 1 .. Len(ikm) : e \in ikm[j]

Mixed(e, secret) == Among(e, secret[Len(secret)].ikm)

\* Of the pairs of p, secret was derived from k last, or from none if k is not one.
Marked(p, k, secret) == \A e \in Pair(p) : Mixed(e, secret) <=> e = k

\* p's key in a session or a header, with the base of the chain it goes with.
Advertises(p, k, secret) == /\ k \in Key /\ k.owner = p
                            /\ k \in Pair(p) => k.n < generated[p]
                            /\ Marked(p, k, secret)

Holds(p, s) == s # NoSession => Advertises(p, s.our_dh, s.chain_key_send.base)

Sent(p) == wire[Other(p)]

Ahead(p) == sess[p] # NoSession =>
    \A i \in 1 .. Len(Sent(p)) :
        Sent(p)[i].header.dh_pub = sess[p].our_dh /\ sess[p].our_dh \in Pair(p)
        => Sent(p)[i].ct.key.n < sess[p].chain_key_send.n

Once(p) == \A i, j \in 1 .. Len(Sent(p)) :
    /\ Sent(p)[i].header.dh_pub = Sent(p)[j].header.dh_pub
    /\ Sent(p)[i].header.dh_pub \in Pair(p)
    /\ Sent(p)[i].ct.key.n = Sent(p)[j].ct.key.n
    => i = j

Flags == unsaved \in [Peer -> BOOLEAN] /\ rolledBack \in [Peer -> BOOLEAN]

PairInv == \A p \in Peer :
    /\ Holds(p, sess[p]) /\ Holds(p, store[p])
    /\ \A i \in 1 .. Len(Sent(p)) :
           Advertises(p, Sent(p)[i].header.dh_pub, Sent(p)[i].ct.key.base)
    /\ unsaved[p] \/ store[p] = sess[p]
    /\ rolledBack[p] \/ (Ahead(p) /\ Once(p))

LEMMA LastInput ==
  ASSUME NEW ikm \in Seq(SUBSET Key), NEW salt \in Secret,
         NEW info \in {"X3DH", "DR", "DR2"}, NEW e
  PROVE  Mixed(e, HKDF(ikm, salt, info)) <=> Among(e, ikm)
<1> DEFINE input == [info |-> info, ikm |-> ikm]
<1>1. input \in KdfInput /\ input.ikm = ikm
  BY DEF KdfInput
<1> HIDE DEF input
<1>2. salt \in Seq(KdfInput) /\ HKDF(ikm, salt, info) = Append(salt, input)
  BY DEF HKDF, Secret, input
<1>3. Append(salt, input)[Len(Append(salt, input))] = input
  BY <1>1, <1>2
<1>4. QED
  BY <1>1, <1>2, <1>3 DEF Mixed

\* The inputs of a handshake, with or without the fourth.
LEMMA HandshakeInputs ==
  ASSUME NEW a \in SUBSET Key, NEW b \in SUBSET Key, NEW c \in SUBSET Key,
         NEW eph \in Key, NEW k \in Key, NEW opk, opk = <<>> \/ opk = <<k>>, NEW ikm,
         ikm = <<a, b, c>> \o OptionalDH(eph, opk)
  PROVE  /\ ikm \in Seq(SUBSET Key) /\ Len(ikm) >= 3 /\ ikm[2] = b
         /\ \A j \in 1 .. Len(ikm) : ikm[j] \in {a, b, c, X25519(eph, k)}
<1>1. CASE opk = <<>>
  <2>1. OptionalDH(eph, opk) = <<>>
    BY <1>1 DEF OptionalDH
  <2>2. /\ ikm \in Seq(SUBSET Key) /\ Len(ikm) = 3
        /\ ikm[1] = a /\ ikm[2] = b /\ ikm[3] = c
    BY <2>1
  <2>3. QED
    BY <2>2
<1>2. CASE opk = <<k>>
  <2> DEFINE d == X25519(eph, k)
  <2>1. d \in SUBSET Key
    BY SharedType
  <2>2. OptionalDH(eph, opk) = <<d>>
    <3>1. OptionalDH(eph, opk) = [i \in 1 .. 1 |-> d]
      BY <1>2 DEF OptionalDH
    <3> HIDE DEF d
    <3>2. QED
      BY <3>1
  <2> HIDE DEF d
  <2>3. /\ ikm \in Seq(SUBSET Key) /\ Len(ikm) = 4
        /\ ikm[1] = a /\ ikm[2] = b /\ ikm[3] = c /\ ikm[4] = d
    BY <2>1, <2>2
  <2>4. QED
    BY <2>3 DEF d
<1>3. QED
  BY <1>1, <1>2

LEMMA OutboundMarked ==
  ASSUME NEW p \in Peer, NEW oneTime \in OneTimeChoices(Other(p)), NEW eph \in Pair(p)
  PROVE  LET s == InitOutbound(IdentityKey(p), IdentityKey(Other(p)),
                               SignedPreKey(Other(p)), oneTime, eph)
         IN  s.our_dh = eph /\ Marked(p, eph, s.chain_key_send.base)
<1> DEFINE q == Other(p)
           a == X25519(IdentityKey(p), SignedPreKey(q))
           b == X25519(eph, IdentityKey(q))
           c == X25519(eph, SignedPreKey(q))
           ikm == <<a, b, c>> \o OptionalDH(eph, oneTime)
           s == InitOutbound(IdentityKey(p), IdentityKey(q), SignedPreKey(q), oneTime, eph)
<1>1. /\ oneTime = <<>> \/ oneTime = <<OneTimeKey(q)>>
      /\ q \in Peer /\ OneTimeKey(q) \in Key /\ eph \in Key /\ <<>> \in Secret
      /\ a \in SUBSET Key /\ b \in SUBSET Key /\ c \in SUBSET Key
  BY SharedType, PeerFacts, KeyTypes DEF OneTimeChoices, Pair, Secret
<1>2. s.our_dh = eph /\ s.chain_key_send.base = HKDF(ikm, <<>>, "X3DH")
  BY DEF InitOutbound, NewSession, FirstChainKey
<1>3. ASSUME NEW e \in Pair(p)
      PROVE  Mixed(e, HKDF(ikm, <<>>, "X3DH")) <=> e = eph
  <2>1. e \notin a /\ (e \in b <=> e = eph) /\ (e \in c <=> e = eph) /\ e # OneTimeKey(q)
    BY DEF Pair, X25519, IdentityKey, SignedPreKey, OneTimeKey
  <2> HIDE DEF a, b, c, q
  <2>2. /\ ikm \in Seq(SUBSET Key) /\ Len(ikm) >= 3 /\ ikm[2] = b
        /\ \A j \in 1 .. Len(ikm) : ikm[j] \in {a, b, c, X25519(eph, OneTimeKey(q))}
    BY <1>1, HandshakeInputs
  <2> HIDE DEF ikm
  <2>3. Mixed(e, HKDF(ikm, <<>>, "X3DH")) <=> Among(e, ikm)
    BY <1>1, <2>2, LastInput
  <2>4. QED
    BY <2>1, <2>2, <2>3 DEF Among, X25519
<1>4. QED
  BY <1>2, <1>3 DEF Marked

LEMMA InboundMarked ==
  ASSUME NEW p \in Peer, NEW oneTime \in OneTimeChoices(p), NEW eph \in Key,
         eph.owner = Other(p)
  PROVE  LET s == InitInbound(IdentityKey(p), SignedPreKey(p), oneTime,
                              IdentityKey(Other(p)), eph)
         IN  s.our_dh = SignedPreKey(p) /\ Marked(p, SignedPreKey(p), s.chain_key_send.base)
<1> DEFINE a == X25519(SignedPreKey(p), IdentityKey(Other(p)))
           b == X25519(IdentityKey(p), eph)
           c == X25519(SignedPreKey(p), eph)
           ikm == <<a, b, c>> \o OptionalDH(eph, oneTime)
           s == InitInbound(IdentityKey(p), SignedPreKey(p), oneTime, IdentityKey(Other(p)), eph)
<1>1. /\ oneTime = <<>> \/ oneTime = <<OneTimeKey(p)>>
      /\ OneTimeKey(p) \in Key /\ <<>> \in Secret
      /\ a \in SUBSET Key /\ b \in SUBSET Key /\ c \in SUBSET Key
  BY SharedType, PeerFacts, KeyTypes DEF OneTimeChoices, Secret
<1>2. s.our_dh = SignedPreKey(p) /\ s.chain_key_send.base = HKDF(ikm, <<>>, "X3DH")
  BY DEF InitInbound, NewSession, FirstChainKey
<1>3. ASSUME NEW e \in Pair(p)
      PROVE  ~ Mixed(e, HKDF(ikm, <<>>, "X3DH")) /\ e # SignedPreKey(p)
  <2>1. e # SignedPreKey(p) /\ e # OneTimeKey(p) /\ e # eph
    BY PeerFacts DEF Pair, SignedPreKey, OneTimeKey
  <2>2. e \notin a /\ e \notin b /\ e \notin c
    BY <2>1 DEF Pair, X25519, IdentityKey, SignedPreKey
  <2> HIDE DEF a, b, c
  <2>3. /\ ikm \in Seq(SUBSET Key) /\ Len(ikm) >= 3 /\ ikm[2] = b
        /\ \A j \in 1 .. Len(ikm) : ikm[j] \in {a, b, c, X25519(eph, OneTimeKey(p))}
    BY <1>1, HandshakeInputs
  <2> HIDE DEF ikm
  <2>4. Mixed(e, HKDF(ikm, <<>>, "X3DH")) <=> Among(e, ikm)
    BY <1>1, <2>3, LastInput
  <2>5. QED
    BY <2>1, <2>2, <2>3, <2>4 DEF Among, X25519
<1>4. QED
  BY <1>2, <1>3 DEF Marked

LEMMA RatchetMarked ==
  ASSUME NEW p \in Peer, NEW s \in SessionState, NEW theirs \in Key,
         theirs.owner = Other(p), NEW ours \in Pair(p)
  PROVE  /\ RatchetStep(s, theirs, ours).our_dh = ours
         /\ Marked(p, ours, RatchetStep(s, theirs, ours).chain_key_send.base)
<1> DEFINE rk  == HKDF(<<X25519(s.our_dh, theirs)>>, s.root_key, "DR")
           ikm == <<X25519(ours, theirs)>>
           t   == RatchetStep(s, theirs, ours)
<1>1. t.our_dh = ours /\ t.chain_key_send.base = HKDF(ikm, rk, "DR2")
  BY DEF RatchetStep, FirstChainKey
<1>2. /\ <<X25519(s.our_dh, theirs)>> \in Seq(SUBSET Key)
      /\ ikm \in Seq(SUBSET Key) /\ s.root_key \in Secret
  BY SharedType DEF SessionState, Pair
<1>3. rk \in Secret
  BY <1>2, Labels
<1>4. ASSUME NEW e \in Pair(p)
      PROVE  Among(e, ikm) <=> e = ours
  BY PeerFacts DEF Among, X25519, Pair
<1> HIDE DEF rk, ikm
<1>5. ASSUME NEW e \in Pair(p)
      PROVE  Mixed(e, HKDF(ikm, rk, "DR2")) <=> e = ours
  BY <1>2, <1>3, <1>4, LastInput
<1>6. QED
  BY <1>1, <1>5 DEF Marked

LEMMA PairInvInit == StoredInit => PairInv
<1> SUFFICES ASSUME StoredInit, NEW p \in Peer
             PROVE  /\ sess[p] = NoSession /\ store[p] = NoSession
                    /\ Sent(p) = <<>>
                    /\ ~ unsaved[p] /\ ~ rolledBack[p]
  BY DEF PairInv, Holds, Ahead, Once
<1>1. QED
  BY PeerFacts DEF StoredInit, Init, Sent

\* A step gives p the session s, with a new pair, the pair it had, or none.
LEMMA RekeyKeepsPairs ==
  ASSUME StoredInv, PairInv, NEW p \in Peer, NEW s, Derived(s),
         sess' = [sess EXCEPT ![p] = s],
         \A q \in Peer : generated'[q] \in Nat /\ generated[q] <= generated'[q],
         s.our_dh \in Key /\ s.our_dh.owner = p,
         s.our_dh \in Pair(p) => s.our_dh.n < generated'[p],
         Marked(p, s.our_dh, s.chain_key_send.base),
         s.our_dh \in Pair(p) =>
            \/ s.our_dh.n >= generated[p]
            \/ /\ sess[p] # NoSession
               /\ s.our_dh = sess[p].our_dh /\ s.chain_key_send = sess[p].chain_key_send,
         \A q \in Peer : ~ unsaved'[q] => ~ unsaved[q] /\ sess'[q] = sess[q],
         UNCHANGED <<wire, store, rolledBack>>
  PROVE  PairInv'
<1> SUFFICES ASSUME NEW q \in Peer
             PROVE  /\ Holds(q, sess[q])' /\ Holds(q, store[q])'
                    /\ \A i \in 1 .. Len(Sent(q)) :
                           Advertises(q, Sent(q)[i].header.dh_pub, Sent(q)[i].ct.key.base)'
                    /\ unsaved'[q] \/ store'[q] = sess'[q]
                    /\ rolledBack'[q] \/ (Ahead(q)' /\ Once(q)')
  BY DEF PairInv, Sent
<1>1. generated[q] \in Nat /\ generated'[q] \in Nat /\ generated[q] <= generated'[q]
  BY DEF StoredInv, Typed
<1>2. ASSUME NEW k, NEW base, Advertises(q, k, base)
      PROVE  /\ k \in Key /\ k.owner = q
             /\ k \in Pair(q) => k.n < generated'[q]
             /\ Marked(q, k, base)
  BY <1>1, <1>2 DEF Advertises, Key
<1>3. Holds(q, store[q])'
  BY <1>2 DEF PairInv, Holds, Advertises
<1>4. sess'[q] = IF q = p THEN s ELSE sess[q]
  BY DEF StoredInv, Holdable
<1>5. Holds(q, sess[q])'
  BY <1>2, <1>4 DEF PairInv, Holds, Advertises
<1>6. \A i \in 1 .. Len(Sent(q)) :
          Advertises(q, Sent(q)[i].header.dh_pub, Sent(q)[i].ct.key.base)'
  BY <1>2 DEF PairInv, Advertises, Sent
<1>7. unsaved'[q] \/ store'[q] = sess'[q]
  BY DEF PairInv
<1>8. Once(q) => Once(q)'
  BY DEF Once, Sent
<1>9. Ahead(q) => Ahead(q)'
  <2>1. CASE q # p
    BY <1>4, <2>1 DEF Ahead, Sent
  <2>2. CASE q = p
    <3>1. ASSUME s.our_dh \in Pair(p), s.our_dh.n >= generated[p],
                 NEW i \in 1 .. Len(Sent(p)), Sent(p)[i].header.dh_pub = s.our_dh
          PROVE  FALSE
      BY <3>1, <1>1, <2>2 DEF PairInv, Advertises, Key
    <3>2. QED
      BY <1>4, <2>2, <3>1 DEF Ahead, Sent
  <2>3. QED
    BY <2>1, <2>2
<1>10. QED
  BY <1>3, <1>5, <1>6, <1>7, <1>8, <1>9 DEF PairInv

\* What p's peer or p itself signed a message with is not a pair of the other.
LEMMA HeaderOwner ==
  ASSUME StoredInv, PairInv, NEW p \in Peer, NEW i \in 1 .. Len(wire[p])
  PROVE  wire[p][i].header.dh_pub \in Key /\ wire[p][i].header.dh_pub.owner = Other(p)
BY PeerFacts DEF PairInv, Sent, Advertises

LEMMA Unsaved ==
  ASSUME InMemory
  PROVE  /\ \A q \in Peer : ~ unsaved'[q] => ~ unsaved[q] /\ sess'[q] = sess[q]
         /\ UNCHANGED <<store, rolledBack>>
BY Zenon DEF InMemory

LEMMA OutboundKeepsPairs ==
  ASSUME StoredInv, PairInv, InMemory, NEW p \in Peer, NEW oneTime \in OneTimeChoices(Other(p)),
         RestartOutbound(p, oneTime)
  PROVE  PairInv'
<1> DEFINE e == X25519Generate(p, generated[p])
           s == InitOutbound(IdentityKey(p), IdentityKey(Other(p)), SignedPreKey(Other(p)),
                             oneTime, e)
<1>1. e \in Pair(p) /\ e \in Key /\ e.owner = p /\ e.n = generated[p]
  BY DEF StoredInv, Typed, X25519Generate, Key, Pair
<1>2. Derived(s) /\ s.our_dh = e /\ Marked(p, e, s.chain_key_send.base)
  BY <1>1, OutboundDerived, OutboundMarked
<1> HIDE DEF e
<1>3. /\ sess' = [sess EXCEPT ![p] = s] /\ UNCHANGED wire
      /\ generated' = [generated EXCEPT ![p] = @ + 1]
  BY DEF RestartOutbound, e
<1> HIDE DEF s
<1>4. /\ \A q \in Peer : generated'[q] \in Nat /\ generated[q] <= generated'[q]
      /\ generated'[p] = generated[p] + 1 /\ generated[p] \in Nat
  BY <1>3 DEF StoredInv, Typed
<1>5. /\ s.our_dh \in Key /\ s.our_dh.owner = p
      /\ s.our_dh.n < generated'[p] /\ s.our_dh.n >= generated[p]
      /\ Marked(p, s.our_dh, s.chain_key_send.base)
  BY <1>1, <1>2, <1>4
<1>6. QED
  BY <1>2, <1>3, <1>4, <1>5, Unsaved, RekeyKeepsPairs

LEMMA InboundKeepsPairs ==
  ASSUME StoredInv, PairInv, InMemory, NEW p \in Peer, NEW i \in 1 .. Len(wire[p]),
         NEW oneTime \in OneTimeChoices(p), RestartInbound(p, i, oneTime)
  PROVE  PairInv'
<1> DEFINE e == wire[p][i].header.dh_pub
           s == InitInbound(IdentityKey(p), SignedPreKey(p), oneTime, IdentityKey(Other(p)), e)
<1>1. e \in Key /\ e.owner = Other(p)
  BY HeaderOwner
<1>2. Derived(s) /\ s.our_dh = SignedPreKey(p) /\ Marked(p, SignedPreKey(p), s.chain_key_send.base)
  BY <1>1, InboundDerived, InboundMarked
<1>3. SignedPreKey(p) \in Key /\ SignedPreKey(p).owner = p /\ SignedPreKey(p) \notin Pair(p)
  BY KeyTypes DEF SignedPreKey, Pair
<1> HIDE DEF e
<1>4. sess' = [sess EXCEPT ![p] = s] /\ UNCHANGED <<wire, generated>>
  BY DEF RestartInbound, e
<1> HIDE DEF s
<1>5. \A q \in Peer : generated'[q] \in Nat /\ generated[q] <= generated'[q]
  BY <1>4 DEF StoredInv, Typed
<1>6. QED
  BY <1>2, <1>3, <1>4, <1>5, Unsaved, RekeyKeepsPairs

\* Decrypt leaves the sending half alone, or takes a new pair.
LEMMA ReceiveKeepsPairs ==
  ASSUME StoredInv, PairInv, InMemory, NEW p \in Peer, NEW i \in 1 .. Len(wire[p]),
         Receive(p, i)
  PROVE  PairInv'
<1> DEFINE m == wire[p][i]
           e == X25519Generate(p, generated[p])
           t == Prepared(sess[p], m, e)
           s == AfterDecrypt(sess[p], m, e)
<1>1. e \in Pair(p) /\ e \in Key /\ e.owner = p /\ e.n = generated[p]
  BY DEF StoredInv, Typed, X25519Generate, Key, Pair
<1>2. /\ Sendable(m) /\ m.header.dh_pub \in Key /\ m.header.dh_pub.owner = Other(p)
      /\ sess[p] # NoSession /\ Derived(sess[p])
  BY HeaderOwner DEF StoredInv, OnTheWay, Receive, Holdable
<1>3. Derived(s)
  BY <1>1, <1>2, DecryptDerived
<1>4. s.our_dh = t.our_dh /\ s.chain_key_send = t.chain_key_send
  <2>1. t \in SessionState
    BY <1>1, <1>2, RatchetDerived DEF Prepared, Derived
  <2> HIDE DEF t
  <2>2. \E ck, c : s = [t EXCEPT !.chain_key_recv = ck, !.n_recv = c]
    BY DEF AfterDecrypt, t
  <2>3. QED
    BY <2>1, <2>2 DEF SessionState
<1>5. CASE Ratchets(sess[p], m)
  <2>1. t = RatchetStep(sess[p], m.header.dh_pub, e)
    BY <1>5 DEF Prepared
  <2>2. s.our_dh = e /\ Marked(p, e, s.chain_key_send.base)
    BY <1>1, <1>2, <1>4, <2>1, RatchetMarked DEF Derived
  <2>3. /\ sess' = [sess EXCEPT ![p] = s] /\ UNCHANGED wire
        /\ generated' = [generated EXCEPT ![p] = @ + 1]
    BY <1>5 DEF Receive
  <2> HIDE DEF s, e, m
  <2>4. /\ \A q \in Peer : generated'[q] \in Nat /\ generated[q] <= generated'[q]
        /\ generated'[p] = generated[p] + 1 /\ generated[p] \in Nat
    BY <2>3 DEF StoredInv, Typed
  <2>5. /\ s.our_dh \in Key /\ s.our_dh.owner = p
        /\ s.our_dh.n < generated'[p] /\ s.our_dh.n >= generated[p]
        /\ Marked(p, s.our_dh, s.chain_key_send.base)
    BY <1>1, <2>2, <2>4
  <2>6. QED
    BY <1>3, <2>3, <2>4, <2>5, Unsaved, RekeyKeepsPairs
<1>6. CASE ~ Ratchets(sess[p], m)
  <2>1. s.our_dh = sess[p].our_dh /\ s.chain_key_send = sess[p].chain_key_send
    BY <1>4, <1>6 DEF Prepared
  <2>2. sess' = [sess EXCEPT ![p] = s] /\ UNCHANGED wire /\ generated' = generated
    BY <1>6 DEF Receive, StoredInv, Typed
  <2> HIDE DEF s, e, m
  <2>3. \A q \in Peer : generated'[q] \in Nat /\ generated[q] <= generated'[q]
    BY <2>2 DEF StoredInv, Typed
  <2>4. /\ s.our_dh \in Key /\ s.our_dh.owner = p
        /\ s.our_dh \in Pair(p) => s.our_dh.n < generated'[p]
        /\ Marked(p, s.our_dh, s.chain_key_send.base)
    BY <1>2, <2>1, <2>2 DEF PairInv, Holds, Advertises
  <2>5. QED
    BY <1>2, <1>3, <2>1, <2>2, <2>3, <2>4, Unsaved, RekeyKeepsPairs
<1>7. QED
  BY <1>5, <1>6

LEMMA SendKeepsPairs ==
  ASSUME StoredInv, PairInv, InMemory, NEW p \in Peer, Send(p)
  PROVE  PairInv'
<1> DEFINE s == sess[p]
           m == Encrypted(s, Len(Sent(p)) + 1)
           t == AfterEncrypt(s)
<1>1. s # NoSession /\ Derived(s) /\ Advertises(p, s.our_dh, s.chain_key_send.base)
  BY DEF Send, StoredInv, Holdable, PairInv, Holds
<1>2. /\ t.our_dh = s.our_dh /\ t.chain_key_send.base = s.chain_key_send.base
      /\ t.chain_key_send.n = s.chain_key_send.n + 1 /\ s.chain_key_send.n \in Nat
  BY <1>1 DEF AfterEncrypt, KDF_CK, Derived, SessionState, ChainKey
<1>3. m.header.dh_pub = s.our_dh /\ m.ct.key = s.chain_key_send
  BY DEF Encrypted, AEAD_Encrypt
<1>4. /\ sess' = [sess EXCEPT ![p] = t] /\ UNCHANGED generated
      /\ wire' = [wire EXCEPT ![Other(p)] = Append(@, m)]
  BY DEF Send, Sent
<1> HIDE DEF m, t
<1>5. ASSUME NEW q \in Peer
      PROVE  /\ Len(Sent(q)) \in Nat
             /\ \A i \in 1 .. Len(Sent(q)) : Sent(q)[i] \in Message
             /\ q # p => Sent(q)' = Sent(q)
             /\ q = p => /\ Len(Sent(q)') = Len(Sent(q)) + 1
                         /\ \A i \in 1 .. Len(Sent(q)) : Sent(q)'[i] = Sent(q)[i]
                         /\ Sent(q)'[Len(Sent(q)) + 1] = m
  <2>1. Sent(q) \in Seq(Message) /\ Other(p) \in Peer /\ (q # p => Other(q) # Other(p))
    BY PeerFacts DEF StoredInv, Typed, Sent
  <2>2. Sent(q)' = IF q = p THEN Append(Sent(q), m) ELSE Sent(q)
    BY <1>4, <2>1, PeerFacts DEF StoredInv, Typed, Sent
  <2>3. QED
    BY <2>1, <2>2
<1>6. SUFFICES ASSUME NEW q \in Peer
               PROVE  /\ Holds(q, sess[q])' /\ Holds(q, store[q])'
                      /\ \A i \in 1 .. Len(Sent(q)') :
                             Advertises(q, Sent(q)[i].header.dh_pub, Sent(q)[i].ct.key.base)'
                      /\ unsaved'[q] \/ store'[q] = sess'[q]
                      /\ rolledBack'[q] \/ (Ahead(q)' /\ Once(q)')
  BY DEF PairInv
<1>7. sess'[q] = IF q = p THEN t ELSE sess[q]
  BY <1>4 DEF StoredInv, Holdable
<1>8. Holds(q, sess[q])' /\ Holds(q, store[q])'
  BY <1>1, <1>2, <1>4, <1>7, Unsaved DEF PairInv, Holds, Advertises
<1>9. unsaved'[q] \/ store'[q] = sess'[q]
  BY Unsaved DEF PairInv
<1>10. CASE q # p
  BY <1>4, <1>5, <1>7, <1>8, <1>9, <1>10, Unsaved DEF PairInv, Advertises, Ahead, Once
<1>11. CASE q = p
  <2>1. ASSUME NEW i \in 1 .. Len(Sent(q)')
        PROVE  Advertises(q, Sent(q)[i].header.dh_pub, Sent(q)[i].ct.key.base)'
    BY <1>1, <1>3, <1>4, <1>5, <1>11 DEF PairInv, Advertises
  <2>2. \A i \in 1 .. Len(Sent(q)) : Sent(q)[i].ct.key.n \in Nat
    BY <1>5 DEF Message, Ciphertext, ChainKey
  <2>3. ASSUME NEW i \in 1 .. Len(Sent(q)')
        PROVE  \/ i \in 1 .. Len(Sent(q)) /\ Sent(q)'[i] = Sent(q)[i]
               \/ /\ i = Len(Sent(q)) + 1
                  /\ Sent(q)'[i].header.dh_pub = s.our_dh
                  /\ Sent(q)'[i].ct.key.n = s.chain_key_send.n
    BY <1>3, <1>5, <1>11
  <2>4. ASSUME Ahead(q) PROVE Ahead(q)'
    <3>1. SUFFICES ASSUME NEW i \in 1 .. Len(Sent(q)'),
                          Sent(q)'[i].header.dh_pub = s.our_dh, s.our_dh \in Pair(q)
                   PROVE  Sent(q)'[i].ct.key.n < s.chain_key_send.n + 1
      BY <1>2, <1>7, <1>11 DEF Ahead
    <3>2. QED
      <4>1. CASE i \in 1 .. Len(Sent(q)) /\ Sent(q)'[i] = Sent(q)[i]
        BY <1>1, <1>2, <1>11, <2>2, <2>4, <3>1, <4>1 DEF Ahead
      <4>2. CASE Sent(q)'[i].ct.key.n = s.chain_key_send.n
        BY <1>2, <4>2
      <4>3. QED
        BY <2>3, <4>1, <4>2
  <2>5. ASSUME Ahead(q), Once(q) PROVE Once(q)'
    <3>1. SUFFICES ASSUME NEW i \in 1 .. Len(Sent(q)'), NEW j \in 1 .. Len(Sent(q)'),
                          Sent(q)'[i].header.dh_pub = Sent(q)'[j].header.dh_pub,
                          Sent(q)'[i].header.dh_pub \in Pair(q),
                          Sent(q)'[i].ct.key.n = Sent(q)'[j].ct.key.n
                   PROVE  i = j
      BY DEF Once
    <3>2. CASE i \in 1 .. Len(Sent(q)) /\ j \in 1 .. Len(Sent(q))
      BY <1>5, <1>11, <2>5, <3>1, <3>2 DEF Once
    <3>3. CASE i \notin 1 .. Len(Sent(q)) \/ j \notin 1 .. Len(Sent(q))
      <4>1. ASSUME NEW a \in 1 .. Len(Sent(q)), Sent(q)[a].header.dh_pub = s.our_dh, s.our_dh \in Pair(q)
            PROVE  Sent(q)[a].ct.key.n # s.chain_key_send.n
        BY <1>1, <1>2, <1>11, <2>2, <2>5, <4>1 DEF Ahead
      <4>2. CASE i \in 1 .. Len(Sent(q))
        BY <2>3, <3>1, <3>3, <4>1, <4>2
      <4>3. CASE j \in 1 .. Len(Sent(q))
        BY <2>3, <3>1, <3>3, <4>1, <4>3
      <4>4. CASE i \notin 1 .. Len(Sent(q)) /\ j \notin 1 .. Len(Sent(q))
        BY <2>3, <4>4
      <4>5. QED
        BY <4>2, <4>3, <4>4
    <3>4. QED
      BY <3>2, <3>3
  <2>6. QED
    BY <1>8, <1>9, <2>1, <2>4, <2>5, Unsaved DEF PairInv
<1>12. QED
  BY <1>10, <1>11

LEMMA SaveKeepsPairs ==
  ASSUME StoredInv, Flags, PairInv, NEW p \in Peer, SaveSession(p)
  PROVE  PairInv'
<1>1. /\ UNCHANGED <<vars, rolledBack>>
      /\ store' = [store EXCEPT ![p] = sess[p]]
      /\ unsaved' = [unsaved EXCEPT ![p] = FALSE]
  BY DEF SaveSession
<1> SUFFICES ASSUME NEW q \in Peer
             PROVE  /\ Holds(q, sess[q])' /\ Holds(q, store[q])'
                    /\ \A i \in 1 .. Len(Sent(q)') :
                           Advertises(q, Sent(q)[i].header.dh_pub, Sent(q)[i].ct.key.base)'
                    /\ unsaved'[q] \/ store'[q] = sess'[q]
                    /\ rolledBack'[q] \/ (Ahead(q)' /\ Once(q)')
  BY DEF PairInv
<1>2. /\ store'[q] = IF q = p THEN sess[q] ELSE store[q]
      /\ q # p => unsaved'[q] = unsaved[q]
  BY <1>1 DEF StoredInv, Holdable, Flags
<1>3. Holds(q, sess[q])' /\ Holds(q, store[q])'
  BY <1>1, <1>2 DEF PairInv, vars, Holds, Advertises
<1>4. unsaved'[q] \/ store'[q] = sess'[q]
  BY <1>1, <1>2 DEF PairInv, vars
<1>5. QED
  BY <1>1, <1>3, <1>4 DEF PairInv, vars, Advertises, Sent, Ahead, Once

\* A user who was not rolled back is given the session that was in memory.
LEMMA LoadKeepsPairs ==
  ASSUME StoredInv, Flags, PairInv, NEW p \in Peer, LoadSession(p)
  PROVE  PairInv'
<1>1. /\ sess' = [sess EXCEPT ![p] = store[p]]
      /\ rolledBack' = [rolledBack EXCEPT ![p] = @ \/ unsaved[p]]
      /\ unsaved' = [unsaved EXCEPT ![p] = FALSE]
      /\ UNCHANGED <<generated, wire, store>>
  BY DEF LoadSession
<1> SUFFICES ASSUME NEW q \in Peer
             PROVE  /\ Holds(q, sess[q])' /\ Holds(q, store[q])'
                    /\ \A i \in 1 .. Len(Sent(q)') :
                           Advertises(q, Sent(q)[i].header.dh_pub, Sent(q)[i].ct.key.base)'
                    /\ unsaved'[q] \/ store'[q] = sess'[q]
                    /\ rolledBack'[q] \/ (Ahead(q)' /\ Once(q)')
  BY DEF PairInv
<1>2. /\ sess'[q] = IF q = p THEN store[q] ELSE sess[q]
      /\ q # p => unsaved'[q] = unsaved[q] /\ rolledBack'[q] = rolledBack[q]
  BY <1>1 DEF StoredInv, Holdable, Flags
<1>3. Holds(q, sess[q])' /\ Holds(q, store[q])'
  BY <1>1, <1>2 DEF PairInv, Holds, Advertises
<1>4. unsaved'[q] \/ store'[q] = sess'[q]
  BY <1>1, <1>2 DEF PairInv
<1>5. rolledBack'[q] \/ (~ rolledBack[q] /\ sess'[q] = sess[q])
  <2>1. CASE q = p
    BY <1>1, <1>2, <2>1 DEF PairInv, Flags
  <2>2. CASE q # p
    BY <1>2, <2>2 DEF Flags
  <2>3. QED
    BY <2>1, <2>2
<1>6. rolledBack'[q] \/ (Ahead(q)' /\ Once(q)')
  <2>1. CASE rolledBack'[q]
    BY <2>1
  <2>2. CASE ~ rolledBack[q] /\ sess'[q] = sess[q]
    <3>1. Ahead(q) /\ Once(q)
      BY <2>2 DEF PairInv
    <3>2. Ahead(q)' /\ Once(q)'
      BY <1>1, <2>2, <3>1 DEF Ahead, Once, Sent
    <3>3. QED
      BY <3>2
  <2>3. QED
    BY <1>5, <2>1, <2>2
<1>7. \A i \in 1 .. Len(Sent(q)') :
          Advertises(q, Sent(q)[i].header.dh_pub, Sent(q)[i].ct.key.base)'
  BY <1>1 DEF PairInv, Advertises, Sent
<1>8. QED
  BY <1>3, <1>4, <1>6, <1>7

LEMMA PairInvNext ==
  ASSUME StoredInv, Flags, PairInv, StoredNext
  PROVE  PairInv'
<1>1. CASE InMemory
  <2>1. ASSUME NEW p \in Peer, NextUnread(p) <= Len(wire[p])
        PROVE  NextUnread(p) \in 1 .. Len(wire[p])
    BY <2>1 DEF NextUnread, StoredInv, Typed
  <2>2. QED
    BY <1>1, <2>1, OutboundKeepsPairs, InboundKeepsPairs, SendKeepsPairs, ReceiveKeepsPairs
    DEF InMemory, RestartNext, FifoReceive
<1>2. CASE \E p \in Keeper : SaveSession(p) \/ LoadSession(p)
  BY <1>2, StoreAssumption, SaveKeepsPairs, LoadKeepsPairs
<1>3. QED
  BY <1>1, <1>2 DEF StoredNext

LEMMA FlagsNext == ASSUME Flags, StoredNext PROVE Flags'
BY DEF Flags, StoredNext, InMemory, SaveSession, LoadSession

LEMMA PairInvCorrect == StoredSpec => [](StoredInv /\ PairInv)
<1>1. StoredInit => StoredInv /\ Flags /\ PairInv
  BY StoredInvInit, PairInvInit DEF StoredInit, Flags
<1>2. StoredInv /\ Flags /\ PairInv /\ [StoredNext]_storedVars
        => StoredInv' /\ Flags' /\ PairInv'
  <2> SUFFICES ASSUME StoredInv, Flags, PairInv, [StoredNext]_storedVars
               PROVE  StoredInv' /\ Flags' /\ PairInv'
    OBVIOUS
  <2>1. CASE StoredNext
    BY <2>1, StoredInvNext, FlagsNext, PairInvNext
  <2>2. CASE UNCHANGED storedVars
    <3>1. UNCHANGED <<sess, generated, wire, read, delivered, failed>>
          /\ UNCHANGED <<store, unsaved, rolledBack, restarts>>
      BY <2>2 DEF storedVars, stored, vars
    <3>2. StoredInv'
      BY <3>1 DEF StoredInv, Typed, Holdable, OnTheWay, Understood
    <3>3. Flags'
      BY <3>1 DEF Flags
    <3>4. PairInv'
      BY <3>1 DEF PairInv, Holds, Advertises, Sent, Ahead, Once
    <3>5. QED
      BY <3>2, <3>3, <3>4
  <2>3. QED
    BY <2>1, <2>2
<1>3. QED
  BY <1>1, <1>2, PTL DEF StoredSpec

(***************************************************************************)
(* No generated key pair seals two messages under one message key, however *)
(* sessions are started over, saved and restored, unless SessionStore gave *)
(* its user a session older than the one that was in memory.               *)
(***************************************************************************)
THEOREM SavedKeysStayUnique == StoredSpec => []SavedKeysSealOnce
<1>1. StoredInv /\ PairInv => SavedKeysSealOnce
  <2> SUFFICES ASSUME StoredInv, PairInv, NEW p \in Peer, ~ rolledBack[p],
                      NEW i \in 1 .. Len(Sent(p)), NEW j \in 1 .. Len(Sent(p)),
                      Sent(p)[i].ct.key = Sent(p)[j].ct.key,
                      Sent(p)[i].header.dh_pub.kind = "ephemeral"
               PROVE  i = j
    BY DEF SavedKeysSealOnce, Sent
  <2> DEFINE k == Sent(p)[i].header.dh_pub
             l == Sent(p)[j].header.dh_pub
  <2>1. /\ k \in Pair(p) /\ Marked(p, k, Sent(p)[i].ct.key.base)
        /\ Marked(p, l, Sent(p)[j].ct.key.base)
    BY DEF PairInv, Advertises, Pair
  <2>2. k = l
    BY <2>1 DEF Marked
  <2>3. QED
    BY <2>1, <2>2 DEF PairInv, Once
<1>2. QED
  BY <1>1, PairInvCorrect, PTL
=============================================================================

# A formal model of the messenger

TLA+ models of the messenger in this repository, model-checked with TLC on small
instances; most of the safety properties are also proved with TLAPS, for every value
of the constants. Paths are relative to the repository.

## 1. The system

A client (`client/core`, with a Qt window in `client/gui`) encrypts messages end to
end and talks gRPC to a server (`server`), which keeps users, public keys, chats and
ciphertexts in PostgreSQL and announces new messages through Redis.

| Component | State | Operations | What is hard | What makes it correct |
|---|---|---|---|---|
| `CryptoEngine` (client/core) | `SessionState`: root key, two chain keys, own and peer's ratchet key, three 32-bit counters; held by the caller | `InitOutbound`, `InitInbound`, `Encrypt`, `Decrypt`, `RatchetStep` | two ends must derive the same keys from different halves; lost, repeated and reordered messages; state changed before a failure; counters wrap; sessions started over | both ends agree; plaintexts come out in order and once; no sender uses a message key twice |
| `NetworkClient` (client/core) | one receive thread, `stop_`, `token_` | unary calls on threads of their own; `StartReceiveLoop`, `StopReceiveLoop`; the destructor | a thread blocked in `Read` or `Finish`; two managers share one loop; handlers that call back; `token_` has no lock; nobody waits for the unary calls | one handler at a time, none after a stop, every message read is handled; the newest token in every header; a loop ends with its stream |
| `AuthManager`, `ChatManager`, `EventManager`, `KeyManager` | none (a shared `INetworkClient`) | forward to it | `ChatManager` and `EventManager` share the receive loop | – |
| `SessionStore` (client/core) | SQLite tables | `SaveSession`, `LoadSession` | ignored errors; a restored session may be old | a restored session that is not behind its messages repeats no key |
| `AuthService`, `KeyService`, `ChatService` (server) | none of their own; all use one `pqxx::connection` | `Register`, `Login`, `Refresh`; `UploadPreKey`, `GetPreKey`; `CreateChat`, `SendMessage`, `GetHistory` | gRPC runs them on a pool of threads; one statement of several fails; restarts and lost connections; PostgreSQL and Redis are two systems | what is acknowledged is stored, whole, and visible in events and history only when committed; keys of two uploads are not mixed |
| `EventService`, `RedisClient` (server) | a detached thread and a Redis connection per subscription | `SubscribeEvents`, `publish`, `subscribe` | the thread outlives the handler; Redis forgets; connections fail silently | a stream is a gap-free piece of what was published |
| `ChatWindow`, `MessageListModel`, `ChatListModel` (client/gui) | current chat, header, rows shown, typing timer, network client | slots for clicks, edits, the timer and network signals; `setNetworkClient` | signals for other chats, or queued until the window has moved on; local ids that coincide; clients exchanged; a modal dialog with its own event loop | each message gets its row once; the header tells of the open chat; a status goes to one message; the typing indicator comes to rest |
| `LocalStore`, `RatchetWrapper`, `ThemeManager`, `LightboxDialog` (client/gui) | – | – | – | not modelled |

Interactions: the application calls `CryptoEngine` around `ChatManager::SendEncrypted`
and from its message handler; the handlers of the server meet only in the shared
connection and in Redis; `ChatService::SendMessage` publishes what
`EventService::SubscribeEvents` forwards.

## 2. The modules

| Module | Models | Its state and actions in the code |
|---|---|---|
| `CryptoEngine` | `CryptoEngine.cpp` as operators on values | key material is symbolic: `X25519` is the set of the two keys, an HKDF output the list of what was mixed in, a chain key its base and a step count. `Encrypted`/`AfterEncrypt` and `Opens`/`AfterDecrypt` are the result and the effect of `Encrypt` and `Decrypt` |
| `OrderedChannel` | nothing: the abstract specification of a conversation | `ReliableSpec`: the n-th call returns the n-th message. `LossySpec`: calls may return nothing, but never out of order or twice |
| `Session` | two users of `CryptoEngine` with one handshake | `sess[p]` is the caller's `SessionState`; `wire[p]` keeps every message addressed to p. `FifoNext`: one receive stream, in order. `FaultyNext`: any message of `wire[p]` at any time, any number of times, or never |
| `Rehandshake` | `Session` without the discipline about who starts | `InitOutbound`/`InitInbound` at any time by either peer; here `Decrypt` does take ratchet steps |
| `StoredSession` | `Rehandshake` with `SessionStore` | `store[p]` is the row of the chat in the `sessions` table. `SaveSession` at any time; `LoadSession` after the application ended and came back |
| `Tables` | the schema and the statements as operators on sets of rows | `UserRow`, `UpsertPreKey`, `NewestFirst`, ... are what INSERT, ON CONFLICT and SELECT do; `Bundle` and `ReadMessage` are what the handlers make of the rows they read, where a `bytea` column becomes its text form (`Hex`) |
| `AtomicServer` | nothing: the abstract specification of the unary handlers | a call that writes does so in one step, whole, between its request and its answer; a call that reads answers from the database of the moment; INTERNAL promises nothing |
| `Server` | the unary handlers and the shared connection | `call[h]` is the call a thread serves and its next statement; each statement is one action. `tables` is committed, `work` is what the connection sees, `trans` is `connection::m_trans`. `Rollback` is the destructor of `pqxx::work`. `LoseConnection`, `Broken` and `Restart` are the failures |
| `ServerRace` | `Server`, with the test and the store of `m_trans` as two steps | `CheckRegistered`, `StoreRegistered` |
| `Events` | `SubscribeEvents`, `RedisClient::subscribe`, `publish` | `thread[s]` is the detached thread, `inbox[s]` its unread replies, `stream[s]` what the client got. `Restart` is the process being started anew: its threads and what they had not read are gone. `WriteStray` is the write through a reference to a parameter of a handler that has returned |
| `Delivery` | `messenger_server` as `main` puts it together: `Server` and `Events` in one process | `HandlerStep` is a step of a handler, and pushes what it publishes to the subscribed threads; `StreamStep` is a step of `Events`; `RestartProcess` ends both. `Published` is `Server`'s `events` as `Events` counts them |
| `ReceiveLoop` | `StartReceiveLoop`, `StopReceiveLoop` and the thread | `main` is the caller, `recv` is `recv_thread_`, `stop` is `stop_`; `pc[t]` follows the lambda |
| `NetworkClient` | the whole client: `ReceiveLoop`, the unary calls, `token_`, handlers that call back, the destructor | `call[a]` is one call of an `...Async` function and where its thread is; `token` is `token_`; `LoopStep` is a step of `ReceiveLoop`, whose `Open` reads the token; `CallBack`; `Destroy`, which only the receive thread can keep from succeeding, and `Outlive`, what a unary call then does |
| `ChatWindow` | the window and the two models behind its lists | one action for each slot of the user and the timer, `Deliver` for those of the network signals, which `Emit` puts in the queue `posted`; `current` is `m_currentChatId`, `rows` is `m_msgModel`, `net` is `m_net`, `links` the connections of its signals; `dialog` and `sending` say in which call the GUI thread waits; `typing` is the `static` variable of `onTypingChanged`, `timer` is `m_typingTimer` |
| `SessionProofs`, `StoredSessionProofs`, `ServerProofs`, `HistoryProofs`, `EventsProofs`, `DeliveryProofs`, `NetworkClientProofs`, `ChatWindowProofs` | – | the theorems of section 5 |
| `MC*` | – | small sets of values for the runs |

An operator whose comment begins with "Mutated:" is a deliberately wrong variant of
the definition after it. No specification uses it; put in that definition's place, it
makes TLC report the property it is listed with in `PROJECT.json`, which shows that
the property depends on the code.

### Modelling decisions

- **Keys.** Two byte strings are equal in the model exactly when the same computation
  produced them. Collisions and failures of OpenSSL are left out. The `"MK"` output of a
  chain key is identified with the chain key.
- **Counters** keep their width: `Increment` is modulo `ByteBase^4`, and the nonce is
  the four bytes. `ByteBase` is 256 in the code and 2 in the runs, so that counters wrap
  after 16 messages; the proofs hold for every `ByteBase >= 2`.
- **libpqxx** (7.x) is external: a `pqxx::work` registers with its connection and throws
  if another is registered; its destructor rolls back. Nothing reopens a connection.
- **Serial and racy.** `register_transaction` tests and then stores `m_trans` with no
  lock. `SerialSpec` takes both in one step, and is therefore the server in every
  execution in which no two handlers fall between the two. `RacySpec` drops this
  assumption and takes the mildest outcome of the race, in which statements stay whole.
- **Tables** are sets of rows with the schema's constraints; a chat's id is the number of
  the call that created it. Messages are in commit order, which is the order of
  `created_at` as long as transactions are serial and the clock does not go back.
- **What a failed save is.** `SaveSession` drops the result of `sqlite3_step`, so a save
  that fails is no step of `StoredSession`: its caller goes on as if it had been made. A
  save that no restart within the bound follows changes nothing and is left out.
- **What the abstract server promises.** The handlers answer INTERNAL for every exception,
  also for one after COMMIT; a caller of `AtomicServer` that gets INTERNAL therefore knows
  nothing, and one that gets OK knows that its call had its effect.
- **A handler's last statement and its return** are one step: after it, a handler only fills
  in a response that nobody else sees. `replies` holds what handlers returned; an answer
  may still get lost on its way.
- **Redis** pushes to the connections subscribed when it is given the message. `publish`
  may fail silently.
- **Dead references.** `Events` gives the write after the handler's return three
  outcomes: no effect, the end of the process, or a write on another call's stream.
- **gRPC's `Finish()`** returns after an error, or when everything the server sent has
  been read and it ended the stream; this is its documented contract. The server behind
  `chat_->Receive` is external: no server in this repository implements it.
- **`token_`** is a `std::string` without a lock. A read that meets an assignment may
  return `Torn`, a value that nobody wrote, and so may every read after two assignments
  met. Tokens are numbered in the order in which the server grants them.
- **Futures.** The destructor of the `std::future` that `std::async` returned waits, but the
  future is the caller's and the destructor of `NetworkClient` waits for no unary call. A
  call that outlives its client uses `this`: it may get away with it while it waits for the
  server, and its behaviour is undefined otherwise (`process = "undefined"`).
- **Text forms.** `as<std::string>()` of a `bytea` column gives PostgreSQL's text form, not
  the bytes. `Hex` keeps the two apart, in `Login`, `GetPreKey` and `GetHistory`; metadata and
  times, which are stored and returned as they are or not at all, are left out.
- **The GUI's `INetworkClient`** (another class than client/core's) has no implementation
  in the repository and is external. It signals any message, status and presence, as often
  as it likes and from any thread: a signal of another thread waits in the queue of the GUI
  thread, where `disconnect` does not reach it. The local ids that it returns may be the
  empty one, or those of other messages (a second client, or the clock that
  `chatwindow.cpp:152` uses in place of one, knows nothing of them). It may signal before
  `sendMessage` or `sendFile` has returned. All slots run on the GUI thread. Not modelled: a
  client that runs an event loop of its own inside `sendMessage`.

## 3. What the runs check

Every run but the two of `ChatWindow` sets `CHECK_DEADLOCK FALSE`: the system stops when
the bounds on calls, messages or failures are used up. A window never stops.

| Run | Question | Bounds |
|---|---|---|
| `SessionFifo` | `TypeOK`, `HandshakeAgrees`, `MessageKeysUsedOnce`; `ImplementsReliableChannel`: on an ordered stream the sessions refine `OrderedChannel`; `EventualDelivery` | 17 messages each way, so that the 4-bit counter wraps; with a one-time pre-key |
| `SessionFaulty` | `ImplementsLossyChannel`, `FailureIsFinal`, `NeverRatchets` over a network that loses, repeats and reorders | 3 messages and 4 `Decrypt` calls for each peer; without a one-time pre-key |
| `SessionReply` | violated: `ReplyTriggersRatchet` (finding 1) | 2 messages |
| `StoredSession` | `RatchetedIsNeverUnderstood`, `RatchetedIsDeaf`, `SavedKeysSealOnce` | 2 key pairs and 2 messages for each peer, 1 restart: both start at once, start over with messages in flight, ratchet, and go on from a saved copy. Only Alice keeps her session: the peers are interchangeable and there is one restart |
| `ServerCalls` | `ImplementsAtomicServer`: the handlers refine `AtomicServer`; `TypeOK`, `AckedIsStored`, `WritesAreWhole`, `KeysStayPaired`, `EventImpliesStored`, `HistoryIsCommitted`, `PagesLeaveNoGap`; and of handlers and streams together `StreamsTellOfCommitted`, `ToldOnce`, `ToldInOrder`, `HeardIsInHistory`: what clients are told of agrees with the database and the history | 2 threads, 1 subscription, 13 requests to all services. `BoundedSpec` is `DeliverySpec` with a guard that keeps to three families: 3 calls interleaved in every way with a restart or a lost connection (two writers and a reader of the same rows); 6 calls of one client that creates a chat, sends and turns pages, one at a time and without failure; and a chat with a listener, two messages at any time, a page and a restart or a lost connection |
| `ServerLogin` | violated: `RegisteredCanLogIn` (finding 2) | 2 calls |
| `ServerRace` | violated: `AckedIsStored` (finding 3) | 2 calls |
| `Events` | `TypeOK`, `StreamsHaveNoGap`, `EventuallyForwarded` over cancelled, failed and disconnected subscriptions | 2 subscriptions, 2 users, 3 events |
| `EventsGone` | violated: `StopsWhenClientIsGone` (finding 4) | 1 event |
| `NetworkClient` | `ClientTypeOK`, `OnlyTheHeldLoopRuns`, `EveryReadMessageIsHandled`, `AtMostOneAfterStop`, `HeadersAreCurrent`, `ClientLoopEndsWithStream`, with a client that may be destroyed at any time | 3 uses of the client, of which up to 2 are subscriptions with 2 events each: a second subscription that replaces the first while a call runs; three calls, two of them renewing the token |
| `ChatWindow` | `TypeOK`, `HeaderTellsOfCurrentChat`, `RowsAreDue`, `StatusIsTheLastHeard` | 2 clients, exchanged at any time; 3 messages sent or signalled, with 2 local ids between them, so that some coincide; 1 signal on its way at a time; statuses, presences and clicks without bound |
| `ChatWindowTyping` | violated: `TypingStops` (finding 5) | 1 client, no messages |

Why these bounds are enough to be of use: the properties are about pairs (two
messages, two calls, two pages, two subscriptions, two clients), and each bound leaves
room for the pair, for one more in between, and for a failure. The safety properties
that section 5 lists do not rest on their bounds at all, since they are proved.

### What TLC found in the code

1. The first reply takes no ratchet step, contrary to a comment in
   `client/core/tests/test_cryptoengine.cpp:26`; indeed `NeverRatchets`, which says the
   opposite of that comment, holds of every conversation with one handshake, on any
   network. (`SessionReply`, `SessionFaulty`)
2. `Login` compares the text form of a `bytea` column with raw bytes, so that it turns
   every registered user away. (`ServerLogin`) The same conversion is in `GetPreKey`
   (`server/src/key_service.cpp:30-33`) and `GetHistory` (`server/src/chat_service.cpp:56`),
   although `messenger.proto` declares these fields as `bytes`: no client gets back the keys or
   the ciphertext that another one uploaded. `KeysStayPaired` and `HistoryIsCommitted` write the
   text form out (`Hex`); they say which upload and which message an answer is made of, and
   must not be read as saying that its bytes come back.
3. Two handlers can share a transaction; `Register` then answers OK for a user that the
   other handler rolled back. (`ServerRace`)
4. The subscriber thread does not stop when the client is gone, and writes through a
   reference to a parameter of a handler that has returned. (`EventsGone`)
5. The typing timer times out into the slot that turns the typing indicator round and
   starts the timer again, so that the peer is told for ever that typing starts and
   stops. (`ChatWindowTyping`)

Further facts of the code, which contradict no document, are stated in the properties.
`FailureIsFinal`: after one failed
`Decrypt` nothing opens any more in that session, because the chain key is advanced
before the check and the counter after it. `RatchetedIsNeverUnderstood`: what is sent
after a ratchet step can be opened by nobody, because the two sides of the step use
different labels. `MessageKeysUsedOnce` is of each sender by itself: both directions start
on one chain key, so that Alice's i-th message and Bob's i-th message do share key and
nonce. `StatusIsTheLastHeard`: a row's status follows the signals in the order they come, so
that a late `Sent` replaces a `Read`, and of two messages with one local id only the older
one gets them.

What some properties leave open: for an `UploadPreKey` that was answered OK,
`AckedIsStored` and `AtomicServer` only ask for a row of that device, since a later
upload may have replaced it. `HeadersAreCurrent` excepts renewals of the token that
overlap and reads that meet an assignment. `OnlyTheHeldLoopRuns` has one application
thread; two that subscribe at once are not modelled.

## 4. Fairness

- `FairFifoSpec`: weak fairness of `FifoReceive` (the loop in `StartReceiveLoop` reads as
  long as there is something to read) and of `FifoStartInbound` (the application answers
  a first message). None of `Send` or `StartOutbound`: users send when they like.
- `Events!FairSpec`: weak fairness of `Forward`: the loop of the detached thread runs
  whenever Redis has pushed something. None of `Publish`, `Cancel` or `Disconnect`.
- `NetworkClient!FairClientSpec`: weak fairness of the steps of a receive thread, which
  block where the code blocks, as long as the process runs. The server owes nothing, and so
  `ClientLoopEndsWithStream` speaks of streams that have ended; with a silent server,
  `StopReceiveLoop` never returns.
- `ChatWindow!FairSpec`: weak fairness of `Timeout`: Qt's event loop runs, also inside the
  file dialog, so a timer that was started goes off. None of the user or the clients.

The other specifications are checked for safety only and assume no fairness.

## 5. What is proved

The theorems hold for every value of the constants: any number of messages, calls,
threads, subscriptions, users, clients and failures, and counters of four bytes of any
size (`ByteBase >= 2`). They assume the named `ASSUME`s of the modules, which TLC evaluates in
the runs, and the modelling decisions of section 2. For each module the properties are
those of its run, so that what TLC shows on a small instance is proved in general.

| Module | Theorem | States |
|---|---|---|
| `SessionProofs` | `NonceInjective` | `DeriveNonce` is injective on the counters |
| | `HandshakeMirrors` | `InitInbound` on the mirrored keys derives what `InitOutbound` derived |
| | `FifoTypeCorrect`, `FifoHandshakeAgrees`, `FifoKeysUsedOnce` | `TypeOK`, `HandshakeAgrees`, `MessageKeysUsedOnce` are invariants of `FifoSpec` |
| | `FifoImplementsReliableChannel` | `FifoSpec` implements `OrderedChannel!ReliableSpec` |
| | `FaultyNeverRatchets`, `FaultyFailureIsFinal` | `NeverRatchets` and `FailureIsFinal` hold of `FaultySpec` |
| | `FaultyImplementsLossyChannel` | `FaultySpec` implements `OrderedChannel!LossySpec` |
| `StoredSessionProofs` | `RatchetedStaysUnread`, `RatchetedStaysDeaf` | `RatchetedIsNeverUnderstood` and `RatchetedIsDeaf` hold of `StoredSpec` |
| | `SavedKeysStayUnique` | `SavedKeysSealOnce` is an invariant of `StoredSpec` |
| `ServerProofs` | `ServerTypeCorrect` | `TypeOK` is an invariant of `SerialSpec` |
| | `ServerIsAtomic` | `SerialSpec` implements `AtomicServer!Spec` |
| | `AckedStaysStored`, `WritesStayWhole`, `KeysArePaired`, `EventsTellOfStored` | `AckedIsStored`, `WritesAreWhole`, `KeysStayPaired`, `EventImpliesStored` are invariants of `SerialSpec` |
| | `RaceKeepsPairs`, `RaceKeepsTypes` | `KeysStayPaired` and `TypeOK` are invariants of `ServerRace!RacySpec` too |
| `HistoryProofs` | `HistoryStaysCommitted`, `PagesStayGapless` | `HistoryIsCommitted` and `PagesLeaveNoGap` are invariants of `SerialSpec` |
| `EventsProofs` | `EventsTypeCorrect`, `StreamsStayWhole` | `TypeOK` and `StreamsHaveNoGap` are invariants of `Spec` |
| `DeliveryProofs` | `ToldOfCommitted`, `ToldOnlyOnce`, `ToldInOrderOfCalls` | `StreamsTellOfCommitted`, `ToldOnce`, `ToldInOrder` are invariants of `DeliverySpec` |
| | `HeardStaysInHistory` | `HeardIsInHistory` holds of `DeliverySpec` |
| `NetworkClientProofs` | `ClientTypeCorrect`, `OneLoopAtATime`, `StopIsPrompt`, `ReadIsHandled`, `HeadersStayCurrent` | `ClientTypeOK`, `OnlyTheHeldLoopRuns`, `AtMostOneAfterStop`, `EveryReadMessageIsHandled`, `HeadersAreCurrent` are invariants of `ClientSpec` |
| `ChatWindowProofs` | `WindowTypeCorrect`, `HeaderStaysWithChat`, `RowsStayDue`, `StatusStaysHeard` | the four properties of the run `ChatWindow` are invariants of `Spec` |

None of these properties is inductive as it stands. The inductive invariants, and why
they are needed:

- **`Session`.** Whether a message opens depends on everything either end did before.
  `SessionInv` therefore gives the whole state in closed form. The session of p is
  `Running(p, s, r, o)`, a function of three counts (messages sent, `Decrypt` calls made,
  plaintexts returned), and message i on a wire is `Sealed(p, i)`, a function of i.
  `StartOutboundStep`, `StartInboundStep`, `SendStep` and `ReceiveStep` show that every
  action keeps this form. What remains is arithmetic: a message opens iff its chain index
  equals the number of `Decrypt` calls and the two nonces agree, which by `NonceInjective`
  means that failures are a multiple of `CounterModulus`. `FifoInv` adds that nothing has
  failed and the n-th plaintext is n; `FaultyInv` adds that the plaintexts returned are
  increasing and none is newer than the number of calls.
- **`StoredSession`.** No closed form is left when sessions are replaced and restored.
  `StoredInv` traces every secret to the label of the HKDF that derived it: sending
  chains, and so messages, come from `"X3DH"` or `"DR2"`, receiving chains from `"X3DH"` or
  `"DR"`, and what opens a message is in both. `PairInv` follows each generated key pair:
  its messages have chain indexes below that of the session which holds it, unless that
  session was restored from a copy that was behind.
- **`Server`.** `ServerInv` says that `m_trans` names the one handler that is between the
  construction of its `pqxx::work` and its end, and that `work` is then `tables` and what
  the call of that handler has written so far. So a commit adds the effect of one call,
  whole, and every step of `Server` is a step of `AtomicServer` or a stutter: this is
  `ServerIsAtomic`. `DataInv`, about the database, the answers and the events, is then
  shown of the steps of `AtomicServer` only, and holds of `Server` by the refinement.
- **`ServerRace`.** When two handlers share a transaction, `Registered`, `Written` and with them
  the refinement are lost, and finding 3 shows what an answer is then worth. What is in the
  tables is sound nevertheless: `RaceInv` says of the committed tables and of what the
  connection sees, each for itself, that rows are unique and every pre-key has no identity
  key or the one it was uploaded with (`Keys`). A statement keeps this, in a transaction or
  not, and a COMMIT or ROLLBACK, whosoever it is, only puts one of the two in the place of
  the other. A handler between the test and the store is still at its BEGIN (`checked`).
- **`GetHistory`.** A page is a list selected, sorted and cut, but it can be talked of
  without lists: a message of a chat has rank k when k messages of the chat are as new as
  it (itself included), and a page holds the messages with the ranks `offset + 1` to
  `offset + limit`, newest first (`PageRow`, `PageEnds`). Going to older messages, ranks grow one by
  one (`RankOnto`), and new messages never lower a rank (`RankGrows`). So every message
  older than the end of one page has, when the next page is taken, at least the rank at
  which that page begins, and the page begins with it or with a newer one (`PagesMeet`).
  `HistoryInv` says what is needed of the past: answer number k was a page of
  the oldest `seen[k]` messages, and `seen` never falls with k (`PagesDated`); no message is
  stored twice, so that a row has one position (`Once`), and is what its call sent (`AsSent`);
  and a call is answered after the answers that were there when it came
  (`AnsweredLater`). All but the last are shown of the steps of `AtomicServer`. The proof needs `PageAssumption` (limits and offsets are integers).
- **`Events`.** Until its client goes away, the stream of a call and the unread replies of
  its thread make up, one after the other, all events of its user since the SUBSCRIBE
  (`Continued`: `Newer` and `Whole`).
- **`Delivery`.** Every step of the whole server is a step of `SerialSpec` or none
  (`ServerStepped`), and a step of `Events` or none (`StreamsStepped`), so that both
  specifications are implemented and what was proved of them holds. What neither can say is
  in `AnnounceInv`: an event is published with the answer to its call (`Announced`), so events
  come in the order of the answers (`InOrder`), and a call has one answer, so no message has
  two events; an event is in the channel of its message's sender (`FromSender`). This is shown of the steps of
  `AtomicServer` again. The streams add that numbers ascend and, even after a stray write,
  were published (`Received`). For `HeardIsInHistory` the ranks of `HistoryProofs` return:
  a page without an offset holds the ranks 1 to `limit`, so a message of the chat is on it,
  or all that are have lower ranks and are newer (`NewestShown`). The proofs need
  `SenderAssumption` (senders are usernames).
- **`NetworkClient`.** `LoopInv` says where the held thread can be while the caller waits
  in `join()`, `HandledInv` that the handled messages of a loop are those it read but for
  the one in its hands, and `TokenInv` that the token is the newest result, or that the
  Login or Refresh which will store it still runs. `LoopStep` and the calls then keep each
  other's invariant, since they share only the token.
- **`ChatWindow`.** `WindowInv`: only the client in `m_net` is connected, and once, so that
  every signal in the queue is the only copy of one that this client gave (`OwnSignals`),
  and `rows` and `due` grow together (`ListInv`). Rows are never removed, so that the row
  that is first with its local id stays first, and a status heard for this id sets both
  this row and `last`.

Each theorem follows from its invariant by one temporal step.

Only model-checked: the liveness properties `EventualDelivery`, `EventuallyForwarded` and
`ClientLoopEndsWithStream` (liveness and ENABLED are out of the prover's reach), and what
the runs that expect a violation refute.

## 6. What is not modelled

- `LocalStore` and `RatchetWrapper`: nothing in the repository calls them. `ThemeManager`,
  `LightboxDialog`, the menu of the window and the Qt resources only present.
- `ChatListModel::setPresence`, which nothing calls; the delegates, and with them the check
  marks that `MessageDelegate` paints for a status.
- The `prekeys` table of `SessionStore`, which has no operations, and errors at opening the
  file, which throw before there is a store.
- `server/src/utils.cpp` and `main`: environment variables, time formatting, start-up. What
  `main` shares between the services is in `Server` and in `Delivery`.
- The values of random tokens, timestamps and the contents of keys and messages.
- Protocol definitions, build files, containers and CI have no behaviour of their own.
- The race on `m_trans` beyond its mildest outcome (`ServerRace`), and what a data race on
  `token_` does beyond the value that is read.

## 7. Plan

Done: `CryptoEngine`, `OrderedChannel`, `Session` and their proofs, because a
conversation that can be read is what the program is for; `Rehandshake` and
`StoredSession`; `Server`, `ServerRace` and its abstract specification `AtomicServer`;
`Events`; `Delivery`; `ReceiveLoop` and `NetworkClient`; `ChatWindow`; and the proofs of section 5.

Left:

1. A bound on what `SubscribeEvents` leaves behind, once the code has one.

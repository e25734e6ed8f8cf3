-------------------------------- MODULE Server --------------------------------
(***************************************************************************)
(* The unary handlers of messenger_server (server/src): AuthService,       *)
(* KeyService and ChatService over one PostgreSQL connection that main()   *)
(* opens and every service shares.  gRPC runs the handlers on a pool of    *)
(* threads; each statement a handler sends is one step.                    *)
(*                                                                         *)
(* A pqxx::work registers itself with the connection, and throws when      *)
(* another one is registered (the handler then answers INTERNAL).  The     *)
(* registration is a test followed by a store on a connection that pqxx    *)
(* does not make safe for threads: SerialNext runs the two as one step,    *)
(* and ServerRace lets another thread in between them.                     *)
(***************************************************************************)
EXTENDS Tables

CONSTANTS Handler,     \* threads of the server's pool
          Request,     \* the requests clients send in this instance
          Idle,        \* a thread that serves no call
          NoHandler,   \* no pqxx::work is registered with the connection
          MaxCalls,    \* bound: calls made
          MaxFaults    \* bound: restarts of the server and lost connections

ASSUME ServerAssumption == /\ NoHandler \notin Handler
                           /\ Idle \notin [id : Nat, pc : Nat, after : Nat]
                           /\ MaxCalls \in Nat /\ MaxFaults \in Nat

Rpc == {"Register", "Login", "Refresh", "UploadPreKey", "GetPreKey",
        "CreateChat", "SendMessage", "GetHistory"}

ASSUME RequestAssumption ==
    \A req \in Request : /\ req.rpc \in Rpc
                         /\ req.rpc = "CreateChat" => req.participants \in Seq(STRING)

\* int32 of the protocol.
ASSUME PageAssumption ==
    \A req \in Request : req.rpc = "GetHistory" => req.limit \in Int /\ req.offset \in Int

VARIABLES asked,    \* asked[id]: the request of call id, in the order they came
          call,     \* call[h]: the call h serves and its next statement
          replies,  \* the answers, in the order they were given
          tables,   \* the committed contents of the database
          work,     \* what the connection sees: tables and the open transaction
          inTx,     \* PostgreSQL has a transaction open on the connection
          trans,    \* connection::m_trans: whose pqxx::work is registered
          open,     \* the connection to PostgreSQL is alive
          events,   \* what Redis was given to publish, oldest first
          faults    \* restarts and lost connections so far

connection == <<inTx, trans, open>>

vars == <<asked, call, replies, tables, work, connection, events, faults>>

-----------------------------------------------------------------------------
(***************************************************************************)
(* The handlers, as the statements each of them sends in turn.  A handler  *)
(* that ends without a commit ends with its pqxx::work rolling back.       *)
(***************************************************************************)

\* Mutated: the event is published before the transaction is committed.
SendMessageEarlyPublish == <<"begin", "insertMessage", "publish", "commit">>

\* Mutated: publish is called once more, as after an answer that got lost.
SendMessageRepeats == <<"begin", "insertMessage", "commit", "publish", "publish">>

SendMessage == <<"begin", "insertMessage", "commit", "publish">>

AuthProgram == [Register |-> <<"begin", "insertUser", "insertPreKey", "commit">>,
                Login    |-> <<"begin", "selectHash">>,
                Refresh  |-> <<"newToken">>]

KeyProgram == [UploadPreKey |-> <<"begin", "upsertPreKey", "commit">>,
               GetPreKey    |-> <<"begin", "selectPreKey">>]

\* One INSERT for each participant of the request.
CreateChat(participants) ==
    <<"begin", "insertChat">> \o [i \in 1 .. Len(participants) |-> "insertMember"] \o <<"commit">>

Program(req) ==
    CASE req.rpc \in DOMAIN AuthProgram -> AuthProgram[req.rpc]
      [] req.rpc \in DOMAIN KeyProgram -> KeyProgram[req.rpc]
      [] req.rpc = "CreateChat" -> CreateChat(req.participants)
      [] req.rpc = "SendMessage" -> SendMessage
      [] req.rpc = "GetHistory" -> <<"begin", "selectPage">>

Serving(h) == call[h] # Idle

Asked(h) == asked[call[h].id]

At(h, step) == Serving(h) /\ Program(Asked(h))[call[h].pc] = step

\* The handler returns; rows is what it put into the response.
Answer(h, status, rows) ==
    /\ replies' = Append(replies, [id |-> call[h].id, status |-> status,
                                   rows |-> rows, after |-> call[h].after])
    /\ call' = [call EXCEPT ![h] = Idle]
    /\ UNCHANGED <<asked, faults>>

\* On to the next statement, or to the answer after the last one.
Proceed(h) ==
    IF call[h].pc = Len(Program(Asked(h)))
    THEN Answer(h, "OK", <<>>)
    ELSE /\ call' = [call EXCEPT ![h].pc = @ + 1]
         /\ UNCHANGED <<asked, replies, faults>>

\* The pqxx::work goes out of scope: ROLLBACK, and it is unregistered.
Rollback == /\ work' = tables
            /\ inTx' = FALSE
            /\ trans' = NoHandler
            /\ UNCHANGED <<tables, open, events>>

Leave(h, status, rows) == Rollback /\ Answer(h, status, rows)

\* A statement changes what the connection sees; outside a transaction
\* PostgreSQL commits it at once.
Exec(h, new) == /\ open
                /\ work' = new
                /\ tables' = IF inTx THEN tables ELSE new
                /\ Proceed(h)
                /\ UNCHANGED <<connection, events>>

-----------------------------------------------------------------------------
(***************************************************************************)
(* The steps of a handler.                                                 *)
(***************************************************************************)

\* A call arrives at an idle thread.
Accept(h, req) ==
    /\ call[h] = Idle
    /\ Len(asked) < MaxCalls
    /\ asked' = Append(asked, req)
    /\ call' = [call EXCEPT ![h] = [id |-> Len(asked) + 1, pc |-> 1, after |-> Len(replies)]]
    /\ UNCHANGED <<replies, tables, work, connection, events, faults>>

\* AuthService::Refresh looks at nothing.
Refresh(h) == /\ At(h, "newToken")
              /\ Proceed(h)
              /\ UNCHANGED <<tables, work, connection, events>>

\* register_transaction succeeds: BEGIN.
RegisterTransaction(h) == /\ trans' = h
                          /\ inTx' = TRUE
                          /\ Proceed(h)
                          /\ UNCHANGED <<tables, work, open, events>>

\* Mutated: the connection does not care who else is in a transaction.
BeginUnguarded(h) == At(h, "begin") /\ open /\ RegisterTransaction(h)

\* pqxx::work w(conn): throws if another one is registered.
Begin(h) ==
    /\ At(h, "begin")
    /\ open
    /\ \/ /\ trans = NoHandler
          /\ RegisterTransaction(h)
       \/ /\ trans # NoHandler
          /\ Answer(h, "INTERNAL", <<>>)
          /\ UNCHANGED <<tables, work, connection, events>>

\* Register, first INSERT; users.username is UNIQUE.
InsertUser(h) ==
    /\ At(h, "insertUser")
    /\ open
    /\ IF \E row \in work.users : row.username = Asked(h).username
       THEN Leave(h, "INTERNAL", <<>>)
       ELSE Exec(h, [work EXCEPT !.users = @ \cup {UserRow(Asked(h))}])

\* Register, second INSERT: no identity_key, and (username, device_id) is UNIQUE.
InsertPreKey(h) ==
    /\ At(h, "insertPreKey")
    /\ open
    /\ LET req == Asked(h)
       IN  IF \E row \in work.prekeys : IsKeyOf(row, req)
           THEN Leave(h, "INTERNAL", <<>>)
           ELSE Exec(h, [work EXCEPT !.prekeys = @ \cup {FirstPreKeyRow(req)}])

\* Login: whatever it finds, it ends without a commit.
SelectHash(h) ==
    /\ At(h, "selectHash")
    /\ open
    /\ LET found == {row \in work.users : row.username = Asked(h).username}
       IN  \/ found = {} /\ Leave(h, "NOT_FOUND", <<>>)
           \/ \E row \in found :
                IF verify_password(Asked(h).password, Hex(row.password_hash))
                THEN Leave(h, "OK", <<>>)
                ELSE Leave(h, "UNAUTHENTICATED", <<>>)

UploadPreKey(h) ==
    /\ At(h, "upsertPreKey")
    /\ Exec(h, [work EXCEPT !.prekeys = UpsertPreKey(@, Asked(h))])

\* GetPreKey: LIMIT 1 without an order is any row; as<std::string>() of a NULL throws.
GetPreKey(h) ==
    /\ At(h, "selectPreKey")
    /\ open
    /\ LET found == {row \in work.prekeys : row.username = Asked(h).username}
       IN  \/ found = {} /\ Leave(h, "NOT_FOUND", <<>>)
           \/ \E row \in found :
                IF row.identity_key = NULL
                THEN Leave(h, "INTERNAL", <<>>)
                ELSE Leave(h, "OK", <<Bundle(row)>>)

\* CreateChat: the row of the chat (the database picks a fresh id) ...
InsertChat(h) ==
    /\ At(h, "insertChat")
    /\ Exec(h, [work EXCEPT !.chats = @ \cup {call[h].id}])

HasChat(chat_id) == chat_id \in work.chats

\* ... and one INSERT for each participant; chat_id REFERENCES chats.
InsertMember(h) ==
    /\ At(h, "insertMember")
    /\ open
    /\ LET u == Asked(h).participants[call[h].pc - 2]
       IN  IF HasChat(call[h].id)
           THEN Exec(h, [work EXCEPT !.members = @ \cup {MemberRow(call[h].id, u)}])
           ELSE Leave(h, "INTERNAL", <<>>)

\* SendMessage: the INSERT; chat_id REFERENCES chats.
InsertMessage(h) ==
    /\ At(h, "insertMessage")
    /\ open
    /\ IF HasChat(Asked(h).chat_id)
       THEN Exec(h, [work EXCEPT !.messages = Append(@, MessageRow(call[h].id, Asked(h)))])
       ELSE Leave(h, "INTERNAL", <<>>)

\* GetHistory: the database refuses a negative LIMIT or OFFSET.
GetHistory(h) ==
    /\ At(h, "selectPage")
    /\ open
    /\ IF Asked(h).limit < 0 \/ Asked(h).offset < 0
       THEN Leave(h, "INTERNAL", <<>>)
       ELSE Leave(h, "OK", Page(work.messages, Asked(h)))

\* Mutated: the handler returns without calling commit.
CommitForgotten(h) == At(h, "commit") /\ open /\ Rollback /\ Proceed(h)

\* w.commit().  Outside a transaction COMMIT is a warning, and commits nothing.
Commit(h) == /\ At(h, "commit")
             /\ open
             /\ tables' = work
             /\ inTx' = FALSE
             /\ trans' = NoHandler
             /\ Proceed(h)
             /\ UNCHANGED <<work, open, events>>

\* RedisClient::publish connects anew, and gives up silently if it cannot.
Publish(h) ==
    /\ At(h, "publish")
    /\ \/ UNCHANGED events
       \/ events' = Append(events, [channel |-> Asked(h).sender, message_id |-> call[h].id])
    /\ Proceed(h)
    /\ UNCHANGED <<tables, work, connection>>

-----------------------------------------------------------------------------
(***************************************************************************)
(* Failures.  Nothing opens the connection again but a new process.        *)
(***************************************************************************)

\* The connection breaks.  A COMMIT that was under way may have been executed.
LoseConnection ==
    /\ open
    /\ faults < MaxFaults
    /\ \/ UNCHANGED tables
       \/ /\ \E h \in Handler : At(h, "commit")
          /\ tables' = work
    /\ work' = tables'
    /\ inTx' = FALSE
    /\ open' = FALSE
    /\ faults' = faults + 1
    /\ UNCHANGED <<asked, call, replies, trans, events>>

\* pqxx throws at the next statement a handler sends.
Broken(h) ==
    /\ ~ open
    /\ Serving(h) /\ Program(Asked(h))[call[h].pc] \notin {"newToken", "publish"}
    /\ IF At(h, "begin")
       THEN Answer(h, "INTERNAL", <<>>) /\ UNCHANGED <<tables, work, connection, events>>
       ELSE Leave(h, "INTERNAL", <<>>)

\* The server is restarted: its calls are gone, main() opens a new connection.
Restart ==
    /\ faults < MaxFaults
    /\ call' = [h \in Handler |-> Idle]
    /\ work' = tables
    /\ inTx' = FALSE
    /\ trans' = NoHandler
    /\ open' = TRUE
    /\ faults' = faults + 1
    /\ UNCHANGED <<asked, replies, tables, events>>

-----------------------------------------------------------------------------
Init == /\ asked = <<>>
        /\ call = [h \in Handler |-> Idle]
        /\ replies = <<>>
        /\ tables = EmptyTables
        /\ work = EmptyTables
        /\ inTx = FALSE
        /\ trans = NoHandler
        /\ open = TRUE
        /\ events = <<>>
        /\ faults = 0

\* Everything a handler does but begin its transaction.
Step(h) == \/ \E req \in Request : Accept(h, req)
           \/ Refresh(h)
           \/ InsertUser(h) \/ InsertPreKey(h) \/ SelectHash(h)
           \/ UploadPreKey(h) \/ GetPreKey(h)
           \/ InsertChat(h) \/ InsertMember(h)
           \/ InsertMessage(h) \/ Publish(h) \/ GetHistory(h)
           \/ Commit(h) \/ Broken(h)

SerialNext == \/ \E h \in Handler : Begin(h) \/ Step(h)
              \/ LoseConnection
              \/ Restart

SerialSpec == Init /\ [][SerialNext]_vars

-----------------------------------------------------------------------------
(***************************************************************************)
(* Properties.                                                             *)
(***************************************************************************)

Id == 1 .. Len(asked)

\* The types, and what the UNIQUE constraints of the schema say of the rows.
TypeOK == /\ asked \in Seq(Request)
          /\ \A h \in Handler : call[h] # Idle =>
                /\ call[h].id \in Id
                /\ call[h].pc \in 1 .. Len(Program(Asked(h)))
                /\ call[h].after \in 0 .. Len(replies)
          /\ inTx \in BOOLEAN /\ open \in BOOLEAN
          /\ trans \in Handler \cup {NoHandler}
          /\ faults \in 0 .. MaxFaults
          /\ \A a, b \in work.users : a.username = b.username => a = b
          /\ \A a, b \in work.prekeys : IsKeyOf(a, b) => a = b

PreKeyStored(req) == \E row \in tables.prekeys : IsKeyOf(row, req)

UserStored(req) == UserRow(req) \in tables.users

MembersStored(id) == \A i \in 1 .. Len(asked[id].participants) :
    [chat_id |-> id, username |-> asked[id].participants[i]] \in tables.members

MessageStored(id) == \E k \in 1 .. Len(tables.messages) : tables.messages[k].id = id

\* What an OK answer to call id tells its caller.
EffectStored(id) ==
    CASE asked[id].rpc = "Register"     -> UserStored(asked[id]) /\ PreKeyStored(asked[id])
      [] asked[id].rpc = "UploadPreKey" -> PreKeyStored(asked[id])
      [] asked[id].rpc = "CreateChat"   -> id \in tables.chats /\ MembersStored(id)
      [] asked[id].rpc = "SendMessage"  -> MessageStored(id)
      [] OTHER -> TRUE

\* A handler answers OK only for what is in the database, and it stays there
\* whatever other handlers, restarts and lost connections do.
AckedIsStored ==
    \A k \in 1 .. Len(replies) : replies[k].status = "OK" => EffectStored(replies[k].id)

\* The rows that one Register or one CreateChat writes are there together or
\* not at all: no user without a pre-key, no chat without its members.
WritesAreWhole ==
    /\ \A row \in tables.users : \E key \in tables.prekeys : key.username = row.username
    /\ \A id \in tables.chats : MembersStored(id)

\* An event names a message that every reader of the database can find.
EventImpliesStored ==
    \A k \in 1 .. Len(events) : MessageStored(events[k].message_id)

\* GetPreKey answers with the keys of one upload for that user, never with the
\* pre-key of one and the identity key of another.  It hands out their text
\* form: the bytes that were uploaded reach no client.
KeysStayPaired ==
    \A k \in 1 .. Len(replies) :
        LET r == replies[k]
        IN  asked[r.id].rpc = "GetPreKey" /\ r.status = "OK" =>
              \E id \in Id :
                /\ asked[id].rpc = "UploadPreKey"
                /\ asked[id].username = asked[r.id].username
                /\ r.rows = <<[pre_key      |-> Hex(asked[id].pre_key),
                               identity_key |-> Hex(asked[id].identity_key)]>>

IsPage(k) == asked[replies[k].id].rpc = "GetHistory" /\ replies[k].status = "OK"

Position(message) ==
    CHOOSE i \in 1 .. Len(tables.messages) : tables.messages[i].id = message.id

\* What GetHistory returns is committed: no message is seen and then gone.  It
\* is one of the chat that was asked for, and names the sender and (as text) the
\* ciphertext of the call that sent it.
HistoryIsCommitted ==
    \A k \in 1 .. Len(replies) : IsPage(k) =>
        \A i \in 1 .. Len(replies[k].rows) :
            LET message == replies[k].rows[i]
                sent == asked[message.id]
            IN  /\ MessageStored(message.id)
                /\ message.chat_id = asked[replies[k].id].chat_id
                /\ message.chat_id = sent.chat_id
                /\ message.sender = sent.sender
                /\ message.ciphertext = Hex(sent.ciphertext)

\* Page b was asked for after page a was answered, and starts where a ended.
Follows(b, a) ==
    LET ra == asked[replies[a].id]
        rb == asked[replies[b].id]
    IN  /\ IsPage(a) /\ IsPage(b) /\ a <= replies[b].after
        /\ rb.chat_id = ra.chat_id /\ rb.offset = ra.offset + ra.limit /\ rb.limit > 0
        /\ replies[a].rows # <<>>

\* Whoever pages through a chat with growing offsets misses no message, even if
\* new ones arrive between two pages (some are then seen twice).
PagesLeaveNoGap ==
    \A a, b \in 1 .. Len(replies) : Follows(b, a) =>
        \A i \in 1 .. Len(tables.messages) :
            /\ tables.messages[i].chat_id = asked[replies[a].id].chat_id
            /\ i < Position(Last(replies[a].rows))
            => replies[b].rows # <<>> /\ i <= Position(Head(replies[b].rows))

\* Login gives the answer that belongs to the password: a user who registered
\* is not turned away (auth_service.cpp:32, "recompute and compare").
RegisteredCanLogIn ==
    \A k \in 1 .. Len(replies) :
        LET req == asked[replies[k].id]
        IN  req.rpc = "Login" /\ replies[k].status = "UNAUTHENTICATED" =>
              ~ \E row \in tables.users :
                   /\ row.username = req.username
                   /\ row.password_hash = hash_password(req.password)

\* The answers as their callers get them.
Answers == [k \in 1 .. Len(replies) |->
    [id |-> replies[k].id, status |-> replies[k].status, rows |-> replies[k].rows]]

Atomic == INSTANCE AtomicServer WITH answers <- Answers

\* Statements of several handlers, broken connections and restarts in between,
\* the server does what AtomicServer does: one step for each call that writes,
\* and answers that belong to the database of the moment.
ImplementsAtomicServer == Atomic!Spec
=============================================================================

-------------------------------- MODULE Tables --------------------------------
(***************************************************************************)
(* The tables of server/migrations/001_init.sql as sets of rows (messages  *)
(* in the order they were inserted), what the statements of the handlers   *)
(* do to them, and the conversions between rows, requests and responses.   *)
(***************************************************************************)
EXTENDS Integers, Sequences, FiniteSetsExt, SequencesExt

CONSTANT NULL    \* an SQL NULL

EmptyTables == [users |-> {}, prekeys |-> {}, chats |-> {}, members |-> {},
                messages |-> <<>>]

\* as<std::string>() of a bytea column: PostgreSQL's text form, not the bytes.
Hex(bytes) == <<"hex", bytes>>

hash_password(password) == <<"argon2id", password>>

verify_password(password, hash) == hash_password(password) = hash

UserRow(req) == [username |-> req.username,
                 password_hash |-> hash_password(req.password),
                 identity_key |-> req.identity_key]

IsKeyOf(row, req) == row.username = req.username /\ row.device_id = req.device_id

\* Register's second INSERT gives no identity_key.
FirstPreKeyRow(req) == [username |-> req.username, device_id |-> req.device_id,
                        pre_key |-> req.pre_key, identity_key |-> NULL]

PreKeyRow(req) == [username |-> req.username, device_id |-> req.device_id,
                   pre_key |-> req.pre_key, identity_key |-> req.identity_key]

\* Mutated: DO UPDATE leaves the identity key of the existing row alone.
UpsertPreKeyOnly(prekeys, req) ==
    LET old == {row \in prekeys : IsKeyOf(row, req)}
        ik  == IF old = {} THEN req.identity_key ELSE (CHOOSE row \in old : TRUE).identity_key
    IN  (prekeys \ old) \cup {[PreKeyRow(req) EXCEPT !.identity_key = ik]}

\* Mutated: the INSERT has no ON CONFLICT, and the table no UNIQUE.
UpsertPreKeyAppend(prekeys, req) == prekeys \cup {PreKeyRow(req)}

\* INSERT ... ON CONFLICT (username, device_id) DO UPDATE.
UpsertPreKey(prekeys, req) ==
    {row \in prekeys : ~ IsKeyOf(row, req)} \cup {PreKeyRow(req)}

\* The places of a chat's messages, and how many of them are as new as place i.
OfChat(messages, chat_id) == {i \in 1 .. Len(messages) : messages[i].chat_id = chat_id}

Rank(places, i) == Cardinality({j \in places : j >= i})

\* Mutated: ORDER BY created_at, without DESC.
OldestFirst(messages, chat_id) ==
    LET places == OfChat(messages, chat_id)
    IN  [k \in 1 .. Cardinality(places) |->
            messages[CHOOSE i \in places : Rank(places, i) = Cardinality(places) + 1 - k]]

\* ORDER BY created_at DESC: the row in place k has k - 1 newer ones.
NewestFirst(messages, chat_id) ==
    LET places == OfChat(messages, chat_id)
    IN  [k \in 1 .. Cardinality(places) |->
            messages[CHOOSE i \in places : Rank(places, i) = k]]

\* Metadata, which is stored and returned as it is, and the times are left out.
MessageRow(id, req) == [id |-> id, chat_id |-> req.chat_id, sender |-> req.sender,
                        ciphertext |-> req.ciphertext]

\* A message as GetHistory returns it: its ciphertext is the text form too.
ReadMessage(row) == [id |-> row.id, chat_id |-> row.chat_id, sender |-> row.sender,
                     ciphertext |-> Hex(row.ciphertext)]

\* Mutated: the offset is taken for the number of a page.
PageByNumber(messages, req) ==
    LET rows == NewestFirst(messages, req.chat_id)
        skip == req.limit * req.offset
    IN  [i \in 1 .. Min({req.limit, Len(rows) - Min({skip, Len(rows)})}) |-> ReadMessage(rows[skip + i])]

\* LIMIT limit OFFSET offset, and the messages that are made of the rows.
Page(messages, req) ==
    LET rows == NewestFirst(messages, req.chat_id)
    IN  [i \in 1 .. Min({req.limit, Len(rows) - Min({req.offset, Len(rows)})})
           |-> ReadMessage(rows[req.offset + i])]

MemberRow(id, username) == [chat_id |-> id, username |-> username]

\* as<std::string>() of a NULL throws, hence no bundle without an identity key;
\* of the others it is the text form of the keys, not the keys.
Bundle(row) == [pre_key |-> Hex(row.pre_key), identity_key |-> Hex(row.identity_key)]
=============================================================================

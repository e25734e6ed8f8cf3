----------------------------- MODULE ServerProofs -----------------------------
(***************************************************************************)
(* Proofs about the unary handlers, for any number of threads, calls and   *)
(* faults.  ServerInv is inductive: m_trans names the one handler that is  *)
(* between the construction of its pqxx::work and its end, and what the    *)
(* connection then sees is the committed database and what the call of     *)
(* that handler has written so far.  Hence a commit adds the effect of one *)
(* call, whole, and each step of Server is a step of AtomicServer or none. *)
(* DataInv, of the database, the answers and the events, is shown of the   *)
(* steps of AtomicServer, and so holds of Server.  At the end, what is     *)
(* left of it when handlers race (ServerRace).                             *)
(***************************************************************************)
EXTENDS ServerRace, TLAPS

-----------------------------------------------------------------------------
(***************************************************************************)
(* The programs.                                                           *)
(***************************************************************************)

LEMMA AuthPrograms ==
    ASSUME NEW req \in Request
    PROVE  /\ req.rpc = "Register" =>
                Program(req) = <<"begin", "insertUser", "insertPreKey", "commit">>
           /\ req.rpc = "Login" => Program(req) = <<"begin", "selectHash">>
           /\ req.rpc = "Refresh" => Program(req) = <<"newToken">>
<1>1. req.rpc \in {"Register", "Login", "Refresh"} => Program(req) = AuthProgram[req.rpc]
  BY DEF Program, AuthProgram, KeyProgram
<1> QED BY <1>1 DEF AuthProgram

LEMMA KeyPrograms ==
    ASSUME NEW req \in Request
    PROVE  /\ req.rpc = "UploadPreKey" => Program(req) = <<"begin", "upsertPreKey", "commit">>
           /\ req.rpc = "GetPreKey" => Program(req) = <<"begin", "selectPreKey">>
  BY DEF Program, AuthProgram, KeyProgram

LEMMA ChatPrograms ==
    ASSUME NEW req \in Request
    PROVE  /\ req.rpc = "CreateChat" => Program(req) = CreateChat(req.participants)
           /\ req.rpc = "SendMessage" =>
                Program(req) = <<"begin", "insertMessage", "commit", "publish">>
           /\ req.rpc = "GetHistory" => Program(req) = <<"begin", "selectPage">>
  BY DEF Program, AuthProgram, KeyProgram, SendMessage

LEMMA CreateChatProgram ==
    ASSUME NEW participants \in Seq(STRING)
    PROVE  LET program == CreateChat(participants)
               n == Len(participants)
           IN  /\ Len(program) = n + 3
               /\ program[1] = "begin"
               /\ program[2] = "insertChat"
               /\ \A i \in 3 .. n + 2 : program[i] = "insertMember"
               /\ program[n + 3] = "commit"
  BY DEF CreateChat

\* Which program a statement is part of, and where it stands in it.
Placed(req, pc) ==
    LET step == Program(req)[pc]
        last == Len(Program(req))
    IN  /\ last \in Nat
        /\ step = "begin" <=> req.rpc # "Refresh" /\ pc = 1
        /\ step = "begin" => last > 1
        /\ step = "newToken" <=> req.rpc = "Refresh"
        /\ step = "newToken" => pc = last
        /\ step = "insertUser" => req.rpc = "Register" /\ pc = 2 /\ last = 4
        /\ step = "insertPreKey" => req.rpc = "Register" /\ pc = 3 /\ last = 4
        /\ step = "selectHash" => req.rpc = "Login" /\ pc = 2
        /\ step = "upsertPreKey" => req.rpc = "UploadPreKey" /\ pc = 2 /\ last = 3
        /\ step = "selectPreKey" => req.rpc = "GetPreKey" /\ pc = 2
        /\ step = "insertChat" => /\ req.rpc = "CreateChat" /\ pc = 2
                                  /\ last = Len(req.participants) + 3
        /\ step = "insertMember" => /\ req.rpc = "CreateChat" /\ pc > 2
                                    /\ pc < last /\ last = Len(req.participants) + 3
        /\ step = "insertMessage" => req.rpc = "SendMessage" /\ pc = 2 /\ last = 4
        /\ step = "selectPage" => req.rpc = "GetHistory" /\ pc = 2
        /\ step = "publish" <=> req.rpc = "SendMessage" /\ pc = 4
        /\ step = "publish" => pc = last
        /\ step = "commit" =>
              \/ req.rpc = "Register" /\ pc = 4 /\ pc = last
              \/ req.rpc = "UploadPreKey" /\ pc = 3 /\ pc = last
              \/ /\ req.rpc = "CreateChat" /\ pc = last
                 /\ last = Len(req.participants) + 3
              \/ req.rpc = "SendMessage" /\ pc = 3 /\ last = 4

LEMMA Placing ==
    ASSUME NEW req \in Request, NEW pc \in 1 .. Len(Program(req))
    PROVE  Placed(req, pc)
<1>1. CASE req.rpc \in {"Register", "Login", "Refresh"}
  <2>1. CASE req.rpc = "Register"
    <3>1. Program(req) = <<"begin", "insertUser", "insertPreKey", "commit">>
      BY <2>1, AuthPrograms
    <3> QED BY <2>1, <3>1 DEF Placed
  <2>2. CASE req.rpc = "Login"
    <3>1. Program(req) = <<"begin", "selectHash">>
      BY <2>2, AuthPrograms
    <3> QED BY <2>2, <3>1 DEF Placed
  <2>3. CASE req.rpc = "Refresh"
    <3>1. Program(req) = <<"newToken">>
      BY <2>3, AuthPrograms
    <3> QED BY <2>3, <3>1 DEF Placed
  <2> QED BY <1>1, <2>1, <2>2, <2>3
<1>2. CASE req.rpc \in {"UploadPreKey", "GetPreKey"}
  <2>1. CASE req.rpc = "UploadPreKey"
    <3>1. Program(req) = <<"begin", "upsertPreKey", "commit">>
      BY <2>1, KeyPrograms
    <3> QED BY <2>1, <3>1 DEF Placed
  <2>2. CASE req.rpc = "GetPreKey"
    <3>1. Program(req) = <<"begin", "selectPreKey">>
      BY <2>2, KeyPrograms
    <3> QED BY <2>2, <3>1 DEF Placed
  <2> QED BY <1>2, <2>1, <2>2
<1>3. CASE req.rpc = "CreateChat"
  <2> DEFINE n == Len(req.participants)
             program == Program(req)
  <2>1. req.participants \in Seq(STRING) /\ n \in Nat
    BY <1>3, RequestAssumption
  <2>2. program = CreateChat(req.participants)
    BY <1>3, ChatPrograms
  <2>3. /\ Len(program) = n + 3
        /\ program[1] = "begin"
        /\ program[2] = "insertChat"
        /\ \A i \in 3 .. n + 2 : program[i] = "insertMember"
        /\ program[n + 3] = "commit"
    BY <2>1, <2>2, CreateChatProgram
  <2>4. \/ pc = 1 /\ program[pc] = "begin"
        \/ pc = 2 /\ program[pc] = "insertChat"
        \/ pc > 2 /\ pc < n + 3 /\ program[pc] = "insertMember"
        \/ pc = n + 3 /\ program[pc] = "commit"
    BY <2>1, <2>3
  <2>5. Len(program) = n + 3
    BY <2>3
  <2> QED BY <1>3, <2>1, <2>4, <2>5 DEF Placed
<1>4. CASE req.rpc = "SendMessage"
  <2>1. Program(req) = <<"begin", "insertMessage", "commit", "publish">>
    BY <1>4, ChatPrograms
  <2> QED BY <1>4, <2>1 DEF Placed
<1>5. CASE req.rpc = "GetHistory"
  <2>1. Program(req) = <<"begin", "selectPage">>
    BY <1>5, ChatPrograms
  <2> QED BY <1>5, <2>1 DEF Placed
<1> QED BY <1>1, <1>2, <1>3, <1>4, <1>5, RequestAssumption DEF Rpc

-----------------------------------------------------------------------------
(***************************************************************************)
(* Sequences that grow.                                                    *)
(***************************************************************************)

IsSeq(s) == s \in Seq({s[k] : k \in 1 .. Len(s)})

LEMMA Appended ==
    ASSUME NEW s, NEW e, IsSeq(s)
    PROVE  LET t == Append(s, e)
           IN  /\ IsSeq(t)
               /\ Len(s) \in Nat /\ Len(t) = Len(s) + 1
               /\ \A k \in 1 .. Len(s) : t[k] = s[k]
               /\ t[Len(s) + 1] = e
<1> DEFINE S == {s[k] : k \in 1 .. Len(s)}
           t == Append(s, e)
           T == {t[k] : k \in 1 .. Len(t)}
<1>1. s \in Seq(S \cup {e})
  BY DEF IsSeq
<1>2. /\ t \in Seq(S \cup {e})
      /\ Len(s) \in Nat /\ Len(t) = Len(s) + 1
      /\ \A k \in 1 .. Len(s) : t[k] = s[k]
      /\ t[Len(s) + 1] = e
  BY <1>1
<1>3. t \in Seq(T)
  <2>1. \A k \in 1 .. Len(t) : t[k] \in T
    OBVIOUS
  <2> HIDE DEF t, T
  <2>2. t = [k \in 1 .. Len(t) |-> t[k]] /\ Len(t) \in Nat
    BY <1>2
  <2> QED BY <2>1, <2>2
<1> QED BY <1>2, <1>3 DEF IsSeq

LEMMA AppendedId ==
    ASSUME NEW s, NEW e, IsSeq(s), NEW i
    PROVE  (\E k \in 1 .. Len(Append(s, e)) : Append(s, e)[k].id = i)
              <=> (\E k \in 1 .. Len(s) : s[k].id = i) \/ e.id = i
<1> DEFINE t == Append(s, e)
           n == Len(s)
<1>1. /\ n \in Nat /\ Len(t) = n + 1
      /\ \A k \in 1 .. n : t[k] = s[k]
      /\ t[n + 1] = e
  BY Appended
<1> HIDE DEF t, n
<1>2. 1 .. Len(t) = 1 .. n \cup {n + 1}
  BY <1>1
<1>3. (\E k \in 1 .. Len(t) : t[k].id = i) <=> (\E k \in 1 .. n : s[k].id = i) \/ e.id = i
  BY <1>1, <1>2
<1> QED BY <1>3 DEF t, n

-----------------------------------------------------------------------------
(***************************************************************************)
(* The invariant.                                                          *)
(***************************************************************************)

\* The tables as a record, the messages in a sequence.
IsDatabase(t) == /\ t = [users |-> t.users, prekeys |-> t.prekeys, chats |-> t.chats,
                         members |-> t.members, messages |-> t.messages]
                 /\ IsSeq(t.messages)

Types ==
    /\ asked \in Seq(Request)
    /\ call \in [Handler -> {Idle} \cup [id : Nat, pc : Nat, after : Nat]]
    /\ IsSeq(replies) /\ IsSeq(events)
    /\ IsDatabase(tables) /\ IsDatabase(work)
    /\ inTx \in BOOLEAN /\ open \in BOOLEAN
    /\ trans \in Handler \cup {NoHandler}
    /\ faults \in 0 .. MaxFaults

\* A serving handler is somewhere in the program of a call that was made.
Places == \A h \in Handler : Serving(h) =>
    /\ call[h].id \in Id
    /\ call[h].pc \in 1 .. Len(Program(Asked(h)))
    /\ call[h].after \in 0 .. Len(replies)

Unanswered(id) == \A k \in 1 .. Len(replies) : replies[k].id # id

\* No call is served twice, and none that has its answer is served still.
Separate ==
    /\ \A g, h \in Handler : Serving(g) /\ Serving(h) /\ g # h => call[g].id # call[h].id
    /\ \A h \in Handler : Serving(h) => Unanswered(call[h].id)
    /\ \A k \in 1 .. Len(replies) : replies[k].id \in Id

\* Between the construction of a pqxx::work and its commit or destruction.
InTransaction(h) ==
    /\ Serving(h)
    /\ Asked(h).rpc # "Refresh"
    /\ call[h].pc > 1
    /\ ~ (Asked(h).rpc = "SendMessage" /\ call[h].pc = 4)

\* m_trans names the one handler that is in a transaction.
Registered == \A h \in Handler : trans = h <=> InTransaction(h)

\* PostgreSQL has a transaction open for that handler, or sees what is committed.
Connected == /\ inTx <=> open /\ trans # NoHandler
             /\ ~ inTx => work = tables

MemberRows(id, n) == {MemberRow(id, asked[id].participants[i]) : i \in 1 .. n}

UserFree(req) == \A row \in tables.users : row.username # req.username

KeyFree(req) == \A row \in tables.prekeys : ~ IsKeyOf(row, req)

\* w is what the transaction of call id sees when it comes to statement pc.
Wrote(w, id, pc) ==
    LET req == asked[id]
    IN  /\ pc = 2 => w = tables
        /\ req.rpc = "Register" /\ pc = 3 =>
              /\ UserFree(req)
              /\ w = [tables EXCEPT !.users = @ \cup {UserRow(req)}]
        /\ req.rpc = "Register" /\ pc = 4 =>
              /\ UserFree(req) /\ KeyFree(req)
              /\ w = [tables EXCEPT !.users = @ \cup {UserRow(req)},
                                       !.prekeys = @ \cup {FirstPreKeyRow(req)}]
        /\ req.rpc = "UploadPreKey" /\ pc = 3 =>
              w = [tables EXCEPT !.prekeys = UpsertPreKey(@, req)]
        /\ req.rpc = "CreateChat" /\ pc > 2 =>
              w = [tables EXCEPT !.chats = @ \cup {id},
                                    !.members = @ \cup MemberRows(id, pc - 3)]
        /\ req.rpc = "SendMessage" /\ pc = 3 =>
              /\ req.chat_id \in tables.chats
              /\ w = [tables EXCEPT !.messages = Append(@, MessageRow(id, req))]

\* A commit writes the effect of its own call, whole, and of no other.
Written == \A h \in Handler :
    open /\ InTransaction(h) => Wrote(work, call[h].id, call[h].pc)

\* A message is stored by its own call, when it commits, and announced after that.
Messages ==
    /\ \A k \in 1 .. Len(tables.messages) : tables.messages[k].id \in Id
    /\ \A h \in Handler : Serving(h) /\ Asked(h).rpc = "SendMessage" =>
          /\ open /\ call[h].pc <= 3 => ~ MessageStored(call[h].id)
          /\ call[h].pc = 4 => MessageStored(call[h].id)

ServerInv == /\ Types /\ Places /\ Separate
             /\ Registered /\ Connected /\ Written /\ Messages

-----------------------------------------------------------------------------
(***************************************************************************)
(* What a step of one handler does to the calls being served.              *)
(***************************************************************************)

LEMMA ServingPlaced ==
    ASSUME Types, Places, NEW h \in Handler, Serving(h)
    PROVE  /\ call[h] \in [id : Nat, pc : Nat, after : Nat]
           /\ call[h].id \in Id /\ call[h].pc \in Nat /\ call[h].pc > 0
           /\ Asked(h) \in Request
           /\ call[h].pc <= Len(Program(Asked(h)))
           /\ Placed(Asked(h), call[h].pc)
<1>1. /\ call[h] \in [id : Nat, pc : Nat, after : Nat]
      /\ call[h].id \in Id
      /\ call[h].pc \in 1 .. Len(Program(Asked(h)))
  BY DEF Types, Places, Serving
<1>2. Asked(h) \in Request
  BY <1>1 DEF Types, Asked, Id
<1>3. Placed(Asked(h), call[h].pc)
  BY <1>1, <1>2, Placing
<1>4. Len(Program(Asked(h))) \in Nat
  BY <1>3 DEF Placed
<1>5. call[h].pc > 0 /\ call[h].pc <= Len(Program(Asked(h))) /\ call[h].pc \in Nat
  BY <1>1, <1>4
<1> QED BY <1>1, <1>2, <1>3, <1>5

LEMMA OthersStay ==
    ASSUME asked' = asked, NEW g \in Handler, call'[g] = call[g]
    PROVE  /\ Serving(g)' <=> Serving(g)
           /\ Asked(g)' = Asked(g)
           /\ InTransaction(g)' <=> InTransaction(g)
  BY DEF Serving, Asked, InTransaction

\* The handler returns: its call has its only answer.
LEMMA Answering ==
    ASSUME Types, Places, Separate,
           NEW h \in Handler, Serving(h), NEW status, NEW rows, Answer(h, status, rows)
    PROVE  /\ asked' = asked /\ faults' = faults
           /\ call' \in [Handler -> {Idle} \cup [id : Nat, pc : Nat, after : Nat]]
           /\ ~ Serving(h)'
           /\ \A g \in Handler \ {h} : call'[g] = call[g]
           /\ IsSeq(replies)'
           /\ Places' /\ Separate'
<1> DEFINE r == [id |-> call[h].id, status |-> status, rows |-> rows, after |-> call[h].after]
<1>1. /\ asked' = asked /\ faults' = faults
      /\ call' = [call EXCEPT ![h] = Idle]
      /\ replies' = Append(replies, r)
  BY DEF Answer
<1>2. /\ call' \in [Handler -> {Idle} \cup [id : Nat, pc : Nat, after : Nat]]
      /\ call'[h] = Idle
      /\ \A g \in Handler \ {h} : call'[g] = call[g]
  BY <1>1 DEF Types
<1>3. /\ IsSeq(replies')
      /\ Len(replies) \in Nat /\ Len(replies') = Len(replies) + 1
      /\ \A k \in 1 .. Len(replies) : replies'[k] = replies[k]
      /\ replies'[Len(replies) + 1] = r
  BY <1>1, Appended DEF Types
<1>4. call[h].id \in Id /\ r.id = call[h].id
  BY DEF Places
<1>5. Places'
  <2> SUFFICES ASSUME NEW g \in Handler, Serving(g)'
               PROVE  /\ call'[g].id \in Id'
                      /\ call'[g].pc \in 1 .. Len(Program(Asked(g)'))
                      /\ call'[g].after \in 0 .. Len(replies')
    BY DEF Places
  <2>1. g # h
    BY <1>2 DEF Serving
  <2>2. call'[g] = call[g] /\ Serving(g) /\ Asked(g)' = Asked(g)
    BY <2>1, <1>1, <1>2, OthersStay
  <2>3. /\ call[g].id \in Id
        /\ call[g].pc \in 1 .. Len(Program(Asked(g)))
        /\ call[g].after \in 0 .. Len(replies)
    BY <2>2 DEF Places
  <2> QED BY <2>2, <2>3, <1>1, <1>3 DEF Id
<1>6. Separate'
  <2>1. \A g \in Handler : Serving(g)' => g # h /\ Serving(g) /\ call'[g] = call[g]
    BY <1>2 DEF Serving
  <2>2. \A f, g \in Handler : Serving(f)' /\ Serving(g)' /\ f # g => call'[f].id # call'[g].id
    BY <2>1 DEF Separate
  <2>3. \A k \in 1 .. Len(replies') : replies'[k].id \in Id'
    BY <1>1, <1>3, <1>4 DEF Separate, Id
  <2>4. ASSUME NEW g \in Handler, Serving(g)', NEW k \in 1 .. Len(replies')
        PROVE  replies'[k].id # call'[g].id
    <3>1. g # h /\ Serving(g) /\ call'[g] = call[g]
      BY <2>1, <2>4
    <3>2. CASE k \in 1 .. Len(replies)
      BY <3>1, <3>2, <1>3 DEF Separate, Unanswered
    <3>3. CASE k = Len(replies) + 1
      BY <3>1, <3>3, <1>3, <1>4 DEF Separate
    <3> QED BY <3>2, <3>3, <1>3
  <2> QED BY <2>2, <2>3, <2>4 DEF Separate, Unanswered
<1> QED BY <1>1, <1>2, <1>3, <1>5, <1>6 DEF Serving

\* The handler goes on to its next statement.
LEMMA Proceeding ==
    ASSUME Types, Places, Separate,
           NEW h \in Handler, Serving(h),
           call[h].pc < Len(Program(Asked(h))), Proceed(h)
    PROVE  /\ asked' = asked /\ faults' = faults /\ replies' = replies
           /\ call' \in [Handler -> {Idle} \cup [id : Nat, pc : Nat, after : Nat]]
           /\ Serving(h)' /\ Asked(h)' = Asked(h)
           /\ call'[h].id = call[h].id /\ call'[h].pc = call[h].pc + 1
           /\ \A g \in Handler \ {h} : call'[g] = call[g]
           /\ Places' /\ Separate'
<1>1. /\ asked' = asked /\ faults' = faults /\ replies' = replies
      /\ call' = [call EXCEPT ![h].pc = @ + 1]
  <2>1. call[h].pc # Len(Program(Asked(h)))
    <3>1. call[h].pc \in Nat /\ Placed(Asked(h), call[h].pc)
      BY ServingPlaced
    <3> QED BY <3>1 DEF Placed
  <2> QED BY <2>1 DEF Proceed
<1>2. call[h] \in [id : Nat, pc : Nat, after : Nat]
  BY DEF Types, Serving
<1>3. /\ call'[h] = [call[h] EXCEPT !.pc = @ + 1]
      /\ \A g \in Handler \ {h} : call'[g] = call[g]
  BY <1>1 DEF Types
<1>4. /\ call'[h] \in [id : Nat, pc : Nat, after : Nat]
      /\ call'[h].id = call[h].id /\ call'[h].pc = call[h].pc + 1
      /\ call'[h].after = call[h].after
  BY <1>2, <1>3
<1>5. call' \in [Handler -> {Idle} \cup [id : Nat, pc : Nat, after : Nat]]
  BY <1>1, <1>3, <1>4 DEF Types
<1>6. Serving(h)' /\ Asked(h)' = Asked(h)
  BY <1>1, <1>4, ServerAssumption DEF Serving, Asked
<1>7. Places'
  <2> SUFFICES ASSUME NEW g \in Handler, Serving(g)'
               PROVE  /\ call'[g].id \in Id'
                      /\ call'[g].pc \in 1 .. Len(Program(Asked(g)'))
                      /\ call'[g].after \in 0 .. Len(replies')
    BY DEF Places
  <2>1. CASE g = h
    <3>1. /\ call[h].id \in Id
          /\ call[h].pc \in 1 .. Len(Program(Asked(h)))
          /\ call[h].after \in 0 .. Len(replies)
      BY DEF Places
    <3>2. Placed(Asked(h), call[h].pc)
      BY ServingPlaced
    <3>3. Len(Program(Asked(h))) \in Nat
      BY <3>2 DEF Placed
    <3>4. call'[h].pc \in 1 .. Len(Program(Asked(h)))
      BY <1>4, <3>1, <3>3
    <3> QED BY <2>1, <3>1, <3>4, <1>1, <1>4, <1>6 DEF Id
  <2>2. CASE g # h
    <3>1. call'[g] = call[g] /\ Serving(g) /\ Asked(g)' = Asked(g)
      BY <2>2, <1>1, <1>3, OthersStay
    <3> QED BY <3>1, <1>1 DEF Places, Id
  <2> QED BY <2>1, <2>2
<1>8. Separate'
  <2>1. \A g \in Handler : Serving(g)' => Serving(g) /\ call'[g].id = call[g].id
    BY <1>3, <1>4 DEF Serving
  <2>2. /\ \A f, g \in Handler : Serving(f)' /\ Serving(g)' /\ f # g => call'[f].id # call'[g].id
        /\ \A g \in Handler : Serving(g)' => \A k \in 1 .. Len(replies) : replies[k].id # call'[g].id
    BY <2>1 DEF Separate, Unanswered
  <2> QED BY <2>2, <1>1 DEF Separate, Unanswered, Id
<1> QED BY <1>1, <1>3, <1>4, <1>5, <1>6, <1>7, <1>8

-----------------------------------------------------------------------------
(***************************************************************************)
(* The invariant, for each kind of step.                                   *)
(***************************************************************************)

\* A handler that holds no transaction answers.
LEMMA AnswerOutside ==
    ASSUME ServerInv, NEW h \in Handler, Serving(h), ~ InTransaction(h),
           NEW status, NEW rows, Answer(h, status, rows),
           UNCHANGED <<tables, work, connection>>, IsSeq(events)'
    PROVE  ServerInv'
<1> USE DEF ServerInv
<1>1. /\ asked' = asked /\ faults' = faults
      /\ call' \in [Handler -> {Idle} \cup [id : Nat, pc : Nat, after : Nat]]
      /\ ~ Serving(h)'
      /\ \A g \in Handler \ {h} : call'[g] = call[g]
      /\ IsSeq(replies)'
      /\ Places' /\ Separate'
  BY Answering
<1>2. tables' = tables /\ work' = work /\ inTx' = inTx /\ trans' = trans /\ open' = open
  BY DEF connection
<1>3. Types'
  BY <1>1, <1>2 DEF Types
<1>4. \A g \in Handler : Serving(g)' => Serving(g) /\ call'[g] = call[g] /\ Asked(g)' = Asked(g)
  BY <1>1, OthersStay
<1>5. \A g \in Handler : InTransaction(g)' <=> InTransaction(g)
  <2> TAKE g \in Handler
  <2>1. CASE g = h
    BY <2>1, <1>1 DEF InTransaction
  <2>2. CASE g # h
    BY <2>2, <1>1, OthersStay
  <2> QED BY <2>1, <2>2
<1>6. Registered' /\ Connected'
  <2>1. Registered'
    BY <1>2, <1>5 DEF Registered
  <2>2. Connected'
    BY <1>2 DEF Connected
  <2> QED BY <2>1, <2>2
<1>7. Written'
  <2> SUFFICES ASSUME NEW g \in Handler, open', InTransaction(g)'
               PROVE  Wrote(work, call[g].id, call[g].pc)'
    BY DEF Written
  <2>1. InTransaction(g) /\ call'[g] = call[g]
    BY <1>4, <1>5 DEF InTransaction
  <2>2. Wrote(work, call[g].id, call[g].pc)
    BY <2>1, <1>2 DEF Written
  <2> QED BY <2>1, <2>2, <1>1, <1>2 DEF Wrote, UserFree, KeyFree, MemberRows
<1>8. Messages'
  BY <1>1, <1>2, <1>4 DEF Messages, MessageStored, Id
<1> QED BY <1>1, <1>3, <1>6, <1>7, <1>8

\* A handler ends without a commit.
LEMMA LeaveStep ==
    ASSUME ServerInv, NEW h \in Handler, InTransaction(h),
           NEW status, NEW rows, Leave(h, status, rows)
    PROVE  ServerInv'
<1> USE DEF ServerInv
<1>0. Serving(h) /\ Answer(h, status, rows) /\ Rollback
  BY DEF InTransaction, Leave
<1>1. /\ asked' = asked /\ faults' = faults
      /\ call' \in [Handler -> {Idle} \cup [id : Nat, pc : Nat, after : Nat]]
      /\ ~ Serving(h)'
      /\ \A g \in Handler \ {h} : call'[g] = call[g]
      /\ IsSeq(replies)'
      /\ Places' /\ Separate'
  BY <1>0, Answering
<1>2. /\ work' = tables /\ tables' = tables /\ inTx' = FALSE /\ trans' = NoHandler
      /\ open' = open /\ events' = events
  BY <1>0 DEF Rollback
<1>3. Types'
  BY <1>1, <1>2 DEF Types
<1>4. \A g \in Handler : Serving(g)' => Serving(g) /\ call'[g] = call[g] /\ Asked(g)' = Asked(g)
  BY <1>1, OthersStay
<1>5. \A g \in Handler : ~ InTransaction(g)'
  <2> TAKE g \in Handler
  <2>1. CASE g = h
    BY <2>1, <1>1 DEF InTransaction
  <2>2. CASE g # h
    <3>1. ~ InTransaction(g)
      BY <2>2 DEF Registered
    <3> QED BY <2>2, <3>1, <1>1, OthersStay
  <2> QED BY <2>1, <2>2
<1>6. Registered' /\ Connected'
  <2>1. Registered'
    BY <1>2, <1>5, ServerAssumption DEF Registered
  <2>2. Connected'
    BY <1>2 DEF Connected
  <2> QED BY <2>1, <2>2
<1>7. Written'
  BY <1>5 DEF Written
<1>8. Messages'
  BY <1>1, <1>2, <1>4 DEF Messages, MessageStored, Id
<1> QED BY <1>1, <1>3, <1>6, <1>7, <1>8

\* A statement of a transaction.
LEMMA ExecStep ==
    ASSUME ServerInv, NEW h \in Handler, InTransaction(h), NEW new, Exec(h, new),
           call[h].pc < Len(Program(Asked(h))),
           Asked(h).rpc = "SendMessage" => call[h].pc = 2,
           IsDatabase(new),
           Wrote(new, call[h].id, call[h].pc + 1)
    PROVE  ServerInv'
<1> USE DEF ServerInv
<1>0. Serving(h) /\ Proceed(h)
  BY DEF InTransaction, Exec
<1>1. /\ asked' = asked /\ faults' = faults /\ replies' = replies
      /\ call' \in [Handler -> {Idle} \cup [id : Nat, pc : Nat, after : Nat]]
      /\ Serving(h)' /\ Asked(h)' = Asked(h)
      /\ call'[h].id = call[h].id /\ call'[h].pc = call[h].pc + 1
      /\ \A g \in Handler \ {h} : call'[g] = call[g]
      /\ Places' /\ Separate'
  BY <1>0, Proceeding
<1>2. trans = h /\ inTx
  <2>1. trans = h
    BY DEF Registered
  <2>2. open
    BY DEF Exec
  <2> QED BY <2>1, <2>2, ServerAssumption DEF Connected
<1>3. /\ work' = new /\ tables' = tables /\ inTx' = inTx /\ trans' = trans
      /\ open' = open /\ events' = events
  BY <1>2 DEF Exec, connection
<1>4. Types'
  BY <1>1, <1>3 DEF Types
<1>5. \A g \in Handler \ {h} : /\ Serving(g)' <=> Serving(g)
                               /\ Asked(g)' = Asked(g)
                               /\ InTransaction(g)' <=> InTransaction(g)
  BY <1>1, OthersStay
<1>6. call[h].pc \in Nat
  BY <1>0, ServingPlaced
<1>7. InTransaction(h)'
  BY <1>1, <1>6 DEF InTransaction
<1>8. Registered' /\ Connected'
  <2>1. Registered'
    BY <1>3, <1>5, <1>7 DEF Registered
  <2>2. Connected'
    BY <1>2, <1>3 DEF Connected
  <2> QED BY <2>1, <2>2
<1>9. Written'
  <2>1. \A g \in Handler \ {h} : ~ InTransaction(g)'
    BY <1>5, <1>2 DEF Registered
  <2>2. Wrote(work, call[h].id, call[h].pc)'
    BY <1>1, <1>3 DEF Wrote, UserFree, KeyFree, MemberRows
  <2> QED BY <2>1, <2>2 DEF Written
<1>10. Messages'
  <2>1. \A g \in Handler : \A i \in Nat : MessageStored(i)' <=> MessageStored(i)
    BY <1>3 DEF MessageStored
  <2>2. Asked(h).rpc = "SendMessage" =>
           (open => ~ MessageStored(call[h].id))
    BY <1>0 DEF Messages
  <2> QED BY <1>1, <1>3, <1>5, <2>2 DEF Messages, MessageStored, Id
<1> QED BY <1>1, <1>4, <1>8, <1>9, <1>10

\* A pqxx::work is constructed.
LEMMA RegisterStep ==
    ASSUME ServerInv, NEW h \in Handler, At(h, "begin"), open, trans = NoHandler,
           RegisterTransaction(h)
    PROVE  ServerInv'
<1> USE DEF ServerInv
<1>0. Serving(h) /\ Proceed(h)
  BY DEF At, RegisterTransaction
<1>1. /\ call[h].pc = 1 /\ Asked(h).rpc # "Refresh"
      /\ call[h].pc < Len(Program(Asked(h)))
  <2>1. Placed(Asked(h), call[h].pc) /\ Program(Asked(h))[call[h].pc] = "begin"
    BY <1>0, ServingPlaced DEF At
  <2> QED BY <2>1 DEF Placed
<1>2. /\ asked' = asked /\ faults' = faults /\ replies' = replies
      /\ call' \in [Handler -> {Idle} \cup [id : Nat, pc : Nat, after : Nat]]
      /\ Serving(h)' /\ Asked(h)' = Asked(h)
      /\ call'[h].id = call[h].id /\ call'[h].pc = 2
      /\ \A g \in Handler \ {h} : call'[g] = call[g]
      /\ Places' /\ Separate'
  BY <1>0, <1>1, Proceeding
<1>3. /\ work' = work /\ tables' = tables /\ inTx' = TRUE /\ trans' = h
      /\ open' = open /\ events' = events
  BY DEF RegisterTransaction
<1>4. Types'
  BY <1>2, <1>3 DEF Types
<1>5. \A g \in Handler \ {h} : /\ Serving(g)' <=> Serving(g)
                               /\ Asked(g)' = Asked(g)
                               /\ InTransaction(g)' <=> InTransaction(g)
  BY <1>2, OthersStay
<1>6. InTransaction(h)' /\ \A g \in Handler \ {h} : ~ InTransaction(g)'
  BY <1>1, <1>2, <1>5, ServerAssumption DEF InTransaction, Registered
<1>7. Registered' /\ Connected'
  <2>1. Registered'
    BY <1>3, <1>6 DEF Registered
  <2>2. Connected'
    BY <1>3, ServerAssumption DEF Connected
  <2> QED BY <2>1, <2>2
<1>8. Written'
  <2>1. work = tables
    BY DEF Connected
  <2>2. Wrote(work, call[h].id, call[h].pc)'
    BY <2>1, <1>2, <1>3 DEF Wrote
  <2> QED BY <2>2, <1>6 DEF Written
<1>9. Messages'
  <2>1. Asked(h).rpc = "SendMessage" => ~ MessageStored(call[h].id)
    BY <1>0, <1>1 DEF Messages
  <2> QED BY <2>1, <1>2, <1>3, <1>5 DEF Messages, MessageStored, Id
<1> QED BY <1>2, <1>4, <1>7, <1>8, <1>9

StoredIn(t, id) == \E k \in 1 .. Len(t.messages) : t.messages[k].id = id

\* A handler at its commit is in the transaction, all that its call has to write
\* is written, and of messages there is at most its own more.
LEMMA AtCommit ==
    ASSUME ServerInv, NEW h \in Handler, At(h, "commit"), open
    PROVE  /\ Serving(h) /\ InTransaction(h) /\ trans = h /\ inTx
           /\ Asked(h) \in Request /\ call[h].id \in Id /\ call[h].pc \in Nat
           /\ Wrote(work, call[h].id, call[h].pc)
           /\ Asked(h).rpc # "SendMessage" => call[h].pc = Len(Program(Asked(h)))
           /\ Asked(h).rpc = "SendMessage" =>
                call[h].pc = 3 /\ Len(Program(Asked(h))) = 4
           /\ \/ Asked(h).rpc = "Register" /\ call[h].pc = 4
              \/ Asked(h).rpc = "UploadPreKey" /\ call[h].pc = 3
              \/ /\ Asked(h).rpc = "CreateChat" /\ Asked(h).participants \in Seq(STRING)
                 /\ call[h].pc = Len(Asked(h).participants) + 3
              \/ Asked(h).rpc = "SendMessage" /\ call[h].pc = 3
           /\ \A i : StoredIn(work, i) <=>
                \/ StoredIn(tables, i)
                \/ Asked(h).rpc = "SendMessage" /\ i = call[h].id
<1> USE DEF ServerInv
<1> DEFINE id == call[h].id
           pc == call[h].pc
           req == Asked(h)
<1>1. Serving(h) /\ Program(req)[pc] = "commit"
  BY DEF At
<1>2. /\ Placed(req, pc) /\ pc \in Nat /\ req \in Request
      /\ id \in Id
  BY <1>1, ServingPlaced
<1>3. /\ req.rpc # "SendMessage" => pc = Len(Program(req))
      /\ req.rpc = "SendMessage" => pc = 3 /\ Len(Program(req)) = 4
      /\ \/ req.rpc = "Register" /\ pc = 4
         \/ req.rpc = "UploadPreKey" /\ pc = 3
         \/ /\ req.rpc = "CreateChat" /\ req.participants \in Seq(STRING)
            /\ pc = Len(req.participants) + 3
         \/ req.rpc = "SendMessage" /\ pc = 3
  BY <1>1, <1>2, RequestAssumption DEF Placed
<1>4. InTransaction(h)
  BY <1>1, <1>3 DEF InTransaction
<1>5. trans = h /\ inTx /\ Wrote(work, id, pc)
  BY <1>4, ServerAssumption DEF Registered, Connected, Written
<1>6. req = asked[id] /\ IsDatabase(tables)
  BY DEF Asked, Types
<1>7. \A i : StoredIn(work, i) <=>
         \/ StoredIn(tables, i)
         \/ req.rpc = "SendMessage" /\ i = id
  <2> HIDE DEF id, pc, req
  <2>1. CASE req.rpc = "SendMessage"
    <3> DEFINE row == MessageRow(id, req)
    <3>1. work.messages = Append(tables.messages, row) /\ IsSeq(tables.messages)
      BY <2>1, <1>3, <1>5, <1>6 DEF Wrote, IsDatabase
    <3>2. row.id = id
      BY DEF MessageRow
    <3> HIDE DEF row
    <3> QED BY <2>1, <3>1, <3>2, AppendedId DEF StoredIn
  <2>2. CASE req.rpc = "Register" /\ pc = 4
    <3>1. work.messages = tables.messages
      BY <2>2, <1>5, <1>6 DEF Wrote, IsDatabase
    <3> QED BY <2>2, <3>1 DEF StoredIn
  <2>3. CASE req.rpc = "UploadPreKey" /\ pc = 3
    <3>1. work.messages = tables.messages
      BY <2>3, <1>5, <1>6 DEF Wrote, IsDatabase
    <3> QED BY <2>3, <3>1 DEF StoredIn
  <2>4. CASE /\ req.rpc = "CreateChat" /\ req.participants \in Seq(STRING)
             /\ pc = Len(req.participants) + 3
    <3>1. pc > 2
      BY <2>4
    <3>2. work.messages = tables.messages
      BY <2>4, <3>1, <1>5, <1>6 DEF Wrote, IsDatabase
    <3> QED BY <2>4, <3>2 DEF StoredIn
  <2> QED BY <2>1, <2>2, <2>3, <2>4, <1>3
<1> QED BY <1>1, <1>2, <1>3, <1>4, <1>5, <1>7

\* What h has written becomes what everyone sees; h answers, or still has to
\* announce a message.
LEMMA CommitStep ==
    ASSUME ServerInv, NEW h \in Handler, Commit(h)
    PROVE  ServerInv'
<1> USE DEF ServerInv
<1>1. Serving(h) /\ Proceed(h) /\ At(h, "commit") /\ open
  BY DEF At, Commit
<1>2. /\ call[h].id \in Id /\ trans = h
      /\ Asked(h).rpc # "SendMessage" => call[h].pc = Len(Program(Asked(h)))
      /\ Asked(h).rpc = "SendMessage" => call[h].pc = 3 /\ Len(Program(Asked(h))) = 4
      /\ \A i : StoredIn(work, i) <=>
           \/ StoredIn(tables, i)
           \/ Asked(h).rpc = "SendMessage" /\ i = call[h].id
  BY <1>1, AtCommit
<1>3. /\ tables' = work /\ work' = work /\ inTx' = FALSE /\ trans' = NoHandler
      /\ open' = open /\ events' = events
  BY DEF Commit
<1>4. /\ asked' = asked /\ faults' = faults /\ IsSeq(replies)'
      /\ call' \in [Handler -> {Idle} \cup [id : Nat, pc : Nat, after : Nat]]
      /\ \A g \in Handler \ {h} : call'[g] = call[g]
      /\ Places' /\ Separate'
      /\ \/ ~ Serving(h)'
         \/ /\ Serving(h)' /\ Asked(h)' = Asked(h) /\ Asked(h).rpc = "SendMessage"
            /\ call'[h].id = call[h].id /\ call'[h].pc = 4
  <2>1. CASE Asked(h).rpc # "SendMessage"
    <3>1. Answer(h, "OK", <<>>)
      BY <2>1, <1>1, <1>2 DEF Proceed
    <3> QED BY <3>1, <1>1, Answering
  <2>2. CASE Asked(h).rpc = "SendMessage"
    <3>1. call[h].pc < Len(Program(Asked(h))) /\ call[h].pc = 3
      <4>1. call[h].pc = 3 /\ Len(Program(Asked(h))) = 4
        BY <2>2, <1>2
      <4> QED BY <4>1
    <3>2. IsSeq(replies)
      BY DEF Types
    <3> QED BY <2>2, <3>1, <3>2, <1>1, Proceeding
  <2> QED BY <2>1, <2>2
<1>5. Types'
  BY <1>3, <1>4 DEF Types
<1>6. \A g \in Handler \ {h} : /\ Serving(g)' <=> Serving(g)
                               /\ Asked(g)' = Asked(g)
                               /\ InTransaction(g)' <=> InTransaction(g)
  BY <1>4, OthersStay
<1>7. \A g \in Handler : ~ InTransaction(g)'
  BY <1>2, <1>4, <1>6 DEF InTransaction, Registered
<1>8. Registered' /\ Connected' /\ Written'
  <2>1. Registered'
    BY <1>3, <1>7, ServerAssumption DEF Registered
  <2>2. Connected'
    BY <1>3 DEF Connected
  <2> QED BY <2>1, <2>2, <1>7 DEF Written
<1>9. Messages'
  <2>1. \A i : StoredIn(tables', i) <=>
          \/ StoredIn(tables, i)
          \/ Asked(h).rpc = "SendMessage" /\ i = call[h].id
    BY <1>2, <1>3
  <2>2. \A k \in 1 .. Len(tables'.messages) : tables'.messages[k].id \in Id'
    <3>1. Id' = Id
      BY <1>4 DEF Id
    <3>2. \A i : StoredIn(tables, i) => i \in Id
      BY DEF StoredIn, Messages
    <3>3. \A i : StoredIn(tables', i) => i \in Id
      BY <2>1, <3>2, <1>2
    <3> QED BY <3>1, <3>3 DEF StoredIn
  <2>3. ASSUME NEW g \in Handler, Serving(g)', Asked(g)'.rpc = "SendMessage"
        PROVE  /\ open' /\ call'[g].pc <= 3 => ~ StoredIn(tables', call'[g].id)
               /\ call'[g].pc = 4 => StoredIn(tables', call'[g].id)
    <3>1. CASE g = h
      BY <2>3, <3>1, <2>1, <1>4
    <3>2. CASE g # h
      <4>1. call'[g] = call[g] /\ Serving(g) /\ Asked(g).rpc = "SendMessage"
        BY <2>3, <3>2, <1>4, <1>6
      <4>2. call[g].id # call[h].id
        BY <3>2, <4>1, <1>1 DEF Separate
      <4>3. /\ open /\ call[g].pc <= 3 => ~ StoredIn(tables, call[g].id)
            /\ call[g].pc = 4 => StoredIn(tables, call[g].id)
        BY <4>1 DEF Messages, MessageStored, StoredIn
      <4> QED BY <4>1, <4>2, <4>3, <2>1, <1>3
    <3> QED BY <3>1, <3>2
  <2> QED BY <2>2, <2>3 DEF Messages, MessageStored, StoredIn
<1> QED BY <1>4, <1>5, <1>8, <1>9

\* A call arrives.
\* A call arrives; it has the next id.
LEMMA Accepting ==
    ASSUME Types, Places, Separate, NEW h \in Handler, NEW req \in Request, Accept(h, req)
    PROVE  /\ asked' \in Seq(Request) /\ Len(asked') = Len(asked) + 1 /\ Len(asked) \in Nat
           /\ \A i \in Id : asked'[i] = asked[i]
           /\ call[h] = Idle /\ call'[h] = [id |-> Len(asked) + 1, pc |-> 1, after |-> Len(replies)]
           /\ Serving(h)' /\ Asked(h)' = req /\ ~ InTransaction(h)' /\ ~ InTransaction(h)
           /\ \A g \in Handler \ {h} : /\ call'[g] = call[g]
                                       /\ Serving(g)' <=> Serving(g)
                                       /\ Serving(g) => Asked(g)' = Asked(g)
                                       /\ InTransaction(g)' <=> InTransaction(g)
           /\ Types' /\ Places' /\ Separate'
<1> DEFINE new == [id |-> Len(asked) + 1, pc |-> 1, after |-> Len(replies)]
<1>1. /\ call[h] = Idle
      /\ asked' = Append(asked, req)
      /\ call' = [call EXCEPT ![h] = new]
      /\ replies' = replies /\ tables' = tables /\ work' = work /\ events' = events
      /\ inTx' = inTx /\ trans' = trans /\ open' = open /\ faults' = faults
  BY DEF Accept, connection
<1>2. Len(replies) \in Nat /\ Len(asked) \in Nat
  BY DEF Types, IsSeq
<1>3. /\ asked' \in Seq(Request) /\ Len(asked') = Len(asked) + 1
      /\ \A i \in Id : asked'[i] = asked[i]
      /\ asked'[Len(asked) + 1] = req
  BY <1>1 DEF Types, Id
<1>4. new \in [id : Nat, pc : Nat, after : Nat]
  BY <1>2
<1>5. /\ call'[h] = new /\ \A g \in Handler \ {h} : call'[g] = call[g]
      /\ call' \in [Handler -> {Idle} \cup [id : Nat, pc : Nat, after : Nat]]
  BY <1>1, <1>4 DEF Types
<1>6. Types'
  BY <1>1, <1>3, <1>5 DEF Types
<1>7. \A g \in Handler \ {h} : /\ Serving(g)' <=> Serving(g)
                               /\ Serving(g) => Asked(g)' = Asked(g)
                               /\ InTransaction(g)' <=> InTransaction(g)
  BY <1>3, <1>5 DEF Serving, Asked, InTransaction, Places
<1>8. Serving(h)' /\ Asked(h)' = req /\ ~ InTransaction(h)' /\ ~ InTransaction(h)
  BY <1>1, <1>3, <1>4, <1>5, ServerAssumption DEF Serving, Asked, InTransaction
<1>9. Places'
  <2>1. Len(Program(req)) \in Nat /\ Len(Program(req)) > 0
    <3>1. CASE req.rpc = "CreateChat"
      <4>1. req.participants \in Seq(STRING) /\ Program(req) = CreateChat(req.participants)
        BY <3>1, ChatPrograms, RequestAssumption
      <4>2. Len(CreateChat(req.participants)) = Len(req.participants) + 3
        BY <4>1, CreateChatProgram
      <4> QED BY <4>1, <4>2
    <3>2. CASE req.rpc # "CreateChat"
      <4>1. Program(req) \in
              {<<"begin", "insertUser", "insertPreKey", "commit">>, <<"begin", "selectHash">>,
               <<"newToken">>, <<"begin", "upsertPreKey", "commit">>, <<"begin", "selectPreKey">>,
               <<"begin", "insertMessage", "commit", "publish">>, <<"begin", "selectPage">>}
        BY <3>2, AuthPrograms, KeyPrograms, ChatPrograms, RequestAssumption DEF Rpc
      <4> QED BY <4>1
    <3> QED BY <3>1, <3>2
  <2>2. ASSUME NEW g \in Handler, Serving(g)'
        PROVE  /\ call'[g].id \in 1 .. Len(asked')
               /\ call'[g].pc \in 1 .. Len(Program(Asked(g)'))
               /\ call'[g].after \in 0 .. Len(replies')
    <3>1. CASE g = h
      BY <3>1, <2>1, <1>1, <1>2, <1>3, <1>5, <1>8
    <3>2. CASE g # h
      <4>1. call'[g] = call[g] /\ Serving(g) /\ Asked(g)' = Asked(g)
        BY <2>2, <3>2, <1>5, <1>7
      <4> QED BY <4>1, <1>1, <1>2, <1>3 DEF Places, Id
    <3> QED BY <3>1, <3>2
  <2> QED BY <2>2 DEF Places, Id
<1>10. Separate'
  <2>1. \A g \in Handler \ {h} : Serving(g)' => call'[g].id = call[g].id /\ call[g].id \in Id /\ Serving(g)
    BY <1>5, <1>7 DEF Places
  <2>2. call'[h].id = Len(asked) + 1 /\ call'[h].id \notin Id
    BY <1>2, <1>5 DEF Id
  <2>3. \A f, g \in Handler : Serving(f)' /\ Serving(g)' /\ f # g => call'[f].id # call'[g].id
    BY <2>1, <2>2 DEF Separate
  <2>4. \A k \in 1 .. Len(replies) : replies[k].id \in Id'
    BY <1>2, <1>3 DEF Separate, Id
  <2>5. \A g \in Handler : Serving(g)' => \A k \in 1 .. Len(replies) : replies[k].id # call'[g].id
    BY <2>1, <2>2 DEF Separate, Unanswered
  <2> QED BY <2>3, <2>4, <2>5, <1>1 DEF Separate, Unanswered
<1> QED BY <1>1, <1>2, <1>3, <1>5, <1>6, <1>7, <1>8, <1>9, <1>10

LEMMA AcceptStep ==
    ASSUME ServerInv, NEW h \in Handler, NEW req \in Request, Accept(h, req)
    PROVE  ServerInv'
<1> USE DEF ServerInv
<1> DEFINE new == [id |-> Len(asked) + 1, pc |-> 1, after |-> Len(replies)]
<1>1. /\ replies' = replies /\ tables' = tables /\ work' = work /\ events' = events
      /\ inTx' = inTx /\ trans' = trans /\ open' = open /\ faults' = faults
  BY DEF Accept, connection
<1>2. Len(asked') = Len(asked) + 1 /\ Len(asked) \in Nat
  BY Accepting
<1>3. \A i \in Id : asked'[i] = asked[i]
  BY Accepting
<1>4. call'[h] = new /\ \A g \in Handler \ {h} : call'[g] = call[g]
  BY Accepting
<1>5. Types' /\ Places' /\ Separate'
  BY Accepting
<1>6. \A g \in Handler \ {h} : /\ Serving(g)' <=> Serving(g)
                               /\ Serving(g) => Asked(g)' = Asked(g)
                               /\ InTransaction(g)' <=> InTransaction(g)
  BY Accepting
<1>7. Serving(h)' /\ ~ InTransaction(h)' /\ ~ InTransaction(h)
  BY Accepting
<1>8. Registered' /\ Connected'
  <2>1. Registered'
    BY <1>1, <1>6, <1>7 DEF Registered
  <2>2. Connected'
    BY <1>1 DEF Connected
  <2> QED BY <2>1, <2>2
<1>9. Written'
  <2> SUFFICES ASSUME NEW g \in Handler, open', InTransaction(g)'
               PROVE  Wrote(work, call[g].id, call[g].pc)'
    BY DEF Written
  <2>1. g # h /\ InTransaction(g) /\ call'[g] = call[g] /\ Serving(g)
    BY <1>4, <1>6, <1>7 DEF InTransaction
  <2>2. Wrote(work, call[g].id, call[g].pc) /\ asked'[call[g].id] = asked[call[g].id]
    BY <2>1, <1>1, <1>3 DEF Written, Places
  <2> QED BY <2>1, <2>2, <1>1 DEF Wrote, UserFree, KeyFree, MemberRows
<1>10. Messages'
  <2>1. \A k \in 1 .. Len(tables.messages) : tables.messages[k].id \in Id'
    BY <1>2 DEF Messages, Id
  <2>2. ~ MessageStored(Len(asked) + 1)
    BY <1>2 DEF Messages, MessageStored, Id
  <2>3. ASSUME NEW g \in Handler, Serving(g)', Asked(g)'.rpc = "SendMessage"
        PROVE  /\ open' /\ call'[g].pc <= 3 => ~ StoredIn(tables', call'[g].id)
               /\ call'[g].pc = 4 => StoredIn(tables', call'[g].id)
    <3>1. CASE g = h
      BY <3>1, <2>2, <1>1, <1>4 DEF MessageStored, StoredIn
    <3>2. CASE g # h
      BY <2>3, <3>2, <1>1, <1>4, <1>6 DEF Messages, MessageStored, StoredIn
    <3> QED BY <3>1, <3>2
  <2> QED BY <2>1, <2>3, <1>1 DEF Messages, MessageStored, StoredIn
<1> QED BY <1>5, <1>8, <1>9, <1>10

\* The connection breaks; a COMMIT under way may have been executed.
LEMMA LoseStep ==
    ASSUME ServerInv, LoseConnection
    PROVE  ServerInv'
<1> USE DEF ServerInv
<1>1. /\ asked' = asked /\ call' = call /\ replies' = replies
      /\ trans' = trans /\ events' = events
      /\ work' = tables' /\ inTx' = FALSE /\ open' = FALSE
      /\ faults' = faults + 1 /\ faults < MaxFaults /\ open
  BY DEF LoseConnection
<1>2. /\ IsDatabase(tables')
      /\ \A i : StoredIn(tables, i) => StoredIn(tables', i)
      /\ \A i : StoredIn(tables', i) => StoredIn(tables, i) \/ i \in Id
  <2>1. CASE tables' = tables
    BY <2>1 DEF Types
  <2>2. CASE tables' = work /\ \E h \in Handler : At(h, "commit")
    <3>1. PICK h \in Handler : At(h, "commit")
      BY <2>2
    <3>2. /\ call[h].id \in Id
          /\ \A i : StoredIn(work, i) <=>
                \/ StoredIn(tables, i)
                \/ Asked(h).rpc = "SendMessage" /\ i = call[h].id
      BY <3>1, <1>1, AtCommit
    <3> QED BY <2>2, <3>2 DEF Types
  <2> QED BY <2>1, <2>2 DEF LoseConnection
<1>3. Types'
  <2>1. faults' \in 0 .. MaxFaults
    BY <1>1, ServerAssumption DEF Types
  <2>2. IsDatabase(tables)' /\ IsDatabase(work)'
    BY <1>1, <1>2
  <2>3. IsSeq(replies)' /\ IsSeq(events)'
    BY <1>1 DEF Types
  <2> QED BY <1>1, <2>1, <2>2, <2>3 DEF Types
<1>4. \A g \in Handler : /\ Serving(g)' <=> Serving(g)
                         /\ Asked(g)' = Asked(g)
                         /\ InTransaction(g)' <=> InTransaction(g)
  BY <1>1, OthersStay
<1>5. Places' /\ Separate'
  <2>1. Places'
    BY <1>1, <1>4 DEF Places, Id
  <2>2. Separate'
    BY <1>1, <1>4 DEF Separate, Unanswered, Id
  <2> QED BY <2>1, <2>2
<1>6. Registered' /\ Connected' /\ Written'
  <2>1. Registered'
    BY <1>1, <1>4 DEF Registered
  <2>2. Connected'
    BY <1>1 DEF Connected
  <2>3. Written'
    BY <1>1 DEF Written
  <2> QED BY <2>1, <2>2, <2>3
<1>7. Messages'
  <2>1. \A k \in 1 .. Len(tables'.messages) : tables'.messages[k].id \in Id'
    <3>1. \A i : StoredIn(tables, i) => i \in Id
      BY DEF Messages, StoredIn
    <3>2. \A i : StoredIn(tables', i) => i \in Id
      BY <3>1, <1>2
    <3> QED BY <3>2, <1>1 DEF StoredIn, Id
  <2>2. ASSUME NEW g \in Handler, Serving(g)', Asked(g)'.rpc = "SendMessage", call'[g].pc = 4
        PROVE  StoredIn(tables', call'[g].id)
    <3>1. StoredIn(tables, call[g].id)
      BY <2>2, <1>1, <1>4 DEF Messages, MessageStored, StoredIn
    <3> QED BY <3>1, <1>1, <1>2
  <2> QED BY <2>1, <2>2, <1>1 DEF Messages, MessageStored, StoredIn
<1> QED BY <1>3, <1>5, <1>6, <1>7

LEMMA RestartStep ==
    ASSUME ServerInv, Restart
    PROVE  ServerInv'
<1> USE DEF ServerInv
<1>1. /\ asked' = asked /\ replies' = replies /\ tables' = tables /\ events' = events
      /\ call' = [h \in Handler |-> Idle]
      /\ work' = tables /\ inTx' = FALSE /\ trans' = NoHandler /\ open' = TRUE
      /\ faults' = faults + 1 /\ faults < MaxFaults
  BY DEF Restart
<1>2. Types'
  <2>1. faults' \in 0 .. MaxFaults
    BY <1>1, ServerAssumption DEF Types
  <2>2. IsDatabase(tables)' /\ IsDatabase(work)'
    BY <1>1 DEF Types
  <2>3. IsSeq(replies)' /\ IsSeq(events)'
    BY <1>1 DEF Types
  <2>4. call' \in [Handler -> {Idle} \cup [id : Nat, pc : Nat, after : Nat]]
    BY <1>1
  <2> QED BY <1>1, <2>1, <2>2, <2>3, <2>4 DEF Types
<1>3. \A g \in Handler : ~ Serving(g)' /\ ~ InTransaction(g)'
  BY <1>1 DEF Serving, InTransaction
<1>4. Places' /\ Separate' /\ Written'
  <2>1. Places' /\ Written'
    BY <1>3 DEF Places, Written
  <2>2. Separate'
    BY <1>1, <1>3 DEF Separate, Id
  <2> QED BY <2>1, <2>2
<1>5. Registered' /\ Connected'
  <2>1. Registered'
    BY <1>1, <1>3, ServerAssumption DEF Registered
  <2>2. Connected'
    BY <1>1 DEF Connected
  <2> QED BY <2>1, <2>2
<1>6. Messages'
  BY <1>1, <1>3 DEF Messages, Id
<1> QED BY <1>2, <1>4, <1>5, <1>6

LEMMA InitInv == Init => ServerInv
<1> SUFFICES ASSUME Init PROVE ServerInv
  OBVIOUS
<1> USE DEF Init
<1>1. \A g \in Handler : ~ Serving(g) /\ ~ InTransaction(g)
  BY DEF Serving, InTransaction
<1>2. IsSeq(<<>>)
  BY DEF IsSeq
<1>3. Types
  <2>1. asked \in Seq(Request) /\ faults \in 0 .. MaxFaults
    BY ServerAssumption
  <2>2. IsDatabase(tables) /\ IsDatabase(work)
    BY <1>2 DEF IsDatabase, EmptyTables
  <2>3. call \in [Handler -> {Idle} \cup [id : Nat, pc : Nat, after : Nat]]
    OBVIOUS
  <2> QED BY <1>2, <2>1, <2>2, <2>3 DEF Types
<1>4. Places /\ Separate /\ Written /\ Messages
  <2>1. Places /\ Written
    BY <1>1 DEF Places, Written
  <2>2. Separate
    BY <1>1 DEF Separate
  <2>3. Messages
    BY <1>1 DEF Messages, EmptyTables
  <2> QED BY <2>1, <2>2, <2>3
<1>5. Registered /\ Connected
  <2>1. Registered
    BY <1>1, ServerAssumption DEF Registered
  <2>2. Connected
    BY DEF Connected
  <2> QED BY <2>1, <2>2
<1> QED BY <1>3, <1>4, <1>5 DEF ServerInv

\* A statement other than BEGIN, COMMIT, PUBLISH or a fresh token is one of a
\* transaction.
LEMMA AtStatement ==
    ASSUME ServerInv, NEW h \in Handler, NEW step, At(h, step),
           step \notin {"begin", "newToken", "publish"}
    PROVE  /\ Serving(h) /\ InTransaction(h) /\ trans = h
           /\ Asked(h) \in Request /\ call[h].id \in Id
           /\ call[h].pc \in Nat /\ call[h].pc > 1
           /\ Placed(Asked(h), call[h].pc)
           /\ Program(Asked(h))[call[h].pc] = step
           /\ open => inTx /\ Wrote(work, call[h].id, call[h].pc)
           /\ IsDatabase(work) /\ IsDatabase(tables)
<1> USE DEF ServerInv
<1>1. Serving(h) /\ Program(Asked(h))[call[h].pc] = step
  BY DEF At
<1>2. /\ Asked(h) \in Request /\ call[h].id \in Id
      /\ call[h].pc \in Nat /\ call[h].pc > 0
      /\ Placed(Asked(h), call[h].pc)
  BY <1>1, ServingPlaced
<1>3. /\ Asked(h).rpc # "Refresh" /\ call[h].pc > 1
      /\ ~ (Asked(h).rpc = "SendMessage" /\ call[h].pc = 4)
  BY <1>1, <1>2 DEF Placed
<1>4. InTransaction(h)
  BY <1>1, <1>3 DEF InTransaction
<1> QED BY <1>1, <1>2, <1>3, <1>4, ServerAssumption DEF Registered, Connected, Written, Types

\* Every statement that writes leaves its transaction with what Wrote says of
\* the next one, or the transaction is over.
LEMMA InsertUserStep ==
    ASSUME ServerInv, NEW h \in Handler, InsertUser(h)
    PROVE  ServerInv'
<1> DEFINE id == call[h].id
           pc == call[h].pc
           req == Asked(h)
           new == [work EXCEPT !.users = @ \cup {UserRow(req)}]
<1>1. At(h, "insertUser") /\ open
  BY DEF InsertUser
<1>2. /\ InTransaction(h) /\ pc \in Nat /\ IsDatabase(work) /\ IsDatabase(tables)
      /\ Placed(req, pc) /\ Program(req)[pc] = "insertUser" /\ Wrote(work, id, pc)
  BY <1>1, AtStatement
<1>3. req.rpc = "Register" /\ pc = 2 /\ Len(Program(req)) = 4
  BY <1>2 DEF Placed
<1>4. work = tables /\ req = asked[id]
  BY <1>2, <1>3 DEF Wrote, Asked
<1>5. CASE \E row \in work.users : row.username = req.username
  BY <1>2, <1>5, LeaveStep DEF InsertUser
<1>6. CASE ~ \E row \in work.users : row.username = req.username
  <2>1. Exec(h, new)
    BY <1>6 DEF InsertUser
  <2>2. IsDatabase(new)
    BY <1>2 DEF IsDatabase
  <2>3. Wrote(new, id, pc + 1)
    BY <1>3, <1>4, <1>6 DEF Wrote, UserFree
  <2>4. pc < Len(Program(req)) /\ (req.rpc = "SendMessage" => pc = 2)
    BY <1>3
  <2> QED BY <1>2, <2>1, <2>2, <2>3, <2>4, ExecStep
<1> QED BY <1>5, <1>6

LEMMA InsertPreKeyStep ==
    ASSUME ServerInv, NEW h \in Handler, InsertPreKey(h)
    PROVE  ServerInv'
<1> DEFINE id == call[h].id
           pc == call[h].pc
           req == Asked(h)
           new == [work EXCEPT !.prekeys = @ \cup {FirstPreKeyRow(req)}]
<1>1. At(h, "insertPreKey") /\ open
  BY DEF InsertPreKey
<1>2. /\ InTransaction(h) /\ pc \in Nat /\ IsDatabase(work) /\ IsDatabase(tables)
      /\ Placed(req, pc) /\ Program(req)[pc] = "insertPreKey" /\ Wrote(work, id, pc)
  BY <1>1, AtStatement
<1>3. req.rpc = "Register" /\ pc = 3 /\ Len(Program(req)) = 4
  BY <1>2 DEF Placed
<1>4. /\ req = asked[id] /\ UserFree(req)
      /\ work = [tables EXCEPT !.users = @ \cup {UserRow(req)}]
  BY <1>2, <1>3 DEF Wrote, Asked
<1>5. CASE \E row \in work.prekeys : IsKeyOf(row, req)
  BY <1>2, <1>5, LeaveStep DEF InsertPreKey
<1>6. CASE ~ \E row \in work.prekeys : IsKeyOf(row, req)
  <2>1. Exec(h, new)
    BY <1>6 DEF InsertPreKey
  <2>2. IsDatabase(new)
    BY <1>2 DEF IsDatabase
  <2>3. /\ KeyFree(req)
        /\ new = [tables EXCEPT !.users = @ \cup {UserRow(req)},
                                !.prekeys = @ \cup {FirstPreKeyRow(req)}]
    BY <1>2, <1>4, <1>6 DEF KeyFree, IsDatabase
  <2>4. Wrote(new, id, pc + 1)
    BY <1>3, <1>4, <2>3 DEF Wrote
  <2>5. pc < Len(Program(req)) /\ (req.rpc = "SendMessage" => pc = 2)
    BY <1>3
  <2> QED BY <1>2, <2>1, <2>2, <2>4, <2>5, ExecStep
<1> QED BY <1>5, <1>6

LEMMA UploadPreKeyStep ==
    ASSUME ServerInv, NEW h \in Handler, UploadPreKey(h)
    PROVE  ServerInv'
<1> DEFINE id == call[h].id
           pc == call[h].pc
           req == Asked(h)
           new == [work EXCEPT !.prekeys = UpsertPreKey(@, req)]
<1>1. At(h, "upsertPreKey") /\ Exec(h, new) /\ open
  BY DEF UploadPreKey, Exec
<1>2. /\ InTransaction(h) /\ pc \in Nat /\ IsDatabase(work) /\ IsDatabase(tables)
      /\ Placed(req, pc) /\ Program(req)[pc] = "upsertPreKey" /\ Wrote(work, id, pc)
  BY <1>1, AtStatement
<1>3. req.rpc = "UploadPreKey" /\ pc = 2 /\ Len(Program(req)) = 3
  BY <1>2 DEF Placed
<1>4. req = asked[id] /\ work = tables
  BY <1>2, <1>3 DEF Wrote, Asked
<1>5. IsDatabase(new)
  BY <1>2 DEF IsDatabase
<1>6. Wrote(new, id, pc + 1)
  BY <1>3, <1>4 DEF Wrote
<1>7. pc < Len(Program(req)) /\ (req.rpc = "SendMessage" => pc = 2)
  BY <1>3
<1> QED BY <1>1, <1>2, <1>5, <1>6, <1>7, ExecStep

LEMMA InsertChatStep ==
    ASSUME ServerInv, NEW h \in Handler, InsertChat(h)
    PROVE  ServerInv'
<1> DEFINE id == call[h].id
           pc == call[h].pc
           req == Asked(h)
           new == [work EXCEPT !.chats = @ \cup {call[h].id}]
<1>1. At(h, "insertChat") /\ Exec(h, new) /\ open
  BY DEF InsertChat, Exec
<1>2. /\ InTransaction(h) /\ pc \in Nat /\ IsDatabase(work) /\ IsDatabase(tables)
      /\ Placed(req, pc) /\ Program(req)[pc] = "insertChat" /\ Wrote(work, id, pc)
      /\ req \in Request
  BY <1>1, AtStatement
<1>3. /\ req.rpc = "CreateChat" /\ pc = 2 /\ pc < Len(Program(req))
  <2>1. req.rpc = "CreateChat" /\ pc = 2 /\ Len(Program(req)) = Len(req.participants) + 3
    BY <1>2 DEF Placed
  <2>2. Len(req.participants) \in Nat
    BY <2>1, <1>2, RequestAssumption
  <2> QED BY <2>1, <2>2
<1>4. req = asked[id] /\ work = tables
  BY <1>2, <1>3 DEF Wrote, Asked
<1>5. IsDatabase(new)
  BY <1>2 DEF IsDatabase
<1>6. MemberRows(id, 0) = {}
  BY DEF MemberRows
<1>7. new = [tables EXCEPT !.chats = @ \cup {id}, !.members = @ \cup MemberRows(id, 0)]
  BY <1>2, <1>4, <1>6 DEF IsDatabase
<1>8. Wrote(new, id, pc + 1)
  <2>1. pc + 1 = 3 /\ (pc + 1) - 3 = 0
    BY <1>3
  <2> HIDE DEF new, id, pc
  <2> QED BY <2>1, <1>3, <1>4, <1>7 DEF Wrote
<1> QED BY <1>1, <1>2, <1>3, <1>5, <1>8, ExecStep

LEMMA MembersAdded ==
    ASSUME NEW t, IsDatabase(t), NEW id, NEW rows, NEW row
    PROVE  [[t EXCEPT !.chats = @ \cup {id}, !.members = @ \cup rows]
               EXCEPT !.members = @ \cup {row}]
             = [t EXCEPT !.chats = @ \cup {id}, !.members = @ \cup (rows \cup {row})]
  BY DEF IsDatabase

LEMMA MessageAdded ==
    ASSUME NEW t, IsDatabase(t), NEW row
    PROVE  IsDatabase([t EXCEPT !.messages = Append(@, row)])
<1> DEFINE messages == Append(t.messages, row)
<1>1. IsSeq(messages)
  BY Appended DEF IsDatabase
<1> HIDE DEF messages
<1>2. IsDatabase([t EXCEPT !.messages = messages])
  BY <1>1 DEF IsDatabase
<1> QED BY <1>2 DEF messages

LEMMA InsertMemberStep ==
    ASSUME ServerInv, NEW h \in Handler, InsertMember(h)
    PROVE  ServerInv'
<1> DEFINE id == call[h].id
           pc == call[h].pc
           req == Asked(h)
           u == req.participants[pc - 2]
           new == [work EXCEPT !.members = @ \cup {MemberRow(id, u)}]
<1>1. At(h, "insertMember") /\ open
  BY DEF InsertMember
<1>2. /\ InTransaction(h) /\ pc \in Nat /\ IsDatabase(work) /\ IsDatabase(tables)
      /\ Placed(req, pc) /\ Program(req)[pc] = "insertMember" /\ Wrote(work, id, pc)
  BY <1>1, AtStatement
<1>3. req.rpc = "CreateChat" /\ pc > 2 /\ pc < Len(Program(req))
  BY <1>2 DEF Placed
<1>4. /\ req = asked[id]
      /\ work = [tables EXCEPT !.chats = @ \cup {id},
                               !.members = @ \cup MemberRows(id, pc - 3)]
  BY <1>2, <1>3 DEF Wrote, Asked
<1>5. CASE ~ HasChat(id)
  BY <1>2, <1>5, LeaveStep DEF InsertMember
<1>6. CASE HasChat(id)
  <2>1. Exec(h, new)
    BY <1>6 DEF InsertMember
  <2>2. IsDatabase(new)
    BY <1>2 DEF IsDatabase
  <2>3. MemberRows(id, pc - 2) = MemberRows(id, pc - 3) \cup {MemberRow(id, u)}
    <3>1. 1 .. (pc - 2) = 1 .. (pc - 3) \cup {pc - 2}
      BY <1>2, <1>3
    <3> QED BY <3>1, <1>4 DEF MemberRows
  <2>4. new = [tables EXCEPT !.chats = @ \cup {id},
                             !.members = @ \cup MemberRows(id, pc - 2)]
    <3>1. IsDatabase(tables)
      BY <1>2
    <3> DEFINE old == MemberRows(id, pc - 3)
               row == MemberRow(id, u)
    <3>2. new = [[tables EXCEPT !.chats = @ \cup {id}, !.members = @ \cup old]
                    EXCEPT !.members = @ \cup {row}]
      BY <1>4, Zenon
    <3>3. MemberRows(id, pc - 2) = old \cup {row}
      BY <2>3
    <3> HIDE DEF new, old, row
    <3>4. [[tables EXCEPT !.chats = @ \cup {id}, !.members = @ \cup old]
              EXCEPT !.members = @ \cup {row}]
            = [tables EXCEPT !.chats = @ \cup {id}, !.members = @ \cup (old \cup {row})]
      BY <3>1, MembersAdded, ZenonT(40)
    <3> QED BY <3>2, <3>3, <3>4, Zenon
  <2>5. Wrote(new, id, pc + 1)
    <3>1. pc + 1 > 2 /\ (pc + 1) - 3 = pc - 2 /\ pc + 1 # 2
      BY <1>2, <1>3
    <3> HIDE DEF new, id, pc
    <3> QED BY <3>1, <1>3, <1>4, <2>4 DEF Wrote
  <2>6. req.rpc # "SendMessage"
    BY <1>3
  <2> QED BY <1>2, <1>3, <2>1, <2>2, <2>5, <2>6, ExecStep
<1> QED BY <1>5, <1>6

LEMMA InsertMessageStep ==
    ASSUME ServerInv, NEW h \in Handler, InsertMessage(h)
    PROVE  ServerInv'
<1> DEFINE id == call[h].id
           pc == call[h].pc
           req == Asked(h)
           row == MessageRow(id, req)
           new == [work EXCEPT !.messages = Append(@, row)]
<1>1. At(h, "insertMessage") /\ open
  BY DEF InsertMessage
<1>2. /\ InTransaction(h) /\ pc \in Nat /\ IsDatabase(work) /\ IsDatabase(tables)
      /\ Placed(req, pc) /\ Program(req)[pc] = "insertMessage" /\ Wrote(work, id, pc)
  BY <1>1, AtStatement
<1>3. req.rpc = "SendMessage" /\ pc = 2 /\ Len(Program(req)) = 4
  BY <1>2 DEF Placed
<1>4. req = asked[id] /\ work = tables
  BY <1>2, <1>3 DEF Wrote, Asked
<1>5. CASE ~ HasChat(req.chat_id)
  BY <1>2, <1>5, LeaveStep DEF InsertMessage
<1>6. CASE HasChat(req.chat_id)
  <2>1. Exec(h, new)
    BY <1>6 DEF InsertMessage
  <2>2. IsDatabase(new)
    BY <1>2, MessageAdded
  <2>3. Wrote(new, id, pc + 1)
    BY <1>3, <1>4, <1>6 DEF Wrote, HasChat
  <2>4. pc < Len(Program(req))
    BY <1>3
  <2> QED BY <1>2, <1>3, <2>1, <2>2, <2>3, <2>4, ExecStep
<1> QED BY <1>5, <1>6

\* The statements that read end their handler.
LEMMA ReadStep ==
    ASSUME ServerInv, NEW h \in Handler, SelectHash(h) \/ GetPreKey(h) \/ GetHistory(h)
    PROVE  ServerInv'
<1>1. InTransaction(h)
  BY AtStatement DEF SelectHash, GetPreKey, GetHistory
<1>2. \E status, rows : Leave(h, status, rows)
  BY DEF SelectHash, GetPreKey, GetHistory
<1> QED BY <1>1, <1>2, LeaveStep

\* The steps of a handler that holds no transaction and goes no further.
LEMMA OutsideStep ==
    ASSUME ServerInv, NEW h \in Handler, Refresh(h) \/ Publish(h)
    PROVE  ServerInv'
<1> USE DEF ServerInv
<1>1. Serving(h) /\ Proceed(h) /\ UNCHANGED <<tables, work, connection>>
  BY DEF Refresh, Publish, At
<1>2. Placed(Asked(h), call[h].pc) /\ call[h].pc \in Nat
  BY <1>1, ServingPlaced
<1>3. Program(Asked(h))[call[h].pc] \in {"newToken", "publish"}
  BY DEF Refresh, Publish, At
<1>4. /\ Asked(h).rpc = "Refresh" \/ (Asked(h).rpc = "SendMessage" /\ call[h].pc = 4)
      /\ call[h].pc = Len(Program(Asked(h)))
  BY <1>2, <1>3 DEF Placed
<1>5. ~ InTransaction(h)
  BY <1>4 DEF InTransaction
<1>6. Answer(h, "OK", <<>>)
  BY <1>1, <1>4 DEF Proceed
<1>7. IsSeq(events)'
  <2>1. CASE Refresh(h)
    BY <2>1 DEF Refresh, Types
  <2>2. CASE Publish(h)
    <3>1. CASE events' = events
      BY <3>1 DEF Types
    <3>2. CASE events' = Append(events, [channel |-> Asked(h).sender, message_id |-> call[h].id])
      BY <3>2, Appended DEF Types
    <3> QED BY <2>2, <3>1, <3>2 DEF Publish
  <2> QED BY <2>1, <2>2
<1> QED BY <1>1, <1>5, <1>6, <1>7, AnswerOutside

LEMMA AtBegin ==
    ASSUME ServerInv, NEW h \in Handler, At(h, "begin")
    PROVE  Serving(h) /\ ~ InTransaction(h) /\ Asked(h).rpc # "Refresh"
<1> USE DEF ServerInv
<1>1. Serving(h) /\ Program(Asked(h))[call[h].pc] = "begin"
  BY DEF At
<1>2. Placed(Asked(h), call[h].pc)
  BY <1>1, ServingPlaced
<1> QED BY <1>1, <1>2 DEF Placed, InTransaction

LEMMA RefusedStep ==
    ASSUME ServerInv, NEW h \in Handler, At(h, "begin"),
           Answer(h, "INTERNAL", <<>>), UNCHANGED <<tables, work, connection, events>>
    PROVE  ServerInv'
<1>1. IsSeq(events)'
  BY DEF ServerInv, Types
<1>2. Serving(h) /\ ~ InTransaction(h)
  BY AtBegin
<1> QED BY <1>1, <1>2, AnswerOutside

LEMMA BrokenStep ==
    ASSUME ServerInv, NEW h \in Handler, Broken(h)
    PROVE  ServerInv'
<1>1. CASE At(h, "begin")
  BY <1>1, RefusedStep DEF Broken
<1>2. CASE ~ At(h, "begin")
  <2> DEFINE step == Program(Asked(h))[call[h].pc]
  <2>1. At(h, step) /\ step \notin {"begin", "newToken", "publish"} /\ Leave(h, "INTERNAL", <<>>)
    BY <1>2 DEF Broken, At
  <2> QED BY <2>1, AtStatement, LeaveStep
<1> QED BY <1>1, <1>2

LEMMA BeginStep ==
    ASSUME ServerInv, NEW h \in Handler, Begin(h)
    PROVE  ServerInv'
  BY RegisterStep, RefusedStep DEF Begin

LEMMA StutterInv ==
    ASSUME ServerInv, UNCHANGED vars
    PROVE  ServerInv'
<1> USE DEF ServerInv
<1>1. /\ asked' = asked /\ call' = call /\ replies' = replies /\ tables' = tables
      /\ work' = work /\ inTx' = inTx /\ trans' = trans /\ open' = open
      /\ events' = events /\ faults' = faults
  BY DEF vars, connection
<1>2. \A g \in Handler : /\ Serving(g)' <=> Serving(g)
                         /\ Asked(g)' = Asked(g)
                         /\ InTransaction(g)' <=> InTransaction(g)
  BY <1>1, OthersStay
<1>3. Types' /\ Places' /\ Separate'
  <2>1. Types'
    BY <1>1 DEF Types
  <2>2. Places'
    BY <1>1, <1>2 DEF Places, Id
  <2>3. Separate'
    BY <1>1, <1>2 DEF Separate, Unanswered, Id
  <2> QED BY <2>1, <2>2, <2>3
<1>4. Registered' /\ Connected'
  <2>1. Registered'
    BY <1>1, <1>2 DEF Registered
  <2>2. Connected'
    BY <1>1 DEF Connected
  <2> QED BY <2>1, <2>2
<1>5. Written'
  <2> SUFFICES ASSUME NEW g \in Handler, open', InTransaction(g)'
               PROVE  Wrote(work, call[g].id, call[g].pc)'
    BY DEF Written
  <2>1. Wrote(work, call[g].id, call[g].pc)
    BY <1>1, <1>2 DEF Written
  <2> QED BY <2>1, <1>1 DEF Wrote, UserFree, KeyFree, MemberRows
<1>6. Messages'
  BY <1>1, <1>2 DEF Messages, MessageStored, Id
<1> QED BY <1>3, <1>4, <1>5, <1>6

LEMMA NextInv ==
    ASSUME ServerInv, [SerialNext]_vars
    PROVE  ServerInv'
<1>1. CASE UNCHANGED vars
  BY <1>1, StutterInv
<1>2. ASSUME NEW h \in Handler, Begin(h) PROVE ServerInv'
  BY <1>2, BeginStep
<1>3. ASSUME NEW h \in Handler, Step(h) PROVE ServerInv'
  <2>1. ASSUME NEW req \in Request, Accept(h, req) PROVE ServerInv'
    BY <2>1, AcceptStep
  <2>2. CASE Refresh(h) \/ Publish(h)
    BY <2>2, OutsideStep
  <2>3. CASE InsertUser(h)
    BY <2>3, InsertUserStep
  <2>4. CASE InsertPreKey(h)
    BY <2>4, InsertPreKeyStep
  <2>5. CASE UploadPreKey(h)
    BY <2>5, UploadPreKeyStep
  <2>6. CASE InsertChat(h)
    BY <2>6, InsertChatStep
  <2>7. CASE InsertMember(h)
    BY <2>7, InsertMemberStep
  <2>8. CASE InsertMessage(h)
    BY <2>8, InsertMessageStep
  <2>9. CASE SelectHash(h) \/ GetPreKey(h) \/ GetHistory(h)
    BY <2>9, ReadStep
  <2>10. CASE Commit(h)
    BY <2>10, CommitStep
  <2>11. CASE Broken(h)
    BY <2>11, BrokenStep
  <2> QED BY <1>3, <2>1, <2>2, <2>3, <2>4, <2>5, <2>6, <2>7, <2>8, <2>9, <2>10, <2>11 DEF Step
<1>4. CASE LoseConnection
  BY <1>4, LoseStep
<1>5. CASE Restart
  BY <1>5, RestartStep
<1> QED BY <1>1, <1>2, <1>3, <1>4, <1>5 DEF SerialNext

-----------------------------------------------------------------------------
(***************************************************************************)
(* Every step is one of AtomicServer, or none.                             *)
(***************************************************************************)

\* AtomicServer has operators of its own for the same rows.
LEMMA SameRows ==
    ASSUME NEW req, NEW id, NEW row, NEW prekeys
    PROVE  /\ Atomic!UserRow(req) = UserRow(req)
           /\ Atomic!FirstPreKeyRow(req) = FirstPreKeyRow(req)
           /\ Atomic!PreKeyRow(req) = PreKeyRow(req)
           /\ Atomic!IsKeyOf(row, req) <=> IsKeyOf(row, req)
           /\ Atomic!UpsertPreKey(prekeys, req) = UpsertPreKey(prekeys, req)
           /\ Atomic!MemberRow(id, req) = MemberRow(id, req)
           /\ Atomic!MessageRow(id, req) = MessageRow(id, req)
           /\ Atomic!Bundle(row) = Bundle(row)
  BY DEF Atomic!UserRow, UserRow, Atomic!hash_password, hash_password,
     Atomic!FirstPreKeyRow, FirstPreKeyRow, Atomic!PreKeyRow, PreKeyRow,
     Atomic!IsKeyOf, IsKeyOf, Atomic!UpsertPreKey, UpsertPreKey,
     Atomic!MemberRow, MemberRow, Atomic!MessageRow, MessageRow,
     Atomic!Bundle, Bundle, Atomic!Hex, Hex

LEMMA SamePage ==
    ASSUME NEW messages, NEW req
    PROVE  Atomic!Page(messages, req) = Page(messages, req)
  BY Zenon DEF Atomic!Page, Page, Atomic!NewestFirst, NewestFirst,
     Atomic!ReadMessage, ReadMessage, Atomic!Hex, Hex, Atomic!OfChat, OfChat, Atomic!Rank, Rank, Atomic!Min, Min,
     Atomic!Cardinality, Cardinality

LEMMA PendingCall ==
    ASSUME ServerInv, NEW h \in Handler, Serving(h)
    PROVE  /\ call[h].id \in Atomic!Call /\ Atomic!Pending(call[h].id)
           /\ Asked(h) = asked[call[h].id] /\ Asked(h) \in Request
<1>1. call[h].id \in Id /\ Unanswered(call[h].id)
  BY DEF ServerInv, Places, Separate
<1>2. Len(replies) \in Nat
  BY DEF ServerInv, Types, IsSeq
<1>3. Atomic!Pending(call[h].id)
  BY <1>1, <1>2 DEF Atomic!Pending, Unanswered, Answers
<1>4. Asked(h) = asked[call[h].id] /\ Asked(h) \in Request
  BY <1>1 DEF ServerInv, Types, Asked, Id
<1> QED BY <1>1, <1>3, <1>4 DEF Atomic!Call, Id

LEMMA AnswersGrow ==
    ASSUME ServerInv, NEW h \in Handler, Serving(h), NEW status, NEW rows,
           Answer(h, status, rows)
    PROVE  Answers' = Append(Answers, [id |-> call[h].id, status |-> status, rows |-> rows])
<1> DEFINE r == [id |-> call[h].id, status |-> status, rows |-> rows, after |-> call[h].after]
           a == [id |-> call[h].id, status |-> status, rows |-> rows]
           n == Len(replies)
<1>1. replies' = Append(replies, r)
  BY DEF Answer
<1>2. /\ n \in Nat /\ Len(replies') = n + 1
      /\ \A k \in 1 .. n : replies'[k] = replies[k]
      /\ replies'[n + 1] = r
  BY <1>1, Appended DEF ServerInv, Types
<1>3. /\ Answers' = [k \in 1 .. n + 1 |->
                        [id |-> replies'[k].id, status |-> replies'[k].status,
                         rows |-> replies'[k].rows]]
  BY <1>2 DEF Answers
<1>4. Answers' = [k \in 1 .. n + 1 |-> IF k = n + 1 THEN a ELSE Answers[k]]
  BY <1>2, <1>3 DEF Answers
<1>5. IsSeq(Answers) /\ Len(Answers) = n
  BY <1>2 DEF Answers, IsSeq
<1>6. Append(Answers, a) = [k \in 1 .. n + 1 |-> IF k = n + 1 THEN a ELSE Answers[k]]
  <2> HIDE DEF a, n
  <2> DEFINE t == Append(Answers, a)
  <2>1. /\ IsSeq(t) /\ Len(t) = n + 1
        /\ \A k \in 1 .. n : t[k] = Answers[k]
        /\ t[n + 1] = a
    BY <1>5, Appended
  <2> HIDE DEF t
  <2>2. t = [k \in 1 .. n + 1 |-> t[k]]
    BY <2>1 DEF IsSeq
  <2>3. ASSUME NEW k \in 1 .. n + 1
        PROVE  t[k] = IF k = n + 1 THEN a ELSE Answers[k]
    BY <2>1, <1>2
  <2>4. t = [k \in 1 .. n + 1 |-> IF k = n + 1 THEN a ELSE Answers[k]]
    BY <2>2, <2>3, Zenon
  <2> QED BY <2>4 DEF t
<1> QED BY <1>4, <1>6

LEMMA AnswerRefined ==
    ASSUME ServerInv, NEW h \in Handler, Serving(h), NEW status, NEW rows,
           Answer(h, status, rows), tables' = tables, events' = events,
           NEW answer \in Atomic!Answers(call[h].id),
           answer.status = status, answer.rows = rows
    PROVE  Atomic!Next
<1>1. /\ call[h].id \in Atomic!Call /\ Atomic!Pending(call[h].id)
  BY PendingCall
<1>2. Atomic!Give(call[h].id, answer)
  BY AnswersGrow DEF Atomic!Give
<1>3. Atomic!Reply(call[h].id)
  BY <1>1, <1>2 DEF Atomic!Reply, Answer
<1> QED BY <1>1, <1>3 DEF Atomic!Next

LEMMA InternalAllowed ==
    ASSUME ServerInv, NEW h \in Handler, Serving(h), Asked(h).rpc # "Refresh"
    PROVE  /\ Atomic!Error("INTERNAL") \in Atomic!Answers(call[h].id)
           /\ Atomic!Error("INTERNAL").status = "INTERNAL"
           /\ Atomic!Error("INTERNAL").rows = <<>>
<1>1. Asked(h) = asked[call[h].id]
  BY DEF Asked
<1> QED BY <1>1 DEF Atomic!Answers, Atomic!Error

LEMMA InternalRefined ==
    ASSUME ServerInv, NEW h \in Handler, Serving(h), Asked(h).rpc # "Refresh",
           Answer(h, "INTERNAL", <<>>), tables' = tables, events' = events
    PROVE  Atomic!Next
  BY InternalAllowed, AnswerRefined

LEMMA LeaveRefined ==
    ASSUME ServerInv, NEW h \in Handler, InTransaction(h), Leave(h, "INTERNAL", <<>>)
    PROVE  Atomic!Next
<1>1. Serving(h) /\ Asked(h).rpc # "Refresh"
  BY DEF InTransaction
<1>2. Answer(h, "INTERNAL", <<>>) /\ tables' = tables /\ events' = events
  BY DEF Leave, Rollback
<1> QED BY <1>1, <1>2, InternalRefined

\* The statements of a transaction change nothing that is committed.
LEMMA ExecRefined ==
    ASSUME ServerInv, NEW h \in Handler, InTransaction(h), NEW new, Exec(h, new),
           call[h].pc # Len(Program(Asked(h)))
    PROVE  UNCHANGED Atomic!vars
<1>1. inTx
  BY ServerAssumption DEF Exec, ServerInv, Registered, Connected
<1>2. /\ asked' = asked /\ replies' = replies /\ tables' = tables /\ events' = events
  BY <1>1 DEF Exec, Proceed
<1> QED BY <1>2 DEF Atomic!vars, Answers

LEMMA CommitApplies ==
    ASSUME ServerInv, NEW h \in Handler, At(h, "commit"), open, tables' = work
    PROVE  LET id == call[h].id
           IN  \/ Atomic!Register(id) \/ Atomic!UploadPreKey(id)
               \/ Atomic!CreateChat(id) \/ Atomic!SendMessage(id)
<1> DEFINE id == call[h].id
           pc == call[h].pc
           req == Asked(h)
<1>1. /\ Serving(h) /\ Wrote(work, id, pc)
      /\ \/ req.rpc = "Register" /\ pc = 4
         \/ req.rpc = "UploadPreKey" /\ pc = 3
         \/ /\ req.rpc = "CreateChat" /\ req.participants \in Seq(STRING)
            /\ pc = Len(req.participants) + 3
         \/ req.rpc = "SendMessage" /\ pc = 3
  BY AtCommit
<1>2. req = asked[id]
  BY DEF Asked
<1>3. CASE req.rpc = "Register" /\ pc = 4
  <2>1. /\ UserFree(req) /\ KeyFree(req)
        /\ tables' = [tables EXCEPT !.users = @ \cup {UserRow(req)},
                                    !.prekeys = @ \cup {FirstPreKeyRow(req)}]
    BY <1>1, <1>2, <1>3 DEF Wrote
  <2>2. /\ ~ Atomic!Registered(req.username)
        /\ \A row \in tables.prekeys : ~ Atomic!IsKeyOf(row, req)
        /\ tables' = [tables EXCEPT !.users = @ \cup {Atomic!UserRow(req)},
                                    !.prekeys = @ \cup {Atomic!FirstPreKeyRow(req)}]
    BY <2>1, SameRows DEF Atomic!Registered, UserFree, KeyFree
  <2> QED BY <2>2, <1>2, <1>3 DEF Atomic!Register
<1>4. CASE req.rpc = "UploadPreKey" /\ pc = 3
  BY <1>1, <1>2, <1>4, SameRows DEF Wrote, Atomic!UploadPreKey
<1>5. CASE /\ req.rpc = "CreateChat" /\ req.participants \in Seq(STRING)
           /\ pc = Len(req.participants) + 3
  <2>1. pc > 2 /\ pc - 3 = Len(req.participants)
    BY <1>5
  <2>2. Atomic!MemberRows(id) = MemberRows(id, pc - 3)
    BY <2>1, <1>2, SameRows DEF Atomic!MemberRows, MemberRows
  <2>3. tables' = [tables EXCEPT !.chats = @ \cup {id}, !.members = @ \cup MemberRows(id, pc - 3)]
    BY <2>1, <1>1, <1>2, <1>5 DEF Wrote
  <2> QED BY <2>2, <2>3, <1>2, <1>5 DEF Atomic!CreateChat
<1>6. CASE req.rpc = "SendMessage" /\ pc = 3
  <2>1. ~ MessageStored(id)
    BY <1>1, <1>6 DEF ServerInv, Messages
  <2>2. /\ req.chat_id \in tables.chats
        /\ tables' = [tables EXCEPT !.messages = Append(@, MessageRow(id, req))]
    BY <1>1, <1>2, <1>6 DEF Wrote
  <2> QED BY <2>1, <2>2, <1>2, <1>6, SameRows DEF Atomic!SendMessage, Atomic!Sent, MessageStored
<1> QED BY <1>1, <1>3, <1>4, <1>5, <1>6

LEMMA CommitRefined ==
    ASSUME ServerInv, NEW h \in Handler, Commit(h)
    PROVE  Atomic!Next
<1> DEFINE id == call[h].id
<1>1. /\ At(h, "commit") /\ open /\ tables' = work /\ events' = events /\ Proceed(h)
  BY DEF Commit
<1>2. Serving(h) /\ id \in Atomic!Call /\ Atomic!Pending(id)
  BY <1>1, PendingCall DEF At
<1>3. /\ asked' = asked
      /\ Answers' = Answers \/ Atomic!Give(id, Atomic!Ok(<<>>))
  <2>1. CASE call[h].pc = Len(Program(Asked(h)))
    <3>1. Answer(h, "OK", <<>>)
      BY <2>1, <1>1 DEF Proceed
    <3>2. Answers' = Append(Answers, [id |-> id, status |-> "OK", rows |-> <<>>])
      BY <3>1, <1>2, AnswersGrow
    <3> QED BY <3>1, <3>2 DEF Answer, Atomic!Give, Atomic!Ok
  <2>2. CASE call[h].pc # Len(Program(Asked(h)))
    BY <2>2, <1>1 DEF Proceed, Answers
  <2> QED BY <2>1, <2>2
<1>4. \/ Atomic!Register(id) \/ Atomic!UploadPreKey(id)
      \/ Atomic!CreateChat(id) \/ Atomic!SendMessage(id)
  BY <1>1, CommitApplies
<1>5. Atomic!Apply(id)
  BY <1>1, <1>2, <1>3, <1>4 DEF Atomic!Apply
<1> QED BY <1>2, <1>5 DEF Atomic!Next

\* What a statement that reads has before it is what is committed.
LEMMA AtRead ==
    ASSUME ServerInv, NEW h \in Handler, NEW step, At(h, step), open,
           step \in {"selectHash", "selectPreKey", "selectPage"}
    PROVE  /\ Serving(h) /\ InTransaction(h) /\ Asked(h) = asked[call[h].id]
           /\ work = tables
           /\ step = "selectHash" => Asked(h).rpc = "Login"
           /\ step = "selectPreKey" => Asked(h).rpc = "GetPreKey"
           /\ step = "selectPage" => Asked(h).rpc = "GetHistory"
<1>1. /\ Serving(h) /\ InTransaction(h)
      /\ Placed(Asked(h), call[h].pc) /\ Program(Asked(h))[call[h].pc] = step
      /\ Wrote(work, call[h].id, call[h].pc)
  BY AtStatement
<1>2. /\ call[h].pc = 2
      /\ step = "selectHash" => Asked(h).rpc = "Login"
      /\ step = "selectPreKey" => Asked(h).rpc = "GetPreKey"
      /\ step = "selectPage" => Asked(h).rpc = "GetHistory"
  BY <1>1 DEF Placed
<1>3. work = tables
  BY <1>1, <1>2 DEF Wrote
<1> QED BY <1>1, <1>2, <1>3 DEF Asked

\* A handler that reads answers what AtomicServer allows.
LEMMA LeaveAllowed ==
    ASSUME ServerInv, NEW h \in Handler, Serving(h),
           NEW answer \in Atomic!Answers(call[h].id),
           Leave(h, answer.status, answer.rows)
    PROVE  Atomic!Next
<1>1. Answer(h, answer.status, answer.rows) /\ tables' = tables /\ events' = events
  BY DEF Leave, Rollback
<1> QED BY <1>1, AnswerRefined

LEMMA LoginRefined ==
    ASSUME ServerInv, NEW h \in Handler, SelectHash(h)
    PROVE  Atomic!Next
<1> DEFINE id == call[h].id
           req == Asked(h)
           found == {row \in work.users : row.username = req.username}
<1>1. Serving(h) /\ req = asked[id] /\ work = tables /\ req.rpc = "Login"
  BY AtRead DEF SelectHash
<1>2. Atomic!Answers(id) = Atomic!LoginAnswers(req) \cup {Atomic!Error("INTERNAL")}
  BY <1>1 DEF Atomic!Answers
<1>3. CASE found = {}
  <2>1. Leave(h, "NOT_FOUND", <<>>)
    BY <1>3 DEF SelectHash
  <2>2. ~ Atomic!Registered(req.username)
    BY <1>1, <1>3 DEF Atomic!Registered
  <2> DEFINE answer == Atomic!Error("NOT_FOUND")
  <2>3. answer \in Atomic!Answers(id)
    BY <1>2, <2>2 DEF Atomic!LoginAnswers
  <2>4. answer.status = "NOT_FOUND" /\ answer.rows = <<>>
    BY DEF Atomic!Error
  <2> QED BY <1>1, <2>1, <2>3, <2>4, LeaveAllowed
<1>4. CASE found # {}
  <2>1. Leave(h, "OK", <<>>) \/ Leave(h, "UNAUTHENTICATED", <<>>)
    BY <1>4 DEF SelectHash
  <2>2. Atomic!Registered(req.username)
    BY <1>1, <1>4 DEF Atomic!Registered
  <2>3. /\ Atomic!Ok(<<>>) \in Atomic!Answers(id)
        /\ Atomic!Error("UNAUTHENTICATED") \in Atomic!Answers(id)
    BY <1>2, <2>2 DEF Atomic!LoginAnswers
  <2>4. /\ Atomic!Ok(<<>>).status = "OK" /\ Atomic!Ok(<<>>).rows = <<>>
        /\ Atomic!Error("UNAUTHENTICATED").status = "UNAUTHENTICATED"
        /\ Atomic!Error("UNAUTHENTICATED").rows = <<>>
    BY DEF Atomic!Error, Atomic!Ok
  <2> QED BY <1>1, <2>1, <2>3, <2>4, LeaveAllowed
<1> QED BY <1>3, <1>4

LEMMA GetPreKeyRefined ==
    ASSUME ServerInv, NEW h \in Handler, GetPreKey(h)
    PROVE  Atomic!Next
<1> DEFINE id == call[h].id
           req == Asked(h)
           found == {row \in work.prekeys : row.username = req.username}
<1>1. /\ Serving(h) /\ InTransaction(h)
      /\ req = asked[id] /\ work = tables /\ req.rpc = "GetPreKey"
  BY AtRead DEF GetPreKey
<1>2. Atomic!Answers(id) = Atomic!GetPreKeyAnswers(req) \cup {Atomic!Error("INTERNAL")}
  BY <1>1 DEF Atomic!Answers
<1>3. CASE found = {}
  <2>1. Leave(h, "NOT_FOUND", <<>>)
    BY <1>3 DEF GetPreKey
  <2> DEFINE answer == Atomic!Error("NOT_FOUND")
  <2>2. answer \in Atomic!Answers(id)
    BY <1>1, <1>2, <1>3 DEF Atomic!GetPreKeyAnswers
  <2>3. answer.status = "NOT_FOUND" /\ answer.rows = <<>>
    BY DEF Atomic!Error
  <2> QED BY <1>1, <2>1, <2>2, <2>3, LeaveAllowed
<1>4. ASSUME NEW row \in found, row.identity_key = NULL, Leave(h, "INTERNAL", <<>>)
      PROVE  Atomic!Next
  BY <1>1, <1>4, LeaveRefined
<1>5. ASSUME NEW row \in found, row.identity_key # NULL, Leave(h, "OK", <<Bundle(row)>>)
      PROVE  Atomic!Next
  <2> DEFINE answer == Atomic!Ok(<<Bundle(row)>>)
  <2>1. answer \in Atomic!Answers(id)
    BY <1>1, <1>2, <1>5, SameRows DEF Atomic!GetPreKeyAnswers
  <2>2. answer.status = "OK" /\ answer.rows = <<Bundle(row)>>
    BY DEF Atomic!Ok
  <2> HIDE DEF answer
  <2> QED BY <1>1, <1>5, <2>1, <2>2, LeaveAllowed
<1> QED BY <1>3, <1>4, <1>5 DEF GetPreKey

LEMMA GetHistoryRefined ==
    ASSUME ServerInv, NEW h \in Handler, GetHistory(h)
    PROVE  Atomic!Next
<1> DEFINE id == call[h].id
           req == Asked(h)
           rows == Page(work.messages, req)
<1>1. /\ Serving(h) /\ InTransaction(h)
      /\ req = asked[id] /\ work = tables /\ req.rpc = "GetHistory"
  BY AtRead DEF GetHistory
<1>2. CASE req.limit < 0 \/ req.offset < 0
  <2>1. Leave(h, "INTERNAL", <<>>)
    BY <1>2 DEF GetHistory
  <2> QED BY <1>1, <2>1, LeaveRefined
<1>3. CASE ~ (req.limit < 0 \/ req.offset < 0)
  <2>1. Leave(h, "OK", rows)
    BY <1>3 DEF GetHistory
  <2> DEFINE answer == Atomic!Ok(rows)
  <2>2. answer \in Atomic!Answers(id)
    <3>1. rows = Atomic!Page(tables.messages, req)
      BY <1>1, SamePage
    <3> HIDE DEF rows
    <3> QED BY <1>1, <1>3, <3>1 DEF Atomic!Answers, Atomic!GetHistoryAnswers
  <2>3. answer.status = "OK" /\ answer.rows = rows
    BY DEF Atomic!Ok
  <2> HIDE DEF answer, rows
  <2> QED BY <1>1, <2>1, <2>2, <2>3, LeaveAllowed
<1> QED BY <1>2, <1>3

LEMMA RefreshRefined ==
    ASSUME ServerInv, NEW h \in Handler, Refresh(h)
    PROVE  Atomic!Next
<1> DEFINE answer == Atomic!Ok(<<>>)
<1>1. /\ Serving(h) /\ Program(Asked(h))[call[h].pc] = "newToken"
      /\ Proceed(h) /\ tables' = tables /\ events' = events
  BY DEF Refresh, At
<1>2. Placed(Asked(h), call[h].pc)
  BY <1>1, ServingPlaced DEF ServerInv
<1>3. Asked(h).rpc = "Refresh" /\ call[h].pc = Len(Program(Asked(h)))
  BY <1>1, <1>2 DEF Placed
<1>4. Answer(h, "OK", <<>>)
  BY <1>1, <1>3 DEF Proceed
<1>5. answer \in Atomic!Answers(call[h].id) /\ answer.status = "OK" /\ answer.rows = <<>>
  BY <1>3 DEF Atomic!Answers, Atomic!Ok, Asked
<1> HIDE DEF answer
<1> QED BY <1>1, <1>4, <1>5, AnswerRefined

LEMMA PublishRefined ==
    ASSUME ServerInv, NEW h \in Handler, Publish(h)
    PROVE  Atomic!Next
<1> DEFINE id == call[h].id
           req == Asked(h)
           answer == Atomic!Ok(<<>>)
<1>1. /\ Serving(h) /\ Program(req)[call[h].pc] = "publish"
      /\ Proceed(h) /\ tables' = tables
      /\ events' = events \/ events' = Append(events, [channel |-> req.sender, message_id |-> id])
  BY DEF Publish, At
<1>2. Placed(req, call[h].pc)
  BY <1>1, ServingPlaced DEF ServerInv
<1>3. req.rpc = "SendMessage" /\ call[h].pc = 4 /\ call[h].pc = Len(Program(req))
  BY <1>1, <1>2 DEF Placed
<1>4. Answer(h, "OK", <<>>) /\ asked' = asked
  BY <1>1, <1>3 DEF Proceed, Answer
<1>5. id \in Atomic!Call /\ Atomic!Pending(id) /\ req = asked[id]
  BY <1>1, PendingCall
<1>6. MessageStored(id)
  BY <1>1, <1>3 DEF ServerInv, Messages
<1>7. answer \in Atomic!Answers(id) /\ answer.status = "OK"
  <2>1. Atomic!HasEffect(id)
    BY <1>3, <1>5, <1>6 DEF Atomic!HasEffect, Atomic!Sent, MessageStored
  <2> QED BY <1>3, <1>5, <2>1 DEF Atomic!Answers, Atomic!Ok
<1>8. Atomic!Give(id, answer)
  BY <1>1, <1>4, AnswersGrow DEF Atomic!Give, Atomic!Ok
<1> HIDE DEF answer
<1>9. Atomic!Reply(id)
  BY <1>1, <1>3, <1>4, <1>5, <1>7, <1>8 DEF Atomic!Reply
<1> QED BY <1>5, <1>9 DEF Atomic!Next

LEMMA BeginRefined ==
    ASSUME ServerInv, NEW h \in Handler, Begin(h)
    PROVE  [Atomic!Next]_Atomic!vars
<1>1. Serving(h) /\ Asked(h).rpc # "Refresh" /\ Placed(Asked(h), call[h].pc)
  BY AtBegin, ServingPlaced DEF Begin, ServerInv
<1>2. CASE RegisterTransaction(h)
  <2>1. call[h].pc # Len(Program(Asked(h)))
    BY <1>1 DEF Begin, At, Placed
  <2>2. asked' = asked /\ replies' = replies /\ tables' = tables /\ events' = events
    BY <1>2, <2>1 DEF RegisterTransaction, Proceed
  <2> QED BY <2>2 DEF Atomic!vars, Answers
<1>3. CASE Answer(h, "INTERNAL", <<>>) /\ tables' = tables /\ events' = events
  BY <1>1, <1>3, InternalRefined
<1> QED BY <1>2, <1>3 DEF Begin

\* The statements that write change what is committed only outside a transaction,
\* and no handler is there with such a statement.
LEMMA StatementRefined ==
    ASSUME ServerInv, NEW h \in Handler,
           \/ InsertUser(h) \/ InsertPreKey(h) \/ UploadPreKey(h)
           \/ InsertChat(h) \/ InsertMember(h) \/ InsertMessage(h)
    PROVE  [Atomic!Next]_Atomic!vars
<1> DEFINE step == Program(Asked(h))[call[h].pc]
<1>1. /\ At(h, step)
      /\ step \in {"insertUser", "insertPreKey", "upsertPreKey",
                   "insertChat", "insertMember", "insertMessage"}
  BY DEF InsertUser, InsertPreKey, UploadPreKey, InsertChat, InsertMember, InsertMessage, At
<1>2. InTransaction(h) /\ Placed(Asked(h), call[h].pc) /\ Asked(h) \in Request
  BY <1>1, AtStatement
<1>3. call[h].pc # Len(Program(Asked(h)))
  <2>1. Asked(h).rpc = "CreateChat" => Len(Asked(h).participants) \in Nat
    BY <1>2, RequestAssumption
  <2>2. CASE step = "insertChat"
    <3>1. /\ Asked(h).rpc = "CreateChat" /\ call[h].pc = 2
          /\ Len(Program(Asked(h))) = Len(Asked(h).participants) + 3
      BY <1>2, <2>2 DEF Placed
    <3> QED BY <2>1, <3>1
  <2>3. CASE step = "insertMember"
    BY <1>2, <2>3 DEF Placed
  <2>4. CASE step = "insertUser"
    <3>1. call[h].pc = 2 /\ Len(Program(Asked(h))) = 4
      BY <1>2, <2>4 DEF Placed
    <3> QED BY <3>1
  <2>5. CASE step = "insertPreKey"
    <3>1. call[h].pc = 3 /\ Len(Program(Asked(h))) = 4
      BY <1>2, <2>5 DEF Placed
    <3> QED BY <3>1
  <2>6. CASE step = "upsertPreKey"
    <3>1. call[h].pc = 2 /\ Len(Program(Asked(h))) = 3
      BY <1>2, <2>6 DEF Placed
    <3> QED BY <3>1
  <2>7. CASE step = "insertMessage"
    <3>1. call[h].pc = 2 /\ Len(Program(Asked(h))) = 4
      BY <1>2, <2>7 DEF Placed
    <3> QED BY <3>1
  <2> QED BY <1>1, <2>2, <2>3, <2>4, <2>5, <2>6, <2>7
<1>4. CASE Leave(h, "INTERNAL", <<>>)
  BY <1>2, <1>4, LeaveRefined
<1>5. ASSUME NEW new, Exec(h, new) PROVE UNCHANGED Atomic!vars
  BY <1>2, <1>3, <1>5, ExecRefined
<1>6. Leave(h, "INTERNAL", <<>>) \/ \E new : Exec(h, new)
  BY DEF InsertUser, InsertPreKey, UploadPreKey, InsertChat, InsertMember, InsertMessage
<1> QED BY <1>4, <1>5, <1>6

LEMMA BrokenRefined ==
    ASSUME ServerInv, NEW h \in Handler, Broken(h)
    PROVE  Atomic!Next
<1>1. CASE At(h, "begin")
  <2>1. Answer(h, "INTERNAL", <<>>) /\ tables' = tables /\ events' = events
    BY <1>1 DEF Broken
  <2> QED BY <1>1, <2>1, AtBegin, InternalRefined
<1>2. CASE ~ At(h, "begin")
  <2> DEFINE step == Program(Asked(h))[call[h].pc]
  <2>1. At(h, step) /\ step \notin {"begin", "newToken", "publish"} /\ Leave(h, "INTERNAL", <<>>)
    BY <1>2 DEF Broken, At
  <2> QED BY <2>1, AtStatement, LeaveRefined
<1> QED BY <1>1, <1>2

\* A COMMIT executed as the connection breaks is the effect of its call.
LEMMA LoseRefined ==
    ASSUME ServerInv, LoseConnection
    PROVE  [Atomic!Next]_Atomic!vars
<1>1. asked' = asked /\ replies' = replies /\ events' = events /\ Answers' = Answers
  BY DEF LoseConnection, Answers
<1>2. CASE tables' = tables
  BY <1>1, <1>2 DEF Atomic!vars
<1>3. ASSUME NEW h \in Handler, At(h, "commit"), tables' = work
      PROVE  Atomic!Next
  <2> DEFINE id == call[h].id
  <2>1. open
    BY DEF LoseConnection
  <2>2. \/ Atomic!Register(id) \/ Atomic!UploadPreKey(id)
        \/ Atomic!CreateChat(id) \/ Atomic!SendMessage(id)
    BY <1>3, <2>1, CommitApplies
  <2>3. id \in Atomic!Call /\ Atomic!Pending(id)
    BY <1>3, PendingCall DEF At
  <2> QED BY <1>1, <2>2, <2>3 DEF Atomic!Apply, Atomic!Next
<1> QED BY <1>2, <1>3 DEF LoseConnection

LEMMA NextRefined ==
    ASSUME ServerInv, [SerialNext]_vars
    PROVE  [Atomic!Next]_Atomic!vars
<1>1. CASE UNCHANGED vars
  BY <1>1 DEF vars, Atomic!vars, Answers
<1>2. ASSUME NEW h \in Handler, Step(h) PROVE [Atomic!Next]_Atomic!vars
  <2>1. ASSUME NEW req \in Request, Accept(h, req) PROVE Atomic!Next
    <3>1. /\ asked' = Append(asked, req) /\ tables' = tables /\ events' = events
          /\ Answers' = Answers
      BY <2>1 DEF Accept, Answers
    <3> QED BY <3>1 DEF Atomic!Ask, Atomic!Next
  <2>2. CASE Refresh(h)
    BY <2>2, RefreshRefined
  <2>3. CASE Publish(h)
    BY <2>3, PublishRefined
  <2>4. CASE \/ InsertUser(h) \/ InsertPreKey(h) \/ UploadPreKey(h)
             \/ InsertChat(h) \/ InsertMember(h) \/ InsertMessage(h)
    BY <2>4, StatementRefined
  <2>5. CASE SelectHash(h)
    BY <2>5, LoginRefined
  <2>6. CASE GetPreKey(h)
    BY <2>6, GetPreKeyRefined
  <2>7. CASE GetHistory(h)
    BY <2>7, GetHistoryRefined
  <2>8. CASE Commit(h)
    BY <2>8, CommitRefined
  <2>9. CASE Broken(h)
    BY <2>9, BrokenRefined
  <2> QED BY <1>2, <2>1, <2>2, <2>3, <2>4, <2>5, <2>6, <2>7, <2>8, <2>9 DEF Step
<1>3. CASE Restart
  <2>1. asked' = asked /\ tables' = tables /\ events' = events /\ Answers' = Answers
    BY <1>3 DEF Restart, Answers
  <2> QED BY <2>1 DEF Atomic!vars
<1> QED BY <1>1, <1>2, <1>3, BeginRefined, LoseRefined DEF SerialNext

\* The statements of the handlers, however they interleave, break off or are
\* cut short by a restart, implement the operations of AtomicServer.
THEOREM ServerIsAtomic == SerialSpec => ImplementsAtomicServer
<1>1. Init => Atomic!Init
  BY DEF Init, Atomic!Init, Answers, EmptyTables, Atomic!EmptyTables
<1> QED BY <1>1, InitInv, NextInv, NextRefined, PTL
        DEF SerialSpec, ImplementsAtomicServer, Atomic!Spec

-----------------------------------------------------------------------------
(***************************************************************************)
(* What AtomicServer keeps true of the database, the answers and events.   *)
(***************************************************************************)

\* Whatever is done, rows stay, but for the keys of a pre-key that is replaced.
LEMMA TablesGrow ==
    ASSUME ServerInv, [Atomic!Next]_Atomic!vars
    PROVE  /\ tables.users \subseteq tables'.users
           /\ tables.chats \subseteq tables'.chats
           /\ tables.members \subseteq tables'.members
           /\ \A row \in tables.prekeys : \E new \in tables'.prekeys : IsKeyOf(new, row)
           /\ \A i : StoredIn(tables, i) => StoredIn(tables', i)
<1>1. IsDatabase(tables)
  BY DEF ServerInv, Types
<1>2. CASE tables' = tables
  BY <1>2 DEF IsKeyOf
<1>3. ASSUME NEW id \in Atomic!Call, Atomic!Register(id)
      PROVE  /\ tables.users \subseteq tables'.users
             /\ tables.chats = tables'.chats /\ tables.members = tables'.members
             /\ tables.prekeys \subseteq tables'.prekeys
             /\ tables'.messages = tables.messages
  BY <1>1, <1>3 DEF Atomic!Register, IsDatabase
<1>4. ASSUME NEW id \in Atomic!Call, Atomic!UploadPreKey(id)
      PROVE  /\ tables.users = tables'.users
             /\ tables.chats = tables'.chats /\ tables.members = tables'.members
             /\ \A row \in tables.prekeys : \E new \in tables'.prekeys : IsKeyOf(new, row)
             /\ tables'.messages = tables.messages
  <2>1. /\ tables.users = tables'.users
        /\ tables.chats = tables'.chats /\ tables.members = tables'.members
        /\ tables'.messages = tables.messages
        /\ tables'.prekeys = UpsertPreKey(tables.prekeys, asked[id])
    BY <1>1, <1>4, SameRows DEF Atomic!UploadPreKey, IsDatabase
  <2>2. \A row \in tables.prekeys : \E new \in tables'.prekeys : IsKeyOf(new, row)
    <3> TAKE row \in tables.prekeys
    <3>1. PreKeyRow(asked[id]) \in tables'.prekeys
      BY <2>1 DEF UpsertPreKey
    <3>2. CASE IsKeyOf(row, asked[id])
      <4>1. IsKeyOf(PreKeyRow(asked[id]), row)
        BY <3>2 DEF IsKeyOf, PreKeyRow
      <4> QED BY <3>1, <4>1
    <3>3. CASE ~ IsKeyOf(row, asked[id])
      <4>1. row \in tables'.prekeys
        BY <2>1, <3>3 DEF UpsertPreKey
      <4>2. IsKeyOf(row, row)
        BY DEF IsKeyOf
      <4> QED BY <4>1, <4>2
    <3> QED BY <3>2, <3>3
  <2> QED BY <2>1, <2>2
<1>5. ASSUME NEW id \in Atomic!Call, Atomic!CreateChat(id)
      PROVE  /\ tables.users = tables'.users /\ tables.prekeys = tables'.prekeys
             /\ tables.chats \subseteq tables'.chats
             /\ tables.members \subseteq tables'.members
             /\ tables'.messages = tables.messages
  BY <1>1, <1>5 DEF Atomic!CreateChat, IsDatabase
<1>6. ASSUME NEW id \in Atomic!Call, Atomic!SendMessage(id)
      PROVE  /\ tables.users = tables'.users /\ tables.prekeys = tables'.prekeys
             /\ tables.chats = tables'.chats /\ tables.members = tables'.members
             /\ \A i : StoredIn(tables, i) => StoredIn(tables', i)
  <2> DEFINE row == MessageRow(id, asked[id])
  <2>1. /\ tables.users = tables'.users /\ tables.prekeys = tables'.prekeys
        /\ tables.chats = tables'.chats /\ tables.members = tables'.members
        /\ tables'.messages = Append(tables.messages, row)
    BY <1>1, <1>6, SameRows DEF Atomic!SendMessage, IsDatabase
  <2> HIDE DEF row
  <2> QED BY <2>1, <1>1, AppendedId DEF StoredIn, IsDatabase
<1>7. \/ tables' = tables
      \/ \E id \in Atomic!Call : \/ Atomic!Register(id) \/ Atomic!UploadPreKey(id)
                                 \/ Atomic!CreateChat(id) \/ Atomic!SendMessage(id)
  BY DEF Atomic!Next, Atomic!vars, Atomic!Ask, Atomic!Apply, Atomic!Reply
<1>8. \A row \in tables.prekeys : IsKeyOf(row, row)
  BY DEF IsKeyOf
<1> QED BY <1>2, <1>3, <1>4, <1>5, <1>6, <1>7, <1>8 DEF StoredIn

\* A call is asked once and for all.
LEMMA AskedGrows ==
    ASSUME ServerInv, [Atomic!Next]_Atomic!vars
    PROVE  \A id \in Id : id \in Id' /\ asked'[id] = asked[id]
<1>1. asked \in Seq(Request)
  BY DEF ServerInv, Types
<1>2. asked' = asked \/ \E req \in Request : asked' = Append(asked, req)
  BY DEF Atomic!Next, Atomic!vars, Atomic!Ask, Atomic!Apply, Atomic!Reply
<1> QED BY <1>1, <1>2 DEF Id

LEMMA EffectStays ==
    ASSUME ServerInv, [Atomic!Next]_Atomic!vars, NEW id \in Id, EffectStored(id)
    PROVE  EffectStored(id)'
<1>1. asked'[id] = asked[id]
  BY AskedGrows
<1>2. CASE asked[id].rpc = "Register"
  <2>1. UserStored(asked[id]) /\ PreKeyStored(asked[id])
    BY <1>2 DEF EffectStored
  <2>2. UserStored(asked[id])' /\ PreKeyStored(asked[id])'
    BY <2>1, <1>1, TablesGrow DEF UserStored, PreKeyStored, IsKeyOf
  <2> QED BY <2>2, <1>1, <1>2 DEF EffectStored
<1>3. CASE asked[id].rpc = "UploadPreKey"
  <2>1. PreKeyStored(asked[id])
    BY <1>3 DEF EffectStored
  <2>2. PreKeyStored(asked[id])'
    BY <2>1, <1>1, TablesGrow DEF PreKeyStored, IsKeyOf
  <2> QED BY <2>2, <1>1, <1>3 DEF EffectStored
<1>4. CASE asked[id].rpc = "CreateChat"
  <2>1. id \in tables.chats /\ MembersStored(id)
    BY <1>4 DEF EffectStored
  <2>2. id \in tables'.chats /\ MembersStored(id)'
    BY <2>1, <1>1, TablesGrow DEF MembersStored
  <2> QED BY <2>2, <1>1, <1>4 DEF EffectStored
<1>5. CASE asked[id].rpc = "SendMessage"
  <2>1. StoredIn(tables, id)
    BY <1>5 DEF EffectStored, MessageStored, StoredIn
  <2>2. StoredIn(tables', id)
    BY <2>1, TablesGrow
  <2> QED BY <2>2, <1>1, <1>5 DEF EffectStored, MessageStored, StoredIn
<1>6. CASE asked[id].rpc \notin {"Register", "UploadPreKey", "CreateChat", "SendMessage"}
  BY <1>1, <1>6 DEF EffectStored
<1> QED BY <1>2, <1>3, <1>4, <1>5, <1>6

LEMMA AnswersSeq ==
    ASSUME ServerInv
    PROVE  IsSeq(Answers) /\ Len(Answers) = Len(replies) /\ Len(replies) \in Nat
<1>1. Len(replies) \in Nat
  BY DEF ServerInv, Types, IsSeq
<1> QED BY <1>1 DEF Answers, IsSeq

\* An answer is an old one, or the one that was just given.
LEMMA AnswerAdded ==
    ASSUME ServerInv, NEW id, NEW answer, Atomic!Give(id, answer),
           NEW k \in 1 .. Len(Answers')
    PROVE  \/ k \in 1 .. Len(Answers) /\ Answers'[k] = Answers[k]
           \/ Answers'[k] = [id |-> id, status |-> answer.status, rows |-> answer.rows]
<1> DEFINE a == [id |-> id, status |-> answer.status, rows |-> answer.rows]
<1>1. Answers' = Append(Answers, a)
  BY DEF Atomic!Give
<1> HIDE DEF a
<1>2. /\ Len(Answers) \in Nat /\ Len(Answers') = Len(Answers) + 1
      /\ \A j \in 1 .. Len(Answers) : Answers'[j] = Answers[j]
      /\ Answers'[Len(Answers) + 1] = a
  BY <1>1, AnswersSeq, Appended
<1> QED BY <1>2 DEF a

\* A call that takes effect has it.
LEMMA ApplyStores ==
    ASSUME ServerInv, NEW id \in Id, Atomic!Apply(id)
    PROVE  asked' = asked /\ EffectStored(id)'
<1>1. asked' = asked /\ IsDatabase(tables)
  BY DEF Atomic!Apply, ServerInv, Types
<1>2. CASE Atomic!Register(id)
  <2>1. /\ asked[id].rpc = "Register"
        /\ UserRow(asked[id]) \in tables'.users
        /\ FirstPreKeyRow(asked[id]) \in tables'.prekeys
    BY <1>1, <1>2, SameRows DEF Atomic!Register, IsDatabase
  <2>2. IsKeyOf(FirstPreKeyRow(asked[id]), asked[id])
    BY DEF IsKeyOf, FirstPreKeyRow
  <2> QED BY <1>1, <2>1, <2>2 DEF EffectStored, UserStored, PreKeyStored
<1>3. CASE Atomic!UploadPreKey(id)
  <2>1. /\ asked[id].rpc = "UploadPreKey"
        /\ tables'.prekeys = UpsertPreKey(tables.prekeys, asked[id])
    BY <1>1, <1>3, SameRows DEF Atomic!UploadPreKey, IsDatabase
  <2>2. PreKeyRow(asked[id]) \in tables'.prekeys
    BY <2>1 DEF UpsertPreKey
  <2>3. IsKeyOf(PreKeyRow(asked[id]), asked[id])
    BY DEF IsKeyOf, PreKeyRow
  <2> QED BY <1>1, <2>1, <2>2, <2>3 DEF EffectStored, PreKeyStored
<1>4. CASE Atomic!CreateChat(id)
  <2>1. /\ asked[id].rpc = "CreateChat"
        /\ id \in tables'.chats
        /\ Atomic!MemberRows(id) \subseteq tables'.members
    BY <1>1, <1>4 DEF Atomic!CreateChat, IsDatabase
  <2>2. MembersStored(id)'
    BY <1>1, <2>1 DEF Atomic!MemberRows, Atomic!MemberRow, MembersStored
  <2> QED BY <1>1, <2>1, <2>2 DEF EffectStored
<1>5. CASE Atomic!SendMessage(id)
  <2> DEFINE row == MessageRow(id, asked[id])
  <2>1. /\ asked[id].rpc = "SendMessage"
        /\ tables'.messages = Append(tables.messages, row)
    BY <1>1, <1>5, SameRows DEF Atomic!SendMessage, IsDatabase
  <2>2. row.id = id
    BY DEF MessageRow
  <2> HIDE DEF row
  <2>3. \E k \in 1 .. Len(tables'.messages) : tables'.messages[k].id = id
    BY <1>1, <2>1, <2>2, AppendedId DEF IsDatabase
  <2> QED BY <1>1, <2>1, <2>3 DEF EffectStored, MessageStored
<1> QED BY <1>1, <1>2, <1>3, <1>4, <1>5 DEF Atomic!Apply

\* A call that is answered OK has had its effect.
LEMMA OkHasEffect ==
    ASSUME ServerInv, NEW id \in Id, NEW answer \in Atomic!Answers(id), answer.status = "OK"
    PROVE  EffectStored(id)
<1>1. CASE asked[id].rpc \notin {"Register", "UploadPreKey", "CreateChat", "SendMessage"}
  BY <1>1 DEF EffectStored
<1>2. CASE asked[id].rpc \in {"Register", "UploadPreKey", "CreateChat", "SendMessage"}
  <2>1. Atomic!Answers(id) = (IF Atomic!HasEffect(id) THEN {Atomic!Ok(<<>>)} ELSE {})
                                \cup {Atomic!Error("INTERNAL")}
    BY <1>2 DEF Atomic!Answers
  <2>2. Atomic!HasEffect(id)
    BY <2>1 DEF Atomic!Error
  <2>3. CASE asked[id].rpc = "Register"
    BY <2>2, <2>3, SameRows DEF Atomic!HasEffect, Atomic!KeyStored,
       EffectStored, UserStored, PreKeyStored
  <2>4. CASE asked[id].rpc = "UploadPreKey"
    BY <2>2, <2>4, SameRows DEF Atomic!HasEffect, Atomic!KeyStored, EffectStored, PreKeyStored
  <2>5. CASE asked[id].rpc = "CreateChat"
    <3>1. id \in tables.chats /\ Atomic!MemberRows(id) \subseteq tables.members
      BY <2>2, <2>5 DEF Atomic!HasEffect
    <3>2. MembersStored(id)
      BY <3>1 DEF Atomic!MemberRows, Atomic!MemberRow, MembersStored
    <3> QED BY <2>5, <3>1, <3>2 DEF EffectStored
  <2>6. CASE asked[id].rpc = "SendMessage"
    BY <2>2, <2>6 DEF Atomic!HasEffect, Atomic!Sent, EffectStored, MessageStored
  <2> QED BY <1>2, <2>3, <2>4, <2>5, <2>6
<1> QED BY <1>1, <1>2

-----------------------------------------------------------------------------
(***************************************************************************)
(* The second invariant: of the database, the answers and the events.      *)
(***************************************************************************)

Acked == \A k \in 1 .. Len(Answers) : Answers[k].status = "OK" => EffectStored(Answers[k].id)

\* What GetPreKey makes of the row of an upload: the text form of both keys.
LEMMA UploadRead ==
    ASSUME NEW req
    PROVE  Bundle(PreKeyRow(req)) = [pre_key      |-> Hex(req.pre_key),
                                     identity_key |-> Hex(req.identity_key)]
  BY DEF Bundle, PreKeyRow

WasUploaded(row) == \E id \in Id : asked[id].rpc = "UploadPreKey" /\ row = PreKeyRow(asked[id])

\* A row with an identity key is what one client uploaded.
Uploaded == \A row \in tables.prekeys : row.identity_key = NULL \/ WasUploaded(row)

FromUpload(k) ==
    \E id \in Id : /\ asked[id].rpc = "UploadPreKey"
                   /\ asked[id].username = asked[Answers[k].id].username
                   /\ Answers[k].rows = <<Bundle(PreKeyRow(asked[id]))>>

Bundles == \A k \in 1 .. Len(Answers) :
    asked[Answers[k].id].rpc = "GetPreKey" /\ Answers[k].status = "OK" => FromUpload(k)

UniqueUsers == \A a, b \in tables.users : a.username = b.username => a = b

UniquePreKeys == \A a, b \in tables.prekeys : IsKeyOf(a, b) => a = b

ChatsAsked == \A id \in tables.chats : id \in Id

DataInv == /\ Acked /\ WritesAreWhole /\ EventImpliesStored /\ ChatsAsked
           /\ Uploaded /\ Bundles /\ UniqueUsers /\ UniquePreKeys

LEMMA AnsweredAsked ==
    ASSUME ServerInv
    PROVE  \A k \in 1 .. Len(Answers) : Answers[k].id \in Id
<1>1. Len(replies) \in Nat
  BY AnswersSeq
<1> QED BY <1>1 DEF ServerInv, Separate, Answers

\* The call of every answer that a step leaves or gives.
LEMMA AnswersAfter ==
    ASSUME ServerInv, [Atomic!Next]_Atomic!vars, NEW k \in 1 .. Len(Answers')
    PROVE  \/ k \in 1 .. Len(Answers) /\ Answers'[k] = Answers[k]
           \/ \E id \in Id :
                /\ Answers'[k] = [id |-> id, status |-> "OK", rows |-> <<>>]
                /\ Atomic!Apply(id)
           \/ \E id \in Id : \E answer \in Atomic!Answers(id) :
                /\ Answers'[k] = [id |-> id, status |-> answer.status, rows |-> answer.rows]
                /\ asked' = asked /\ tables' = tables
<1>1. CASE Answers' = Answers
  BY <1>1
<1>2. ASSUME NEW id \in Atomic!Call, Atomic!Apply(id), Atomic!Give(id, Atomic!Ok(<<>>))
      PROVE  \/ k \in 1 .. Len(Answers) /\ Answers'[k] = Answers[k]
             \/ Answers'[k] = [id |-> id, status |-> "OK", rows |-> <<>>]
  BY <1>2, AnswerAdded DEF Atomic!Ok
<1>3. ASSUME NEW id \in Atomic!Call, Atomic!Reply(id)
      PROVE  /\ asked' = asked /\ tables' = tables
             /\ \E answer \in Atomic!Answers(id) :
                  \/ k \in 1 .. Len(Answers) /\ Answers'[k] = Answers[k]
                  \/ Answers'[k] = [id |-> id, status |-> answer.status, rows |-> answer.rows]
  <2>1. PICK answer \in Atomic!Answers(id) : Atomic!Give(id, answer)
    BY <1>3 DEF Atomic!Reply
  <2>2. asked' = asked /\ tables' = tables
    BY <1>3 DEF Atomic!Reply
  <2> QED BY <2>1, <2>2, AnswerAdded
<1>4. \/ Answers' = Answers
      \/ \E id \in Atomic!Call : Atomic!Apply(id) /\ Atomic!Give(id, Atomic!Ok(<<>>))
      \/ \E id \in Atomic!Call : Atomic!Reply(id)
  BY DEF Atomic!Next, Atomic!vars, Atomic!Ask, Atomic!Apply
<1>5. Atomic!Call = Id
  BY DEF Atomic!Call, Id
<1> QED BY <1>1, <1>2, <1>3, <1>4, <1>5

LEMMA AckedKept ==
    ASSUME ServerInv, Acked, [Atomic!Next]_Atomic!vars
    PROVE  Acked'
<1>1. ASSUME NEW k \in 1 .. Len(Answers'), Answers'[k].status = "OK",
             NEW id, id = Answers'[k].id
      PROVE  EffectStored(id)'
  <2>1. CASE k \in 1 .. Len(Answers) /\ Answers'[k] = Answers[k]
    <3>1. id \in Id /\ EffectStored(id)
      BY <1>1, <2>1, AnsweredAsked DEF Acked
    <3> QED BY <3>1, EffectStays
  <2>2. CASE \E i \in Id : /\ Answers'[k] = [id |-> i, status |-> "OK", rows |-> <<>>]
                           /\ Atomic!Apply(i)
    <3>1. id \in Id /\ Atomic!Apply(id)
      BY <1>1, <2>2
    <3> QED BY <3>1, ApplyStores
  <2>3. CASE \E i \in Id : \E answer \in Atomic!Answers(i) :
                /\ Answers'[k] = [id |-> i, status |-> answer.status, rows |-> answer.rows]
                /\ asked' = asked /\ tables' = tables
    <3>1. /\ id \in Id
          /\ \E answer \in Atomic!Answers(id) : answer.status = "OK"
          /\ asked' = asked /\ tables' = tables
      BY <1>1, <2>3
    <3>2. EffectStored(id)
      BY <3>1, OkHasEffect
    <3> QED BY <3>1, <3>2, EffectStays
  <2> QED BY <2>1, <2>2, <2>3, AnswersAfter
<1> QED BY <1>1 DEF Acked

\* What a step does to the users, the pre-keys and the chats.
LEMMA TablesAfter ==
    ASSUME ServerInv, [Atomic!Next]_Atomic!vars
    PROVE  \/ /\ tables'.users = tables.users /\ tables'.prekeys = tables.prekeys
              /\ tables'.chats = tables.chats
           \/ \E id \in Id :
                /\ asked[id].rpc = "Register" /\ tables'.chats = tables.chats
                /\ \A row \in tables.users : row.username # asked[id].username
                /\ \A row \in tables.prekeys : ~ IsKeyOf(row, asked[id])
                /\ tables'.users = tables.users \cup {UserRow(asked[id])}
                /\ tables'.prekeys = tables.prekeys \cup {FirstPreKeyRow(asked[id])}
           \/ \E id \in Id :
                /\ asked[id].rpc = "UploadPreKey" /\ tables'.chats = tables.chats
                /\ tables'.users = tables.users
                /\ tables'.prekeys = UpsertPreKey(tables.prekeys, asked[id])
           \/ \E id \in Id :
                /\ asked[id].rpc = "CreateChat" /\ Atomic!Apply(id)
                /\ tables'.users = tables.users /\ tables'.prekeys = tables.prekeys
                /\ tables'.chats = tables.chats \cup {id}
<1>1. IsDatabase(tables)
  BY DEF ServerInv, Types
<1>2. Atomic!Call = Id
  BY DEF Atomic!Call, Id
<1>3. \/ tables' = tables
      \/ \E id \in Id : /\ Atomic!Apply(id)
                        /\ \/ Atomic!Register(id) \/ Atomic!UploadPreKey(id)
                           \/ Atomic!CreateChat(id) \/ Atomic!SendMessage(id)
  BY <1>2 DEF Atomic!Next, Atomic!vars, Atomic!Ask, Atomic!Apply, Atomic!Reply
<1>4. ASSUME NEW id \in Id, Atomic!Register(id)
      PROVE  /\ asked[id].rpc = "Register" /\ tables'.chats = tables.chats
             /\ \A row \in tables.users : row.username # asked[id].username
             /\ \A row \in tables.prekeys : ~ IsKeyOf(row, asked[id])
             /\ tables'.users = tables.users \cup {UserRow(asked[id])}
             /\ tables'.prekeys = tables.prekeys \cup {FirstPreKeyRow(asked[id])}
  <2>1. \A row \in tables.prekeys : ~ IsKeyOf(row, asked[id])
    BY <1>4, SameRows DEF Atomic!Register
  <2>2. \A row \in tables.users : row.username # asked[id].username
    BY <1>4 DEF Atomic!Register, Atomic!Registered
  <2> QED BY <1>1, <1>4, <2>1, <2>2, SameRows DEF Atomic!Register, IsDatabase
<1>5. ASSUME NEW id \in Id, Atomic!UploadPreKey(id)
      PROVE  /\ asked[id].rpc = "UploadPreKey" /\ tables'.chats = tables.chats
             /\ tables'.users = tables.users
             /\ tables'.prekeys = UpsertPreKey(tables.prekeys, asked[id])
  BY <1>1, <1>5, SameRows DEF Atomic!UploadPreKey, IsDatabase
<1>6. ASSUME NEW id \in Id, Atomic!CreateChat(id)
      PROVE  /\ asked[id].rpc = "CreateChat"
             /\ tables'.users = tables.users /\ tables'.prekeys = tables.prekeys
             /\ tables'.chats = tables.chats \cup {id}
  BY <1>1, <1>6 DEF Atomic!CreateChat, IsDatabase
<1>7. ASSUME NEW id \in Id, Atomic!SendMessage(id)
      PROVE  /\ tables'.users = tables.users /\ tables'.prekeys = tables.prekeys
             /\ tables'.chats = tables.chats
  BY <1>1, <1>7 DEF Atomic!SendMessage, IsDatabase
<1> QED BY <1>3, <1>4, <1>5, <1>6, <1>7

LEMMA ChatsKept ==
    ASSUME ServerInv, ChatsAsked, [Atomic!Next]_Atomic!vars
    PROVE  ChatsAsked'
<1>1. \A id \in Id : id \in Id'
  BY AskedGrows
<1> QED BY <1>1, TablesAfter DEF ChatsAsked

LEMMA WholeKept ==
    ASSUME ServerInv, ChatsAsked, WritesAreWhole, [Atomic!Next]_Atomic!vars
    PROVE  WritesAreWhole'
<1>1. ASSUME NEW row \in tables'.users
      PROVE  \E key \in tables'.prekeys : key.username = row.username
  <2>1. CASE row \in tables.users
    <3>1. PICK key \in tables.prekeys : key.username = row.username
      BY <2>1 DEF WritesAreWhole
    <3> QED BY <3>1, TablesGrow DEF IsKeyOf
  <2>2. CASE \E id \in Id : /\ row = UserRow(asked[id])
                            /\ FirstPreKeyRow(asked[id]) \in tables'.prekeys
    BY <2>2 DEF UserRow, FirstPreKeyRow
  <2> QED BY <2>1, <2>2, TablesAfter
<1>2. ASSUME NEW id \in tables'.chats
      PROVE  MembersStored(id)'
  <2>1. CASE id \in tables.chats
    <3>1. id \in Id /\ MembersStored(id)
      BY <2>1 DEF ChatsAsked, WritesAreWhole
    <3>2. asked'[id] = asked[id] /\ tables.members \subseteq tables'.members
      BY <3>1, AskedGrows, TablesGrow
    <3> QED BY <3>1, <3>2 DEF MembersStored
  <2>2. CASE id \in Id /\ asked[id].rpc = "CreateChat" /\ Atomic!Apply(id)
    BY <2>2, ApplyStores DEF EffectStored
  <2> QED BY <2>1, <2>2, TablesAfter
<1> QED BY <1>1, <1>2 DEF WritesAreWhole

LEMMA EventsKept ==
    ASSUME ServerInv, EventImpliesStored, [Atomic!Next]_Atomic!vars
    PROVE  EventImpliesStored'
<1>1. ASSUME NEW id, MessageStored(id)
      PROVE  MessageStored(id)'
  <2>1. StoredIn(tables', id)
    BY <1>1, TablesGrow DEF MessageStored, StoredIn
  <2> QED BY <2>1 DEF MessageStored, StoredIn
<1>2. CASE events' = events
  BY <1>1, <1>2 DEF EventImpliesStored
<1>3. ASSUME NEW id \in Atomic!Call, NEW answer \in Atomic!Answers(id),
             asked[id].rpc = "SendMessage", answer.status = "OK",
             NEW event, event.message_id = id, events' = Append(events, event)
      PROVE  EventImpliesStored'
  <2>1. id \in Id
    BY DEF Atomic!Call, Id
  <2>2. MessageStored(id)
    BY <1>3, <2>1, OkHasEffect DEF EffectStored
  <2>3. /\ Len(events) \in Nat /\ Len(events') = Len(events) + 1
        /\ \A k \in 1 .. Len(events) : events'[k] = events[k]
        /\ events'[Len(events) + 1] = event
    BY <1>3, Appended DEF ServerInv, Types
  <2>4. ASSUME NEW k \in 1 .. Len(events'), NEW i, i = events'[k].message_id
        PROVE  MessageStored(i)'
    <3>1. CASE k \in 1 .. Len(events)
      BY <3>1, <2>3, <2>4, <1>1 DEF EventImpliesStored
    <3>2. CASE k = Len(events) + 1
      BY <3>2, <2>2, <2>3, <2>4, <1>1, <1>3
    <3> QED BY <3>1, <3>2, <2>3
  <2> QED BY <2>4 DEF EventImpliesStored
<1>4. CASE \E id \in Atomic!Call : Atomic!Reply(id)
  <2>1. PICK id \in Atomic!Call : \E answer \in Atomic!Answers(id) :
            \/ events' = events
            \/ /\ asked[id].rpc = "SendMessage" /\ answer.status = "OK"
               /\ events' = Append(events, [channel |-> asked[id].sender, message_id |-> id])
    BY <1>4 DEF Atomic!Reply
  <2> QED BY <2>1, <1>2, <1>3
<1> QED BY <1>2, <1>4 DEF Atomic!Next, Atomic!vars, Atomic!Ask, Atomic!Apply

LEMMA UploadStays ==
    ASSUME ServerInv, [Atomic!Next]_Atomic!vars, NEW row, WasUploaded(row)
    PROVE  WasUploaded(row)'
<1>1. PICK id \in Id : asked[id].rpc = "UploadPreKey" /\ row = PreKeyRow(asked[id])
  BY DEF WasUploaded
<1>2. id \in Id' /\ asked'[id] = asked[id]
  BY AskedGrows
<1> QED BY <1>1, <1>2 DEF WasUploaded

LEMMA UploadedKept ==
    ASSUME ServerInv, Uploaded, [Atomic!Next]_Atomic!vars
    PROVE  Uploaded'
<1> SUFFICES ASSUME NEW row \in tables'.prekeys
             PROVE  row.identity_key = NULL \/ WasUploaded(row)'
  BY DEF Uploaded
<1>1. CASE row \in tables.prekeys
  BY <1>1, UploadStays DEF Uploaded
<1>2. CASE \E id \in Id : row = FirstPreKeyRow(asked[id])
  BY <1>2 DEF FirstPreKeyRow
<1>3. CASE \E id \in Id : asked[id].rpc = "UploadPreKey" /\ row = PreKeyRow(asked[id])
  <2>1. WasUploaded(row)
    BY <1>3 DEF WasUploaded
  <2> QED BY <2>1, UploadStays
<1> QED BY <1>1, <1>2, <1>3, TablesAfter DEF UpsertPreKey

LEMMA BundlesKept ==
    ASSUME ServerInv, Uploaded, Bundles, [Atomic!Next]_Atomic!vars
    PROVE  Bundles'
<1>1. ASSUME NEW k \in 1 .. Len(Answers'), NEW i, i = Answers'[k].id,
             NEW req, req = asked'[i], req.rpc = "GetPreKey", Answers'[k].status = "OK"
      PROVE  \E row : /\ WasUploaded(row)'
                      /\ row.username = req.username /\ Answers'[k].rows = <<Bundle(row)>>
  <2>1. CASE k \in 1 .. Len(Answers) /\ Answers'[k] = Answers[k]
    <3>1. i \in Id /\ asked'[i] = asked[i]
      BY <1>1, <2>1, AnsweredAsked, AskedGrows
    <3>2. FromUpload(k)
      BY <1>1, <2>1, <3>1 DEF Bundles
    <3>3. PICK id \in Id : /\ asked[id].rpc = "UploadPreKey"
                           /\ asked[id].username = asked[Answers[k].id].username
                           /\ Answers[k].rows = <<Bundle(PreKeyRow(asked[id]))>>
      BY <3>2 DEF FromUpload
    <3> DEFINE row == PreKeyRow(asked[id])
    <3>4. row.username = req.username
      BY <1>1, <2>1, <3>1, <3>3 DEF PreKeyRow
    <3>5. WasUploaded(row) /\ Answers'[k].rows = <<Bundle(row)>>
      BY <2>1, <3>3 DEF WasUploaded
    <3> HIDE DEF row
    <3> QED BY <3>4, <3>5, UploadStays
  <2>2. ASSUME NEW id \in Id, Answers'[k] = [id |-> id, status |-> "OK", rows |-> <<>>],
               Atomic!Apply(id)
        PROVE  FALSE
    <3>1. i = id /\ asked' = asked
      BY <1>1, <2>2, ApplyStores
    <3> QED BY <1>1, <2>2, <3>1 DEF Atomic!Apply, Atomic!Register, Atomic!UploadPreKey,
               Atomic!CreateChat, Atomic!SendMessage
  <2>3. ASSUME NEW id \in Id, NEW answer \in Atomic!Answers(id),
               Answers'[k] = [id |-> id, status |-> answer.status, rows |-> answer.rows],
               asked' = asked, tables' = tables
        PROVE  \E row : /\ WasUploaded(row)'
                        /\ row.username = req.username /\ Answers'[k].rows = <<Bundle(row)>>
    <3>1. /\ i = id /\ req = asked[id] /\ asked[id].rpc = "GetPreKey"
          /\ answer.status = "OK" /\ Answers'[k].rows = answer.rows
      BY <1>1, <2>3
    <3>2. Atomic!Answers(id) = Atomic!GetPreKeyAnswers(req) \cup {Atomic!Error("INTERNAL")}
      BY <3>1 DEF Atomic!Answers
    <3>3. answer \in Atomic!GetPreKeyAnswers(req)
      BY <2>3, <3>1, <3>2 DEF Atomic!Error
    <3>4. PICK row \in tables.prekeys : /\ row.username = req.username /\ row.identity_key # NULL
                                        /\ answer = Atomic!Ok(<<Atomic!Bundle(row)>>)
      BY <3>1, <3>3 DEF Atomic!GetPreKeyAnswers, Atomic!Error
    <3>5. answer.rows = <<Bundle(row)>>
      BY <3>4, SameRows DEF Atomic!Ok
    <3>6. WasUploaded(row)
      BY <3>4 DEF Uploaded
    <3> QED BY <3>1, <3>4, <3>5, <3>6, UploadStays
  <2> QED BY <2>1, <2>2, <2>3, AnswersAfter
<1>2. ASSUME NEW k \in 1 .. Len(Answers'),
             asked'[Answers'[k].id].rpc = "GetPreKey", Answers'[k].status = "OK"
      PROVE  FromUpload(k)'
  <2>1. PICK row : /\ WasUploaded(row)'
                   /\ row.username = asked'[Answers'[k].id].username
                   /\ Answers'[k].rows = <<Bundle(row)>>
    BY <1>1, <1>2
  <2>2. PICK id \in Id' : asked'[id].rpc = "UploadPreKey" /\ row = PreKeyRow(asked'[id])
    BY <2>1 DEF WasUploaded
  <2>3. row.username = asked'[id].username
    BY <2>2 DEF PreKeyRow
  <2> QED BY <2>1, <2>2, <2>3 DEF FromUpload
<1> QED BY <1>2 DEF Bundles

LEMMA UniqueKept ==
    ASSUME ServerInv, UniqueUsers, UniquePreKeys, [Atomic!Next]_Atomic!vars
    PROVE  UniqueUsers' /\ UniquePreKeys'
<1>1. ASSUME NEW id \in Id,
             \A row \in tables.users : row.username # asked[id].username,
             \A row \in tables.prekeys : ~ IsKeyOf(row, asked[id]),
             tables'.users = tables.users \cup {UserRow(asked[id])},
             tables'.prekeys = tables.prekeys \cup {FirstPreKeyRow(asked[id])}
      PROVE  UniqueUsers' /\ UniquePreKeys'
  <2>1. UserRow(asked[id]).username = asked[id].username
    BY DEF UserRow
  <2>2. \A row : /\ IsKeyOf(row, FirstPreKeyRow(asked[id])) => IsKeyOf(row, asked[id])
                 /\ IsKeyOf(FirstPreKeyRow(asked[id]), row) => IsKeyOf(row, asked[id])
    BY DEF IsKeyOf, FirstPreKeyRow
  <2>3. UniqueUsers'
    BY <1>1, <2>1 DEF UniqueUsers
  <2>4. \A a, b \in tables'.prekeys : IsKeyOf(a, b) => a = b
    BY <1>1, <2>2 DEF UniquePreKeys
  <2> QED BY <2>3, <2>4 DEF UniquePreKeys, IsKeyOf
<1>2. ASSUME NEW id \in Id, tables'.users = tables.users,
             tables'.prekeys = UpsertPreKey(tables.prekeys, asked[id])
      PROVE  UniqueUsers' /\ UniquePreKeys'
  <2>1. \A row : /\ IsKeyOf(row, PreKeyRow(asked[id])) => IsKeyOf(row, asked[id])
                 /\ IsKeyOf(PreKeyRow(asked[id]), row) => IsKeyOf(row, asked[id])
    BY DEF IsKeyOf, PreKeyRow
  <2>2. \A a, b \in tables'.prekeys : IsKeyOf(a, b) => a = b
    BY <1>2, <2>1 DEF UniquePreKeys, UpsertPreKey
  <2> QED BY <1>2, <2>2 DEF UniqueUsers, UniquePreKeys, IsKeyOf
<1>3. CASE tables'.users = tables.users /\ tables'.prekeys = tables.prekeys
  BY <1>3 DEF UniqueUsers, UniquePreKeys, IsKeyOf
<1> QED BY <1>1, <1>2, <1>3, TablesAfter

LEMMA DataKept ==
    ASSUME ServerInv, DataInv, [Atomic!Next]_Atomic!vars
    PROVE  DataInv'
  BY AckedKept, WholeKept, EventsKept, ChatsKept, UploadedKept, BundlesKept, UniqueKept
     DEF DataInv

LEMMA InitData == Init => DataInv
  BY DEF Init, DataInv, EmptyTables, Answers, Acked, WritesAreWhole, EventImpliesStored,
     ChatsAsked, Uploaded, Bundles, UniqueUsers, UniquePreKeys

LEMMA DataHolds == SerialSpec => [](ServerInv /\ DataInv)
<1>1. ServerInv /\ DataInv /\ [SerialNext]_vars => ServerInv' /\ DataInv'
  BY NextInv, NextRefined, DataKept
<1> QED BY <1>1, InitInv, InitData, PTL DEF SerialSpec

\* What the open transaction has done to the users and the pre-keys.
LEMMA WorkRows ==
    ASSUME ServerInv
    PROVE  \/ work.users = tables.users /\ work.prekeys = tables.prekeys
           \/ \E req \in Request :
                /\ UserFree(req)
                /\ work.users = tables.users \cup {UserRow(req)}
                /\ \/ work.prekeys = tables.prekeys
                   \/ KeyFree(req) /\ work.prekeys = tables.prekeys \cup {FirstPreKeyRow(req)}
           \/ \E req \in Request :
                /\ work.users = tables.users
                /\ work.prekeys = UpsertPreKey(tables.prekeys, req)
<1>1. CASE work = tables
  BY <1>1
<1>2. CASE work # tables
  <2>1. PICK h \in Handler : open /\ trans = h
    BY <1>2, ServerAssumption DEF ServerInv, Connected, Types
  <2>2. InTransaction(h) /\ Serving(h)
    BY <2>1 DEF ServerInv, Registered, InTransaction
  <2> DEFINE req == Asked(h)
             pc == call[h].pc
             id == call[h].id
  <2>3. Wrote(work, id, pc) /\ IsDatabase(tables)
    BY <2>1, <2>2 DEF ServerInv, Written, Types
  <2>4. /\ req \in Request /\ req = asked[id] /\ pc \in Nat /\ pc > 1
        /\ pc <= Len(Program(req))
    BY <2>2, ServingPlaced DEF ServerInv, Asked, InTransaction
  <2>5. req.rpc # "Refresh" /\ ~ (req.rpc = "SendMessage" /\ pc = 4)
    BY <2>2 DEF InTransaction
  <2> HIDE DEF req, pc, id
  <2>6. pc # 2
    BY <1>2, <2>3 DEF Wrote
  <2>7. CASE req.rpc = "Register"
    <3>1. pc = 3 \/ pc = 4
      <4>1. Len(Program(req)) = 4
        BY <2>4, <2>7, AuthPrograms
      <4> QED BY <2>4, <2>6, <4>1
    <3>2. CASE pc = 3
      <4>1. UserFree(req) /\ work = [tables EXCEPT !.users = @ \cup {UserRow(req)}]
        BY <2>3, <2>4, <2>7, <3>2 DEF Wrote
      <4> QED BY <4>1, <2>3, <2>4 DEF IsDatabase
    <3>3. CASE pc = 4
      <4>1. /\ UserFree(req) /\ KeyFree(req)
            /\ work = [tables EXCEPT !.users = @ \cup {UserRow(req)},
                                     !.prekeys = @ \cup {FirstPreKeyRow(req)}]
        BY <2>3, <2>4, <2>7, <3>3 DEF Wrote
      <4> QED BY <4>1, <2>3, <2>4 DEF IsDatabase
    <3> QED BY <3>1, <3>2, <3>3
  <2>8. CASE req.rpc = "UploadPreKey"
    <3>1. pc = 3
      <4>1. Len(Program(req)) = 3
        BY <2>4, <2>8, KeyPrograms
      <4> QED BY <2>4, <2>6, <4>1
    <3>2. work = [tables EXCEPT !.prekeys = UpsertPreKey(@, req)]
      BY <2>3, <2>4, <2>8, <3>1 DEF Wrote
    <3> QED BY <3>2, <2>3, <2>4 DEF IsDatabase
  <2>9. CASE req.rpc = "CreateChat"
    <3>1. work = [tables EXCEPT !.chats = @ \cup {id}, !.members = @ \cup MemberRows(id, pc - 3)]
      BY <2>3, <2>4, <2>6, <2>9 DEF Wrote
    <3> QED BY <3>1, <2>3 DEF IsDatabase
  <2>10. CASE req.rpc = "SendMessage"
    <3>1. pc = 3
      <4>1. Len(Program(req)) = 4
        BY <2>4, <2>10, ChatPrograms
      <4> QED BY <2>4, <2>5, <2>6, <2>10, <4>1
    <3>2. work = [tables EXCEPT !.messages = Append(@, MessageRow(id, req))]
      BY <2>3, <2>4, <2>10, <3>1 DEF Wrote
    <3> QED BY <3>2, <2>3 DEF IsDatabase
  <2>11. CASE req.rpc \in {"Login", "GetPreKey", "GetHistory"}
    <3>1. Len(Program(req)) = 2
      BY <2>4, <2>11, AuthPrograms, KeyPrograms, ChatPrograms
    <3> QED BY <2>4, <2>6, <3>1
  <2> QED BY <2>4, <2>5, <2>7, <2>8, <2>9, <2>10, <2>11, RequestAssumption DEF Rpc
<1> QED BY <1>1, <1>2

LEMMA WorkUnique ==
    ASSUME ServerInv, UniqueUsers, UniquePreKeys
    PROVE  /\ \A a, b \in work.users : a.username = b.username => a = b
           /\ \A a, b \in work.prekeys : IsKeyOf(a, b) => a = b
<1>1. CASE work.users = tables.users /\ work.prekeys = tables.prekeys
  BY <1>1 DEF UniqueUsers, UniquePreKeys
<1>2. ASSUME NEW req \in Request, UserFree(req),
             work.users = tables.users \cup {UserRow(req)}
      PROVE  \A a, b \in work.users : a.username = b.username => a = b
  <2>1. UserRow(req).username = req.username
    BY DEF UserRow
  <2> QED BY <1>2, <2>1 DEF UniqueUsers, UserFree
<1>3. ASSUME NEW req \in Request, KeyFree(req),
             work.prekeys = tables.prekeys \cup {FirstPreKeyRow(req)}
      PROVE  \A a, b \in work.prekeys : IsKeyOf(a, b) => a = b
  <2>1. \A row : /\ IsKeyOf(row, FirstPreKeyRow(req)) => IsKeyOf(row, req)
                 /\ IsKeyOf(FirstPreKeyRow(req), row) => IsKeyOf(row, req)
    BY DEF IsKeyOf, FirstPreKeyRow
  <2> QED BY <1>3, <2>1 DEF UniquePreKeys, KeyFree
<1>4. ASSUME NEW req \in Request, work.prekeys = UpsertPreKey(tables.prekeys, req)
      PROVE  \A a, b \in work.prekeys : IsKeyOf(a, b) => a = b
  <2>1. \A row : /\ IsKeyOf(row, PreKeyRow(req)) => IsKeyOf(row, req)
                 /\ IsKeyOf(PreKeyRow(req), row) => IsKeyOf(row, req)
    BY DEF IsKeyOf, PreKeyRow
  <2> QED BY <1>4, <2>1 DEF UniquePreKeys, UpsertPreKey
<1> QED BY <1>1, <1>2, <1>3, <1>4, WorkRows DEF UniqueUsers, UniquePreKeys

-----------------------------------------------------------------------------
(***************************************************************************)
(* What the runs check of the handlers.                                    *)
(***************************************************************************)

\* A handler answers OK only for what is in the database, and it stays there
\* whatever other handlers, restarts and lost connections do.
THEOREM AckedStaysStored == SerialSpec => []AckedIsStored
<1>1. ServerInv /\ DataInv => AckedIsStored
  <2> SUFFICES ASSUME ServerInv, DataInv, NEW k \in 1 .. Len(replies),
                      replies[k].status = "OK"
               PROVE  EffectStored(replies[k].id)
    BY DEF AckedIsStored
  <2>1. /\ k \in 1 .. Len(Answers) /\ Answers[k].status = "OK"
        /\ Answers[k].id = replies[k].id
    BY AnswersSeq DEF Answers
  <2> QED BY <2>1 DEF DataInv, Acked
<1> QED BY <1>1, DataHolds, PTL

\* The rows that one Register or one CreateChat writes are in the database
\* together or not at all.
THEOREM WritesStayWhole == SerialSpec => []WritesAreWhole
<1>1. DataInv => WritesAreWhole
  BY DEF DataInv
<1> QED BY <1>1, DataHolds, PTL

\* An event that Redis was given names a message that is in the database.
THEOREM EventsTellOfStored == SerialSpec => []EventImpliesStored
<1>1. DataInv => EventImpliesStored
  BY DEF DataInv
<1> QED BY <1>1, DataHolds, PTL

\* GetPreKey answers with the keys of one upload for that user, as text; it
\* pairs no keys of two uploads.
THEOREM KeysArePaired == SerialSpec => []KeysStayPaired
<1>1. ServerInv /\ DataInv => KeysStayPaired
  <2> SUFFICES ASSUME ServerInv, DataInv, NEW k \in 1 .. Len(replies),
                      asked[replies[k].id].rpc = "GetPreKey", replies[k].status = "OK"
               PROVE  \E id \in Id :
                        /\ asked[id].rpc = "UploadPreKey"
                        /\ asked[id].username = asked[replies[k].id].username
                        /\ replies[k].rows = <<Bundle(PreKeyRow(asked[id]))>>
    BY UploadRead DEF KeysStayPaired
  <2>1. /\ k \in 1 .. Len(Answers) /\ Answers[k].status = "OK"
        /\ Answers[k].id = replies[k].id /\ Answers[k].rows = replies[k].rows
    BY AnswersSeq DEF Answers
  <2>2. FromUpload(k)
    BY <2>1 DEF DataInv, Bundles
  <2> QED BY <2>1, <2>2 DEF FromUpload
<1> QED BY <1>1, DataHolds, PTL

\* Handlers stay in their programs, and usernames and pre-keys unique, in the
\* database and in what the open transaction sees.
THEOREM ServerTypeCorrect == SerialSpec => []TypeOK
<1>1. ServerInv /\ DataInv => TypeOK
  <2> SUFFICES ASSUME ServerInv, DataInv PROVE TypeOK
    OBVIOUS
  <2>1. /\ \A a, b \in work.users : a.username = b.username => a = b
        /\ \A a, b \in work.prekeys : IsKeyOf(a, b) => a = b
    BY WorkUnique DEF DataInv
  <2>2. Types /\ Places
    BY DEF ServerInv
  <2> QED BY <2>1, <2>2 DEF TypeOK, Types, Places, Serving
<1> QED BY <1>1, DataHolds, PTL

-----------------------------------------------------------------------------
(***************************************************************************)
(* ServerRace: two handlers can be in one transaction.  What is then lost  *)
(* (AckedIsStored) says nothing of what is there: rows stay unique, and    *)
(* every pre-key is with the identity key that was uploaded with it.       *)
(* RaceInv says so of the database and of what the connection sees, which  *)
(* any COMMIT or ROLLBACK exchanges whole.                                 *)
(***************************************************************************)

Keys(t) == /\ \A row \in t.prekeys : row.identity_key = NULL \/ WasUploaded(row)
           /\ \A a, b \in t.users : a.username = b.username => a = b
           /\ \A a, b \in t.prekeys : IsKeyOf(a, b) => a = b

RaceInv == /\ Types /\ Places /\ Separate
           /\ \A h \in checked : h \in Handler /\ At(h, "begin")
           /\ Keys(tables) /\ Keys(work)
           /\ KeysStayPaired

\* A step in which nobody but h moves on or answers.
Moved(h) ==
    /\ asked' = asked /\ faults' = faults
    /\ call' \in [Handler -> {Idle} \cup [id : Nat, pc : Nat, after : Nat]]
    /\ \A g \in Handler \ {h} : call'[g] = call[g]
    /\ IsSeq(replies)' /\ Places' /\ Separate' /\ KeysStayPaired'

\* If it is a bundle that h answers with, it is one that was uploaded.
Honest(h, status, rows) ==
    Asked(h).rpc = "GetPreKey" /\ status = "OK" =>
        \E id \in Id : /\ asked[id].rpc = "UploadPreKey"
                       /\ asked[id].username = Asked(h).username
                       /\ rows = <<Bundle(PreKeyRow(asked[id]))>>

LEMMA RacyAnswer ==
    ASSUME RaceInv, NEW h \in Handler, Serving(h), NEW status, NEW rows,
           Answer(h, status, rows), Honest(h, status, rows)
    PROVE  Moved(h)
<1> DEFINE r == [id |-> call[h].id, status |-> status, rows |-> rows, after |-> call[h].after]
<1>1. /\ asked' = asked /\ faults' = faults
      /\ call' \in [Handler -> {Idle} \cup [id : Nat, pc : Nat, after : Nat]]
      /\ \A g \in Handler \ {h} : call'[g] = call[g]
      /\ IsSeq(replies)' /\ Places' /\ Separate'
  BY Answering DEF RaceInv
<1>2. replies' = Append(replies, r) /\ IsSeq(replies)
  BY DEF Answer, RaceInv, Types
<1>3. /\ Len(replies) \in Nat /\ Len(replies') = Len(replies) + 1
      /\ \A k \in 1 .. Len(replies) : replies'[k] = replies[k]
      /\ replies'[Len(replies) + 1] = r
  <2> HIDE DEF r
  <2> QED BY <1>2, Appended
<1>4. KeysStayPaired'
  <2> SUFFICES ASSUME NEW k \in 1 .. Len(replies'),
                      asked[replies'[k].id].rpc = "GetPreKey", replies'[k].status = "OK"
               PROVE  \E id \in Id :
                        /\ asked[id].rpc = "UploadPreKey"
                        /\ asked[id].username = asked[replies'[k].id].username
                        /\ replies'[k].rows = <<[pre_key      |-> Hex(asked[id].pre_key),
                                                 identity_key |-> Hex(asked[id].identity_key)]>>
    BY <1>1 DEF KeysStayPaired, Id
  <2>1. CASE k \in 1 .. Len(replies)
    BY <2>1, <1>3 DEF RaceInv, KeysStayPaired
  <2>2. CASE k = Len(replies) + 1
    <3>1. replies'[k] = r
      BY <2>2, <1>3
    <3>2. PICK id \in Id : /\ asked[id].rpc = "UploadPreKey"
                           /\ asked[id].username = Asked(h).username
                           /\ rows = <<Bundle(PreKeyRow(asked[id]))>>
      BY <3>1 DEF Honest, Asked
    <3> HIDE DEF r
    <3>3. r.rows = rows /\ r.id = call[h].id
      BY DEF r
    <3> QED BY <3>1, <3>2, <3>3, UploadRead DEF Asked
  <2> QED BY <2>1, <2>2, <1>3
<1> QED BY <1>1, <1>4 DEF Moved

LEMMA RacyProceed ==
    ASSUME RaceInv, NEW h \in Handler, Serving(h), Proceed(h),
           Asked(h).rpc # "GetPreKey" \/ call[h].pc < Len(Program(Asked(h)))
    PROVE  Moved(h)
<1>1. call[h].pc \in Nat /\ Len(Program(Asked(h))) \in Nat /\ call[h].pc <= Len(Program(Asked(h)))
  <2>1. /\ call[h].pc \in Nat /\ call[h].pc <= Len(Program(Asked(h)))
        /\ Placed(Asked(h), call[h].pc)
    BY ServingPlaced DEF RaceInv
  <2> QED BY <2>1 DEF Placed
<1>2. CASE call[h].pc < Len(Program(Asked(h)))
  <2>1. /\ asked' = asked /\ faults' = faults /\ replies' = replies
        /\ call' \in [Handler -> {Idle} \cup [id : Nat, pc : Nat, after : Nat]]
        /\ \A g \in Handler \ {h} : call'[g] = call[g]
        /\ Places' /\ Separate'
    BY <1>2, Proceeding DEF RaceInv
  <2>2. IsSeq(replies)' /\ KeysStayPaired'
    BY <2>1 DEF RaceInv, Types, KeysStayPaired, Id
  <2> QED BY <2>1, <2>2 DEF Moved
<1>3. CASE call[h].pc = Len(Program(Asked(h)))
  <2>1. Answer(h, "OK", <<>>)
    BY <1>3 DEF Proceed
  <2>2. Honest(h, "OK", <<>>)
    BY <1>3, <1>1 DEF Honest
  <2> QED BY <2>1, <2>2, RacyAnswer
<1> QED BY <1>1, <1>2, <1>3

LEMMA RaceKept ==
    ASSUME RaceInv, NEW h \in Handler, Moved(h), checked' \subseteq checked \ {h},
           IsDatabase(tables'), IsDatabase(work'), Keys(tables'), Keys(work'),
           IsSeq(events'), inTx' \in BOOLEAN, open' \in BOOLEAN,
           trans' \in Handler \cup {NoHandler}
    PROVE  RaceInv'
<1>1. Types'
  BY DEF Moved, RaceInv, Types
<1>2. ASSUME NEW g \in checked'
      PROVE  g \in Handler /\ At(g, "begin")'
  <2>1. g \in Handler /\ At(g, "begin") /\ call'[g] = call[g] /\ asked' = asked
    BY DEF RaceInv, Moved
  <2> QED BY <2>1 DEF At, Serving, Asked
<1>3. Keys(tables)' /\ Keys(work)'
  BY DEF Moved, Keys, WasUploaded, Id
<1> QED BY <1>1, <1>2, <1>3 DEF RaceInv, Moved

-----------------------------------------------------------------------------
(***************************************************************************)
(* The steps of a handler of ServerRace.                                   *)
(***************************************************************************)

\* A handler answers and touches nothing.
LEMMA RacyRefused ==
    ASSUME RaceInv, NEW h \in Handler, Serving(h), Answer(h, "INTERNAL", <<>>),
           UNCHANGED <<tables, work, connection, events>>, checked' \subseteq checked \ {h}
    PROVE  RaceInv'
<1>1. Moved(h)
  BY RacyAnswer DEF Honest
<1> QED BY <1>1, RaceKept DEF RaceInv, Types, connection

LEMMA RacyLeave ==
    ASSUME RaceInv, NEW h \in Handler, Serving(h), NEW status, NEW rows,
           Leave(h, status, rows), Honest(h, status, rows), checked' \subseteq checked \ {h}
    PROVE  RaceInv'
<1>1. Moved(h)
  BY RacyAnswer DEF Leave
<1>2. /\ tables' = tables /\ work' = tables /\ inTx' = FALSE /\ trans' = NoHandler
      /\ open' = open /\ events' = events
  BY DEF Leave, Rollback
<1> QED BY <1>1, <1>2, RaceKept DEF RaceInv, Types

\* A statement, in a transaction or not.
LEMMA RacyExec ==
    ASSUME RaceInv, NEW h \in Handler, Serving(h), NEW new, Exec(h, new),
           call[h].pc < Len(Program(Asked(h))), IsDatabase(new), Keys(new),
           checked' \subseteq checked \ {h}
    PROVE  RaceInv'
<1>1. Moved(h)
  BY RacyProceed DEF Exec
<1>2. /\ work' = new /\ tables' \in {tables, new} /\ inTx' = inTx /\ trans' = trans
      /\ open' = open /\ events' = events
  BY DEF Exec, connection
<1>3. IsDatabase(tables') /\ Keys(tables')
  BY <1>2 DEF RaceInv, Types
<1> QED BY <1>1, <1>2, <1>3, RaceKept DEF RaceInv, Types

LEMMA RacyAt ==
    ASSUME RaceInv, NEW h \in Handler, NEW step, At(h, step)
    PROVE  /\ Serving(h) /\ Asked(h) \in Request /\ Asked(h) = asked[call[h].id]
           /\ call[h].id \in Id /\ call[h].pc \in Nat
           /\ Placed(Asked(h), call[h].pc) /\ Program(Asked(h))[call[h].pc] = step
           /\ IsDatabase(work) /\ Keys(work)
<1>1. Serving(h) /\ Program(Asked(h))[call[h].pc] = step
  BY DEF At
<1> QED BY <1>1, ServingPlaced DEF RaceInv, Types, Asked

LEMMA RacyBegin ==
    ASSUME RaceInv, NEW h \in Handler, CheckRegistered(h) \/ StoreRegistered(h)
    PROVE  RaceInv'
<1>1. At(h, "begin")
  BY DEF CheckRegistered, StoreRegistered, RaceInv
<1>2. Serving(h) /\ call[h].pc < Len(Program(Asked(h)))
  BY <1>1, RacyAt DEF Placed
<1>3. CASE UNCHANGED vars /\ checked' = checked \cup {h}
  <2>1. /\ asked' = asked /\ call' = call /\ replies' = replies /\ tables' = tables
        /\ work' = work /\ events' = events /\ faults' = faults
        /\ inTx' = inTx /\ trans' = trans /\ open' = open
    BY <1>3 DEF vars, connection
  <2>2. Types' /\ Places' /\ Separate'
    BY <2>1 DEF RaceInv, Types, Places, Separate, Unanswered, Serving, Asked, Id
  <2>3. \A g \in checked' : g \in Handler /\ At(g, "begin")'
    BY <1>1, <1>3, <2>1 DEF RaceInv, At, Serving, Asked
  <2>4. Keys(tables)' /\ Keys(work)' /\ KeysStayPaired'
    BY <2>1 DEF RaceInv, Keys, WasUploaded, KeysStayPaired, Id
  <2> QED BY <2>2, <2>3, <2>4 DEF RaceInv
<1>4. CASE CheckRegistered(h) /\ Answer(h, "INTERNAL", <<>>)
           /\ UNCHANGED <<tables, work, connection, events, checked>>
  BY <1>2, <1>4, RacyRefused DEF CheckRegistered
<1>5. CASE StoreRegistered(h) /\ open
  <2>1. RegisterTransaction(h) /\ checked' = checked \ {h}
    BY <1>5 DEF StoreRegistered
  <2>2. Moved(h)
    BY <1>2, <2>1, RacyProceed DEF RegisterTransaction
  <2> QED BY <2>1, <2>2, RaceKept DEF RaceInv, Types, RegisterTransaction
<1>6. CASE StoreRegistered(h) /\ ~ open
  <2>1. Leave(h, "INTERNAL", <<>>) /\ checked' = checked \ {h}
    BY <1>6 DEF StoreRegistered
  <2> QED BY <1>2, <2>1, RacyLeave DEF Honest
<1> QED BY <1>3, <1>4, <1>5, <1>6 DEF CheckRegistered

LEMMA RacyAccept ==
    ASSUME RaceInv, NEW h \in Handler, NEW req \in Request, Accept(h, req), checked' = checked
    PROVE  RaceInv'
<1>1. tables' = tables /\ work' = work /\ replies' = replies
  BY DEF Accept
<1>2. /\ Types' /\ Places' /\ Separate'
      /\ \A i \in Id : i \in Id' /\ asked'[i] = asked[i]
      /\ call[h] = Idle
      /\ \A g \in Handler \ {h} : /\ call'[g] = call[g]
                                  /\ Serving(g)' <=> Serving(g)
                                  /\ Serving(g) => Asked(g)' = Asked(g)
  <2>1. \A i \in Id : i \in Id'
    BY Accepting DEF RaceInv, Id
  <2> QED BY <2>1, Accepting DEF RaceInv
<1>3. \A g \in checked' : g \in Handler /\ At(g, "begin")'
  <2> TAKE g \in checked'
  <2>1. g \in Handler /\ At(g, "begin") /\ Serving(g)
    BY DEF RaceInv, At
  <2>2. g # h
    BY <2>1, <1>2 DEF Serving
  <2> QED BY <2>1, <2>2, <1>2 DEF At
<1>4. \A row : WasUploaded(row) => WasUploaded(row)'
  BY <1>2 DEF WasUploaded
<1>5. Keys(tables)' /\ Keys(work)'
  BY <1>1, <1>4 DEF RaceInv, Keys
<1>6. KeysStayPaired'
  <2>1. \A k \in 1 .. Len(replies) : replies[k].id \in Id
    BY DEF RaceInv, Separate
  <2> SUFFICES ASSUME NEW k \in 1 .. Len(replies), asked[replies[k].id].rpc = "GetPreKey",
                      replies[k].status = "OK"
               PROVE  \E id \in Id' :
                        /\ asked'[id].rpc = "UploadPreKey"
                        /\ asked'[id].username = asked'[replies[k].id].username
                        /\ replies[k].rows = <<[pre_key      |-> Hex(asked'[id].pre_key),
                                                identity_key |-> Hex(asked'[id].identity_key)]>>
    BY <1>1, <1>2, <2>1 DEF KeysStayPaired
  <2>2. PICK id \in Id :
               /\ asked[id].rpc = "UploadPreKey"
               /\ asked[id].username = asked[replies[k].id].username
               /\ replies[k].rows = <<[pre_key      |-> Hex(asked[id].pre_key),
                                       identity_key |-> Hex(asked[id].identity_key)]>>
    BY DEF RaceInv, KeysStayPaired
  <2> QED BY <1>2, <2>1, <2>2
<1> QED BY <1>2, <1>3, <1>5, <1>6 DEF RaceInv

LEMMA UsersWritten ==
    ASSUME NEW t, IsDatabase(t), NEW rows
    PROVE  LET new == [t EXCEPT !.users = rows]
           IN  IsDatabase(new) /\ new.users = rows /\ new.prekeys = t.prekeys
  BY DEF IsDatabase

LEMMA PreKeysWritten ==
    ASSUME NEW t, IsDatabase(t), NEW rows
    PROVE  LET new == [t EXCEPT !.prekeys = rows]
           IN  IsDatabase(new) /\ new.users = t.users /\ new.prekeys = rows
  BY DEF IsDatabase

\* The statements that write users and pre-keys.
LEMMA RacyInsertUser ==
    ASSUME RaceInv, NEW h \in Handler, InsertUser(h), checked' \subseteq checked \ {h}
    PROVE  RaceInv'
<1> DEFINE req == Asked(h)
           row == UserRow(req)
           new == [work EXCEPT !.users = @ \cup {row}]
<1>1. At(h, "insertUser")
  BY DEF InsertUser
<1>2. /\ Serving(h) /\ req.rpc = "Register" /\ call[h].pc < Len(Program(req))
      /\ IsDatabase(work) /\ Keys(work)
  <2>1. /\ Serving(h) /\ Placed(req, call[h].pc) /\ Program(req)[call[h].pc] = "insertUser"
        /\ IsDatabase(work) /\ Keys(work)
    BY <1>1, RacyAt
  <2>2. req.rpc = "Register" /\ call[h].pc = 2 /\ Len(Program(req)) = 4
    BY <2>1 DEF Placed
  <2> QED BY <2>1, <2>2
<1>3. CASE Leave(h, "INTERNAL", <<>>)
  BY <1>2, <1>3, RacyLeave DEF Honest
<1>4. CASE Exec(h, new) /\ \A old \in work.users : old.username # req.username
  <2>1. IsDatabase(new) /\ new.prekeys = work.prekeys /\ new.users = work.users \cup {row}
    BY <1>2, UsersWritten
  <2>2. row.username = req.username
    BY DEF UserRow
  <2> HIDE DEF new, row
  <2>3. Keys(new)
    BY <1>2, <1>4, <2>1, <2>2 DEF Keys
  <2> QED BY <1>2, <1>4, <2>1, <2>3, RacyExec
<1> QED BY <1>3, <1>4 DEF InsertUser

LEMMA RacyInsertPreKey ==
    ASSUME RaceInv, NEW h \in Handler, InsertPreKey(h), checked' \subseteq checked \ {h}
    PROVE  RaceInv'
<1> DEFINE req == Asked(h)
           row == FirstPreKeyRow(req)
           new == [work EXCEPT !.prekeys = @ \cup {row}]
<1>1. At(h, "insertPreKey")
  BY DEF InsertPreKey
<1>2. /\ Serving(h) /\ req.rpc = "Register" /\ call[h].pc < Len(Program(req))
      /\ IsDatabase(work) /\ Keys(work)
  <2>1. /\ Serving(h) /\ Placed(req, call[h].pc) /\ Program(req)[call[h].pc] = "insertPreKey"
        /\ IsDatabase(work) /\ Keys(work)
    BY <1>1, RacyAt
  <2>2. req.rpc = "Register" /\ call[h].pc = 3 /\ Len(Program(req)) = 4
    BY <2>1 DEF Placed
  <2> QED BY <2>1, <2>2
<1>3. CASE Leave(h, "INTERNAL", <<>>)
  BY <1>2, <1>3, RacyLeave DEF Honest
<1>4. CASE Exec(h, new) /\ \A old \in work.prekeys : ~ IsKeyOf(old, req)
  <2>1. IsDatabase(new) /\ new.prekeys = work.prekeys \cup {row} /\ new.users = work.users
    BY <1>2, PreKeysWritten
  <2>2. /\ row.identity_key = NULL
        /\ \A old : IsKeyOf(old, row) \/ IsKeyOf(row, old) => IsKeyOf(old, req)
    BY DEF FirstPreKeyRow, IsKeyOf
  <2> HIDE DEF new, row
  <2>3. Keys(new)
    BY <1>2, <1>4, <2>1, <2>2 DEF Keys
  <2> QED BY <1>2, <1>4, <2>1, <2>3, RacyExec
<1> QED BY <1>3, <1>4 DEF InsertPreKey

LEMMA RacyUploadPreKey ==
    ASSUME RaceInv, NEW h \in Handler, UploadPreKey(h), checked' \subseteq checked \ {h}
    PROVE  RaceInv'
<1> DEFINE req == Asked(h)
           row == PreKeyRow(req)
           new == [work EXCEPT !.prekeys = UpsertPreKey(@, req)]
<1>1. At(h, "upsertPreKey") /\ Exec(h, new)
  BY DEF UploadPreKey
<1>2. /\ Serving(h) /\ req.rpc = "UploadPreKey" /\ call[h].pc < Len(Program(req))
      /\ req = asked[call[h].id] /\ call[h].id \in Id
      /\ IsDatabase(work) /\ Keys(work)
  <2>1. /\ Serving(h) /\ Placed(req, call[h].pc) /\ Program(req)[call[h].pc] = "upsertPreKey"
        /\ req = asked[call[h].id] /\ call[h].id \in Id
        /\ IsDatabase(work) /\ Keys(work)
    BY <1>1, RacyAt
  <2>2. req.rpc = "UploadPreKey" /\ call[h].pc = 2 /\ Len(Program(req)) = 3
    BY <2>1 DEF Placed
  <2> QED BY <2>1, <2>2
<1>3. /\ IsDatabase(new) /\ new.users = work.users
      /\ new.prekeys = {old \in work.prekeys : ~ IsKeyOf(old, req)} \cup {row}
  <2> DEFINE rows == UpsertPreKey(work.prekeys, req)
  <2>1. /\ IsDatabase([work EXCEPT !.prekeys = rows])
        /\ [work EXCEPT !.prekeys = rows].users = work.users
        /\ [work EXCEPT !.prekeys = rows].prekeys = rows
    <3>1. IsDatabase(work)
      BY <1>2
    <3> HIDE DEF rows
    <3> QED BY <3>1, PreKeysWritten
  <2>2. rows = {old \in work.prekeys : ~ IsKeyOf(old, req)} \cup {row}
    BY DEF UpsertPreKey
  <2> QED BY <2>1, <2>2
<1>4. WasUploaded(row)
  BY <1>2 DEF WasUploaded
<1>5. \A old : IsKeyOf(old, row) \/ IsKeyOf(row, old) => IsKeyOf(old, req)
  BY DEF PreKeyRow, IsKeyOf
<1>6. Keys(new)
  <2> HIDE DEF new, row
  <2> QED BY <1>2, <1>3, <1>4, <1>5 DEF Keys
<1> QED BY <1>1, <1>2, <1>3, <1>6, RacyExec

\* Those that write chats and messages.
LEMMA RacyWriteChat ==
    ASSUME RaceInv, NEW h \in Handler, InsertChat(h) \/ InsertMember(h) \/ InsertMessage(h),
           checked' \subseteq checked \ {h}
    PROVE  RaceInv'
<1>1. PICK step \in {"insertChat", "insertMember", "insertMessage"} : At(h, step)
  BY DEF InsertChat, InsertMember, InsertMessage
<1>2. /\ Serving(h) /\ Asked(h).rpc # "GetPreKey" /\ IsDatabase(work) /\ Keys(work)
      /\ call[h].pc < Len(Program(Asked(h)))
  <2>1. /\ Serving(h) /\ Asked(h) \in Request /\ call[h].pc \in Nat
        /\ Placed(Asked(h), call[h].pc) /\ Program(Asked(h))[call[h].pc] = step
        /\ IsDatabase(work) /\ Keys(work)
    BY <1>1, RacyAt
  <2> DEFINE req == Asked(h)
             pc == call[h].pc
             last == Len(Program(req))
  <2>2. \/ req.rpc = "SendMessage" /\ pc = 2 /\ last = 4
        \/ req.rpc = "CreateChat" /\ pc = 2 /\ last = Len(req.participants) + 3
        \/ req.rpc = "CreateChat" /\ pc < last
    <3>1. step = "insertChat" \/ step = "insertMember" \/ step = "insertMessage"
      OBVIOUS
    <3> HIDE DEF req, pc
    <3> QED BY <3>1, <2>1 DEF Placed, req, pc
  <2>3. req.rpc = "CreateChat" => Len(req.participants) \in Nat
    BY <2>1, RequestAssumption
  <2> HIDE DEF req, pc, last
  <2>4. req.rpc # "GetPreKey" /\ pc < last
    BY <2>2, <2>3
  <2> QED BY <2>1, <2>4 DEF req, pc, last
<1>3. CASE Leave(h, "INTERNAL", <<>>)
  BY <1>2, <1>3, RacyLeave DEF Honest
<1>4. ASSUME NEW new, Exec(h, new), IsDatabase(new), new.users = work.users, new.prekeys = work.prekeys
      PROVE  RaceInv'
  <2>1. Keys(new)
    BY <1>2, <1>4 DEF Keys
  <2> QED BY <1>2, <1>4, <2>1, RacyExec
<1>5. CASE \E chats : Exec(h, [work EXCEPT !.chats = chats])
  <2>1. PICK chats : Exec(h, [work EXCEPT !.chats = chats])
    BY <1>5
  <2> DEFINE new == [work EXCEPT !.chats = chats]
  <2>2. IsDatabase(new) /\ new.users = work.users /\ new.prekeys = work.prekeys
    BY <1>2 DEF IsDatabase
  <2> QED BY <2>1, <2>2, <1>4
<1>6. CASE \E members : Exec(h, [work EXCEPT !.members = members])
  <2>1. PICK members : Exec(h, [work EXCEPT !.members = members])
    BY <1>6
  <2> DEFINE new == [work EXCEPT !.members = members]
  <2>2. IsDatabase(new) /\ new.users = work.users /\ new.prekeys = work.prekeys
    BY <1>2 DEF IsDatabase
  <2> QED BY <2>1, <2>2, <1>4
<1>7. CASE \E row : Exec(h, [work EXCEPT !.messages = Append(@, row)])
  <2>1. PICK row : Exec(h, [work EXCEPT !.messages = Append(@, row)])
    BY <1>7
  <2> DEFINE new == [work EXCEPT !.messages = Append(@, row)]
  <2>2. IsDatabase(new)
    BY <1>2, MessageAdded
  <2>3. new.users = work.users /\ new.prekeys = work.prekeys
    BY <1>2 DEF IsDatabase
  <2> QED BY <2>1, <2>2, <2>3, <1>4
<1> QED BY <1>3, <1>5, <1>6, <1>7 DEF InsertChat, InsertMember, InsertMessage

LEMMA RacyRead ==
    ASSUME RaceInv, NEW h \in Handler, SelectHash(h) \/ GetPreKey(h) \/ GetHistory(h),
           checked' \subseteq checked \ {h}
    PROVE  RaceInv'
<1>1. CASE SelectHash(h) \/ GetHistory(h)
  <2>1. PICK step \in {"selectHash", "selectPage"} : At(h, step)
    BY <1>1 DEF SelectHash, GetHistory
  <2>2. Serving(h) /\ Asked(h).rpc # "GetPreKey"
    BY <2>1, RacyAt DEF Placed
  <2>3. \E status, rows : Leave(h, status, rows)
    BY <1>1 DEF SelectHash, GetHistory
  <2> QED BY <2>2, <2>3, RacyLeave DEF Honest
<1>2. CASE GetPreKey(h)
  <2>1. Serving(h) /\ Keys(work)
    BY <1>2, RacyAt DEF GetPreKey
  <2>2. CASE \E status \in {"NOT_FOUND", "INTERNAL"} : Leave(h, status, <<>>)
    BY <2>1, <2>2, RacyLeave DEF Honest
  <2>3. CASE \E row \in work.prekeys : /\ row.username = Asked(h).username
                                       /\ row.identity_key # NULL
                                       /\ Leave(h, "OK", <<Bundle(row)>>)
    <3>1. PICK row \in work.prekeys : /\ row.username = Asked(h).username
                                      /\ row.identity_key # NULL
                                      /\ Leave(h, "OK", <<Bundle(row)>>)
      BY <2>3
    <3>2. PICK id \in Id : asked[id].rpc = "UploadPreKey" /\ row = PreKeyRow(asked[id])
      BY <2>1, <3>1 DEF Keys, WasUploaded
    <3>3. asked[id].username = Asked(h).username
      BY <3>1, <3>2 DEF PreKeyRow
    <3>4. Honest(h, "OK", <<Bundle(row)>>)
      BY <3>2, <3>3 DEF Honest
    <3> QED BY <2>1, <3>1, <3>4, RacyLeave
  <2> QED BY <1>2, <2>2, <2>3 DEF GetPreKey
<1> QED BY <1>1, <1>2

\* COMMIT, PUBLISH and a fresh token: the last steps of their handlers.
LEMMA RacyFinish ==
    ASSUME RaceInv, NEW h \in Handler, Commit(h) \/ Publish(h) \/ Refresh(h),
           checked' \subseteq checked \ {h}
    PROVE  RaceInv'
<1>1. PICK step \in {"commit", "publish", "newToken"} : At(h, step)
  BY DEF Commit, Publish, Refresh
<1>2. Serving(h) /\ Asked(h).rpc # "GetPreKey"
  BY <1>1, RacyAt DEF Placed
<1>3. Moved(h)
  BY <1>2, RacyProceed DEF Commit, Publish, Refresh
<1>4. IsSeq(events')
  <2>1. IsSeq(events)
    BY DEF RaceInv, Types
  <2>2. CASE events' = events
    BY <2>1, <2>2
  <2>3. CASE \E event : events' = Append(events, event)
    BY <2>1, <2>3, Appended
  <2> QED BY <2>2, <2>3 DEF Commit, Publish, Refresh
<1>5. /\ tables' \in {tables, work} /\ work' = work
      /\ inTx' \in {inTx, FALSE} /\ trans' \in {trans, NoHandler} /\ open' = open
  BY DEF Commit, Publish, Refresh, connection
<1> QED BY <1>3, <1>4, <1>5, RaceKept DEF RaceInv, Types

LEMMA RacyBroken ==
    ASSUME RaceInv, NEW h \in Handler, Broken(h), checked' \subseteq checked \ {h}
    PROVE  RaceInv'
<1>1. Serving(h) /\ Honest(h, "INTERNAL", <<>>)
  BY DEF Broken, Honest
<1>2. CASE Leave(h, "INTERNAL", <<>>)
  BY <1>1, <1>2, RacyLeave
<1>3. CASE Answer(h, "INTERNAL", <<>>) /\ UNCHANGED <<tables, work, connection, events>>
  BY <1>1, <1>3, RacyRefused
<1> QED BY <1>2, <1>3 DEF Broken

-----------------------------------------------------------------------------
(***************************************************************************)
(* Failures, and the theorems.                                             *)
(***************************************************************************)

LEMMA RacyLose ==
    ASSUME RaceInv, LoseConnection, checked' = checked
    PROVE  RaceInv'
<1>1. /\ asked' = asked /\ call' = call /\ replies' = replies
      /\ trans' = trans /\ events' = events
      /\ tables' \in {tables, work} /\ work' = tables' /\ inTx' = FALSE /\ open' = FALSE
      /\ faults' = faults + 1 /\ faults < MaxFaults
  BY DEF LoseConnection
<1>2. IsDatabase(tables') /\ Keys(tables')
  BY <1>1 DEF RaceInv, Types
<1>3. Types'
  <2>1. faults' \in 0 .. MaxFaults
    BY <1>1, ServerAssumption DEF RaceInv, Types
  <2> QED BY <1>1, <1>2, <2>1 DEF RaceInv, Types
<1>4. Places' /\ Separate' /\ \A h \in checked' : h \in Handler /\ At(h, "begin")'
  BY <1>1 DEF RaceInv, Places, Separate, Unanswered, At, Serving, Asked, Id
<1>5. Keys(tables)' /\ Keys(work)' /\ KeysStayPaired'
  BY <1>1, <1>2 DEF RaceInv, Keys, WasUploaded, KeysStayPaired, Id
<1> QED BY <1>3, <1>4, <1>5 DEF RaceInv

LEMMA RacyRestart ==
    ASSUME RaceInv, Restart, checked' = {}
    PROVE  RaceInv'
<1>1. /\ asked' = asked /\ replies' = replies /\ tables' = tables /\ events' = events
      /\ call' = [h \in Handler |-> Idle]
      /\ work' = tables /\ inTx' = FALSE /\ trans' = NoHandler /\ open' = TRUE
      /\ faults' = faults + 1 /\ faults < MaxFaults
  BY DEF Restart
<1>2. Types'
  <2>1. faults' \in 0 .. MaxFaults
    BY <1>1, ServerAssumption DEF RaceInv, Types
  <2> QED BY <1>1, <2>1 DEF RaceInv, Types
<1>3. \A h \in Handler : ~ Serving(h)'
  BY <1>1 DEF Serving
<1>4. Places' /\ Separate'
  BY <1>1, <1>3 DEF RaceInv, Places, Separate, Id
<1>5. Keys(tables)' /\ Keys(work)' /\ KeysStayPaired'
  BY <1>1 DEF RaceInv, Keys, WasUploaded, KeysStayPaired, Id
<1> QED BY <1>2, <1>4, <1>5 DEF RaceInv

LEMMA RacyStepKeeps ==
    ASSUME RaceInv, NEW h \in Handler, RacyStep(h)
    PROVE  RaceInv'
<1>1. checked' = checked /\ checked' \subseteq checked \ {h} /\ Step(h)
  BY DEF RacyStep
<1>2. CASE \E req \in Request : Accept(h, req)
  BY <1>1, <1>2, RacyAccept
<1>3. CASE InsertUser(h) \/ InsertPreKey(h) \/ UploadPreKey(h)
  BY <1>1, <1>3, RacyInsertUser, RacyInsertPreKey, RacyUploadPreKey
<1>4. CASE InsertChat(h) \/ InsertMember(h) \/ InsertMessage(h)
  BY <1>1, <1>4, RacyWriteChat
<1>5. CASE SelectHash(h) \/ GetPreKey(h) \/ GetHistory(h)
  BY <1>1, <1>5, RacyRead
<1>6. CASE Commit(h) \/ Publish(h) \/ Refresh(h)
  BY <1>1, <1>6, RacyFinish
<1>7. CASE Broken(h)
  BY <1>1, <1>7, RacyBroken
<1> QED BY <1>1, <1>2, <1>3, <1>4, <1>5, <1>6, <1>7 DEF Step

LEMMA RaceHolds == RacySpec => []RaceInv
<1>1. RacyInit => RaceInv
  <2> SUFFICES ASSUME RacyInit PROVE RaceInv
    OBVIOUS
  <2>1. Types /\ Places /\ Separate
    BY InitInv DEF RacyInit, ServerInv
  <2>2. Keys(tables) /\ Keys(work)
    BY DEF RacyInit, Init, EmptyTables, Keys
  <2>3. KeysStayPaired
    BY DEF RacyInit, Init, KeysStayPaired
  <2> QED BY <2>1, <2>2, <2>3 DEF RaceInv, RacyInit
<1>2. RaceInv /\ [RacyNext]_racyVars => RaceInv'
  <2> SUFFICES ASSUME RaceInv, [RacyNext]_racyVars PROVE RaceInv'
    OBVIOUS
  <2>1. CASE \E h \in Handler : CheckRegistered(h) \/ StoreRegistered(h)
    BY <2>1, RacyBegin
  <2>2. CASE \E h \in Handler : RacyStep(h)
    BY <2>2, RacyStepKeeps
  <2>3. CASE LoseConnection /\ UNCHANGED checked
    BY <2>3, RacyLose
  <2>4. CASE Restart /\ checked' = {}
    BY <2>4, RacyRestart
  <2>5. CASE UNCHANGED racyVars
    <3>1. /\ asked' = asked /\ call' = call /\ replies' = replies /\ tables' = tables
          /\ work' = work /\ events' = events /\ faults' = faults
          /\ inTx' = inTx /\ trans' = trans /\ open' = open /\ checked' = checked
      BY <2>5 DEF racyVars, vars, connection
    <3>2. Types' /\ Places' /\ Separate' /\ \A h \in checked' : h \in Handler /\ At(h, "begin")'
      BY <3>1 DEF RaceInv, Types, Places, Separate, Unanswered, At, Serving, Asked, Id
    <3>3. Keys(tables)' /\ Keys(work)' /\ KeysStayPaired'
      BY <3>1 DEF RaceInv, Keys, WasUploaded, KeysStayPaired, Id
    <3> QED BY <3>2, <3>3 DEF RaceInv
  <2> QED BY <2>1, <2>2, <2>3, <2>4, <2>5 DEF RacyNext
<1> QED BY <1>1, <1>2, PTL DEF RacySpec

\* Even if handlers share a transaction, GetPreKey pairs no keys of two uploads.
THEOREM RaceKeepsPairs == RacySpec => []KeysStayPaired
<1>1. RaceInv => KeysStayPaired
  BY DEF RaceInv
<1> QED BY <1>1, RaceHolds, PTL

\* Even then handlers stay in their programs, and usernames and pre-keys unique.
THEOREM RaceKeepsTypes == RacySpec => []TypeOK
<1>1. RaceInv => TypeOK
  BY DEF RaceInv, Types, Places, Serving, Keys, TypeOK
<1> QED BY <1>1, RaceHolds, PTL
=============================================================================

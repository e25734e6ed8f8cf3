----------------------------- MODULE AtomicServer -----------------------------
(***************************************************************************)
(* What the unary handlers of messenger_server promise together: a call    *)
(* that changes the database does so in one step, whole, between the       *)
(* moment it is made and the moment it is answered; a call that reads it   *)
(* reads it as it is when it answers; and OK is only answered to a call    *)
(* that has had its effect.  INTERNAL promises nothing: the effect may     *)
(* have happened or not.  Server implements this with statements, threads  *)
(* and one connection that breaks.                                         *)
(***************************************************************************)
EXTENDS Tables

CONSTANT Request    \* the requests clients send

VARIABLES asked,      \* asked[id]: the request of call id
          tables,     \* the contents of the database
          answers,    \* the answers, in the order they were given
          events      \* what Redis was given to publish

vars == <<asked, tables, answers, events>>

Call == 1 .. Len(asked)

Pending(id) == \A k \in 1 .. Len(answers) : answers[k].id # id

Ask == /\ \E req \in Request : asked' = Append(asked, req)
       /\ UNCHANGED <<tables, answers, events>>

-----------------------------------------------------------------------------
(***************************************************************************)
(* The effects of the calls that write.                                    *)
(***************************************************************************)

Registered(username) == \E row \in tables.users : row.username = username

\* A user and the first pre-key, both or none of the two.
Register(id) ==
    LET req == asked[id]
    IN  /\ req.rpc = "Register"
        /\ ~ Registered(req.username)
        /\ \A row \in tables.prekeys : ~ IsKeyOf(row, req)
        /\ tables' = [tables EXCEPT !.users = @ \cup {UserRow(req)},
                                    !.prekeys = @ \cup {FirstPreKeyRow(req)}]

UploadPreKey(id) ==
    /\ asked[id].rpc = "UploadPreKey"
    /\ tables' = [tables EXCEPT !.prekeys = UpsertPreKey(@, asked[id])]

MemberRows(id) ==
    {MemberRow(id, asked[id].participants[i]) : i \in 1 .. Len(asked[id].participants)}

\* A chat and all its members.
CreateChat(id) ==
    /\ asked[id].rpc = "CreateChat"
    /\ tables' = [tables EXCEPT !.chats = @ \cup {id},
                                !.members = @ \cup MemberRows(id)]

Sent(id) == \E k \in 1 .. Len(tables.messages) : tables.messages[k].id = id

SendMessage(id) ==
    /\ asked[id].rpc = "SendMessage"
    /\ asked[id].chat_id \in tables.chats
    /\ ~ Sent(id)
    /\ tables' = [tables EXCEPT !.messages = Append(@, MessageRow(id, asked[id]))]

-----------------------------------------------------------------------------
(***************************************************************************)
(* The answers a pending call can be given.                                *)
(***************************************************************************)

Ok(rows) == [status |-> "OK", rows |-> rows]

Error(status) == [status |-> status, rows |-> <<>>]

KeyStored(req) == \E row \in tables.prekeys : IsKeyOf(row, req)

HasEffect(id) ==
    CASE asked[id].rpc = "Register"     -> UserRow(asked[id]) \in tables.users /\ KeyStored(asked[id])
      [] asked[id].rpc = "UploadPreKey" -> KeyStored(asked[id])
      [] asked[id].rpc = "CreateChat"   -> id \in tables.chats /\ MemberRows(id) \subseteq tables.members
      [] asked[id].rpc = "SendMessage"  -> Sent(id)

\* Which passwords are accepted is not said here.
LoginAnswers(req) ==
    IF Registered(req.username) THEN {Ok(<<>>), Error("UNAUTHENTICATED")} ELSE {Error("NOT_FOUND")}

GetPreKeyAnswers(req) ==
    LET found == {row \in tables.prekeys : row.username = req.username}
    IN  IF found = {} THEN {Error("NOT_FOUND")}
        ELSE {Ok(<<Bundle(row)>>) : row \in {r \in found : r.identity_key # NULL}}

GetHistoryAnswers(req) ==
    IF req.limit < 0 \/ req.offset < 0 THEN {} ELSE {Ok(Page(tables.messages, req))}

\* Refresh is the only call that cannot fail.
Answers(id) ==
    LET req == asked[id]
    IN  CASE req.rpc = "Refresh"    -> {Ok(<<>>)}
          [] req.rpc = "Login"      -> LoginAnswers(req) \cup {Error("INTERNAL")}
          [] req.rpc = "GetPreKey"  -> GetPreKeyAnswers(req) \cup {Error("INTERNAL")}
          [] req.rpc = "GetHistory" -> GetHistoryAnswers(req) \cup {Error("INTERNAL")}
          [] OTHER -> (IF HasEffect(id) THEN {Ok(<<>>)} ELSE {}) \cup {Error("INTERNAL")}

-----------------------------------------------------------------------------
Give(id, answer) ==
    answers' = Append(answers, [id |-> id, status |-> answer.status, rows |-> answer.rows])

\* A call takes effect, and may be answered at once.
Apply(id) == /\ Pending(id)
             /\ Register(id) \/ UploadPreKey(id) \/ CreateChat(id) \/ SendMessage(id)
             /\ UNCHANGED answers \/ Give(id, Ok(<<>>))
             /\ UNCHANGED <<asked, events>>

\* A call is answered; the event of a message that is stored goes to the
\* channel of its sender, or is lost.
Reply(id) ==
    /\ Pending(id)
    /\ \E answer \in Answers(id) :
          /\ Give(id, answer)
          /\ \/ UNCHANGED events
             \/ /\ asked[id].rpc = "SendMessage" /\ answer.status = "OK"
                /\ events' = Append(events, [channel |-> asked[id].sender, message_id |-> id])
    /\ UNCHANGED <<asked, tables>>

Init == /\ asked = <<>> /\ answers = <<>> /\ events = <<>>
        /\ tables = EmptyTables

Next == \/ Ask
        \/ \E id \in Call : Apply(id) \/ Reply(id)

Spec == Init /\ [][Next]_vars
=============================================================================

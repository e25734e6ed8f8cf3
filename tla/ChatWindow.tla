------------------------------ MODULE ChatWindow ------------------------------
(***************************************************************************)
(* The window of the desktop client: ChatWindow (client/gui/src/ui) with   *)
(* its MessageListModel and ChatListModel.  All of it runs on the GUI      *)
(* thread; each slot is one action.  Two calls do not return at once: the  *)
(* file dialog runs an event loop of its own, in which signals and the     *)
(* timer go on while clicks do not, and sendMessage or sendFile of the     *)
(* network client, which may signal before it returns.                     *)
(*                                                                         *)
(* INetworkClient has no implementation in this repository.  A client may  *)
(* signal any message, status and presence at any time, from any thread:   *)
(* the connections are automatic ones, so that a signal of another thread  *)
(* waits in the GUI thread's queue, is handled after the window has moved  *)
(* on, and is not withdrawn by disconnect.  The local ids that it returns  *)
(* may be those of other messages: another client, or the clock that       *)
(* stands in for one, knows nothing of them.                               *)
(***************************************************************************)
EXTENDS Integers, Sequences

CONSTANTS Client,        \* network clients the window is given
          NoClient,      \* m_net is nullptr
          NoChat,        \* m_currentChatId is empty
          LocalId,       \* what clients and clock give for local ids
          Message,       \* messages that clients signal
          MaxRows,       \* bound: messages that are sent or signalled
          MaxPosted      \* bound: signals on their way to the window

\* Message::Status, as the numbers of the enumeration.
Pending == 0
Sent == 1
Delivered == 2
Read == 3
Status == {Pending, Sent, Delivered, Read}

\* A Message, as far as the window looks at it.
Row == [localId : LocalId, outgoing : BOOLEAN, status : Status]

ASSUME WindowAssumption == /\ NoClient \notin Client /\ NoChat \notin {"chat_1", "chat_2"}
                           /\ Message \subseteq Row
                           /\ MaxRows \in Nat /\ MaxPosted \in Nat

Presence == [online : BOOLEAN, typing : BOOLEAN]

-----------------------------------------------------------------------------
(***************************************************************************)
(* The models behind the two lists.                                        *)
(***************************************************************************)

\* A known chat is replaced where it stands, a new one comes last.
AddOrUpdateChat(chats, c) ==
    IF \E i \in DOMAIN chats : chats[i].id = c.id
    THEN [i \in DOMAIN chats |-> IF chats[i].id = c.id THEN c ELSE chats[i]]
    ELSE Append(chats, c)

\* The demo data.  Nothing calls setPresence: m_chatModel never changes.
ChatModel ==
    AddOrUpdateChat(AddOrUpdateChat(<<>>,
        [id |-> "chat_1", presence |-> [online |-> TRUE, typing |-> FALSE]]),
        [id |-> "chat_2", presence |-> [online |-> FALSE, typing |-> FALSE]])

Chat == {ChatModel[i].id : i \in DOMAIN ChatModel}

PresenceInModel(c) == ChatModel[CHOOSE i \in DOMAIN ChatModel : ChatModel[i].id = c].presence

\* What the header says of a chat.
StatusText(p) == IF p.typing THEN "typing" ELSE IF p.online THEN "online" ELSE "offline"

\* Mutated: the loop goes on after the first row.
UpdateEveryStatus(list, localId, st) ==
    [i \in DOMAIN list |->
        IF list[i].localId = localId THEN [list[i] EXCEPT !.status = st] ELSE list[i]]

IsFirst(list, i) == \A j \in 1 .. i - 1 : list[j].localId # list[i].localId

\* The first row with the id, if there is one.
UpdateStatusByLocalId(list, localId, st) ==
    [i \in DOMAIN list |->
        IF list[i].localId = localId /\ IsFirst(list, i)
        THEN [list[i] EXCEPT !.status = st]
        ELSE list[i]]

\* What clients signal.
Signal == [kind : {"message"}, chat : Chat, message : Message]
          \cup [kind : {"status"}, chat : Chat, localId : LocalId, status : Status]
          \cup [kind : {"presence"}, chat : Chat, presence : Presence]

-----------------------------------------------------------------------------
VARIABLES current,     \* m_currentChatId
          header,      \* what m_headerStatus says, and of which chat that was said
          rows,        \* m_msgModel, one list for all chats
          input,       \* m_input holds more than blanks
          dialog,      \* the file dialog of onFileClicked is open
          sending,     \* "text" in sendMessage, "file" in sendFile, or "no"
          net,         \* m_net
          links,       \* links[k]: how often the signals of client k are connected
          posted,      \* signals on their way; own: the first copy of one that m_net's client gave
          typing,      \* the static state of onTypingChanged, and what setTyping was given last
          timer,       \* m_typingTimer is running
          due,         \* history: messages sent, or received for the chat that was open
          last         \* history: last[id]: status that the first row with the id came with,
                       \* or that was received for id and the chat that was open since

connection == <<net, links>>

typist == <<typing, timer>>

shown == <<rows, due, last>>

vars == <<current, header, input, dialog, sending, posted, connection, typist, shown>>

Init == /\ current = NoChat /\ header = [of |-> NoChat, text |-> ""]
        /\ input = FALSE /\ dialog = FALSE /\ sending = "no"
        /\ net = NoClient /\ links = [k \in Client |-> 0] /\ posted = <<>>
        /\ typing = FALSE /\ timer = FALSE
        /\ rows = <<>> /\ due = <<>> /\ last = [id \in LocalId |-> Pending]

\* The GUI thread waits in no other slot: the user can click and type.
Free == ~ dialog /\ sending = "no"

\* Room for one more message, with those that may still get rows.
Room == Len(rows) + Len(posted) + (IF sending = "no" THEN 0 ELSE 1) < MaxRows

Known(localId) == \E i \in DOMAIN rows : rows[i].localId = localId

\* addMessage; own messages are due a row.
AddMessage(m, own) ==
    /\ rows' = Append(rows, m)
    /\ due' = IF own THEN Append(due, m) ELSE due
    /\ last' = IF Known(m.localId) THEN last ELSE [last EXCEPT ![m.localId] = m.status]

-----------------------------------------------------------------------------
(***************************************************************************)
(* The application and the user.                                           *)
(***************************************************************************)

\* Mutated: the old client stays connected.
SetNetworkClientOnly(k) ==
    /\ sending = "no"
    /\ net' = k
    /\ links' = [j \in Client |-> links[j] + (IF j = k THEN 1 ELSE 0)]
    /\ UNCHANGED <<current, header, input, dialog, sending, posted, typist, shown>>

\* The old client is disconnected first; k may be the same one, or none.
SetNetworkClient(k) ==
    /\ sending = "no"
    /\ net' = k
    /\ links' = [j \in Client |-> (IF j = net THEN 0 ELSE links[j]) + (IF j = k THEN 1 ELSE 0)]
    /\ UNCHANGED <<current, header, input, dialog, sending, posted, typist, shown>>

\* The row of a message sent; the local id is the client's or the clock's.
Post == \E id \in LocalId :
           AddMessage([localId |-> id, outgoing |-> TRUE, status |-> Sent], TRUE)

\* Up to the call of the client; without one, to the end.
SendClicked ==
    /\ Free
    /\ current # NoChat
    /\ input
    /\ Room
    /\ IF net = NoClient
       THEN Post /\ input' = FALSE /\ UNCHANGED sending
       ELSE sending' = "text" /\ UNCHANGED <<input, shown>>
    /\ UNCHANGED <<current, header, dialog, connection, posted, typist>>

\* Mutated: the dialog opens before a chat is selected.
FileClickedEarly ==
    /\ Free
    /\ dialog' = TRUE
    /\ UNCHANGED <<current, header, input, sending, connection, posted, typist, shown>>

\* The chat is tested before the dialog opens and used after it has closed.
FileClicked ==
    /\ Free
    /\ current # NoChat
    /\ dialog' = TRUE
    /\ UNCHANGED <<current, header, input, sending, connection, posted, typist, shown>>

\* Without a path nothing is sent.
FileDialogCloses ==
    /\ dialog
    /\ dialog' = FALSE
    /\ \/ UNCHANGED <<sending, shown>>
       \/ /\ Room
          /\ IF net = NoClient
             THEN Post /\ UNCHANGED sending
             ELSE sending' = "file" /\ UNCHANGED shown
    /\ UNCHANGED <<current, header, input, connection, posted, typist>>

\* sendMessage or sendFile returns: only now there is a row.
SendReturns ==
    /\ sending # "no"
    /\ Post
    /\ sending' = "no"
    /\ input' = IF sending = "text" THEN FALSE ELSE input
    /\ UNCHANGED <<current, header, dialog, connection, posted, typist>>

\* The rows stay as they are.
ChatSelected(c) ==
    /\ Free
    /\ current' = c
    /\ header' = [of |-> c, text |-> StatusText(PresenceInModel(c))]
    /\ UNCHANGED <<input, dialog, sending, connection, posted, typist, shown>>

\* onTypingChanged, for an edit and for the timeout alike: what was sent last is
\* turned round and the timer started (again).
TypingChanged ==
    IF net = NoClient \/ current = NoChat
    THEN UNCHANGED typist
    ELSE /\ typing' = ~ typing
         /\ timer' = TRUE

Edit ==
    /\ Free
    /\ input' \in BOOLEAN
    /\ TypingChanged
    /\ UNCHANGED <<current, header, dialog, sending, connection, posted, shown>>

\* The single shot is over before the slot runs.
Timeout ==
    /\ timer
    /\ sending = "no"
    /\ IF net = NoClient \/ current = NoChat
       THEN timer' = FALSE /\ UNCHANGED typing
       ELSE TypingChanged
    /\ UNCHANGED <<current, header, input, dialog, sending, connection, posted, shown>>

-----------------------------------------------------------------------------
(***************************************************************************)
(* Signals of the clients.                                                 *)
(***************************************************************************)

\* One call of the slot for each connection: behind those that wait, or before
\* them when the client signals on the GUI thread itself.
Emit(k, s) ==
    /\ links[k] > 0
    /\ Len(posted) < MaxPosted
    /\ s.kind = "message" => Room
    /\ LET calls == [i \in 1 .. links[k] |-> [signal |-> s, own |-> k = net /\ i = 1]]
       IN  posted' = posted \o calls \/ posted' = calls \o posted
    /\ UNCHANGED <<current, header, input, dialog, sending, connection, typist, shown>>

\* Mutated: what is said of any chat is taken for the current one.
ForAnyChat(s) == current # NoChat

ForCurrentChat(s) == s.chat = current

MessageReceived(call) ==
    /\ IF ForCurrentChat(call.signal)
       THEN AddMessage(call.signal.message, call.own)
       ELSE UNCHANGED shown
    /\ UNCHANGED header

\* What is said of an id that has no row is lost, even if the row is on its way.
StatusChanged(s) ==
    /\ IF ForCurrentChat(s)
       THEN /\ rows' = UpdateStatusByLocalId(rows, s.localId, s.status)
            /\ last' = IF Known(s.localId) THEN [last EXCEPT ![s.localId] = s.status] ELSE last
            /\ UNCHANGED due
       ELSE UNCHANGED shown
    /\ UNCHANGED header

PresenceChanged(s) ==
    /\ header' = IF ForCurrentChat(s) THEN [of |-> s.chat, text |-> StatusText(s.presence)]
                 ELSE header
    /\ UNCHANGED shown

\* The slot of the next signal runs, in whatever the GUI thread waits.
Deliver ==
    /\ posted # <<>>
    /\ posted' = Tail(posted)
    /\ LET call == Head(posted)
       IN  \/ call.signal.kind = "message" /\ MessageReceived(call)
           \/ call.signal.kind = "status" /\ StatusChanged(call.signal)
           \/ call.signal.kind = "presence" /\ PresenceChanged(call.signal)
    /\ UNCHANGED <<current, input, dialog, sending, connection, typist>>

-----------------------------------------------------------------------------
UserNext == \/ \E k \in Client \cup {NoClient} : SetNetworkClient(k)
            \/ SendClicked \/ FileClicked \/ FileDialogCloses \/ SendReturns
            \/ Edit \/ Timeout
            \/ \E c \in Chat : ChatSelected(c)

SignalNext == Deliver \/ \E k \in Client : \E s \in Signal : Emit(k, s)

Next == UserNext \/ SignalNext

Spec == Init /\ [][Next]_vars

\* Qt's event loop runs: a timer that is started goes off.
FairSpec == Spec /\ WF_vars(Timeout)

-----------------------------------------------------------------------------
(***************************************************************************)
(* Properties.                                                             *)
(***************************************************************************)

Texts == {"", "typing", "online", "offline"}

\* The types; only the client in m_net is connected, and once; where a dialog is
\* open or a message being sent, a chat is selected.
TypeOK == /\ current \in Chat \cup {NoChat} /\ header \in [of : Chat \cup {NoChat}, text : Texts]
          /\ input \in BOOLEAN /\ dialog \in BOOLEAN /\ sending \in {"no", "text", "file"}
          /\ net \in Client \cup {NoClient}
          /\ typing \in BOOLEAN /\ timer \in BOOLEAN
          /\ rows \in Seq(Row) /\ due \in Seq(Row) /\ last \in [LocalId -> Status]
          /\ posted \in Seq([signal : Signal, own : BOOLEAN])
          /\ links = [k \in Client |-> IF k = net THEN 1 ELSE 0]
          /\ ~ Free => current # NoChat /\ ~ (dialog /\ sending # "no")

\* The header never tells of another chat, although signals of the chats left
\* behind still wait in the queue.  (It may be old: selecting a chat shows the
\* demo data again, whatever was signalled since.)
HeaderTellsOfCurrentChat == current # NoChat => header.of = current

\* However clients are exchanged while their signals are on the way, the rows are
\* the messages the user sent and those the client of the moment signalled for
\* the chat that was open on arrival, each once and in that order.
RowsAreDue ==
    /\ Len(rows) = Len(due)
    /\ \A i \in DOMAIN rows : /\ rows[i].localId = due[i].localId
                             /\ rows[i].outgoing = due[i].outgoing

\* A status goes to one message only, even where clients give two the same id: the
\* first row with an id shows what was received last for it, any later one what
\* it came with.
StatusIsTheLastHeard ==
    \A i \in DOMAIN rows :
        rows[i].status = IF IsFirst(rows, i) THEN last[rows[i].localId] ELSE due[i].status

\* "send toggles to simulate start/stop" (chatwindow.cpp:191): when the user has
\* stopped editing, and neither the chat nor the client is changed any more,
\* the peer is at some point told for good that typing has stopped.
TypingStops ==
    \A c \in Chat :
        <>[](current = c /\ net # NoClient) /\ <>[][~ Edit]_vars => <>[](~ typing)
=============================================================================

--------------------------- MODULE ChatWindowProofs ---------------------------
(***************************************************************************)
(* Proofs about ChatWindow, for any number of clients, messages, local ids *)
(* and signals on their way.                                               *)
(*                                                                         *)
(* Only the client in m_net is connected, and once, so every signal in the *)
(* queue is the only copy of one that m_net's client gave: rows and due    *)
(* grow together.  A row that is first with its id stays so, because rows  *)
(* are never removed, and every status that is heard for the id sets both  *)
(* this row and last.                                                      *)
(***************************************************************************)
EXTENDS ChatWindow, TLAPS

Call == [signal : Signal, own : BOOLEAN]

\* Every signal on its way is one that the window's client gave, and comes once.
OwnSignals == /\ posted \in Seq(Call)
              /\ \A i \in DOMAIN posted : posted[i].own

\* The parts of the invariant that speak of the rows.
ListInv == /\ rows \in Seq(Row) /\ due \in Seq(Row) /\ last \in [LocalId -> Status]
           /\ RowsAreDue /\ StatusIsTheLastHeard

\* The parts that speak of what is around them.
FrameTypes == /\ current \in Chat \cup {NoChat} /\ header \in [of : Chat \cup {NoChat}, text : Texts]
              /\ input \in BOOLEAN /\ dialog \in BOOLEAN /\ sending \in {"no", "text", "file"}
              /\ net \in Client \cup {NoClient}
              /\ typing \in BOOLEAN /\ timer \in BOOLEAN
              /\ links = [k \in Client |-> IF k = net THEN 1 ELSE 0]
              /\ ~ Free => current # NoChat /\ ~ (dialog /\ sending # "no")

WindowInv == FrameTypes /\ HeaderTellsOfCurrentChat /\ OwnSignals /\ ListInv

LEMMA InvGivesTypes == WindowInv => TypeOK
BY DEF WindowInv, FrameTypes, OwnSignals, ListInv, TypeOK, Call

-----------------------------------------------------------------------------
(***************************************************************************)
(* The models.                                                             *)
(***************************************************************************)

LEMMA SaidTexts == \A p \in Presence : StatusText(p) \in Texts
BY DEF Presence, StatusText, Texts

\* A sequence with one more element.
LEMMA Added ==
    ASSUME NEW S, NEW list \in Seq(S), NEW m \in S
    PROVE  /\ Append(list, m) \in Seq(S)
           /\ Len(list) \in Nat /\ DOMAIN list = 1 .. Len(list)
           /\ Len(Append(list, m)) = Len(list) + 1
           /\ DOMAIN Append(list, m) = 1 .. Len(list) + 1
           /\ \A i \in DOMAIN list : Append(list, m)[i] = list[i]
           /\ Append(list, m)[Len(list) + 1] = m
OBVIOUS

\* The demo data are two chats, each with a presence.
LEMMA DemoChats == /\ Chat = {"chat_1", "chat_2"} /\ NoChat \notin Chat
                   /\ \A c \in Chat : StatusText(PresenceInModel(c)) \in Texts
<1> DEFINE c1 == [id |-> "chat_1", presence |-> [online |-> TRUE, typing |-> FALSE]]
           c2 == [id |-> "chat_2", presence |-> [online |-> FALSE, typing |-> FALSE]]
<1>1. /\ c1.id = "chat_1" /\ c1.presence \in Presence
      /\ c2.id = "chat_2" /\ c2.presence \in Presence
  BY DEF Presence
<1> HIDE DEF c1, c2
<1>2. AddOrUpdateChat(<<>>, c1) = <<c1>>
  <2>1. ~ \E i \in DOMAIN <<>> : <<>>[i].id = c1.id
    OBVIOUS
  <2>2. Append(<<>>, c1) = <<c1>>
    OBVIOUS
  <2>3. QED
    BY <2>1, <2>2, Zenon DEF AddOrUpdateChat
<1>3. AddOrUpdateChat(<<c1>>, c2) = Append(<<c1>>, c2)
  <2>1. ~ \E i \in DOMAIN <<c1>> : <<c1>>[i].id = c2.id
    BY <1>1
  <2>2. QED
    BY <2>1, Zenon DEF AddOrUpdateChat
<1>4. /\ DOMAIN ChatModel = {1, 2}
      /\ ChatModel[1].id = "chat_1" /\ ChatModel[2].id = "chat_2"
      /\ ChatModel[1].presence \in Presence /\ ChatModel[2].presence \in Presence
  <2>1. ChatModel = AddOrUpdateChat(AddOrUpdateChat(<<>>, c1), c2)
    BY Zenon DEF ChatModel, c1, c2
  <2>2. ChatModel = Append(<<c1>>, c2)
    BY <1>2, <1>3, <2>1
  <2>3. <<c1>> \in Seq({c1, c2}) /\ Len(<<c1>>) = 1 /\ <<c1>>[1] = c1
    OBVIOUS
  <2>4. DOMAIN ChatModel = {1, 2} /\ ChatModel[1] = c1 /\ ChatModel[2] = c2
    BY <2>2, <2>3, Added
  <2>5. QED
    BY <1>1, <2>4
<1>5. Chat = {"chat_1", "chat_2"}
  BY <1>4 DEF Chat
<1>6. ASSUME NEW c \in Chat PROVE PresenceInModel(c) \in Presence
  <2>1. \E i \in DOMAIN ChatModel : ChatModel[i].id = c
    BY <1>4, <1>5
  <2>2. (CHOOSE i \in DOMAIN ChatModel : ChatModel[i].id = c) \in DOMAIN ChatModel
    BY <2>1
  <2>3. QED
    BY <1>4, <2>2 DEF PresenceInModel
<1>7. QED
  BY <1>5, <1>6, SaidTexts, WindowAssumption

-----------------------------------------------------------------------------
(***************************************************************************)
(* The rows.                                                               *)
(***************************************************************************)

\* What the rows are made of.
LEMMA Lists ==
    ASSUME ListInv
    PROVE  /\ DOMAIN rows = 1 .. Len(rows) /\ Len(rows) \in Nat
           /\ DOMAIN due = DOMAIN rows /\ Len(due) = Len(rows)
           /\ \A i \in DOMAIN rows : /\ rows[i] \in Row /\ due[i] \in Row
                                    /\ rows[i].localId \in LocalId
                                    /\ rows[i].localId = due[i].localId
                                    /\ rows[i].outgoing = due[i].outgoing
<1>1. rows \in Seq(Row) /\ due \in Seq(Row) /\ RowsAreDue
  BY DEF ListInv
<1>2. Len(due) = Len(rows) /\ DOMAIN rows = 1 .. Len(rows) /\ DOMAIN due = 1 .. Len(due)
  BY <1>1 DEF RowsAreDue
<1>3. \A i \in DOMAIN rows : rows[i] \in Row /\ due[i] \in Row
  BY <1>1, <1>2
<1>4. QED
  BY <1>1, <1>2, <1>3 DEF RowsAreDue, Row

LEMMA ListStays ==
    ASSUME ListInv, UNCHANGED shown
    PROVE  ListInv'
BY DEF ListInv, shown, RowsAreDue, StatusIsTheLastHeard, IsFirst

\* A row is added to both lists; if it is the first with its id, last follows it.
LEMMA AddKeeps ==
    ASSUME ListInv, NEW m \in Row, AddMessage(m, TRUE)
    PROVE  ListInv'
<1> DEFINE n == Len(rows) + 1
<1>1. rows' = Append(rows, m) /\ due' = Append(due, m)
  BY DEF AddMessage
<1>2. /\ rows \in Seq(Row) /\ due \in Seq(Row) /\ last \in [LocalId -> Status]
      /\ DOMAIN rows = 1 .. Len(rows) /\ Len(rows) \in Nat
      /\ DOMAIN due = 1 .. Len(rows) /\ Len(due) = Len(rows)
  BY Lists DEF ListInv
<1>3. m.localId \in LocalId /\ m.status \in Status
  BY DEF Row
<1>4. /\ rows' \in Seq(Row) /\ DOMAIN rows' = 1 .. n /\ Len(rows') = n
      /\ rows'[n] = m /\ \A i \in DOMAIN rows : rows'[i] = rows[i]
  BY <1>1, <1>2, Added
<1>5. /\ due' \in Seq(Row) /\ Len(due') = n
      /\ due'[n] = m /\ \A i \in DOMAIN rows : due'[i] = due[i]
  BY <1>1, <1>2, Added
<1>6. /\ last' \in [LocalId -> Status]
      /\ ~ Known(m.localId) => last'[m.localId] = m.status
      /\ \A id \in LocalId : id # m.localId \/ Known(m.localId) => last'[id] = last[id]
  BY <1>2, <1>3 DEF AddMessage
<1>7. \A i \in DOMAIN rows' : i \in DOMAIN rows \/ i = n
  BY <1>2, <1>4
<1>8. RowsAreDue'
  <2>1. \A i \in DOMAIN rows : rows[i].localId = due[i].localId /\ rows[i].outgoing = due[i].outgoing
    BY Lists
  <2>2. QED
    BY <1>4, <1>5, <1>7, <2>1 DEF RowsAreDue
<1>9. StatusIsTheLastHeard'
  <2>1. ASSUME NEW i \in DOMAIN rows
        PROVE  rows'[i].status = IF IsFirst(rows', i) THEN last'[rows'[i].localId]
                                 ELSE due'[i].status
    <3>1. \A j \in 1 .. i - 1 : j \in DOMAIN rows
      BY <1>2
    <3>2. IsFirst(rows', i) <=> IsFirst(rows, i)
      BY <1>4, <3>1 DEF IsFirst
    <3>3. rows[i].localId \in LocalId /\ Known(rows[i].localId)
      BY Lists DEF Known
    <3>4. last'[rows[i].localId] = last[rows[i].localId]
      BY <1>6, <3>3
    <3>5. rows[i].status = IF IsFirst(rows, i) THEN last[rows[i].localId] ELSE due[i].status
      BY DEF ListInv, StatusIsTheLastHeard
    <3>6. QED
      BY <1>4, <1>5, <3>2, <3>4, <3>5
  <2>2. m.status = IF IsFirst(rows', n) THEN last'[m.localId] ELSE due'[n].status
    <3>1. IsFirst(rows', n) => ~ Known(m.localId)
      <4>1. \A j \in DOMAIN rows : j \in 1 .. n - 1
        BY <1>2
      <4>2. QED
        BY <1>4, <4>1 DEF IsFirst, Known
    <3>2. QED
      BY <1>5, <1>6, <3>1
  <2>3. QED
    BY <1>4, <1>7, <2>1, <2>2 DEF StatusIsTheLastHeard
<1>10. QED
  BY <1>4, <1>5, <1>6, <1>8, <1>9 DEF ListInv

\* A status sets the first row with the id and last; no row changes its id.
LEMMA StatusKeeps ==
    ASSUME ListInv, NEW s, s.localId \in LocalId, s.status \in Status, StatusChanged(s)
    PROVE  ListInv'
<1>1. CASE ~ ForCurrentChat(s)
  <2>1. UNCHANGED shown
    BY <1>1 DEF StatusChanged
  <2>2. QED
    BY <2>1, ListStays
<1>2. CASE ForCurrentChat(s)
  <2> DEFINE id == s.localId
             st == s.status
             new == UpdateStatusByLocalId(rows, id, st)
  <2>1. /\ rows' = new /\ due' = due
        /\ last' = IF Known(id) THEN [last EXCEPT ![id] = st] ELSE last
    BY <1>2 DEF StatusChanged
  <2>2. /\ rows \in Seq(Row) /\ due \in Seq(Row) /\ last \in [LocalId -> Status]
        /\ DOMAIN rows = 1 .. Len(rows) /\ Len(rows) \in Nat
        /\ Len(due) = Len(rows)
        /\ \A i \in DOMAIN rows : rows[i] \in Row /\ rows[i].localId \in LocalId
    BY Lists DEF ListInv
  <2>3. \A i \in DOMAIN rows :
          new[i] = IF rows[i].localId = id /\ IsFirst(rows, i)
                   THEN [rows[i] EXCEPT !.status = st] ELSE rows[i]
    BY DEF UpdateStatusByLocalId
  <2>4. new = [i \in 1 .. Len(rows) |-> new[i]]
    BY <2>2 DEF UpdateStatusByLocalId
  <2> HIDE DEF new
  <2>5. ASSUME NEW i \in DOMAIN rows
        PROVE  /\ new[i] \in Row /\ new[i].localId = rows[i].localId
               /\ new[i].outgoing = rows[i].outgoing
               /\ new[i].status = IF rows[i].localId = id /\ IsFirst(rows, i) THEN st
                                  ELSE rows[i].status
    <3>1. rows[i] \in Row
      BY <2>2
    <3>2. QED
      BY <2>3, <3>1 DEF Row
  <2>6. new \in Seq(Row) /\ DOMAIN new = DOMAIN rows /\ Len(new) = Len(rows)
    BY <2>2, <2>4, <2>5
  <2>7. last' \in [LocalId -> Status]
    BY <2>1, <2>2
  <2>8. RowsAreDue'
    <3>1. \A i \in DOMAIN rows : rows[i].localId = due[i].localId
                                   /\ rows[i].outgoing = due[i].outgoing
      BY Lists
    <3>2. QED
      BY <2>1, <2>2, <2>5, <2>6, <3>1 DEF RowsAreDue
  <2>9. StatusIsTheLastHeard'
    <3> SUFFICES ASSUME NEW i \in DOMAIN rows
                 PROVE  new[i].status = IF IsFirst(new, i) THEN last'[new[i].localId]
                                        ELSE due[i].status
      BY <2>1, <2>6 DEF StatusIsTheLastHeard
    <3>1. IsFirst(new, i) <=> IsFirst(rows, i)
      <4>1. \A j \in 1 .. i - 1 : j \in DOMAIN rows
        BY <2>2
      <4>2. QED
        BY <2>5, <4>1 DEF IsFirst
    <3>2. rows[i].status = IF IsFirst(rows, i) THEN last[rows[i].localId] ELSE due[i].status
      BY DEF ListInv, StatusIsTheLastHeard
    <3>3. rows[i].localId = id => last'[id] = st
      BY <2>1, <2>2 DEF Known
    <3>4. rows[i].localId # id => last'[rows[i].localId] = last[rows[i].localId]
      BY <2>1, <2>2
    <3>5. QED
      BY <2>5, <3>1, <3>2, <3>3, <3>4
  <2>10. QED
    BY <2>1, <2>2, <2>6, <2>7, <2>8, <2>9 DEF ListInv
<1>3. QED
  BY <1>1, <1>2

LEMMA PostKeeps ==
    ASSUME ListInv, Post
    PROVE  ListInv'
<1>1. PICK id \in LocalId :
        AddMessage([localId |-> id, outgoing |-> TRUE, status |-> Sent], TRUE)
  BY DEF Post
<1>2. [localId |-> id, outgoing |-> TRUE, status |-> Sent] \in Row
  BY DEF Row, Status
<1>3. QED
  BY <1>1, <1>2, AddKeeps

-----------------------------------------------------------------------------
(***************************************************************************)
(* The signals on their way.                                               *)
(***************************************************************************)

\* What is emitted is a call of m_net's client, and one at most.
LEMMA EmitKeeps ==
    ASSUME WindowInv, NEW k \in Client, NEW s \in Signal, Emit(k, s)
    PROVE  OwnSignals'
<1> DEFINE call == [signal |-> s, own |-> TRUE]
<1>1. links[k] = 1 /\ k = net
  BY DEF WindowInv, FrameTypes, Emit
<1>2. posted \in Seq(Call) /\ \A i \in DOMAIN posted : posted[i].own
  BY DEF WindowInv, OwnSignals
<1>3. [i \in 1 .. links[k] |-> [signal |-> s, own |-> k = net /\ i = 1]] = <<call>>
  <2>1. \A i \in 1 .. 1 : [signal |-> s, own |-> k = net /\ i = 1] = call
    <3>1. \A i \in 1 .. 1 : (k = net /\ i = 1) = TRUE
      BY <1>1
    <3>2. QED
      BY <3>1, Zenon
  <2> HIDE DEF call
  <2>2. [i \in 1 .. 1 |-> call] = <<call>>
    OBVIOUS
  <2>3. [i \in 1 .. 1 |-> [signal |-> s, own |-> k = net /\ i = 1]] = [i \in 1 .. 1 |-> call]
    BY <2>1, Zenon
  <2>4. QED
    BY <1>1, <2>2, <2>3
<1>4. posted' = posted \o <<call>> \/ posted' = <<call>> \o posted
  BY <1>3 DEF Emit
<1>5. call \in Call /\ call.own
  BY DEF Call
<1> HIDE DEF call
<1>6. <<call>> \in Seq(Call) /\ Len(<<call>>) = 1 /\ <<call>>[1] = call
  BY <1>5
<1>7. posted' \in Seq(Call)
  <2>1. posted \o <<call>> \in Seq(Call) /\ <<call>> \o posted \in Seq(Call)
    BY <1>2, <1>6
  <2>2. QED
    BY <1>4, <2>1
<1>8. ASSUME NEW i \in DOMAIN posted'
      PROVE  posted'[i].own
  <2>1. CASE posted' = posted \o <<call>>
    <3>1. posted'[i] = IF i <= Len(posted) THEN posted[i] ELSE call
      BY <1>2, <1>6, <1>8, <2>1
    <3>2. i <= Len(posted) => i \in DOMAIN posted
      BY <1>2, <1>7
    <3>3. QED
      BY <1>2, <1>5, <3>1, <3>2
  <2>2. CASE posted' = <<call>> \o posted
    <3>1. i \in 1 .. 1 + Len(posted) /\ Len(posted) \in Nat /\ DOMAIN posted = 1 .. Len(posted)
      BY <1>2, <1>6, <2>2
    <3>2. posted'[i] = IF i = 1 THEN call ELSE posted[i - 1]
      BY <1>2, <1>6, <2>2, <3>1
    <3>3. i # 1 => i - 1 \in DOMAIN posted
      BY <3>1
    <3>4. QED
      BY <1>2, <1>5, <3>2, <3>3
  <2>3. QED
    BY <1>4, <2>1, <2>2
<1>9. QED
  BY <1>7, <1>8 DEF OwnSignals

\* The next signal leaves the queue.
LEMMA DeliverTakes ==
    ASSUME OwnSignals, Deliver
    PROVE  /\ Head(posted) \in Call /\ Head(posted).own = TRUE
           /\ OwnSignals'
<1>1. posted \in Seq(Call) /\ posted # <<>> /\ posted' = Tail(posted)
  BY DEF OwnSignals, Deliver
<1>2. /\ Len(posted) \in Nat /\ Len(posted) > 0 /\ DOMAIN posted = 1 .. Len(posted)
      /\ Head(posted) = posted[1] /\ 1 \in DOMAIN posted
  BY <1>1
<1>3. Head(posted) \in Call /\ Head(posted).own
  BY <1>1, <1>2 DEF OwnSignals
<1>4. /\ Tail(posted) \in Seq(Call)
      /\ \A i \in DOMAIN Tail(posted) : i + 1 \in DOMAIN posted /\ Tail(posted)[i] = posted[i + 1]
  BY <1>1, <1>2
<1>5. QED
  BY <1>1, <1>3, <1>4 DEF OwnSignals, Call

-----------------------------------------------------------------------------
(***************************************************************************)
(* The steps.                                                              *)
(***************************************************************************)

LEMMA WindowInit == Init => WindowInv
<1> SUFFICES ASSUME Init PROVE WindowInv
  OBVIOUS
<1>1. FrameTypes
  BY WindowAssumption DEF Init, FrameTypes, Texts, Free
<1>2. HeaderTellsOfCurrentChat
  BY DEF Init, HeaderTellsOfCurrentChat
<1>3. OwnSignals
  <2>1. posted = <<>>
    BY DEF Init
  <2>2. posted \in Seq(Call) /\ DOMAIN posted = {}
    BY <2>1
  <2>3. QED
    BY <2>2 DEF OwnSignals
<1>4. ListInv
  <2>1. rows = <<>> /\ due = <<>> /\ last \in [LocalId -> Status]
    BY DEF Init, Status
  <2>2. DOMAIN rows = {} /\ rows \in Seq(Row) /\ due \in Seq(Row)
    BY <2>1
  <2>3. QED
    BY <2>1, <2>2 DEF ListInv, RowsAreDue, StatusIsTheLastHeard
<1>5. QED
  BY <1>1, <1>2, <1>3, <1>4 DEF WindowInv

\* What the user, the timer and the application do.
LEMMA UserKeeps ==
    ASSUME WindowInv, UserNext
    PROVE  WindowInv'
<1>1. FrameTypes /\ HeaderTellsOfCurrentChat /\ OwnSignals /\ ListInv
  BY DEF WindowInv
<1>2. ASSUME UNCHANGED posted PROVE OwnSignals'
  BY <1>1, <1>2 DEF OwnSignals
<1>3. ASSUME UNCHANGED <<current, header>> PROVE HeaderTellsOfCurrentChat'
  BY <1>1, <1>3 DEF HeaderTellsOfCurrentChat
<1>4. CASE \E k \in Client \cup {NoClient} : SetNetworkClient(k)
  <2>1. PICK k \in Client \cup {NoClient} : SetNetworkClient(k)
    BY <1>4
  <2>2. /\ net' = k /\ UNCHANGED <<current, header, input, dialog, sending, posted, typing, timer>>
        /\ UNCHANGED shown
        /\ links' = [j \in Client |-> (IF j = net THEN 0 ELSE links[j]) + (IF j = k THEN 1 ELSE 0)]
    BY <2>1 DEF SetNetworkClient, typist
  <2>3. links' = [j \in Client |-> IF j = k THEN 1 ELSE 0]
    <3>1. \A j \in Client : (IF j = net THEN 0 ELSE links[j]) = 0
      BY <1>1 DEF FrameTypes
    <3>2. QED
      BY <2>2, <3>1
  <2>4. FrameTypes'
    BY <1>1, <2>2, <2>3 DEF FrameTypes, Free
  <2>5. QED
    BY <1>1, <1>2, <1>3, <2>2, <2>4, ListStays DEF WindowInv
<1>5. CASE SendClicked \/ FileClicked \/ FileDialogCloses \/ SendReturns \/ Edit \/ Timeout
  <2>1. ListInv'
    BY <1>1, <1>5, PostKeeps, ListStays DEF SendClicked, FileClicked, FileDialogCloses,
       SendReturns, Edit, Timeout
  <2>2. UNCHANGED <<current, header, posted, net, links>>
    BY <1>5 DEF SendClicked, FileClicked, FileDialogCloses, SendReturns, Edit, Timeout, connection
  <2>3. FrameTypes'
    <3>1. CASE SendClicked
      BY <1>1, <2>2, <3>1 DEF FrameTypes, SendClicked, Free, typist
    <3>2. CASE FileClicked
      BY <1>1, <2>2, <3>2 DEF FrameTypes, FileClicked, Free, typist
    <3>3. CASE FileDialogCloses
      BY <1>1, <2>2, <3>3 DEF FrameTypes, FileDialogCloses, Free, typist
    <3>4. CASE SendReturns
      BY <1>1, <2>2, <3>4 DEF FrameTypes, SendReturns, Free, typist
    <3>5. CASE Edit
      BY <1>1, <2>2, <3>5 DEF FrameTypes, Edit, TypingChanged, Free, typist
    <3>6. CASE Timeout
      BY <1>1, <2>2, <3>6 DEF FrameTypes, Timeout, TypingChanged, Free, typist
    <3>7. QED
      BY <1>5, <3>1, <3>2, <3>3, <3>4, <3>5, <3>6
  <2>4. QED
    BY <1>2, <1>3, <2>1, <2>2, <2>3 DEF WindowInv
<1>6. CASE \E c \in Chat : ChatSelected(c)
  <2>1. PICK c \in Chat : ChatSelected(c)
    BY <1>6
  <2>2. /\ current' = c /\ header' = [of |-> c, text |-> StatusText(PresenceInModel(c))]
        /\ UNCHANGED <<input, dialog, sending, net, links, posted, typing, timer>>
        /\ UNCHANGED shown
    BY <2>1 DEF ChatSelected, connection, typist
  <2>3. c # NoChat /\ header' \in [of : Chat \cup {NoChat}, text : Texts]
    BY <2>2, DemoChats
  <2>4. FrameTypes'
    BY <1>1, <2>2, <2>3 DEF FrameTypes, Free
  <2>5. HeaderTellsOfCurrentChat'
    BY <2>2 DEF HeaderTellsOfCurrentChat
  <2>6. QED
    BY <1>1, <1>2, <2>2, <2>4, <2>5, ListStays DEF WindowInv
<1>7. QED
  BY <1>4, <1>5, <1>6 DEF UserNext

\* What the clients signal.
LEMMA SignalKeeps ==
    ASSUME WindowInv, SignalNext
    PROVE  WindowInv'
<1>1. FrameTypes /\ HeaderTellsOfCurrentChat /\ OwnSignals /\ ListInv
  BY DEF WindowInv
<1>2. CASE \E k \in Client : \E s \in Signal : Emit(k, s)
  <2>1. PICK k \in Client, s \in Signal : Emit(k, s)
    BY <1>2
  <2>2. /\ UNCHANGED <<current, header, input, dialog, sending, net, links, typing, timer>>
        /\ UNCHANGED shown
    BY <2>1 DEF Emit, connection, typist
  <2>3. FrameTypes' /\ HeaderTellsOfCurrentChat'
    BY <1>1, <2>2 DEF FrameTypes, HeaderTellsOfCurrentChat, Free
  <2>4. QED
    BY <1>1, <2>1, <2>2, <2>3, EmitKeeps, ListStays DEF WindowInv
<1>3. CASE Deliver
  <2> DEFINE call == Head(posted)
             s == call.signal
  <2>1. call \in Call /\ call.own = TRUE /\ OwnSignals'
    BY <1>1, <1>3, DeliverTakes
  <2>2. s \in Signal
    BY <2>1 DEF Call
  <2>3. UNCHANGED <<current, input, dialog, sending, net, links, typing, timer>>
    BY <1>3 DEF Deliver, connection, typist
  <2>4. ASSUME UNCHANGED header PROVE FrameTypes' /\ HeaderTellsOfCurrentChat'
    BY <1>1, <2>3, <2>4 DEF FrameTypes, HeaderTellsOfCurrentChat, Free
  <2>5. CASE s.kind = "message" /\ MessageReceived(call)
    <3>1. s.message \in Row
      BY <2>2, <2>5, WindowAssumption DEF Signal
    <3>2. UNCHANGED shown \/ AddMessage(s.message, TRUE)
      BY <2>1, <2>5 DEF MessageReceived
    <3>3. ListInv'
      BY <1>1, <3>1, <3>2, AddKeeps, ListStays
    <3>4. UNCHANGED header
      BY <2>5 DEF MessageReceived
    <3>5. QED
      BY <2>1, <2>4, <3>3, <3>4 DEF WindowInv
  <2>6. CASE s.kind = "status" /\ StatusChanged(s)
    <3>1. s.localId \in LocalId /\ s.status \in Status
      BY <2>2, <2>6 DEF Signal
    <3>2. ListInv' /\ UNCHANGED header
      BY <1>1, <2>6, <3>1, StatusKeeps DEF StatusChanged
    <3>3. QED
      BY <2>1, <2>4, <3>2 DEF WindowInv
  <2>7. CASE s.kind = "presence" /\ PresenceChanged(s)
    <3>1. s.chat \in Chat /\ s.presence \in Presence
      BY <2>2, <2>7 DEF Signal
    <3>2. CASE ForCurrentChat(s)
      <4>1. header' = [of |-> s.chat, text |-> StatusText(s.presence)] /\ s.chat = current
        BY <2>7, <3>2 DEF PresenceChanged, ForCurrentChat
      <4>2. header' \in [of : Chat \cup {NoChat}, text : Texts]
        BY <3>1, <4>1, SaidTexts
      <4>3. FrameTypes' /\ HeaderTellsOfCurrentChat'
        BY <1>1, <2>3, <4>1, <4>2 DEF FrameTypes, HeaderTellsOfCurrentChat, Free
      <4>4. QED
        BY <1>1, <2>1, <2>7, <4>3, ListStays DEF WindowInv, PresenceChanged
    <3>3. CASE ~ ForCurrentChat(s)
      <4>1. UNCHANGED header /\ UNCHANGED shown
        BY <2>7, <3>3 DEF PresenceChanged
      <4>2. QED
        BY <1>1, <2>1, <2>4, <4>1, ListStays DEF WindowInv
    <3>4. QED
      BY <3>2, <3>3
  <2>8. QED
    BY <1>3, <2>5, <2>6, <2>7 DEF Deliver
<1>4. QED
  BY <1>2, <1>3 DEF SignalNext

LEMMA WindowInvStep == WindowInv /\ [Next]_vars => WindowInv'
<1> SUFFICES ASSUME WindowInv, [Next]_vars PROVE WindowInv'
  OBVIOUS
<1>1. CASE Next
  BY <1>1, UserKeeps, SignalKeeps DEF Next
<1>2. CASE UNCHANGED vars
  <2>1. /\ UNCHANGED <<current, header, input, dialog, sending, posted, net, links, typing, timer>>
        /\ UNCHANGED shown
    BY <1>2 DEF vars, connection, typist
  <2>2. FrameTypes' /\ HeaderTellsOfCurrentChat'
    BY <2>1 DEF WindowInv, FrameTypes, HeaderTellsOfCurrentChat, Free
  <2>3. OwnSignals' /\ ListInv'
    BY <2>1, ListStays DEF WindowInv, OwnSignals
  <2>4. QED
    BY <2>2, <2>3 DEF WindowInv
<1>3. QED
  BY <1>1, <1>2

-----------------------------------------------------------------------------
(***************************************************************************)
(* The theorems.                                                           *)
(***************************************************************************)

\* The window keeps its types, and only the client in m_net is connected,
\* however often setNetworkClient is called.
THEOREM WindowTypeCorrect == Spec => []TypeOK
BY WindowInit, WindowInvStep, InvGivesTypes, PTL DEF Spec

\* Over a chat stands what was signalled or is stored of that chat, never of
\* another one (onChatSelected, onPresenceChanged), however late signals come.
THEOREM HeaderStaysWithChat == Spec => []HeaderTellsOfCurrentChat
<1>1. WindowInv => HeaderTellsOfCurrentChat
  BY DEF WindowInv
<1>2. QED
  BY <1>1, WindowInit, WindowInvStep, PTL DEF Spec

\* The rows are the messages sent, and those that the client in m_net signalled
\* for the chat that was open when the signal came, each once and in order,
\* whichever clients come and go meanwhile (setNetworkClient, addMessage).
THEOREM RowsStayDue == Spec => []RowsAreDue
<1>1. WindowInv => RowsAreDue
  BY DEF WindowInv, ListInv
<1>2. QED
  BY <1>1, WindowInit, WindowInvStep, PTL DEF Spec

\* Whatever ids clients give twice, the first row with an id shows the last
\* status that came for it, every other row what it came with
\* (updateStatusByLocalId).
THEOREM StatusStaysHeard == Spec => []StatusIsTheLastHeard
<1>1. WindowInv => StatusIsTheLastHeard
  BY DEF WindowInv, ListInv
<1>2. QED
  BY <1>1, WindowInit, WindowInvStep, PTL DEF Spec
=============================================================================

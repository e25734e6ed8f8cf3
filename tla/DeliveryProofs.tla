---------------------------- MODULE DeliveryProofs ----------------------------
(***************************************************************************)
(* Proofs about the whole server, for any number of handlers, streams,     *)
(* calls and faults.  Delivery implements SerialSpec and the specification *)
(* of Events, so that the theorems about both hold of it.  What is added   *)
(* here is what binds the two: an event is published with the answer to    *)
(* its call, so that events come in the order of the answers.              *)
(***************************************************************************)
EXTENDS Delivery, HistoryProofs

StreamProofs == INSTANCE EventsProofs WITH Call <- Stream, MaxPublish <- MaxCalls,
                                           published <- Published

-----------------------------------------------------------------------------
(***************************************************************************)
(* The parts.                                                              *)
(***************************************************************************)

LEMMA ServerStepped == [DeliveryNext]_deliveryVars => [SerialNext]_vars
<1>1. ASSUME NEW h \in Handler, HandlerStep(h)
      PROVE  SerialNext
  BY <1>1 DEF HandlerStep, SerialNext
<1>2. StreamStep => UNCHANGED vars
  BY DEF StreamStep
<1>3. DatabaseFails \/ RestartProcess => SerialNext
  BY DEF DatabaseFails, RestartProcess, SerialNext
<1> QED BY <1>1, <1>2, <1>3 DEF DeliveryNext, deliveryVars

\* What was shown of the unary handlers alone.
ServerFacts == ServerInv /\ DataInv /\ HistoryInv

LEMMA ServerHolds == DeliverySpec => []ServerFacts
<1>1. DeliverySpec => SerialSpec
  <2>1. DeliveryInit => Init
    BY DEF DeliveryInit
  <2> QED BY <2>1, ServerStepped, PTL DEF DeliverySpec, SerialSpec
<1> QED BY <1>1, DataHolds, HistoryHolds, PTL DEF ServerFacts

\* Only SendMessage publishes, with its last statement.
LEMMA Publishing ==
    ASSUME ServerInv, NEW h \in Handler, Begin(h) \/ Step(h), events' # events
    PROVE  /\ Serving(h) /\ Asked(h) \in Request /\ Asked(h).rpc = "SendMessage"
           /\ events' = Append(events, [channel |-> Asked(h).sender, message_id |-> call[h].id])
<1>1. Publish(h)
  BY DEF Begin, RegisterTransaction, Step, Accept, Refresh, InsertUser, InsertPreKey, SelectHash,
     UploadPreKey, GetPreKey, InsertChat, InsertMember, InsertMessage, GetHistory, Commit,
     Broken, Exec, Leave, Rollback
<1>2. Serving(h) /\ Program(Asked(h))[call[h].pc] = "publish"
  BY <1>1 DEF Publish, At
<1>3. Asked(h) \in Request /\ Placed(Asked(h), call[h].pc)
  BY <1>2, ServingPlaced DEF ServerInv
<1> QED BY <1>1, <1>2, <1>3 DEF Publish, Placed

LEMMA PublishedLength ==
    ASSUME ServerInv
    PROVE  /\ Len(events) \in Nat /\ Len(Published) = Len(events)
           /\ \A n \in 1 .. Len(events) : /\ Published[n].channel = events[n].channel
                                          /\ Published[n].n = n
<1>1. Len(events) \in Nat
  BY DEF ServerInv, Types, IsSeq
<1> QED BY <1>1 DEF Published

LEMMA StreamsStepped ==
    ASSUME ServerInv, [DeliveryNext]_deliveryVars
    PROVE  [StreamProofs!Next]_StreamProofs!vars
<1>1. ASSUME NEW h \in Handler, HandlerStep(h)
      PROVE  [StreamProofs!Next]_StreamProofs!vars
  <2>1. CASE events' = events
    <3>1. Published' = Published /\ UNCHANGED streamVars
      BY <1>1, <2>1 DEF HandlerStep, Published
    <3> QED BY <3>1 DEF streamVars, StreamProofs!vars
  <2>2. CASE events' # events
    <3>1. up /\ Streams!Publish(Asked(h).sender)
      BY <1>1, <2>2 DEF HandlerStep
    <3>2. Asked(h).sender \in User
      BY <1>1, <2>2, Publishing, SenderAssumption DEF HandlerStep
    <3>3. PICK u \in User : u = Asked(h).sender
      BY <3>2
    <3>4. StreamProofs!Publish(u)
      BY <3>1, <3>3 DEF Streams!Publish, StreamProofs!Publish
    <3> QED BY <3>1, <3>4 DEF StreamProofs!Next
  <2> QED BY <2>1, <2>2
<1>2. ASSUME StreamStep
      PROVE  StreamProofs!Next
  <2>1. Streams!StreamStep => StreamProofs!StreamStep
    BY DEF Streams!StreamStep, StreamProofs!StreamStep,
       Streams!SubscribeEvents, StreamProofs!SubscribeEvents, Streams!Connect, StreamProofs!Connect,
       Streams!Disconnect, StreamProofs!Disconnect, Streams!Forward, StreamProofs!Forward,
       Streams!Write, StreamProofs!Write, Streams!WriteStray, StreamProofs!WriteStray,
       Streams!Cancel, StreamProofs!Cancel, Streams!Return, StreamProofs!Return
  <2> QED BY <1>2, <2>1 DEF StreamStep, StreamProofs!Next
<1>3. ASSUME DatabaseFails
      PROVE  UNCHANGED StreamProofs!vars
  <2>1. Published' = Published /\ UNCHANGED streamVars
    BY <1>3 DEF DatabaseFails, LoseConnection, Published
  <2> QED BY <2>1 DEF streamVars, StreamProofs!vars
<1>4. ASSUME RestartProcess
      PROVE  StreamProofs!Next
  <2>1. Streams!Restart => StreamProofs!Restart
    BY DEF Streams!Restart, StreamProofs!Restart
  <2> QED BY <1>4, <2>1 DEF RestartProcess, StreamProofs!Next
<1>5. ASSUME UNCHANGED deliveryVars
      PROVE  UNCHANGED StreamProofs!vars
  <2>1. Published' = Published /\ UNCHANGED streamVars
    BY <1>5 DEF deliveryVars, vars, Published
  <2> QED BY <2>1 DEF streamVars, StreamProofs!vars
<1> QED BY <1>1, <1>2, <1>3, <1>4, <1>5 DEF DeliveryNext

\* What was shown of the streams alone.
StreamFacts == /\ StreamProofs!TypeOK /\ StreamProofs!StreamsHaveNoGap
               /\ StreamProofs!Received

LEMMA StreamsHold == DeliverySpec => []StreamFacts
<1>1. DeliverySpec => StreamProofs!Spec
  <2>1. DeliveryInit => StreamProofs!Init
    <3>1. ASSUME DeliveryInit
          PROVE  Published = <<>>
      BY <3>1 DEF DeliveryInit, Init, Published
    <3> QED BY <3>1 DEF DeliveryInit, Streams!Init, StreamProofs!Init
  <2>2. ServerFacts /\ [DeliveryNext]_deliveryVars => [StreamProofs!Next]_StreamProofs!vars
    BY StreamsStepped DEF ServerFacts
  <2> QED BY <2>1, <2>2, ServerHolds, PTL DEF DeliverySpec, StreamProofs!Spec
<1>2. StreamProofs!Spec => []StreamProofs!TypeOK
  BY StreamProofs!EventsTypeCorrect, UserAssumption, ServerAssumption
<1>3. StreamProofs!Spec => []StreamProofs!StreamsHaveNoGap
  BY StreamProofs!StreamsStayWhole, UserAssumption, ServerAssumption
<1>4. StreamProofs!Spec => []StreamProofs!Received
  BY StreamProofs!ReceivedHolds, UserAssumption, ServerAssumption
<1> QED BY <1>1, <1>2, <1>3, <1>4, PTL DEF StreamFacts

-----------------------------------------------------------------------------
(***************************************************************************)
(* Events and answers.                                                     *)
(***************************************************************************)

\* The call of an event has its answer.
Announced == \A k \in 1 .. Len(events) :
    \E a \in 1 .. Len(Answers) : Answers[a].id = events[k].message_id

\* The events come in the order of these answers.
InOrder == \A i, j \in 1 .. Len(events) : i < j =>
    \A a, b \in 1 .. Len(Answers) :
        Answers[a].id = events[i].message_id /\ Answers[b].id = events[j].message_id => a < b

\* An event is in the channel of the user who sent its message.
FromSender == \A k \in 1 .. Len(events) :
    /\ events[k].message_id \in Id
    /\ asked[events[k].message_id].sender = events[k].channel

AnnounceInv == Announced /\ InOrder /\ FromSender

\* A step that publishes answers the call it publishes for.
Announces(id) ==
    /\ id \in Id
    /\ Len(events') = Len(events) + 1
    /\ \A k \in 1 .. Len(events) : events'[k] = events[k]
    /\ events'[Len(events')] = [channel |-> asked[id].sender, message_id |-> id]
    /\ Len(Answers') = Len(Answers) + 1
    /\ Answers'[Len(Answers')].id = id

LEMMA EventsAfter ==
    ASSUME ServerInv, [Atomic!Next]_Atomic!vars
    PROVE  events' = events \/ \E id : Announces(id)
<1>1. events' = events \/ \E id \in Atomic!Call : Atomic!Reply(id)
  BY DEF Atomic!Next, Atomic!vars, Atomic!Ask, Atomic!Apply
<1>2. ASSUME NEW id \in Atomic!Call, Atomic!Reply(id), events' # events
      PROVE  Announces(id)
  <2>1. PICK answer : Atomic!Give(id, answer)
    BY <1>2 DEF Atomic!Reply
  <2>2. events' = Append(events, [channel |-> asked[id].sender, message_id |-> id])
    BY <1>2 DEF Atomic!Reply
  <2>3. /\ Len(events) \in Nat /\ Len(events') = Len(events) + 1
        /\ \A k \in 1 .. Len(events) : events'[k] = events[k]
        /\ events'[Len(events) + 1] = [channel |-> asked[id].sender, message_id |-> id]
    BY <2>2, Appended DEF ServerInv, Types
  <2>4. PICK a : a = [id |-> id, status |-> answer.status, rows |-> answer.rows]
    OBVIOUS
  <2>5. Answers' = Append(Answers, a) /\ a.id = id
    BY <2>1, <2>4 DEF Atomic!Give
  <2>6. Len(Answers') = Len(Answers) + 1 /\ Answers'[Len(Answers) + 1] = a
    BY <2>5, AnswersSeq, Appended
  <2> QED BY <2>3, <2>5, <2>6 DEF Announces, Atomic!Call, Id
<1> QED BY <1>1, <1>2

\* The call of a new answer had none.
LEMMA AnswerIsFirst ==
    ASSUME ServerInv, [Atomic!Next]_Atomic!vars, Len(Answers') = Len(Answers) + 1,
           NEW k \in 1 .. Len(Answers)
    PROVE  Answers[k].id # Answers'[Len(Answers')].id
<1>1. PICK id, answer : Atomic!Pending(id) /\ Atomic!Give(id, answer)
  <2>1. Len(Answers) \in Nat
    BY AnswersSeq
  <2>2. Answers' # Answers
    BY <2>1
  <2> QED BY <2>2 DEF Atomic!Next, Atomic!vars, Atomic!Ask, Atomic!Apply, Atomic!Reply
<1>2. PICK a : a = [id |-> id, status |-> answer.status, rows |-> answer.rows]
  OBVIOUS
<1>3. Answers' = Append(Answers, a) /\ a.id = id
  BY <1>1, <1>2 DEF Atomic!Give
<1>4. Len(Answers') = Len(Answers) + 1 /\ Answers'[Len(Answers) + 1] = a
  BY <1>3, AnswersSeq, Appended
<1> QED BY <1>1, <1>3, <1>4 DEF Atomic!Pending

\* An answer to a call that had one before is an old answer.
LEMMA AnswerIsOld ==
    ASSUME ServerInv, [Atomic!Next]_Atomic!vars, NEW a \in 1 .. Len(Answers),
           NEW b \in 1 .. Len(Answers'), Answers'[b].id = Answers[a].id
    PROVE  b \in 1 .. Len(Answers) /\ Answers'[b] = Answers[b]
<1>1. Len(Answers) \in Nat
  BY AnswersSeq
<1>2. CASE Answers' = Answers
  BY <1>2
<1>3. CASE /\ Len(Answers') = Len(Answers) + 1
           /\ \A k \in 1 .. Len(Answers) : Answers'[k] = Answers[k]
  <2>1. b # Len(Answers')
    BY <1>3, AnswerIsFirst
  <2> QED BY <1>1, <1>3, <2>1
<1> QED BY <1>2, <1>3, AnswersTail

LEMMA AnnouncedKept ==
    ASSUME ServerInv, Announced, InOrder, [Atomic!Next]_Atomic!vars
    PROVE  Announced' /\ InOrder'
<1>0. PICK m : m = Len(events) /\ m \in Nat
  BY DEF ServerInv, Types, IsSeq
<1>1. PICK n : n = Len(Answers) /\ n \in Nat /\ m = Len(events) /\ m \in Nat
  BY <1>0, AnswersSeq
<1>2. ASSUME NEW k \in 1 .. m, events'[k] = events[k]
      PROVE  \E a \in 1 .. Len(Answers') : a \in 1 .. n /\ Answers'[a].id = events'[k].message_id
  <2>1. PICK a \in 1 .. n : Answers[a].id = events[k].message_id
    BY <1>1 DEF Announced
  <2>2. a \in 1 .. Len(Answers') /\ Answers'[a] = Answers[a]
    BY <1>1, AnswersTail
  <2> QED BY <1>2, <2>1, <2>2
<1>3. ASSUME NEW k \in 1 .. m, events'[k] = events[k],
             NEW b \in 1 .. Len(Answers'), Answers'[b].id = events'[k].message_id
      PROVE  b \in 1 .. n /\ Answers[b].id = events[k].message_id
  <2>1. PICK a \in 1 .. n : Answers[a].id = events[k].message_id
    BY <1>1 DEF Announced
  <2>2. b \in 1 .. n /\ Answers'[b] = Answers[b]
    BY <1>1, <1>3, <2>1, AnswerIsOld
  <2> QED BY <1>3, <2>2
<1>4. ASSUME NEW i \in 1 .. m, NEW j \in 1 .. m, i < j,
             events'[i] = events[i], events'[j] = events[j],
             NEW a \in 1 .. Len(Answers'), NEW b \in 1 .. Len(Answers'),
             Answers'[a].id = events'[i].message_id, Answers'[b].id = events'[j].message_id
      PROVE  a < b
  <2>1. /\ a \in 1 .. n /\ Answers[a].id = events[i].message_id
        /\ b \in 1 .. n /\ Answers[b].id = events[j].message_id
    BY <1>3, <1>4
  <2> QED BY <1>1, <1>4, <2>1 DEF InOrder
<1>5. CASE events' = events
  <2>1. Announced'
    BY <1>1, <1>2, <1>5 DEF Announced
  <2>2. InOrder'
    BY <1>1, <1>4, <1>5 DEF InOrder
  <2> QED BY <2>1, <2>2
<1>6. ASSUME NEW id, Announces(id)
      PROVE  Announced' /\ InOrder'
  <2>1. /\ Len(events') = m + 1 /\ \A k \in 1 .. m : events'[k] = events[k]
        /\ events'[m + 1].message_id = id
        /\ Len(Answers') = n + 1 /\ Answers'[n + 1].id = id
    BY <1>1, <1>6 DEF Announces
  <2>2. \A k \in 1 .. n : Answers[k].id # id
    BY <1>1, <2>1, AnswerIsFirst
  <2>3. \A k \in 1 .. n : Answers'[k] = Answers[k]
    BY <1>1, <2>1, AnswersTail
  <2>4. Announced'
    <3>1. ASSUME NEW k \in 1 .. m + 1
          PROVE  \E a \in 1 .. n + 1 : Answers'[a].id = events'[k].message_id
      <4>1. CASE k \in 1 .. m
        BY <1>2, <2>1, <4>1
      <4>2. CASE k = m + 1
        BY <1>1, <2>1, <4>2
      <4> QED BY <1>1, <4>1, <4>2
    <3> QED BY <2>1, <3>1 DEF Announced
  <2>5. InOrder'
    <3>1. ASSUME NEW i \in 1 .. m + 1, NEW j \in 1 .. m + 1, i < j,
                 NEW a \in 1 .. n + 1, NEW b \in 1 .. n + 1,
                 Answers'[a].id = events'[i].message_id, Answers'[b].id = events'[j].message_id
          PROVE  a < b
      <4>1. i \in 1 .. m
        BY <1>1, <3>1
      <4>2. CASE j \in 1 .. m
        BY <1>4, <2>1, <3>1, <4>1, <4>2
      <4>3. CASE j = m + 1
        <5>1. a \in 1 .. n
          BY <1>3, <2>1, <3>1, <4>1
        <5>2. b \notin 1 .. n
          BY <2>1, <2>2, <2>3, <3>1, <4>3
        <5> QED BY <1>1, <5>1, <5>2
      <4> QED BY <1>1, <4>2, <4>3
    <3> QED BY <2>1, <3>1 DEF InOrder
  <2> QED BY <2>4, <2>5
<1> QED BY <1>5, <1>6, EventsAfter

LEMMA FromSenderKept ==
    ASSUME ServerInv, FromSender, [Atomic!Next]_Atomic!vars
    PROVE  FromSender'
<1> DEFINE from(event) == /\ event.message_id \in Id'
                          /\ asked'[event.message_id].sender = event.channel
<1>1. PICK m : m = Len(events) /\ m \in Nat
  BY DEF ServerInv, Types, IsSeq
<1>2. \A k \in 1 .. m : from(events[k])
  BY <1>1, AskedGrows DEF FromSender
<1>3. ASSUME NEW id, Announces(id), NEW k \in 1 .. Len(events')
      PROVE  from(events'[k])
  <2>1. CASE k \in 1 .. m
    <3>1. events'[k] = events[k]
      BY <1>1, <1>3, <2>1 DEF Announces
    <3> QED BY <1>2, <2>1, <3>1
  <2>2. CASE k = m + 1
    <3>1. events'[k] = [channel |-> asked[id].sender, message_id |-> id] /\ id \in Id
      BY <1>1, <1>3, <2>2 DEF Announces
    <3> QED BY <3>1, AskedGrows
  <2> QED BY <1>1, <1>3, <2>1, <2>2 DEF Announces
<1>4. CASE events' = events
  BY <1>1, <1>2, <1>4 DEF FromSender
<1>5. ASSUME NEW id, Announces(id)
      PROVE  FromSender'
  BY <1>3, <1>5 DEF FromSender
<1> QED BY <1>4, <1>5, EventsAfter

LEMMA AnnounceHolds == DeliverySpec => []AnnounceInv
<1>1. Init => AnnounceInv
  BY DEF Init, EmptyTables, AnnounceInv, Announced, InOrder, FromSender
<1>2. DeliveryInit => Init
  BY DEF DeliveryInit
<1>3. ServerFacts /\ AnnounceInv /\ [DeliveryNext]_deliveryVars => AnnounceInv'
  BY ServerStepped, NextRefined, AnnouncedKept, FromSenderKept
  DEF AnnounceInv, ServerFacts
<1> QED BY <1>1, <1>2, <1>3, ServerHolds, PTL DEF DeliverySpec

-----------------------------------------------------------------------------
(***************************************************************************)
(* What clients are told.                                                  *)
(***************************************************************************)

DeliveryInv == ServerFacts /\ StreamFacts /\ AnnounceInv

LEMMA DeliveryHolds == DeliverySpec => []DeliveryInv
  BY ServerHolds, StreamsHold, AnnounceHolds, PTL DEF DeliveryInv

\* An event on a stream is one that was published, and in the channel of its
\* user if no write went through a dead reference.
LEMMA OnStream ==
    ASSUME DeliveryInv, NEW s \in Stream, NEW i \in DOMAIN stream[s],
           NEW event, event = stream[s][i]
    PROVE  /\ event.n \in 1 .. Len(events)
           /\ ~ stray => events[event.n].channel = user[s]
<1>1. /\ Len(Published) = Len(events)
      /\ \A n \in 1 .. Len(events) : Published[n].channel = events[n].channel
  BY PublishedLength DEF DeliveryInv, ServerFacts
<1>2. event.n \in 1 .. Len(events)
  BY <1>1 DEF DeliveryInv, StreamFacts, StreamProofs!Received
<1>3. ~ stray => StreamProofs!IsFor(s, event)
  BY DEF DeliveryInv, StreamFacts, StreamProofs!StreamsHaveNoGap
<1>4. ~ stray => event.channel = user[s] /\ Published[event.n] = event
  BY <1>3 DEF StreamProofs!IsFor
<1> QED BY <1>1, <1>2, <1>4

\* Of two events on a stream, the second one is the later one.
LEMMA OnStreamLater ==
    ASSUME DeliveryInv, ~ stray, NEW s \in Stream,
           NEW i \in DOMAIN stream[s], NEW j \in DOMAIN stream[s], i < j,
           NEW a \in 1 .. Len(Answers), Answers[a].id = Told(stream[s][i]),
           NEW b \in 1 .. Len(Answers), Answers[b].id = Told(stream[s][j])
    PROVE  a < b
<1>1. stream[s][i].n < stream[s][j].n
  BY DEF DeliveryInv, StreamFacts, StreamProofs!StreamsHaveNoGap, StreamProofs!Ascending
<1>2. stream[s][i].n \in 1 .. Len(events) /\ stream[s][j].n \in 1 .. Len(events)
  BY OnStream
<1> QED BY <1>1, <1>2 DEF DeliveryInv, AnnounceInv, InOrder, Told

\* Clients are told only of messages that are committed, and while no write went
\* through a dead reference only of those of their own user, whatever handlers,
\* restarts, lost connections and clients that come and go do.
THEOREM ToldOfCommitted == DeliverySpec => []StreamsTellOfCommitted
<1>1. DeliveryInv => StreamsTellOfCommitted
  <2> SUFFICES ASSUME DeliveryInv, NEW s \in Stream, NEW i \in DOMAIN stream[s],
                      NEW event, event = stream[s][i]
               PROVE  /\ event.n \in 1 .. Len(events)
                      /\ MessageStored(Told(event))
                      /\ ~ stray => asked[Told(event)].sender = user[s]
    BY DEF StreamsTellOfCommitted
  <2>1. event.n \in 1 .. Len(events) /\ (~ stray => events[event.n].channel = user[s])
    BY OnStream
  <2>2. MessageStored(Told(event))
    BY <2>1 DEF DeliveryInv, ServerFacts, DataInv, EventImpliesStored, Told
  <2>3. asked[Told(event)].sender = events[event.n].channel
    BY <2>1 DEF DeliveryInv, AnnounceInv, FromSender, Told
  <2> QED BY <2>1, <2>2, <2>3
<1> QED BY <1>1, DeliveryHolds, PTL

\* No client is told of a message twice.
THEOREM ToldOnlyOnce == DeliverySpec => []ToldOnce
<1>1. DeliveryInv => ToldOnce
  <2> SUFFICES ASSUME DeliveryInv, ~ stray, NEW s \in Stream,
                      NEW i \in DOMAIN stream[s], NEW j \in DOMAIN stream[s],
                      Told(stream[s][i]) = Told(stream[s][j])
               PROVE  i = j
    BY DEF ToldOnce
  <2>1. stream[s][i].n \in 1 .. Len(events)
    BY OnStream
  <2>2. PICK a \in 1 .. Len(Answers) : Answers[a].id = Told(stream[s][i])
    BY <2>1 DEF DeliveryInv, AnnounceInv, Announced, Told
  <2>3. ~ (i < j) /\ ~ (j < i)
    BY <2>2, OnStreamLater
  <2>4. i \in Nat /\ j \in Nat
    <3>1. stream[s] \in Seq(StreamProofs!Event)
      BY DEF DeliveryInv, StreamFacts, StreamProofs!TypeOK
    <3> QED BY <3>1
  <2> QED BY <2>3, <2>4
<1> QED BY <1>1, DeliveryHolds, PTL

\* No client is told of a message before one whose SendMessage had been answered
\* when that of the first was called.
THEOREM ToldInOrderOfCalls == DeliverySpec => []ToldInOrder
<1>1. DeliveryInv => ToldInOrder
  <2> SUFFICES ASSUME DeliveryInv, ~ stray, NEW s \in Stream,
                      NEW i \in DOMAIN stream[s], NEW j \in DOMAIN stream[s], i < j,
                      NEW a \in 1 .. Len(replies), replies[a].id = Told(stream[s][i]),
                      NEW b \in 1 .. Len(replies), replies[b].id = Told(stream[s][j])
               PROVE  b > replies[a].after
    BY DEF ToldInOrder
  <2>1. /\ a \in 1 .. Len(Answers) /\ Answers[a].id = replies[a].id
        /\ b \in 1 .. Len(Answers) /\ Answers[b].id = replies[b].id
    BY AnswersSeq DEF DeliveryInv, ServerFacts, Answers
  <2>2. a < b
    BY <2>1, OnStreamLater
  <2>3. replies[a].after \in 0 .. a - 1
    BY DEF DeliveryInv, ServerFacts, HistoryInv, AnsweredLater
  <2> QED BY <2>2, <2>3
<1> QED BY <1>1, DeliveryHolds, PTL

-----------------------------------------------------------------------------
(***************************************************************************)
(* What clients are told, and what GetHistory shows.                       *)
(***************************************************************************)

\* Message i is on the page, or newer ones have filled it.
HasOrFilled(rows, messages, n, limit, i) ==
    \/ \E k \in 1 .. Len(rows) : rows[k] = ReadMessage(messages[i])
    \/ /\ Len(rows) = limit
       /\ \A k \in 1 .. Len(rows) :
             \E j \in 1 .. n : i < j /\ rows[k] = ReadMessage(messages[j])

\* A page without an offset has every message of its chat but for those that
\* newer ones leave no room for.
LEMMA NewestShown ==
    ASSUME NEW messages, NEW n \in Nat, NEW req, req.limit \in Nat, req.offset = 0,
           NEW rows, rows = Page(Oldest(messages, n), req),
           NEW i \in PlacesIn(messages, n, req.chat_id)
    PROVE  HasOrFilled(rows, messages, n, req.limit, i)
<1> DEFINE places == PlacesIn(messages, n, req.chat_id)
           rank == Rank(places, i)
           total == Cardinality(places)
<1>1. places \in SUBSET (1 .. n) /\ i \in Nat
  BY DEF PlacesIn
<1>2. total \in Nat /\ rank \in 1 .. total
  <2>1. total \in Nat /\ rank \in 0 .. total /\ (i \in places => rank > 0)
    BY <1>1, RankType
  <2>2. i \in places
    OBVIOUS
  <2> HIDE DEF places, rank, total
  <2> QED BY <2>1, <2>2
<1>3. /\ Len(rows) \in Nat
      /\ Len(rows) = IF req.limit <= total THEN req.limit ELSE total
  <2>1. Sized(rows, total, req)
    BY PageSize
  <2> QED BY <1>2, <2>1 DEF Sized
<1>4. ASSUME NEW k \in 1 .. Len(rows)
      PROVE  \E j \in places : rows[k] = ReadMessage(messages[j]) /\ Rank(places, j) = k
  <2>1. RowFound(rows, k, messages, n, req)
    BY PageRow
  <2> QED BY <1>3, <2>1 DEF RowFound
<1>5. \A j \in places : j < i => rank < Rank(places, j)
  BY <1>1, RankFalls
<1>6. \A j \in places : i < j => Rank(places, j) < rank
  BY <1>1, RankFalls
<1>7. i \in places
  OBVIOUS
<1> HIDE DEF places, rank, total
<1>8. CASE rank <= Len(rows)
  <2>1. PICK j \in places : rows[rank] = ReadMessage(messages[j]) /\ Rank(places, j) = rank
    BY <1>2, <1>3, <1>4, <1>8
  <2>2. j = i
    BY <1>1, <1>2, <1>5, <1>6, <2>1
  <2> QED BY <1>2, <1>3, <1>8, <2>1, <2>2 DEF HasOrFilled
<1>9. CASE rank > Len(rows)
  <2>1. Len(rows) = req.limit
    BY <1>2, <1>3, <1>9
  <2>2. ASSUME NEW k \in 1 .. Len(rows)
        PROVE  \E j \in 1 .. n : i < j /\ rows[k] = ReadMessage(messages[j])
    <3>1. PICK j \in places : rows[k] = ReadMessage(messages[j]) /\ Rank(places, j) = k
      BY <1>4
    <3>2. j # i /\ ~ (j < i)
      BY <1>2, <1>3, <1>5, <1>9, <3>1 DEF rank
    <3> QED BY <1>1, <3>1, <3>2
  <2> QED BY <2>1, <2>2 DEF HasOrFilled
<1> QED BY <1>2, <1>3, <1>8, <1>9

LEMMA MessageShown ==
    ASSUME NEW n \in Nat, n = Len(tables.messages),
           NEW req, req.limit \in Nat, req.offset = 0,
           NEW rows, rows = Page(Oldest(tables.messages, n), req),
           NEW p \in PlacesIn(tables.messages, n, req.chat_id),
           NEW id, tables.messages[p].id = id
    PROVE  Shown(rows, id, req.limit)
<1>1. DOMAIN rows = 1 .. Len(rows)
  <2>1. rows = [k \in 1 .. Len(rows) |-> rows[k]]
    BY PageRanks
  <2> QED BY <2>1
<1>2. p \in 1 .. Len(tables.messages)
  BY DEF PlacesIn
<1>3. CASE \E k \in 1 .. Len(rows) : rows[k] = ReadMessage(tables.messages[p])
  BY <1>1, <1>3 DEF Shown, ReadMessage
<1>4. CASE /\ Len(rows) = req.limit
           /\ \A k \in 1 .. Len(rows) :
                 \E j \in 1 .. n : p < j /\ rows[k] = ReadMessage(tables.messages[j])
  <2>1. ASSUME NEW k \in DOMAIN rows PROVE Newer(rows[k].id, id)
    <3>1. PICK j \in 1 .. n : p < j /\ rows[k] = ReadMessage(tables.messages[j])
      BY <1>1, <1>4
    <3>2. rows[k].id = tables.messages[j].id
      BY <3>1 DEF ReadMessage
    <3> QED BY <1>2, <3>1, <3>2 DEF Newer
  <2> QED BY <1>4, <2>1 DEF Shown
<1>5. HasOrFilled(rows, tables.messages, n, req.limit, p)
  BY NewestShown
<1> QED BY <1>3, <1>4, <1>5 DEF HasOrFilled

\* The answer that a step gives.
LEMMA NewReply ==
    ASSUME ServerInv, [SerialNext]_vars, NEW k \in Len(replies) + 1 .. Len(replies')
    PROVE  /\ k = Len(Answers') /\ Len(Answers') = Len(Answers) + 1
           /\ Len(Answers) \in Nat
           /\ Answers'[k].id = replies'[k].id
           /\ Answers'[k].status = replies'[k].status
           /\ Answers'[k].rows = replies'[k].rows
<1>1. Len(Answers) = Len(replies) /\ Len(replies) \in Nat
  BY AnswersSeq
<1>2. replies' # replies
  BY <1>1
<1>3. PICK r : replies' = Append(replies, r)
  BY <1>2, RepliesAfter DEF GivenBy, Answer
<1>4. Len(replies') = Len(replies) + 1
  BY <1>3, Appended DEF ServerInv, Types
<1>5. Answers' = [j \in 1 .. Len(replies') |->
            [id |-> replies'[j].id, status |-> replies'[j].status, rows |-> replies'[j].rows]]
  BY DEF Answers
<1>6. k = Len(replies') /\ k \in 1 .. Len(replies')
  BY <1>1, <1>4
<1>7. Len(Answers') = Len(replies')
  BY <1>1, <1>4, <1>5
<1> QED BY <1>1, <1>4, <1>5, <1>6, <1>7

\* A page is answered with a look at the messages there are.
LEMMA PageAnswered ==
    ASSUME ServerInv, [SerialNext]_vars, NEW k \in Len(replies) + 1 .. Len(replies'),
           NEW req, req = asked[replies'[k].id],
           req.rpc = "GetHistory", replies'[k].status = "OK",
           NEW n, n = Len(tables.messages)
    PROVE  /\ n \in Nat /\ req.limit \in Nat /\ req.offset \in Nat
           /\ replies'[k].rows = Page(Oldest(tables.messages, n), req)
<1>1. [Atomic!Next]_Atomic!vars
  BY NextRefined
<1>2. /\ k = Len(Answers') /\ Len(Answers') = Len(Answers) + 1 /\ Len(Answers) \in Nat
      /\ Answers'[k].id = replies'[k].id /\ Answers'[k].status = replies'[k].status
      /\ Answers'[k].rows = replies'[k].rows
  BY NewReply
<1>3. k \in 1 .. Len(Answers') /\ k \notin 1 .. Len(Answers)
  BY <1>2
<1>4. ASSUME NEW id \in Id, Atomic!Apply(id),
             Answers'[k] = [id |-> id, status |-> "OK", rows |-> <<>>]
      PROVE  FALSE
  <2>1. req = asked[id]
    BY <1>2, <1>4
  <2> QED BY <1>4, <2>1 DEF Atomic!Apply, Atomic!Register, Atomic!UploadPreKey,
             Atomic!CreateChat, Atomic!SendMessage
<1>5. asked' = asked /\ tables' = tables
  BY <1>1, <1>3, <1>4, AnswersAfter
<1>6. IsPageOf(k, n)'
  BY <1>1, <1>2, <1>5, PageGiven
<1>7. /\ req.limit \in Nat /\ req.offset \in Nat
      /\ replies'[k].rows = Page(Oldest(tables.messages, n), req)
  BY <1>2, <1>5, <1>6 DEF IsPageOf
<1>8. n \in Nat
  BY DEF ServerInv, Types, IsDatabase, IsSeq
<1> QED BY <1>7, <1>8

\* A message that a client was told of has its place in its chat.
LEMMA ToldPlace ==
    ASSUME DeliveryInv, NEW s \in Stream, NEW i \in DOMAIN stream[s],
           NEW id, id = Told(stream[s][i]), NEW n, n = Len(tables.messages)
    PROVE  \E p \in PlacesIn(tables.messages, n, asked[id].chat_id) : tables.messages[p].id = id
<1>1. stream[s][i].n \in 1 .. Len(events)
  BY OnStream
<1>2. MessageStored(id)
  BY <1>1 DEF DeliveryInv, ServerFacts, DataInv, EventImpliesStored, Told
<1>3. PICK p \in 1 .. Len(tables.messages) : tables.messages[p].id = id
  BY <1>2 DEF MessageStored
<1>4. tables.messages[p].chat_id = asked[id].chat_id
  BY <1>3, SentFields DEF DeliveryInv, ServerFacts, HistoryInv
<1> QED BY <1>3, <1>4 DEF PlacesIn

\* Whoever asks for the newest messages of a chat is shown every one of them that
\* any client was told of, unless newer ones fill the answer.
THEOREM HeardStaysInHistory == DeliverySpec => HeardIsInHistory
<1> DEFINE fromNewest(k) ==
        LET reply == replies'[k]
            req == asked[reply.id]
        IN  req.rpc = "GetHistory" /\ reply.status = "OK" /\ req.offset = 0 =>
              \A s \in Stream : \A i \in DOMAIN stream[s] :
                  LET id == Told(stream[s][i])
                  IN  asked[id].chat_id = req.chat_id => Shown(reply.rows, id, req.limit)
<1>1. ASSUME DeliveryInv, [DeliveryNext]_deliveryVars,
             NEW k \in Len(replies) + 1 .. Len(replies')
      PROVE  fromNewest(k)
  <2> SUFFICES ASSUME NEW req, req = asked[replies'[k].id], req.rpc = "GetHistory",
                      replies'[k].status = "OK", req.offset = 0,
                      NEW s \in Stream, NEW i \in DOMAIN stream[s],
                      NEW id, id = Told(stream[s][i]), asked[id].chat_id = req.chat_id
               PROVE  Shown(replies'[k].rows, id, req.limit)
    OBVIOUS
  <2>1. ServerInv /\ [SerialNext]_vars
    BY <1>1, ServerStepped DEF DeliveryInv, ServerFacts
  <2>2. PICK n : n = Len(tables.messages)
    OBVIOUS
  <2>3. PICK rows : rows = replies'[k].rows
    OBVIOUS
  <2>4. /\ n \in Nat /\ req.limit \in Nat /\ req.offset \in Nat
        /\ rows = Page(Oldest(tables.messages, n), req)
    BY <1>1, <2>1, <2>2, <2>3, PageAnswered
  <2>5. PICK p \in PlacesIn(tables.messages, n, req.chat_id) : tables.messages[p].id = id
    BY <1>1, <2>2, ToldPlace
  <2> QED BY <2>2, <2>3, <2>4, <2>5, MessageShown
<1>2. DeliveryInv /\ [DeliveryNext]_deliveryVars =>
          [\A k \in Len(replies) + 1 .. Len(replies') : fromNewest(k)]_deliveryVars
  BY <1>1
<1> QED BY <1>2, DeliveryHolds, PTL DEF DeliverySpec, HeardIsInHistory
=============================================================================

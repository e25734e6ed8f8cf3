----------------------------- MODULE EventsProofs -----------------------------
(***************************************************************************)
(* Proofs about Events, for any number of calls, users and messages.       *)
(*                                                                         *)
(* Until its client goes away, the stream of a call and the replies its    *)
(* thread has not read yet make up, one after the other, all events that   *)
(* were published for its user since the SUBSCRIBE.                        *)
(***************************************************************************)
EXTENDS Events, TLAPS

Numbered == /\ \A k \in DOMAIN published : published[k].n = k
            /\ Len(published) <= MaxPublish
            /\ \A s \in Call : since[s] <= Len(published)

\* Nothing comes before the SUBSCRIBE.
Quiet == \A s \in Call : thread[s] \in {"none", "starting"} =>
            inbox[s] = <<>> /\ (~ stray => stream[s] = <<>>)

Inboxes == \A s \in Call : /\ \A i \in DOMAIN inbox[s] : IsFor(s, inbox[s][i])
                           /\ Ascending(inbox[s])

\* What is unread is newer than what was received.
Newer(s) == \A i \in DOMAIN stream[s], j \in DOMAIN inbox[s] : stream[s][i].n < inbox[s][j].n

\* Nothing is missing.
Whole(s) == \A n \in since[s] + 1 .. Len(published) :
               published[n].channel = user[s] => Has(stream[s], n) \/ Has(inbox[s], n)

Continued == ~ stray => \A s \in Call :
                ~ cancelled[s] => Newer(s) /\ (thread[s] = "subscribed" => Whole(s))

EventsInv == /\ TypeOK /\ Numbered /\ Quiet
             /\ Inboxes /\ Continued /\ StreamsHaveNoGap

-----------------------------------------------------------------------------
LEMMA EventsInit == Init => EventsInv
<1> SUFFICES ASSUME Init PROVE EventsInv
  OBVIOUS
<1>1. TypeOK
  <2>1. PICK v \in User : user = [s \in Call |-> v]
    BY EventsAssumption DEF Init
  <2>2. user \in [Call -> User]
    BY <2>1
  <2>3. /\ inbox \in [Call -> Seq(Event)] /\ stream \in [Call -> Seq(Event)]
        /\ published \in Seq(Event) /\ since \in [Call -> 0 .. MaxPublish]
    BY EventsAssumption DEF Init
  <2>4. QED
    BY <2>2, <2>3 DEF Init, TypeOK
<1>2. Numbered /\ Quiet
  BY EventsAssumption DEF Init, Numbered, Quiet
<1>3. Inboxes
  BY DEF Init, Inboxes, Ascending
<1>4. Continued
  BY DEF Init, Continued, Newer, Whole
<1>5. StreamsHaveNoGap
  BY DEF Init, StreamsHaveNoGap, Ascending
<1>6. QED
  BY <1>1, <1>2, <1>3, <1>4, <1>5 DEF EventsInv

\* A call is made: its thread has not subscribed, so nothing was received.
LEMMA SubscribeKeeps ==
    ASSUME EventsInv, NEW s \in Call, NEW u \in User, SubscribeEvents(s, u)
    PROVE  EventsInv'
<1>1. /\ handler[s] = "idle" /\ thread[s] = "none"
      /\ UNCHANGED <<up, cancelled, inbox, stream, published, since, stray>>
      /\ user' = [user EXCEPT ![s] = u]
      /\ thread' = [thread EXCEPT ![s] = "starting"]
      /\ handler' = [handler EXCEPT ![s] = "waiting"]
  BY DEF SubscribeEvents, EventsInv, TypeOK
<1>2. inbox[s] = <<>> /\ (~ stray => stream[s] = <<>>)
  BY <1>1 DEF EventsInv, Quiet
<1>3. /\ \A t \in Call : thread'[t] = IF t = s THEN "starting" ELSE thread[t]
      /\ \A t \in Call : t # s => user'[t] = user[t]
  BY <1>1 DEF EventsInv, TypeOK
<1>4. TypeOK'
  BY <1>1 DEF EventsInv, TypeOK
<1>5. Numbered' /\ Quiet'
  BY <1>1, <1>2, <1>3 DEF EventsInv, Numbered, Quiet
<1>6. Inboxes'
  BY <1>1, <1>2, <1>3 DEF EventsInv, Inboxes, IsFor, Ascending
<1>7. Continued'
  <2>1. ASSUME NEW t \in Call, ~ stray, ~ cancelled[t]
        PROVE  Newer(t)' /\ (thread'[t] = "subscribed" => Whole(t)')
    BY <1>1, <1>2, <1>3, <2>1 DEF EventsInv, Continued, Newer, Whole, Has
  <2>2. QED
    BY <1>1, <2>1 DEF Continued
<1>8. StreamsHaveNoGap'
  BY <1>1, <1>2, <1>3 DEF EventsInv, StreamsHaveNoGap, IsFor, Ascending, Has
<1>9. QED
  BY <1>4, <1>5, <1>6, <1>7, <1>8 DEF EventsInv

\* The thread subscribes, or gives up.
LEMMA ConnectKeeps ==
    ASSUME EventsInv, NEW s \in Call, Connect(s)
    PROVE  EventsInv'
<1>1. /\ thread[s] = "starting"
      /\ UNCHANGED <<up, handler, user, cancelled, inbox, stream, published, stray>>
      /\ \A t \in Call : t # s => since'[t] = since[t] /\ thread'[t] = thread[t]
      /\ thread' \in [Call -> {"none", "starting", "subscribed", "ended"}]
      /\ thread'[s] \in {"subscribed", "ended"}
      /\ thread'[s] = "subscribed" => since'[s] = Len(published)
      /\ since' \in [Call -> 0 .. MaxPublish]
      /\ since'[s] <= Len(published)
  <2>1. Len(published) \in 0 .. MaxPublish
    BY DEF EventsInv, TypeOK, Numbered
  <2>2. CASE thread' = [thread EXCEPT ![s] = "subscribed"] /\ since' = [since EXCEPT ![s] = Len(published)]
    BY <2>1, <2>2 DEF Connect, EventsInv, TypeOK
  <2>3. CASE thread' = [thread EXCEPT ![s] = "ended"] /\ since' = since
    BY <2>1, <2>3 DEF Connect, EventsInv, TypeOK, Numbered
  <2>4. QED
    BY <2>2, <2>3 DEF Connect
<1>2. inbox[s] = <<>> /\ (~ stray => stream[s] = <<>>)
  BY <1>1 DEF EventsInv, Quiet
<1>3. TypeOK'
  BY <1>1 DEF EventsInv, TypeOK
<1>4. Numbered' /\ Quiet'
  BY <1>1 DEF EventsInv, Numbered, Quiet
<1>5. Inboxes'
  BY <1>1, <1>2 DEF EventsInv, Inboxes, IsFor, Ascending
<1>6. Continued'
  <2>1. ASSUME NEW t \in Call, ~ stray, ~ cancelled[t]
        PROVE  Newer(t)' /\ (thread'[t] = "subscribed" => Whole(t)')
    <3>1. CASE t # s
      BY <1>1, <2>1, <3>1 DEF EventsInv, Continued, Newer, Whole, Has
    <3>2. CASE t = s
      <4>1. Newer(s)'
        BY <1>1, <1>2 DEF Newer
      <4>2. ASSUME thread'[s] = "subscribed" PROVE Whole(s)'
        <5>1. since'[s] + 1 .. Len(published') = {}
          BY <1>1, <4>2 DEF EventsInv, TypeOK
        <5>2. QED
          BY <5>1 DEF Whole
      <4>3. QED
        BY <3>2, <4>1, <4>2
    <3>3. QED
      BY <3>1, <3>2
  <2>2. QED
    BY <1>1, <2>1 DEF Continued
<1>7. StreamsHaveNoGap'
  BY <1>1, <1>2 DEF EventsInv, StreamsHaveNoGap, IsFor, Ascending, Has
<1>8. QED
  BY <1>3, <1>4, <1>5, <1>6, <1>7 DEF EventsInv

\* The Redis connection, the client or the handler goes away.
LEMMA LeavingKeeps ==
    ASSUME EventsInv, NEW s \in Call, Disconnect(s) \/ Cancel(s) \/ Return(s)
    PROVE  EventsInv'
<1>1. /\ UNCHANGED <<up, user, inbox, stream, published, since, stray>>
      /\ \A t \in Call : /\ cancelled[t] => cancelled'[t]
                         /\ thread'[t] = thread[t] \/ thread'[t] = "ended"
  BY DEF Disconnect, Cancel, Return, EventsInv, TypeOK
<1>2. TypeOK'
  BY DEF Disconnect, Cancel, Return, EventsInv, TypeOK
<1>3. Numbered' /\ Quiet' /\ Inboxes'
  BY <1>1 DEF EventsInv, Numbered, Quiet, Inboxes, IsFor, Ascending
<1>4. Continued'
  BY <1>1 DEF EventsInv, Continued, Newer, Whole, Has
<1>5. StreamsHaveNoGap'
  BY <1>1 DEF EventsInv, StreamsHaveNoGap, IsFor, Ascending, Has
<1>6. QED
  BY <1>2, <1>3, <1>4, <1>5 DEF EventsInv

\* The server is started anew: no thread is subscribed, nothing is unread.
LEMMA RestartKeeps ==
    ASSUME EventsInv, Restart
    PROVE  EventsInv'
<1>1. /\ UNCHANGED <<user, cancelled, stream, published, since, stray>>
      /\ \A t \in Call : inbox'[t] = <<>>
      /\ \A t \in Call : thread'[t] = IF thread[t] = "none" THEN "none" ELSE "ended"
  BY DEF Restart
<1>2. TypeOK'
  BY DEF Restart, EventsInv, TypeOK
<1>3. Numbered' /\ Quiet'
  BY <1>1 DEF EventsInv, Numbered, Quiet
<1>4. Inboxes'
  BY <1>1 DEF Inboxes, Ascending
<1>5. Continued'
  BY <1>1 DEF Continued, Newer
<1>6. StreamsHaveNoGap'
  BY <1>1 DEF EventsInv, StreamsHaveNoGap, IsFor, Ascending, Has
<1>7. QED
  BY <1>2, <1>3, <1>4, <1>5, <1>6 DEF EventsInv

\* A sequence of events with one more at its end.
LEMMA EventAdded ==
    ASSUME NEW events \in Seq(Event), NEW event \in Event
    PROVE  LET more == Append(events, event)
           IN  /\ more \in Seq(Event)
               /\ DOMAIN more = DOMAIN events \cup {Len(events) + 1}
               /\ Len(events) + 1 \notin DOMAIN events
               /\ \A i \in DOMAIN events : /\ more[i] = events[i] /\ events[i] \in Event
                                           /\ i < Len(events) + 1 /\ i \in Nat
               /\ more[Len(events) + 1] = event
<1> DEFINE more == Append(events, event)
<1>1. /\ more \in Seq(Event) /\ Len(events) \in Nat /\ Len(more) = Len(events) + 1
      /\ \A i \in 1 .. Len(events) : more[i] = events[i]
      /\ more[Len(events) + 1] = event
  OBVIOUS
<1> HIDE DEF more
<1>2. DOMAIN more = 1 .. Len(more) /\ DOMAIN events = 1 .. Len(events)
  BY <1>1
<1>3. \A i \in 1 .. Len(events) : events[i] \in Event
  OBVIOUS
<1>4. QED
  BY <1>1, <1>2, <1>3 DEF more

LEMMA AddedAscending ==
    ASSUME NEW events \in Seq(Event), NEW event \in Event, Ascending(events),
           \A i \in DOMAIN events : events[i].n < event.n
    PROVE  Ascending(Append(events, event))
<1> DEFINE more == Append(events, event)
<1>1. /\ DOMAIN more = DOMAIN events \cup {Len(events) + 1}
      /\ \A i \in DOMAIN events : more[i] = events[i] /\ i < Len(events) + 1 /\ i \in Nat
      /\ more[Len(events) + 1] = event
  BY EventAdded
<1>2. Len(events) \in Nat
  OBVIOUS
<1> HIDE DEF more
<1>3. ASSUME NEW i \in DOMAIN more, NEW j \in DOMAIN more, i < j PROVE more[i].n < more[j].n
  <2>1. i \in DOMAIN events
    BY <1>1, <1>2, <1>3
  <2>2. CASE j \in DOMAIN events
    BY <1>1, <1>3, <2>1, <2>2 DEF Ascending
  <2>3. CASE j = Len(events) + 1
    BY <1>1, <2>1, <2>3
  <2>4. QED
    BY <1>1, <2>2, <2>3
<1>4. QED
  BY <1>3 DEF Ascending, more

LEMMA AddedHas ==
    ASSUME NEW events \in Seq(Event), NEW event \in Event, NEW n
    PROVE  Has(Append(events, event), n) <=> Has(events, n) \/ event.n = n
<1> DEFINE more == Append(events, event)
<1>1. /\ DOMAIN more = DOMAIN events \cup {Len(events) + 1}
      /\ \A i \in DOMAIN events : more[i] = events[i]
      /\ more[Len(events) + 1] = event
  BY EventAdded
<1> HIDE DEF more
<1>2. Has(more, n) <=> Has(events, n) \/ event.n = n
  BY <1>1 DEF Has
<1>3. QED
  BY <1>2 DEF more

\* Redis pushes a new event to the threads that are subscribed to its channel.
LEMMA PublishKeeps ==
    ASSUME EventsInv, NEW u \in User, Publish(u)
    PROVE  EventsInv'
<1> DEFINE pushed(s) == thread[s] = "subscribed" /\ user[s] = u
<1>0. PICK event : event = [channel |-> u, n |-> Len(published) + 1]
  OBVIOUS
<1>1. /\ Len(published) \in Nat /\ Len(published) < MaxPublish
      /\ published' = Append(published, event)
      /\ \A s \in Call : inbox'[s] = IF pushed(s) THEN Append(inbox[s], event) ELSE inbox[s]
      /\ inbox' = [s \in Call |-> inbox'[s]]
      /\ UNCHANGED <<up, handler, user, cancelled, thread, stream, since, stray>>
  BY <1>0 DEF Publish, EventsInv, TypeOK
<1>2. /\ event \in Event /\ event.n = Len(published) + 1 /\ event.channel = u
      /\ published \in Seq(Event)
      /\ \A s \in Call : inbox[s] \in Seq(Event) /\ stream[s] \in Seq(Event)
      /\ \A s \in Call : since[s] \in 0 .. MaxPublish /\ since[s] <= Len(published)
      /\ \A k \in DOMAIN published : published[k].n = k
      /\ DOMAIN published = 1 .. Len(published)
  <2>1. event \in Event /\ event.n = Len(published) + 1 /\ event.channel = u
    BY <1>0, <1>1, EventsAssumption DEF Event
  <2>2. QED
    BY <2>1 DEF EventsInv, TypeOK, Numbered
<1>3. /\ published' \in Seq(Event) /\ Len(published') = Len(published) + 1
      /\ \A k \in 1 .. Len(published) : published'[k] = published[k]
      /\ published'[Len(published) + 1] = event
      /\ DOMAIN published' = 1 .. Len(published) + 1
  <2>1. /\ published' \in Seq(Event) /\ Len(published') = Len(published) + 1
        /\ \A k \in 1 .. Len(published) : published'[k] = published[k]
        /\ published'[Len(published) + 1] = event
    BY <1>1, <1>2
  <2>2. QED
    BY <2>1
<1>4. ASSUME NEW s \in Call, NEW e, IsFor(s, e)
      PROVE  IsFor(s, e)' /\ e.n < event.n
  <2>1. e.n \in 1 .. Len(published) /\ e.n \in since[s] + 1 .. Len(published)
    BY <1>2, <1>4 DEF IsFor
  <2>2. published'[e.n] = published[e.n]
    BY <1>3, <2>1
  <2>3. e.n \in since[s] + 1 .. Len(published')
    BY <1>1, <1>2, <1>3, <2>1
  <2>4. QED
    BY <1>1, <1>2, <1>4, <2>1, <2>2, <2>3 DEF IsFor
<1>5. TypeOK'
  <2>1. \A s \in Call : Append(inbox[s], event) \in Seq(Event)
    BY <1>2, EventAdded
  <2>2. \A s \in Call : inbox'[s] \in Seq(Event)
    BY <1>1, <1>2, <2>1
  <2>3. inbox' \in [Call -> Seq(Event)]
    BY <1>1, <2>2
  <2>4. QED
    BY <1>1, <1>3, <2>3 DEF EventsInv, TypeOK
<1>6. Numbered'
  <2>1. \A k \in DOMAIN published' : published'[k].n = k
    BY <1>2, <1>3
  <2>2. Len(published') <= MaxPublish
    BY <1>1, <1>3, EventsAssumption
  <2>3. \A s \in Call : since[s] <= Len(published')
    BY <1>1, <1>2, <1>3
  <2>4. QED
    BY <1>1, <2>1, <2>2, <2>3 DEF Numbered
<1>7. Quiet'
  BY <1>1 DEF EventsInv, Quiet
<1>8. Inboxes'
  <2> SUFFICES ASSUME NEW s \in Call
               PROVE  /\ \A i \in DOMAIN inbox'[s] : \A e : e = inbox'[s][i] => IsFor(s, e)'
                      /\ Ascending(inbox'[s])
    BY DEF Inboxes, Ascending, IsFor
  <2>1. /\ \A i \in DOMAIN inbox[s] : \A e : e = inbox[s][i] => IsFor(s, e)' /\ e.n < event.n
        /\ Ascending(inbox[s])
    BY <1>4 DEF EventsInv, Inboxes
  <2>2. CASE ~ pushed(s)
    BY <1>1, <2>1, <2>2
  <2>3. CASE pushed(s)
    <3>1. inbox'[s] = Append(inbox[s], event)
      BY <1>1, <2>3
    <3>2. Ascending(inbox'[s])
      BY <1>2, <2>1, <3>1, AddedAscending
    <3>3. IsFor(s, event)'
      BY <1>1, <1>2, <1>3, <2>3 DEF IsFor
    <3>4. \A i \in DOMAIN inbox'[s] : (i \in DOMAIN inbox[s] /\ inbox'[s][i] = inbox[s][i])
                                         \/ inbox'[s][i] = event
      BY <1>2, <3>1, EventAdded
    <3>5. QED
      BY <2>1, <3>2, <3>3, <3>4
  <2>4. QED
    BY <2>2, <2>3
<1>9. Continued'
  <2> SUFFICES ASSUME NEW s \in Call, ~ stray, ~ cancelled[s]
               PROVE  Newer(s)' /\ (thread[s] = "subscribed" => Whole(s)')
    BY <1>1 DEF Continued
  <2>1. Newer(s) /\ (thread[s] = "subscribed" => Whole(s))
    BY DEF EventsInv, Continued
  <2>2. \A i \in DOMAIN stream[s] : stream[s][i].n < event.n
    BY <1>4 DEF EventsInv, StreamsHaveNoGap
  <2>3. CASE pushed(s)
    <3>1. inbox'[s] = Append(inbox[s], event)
      BY <1>1, <2>3
    <3>2. \A i \in DOMAIN inbox'[s] : (i \in DOMAIN inbox[s] /\ inbox'[s][i] = inbox[s][i])
                                         \/ inbox'[s][i] = event
      BY <1>2, <3>1, EventAdded
    <3>3. Newer(s)'
      BY <1>1, <2>1, <2>2, <3>2 DEF Newer
    <3>4. ASSUME NEW n \in since[s] + 1 .. Len(published'), published'[n].channel = user[s]
          PROVE  Has(stream[s], n) \/ Has(inbox'[s], n)
      <4>1. CASE n = Len(published) + 1
        BY <1>2, <3>1, <4>1, AddedHas
      <4>2. CASE n # Len(published) + 1
        <5>1. n \in since[s] + 1 .. Len(published) /\ n \in 1 .. Len(published)
          BY <1>1, <1>2, <1>3, <4>2
        <5>2. Has(stream[s], n) \/ Has(inbox[s], n)
          BY <1>3, <2>1, <2>3, <3>4, <5>1 DEF Whole
        <5>3. QED
          BY <1>2, <3>1, <5>2, AddedHas
      <4>3. QED
        BY <4>1, <4>2
    <3>5. Whole(s)'
      BY <1>1, <3>4 DEF Whole, Has
    <3>6. QED
      BY <3>3, <3>5
  <2>4. CASE ~ pushed(s)
    <3>1. inbox'[s] = inbox[s]
      BY <1>1, <2>4
    <3>2. Newer(s)'
      BY <1>1, <2>1, <3>1 DEF Newer
    <3>3. ASSUME NEW n \in since[s] + 1 .. Len(published'), published'[n].channel = user[s],
                 thread[s] = "subscribed"
          PROVE  Has(stream[s], n) \/ Has(inbox[s], n)
      <4>1. n # Len(published) + 1
        BY <1>2, <1>3, <2>4, <3>3
      <4>2. n \in since[s] + 1 .. Len(published) /\ n \in 1 .. Len(published)
        BY <1>1, <1>2, <1>3, <4>1
      <4>3. QED
        BY <1>3, <2>1, <3>3, <4>2 DEF Whole
    <3>4. ASSUME thread[s] = "subscribed" PROVE Whole(s)'
      <4>1. \A n \in since[s] + 1 .. Len(published') :
              published'[n].channel = user[s] => Has(stream[s], n) \/ Has(inbox'[s], n)
        BY <3>1, <3>3, <3>4
      <4>2. since' = since /\ user' = user /\ stream' = stream
        BY <1>1
      <4>3. QED
        BY <4>1, <4>2 DEF Whole, Has
    <3>5. QED
      BY <3>2, <3>4
  <2>5. QED
    BY <2>3, <2>4
<1>10. StreamsHaveNoGap'
  <2> SUFFICES ASSUME ~ stray, NEW s \in Call
               PROVE  LET got == stream[s]
                      IN  /\ \A i \in DOMAIN got : \A e : e = got[i] => IsFor(s, e)'
                          /\ Ascending(got)
                          /\ \A i \in DOMAIN got : \A n \in since[s] + 1 .. got[i].n :
                               published'[n].channel = user[s] => Has(got, n)
    <3> SUFFICES ASSUME ~ stray', NEW s \in Call
                 PROVE  LET got == stream'[s]
                        IN  /\ \A i \in DOMAIN got : \A e : e = got[i] => IsFor(s, e)'
                            /\ Ascending(got)
                            /\ \A i \in DOMAIN got : \A n \in since'[s] + 1 .. got[i].n :
                                 published'[n].channel = user'[s] => Has(got, n)
      BY DEF StreamsHaveNoGap, IsFor, Ascending, Has
    <3>1. QED
      BY <1>1
  <2>1. /\ \A i \in DOMAIN stream[s] : IsFor(s, stream[s][i])
        /\ Ascending(stream[s])
        /\ \A i \in DOMAIN stream[s] : \A n \in since[s] + 1 .. stream[s][i].n :
             published[n].channel = user[s] => Has(stream[s], n)
    BY DEF EventsInv, StreamsHaveNoGap
  <2>2. \A i \in DOMAIN stream[s] : \A n \in since[s] + 1 .. stream[s][i].n :
            published'[n] = published[n]
    <3>1. \A i \in DOMAIN stream[s] : stream[s][i].n \in since[s] + 1 .. Len(published)
      BY <2>1 DEF IsFor
    <3>2. QED
      BY <1>1, <1>2, <1>3, <3>1
  <2>3. QED
    BY <1>4, <2>1, <2>2
<1>11. QED
  BY <1>5, <1>6, <1>7, <1>8, <1>9, <1>10 DEF EventsInv

\* A sequence of events without its first.
LEMMA EventTaken ==
    ASSUME NEW events \in Seq(Event), events # <<>>
    PROVE  LET less == Tail(events)
           IN  /\ less \in Seq(Event) /\ Head(events) \in Event
               /\ 1 \in DOMAIN events /\ events[1] = Head(events)
               /\ \A i \in DOMAIN less : /\ i \in Nat /\ i > 0 /\ i + 1 \in DOMAIN events
                                         /\ less[i] = events[i + 1]
               /\ \A i \in DOMAIN events : i # 1 => /\ i - 1 \in DOMAIN less
                                                    /\ less[i - 1] = events[i]
<1> DEFINE less == Tail(events)
<1>1. /\ less \in Seq(Event) /\ Len(events) \in Nat /\ Len(events) > 0
      /\ Len(less) = Len(events) - 1
      /\ \A i \in 1 .. Len(events) - 1 : less[i] = events[i + 1]
      /\ Head(events) \in Event /\ events[1] = Head(events)
  OBVIOUS
<1> HIDE DEF less
<1>2. DOMAIN less = 1 .. Len(less) /\ DOMAIN events = 1 .. Len(events)
  BY <1>1
<1>3. /\ 1 \in DOMAIN events
      /\ \A i \in DOMAIN less : i \in Nat /\ i > 0 /\ i + 1 \in DOMAIN events
      /\ \A i \in DOMAIN less : less[i] = events[i + 1]
  BY <1>1, <1>2
<1>4. ASSUME NEW i \in DOMAIN events, i # 1
      PROVE  i - 1 \in DOMAIN less /\ less[i - 1] = events[i]
  <2>1. i - 1 \in 1 .. Len(events) - 1 /\ (i - 1) + 1 = i
    BY <1>1, <1>2, <1>4
  <2>2. less[i - 1] = events[(i - 1) + 1]
    BY <1>1, <2>1
  <2>3. QED
    BY <1>1, <1>2, <2>1, <2>2
<1>5. QED
  BY <1>1, <1>3, <1>4 DEF less

LEMMA TakenHas ==
    ASSUME NEW events \in Seq(Event), events # <<>>, NEW n
    PROVE  Has(events, n) <=> Has(Tail(events), n) \/ Head(events).n = n
<1> DEFINE less == Tail(events)
<1>1. /\ 1 \in DOMAIN events /\ events[1] = Head(events)
      /\ \A i \in DOMAIN less : i + 1 \in DOMAIN events /\ less[i] = events[i + 1]
      /\ \A i \in DOMAIN events : i # 1 => i - 1 \in DOMAIN less /\ less[i - 1] = events[i]
  BY EventTaken
<1> HIDE DEF less
<1>2. Has(events, n) <=> Has(less, n) \/ Head(events).n = n
  BY <1>1 DEF Has
<1>3. QED
  BY <1>2 DEF less

LEMMA TakenAscending ==
    ASSUME NEW events \in Seq(Event), events # <<>>, Ascending(events)
    PROVE  /\ Ascending(Tail(events))
           /\ \A i \in DOMAIN Tail(events) : Head(events).n < Tail(events)[i].n
<1> DEFINE less == Tail(events)
<1>1. /\ 1 \in DOMAIN events /\ events[1] = Head(events)
      /\ \A i \in DOMAIN less : /\ i \in Nat /\ i > 0 /\ i + 1 \in DOMAIN events
                                /\ less[i] = events[i + 1]
  BY EventTaken
<1> HIDE DEF less
<1>2. \A i \in DOMAIN less : Head(events).n < less[i].n
  <2>1. ASSUME NEW i \in DOMAIN less PROVE Head(events).n < less[i].n
    <3>1. 1 < i + 1 /\ i + 1 \in DOMAIN events /\ less[i] = events[i + 1]
      BY <1>1
    <3>2. events[1].n < events[i + 1].n
      BY <1>1, <3>1 DEF Ascending
    <3>3. QED
      BY <1>1, <3>1, <3>2
  <2>2. QED
    BY <2>1
<1>3. ASSUME NEW i \in DOMAIN less, NEW j \in DOMAIN less, i < j PROVE less[i].n < less[j].n
  <2>1. i + 1 < j + 1 /\ i + 1 \in DOMAIN events /\ j + 1 \in DOMAIN events
    BY <1>1, <1>3
  <2>2. events[i + 1].n < events[j + 1].n
    BY <2>1 DEF Ascending
  <2>3. QED
    BY <1>1, <2>2
<1>4. QED
  BY <1>2, <1>3 DEF Ascending, less

\* The oldest unread event is the next one for the stream.
LEMMA ForwardKeeps ==
    ASSUME EventsInv, NEW s \in Call, Forward(s)
    PROVE  EventsInv'
<1>0. PICK event : event = Head(inbox[s])
  OBVIOUS
<1>1. /\ thread[s] = "subscribed" /\ inbox[s] \in Seq(Event) /\ inbox[s] # <<>>
      /\ inbox'[s] = Tail(inbox[s])
      /\ \A t \in Call : t # s => inbox'[t] = inbox[t]
      /\ inbox' = [t \in Call |-> inbox'[t]]
      /\ UNCHANGED <<handler, user, cancelled, thread, published, since>>
  BY DEF Forward, EventsInv, TypeOK
<1>2. /\ \A t \in Call : inbox[t] \in Seq(Event) /\ stream[t] \in Seq(Event)
      /\ \A t \in Call : inbox'[t] \in Seq(Event)
      /\ event \in Event
  <2>1. \A t \in Call : inbox[t] \in Seq(Event) /\ stream[t] \in Seq(Event)
    BY DEF EventsInv, TypeOK
  <2>2. Tail(inbox[s]) \in Seq(Event) /\ event \in Event
    BY <1>0, <1>1, EventTaken
  <2>3. QED
    BY <1>1, <2>1, <2>2
<1>3. \/ stray' /\ stray' \in BOOLEAN /\ up' \in BOOLEAN /\ stream' \in [Call -> Seq(Event)]
      \/ /\ stray' = stray /\ up' = up
         /\ \A t \in Call : t # s => stream'[t] = stream[t]
         /\ stream'[s] = IF cancelled[s] THEN stream[s] ELSE Append(stream[s], event)
         /\ stream' \in [Call -> Seq(Event)]
  <2>1. stream \in [Call -> Seq(Event)] /\ up \in BOOLEAN
    BY DEF EventsInv, TypeOK
  <2>2. \A t \in Call : Append(stream[t], event) \in Seq(Event)
    BY <1>2, EventAdded
  <2>3. CASE Write(s, event)
    <3>1. stray' = stray /\ up' = up
      BY <2>3 DEF Write
    <3>2. CASE cancelled[s]
      BY <2>1, <2>3, <3>1, <3>2 DEF Write
    <3>3. CASE ~ cancelled[s]
      <4>1. stream' = [stream EXCEPT ![s] = Append(@, event)]
        BY <2>3, <3>3 DEF Write
      <4>2. QED
        BY <2>1, <2>2, <3>1, <3>3, <4>1
    <3>4. QED
      BY <3>2, <3>3
  <2>4. CASE WriteStray(s, event)
    <3>1. stray' = TRUE /\ up' \in BOOLEAN
      BY <2>1, <2>4 DEF WriteStray
    <3>2. \/ stream' = stream
          \/ \E t \in Call : stream' = [stream EXCEPT ![t] = Append(@, event)]
      BY <2>4 DEF WriteStray
    <3>3. stream' \in [Call -> Seq(Event)]
      BY <2>1, <2>2, <3>2
    <3>4. QED
      BY <3>1, <3>3
  <2>5. QED
    BY <1>0, <2>3, <2>4 DEF Forward
<1>4. TypeOK'
  <2>1. inbox' \in [Call -> Seq(Event)]
    BY <1>1, <1>2
  <2>2. up' \in BOOLEAN /\ stray' \in BOOLEAN /\ stream' \in [Call -> Seq(Event)]
    BY <1>3 DEF EventsInv, TypeOK
  <2>3. QED
    BY <1>1, <2>1, <2>2 DEF EventsInv, TypeOK
<1>5. Numbered'
  BY <1>1 DEF EventsInv, Numbered
<1>6. Quiet'
  <2> SUFFICES ASSUME NEW t \in Call, thread[t] \in {"none", "starting"}
               PROVE  inbox'[t] = <<>> /\ (~ stray' => stream'[t] = <<>>)
    BY <1>1 DEF Quiet
  <2>1. t # s /\ inbox[t] = <<>> /\ (~ stray => stream[t] = <<>>)
    BY <1>1 DEF EventsInv, Quiet
  <2>2. inbox'[t] = <<>>
    BY <1>1, <2>1
  <2>3. ~ stray' => stream'[t] = <<>>
    BY <1>3, <2>1
  <2>4. QED
    BY <2>2, <2>3
<1>7. Inboxes'
  <2> SUFFICES ASSUME NEW t \in Call
               PROVE  /\ \A i \in DOMAIN inbox'[t] : \A e : e = inbox'[t][i] => IsFor(t, e)'
                      /\ Ascending(inbox'[t])
    BY DEF Inboxes, Ascending, IsFor
  <2>1. \A e : IsFor(t, e) => IsFor(t, e)'
    BY <1>1 DEF IsFor
  <2>2. /\ \A i \in DOMAIN inbox[t] : IsFor(t, inbox[t][i])
        /\ Ascending(inbox[t])
    BY DEF EventsInv, Inboxes
  <2>3. CASE t # s
    BY <1>1, <2>1, <2>2, <2>3
  <2>4. CASE t = s
    <3>1. \A i \in DOMAIN inbox'[s] : i + 1 \in DOMAIN inbox[s] /\ inbox'[s][i] = inbox[s][i + 1]
      BY <1>1, EventTaken
    <3>2. Ascending(inbox'[s])
      BY <1>1, <2>2, <2>4, TakenAscending
    <3>3. QED
      BY <2>1, <2>2, <2>4, <3>1, <3>2
  <2>5. QED
    BY <2>3, <2>4
<1>8. CASE stray'
  BY <1>4, <1>5, <1>6, <1>7, <1>8 DEF EventsInv, Continued, StreamsHaveNoGap
<1>9. CASE ~ stray'
  <2>1. /\ ~ stray
        /\ \A t \in Call : t # s => stream'[t] = stream[t]
        /\ stream'[s] = IF cancelled[s] THEN stream[s] ELSE Append(stream[s], event)
    BY <1>3, <1>9
  <2>2. /\ IsFor(s, event)
        /\ Ascending(inbox[s])
        /\ ~ cancelled[s] => Newer(s) /\ Whole(s)
    <3>1. 1 \in DOMAIN inbox[s] /\ inbox[s][1] = event
      BY <1>0, <1>1, EventTaken
    <3>2. QED
      BY <1>1, <2>1, <3>1 DEF EventsInv, Inboxes, Continued
  <2>3. /\ \A i \in DOMAIN stream[s] : IsFor(s, stream[s][i])
        /\ Ascending(stream[s])
        /\ \A i \in DOMAIN stream[s] : \A n \in since[s] + 1 .. stream[s][i].n :
             published[n].channel = user[s] => Has(stream[s], n)
    BY <2>1 DEF EventsInv, StreamsHaveNoGap
  <2>4. ~ cancelled[s] => \A i \in DOMAIN stream[s] : stream[s][i].n < event.n
    <3>1. 1 \in DOMAIN inbox[s] /\ inbox[s][1] = event
      BY <1>0, <1>1, EventTaken
    <3>2. QED
      BY <2>2, <3>1 DEF Newer
  <2>5. ~ cancelled[s] => \A i \in DOMAIN stream'[s] :
            (i \in DOMAIN stream[s] /\ stream'[s][i] = stream[s][i]) \/ stream'[s][i] = event
    BY <1>2, <2>1, EventAdded
  <2>6. ASSUME NEW t \in Call, ~ cancelled[t]
        PROVE  Newer(t)' /\ (thread[t] = "subscribed" => Whole(t)')
    <3>1. CASE t # s
      <4>1. Newer(t) /\ (thread[t] = "subscribed" => Whole(t))
        BY <2>1, <2>6 DEF EventsInv, Continued
      <4>2. inbox'[t] = inbox[t] /\ stream'[t] = stream[t]
        BY <1>1, <2>1, <3>1
      <4>3. QED
        BY <1>1, <4>1, <4>2 DEF Newer, Whole, Has
    <3>2. CASE t = s
      <4>1. \A i \in DOMAIN inbox'[s] : /\ i + 1 \in DOMAIN inbox[s]
                                        /\ inbox'[s][i] = inbox[s][i + 1]
        BY <1>1, EventTaken
      <4>2. \A i \in DOMAIN inbox'[s] : event.n < inbox'[s][i].n
        BY <1>0, <1>1, <2>2, TakenAscending
      <4>3. \A i \in DOMAIN stream[s], j \in DOMAIN inbox[s] : stream[s][i].n < inbox[s][j].n
        BY <2>2, <2>6, <3>2 DEF Newer
      <4>4. Newer(s)'
        BY <2>5, <2>6, <3>2, <4>1, <4>2, <4>3 DEF Newer
      <4>5. ASSUME NEW n, Has(stream[s], n) \/ Has(inbox[s], n)
            PROVE  Has(stream'[s], n) \/ Has(inbox'[s], n)
        <5>1. stream'[s] = Append(stream[s], event)
          BY <2>1, <2>6, <3>2
        <5>2. Has(stream'[s], n) <=> Has(stream[s], n) \/ event.n = n
          BY <1>2, <5>1, AddedHas
        <5>3. Has(inbox[s], n) <=> Has(inbox'[s], n) \/ event.n = n
          BY <1>0, <1>1, TakenHas
        <5>4. QED
          BY <4>5, <5>2, <5>3
      <4>6. Whole(s)'
        BY <1>1, <2>2, <2>6, <3>2, <4>5 DEF Whole, Has
      <4>7. QED
        BY <3>2, <4>4, <4>6
    <3>3. QED
      BY <3>1, <3>2
  <2>7. Continued'
    BY <1>1, <2>6 DEF Continued
  <2>8. ASSUME NEW t \in Call
        PROVE  LET got == stream'[t]
               IN  /\ \A i \in DOMAIN got : \A e : e = got[i] => IsFor(t, e)
                   /\ Ascending(got)
                   /\ \A i \in DOMAIN got : \A n \in since[t] + 1 .. got[i].n :
                        published[n].channel = user[t] => Has(got, n)
    <3>1. CASE t # s \/ cancelled[t]
      <4>1. stream'[t] = stream[t]
        BY <2>1, <3>1
      <4>2. QED
        BY <2>1, <4>1 DEF EventsInv, StreamsHaveNoGap
    <3>2. CASE t = s /\ ~ cancelled[s]
      <4>1. stream'[s] = Append(stream[s], event)
        BY <2>1, <3>2
      <4>2. \A i \in DOMAIN stream'[s] : \A e : e = stream'[s][i] => IsFor(s, e)
        BY <2>2, <2>3, <2>5, <3>2
      <4>3. Ascending(stream'[s])
        BY <1>2, <2>3, <2>4, <3>2, <4>1, AddedAscending
      <4>4. ASSUME NEW n \in since[s] + 1 .. event.n, published[n].channel = user[s]
            PROVE  Has(stream'[s], n)
        <5>1. n \in since[s] + 1 .. Len(published)
          <6>1. event.n \in since[s] + 1 .. Len(published) /\ since[s] \in Nat /\ Len(published) \in Nat
            BY <2>2 DEF IsFor, EventsInv, TypeOK
          <6>2. QED
            BY <4>4, <6>1
        <5>2. Has(stream[s], n) \/ Has(inbox[s], n)
          BY <2>2, <3>2, <4>4, <5>1 DEF Whole
        <5>3. Has(stream'[s], n) <=> Has(stream[s], n) \/ event.n = n
          BY <1>2, <4>1, AddedHas
        <5>4. ASSUME Has(inbox'[s], n) PROVE FALSE
          <6>1. PICK i \in DOMAIN inbox'[s] : inbox'[s][i].n = n
            BY <5>4 DEF Has
          <6>2. event.n < n
            BY <1>0, <1>1, <2>2, <6>1, TakenAscending
          <6>3. event.n \in Int /\ n \in Int /\ n <= event.n
            BY <1>2, <4>4 DEF Event
          <6>4. QED
            BY <6>2, <6>3
        <5>5. Has(inbox[s], n) => event.n = n
          BY <1>0, <1>1, <5>4, TakenHas
        <5>6. QED
          BY <5>2, <5>3, <5>5
      <4>5. \A i \in DOMAIN stream'[s] : \A n \in since[s] + 1 .. stream'[s][i].n :
                published[n].channel = user[s] => Has(stream'[s], n)
        <5>1. \A n : Has(stream[s], n) => Has(stream'[s], n)
          BY <1>2, <4>1, AddedHas
        <5>2. QED
          BY <2>3, <2>5, <3>2, <4>4, <5>1
      <4>6. QED
        BY <3>2, <4>2, <4>3, <4>5
    <3>3. QED
      BY <3>1, <3>2
  <2>9. StreamsHaveNoGap'
    <3> SUFFICES ASSUME NEW t \in Call
                 PROVE  LET got == stream'[t]
                        IN  /\ \A i \in DOMAIN got : \A e : e = got[i] => IsFor(t, e)'
                            /\ Ascending(got)
                            /\ \A i \in DOMAIN got : \A n \in since'[t] + 1 .. got[i].n :
                                 published'[n].channel = user'[t] => Has(got, n)
      BY DEF StreamsHaveNoGap, IsFor, Ascending, Has
    <3>1. \A e : IsFor(t, e) => IsFor(t, e)'
      BY <1>1 DEF IsFor
    <3>2. QED
      BY <1>1, <2>8, <3>1
  <2>10. QED
    BY <1>4, <1>5, <1>6, <1>7, <2>7, <2>9 DEF EventsInv
<1>10. QED
  BY <1>8, <1>9

LEMMA EventsKept == EventsInv /\ [Next]_vars => EventsInv'
<1> SUFFICES ASSUME EventsInv, [Next]_vars PROVE EventsInv'
  OBVIOUS
<1>1. CASE UNCHANGED vars
  <2>1. TypeOK' /\ Numbered' /\ Quiet' /\ Inboxes'
    BY <1>1 DEF vars, EventsInv, TypeOK, Numbered, Quiet, Inboxes, IsFor, Ascending
  <2>2. Continued'
    BY <1>1 DEF vars, EventsInv, Continued, Newer, Whole, Has
  <2>3. StreamsHaveNoGap'
    BY <1>1 DEF vars, EventsInv, StreamsHaveNoGap, IsFor, Ascending, Has
  <2>4. QED
    BY <2>1, <2>2, <2>3 DEF EventsInv
<1>2. CASE Next
  BY <1>2, SubscribeKeeps, ConnectKeeps, ForwardKeeps, LeavingKeeps, PublishKeeps, RestartKeeps
  DEF Next, StreamStep
<1>3. QED
  BY <1>1, <1>2

\* Whoever it was meant for, what a client receives was published.
Received == \A s \in Call : \A i \in DOMAIN stream[s] : stream[s][i].n \in 1 .. Len(published)

LEMMA ReceivedKept ==
    ASSUME EventsInv, Received, [Next]_vars
    PROVE  Received'
<1>1. Len(published) \in Nat /\ stream \in [Call -> Seq(Event)]
  BY DEF EventsInv, TypeOK
<1>2. CASE stream' = stream /\ published' = published
  BY <1>2 DEF Received
<1>3. ASSUME NEW u \in User, Publish(u)
      PROVE  Received'
  <2>1. stream' = stream /\ \E event : published' = Append(published, event)
    BY <1>3 DEF Publish
  <2>2. Len(published') = Len(published) + 1
    BY <2>1 DEF EventsInv, TypeOK
  <2> QED BY <1>1, <2>1, <2>2 DEF Received
<1>4. ASSUME NEW s \in Call, Forward(s)
      PROVE  Received'
  <2>1. PICK event : event = Head(inbox[s])
    OBVIOUS
  <2>2. inbox[s] \in Seq(Event) /\ inbox[s] # <<>> /\ published' = published
    BY <1>4 DEF Forward, EventsInv, TypeOK
  <2>3. event \in Event /\ 1 \in DOMAIN inbox[s] /\ inbox[s][1] = event
    BY <2>1, <2>2, EventTaken
  <2>4. event.n \in 1 .. Len(published)
    <3>1. event.n \in since[s] + 1 .. Len(published) /\ since[s] \in Nat
      BY <2>3 DEF EventsInv, Inboxes, IsFor, TypeOK
    <3> QED BY <1>1, <3>1
  <2>5. \/ stream' = stream
        \/ \E t \in Call : stream' = [stream EXCEPT ![t] = Append(@, event)]
    BY <1>4, <2>1 DEF Forward, Write, WriteStray
  <2>6. ASSUME NEW t \in Call, stream' = [stream EXCEPT ![t] = Append(@, event)],
               NEW r \in Call, NEW i \in DOMAIN stream'[r]
        PROVE  stream'[r][i].n \in 1 .. Len(published)
    <3>1. CASE r # t
      BY <1>1, <2>6, <3>1 DEF Received
    <3>2. CASE r = t
      <4>1. stream'[t] = Append(stream[t], event) /\ stream[t] \in Seq(Event)
        BY <1>1, <2>6
      <4>2. (i \in DOMAIN stream[t] /\ stream'[t][i] = stream[t][i]) \/ stream'[t][i] = event
        BY <2>3, <2>6, <3>2, <4>1, EventAdded
      <4> QED BY <2>4, <3>2, <4>2 DEF Received
    <3> QED BY <3>1, <3>2
  <2> QED BY <2>2, <2>5, <2>6 DEF Received
<1>5. ASSUME NEW s \in Call, NEW u \in User,
             SubscribeEvents(s, u)
      PROVE  stream' = stream /\ published' = published
  BY <1>5 DEF SubscribeEvents
<1>6. UNCHANGED vars \/ Restart => stream' = stream /\ published' = published
  BY DEF vars, Restart
<1>7. ASSUME NEW s \in Call, Connect(s) \/ Disconnect(s) \/ Cancel(s) \/ Return(s)
      PROVE  stream' = stream /\ published' = published
  BY <1>7 DEF Connect, Disconnect, Cancel, Return
<1> QED BY <1>2, <1>3, <1>4, <1>5, <1>6, <1>7 DEF Next, StreamStep

LEMMA ReceivedHolds == Spec => []Received
<1>1. Init => Received
  BY DEF Init, Received
<1> QED BY <1>1, EventsInit, EventsKept, ReceivedKept, PTL DEF Spec

-----------------------------------------------------------------------------
\* The state of SubscribeEvents and of its threads keeps its type.
THEOREM EventsTypeCorrect == Spec => []TypeOK
<1>1. EventsInv => TypeOK
  BY DEF EventsInv
<1>2. QED
  BY <1>1, EventsInit, EventsKept, PTL DEF Spec

\* What the client of an event stream has received is a piece without a gap of
\* what was published for its user, unless a write went through a dead reference.
THEOREM StreamsStayWhole == Spec => []StreamsHaveNoGap
<1>1. EventsInv => StreamsHaveNoGap
  BY DEF EventsInv
<1>2. QED
  BY <1>1, EventsInit, EventsKept, PTL DEF Spec
=============================================================================

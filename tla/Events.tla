------------------------------- MODULE Events -------------------------------
(***************************************************************************)
(* The event stream of messenger_server: EventService::SubscribeEvents,    *)
(* and RedisClient::subscribe, which runs its loop on a detached thread.   *)
(* Nothing ever ends that thread but its Redis connection, and the         *)
(* callback it runs holds a reference to a parameter of the handler that   *)
(* started it.  Once that handler has returned, a write goes through a     *)
(* dead reference: it may do nothing, end the process, or reach the writer *)
(* of a later call whose frame took the same place on the stack.           *)
(***************************************************************************)
EXTENDS Integers, Sequences, SequencesExt

CONSTANTS Call,        \* calls of SubscribeEvents
          User,        \* usernames; user u has the Redis channel "events:u"
          MaxPublish   \* bound: messages published

ASSUME EventsAssumption == MaxPublish \in Nat /\ User # {}

VARIABLES up,         \* the server process runs
          handler,    \* handler[s]: "idle", "waiting" or "returned"
          user,       \* user[s]: request->username() of call s
          cancelled,  \* cancelled[s]: the client of call s is gone
          thread,     \* thread[s]: "none", "starting", "subscribed" or "ended"
          inbox,      \* inbox[s]: what Redis pushed to thread s, not yet read
          stream,     \* stream[s]: what the client of call s received
          published,  \* what Redis was given to publish, oldest first
          since,      \* since[s]: how much of it was older than the SUBSCRIBE of s
          stray       \* a write went through the reference of a returned handler

vars == <<up, handler, user, cancelled, thread, inbox, stream, published, since, stray>>

-----------------------------------------------------------------------------
\* Mutated: the handler waits without having subscribed.
SubscribeForgotten(s, u) ==
    /\ handler[s] = "idle"
    /\ handler' = [handler EXCEPT ![s] = "waiting"]
    /\ user' = [user EXCEPT ![s] = u]
    /\ UNCHANGED <<up, cancelled, thread, inbox, stream, published, since, stray>>

\* A client calls SubscribeEvents: the thread is detached, the handler waits.
SubscribeEvents(s, u) ==
    /\ handler[s] = "idle"
    /\ handler' = [handler EXCEPT ![s] = "waiting"]
    /\ user' = [user EXCEPT ![s] = u]
    /\ thread' = [thread EXCEPT ![s] = "starting"]
    /\ UNCHANGED <<up, cancelled, inbox, stream, published, since, stray>>

\* The thread connects and subscribes, or gives up without telling anyone.
Connect(s) ==
    /\ thread[s] = "starting"
    /\ \/ /\ thread' = [thread EXCEPT ![s] = "subscribed"]
          /\ since' = [since EXCEPT ![s] = Len(published)]
       \/ /\ thread' = [thread EXCEPT ![s] = "ended"]
          /\ UNCHANGED since
    /\ UNCHANGED <<up, handler, user, cancelled, inbox, stream, published, stray>>

\* redisGetReply fails: the loop and the thread end.
Disconnect(s) ==
    /\ thread[s] = "subscribed"
    /\ thread' = [thread EXCEPT ![s] = "ended"]
    /\ UNCHANGED <<up, handler, user, cancelled, inbox, stream, published, since, stray>>

\* ChatService::SendMessage for sender u: Redis pushes to whoever is subscribed.
Publish(u) ==
    LET event == [channel |-> u, n |-> Len(published) + 1]
    IN  /\ Len(published) < MaxPublish
        /\ published' = Append(published, event)
        /\ inbox' = [s \in Call |-> IF thread[s] = "subscribed" /\ user[s] = u
                                    THEN Append(inbox[s], event) ELSE inbox[s]]
        /\ UNCHANGED <<up, handler, user, cancelled, thread, stream, since, stray>>

\* writer->Write(ev) while the handler waits; the result is ignored.
Write(s, event) ==
    /\ stream' = IF cancelled[s] THEN stream ELSE [stream EXCEPT ![s] = Append(@, event)]
    /\ UNCHANGED <<up, stray>>

\* The same through the reference to the parameter of a handler that returned.
WriteStray(s, event) ==
    /\ stray' = TRUE
    /\ \/ UNCHANGED <<up, stream>>
       \/ up' = FALSE /\ UNCHANGED stream
       \/ /\ \E t \in Call : /\ handler[t] = "waiting"
                             /\ stream' = [stream EXCEPT ![t] = Append(@, event)]
          /\ UNCHANGED up

\* Mutated: the callback gets the newest reply.
ForwardNewest(s) ==
    /\ thread[s] = "subscribed"
    /\ inbox[s] # <<>>
    /\ inbox' = [inbox EXCEPT ![s] = Front(@)]
    /\ IF handler[s] = "waiting" THEN Write(s, Last(inbox[s])) ELSE WriteStray(s, Last(inbox[s]))
    /\ UNCHANGED <<handler, user, cancelled, thread, published, since>>

\* Mutated: the loop reads one reply.
ForwardOnce(s) ==
    /\ thread[s] = "subscribed"
    /\ inbox[s] # <<>>
    /\ stream[s] = <<>>
    /\ inbox' = [inbox EXCEPT ![s] = Tail(@)]
    /\ IF handler[s] = "waiting" THEN Write(s, Head(inbox[s])) ELSE WriteStray(s, Head(inbox[s]))
    /\ UNCHANGED <<handler, user, cancelled, thread, published, since>>

\* One turn of the loop: the callback runs for the oldest reply not yet read.
Forward(s) ==
    /\ thread[s] = "subscribed"
    /\ inbox[s] # <<>>
    /\ inbox' = [inbox EXCEPT ![s] = Tail(@)]
    /\ IF handler[s] = "waiting" THEN Write(s, Head(inbox[s])) ELSE WriteStray(s, Head(inbox[s]))
    /\ UNCHANGED <<handler, user, cancelled, thread, published, since>>

\* The client goes away, or cancels the call.
Cancel(s) ==
    /\ handler[s] = "waiting"
    /\ ~ cancelled[s]
    /\ cancelled' = [cancelled EXCEPT ![s] = TRUE]
    /\ UNCHANGED <<up, handler, user, thread, inbox, stream, published, since, stray>>

\* Within 200 ms the handler sees IsCancelled() and returns.
Return(s) ==
    /\ handler[s] = "waiting"
    /\ cancelled[s]
    /\ handler' = [handler EXCEPT ![s] = "returned"]
    /\ UNCHANGED <<up, user, cancelled, thread, inbox, stream, published, since, stray>>

\* The server is started anew: the calls and threads of the old process are gone,
\* and what Redis had pushed to their connections is lost.
Restart ==
    /\ up' = TRUE
    /\ handler' = [s \in Call |-> IF handler[s] = "idle" THEN "idle" ELSE "returned"]
    /\ thread' = [s \in Call |-> IF thread[s] = "none" THEN "none" ELSE "ended"]
    /\ inbox' = [s \in Call |-> <<>>]
    /\ UNCHANGED <<user, cancelled, stream, published, since, stray>>

-----------------------------------------------------------------------------
Init == /\ up = TRUE
        /\ handler = [s \in Call |-> "idle"]
        /\ user = [s \in Call |-> CHOOSE u \in User : TRUE]
        /\ cancelled = [s \in Call |-> FALSE]
        /\ thread = [s \in Call |-> "none"]
        /\ inbox = [s \in Call |-> <<>>]
        /\ stream = [s \in Call |-> <<>>]
        /\ published = <<>>
        /\ since = [s \in Call |-> 0]
        /\ stray = FALSE

\* A step of a client, a thread or a handler of SubscribeEvents.
StreamStep == \/ \E s \in Call, u \in User : SubscribeEvents(s, u)
              \/ \E s \in Call : Connect(s) \/ Disconnect(s) \/ Forward(s) \/ Cancel(s) \/ Return(s)

Next == \/ up /\ StreamStep
        \/ up /\ \E u \in User : Publish(u)
        \/ Restart

Spec == Init /\ [][Next]_vars

\* A thread that can run is run; clients, senders and Redis do as they like.
FairSpec == Spec /\ \A s \in Call : WF_vars(up /\ Forward(s))

-----------------------------------------------------------------------------
(***************************************************************************)
(* Properties.                                                             *)
(***************************************************************************)

Event == [channel : User, n : 1 .. MaxPublish]

\* The types, and that a handler has a thread as soon as it has started.
TypeOK == /\ up \in BOOLEAN /\ stray \in BOOLEAN
          /\ handler \in [Call -> {"idle", "waiting", "returned"}]
          /\ user \in [Call -> User]
          /\ cancelled \in [Call -> BOOLEAN]
          /\ thread \in [Call -> {"none", "starting", "subscribed", "ended"}]
          /\ inbox \in [Call -> Seq(Event)] /\ stream \in [Call -> Seq(Event)]
          /\ published \in Seq(Event)
          /\ since \in [Call -> 0 .. MaxPublish]
          /\ \A s \in Call : handler[s] = "idle" <=> thread[s] = "none"

\* An event of the channel of s since its SUBSCRIBE.
IsFor(s, event) == /\ event.channel = user[s]
                   /\ event.n \in since[s] + 1 .. Len(published)
                   /\ published[event.n] = event

Ascending(events) == \A i, j \in DOMAIN events : i < j => events[i].n < events[j].n

Has(events, n) == \E i \in DOMAIN events : events[i].n = n

\* What the client of an event stream has received is what was published for
\* its user from the SUBSCRIBE on, in that order, up to some event: nothing is
\* skipped, repeated or taken from another user (as long as no write went
\* through a dead reference).
StreamsHaveNoGap ==
    ~ stray => \A s \in Call :
        LET got == stream[s]
        IN  /\ \A i \in DOMAIN got : IsFor(s, got[i])
            /\ Ascending(got)
            /\ \A i \in DOMAIN got : \A n \in since[s] + 1 .. got[i].n :
                  published[n].channel = user[s] => Has(got, n)

\* The events of the channel of s since its SUBSCRIBE.
EventsFor(s) == SelectSeq(SubSeq(published, since[s] + 1, Len(published)),
                          LAMBDA event : event.channel = user[s])

\* An event published while s is subscribed reaches the client of s, unless the
\* client, the Redis connection or the process goes away first.
EventuallyForwarded ==
    \A s \in Call : \A k \in 1 .. MaxPublish :
        (thread[s] = "subscribed" /\ Len(EventsFor(s)) >= k)
            ~> (Len(stream[s]) >= k \/ cancelled[s] \/ thread[s] = "ended" \/ ~ up)

\* "attempt to write; if fails (client gone) we just stop"
\* (event_service.cpp:18): no write is made for a client that is gone once its
\* handler has noticed and returned.
StopsWhenClientIsGone == ~ stray
=============================================================================

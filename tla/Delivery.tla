------------------------------- MODULE Delivery -------------------------------
(***************************************************************************)
(* messenger_server as main() puts it together: the unary handlers         *)
(* (Server) and the event streams (Events) in one process.  The two meet   *)
(* in Redis: what a handler of SendMessage publishes is pushed to the      *)
(* subscribed threads.  They also end together, when the process does.     *)
(***************************************************************************)
EXTENDS Server

CONSTANTS Stream,   \* calls of SubscribeEvents
          User      \* usernames

ASSUME UserAssumption == User # {}

\* Senders are usernames.
ASSUME SenderAssumption == \A req \in Request : req.rpc = "SendMessage" => req.sender \in User

VARIABLES up, handler, user, cancelled, thread, inbox, stream, since, stray    \* of Events

streamVars == <<up, handler, user, cancelled, thread, inbox, stream, since, stray>>

\* The messages of Redis, as Events has them.
Published == [n \in 1 .. Len(events) |-> [channel |-> events[n].channel, n |-> n]]

Streams == INSTANCE Events WITH Call <- Stream, MaxPublish <- MaxCalls, published <- Published

-----------------------------------------------------------------------------
\* A step of a unary handler; what it publishes goes to the streams of its channel.
HandlerStep(h) ==
    /\ up
    /\ Begin(h) \/ Step(h)
    /\ IF events' = events THEN UNCHANGED streamVars ELSE Streams!Publish(Asked(h).sender)

\* A step of a client, a thread or a handler of SubscribeEvents.
StreamStep == UNCHANGED vars /\ up /\ Streams!StreamStep

DatabaseFails == LoseConnection /\ UNCHANGED streamVars

\* The process ends, by itself or not, and is started anew.
RestartProcess == Restart /\ Streams!Restart

DeliveryInit == Init /\ Streams!Init

DeliveryNext == \/ \E h \in Handler : HandlerStep(h)
                \/ StreamStep
                \/ DatabaseFails
                \/ RestartProcess

deliveryVars == <<vars, streamVars>>

DeliverySpec == DeliveryInit /\ [][DeliveryNext]_deliveryVars

-----------------------------------------------------------------------------
(***************************************************************************)
(* Properties.                                                             *)
(***************************************************************************)

\* The message that an event on a stream tells of.
Told(event) == events[event.n].message_id

\* A client is told only of messages that every reader of the database finds,
\* through restarts and lost connections, and as long as no write went through
\* a dead reference only of those that its own user sent.
StreamsTellOfCommitted ==
    \A s \in Stream : \A i \in DOMAIN stream[s] :
        LET event == stream[s][i]
        IN  /\ event.n \in 1 .. Len(events)
            /\ MessageStored(Told(event))
            /\ ~ stray => asked[Told(event)].sender = user[s]

\* A client is told of a message once.
ToldOnce ==
    ~ stray => \A s \in Stream : \A i, j \in DOMAIN stream[s] :
        Told(stream[s][i]) = Told(stream[s][j]) => i = j

\* A client is not told first of a message whose SendMessage was only called
\* when that of the other had been answered (messages sent at the same time may
\* be told of in another order than the history has them).
ToldInOrder ==
    ~ stray => \A s \in Stream : \A i, j \in DOMAIN stream[s] : i < j =>
        \A a, b \in 1 .. Len(replies) :
            /\ replies[a].id = Told(stream[s][i])
            /\ replies[b].id = Told(stream[s][j])
            => b > replies[a].after

\* Of two messages in the database, the newer one.
Newer(new, old) == \E i, j \in 1 .. Len(tables.messages) :
    i < j /\ tables.messages[i].id = old /\ tables.messages[j].id = new

\* Message id is in the answer, or newer ones have filled it.
Shown(rows, id, limit) ==
    \/ \E k \in DOMAIN rows : rows[k].id = id
    \/ Len(rows) = limit /\ \A k \in DOMAIN rows : Newer(rows[k].id, id)

\* Whoever asks for the newest messages of a chat is shown every message of it
\* that any client was told of, but for those that newer ones leave no room for:
\* the streams are never ahead of the history.
HeardIsInHistory ==
    [][\A k \in Len(replies) + 1 .. Len(replies') :
          LET reply == replies'[k]
              req == asked[reply.id]
          IN  req.rpc = "GetHistory" /\ reply.status = "OK" /\ req.offset = 0 =>
                \A s \in Stream : \A i \in DOMAIN stream[s] :
                    LET id == Told(stream[s][i])
                    IN  asked[id].chat_id = req.chat_id => Shown(reply.rows, id, req.limit)
      ]_deliveryVars
=============================================================================

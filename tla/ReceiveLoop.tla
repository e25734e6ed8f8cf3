----------------------------- MODULE ReceiveLoop -----------------------------
(***************************************************************************)
(* NetworkClient::StartReceiveLoop and StopReceiveLoop                     *)
(* (client/core/src/NetworkClient.cpp), called from one application thread *)
(* through ChatManager and EventManager, which share the one receive loop  *)
(* of their client.  Each start makes a new thread, numbered here in the   *)
(* order they are made, with a stream of its own.                          *)
(*                                                                         *)
(* The other end of the stream is external: it sends events and ends the   *)
(* stream, with status OK or with an error, whenever it likes.  Finish()   *)
(* returns at once after an error, and otherwise only when everything the  *)
(* server sent has been read.                                              *)
(***************************************************************************)
EXTENDS Integers, Sequences

CONSTANTS Chat,       \* what a subscription can be for
          Nobody,     \* no subscription
          MaxLoops,   \* bound: receive loops started
          MaxEvents   \* bound: events the server sends on one stream

ASSUME LoopAssumption == Nobody \notin Chat /\ MaxLoops \in Nat /\ MaxEvents \in Nat

Loop == 1 .. MaxLoops

VARIABLES main,      \* the application thread: "idle" or "joining"
          wanted,    \* what StartReceiveLoop goes on to subscribe to after the join
          stop,      \* stop_
          recv,      \* recv_thread_: the joinable thread, or 0
          started,   \* threads started so far
          chat,      \* chat[t]: the chat_id thread t captured
          pc,        \* pc[t]: where thread t is
          sent,      \* sent[t]: the events the server sent on the stream of t
          taken,     \* taken[t]: how many of them Read has returned
          closed,    \* closed[t]: "no", "ok" or "error": how the server ended it
          handled,   \* calls of on_message, oldest first
          atStop     \* how many there were when stop_ was last set

vars == <<main, wanted, stop, recv, started, chat, pc, sent, taken, closed, handled, atStop>>

caller == <<main, wanted, stop, recv, started, chat, atStop>>

server == <<sent, closed>>

-----------------------------------------------------------------------------
(***************************************************************************)
(* The application thread.                                                 *)
(***************************************************************************)

\* Mutated: stop_ keeps the value the join left.
LaunchStopped(c) == /\ UNCHANGED stop
                    /\ started' = started + 1
                    /\ recv' = started + 1
                    /\ chat' = [chat EXCEPT ![started + 1] = c]
                    /\ pc' = [pc EXCEPT ![started + 1] = "opening"]
                    /\ main' = "idle"
                    /\ wanted' = Nobody

\* stop_.store(false); recv_thread_ = std::thread(...).
Launch(c) == /\ stop' = FALSE
             /\ started' = started + 1
             /\ recv' = started + 1
             /\ chat' = [chat EXCEPT ![started + 1] = c]
             /\ pc' = [pc EXCEPT ![started + 1] = "opening"]
             /\ main' = "idle"
             /\ wanted' = Nobody

\* StopReceiveLoop with a joinable thread: stop_.store(true), then join().
BeginJoin(c) == /\ main' = "joining"
                /\ wanted' = c
                /\ stop' = TRUE
                /\ atStop' = Len(handled)
                /\ UNCHANGED <<recv, started, chat, pc>>

\* Subscribe, of either manager: StopReceiveLoop() comes first.
StartReceiveLoop(c) ==
    /\ main = "idle"
    /\ started < MaxLoops
    /\ IF recv = 0 THEN Launch(c) /\ UNCHANGED atStop ELSE BeginJoin(c)
    /\ UNCHANGED <<sent, taken, closed, handled>>

\* Unsubscribe, of either manager; without a joinable thread it does nothing.
StopReceiveLoop ==
    /\ main = "idle"
    /\ recv # 0
    /\ BeginJoin(Nobody)
    /\ UNCHANGED <<sent, taken, closed, handled>>

\* Mutated: the thread is detached instead of joined.
DetachedJoin ==
    /\ main = "joining"
    /\ IF wanted # Nobody
       THEN Launch(wanted)
       ELSE /\ recv' = 0
            /\ main' = "idle"
            /\ UNCHANGED <<wanted, stop, started, chat, pc>>
    /\ UNCHANGED <<sent, taken, closed, handled, atStop>>

\* join() returns.
Join ==
    /\ main = "joining"
    /\ pc[recv] = "done"
    /\ IF wanted # Nobody
       THEN Launch(wanted)
       ELSE /\ recv' = 0
            /\ main' = "idle"
            /\ UNCHANGED <<wanted, stop, started, chat, pc>>
    /\ UNCHANGED <<sent, taken, closed, handled, atStop>>

-----------------------------------------------------------------------------
(***************************************************************************)
(* A receive thread.                                                       *)
(***************************************************************************)

Goto(t, label) == pc' = [pc EXCEPT ![t] = label]

\* The stream is opened and the request for the chat written.
Open(t) == /\ pc[t] = "opening"
           /\ Goto(t, "testing")
           /\ UNCHANGED <<caller, server, taken, handled>>

\* Mutated: the loop does not look at stop_.
TestNothing(t) == /\ pc[t] = "testing"
                  /\ Goto(t, "reading")
                  /\ UNCHANGED <<caller, server, taken, handled>>

\* while (!stop_.load() && ...
Test(t) == /\ pc[t] = "testing"
           /\ Goto(t, IF stop THEN "finishing" ELSE "reading")
           /\ UNCHANGED <<caller, server, taken, handled>>

Unread(t) == taken[t] < Len(sent[t])

\* Mutated: the result of Read() is ignored.
ReadIgnored(t) ==
    /\ pc[t] = "reading"
    /\ \/ /\ Unread(t)
          /\ taken' = [taken EXCEPT ![t] = @ + 1]
          /\ Goto(t, IF sent[t][taken[t] + 1].has_message THEN "handling" ELSE "testing")
       \/ /\ ~ Unread(t)
          /\ closed[t] # "no"
          /\ Goto(t, "testing")
          /\ UNCHANGED taken
    /\ UNCHANGED <<caller, server, handled>>

\* Mutated: stop_ is tested between Read() and the use of what it returned.
ReadThenTest(t) ==
    /\ pc[t] = "reading"
    /\ \/ /\ Unread(t)
          /\ taken' = [taken EXCEPT ![t] = @ + 1]
          /\ Goto(t, IF stop THEN "finishing"
                     ELSE IF sent[t][taken[t] + 1].has_message THEN "handling" ELSE "testing")
       \/ /\ ~ Unread(t)
          /\ closed[t] # "no"
          /\ Goto(t, "finishing")
          /\ UNCHANGED taken
    /\ UNCHANGED <<caller, server, handled>>

\* ... && stream->Read(&ev)): blocks until there is an event or the stream ended.
Read(t) ==
    /\ pc[t] = "reading"
    /\ \/ /\ Unread(t)
          /\ taken' = [taken EXCEPT ![t] = @ + 1]
          /\ Goto(t, IF sent[t][taken[t] + 1].has_message THEN "handling" ELSE "testing")
       \/ /\ ~ Unread(t)
          /\ closed[t] # "no"
          /\ Goto(t, "finishing")
          /\ UNCHANGED taken
    /\ UNCHANGED <<caller, server, handled>>

\* on_message(im) for the event read last.
Handle(t) ==
    /\ pc[t] = "handling"
    /\ handled' = Append(handled, [loop |-> t, n |-> taken[t]])
    /\ Goto(t, "testing")
    /\ UNCHANGED <<caller, server, taken>>

\* WritesDone() and Finish().
Finish(t) ==
    /\ pc[t] = "finishing"
    /\ closed[t] = "error" \/ (closed[t] = "ok" /\ ~ Unread(t))
    /\ Goto(t, "done")
    /\ UNCHANGED <<caller, server, taken, handled>>

Thread(t) == Open(t) \/ Test(t) \/ Read(t) \/ Handle(t) \/ Finish(t)

-----------------------------------------------------------------------------
(***************************************************************************)
(* The other end of the stream.                                            *)
(***************************************************************************)

Streaming(t) == pc[t] \notin {"none", "opening", "done"} /\ closed[t] = "no"

ServerSends(t) ==
    /\ Streaming(t)
    /\ Len(sent[t]) < MaxEvents
    /\ \E has \in BOOLEAN : sent' = [sent EXCEPT ![t] = Append(@, [has_message |-> has])]
    /\ UNCHANGED <<caller, pc, taken, closed, handled>>

ServerEnds(t) ==
    /\ Streaming(t)
    /\ \E how \in {"ok", "error"} : closed' = [closed EXCEPT ![t] = how]
    /\ UNCHANGED <<caller, pc, taken, sent, handled>>

-----------------------------------------------------------------------------
Init == /\ main = "idle" /\ wanted = Nobody
        /\ stop = TRUE
        /\ recv = 0 /\ started = 0
        /\ chat = [t \in Loop |-> Nobody]
        /\ pc = [t \in Loop |-> "none"]
        /\ sent = [t \in Loop |-> <<>>]
        /\ taken = [t \in Loop |-> 0]
        /\ closed = [t \in Loop |-> "no"]
        /\ handled = <<>> /\ atStop = 0

Next == \/ \E c \in Chat : StartReceiveLoop(c)
        \/ StopReceiveLoop
        \/ Join
        \/ \E t \in Loop : Thread(t) \/ ServerSends(t) \/ ServerEnds(t)

-----------------------------------------------------------------------------
(***************************************************************************)
(* Properties.                                                             *)
(***************************************************************************)

\* No loop is held, or the one held is being joined.
StopMeans == stop = (recv = 0 \/ main = "joining")

LoopTypes == /\ main \in {"idle", "joining"} /\ wanted \in Chat \cup {Nobody}
             /\ recv \in 0 .. started /\ started \in 0 .. MaxLoops
             /\ chat \in [Loop -> Chat \cup {Nobody}]
             /\ pc \in [Loop -> {"none", "opening", "testing", "reading", "handling",
                                 "finishing", "done"}]
             /\ sent \in [Loop -> Seq([has_message : BOOLEAN])]
             /\ taken \in [Loop -> 0 .. MaxEvents]
             /\ closed \in [Loop -> {"no", "ok", "error"}]
             /\ handled \in Seq([loop : Loop, n : 1 .. MaxEvents])
             /\ atStop \in 0 .. Len(handled)

\* The types, and what stop_ says of the loop that is held.
TypeOK == LoopTypes /\ StopMeans

\* The only thread that runs is the one recv_thread_ holds: two subscriptions
\* never call their handlers at the same time, and after Unsubscribe has
\* returned no handler is called.
OnlyTheHeldLoopRuns ==
    \A t \in Loop : pc[t] \notin {"none", "done"} => t = recv

IsHandled(t, n) == \E i \in DOMAIN handled : handled[i] = [loop |-> t, n |-> n]

\* Every message Read() took off a stream is handed to that subscription's
\* handler, once and in order; none is dropped when the loop is told to stop.
EveryReadMessageIsHandled ==
    /\ \A t \in Loop, n \in 1 .. MaxEvents :
          IsHandled(t, n) <=> /\ n <= taken[t]
                              /\ sent[t][n].has_message
                              /\ ~ (pc[t] = "handling" /\ n = taken[t])
    /\ \A i, j \in DOMAIN handled :
          i < j /\ handled[i].loop = handled[j].loop => handled[i].n < handled[j].n

\* Once stop_ is set the handler is called at most once more, however many
\* messages are waiting in the stream.
AtMostOneAfterStop == main = "joining" => Len(handled) <= atStop + 1
=============================================================================

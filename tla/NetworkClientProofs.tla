------------------------- MODULE NetworkClientProofs -------------------------
(***************************************************************************)
(* Proofs about NetworkClient, for any number of subscriptions, events and *)
(* calls.                                                                  *)
(***************************************************************************)
EXTENDS NetworkClient, TLAPS

(***************************************************************************)
(* The receive loop.  What AtMostOneAfterStop needs is where the held      *)
(* thread can be: from the moment stop_ is set it calls the handler only   *)
(* for a message it was already on its way to.                             *)
(***************************************************************************)

Reads == \A t \in Loop : /\ taken[t] <= Len(sent[t])
                         /\ Len(sent[t]) <= MaxEvents
                         /\ pc[t] = "handling" => taken[t] > 0
                         /\ t > started => pc[t] = "none"

Joins == main = "joining" =>
            /\ recv # 0
            /\ wanted # Nobody => started < MaxLoops
            /\ Len(handled) <= atStop + 1
            /\ pc[recv] \in {"opening", "reading", "handling"} => Len(handled) = atStop

LoopInv == LoopTypes /\ StopMeans /\ Reads /\ OnlyTheHeldLoopRuns /\ Joins

LEMMA LoopInit == Init => LoopInv
<1> SUFFICES ASSUME Init PROVE LoopInv
  OBVIOUS
<1>1. LoopTypes
  BY LoopAssumption DEF Init, LoopTypes
<1>2. Reads
  BY LoopAssumption DEF Init, Reads
<1>3. StopMeans /\ OnlyTheHeldLoopRuns /\ Joins
  BY DEF Init, StopMeans, OnlyTheHeldLoopRuns, Joins
<1>4. QED
  BY <1>1, <1>2, <1>3 DEF LoopInv

\* No thread can be in the way when a new one is launched.
LEMMA LaunchKeeps ==
    ASSUME LoopInv, NEW c \in Chat, Launch(c), started < MaxLoops,
           \A t \in Loop : pc[t] \in {"none", "done"},
           UNCHANGED <<sent, taken, closed, handled, atStop>>
    PROVE  LoopInv'
<1>1. started + 1 \in Loop /\ started \in Nat
  BY LoopAssumption DEF LoopInv, LoopTypes, Loop
<1>2. LoopTypes'
  BY <1>1, LoopAssumption DEF LoopInv, LoopTypes, Launch
<1>3. StopMeans'
  <2>1. started + 1 # 0
    BY <1>1
  <2>2. recv' # 0 /\ main' # "joining" /\ stop' = FALSE
    BY <2>1 DEF Launch
  <2>3. QED
    BY <2>2, Zenon DEF StopMeans
<1>4. Reads'
  <2> SUFFICES ASSUME NEW t \in Loop
               PROVE  /\ taken[t] <= Len(sent[t])
                      /\ Len(sent[t]) <= MaxEvents
                      /\ pc'[t] = "handling" => taken[t] > 0
                      /\ t > started + 1 => pc'[t] = "none"
    BY DEF Reads, Launch
  <2>1. pc'[t] = IF t = started + 1 THEN "opening" ELSE pc[t]
    BY <1>1 DEF LoopInv, LoopTypes, Launch
  <2>2. t \in Int
    BY DEF Loop
  <2>3. QED
    BY <1>1, <2>1, <2>2 DEF LoopInv, Reads
<1>5. OnlyTheHeldLoopRuns'
  BY <1>1 DEF LoopInv, LoopTypes, OnlyTheHeldLoopRuns, Launch
<1>6. Joins'
  BY DEF Joins, Launch
<1>7. QED
  BY <1>2, <1>3, <1>4, <1>5, <1>6 DEF LoopInv

LEMMA BeginJoinKeeps ==
    ASSUME LoopInv, NEW c \in Chat \cup {Nobody}, BeginJoin(c), recv # 0,
           c # Nobody => started < MaxLoops,
           UNCHANGED <<sent, taken, closed, handled>>
    PROVE  LoopInv'
<1>1. LoopTypes'
  BY DEF LoopInv, LoopTypes, BeginJoin
<1>2. StopMeans'
  BY DEF StopMeans, BeginJoin
<1>3. Reads' /\ OnlyTheHeldLoopRuns'
  BY DEF LoopInv, Reads, OnlyTheHeldLoopRuns, BeginJoin
<1>4. Joins'
  BY DEF LoopInv, LoopTypes, Joins, BeginJoin
<1>5. QED
  BY <1>1, <1>2, <1>3, <1>4 DEF LoopInv

LEMMA StartKeeps ==
    ASSUME LoopInv, NEW c \in Chat, StartReceiveLoop(c)
    PROVE  LoopInv'
<1>1. CASE recv = 0
  <2>1. \A t \in Loop : pc[t] \in {"none", "done"}
    BY <1>1 DEF LoopInv, OnlyTheHeldLoopRuns, Loop
  <2>2. QED
    BY <1>1, <2>1, LaunchKeeps DEF StartReceiveLoop
<1>2. CASE recv # 0
  BY <1>2, BeginJoinKeeps DEF StartReceiveLoop
<1>3. QED
  BY <1>1, <1>2

LEMMA StopKeeps == ASSUME LoopInv, StopReceiveLoop PROVE LoopInv'
BY BeginJoinKeeps DEF StopReceiveLoop

\* join() returns only when the one thread that ran is done.
LEMMA JoinKeeps == ASSUME LoopInv, Join PROVE LoopInv'
<1>1. \A t \in Loop : pc[t] \in {"none", "done"}
  BY DEF LoopInv, OnlyTheHeldLoopRuns, Join
<1>2. CASE wanted # Nobody
  <2>1. wanted \in Chat /\ started < MaxLoops
    BY <1>2 DEF LoopInv, LoopTypes, Joins, Join
  <2>2. QED
    BY <1>1, <1>2, <2>1, LaunchKeeps DEF Join
<1>3. CASE wanted = Nobody
  <2>1. LoopTypes'
    BY <1>3 DEF Join, LoopInv, LoopTypes
  <2>2. StopMeans'
    BY <1>3 DEF Join, LoopInv, StopMeans
  <2>3. Reads'
    BY <1>3 DEF Join, LoopInv, Reads
  <2>4. OnlyTheHeldLoopRuns' /\ Joins'
    BY <1>1, <1>3 DEF Join, OnlyTheHeldLoopRuns, Joins
  <2>5. QED
    BY <2>1, <2>2, <2>3, <2>4 DEF LoopInv
<1>4. QED
  BY <1>2, <1>3

\* What a step of thread t has in common with every other.
LEMMA GotoKeeps ==
    ASSUME LoopInv, NEW t \in Loop, pc[t] \notin {"none", "done"},
           NEW label \in {"testing", "reading", "handling", "finishing", "done"},
           Goto(t, label), UNCHANGED <<caller, server>>
    PROVE  /\ t = recv /\ t <= started
           /\ pc' \in [Loop -> {"none", "opening", "testing", "reading", "handling",
                                "finishing", "done"}]
           /\ \A u \in Loop : pc'[u] = IF u = t THEN label ELSE pc[u]
           /\ StopMeans' /\ OnlyTheHeldLoopRuns'
<1>1. t = recv
  BY DEF LoopInv, OnlyTheHeldLoopRuns
<1>2. t <= started
  BY DEF LoopInv, Reads, LoopTypes, Loop
<1>3. /\ pc' \in [Loop -> {"none", "opening", "testing", "reading", "handling",
                           "finishing", "done"}]
      /\ \A u \in Loop : pc'[u] = IF u = t THEN label ELSE pc[u]
  BY DEF LoopInv, LoopTypes, Goto
<1>4. StopMeans'
  BY DEF LoopInv, StopMeans, caller
<1>5. OnlyTheHeldLoopRuns'
  BY <1>1, <1>3 DEF LoopInv, OnlyTheHeldLoopRuns, caller
<1>6. QED
  BY <1>1, <1>2, <1>3, <1>4, <1>5

LEMMA OpenKeeps == ASSUME LoopInv, NEW t \in Loop, Open(t) PROVE LoopInv'
<1>1. /\ t = recv /\ t <= started
      /\ pc' \in [Loop -> {"none", "opening", "testing", "reading", "handling",
                           "finishing", "done"}]
      /\ \A u \in Loop : pc'[u] = IF u = t THEN "testing" ELSE pc[u]
      /\ StopMeans' /\ OnlyTheHeldLoopRuns'
  BY GotoKeeps DEF Open
<1>2. LoopTypes'
  BY <1>1 DEF LoopInv, LoopTypes, Open, caller, server
<1>3. Reads'
  BY <1>1 DEF LoopInv, Reads, LoopTypes, Loop, Open, caller, server
<1>4. Joins'
  BY <1>1 DEF LoopInv, Joins, Open, caller, server
<1>5. QED
  BY <1>1, <1>2, <1>3, <1>4 DEF LoopInv

LEMMA TestKeeps == ASSUME LoopInv, NEW t \in Loop, Test(t) PROVE LoopInv'
<1> DEFINE label == IF stop THEN "finishing" ELSE "reading"
<1>1. /\ t = recv /\ t <= started
      /\ pc' \in [Loop -> {"none", "opening", "testing", "reading", "handling",
                           "finishing", "done"}]
      /\ \A u \in Loop : pc'[u] = IF u = t THEN label ELSE pc[u]
      /\ StopMeans' /\ OnlyTheHeldLoopRuns'
  BY GotoKeeps DEF Test
<1>2. LoopTypes'
  BY <1>1 DEF LoopInv, LoopTypes, Test, caller, server
<1>3. Reads'
  BY <1>1 DEF LoopInv, Reads, LoopTypes, Loop, Test, caller, server
<1>4. Joins'
  <2>1. main = "joining" => stop = TRUE
    BY Zenon DEF LoopInv, StopMeans
  <2>2. main = "joining" => pc'[t] = "finishing"
    BY <1>1, <2>1
  <2>3. QED
    BY <1>1, <2>2 DEF LoopInv, Joins, Test, caller, server
<1>5. QED
  BY <1>1, <1>2, <1>3, <1>4 DEF LoopInv

LEMMA ReadKeeps == ASSUME LoopInv, NEW t \in Loop, Read(t) PROVE LoopInv'
<1>1. PICK label \in {"handling", "testing", "finishing"} :
          /\ Goto(t, label)
          /\ \/ Unread(t) /\ taken' = [taken EXCEPT ![t] = @ + 1]
             \/ label = "finishing" /\ UNCHANGED taken
  <2>1. CASE Unread(t) /\ taken' = [taken EXCEPT ![t] = @ + 1]
               /\ Goto(t, IF sent[t][taken[t] + 1].has_message THEN "handling" ELSE "testing")
    BY <2>1
  <2>2. CASE Goto(t, "finishing") /\ UNCHANGED taken
    BY <2>2
  <2>3. QED
    BY <2>1, <2>2 DEF Read
<1>2. /\ t = recv /\ t <= started
      /\ pc' \in [Loop -> {"none", "opening", "testing", "reading", "handling",
                           "finishing", "done"}]
      /\ \A u \in Loop : pc'[u] = IF u = t THEN label ELSE pc[u]
      /\ StopMeans' /\ OnlyTheHeldLoopRuns'
  BY <1>1, GotoKeeps DEF Read
<1>3. /\ taken' \in [Loop -> 0 .. MaxEvents]
      /\ taken'[t] <= Len(sent[t])
      /\ label = "handling" => taken'[t] > 0
      /\ \A u \in Loop \ {t} : taken'[u] = taken[u]
  <2>1. /\ taken[t] \in 0 .. MaxEvents /\ taken[t] <= Len(sent[t])
        /\ Len(sent[t]) <= MaxEvents /\ Len(sent[t]) \in Nat
    BY DEF LoopInv, LoopTypes, Reads
  <2>2. Unread(t) => taken[t] + 1 \in 0 .. MaxEvents /\ taken[t] + 1 <= Len(sent[t])
    BY <2>1, LoopAssumption DEF Unread
  <2>3. taken \in [Loop -> 0 .. MaxEvents]
    BY DEF LoopInv, LoopTypes
  <2>4. CASE Unread(t) /\ taken' = [taken EXCEPT ![t] = @ + 1]
    BY <2>1, <2>2, <2>3, <2>4
  <2>5. CASE label = "finishing" /\ UNCHANGED taken
    BY <2>1, <2>3, <2>5
  <2>6. QED
    BY <1>1, <2>4, <2>5
<1>4. LoopTypes'
  BY <1>2, <1>3 DEF LoopInv, LoopTypes, Read, caller, server
<1>5. Reads'
  BY <1>2, <1>3 DEF LoopInv, LoopTypes, Reads, Loop, Read, caller, server
<1>6. Joins'
  BY <1>2 DEF LoopInv, LoopTypes, Joins, Read, caller, server
<1>7. QED
  BY <1>2, <1>4, <1>5, <1>6 DEF LoopInv

LEMMA HandleKeeps == ASSUME LoopInv, NEW t \in Loop, Handle(t) PROVE LoopInv'
<1>1. /\ t = recv /\ t <= started
      /\ pc' \in [Loop -> {"none", "opening", "testing", "reading", "handling",
                           "finishing", "done"}]
      /\ \A u \in Loop : pc'[u] = IF u = t THEN "testing" ELSE pc[u]
      /\ StopMeans' /\ OnlyTheHeldLoopRuns'
  BY GotoKeeps DEF Handle
<1>2. /\ handled' \in Seq([loop : Loop, n : 1 .. MaxEvents])
      /\ Len(handled') = Len(handled) + 1
      /\ Len(handled) \in Nat
  <2>1. [loop |-> t, n |-> taken[t]] \in [loop : Loop, n : 1 .. MaxEvents]
    BY LoopAssumption DEF LoopInv, LoopTypes, Reads, Handle
  <2>2. QED
    BY <2>1 DEF LoopInv, LoopTypes, Handle
<1>3. LoopTypes'
  BY <1>1, <1>2 DEF LoopInv, LoopTypes, Handle, caller, server
<1>4. Reads'
  BY <1>1 DEF LoopInv, Reads, LoopTypes, Loop, Handle, caller, server
<1>5. Joins'
  BY <1>1, <1>2 DEF LoopInv, LoopTypes, Joins, Handle, caller, server
<1>6. QED
  BY <1>1, <1>3, <1>4, <1>5 DEF LoopInv

LEMMA FinishKeeps == ASSUME LoopInv, NEW t \in Loop, Finish(t) PROVE LoopInv'
<1>1. /\ t = recv /\ t <= started
      /\ pc' \in [Loop -> {"none", "opening", "testing", "reading", "handling",
                           "finishing", "done"}]
      /\ \A u \in Loop : pc'[u] = IF u = t THEN "done" ELSE pc[u]
      /\ StopMeans' /\ OnlyTheHeldLoopRuns'
  BY GotoKeeps DEF Finish
<1>2. LoopTypes'
  BY <1>1 DEF LoopInv, LoopTypes, Finish, caller, server
<1>3. Reads'
  BY <1>1 DEF LoopInv, Reads, LoopTypes, Loop, Finish, caller, server
<1>4. Joins'
  BY <1>1 DEF LoopInv, Joins, Finish, caller, server
<1>5. QED
  BY <1>1, <1>2, <1>3, <1>4 DEF LoopInv

LEMMA ServerKeeps ==
    ASSUME LoopInv, NEW t \in Loop, ServerSends(t) \/ ServerEnds(t)
    PROVE  LoopInv'
<1>1. StopMeans' /\ OnlyTheHeldLoopRuns' /\ Joins'
  BY DEF LoopInv, StopMeans, OnlyTheHeldLoopRuns, Joins, ServerSends, ServerEnds, caller
<1>2. CASE ServerSends(t)
  <2>1. PICK has \in BOOLEAN : sent' = [sent EXCEPT ![t] = Append(@, [has_message |-> has])]
    BY <1>2 DEF ServerSends
  <2>2. /\ sent' \in [Loop -> Seq([has_message : BOOLEAN])]
        /\ Len(sent'[t]) = Len(sent[t]) + 1 /\ Len(sent[t]) \in Nat
        /\ \A u \in Loop \ {t} : sent'[u] = sent[u]
    BY <2>1 DEF LoopInv, LoopTypes
  <2>3. LoopTypes'
    BY <1>2, <2>2 DEF LoopInv, LoopTypes, ServerSends, caller
  <2>4. Reads'
    BY <1>2, <2>2, LoopAssumption DEF LoopInv, LoopTypes, Reads, ServerSends, caller
  <2>5. QED
    BY <1>1, <2>3, <2>4 DEF LoopInv
<1>3. CASE ServerEnds(t)
  <2>1. LoopTypes'
    BY <1>3 DEF LoopInv, LoopTypes, ServerEnds, caller
  <2>2. Reads'
    BY <1>3 DEF LoopInv, Reads, ServerEnds, caller
  <2>3. QED
    BY <1>1, <2>1, <2>2 DEF LoopInv
<1>4. QED
  BY <1>2, <1>3

LEMMA LoopKeeps == LoopInv /\ Next => LoopInv'
<1> SUFFICES ASSUME LoopInv, Next PROVE LoopInv'
  OBVIOUS
<1>1. CASE \E c \in Chat : StartReceiveLoop(c)
  BY <1>1, StartKeeps
<1>2. CASE StopReceiveLoop
  BY <1>2, StopKeeps
<1>3. CASE Join
  BY <1>3, JoinKeeps
<1>4. CASE \E t \in Loop : Thread(t)
  BY <1>4, OpenKeeps, TestKeeps, ReadKeeps, HandleKeeps, FinishKeeps DEF Thread
<1>5. CASE \E t \in Loop : ServerSends(t) \/ ServerEnds(t)
  BY <1>5, ServerKeeps
<1>6. QED
  BY <1>1, <1>2, <1>3, <1>4, <1>5 DEF Next

-----------------------------------------------------------------------------
(***************************************************************************)
(* The client around the loop.  CallBack leaves stop_ set with a loop that *)
(* is neither gone nor joined, but nothing follows it.                     *)
(***************************************************************************)

ClientInv == /\ process \in {"running", "terminated", "destroyed", "undefined"}
             /\ LoopTypes /\ Reads /\ OnlyTheHeldLoopRuns /\ Joins
             /\ process # "terminated" => StopMeans

LEMMA ClientInvInit == ClientInit => ClientInv
BY LoopInit DEF ClientInit, ClientInv, LoopInv

LEMMA ClientInvNext == ClientInv /\ [ClientNext]_clientVars => ClientInv'
<1> SUFFICES ASSUME ClientInv, [ClientNext]_clientVars PROVE ClientInv'
  OBVIOUS
<1>1. CASE UNCHANGED clientVars
  BY <1>1 DEF ClientInv, clientVars, vars, LoopTypes, Reads, OnlyTheHeldLoopRuns, Joins, StopMeans
<1>2. CASE ClientNext
  <2>1. process # "terminated" /\ LoopInv
    BY <1>2 DEF ClientNext, ClientInv, LoopInv
  <2>2. CASE LoopStep
    <3>1. process' = process /\ Next
      BY <2>2 DEF LoopStep
    <3>2. LoopInv'
      BY <2>1, <3>1, LoopKeeps
    <3>3. QED
      BY <3>1, <3>2 DEF ClientInv, LoopInv
  <2>3. CASE \E a \in Async : Unary(a) \/ Outlive(a)
    <3>1. process' \in {process, "undefined"} /\ UNCHANGED vars
      BY <2>3 DEF Unary, Outlive
    <3>2. QED
      BY <2>1, <3>1
      DEF LoopInv, ClientInv, vars, LoopTypes, Reads, OnlyTheHeldLoopRuns, Joins, StopMeans
  <2>4. CASE \E t \in Loop : CallBack(t)
    BY <2>1, <2>4
    DEF CallBack, server, LoopInv, ClientInv, LoopTypes, Reads, OnlyTheHeldLoopRuns, Joins
  <2>5. CASE Destroy
    <3>1. UNCHANGED vars /\ process' = IF recv = 0 THEN "destroyed" ELSE "terminated"
      BY <2>5 DEF Destroy
    <3>2. QED
      BY <2>1, <3>1
      DEF LoopInv, ClientInv, vars, LoopTypes, Reads, OnlyTheHeldLoopRuns, Joins, StopMeans
  <2>6. QED
    BY <1>2, <2>2, <2>3, <2>4, <2>5 DEF ClientNext
<1>3. QED
  BY <1>1, <1>2

LEMMA ClientInvCorrect == ClientSpec => []ClientInv
<1>1. QED
  BY ClientInvInit, ClientInvNext, PTL DEF ClientSpec

(***************************************************************************)
(* Two subscriptions never call their handlers at the same time, and after *)
(* StopReceiveLoop has returned (NetworkClient.cpp, 103-108) no handler is *)
(* called: only the thread in recv_thread_ runs.                           *)
(***************************************************************************)
THEOREM OneLoopAtATime == ClientSpec => []OnlyTheHeldLoopRuns
<1>1. ClientInv => OnlyTheHeldLoopRuns
  BY DEF ClientInv
<1>2. QED
  BY <1>1, ClientInvCorrect, PTL

(***************************************************************************)
(* Once StopReceiveLoop has set stop_, the handler is called at most once  *)
(* more, however many events the server sends.                             *)
(***************************************************************************)
THEOREM StopIsPrompt == ClientSpec => []AtMostOneAfterStop
<1>1. ClientInv => AtMostOneAfterStop
  BY DEF ClientInv, Joins, AtMostOneAfterStop
<1>2. QED
  BY <1>1, ClientInvCorrect, PTL

-----------------------------------------------------------------------------
(***************************************************************************)
(* What is read is handled.  Beyond the property itself only one thing is  *)
(* needed: a thread on its way to the handler has a message in hand.       *)
(***************************************************************************)

InHand == \A t \in Loop : pc[t] = "handling" => sent[t][taken[t]].has_message

HandledInv == EveryReadMessageIsHandled /\ InHand

LEMMA HandledInit == Init => HandledInv
BY LoopAssumption DEF Init, HandledInv, EveryReadMessageIsHandled, IsHandled, InHand, Loop

\* Nothing is read, sent or handled.
LEMMA HandledSame ==
    ASSUME HandledInv, UNCHANGED <<handled, taken, sent>>,
           \A t \in Loop : pc'[t] = "handling" <=> pc[t] = "handling"
    PROVE  HandledInv'
<1>1. EveryReadMessageIsHandled'
  BY DEF HandledInv, EveryReadMessageIsHandled, IsHandled
<1>2. InHand'
  BY DEF HandledInv, InHand
<1>3. QED
  BY <1>1, <1>2 DEF HandledInv

LEMMA LaunchHandles ==
    ASSUME LoopInv, HandledInv, NEW c \in Chat, Launch(c), started < MaxLoops,
           UNCHANGED <<handled, taken, sent>>
    PROVE  HandledInv'
<1>1. started + 1 \in Loop /\ started \in Nat
  BY LoopAssumption DEF LoopInv, LoopTypes, Loop
<1>2. pc[started + 1] = "none"
  BY <1>1 DEF LoopInv, Reads
<1>3. \A t \in Loop : pc'[t] = IF t = started + 1 THEN "opening" ELSE pc[t]
  BY DEF Launch, LoopInv, LoopTypes
<1>4. QED
  BY <1>2, <1>3, HandledSame

LEMMA ReadHandles ==
    ASSUME LoopInv, HandledInv, NEW t \in Loop, Read(t)
    PROVE  HandledInv'
<1>1. /\ pc[t] = "reading" /\ handled' = handled /\ sent' = sent
      /\ pc \in [Loop -> {"none", "opening", "testing", "reading", "handling",
                          "finishing", "done"}]
      /\ taken \in [Loop -> 0 .. MaxEvents]
  BY DEF Read, server, caller, LoopInv, LoopTypes
<1>2. CASE taken' = taken /\ Goto(t, "finishing")
  <2>1. \A u \in Loop : pc'[u] = "handling" <=> pc[u] = "handling"
    BY <1>1, <1>2 DEF Goto
  <2>2. QED
    BY <1>1, <1>2, <2>1, HandledSame
<1>3. CASE /\ Unread(t) /\ taken' = [taken EXCEPT ![t] = @ + 1]
           /\ Goto(t, IF sent[t][taken[t] + 1].has_message THEN "handling" ELSE "testing")
  <2>1. /\ taken'[t] = taken[t] + 1 /\ taken[t] \in Nat
        /\ \A u \in Loop \ {t} : taken'[u] = taken[u] /\ pc'[u] = pc[u]
        /\ pc'[t] = IF sent[t][taken[t] + 1].has_message THEN "handling" ELSE "testing"
    BY <1>1, <1>3 DEF Goto
  <2>2. InHand'
    BY <1>1, <2>1 DEF HandledInv, InHand
  <2>3. ASSUME NEW u \in Loop, NEW n \in 1 .. MaxEvents
        PROVE  IsHandled(u, n)' <=> /\ n <= taken'[u]
                                    /\ sent'[u][n].has_message
                                    /\ ~ (pc'[u] = "handling" /\ n = taken'[u])
    <3>1. IsHandled(u, n) <=> /\ n <= taken[u]
                              /\ sent[u][n].has_message
                              /\ ~ (pc[u] = "handling" /\ n = taken[u])
      BY DEF HandledInv, EveryReadMessageIsHandled
    <3>2. IsHandled(u, n)' <=> IsHandled(u, n)
      BY <1>1 DEF IsHandled
    <3>3. CASE u # t
      BY <1>1, <2>1, <3>1, <3>2, <3>3
    <3>4. CASE u = t /\ n # taken[t] + 1
      <4>1. IsHandled(t, n) <=> n <= taken[t] /\ sent[t][n].has_message
        BY <1>1, <3>1, <3>4
      <4>2. n <= taken[t] <=> n <= taken'[t]
        BY <2>1, <3>4
      <4>3. n # taken'[t]
        BY <2>1, <3>4
      <4>4. QED
        BY <1>1, <3>2, <3>4, <4>1, <4>2, <4>3
    <3>5. CASE u = t /\ n = taken[t] + 1
      <4>1. ~ (n <= taken[t])
        BY <2>1, <3>5
      <4>2. ~ IsHandled(t, n)
        BY <3>1, <3>5, <4>1
      <4>3. sent[t][n].has_message => pc'[t] = "handling" /\ n = taken'[t]
        BY <2>1, <3>5
      <4>4. QED
        BY <1>1, <3>2, <3>5, <4>2, <4>3
    <3>6. QED
      BY <3>3, <3>4, <3>5
  <2>4. EveryReadMessageIsHandled'
    BY <1>1, <2>3 DEF HandledInv, EveryReadMessageIsHandled
  <2>5. QED
    BY <2>2, <2>4 DEF HandledInv
<1>4. QED
  BY <1>2, <1>3 DEF Read

LEMMA HandleHandles ==
    ASSUME LoopInv, HandledInv, NEW t \in Loop, Handle(t)
    PROVE  HandledInv'
<1> DEFINE m == taken[t]
           done == [loop |-> t, n |-> m]
<1>1. /\ pc[t] = "handling" /\ taken' = taken /\ sent' = sent
      /\ handled' = Append(handled, done)
      /\ \A u \in Loop : pc'[u] = IF u = t THEN "testing" ELSE pc[u]
  BY DEF Handle, Goto, server, caller, LoopInv, LoopTypes
<1>2. /\ m \in 1 .. MaxEvents /\ sent[t][m].has_message
      /\ handled \in Seq([loop : Loop, n : 1 .. MaxEvents])
  BY <1>1, LoopAssumption DEF HandledInv, InHand, LoopInv, LoopTypes, Reads
<1>3. /\ done.loop = t /\ done.n = m
      /\ done \in [loop : Loop, n : 1 .. MaxEvents]
  BY <1>2
<1> HIDE DEF m, done
<1>4. /\ Len(handled) \in Nat
      /\ DOMAIN handled = 1 .. Len(handled)
      /\ DOMAIN handled' = 1 .. Len(handled) + 1
      /\ \A i \in DOMAIN handled : handled'[i] = handled[i]
      /\ handled'[Len(handled) + 1] = done
      /\ \A i \in DOMAIN handled : handled[i] \in [loop : Loop, n : 1 .. MaxEvents]
  <2> DEFINE S == [loop : Loop, n : 1 .. MaxEvents]
  <2>1. handled \in Seq(S) /\ done \in S /\ handled' = Append(handled, done)
    BY <1>1, <1>2, <1>3
  <2> HIDE DEF S
  <2>2. handled' \in Seq(S)
    BY <2>1
  <2>3. /\ Len(handled) \in Nat /\ Len(handled') = Len(handled) + 1
        /\ \A i \in 1 .. Len(handled) : handled'[i] = handled[i] /\ handled[i] \in S
        /\ handled'[Len(handled) + 1] = done
    BY <2>1
  <2>4. DOMAIN handled = 1 .. Len(handled) /\ DOMAIN handled' = 1 .. Len(handled')
    BY <2>1, <2>2
  <2>5. QED
    BY <2>3, <2>4 DEF S
<1>5. ASSUME NEW u \in Loop, NEW n \in 1 .. MaxEvents
      PROVE  IsHandled(u, n)' <=> IsHandled(u, n) \/ (u = t /\ n = m)
  <2>1. (\E i \in DOMAIN handled' : handled'[i] = [loop |-> u, n |-> n])
          <=> (\E i \in DOMAIN handled : handled[i] = [loop |-> u, n |-> n])
              \/ done = [loop |-> u, n |-> n]
    BY <1>4
  <2>2. done = [loop |-> u, n |-> n] <=> u = t /\ n = m
    BY DEF done
  <2>3. QED
    BY <2>1, <2>2 DEF IsHandled
<1>6. ASSUME NEW u \in Loop, NEW n \in 1 .. MaxEvents
      PROVE  IsHandled(u, n)' <=> /\ n <= taken'[u]
                                  /\ sent'[u][n].has_message
                                  /\ ~ (pc'[u] = "handling" /\ n = taken'[u])
  <2>1. IsHandled(u, n) <=> /\ n <= taken[u]
                            /\ sent[u][n].has_message
                            /\ ~ (pc[u] = "handling" /\ n = taken[u])
    BY DEF HandledInv, EveryReadMessageIsHandled
  <2>2. CASE u # t
    BY <1>1, <1>5, <2>1, <2>2
  <2>3. CASE u = t /\ n # m
    BY <1>1, <1>5, <2>1, <2>3 DEF m
  <2>4. CASE u = t /\ n = m
    BY <1>1, <1>2, <1>5, <2>1, <2>4 DEF m
  <2>5. QED
    BY <2>2, <2>3, <2>4
<1>7. ASSUME NEW i \in DOMAIN handled, handled[i].loop = t
      PROVE  handled[i].n < m
  <2>1. handled[i].n \in 1 .. MaxEvents /\ handled[i] = [loop |-> t, n |-> handled[i].n]
    BY <1>4, <1>7
  <2>2. IsHandled(t, handled[i].n)
    BY <2>1 DEF IsHandled
  <2>3. handled[i].n <= taken[t] /\ handled[i].n # taken[t]
    BY <1>1, <2>1, <2>2 DEF HandledInv, EveryReadMessageIsHandled
  <2>4. QED
    BY <1>2, <2>1, <2>3 DEF m
<1>8. ASSUME NEW i \in DOMAIN handled', NEW j \in DOMAIN handled',
             i < j, handled'[i].loop = handled'[j].loop
      PROVE  handled'[i].n < handled'[j].n
  <2>1. i \in DOMAIN handled
    BY <1>4, <1>8
  <2>2. CASE j \in DOMAIN handled
    BY <1>4, <1>8, <2>1, <2>2 DEF HandledInv, EveryReadMessageIsHandled
  <2>3. CASE j = Len(handled) + 1
    BY <1>3, <1>4, <1>7, <1>8, <2>1, <2>3
  <2>4. QED
    BY <1>4, <2>2, <2>3
<1>9. EveryReadMessageIsHandled'
  BY <1>6, <1>8 DEF EveryReadMessageIsHandled
<1>10. InHand'
  BY <1>1 DEF HandledInv, InHand
<1>11. QED
  BY <1>9, <1>10 DEF HandledInv

LEMMA ServerHandles ==
    ASSUME LoopInv, HandledInv, NEW t \in Loop, ServerSends(t) \/ ServerEnds(t)
    PROVE  HandledInv'
<1>1. CASE ServerEnds(t)
  BY <1>1, HandledSame DEF ServerEnds, caller
<1>2. CASE ServerSends(t)
  <2>1. /\ handled' = handled /\ taken' = taken /\ pc' = pc
        /\ \A u \in Loop : \A n \in 1 .. taken[u] : sent'[u][n] = sent[u][n]
    <3>1. PICK has \in BOOLEAN : sent' = [sent EXCEPT ![t] = Append(@, [has_message |-> has])]
      BY <1>2 DEF ServerSends
    <3>2. /\ sent[t] \in Seq([has_message : BOOLEAN]) /\ taken[t] <= Len(sent[t])
          /\ taken[t] \in Nat
      BY DEF LoopInv, LoopTypes, Reads
    <3>3. \A n \in 1 .. taken[t] : sent'[t][n] = sent[t][n]
      BY <3>1, <3>2 DEF LoopInv, LoopTypes
    <3>4. \A u \in Loop \ {t} : sent'[u] = sent[u]
      BY <3>1 DEF LoopInv, LoopTypes
    <3>5. QED
      BY <1>2, <3>3, <3>4 DEF ServerSends, caller
  <2>2. \A u \in Loop : taken[u] \in Nat /\ (pc[u] = "handling" => taken[u] > 0)
    BY DEF LoopInv, LoopTypes, Reads
  <2>3. InHand'
    BY <2>1, <2>2 DEF HandledInv, InHand
  <2>4. \A u \in Loop, n \in 1 .. MaxEvents :
          n <= taken[u] => sent'[u][n] = sent[u][n]
    BY <2>1, <2>2
  <2>5. EveryReadMessageIsHandled'
    BY <2>1, <2>4 DEF HandledInv, EveryReadMessageIsHandled, IsHandled
  <2>6. QED
    BY <2>3, <2>5 DEF HandledInv
<1>3. QED
  BY <1>1, <1>2

LEMMA LoopHandles == LoopInv /\ HandledInv /\ Next => HandledInv'
<1> SUFFICES ASSUME LoopInv, HandledInv, Next PROVE HandledInv'
  OBVIOUS
<1>1. CASE \E c \in Chat : StartReceiveLoop(c)
  <2>1. PICK c \in Chat : StartReceiveLoop(c)
    BY <1>1
  <2>2. CASE recv = 0
    BY <2>1, <2>2, LaunchHandles DEF StartReceiveLoop
  <2>3. CASE recv # 0
    BY <2>1, <2>3, HandledSame DEF StartReceiveLoop, BeginJoin
  <2>4. QED
    BY <2>2, <2>3
<1>2. CASE StopReceiveLoop
  BY <1>2, HandledSame DEF StopReceiveLoop, BeginJoin
<1>3. CASE Join
  <2>1. CASE wanted # Nobody
    <3>1. wanted \in Chat /\ started < MaxLoops
      BY <1>3, <2>1 DEF LoopInv, LoopTypes, Joins, Join
    <3>2. QED
      BY <1>3, <2>1, <3>1, LaunchHandles DEF Join
  <2>2. CASE wanted = Nobody
    BY <1>3, <2>2, HandledSame DEF Join
  <2>3. QED
    BY <2>1, <2>2
<1>4. CASE \E t \in Loop : Open(t) \/ Test(t) \/ Finish(t)
  <2>1. PICK t \in Loop : Open(t) \/ Test(t) \/ Finish(t)
    BY <1>4
  <2>2. /\ UNCHANGED <<handled, taken, sent>>
        /\ pc[t] # "handling"
        /\ \E label \in {"testing", "finishing", "reading", "done"} : Goto(t, label)
    BY <2>1 DEF Open, Test, Finish, server
  <2>3. \A u \in Loop : pc'[u] = "handling" <=> pc[u] = "handling"
    BY <2>2 DEF Goto, LoopInv, LoopTypes
  <2>4. QED
    BY <2>2, <2>3, HandledSame
<1>5. CASE \E t \in Loop : Read(t) \/ Handle(t)
  BY <1>5, ReadHandles, HandleHandles
<1>6. CASE \E t \in Loop : ServerSends(t) \/ ServerEnds(t)
  BY <1>6, ServerHandles
<1>7. QED
  BY <1>1, <1>2, <1>3, <1>4, <1>5, <1>6 DEF Next, Thread

LEMMA ClientHandles == ClientInv /\ HandledInv /\ [ClientNext]_clientVars => HandledInv'
<1> SUFFICES ASSUME ClientInv, HandledInv, [ClientNext]_clientVars PROVE HandledInv'
  OBVIOUS
<1>1. CASE UNCHANGED <<handled, taken, sent, pc>>
  BY <1>1, HandledSame
<1>2. CASE LoopStep /\ process = "running"
  <2>1. LoopInv /\ Next
    BY <1>2 DEF ClientInv, LoopInv, LoopStep
  <2>2. QED
    BY <2>1, LoopHandles
<1>3. QED
  BY <1>1, <1>2 DEF ClientNext, clientVars, vars, Unary, Outlive, CallBack, Destroy, server

(***************************************************************************)
(* Every message Read() took off a stream is handed to that subscription's *)
(* handler, once and in order, whatever StopReceiveLoop interrupts.        *)
(***************************************************************************)
THEOREM ReadIsHandled == ClientSpec => []EveryReadMessageIsHandled
<1>1. ClientInit => HandledInv
  BY HandledInit DEF ClientInit
<1>2. HandledInv => EveryReadMessageIsHandled
  BY DEF HandledInv
<1>3. QED
  BY <1>1, <1>2, ClientHandles, ClientInvCorrect, PTL DEF ClientSpec

-----------------------------------------------------------------------------
(***************************************************************************)
(* The access token.  As long as Login and Refresh never ran together, at  *)
(* most one call stands between a grant and its assignment; until then the *)
(* results handed out are no newer than token_, and the token on its way   *)
(* is newer than all of them.                                              *)
(***************************************************************************)

TokenTypes ==
    /\ token \in {Torn} \cup 0 .. granted
    /\ granted \in Nat
    /\ overlapped \in BOOLEAN /\ outdated \in BOOLEAN
    /\ call \in [Async -> [rpc : Rpc, token : {Torn} \cup 0 .. granted,
                           at : {"none", "started", "called", "storing", "returning",
                                 "ok", "thrown"}]]

Granting(a) == Running(a) /\ Grants(a)

InTurn ==
    /\ \A a, b \in Async : Granting(a) /\ Granting(b) => a = b
    /\ token # Torn
    /\ \A a \in Async : /\ At(a, "storing") \/ At(a, "returning") => Grants(a)
                        /\ At(a, "storing") => call[a].token = granted
                        /\ At(a, "started") \/ At(a, "called") => call[a].token = 0
                        /\ At(a, "ok") => call[a].token <= token

TokenInv == TokenTypes /\ (~ overlapped => InTurn /\ ~ outdated)

LEMMA TokenInit == ClientInit => TokenInv
<1> SUFFICES ASSUME ClientInit PROVE TokenInv
  OBVIOUS
<1>1. overlapped = FALSE /\ outdated = FALSE
  BY DEF ClientInit
<1>2. /\ token = 0 /\ granted = 0
      /\ \A a \in Async : call[a] = [rpc |-> "Other", at |-> "none", token |-> 0]
  BY DEF ClientInit
<1>3. call \in [Async -> [rpc : Rpc, token : {Torn} \cup 0 .. granted,
                         at : {"none", "started", "called", "storing", "returning",
                               "ok", "thrown"}]]
  <2>1. [rpc |-> "Other", at |-> "none", token |-> 0]
            \in [rpc : Rpc, token : {Torn} \cup 0 .. granted,
                 at : {"none", "started", "called", "storing", "returning", "ok", "thrown"}]
    BY <1>2 DEF Rpc
  <2>2. QED
    BY <2>1 DEF ClientInit
<1>4. TokenTypes
  <2>1. overlapped \in BOOLEAN /\ outdated \in BOOLEAN
    BY <1>1, Zenon
  <2>2. QED
    BY <1>2, <1>3, <2>1 DEF TokenTypes
<1>5. InTurn
  BY <1>2 DEF InTurn, Granting, Running, Grants, At, Torn
<1>6. QED
  BY <1>1, <1>4, <1>5, Zenon DEF TokenInv

\* A header read between assignments is not older than any result.
LEMMA AuthorizeIsCurrent ==
    ASSUME TokenTypes, InTurn, ~ outdated, Authorize
    PROVE  ~ outdated'
<1>1. CASE Storing = {}
  <2>1. ~ Superseded(token)
    BY DEF TokenTypes, InTurn, Superseded, Torn, At
  <2>2. Readable = {token}
    BY <1>1 DEF Readable
  <2>3. QED
    BY <2>1, <2>2, Zenon DEF Authorize
<1>2. CASE Storing # {}
  BY <1>2, Zenon DEF Authorize
<1>3. QED
  BY <1>1, <1>2

LEMMA AuthorizeTypes == ASSUME TokenTypes, Authorize PROVE outdated' \in BOOLEAN
BY Zenon DEF TokenTypes, Authorize

LEMMA CallKeepsTokens ==
    ASSUME TokenInv, NEW a \in Async, NEW rpc \in Rpc, Call(a, rpc)
    PROVE  TokenInv'
<1>1. overlapped' \in BOOLEAN /\ outdated' \in BOOLEAN
  BY Zenon DEF Call, TokenInv, TokenTypes
<1>2. ~ overlapped' => /\ ~ overlapped
                       /\ rpc = "Other" \/ \A b \in Async : ~ Granting(b)
  BY Zenon DEF Call, Granting
<1>3. TokenTypes'
  BY <1>1 DEF Call, TokenInv, TokenTypes, Rpc
<1>4. \A b \in Async : call'[b] = IF b = a THEN [rpc |-> rpc, at |-> "started", token |-> 0]
                                           ELSE call[b]
  BY DEF Call, TokenInv, TokenTypes
<1>5. ASSUME ~ overlapped' PROVE InTurn' /\ ~ outdated'
  <2>1. InTurn /\ ~ outdated
    BY <1>2, <1>5, Zenon DEF TokenInv
  <2>2. ~ outdated'
    BY <2>1 DEF Call
  <2>3. \A b, c \in Async : (Granting(b) /\ Granting(c))' => b = c
    BY <1>2, <1>4, <1>5, <2>1 DEF InTurn, Granting, Running, Grants
  <2>4. QED
    BY <1>4, <2>1, <2>2, <2>3 DEF InTurn, At, Call, Grants
<1>6. QED
  BY <1>3, <1>5, Zenon DEF TokenInv

\* What is common to the steps that go on with a call already begun.
LEMMA StepKeepsTokens ==
    ASSUME TokenTypes', NEW a \in Async, Running(a),
           ~ overlapped' => ~ overlapped,
           ~ overlapped => InTurn /\ ~ outdated,
           ~ overlapped => ~ outdated',
           \A b \in Async \ {a} : call'[b] = call[b],
           call'[a].rpc = call[a].rpc,
           InTurn => /\ token' # Torn
                     /\ \A b \in Async \ {a} : At(b, "ok") => call[b].token <= token'
                     /\ At(a, "storing")' \/ At(a, "returning")' => Grants(a)
                     /\ granted' = granted \/ Grants(a)
                     /\ At(a, "storing")' => call'[a].token = granted'
                     /\ At(a, "started")' \/ At(a, "called")' => call'[a].token = 0
                     /\ At(a, "ok")' => call'[a].token <= token'
    PROVE  TokenInv'
<1>1. ASSUME ~ overlapped' PROVE InTurn' /\ ~ outdated'
  <2>1. InTurn /\ ~ outdated'
    BY <1>1, Zenon
  <2>2. \A b, c \in Async : (Granting(b) /\ Granting(c))' => b = c
    BY <2>1 DEF InTurn, Granting, Running, Grants
  <2>3. \A b \in Async : At(b, "storing")' => call'[b].token = granted'
    BY <2>1 DEF InTurn, Granting, Running, Grants, At
  <2>4. \A b \in Async : At(b, "storing")' \/ At(b, "returning")' => Grants(b)'
    BY <2>1 DEF InTurn, Grants, At
  <2>5. \A b \in Async : At(b, "ok")' => call'[b].token <= token'
    BY <2>1 DEF InTurn, At
  <2>6. \A b \in Async : At(b, "started")' \/ At(b, "called")' => call'[b].token = 0
    BY <2>1 DEF InTurn, At
  <2>7. QED
    BY <2>1, <2>2, <2>3, <2>4, <2>5, <2>6 DEF InTurn
<1>2. QED
  BY <1>1, Zenon DEF TokenInv

LEMMA RequestKeepsTokens ==
    ASSUME TokenInv, NEW a \in Async, Request(a)
    PROVE  TokenInv'
<1>1. outdated' \in BOOLEAN
  BY AuthorizeTypes, Zenon DEF Request, TokenInv, TokenTypes
<1>2. TokenTypes'
  BY <1>1 DEF Request, TokenInv, TokenTypes
<1>3. ~ overlapped => InTurn /\ ~ outdated /\ ~ outdated'
  BY AuthorizeIsCurrent, Zenon DEF Request, TokenInv
<1>4. Running(a) /\ UNCHANGED <<token, granted, overlapped>>
  BY DEF Request, At, Running
<1>5. /\ \A b \in Async \ {a} : call'[b] = call[b]
      /\ call'[a].rpc = call[a].rpc /\ call'[a].at = "called"
      /\ call'[a].token = call[a].token
  BY DEF Request, TokenInv, TokenTypes
<1>6. InTurn => /\ \A b \in Async : At(b, "ok") => call[b].token <= token
                /\ call[a].token = 0
  BY DEF InTurn, Request
<1>7. QED
  BY <1>2, <1>3, <1>4, <1>5, <1>6, StepKeepsTokens DEF InTurn, At

LEMMA ReturnKeepsTokens ==
    ASSUME TokenInv, NEW a \in Async, Return(a)
    PROVE  TokenInv'
<1>1. /\ Running(a) /\ UNCHANGED <<token, outdated, overlapped>>
      /\ \A b \in Async \ {a} : call'[b] = call[b]
      /\ call'[a].rpc = call[a].rpc
  BY DEF Return, TokenInv, TokenTypes, Running, At
<1>2. \/ granted' = granted /\ call'[a].at = "thrown"
      \/ granted' = granted /\ call'[a].at = "ok" /\ call'[a].token = call[a].token
      \/ /\ granted' = granted + 1 /\ Grants(a)
         /\ call'[a].at = "storing" /\ call'[a].token = granted + 1
  BY DEF Return, TokenInv, TokenTypes
<1>3. TokenTypes'
  <2>1. token' \in {Torn} \cup 0 .. granted' /\ granted' \in Nat
    BY <1>1, <1>2 DEF TokenInv, TokenTypes
  <2>2. call' \in [Async -> [rpc : Rpc, token : {Torn} \cup 0 .. granted',
                             at : {"none", "started", "called", "storing", "returning",
                                   "ok", "thrown"}]]
    BY DEF Return, TokenInv, TokenTypes
  <2>3. overlapped' \in BOOLEAN /\ outdated' \in BOOLEAN
    BY <1>1 DEF TokenInv, TokenTypes
  <2>4. QED
    BY <2>1, <2>2, <2>3 DEF TokenTypes
<1>4. ~ overlapped => InTurn /\ ~ outdated
  BY DEF TokenInv
<1>5. InTurn => /\ token \in Nat /\ call[a].token = 0
                /\ \A b \in Async : At(b, "ok") => call[b].token <= token
  BY DEF InTurn, TokenInv, TokenTypes, Return, Torn
<1>6. ~ overlapped => ~ outdated'
  BY <1>1, <1>4
<1>7. QED
  BY <1>1, <1>2, <1>3, <1>4, <1>5, <1>6, StepKeepsTokens DEF InTurn, At

LEMMA StoreKeepsTokens ==
    ASSUME TokenInv, NEW a \in Async, Store(a)
    PROVE  TokenInv'
<1>1. /\ Running(a) /\ UNCHANGED <<granted, outdated, overlapped>>
      /\ \A b \in Async \ {a} : call'[b] = call[b]
      /\ call'[a].rpc = call[a].rpc /\ call'[a].token = call[a].token
      /\ call'[a].at \in {"returning", "ok"}
  BY DEF Store, TokenInv, TokenTypes, Running, At
<1>2. token' \in {Torn, call[a].token}
  BY DEF Store
<1>3. TokenTypes'
  <2>1. call' \in [Async -> [rpc : Rpc, token : {Torn} \cup 0 .. granted,
                             at : {"none", "started", "called", "storing", "returning",
                                   "ok", "thrown"}]]
    BY DEF Store, TokenInv, TokenTypes
  <2>2. QED
    BY <1>1, <1>2, <2>1 DEF TokenInv, TokenTypes
<1>4. ~ overlapped => InTurn /\ ~ outdated /\ ~ outdated'
  BY <1>1 DEF TokenInv
<1>5. InTurn => token' = granted /\ call[a].token = granted /\ Grants(a)
  <2>1. ASSUME InTurn PROVE Storing = {a}
    BY <2>1 DEF InTurn, Granting, Running, Grants, Storing, Store, At
  <2>2. QED
    BY <2>1 DEF InTurn, Store
<1>6. InTurn => \A b \in Async : At(b, "ok") => call[b].token <= granted
  BY DEF InTurn, TokenInv, TokenTypes, Torn, At
<1>7. InTurn => granted # Torn
  BY DEF TokenInv, TokenTypes, Torn
<1>8. QED
  BY <1>1, <1>3, <1>4, <1>5, <1>6, <1>7, StepKeepsTokens DEF At, TokenInv, TokenTypes

LEMMA ReturnTokenKeepsTokens ==
    ASSUME TokenInv, NEW a \in Async, ReturnToken(a)
    PROVE  TokenInv'
<1>1. PICK v \in Readable : call' = [call EXCEPT ![a].at = "ok", ![a].token = v]
  BY DEF ReturnToken
<1>2. /\ Running(a) /\ UNCHANGED <<token, granted, outdated, overlapped>>
      /\ \A b \in Async \ {a} : call'[b] = call[b]
      /\ call'[a].rpc = call[a].rpc /\ call'[a].token = v /\ call'[a].at = "ok"
  BY <1>1 DEF ReturnToken, TokenInv, TokenTypes, Running, At
<1>3. TokenTypes'
  <2>1. v \in {Torn} \cup 0 .. granted
    BY DEF Readable, TokenInv, TokenTypes
  <2>2. call' \in [Async -> [rpc : Rpc, token : {Torn} \cup 0 .. granted,
                             at : {"none", "started", "called", "storing", "returning",
                                   "ok", "thrown"}]]
    BY <1>1, <2>1 DEF TokenInv, TokenTypes
  <2>3. QED
    BY <1>2, <2>2 DEF TokenInv, TokenTypes
<1>4. ~ overlapped => InTurn /\ ~ outdated /\ ~ outdated'
  BY <1>2 DEF TokenInv
<1>5. InTurn => v = token
  <2>1. ASSUME InTurn PROVE Storing = {}
    BY <2>1 DEF InTurn, Granting, Running, Grants, Storing, ReturnToken, At
  <2>2. QED
    BY <2>1 DEF Readable
<1>6. InTurn => \A b \in Async : At(b, "ok") => call[b].token <= token
  BY DEF InTurn
<1>7. token <= token
  BY DEF TokenInv, TokenTypes, Torn
<1>8. QED
  BY <1>2, <1>3, <1>4, <1>5, <1>6, <1>7, StepKeepsTokens DEF At, InTurn

LEMMA TokenNext == TokenInv /\ [ClientNext]_clientVars => TokenInv'
<1> SUFFICES ASSUME TokenInv, [ClientNext]_clientVars PROVE TokenInv'
  OBVIOUS
<1>1. CASE UNCHANGED client
  BY <1>1 DEF client, TokenInv, TokenTypes, InTurn, Granting, Running, Grants, At
<1>2. CASE LoopStep
  <2>1. UNCHANGED <<token, call, granted, overlapped>> /\ (Authorize \/ UNCHANGED outdated)
    BY <1>2 DEF LoopStep
  <2>2. CASE UNCHANGED outdated
    BY <1>1, <2>1, <2>2 DEF client
  <2>3. CASE Authorize
    <3>1. outdated' \in BOOLEAN
      BY <2>3, AuthorizeTypes, Zenon DEF TokenInv
    <3>2. TokenTypes'
      BY <2>1, <3>1 DEF TokenInv, TokenTypes
    <3>3. ~ overlapped => InTurn /\ ~ outdated'
      BY <2>3, AuthorizeIsCurrent, Zenon DEF TokenInv
    <3>4. InTurn => InTurn'
      BY <2>1 DEF InTurn, Granting, Running, Grants, At
    <3>5. QED
      BY <2>1, <3>2, <3>3, <3>4 DEF TokenInv
  <2>4. QED
    BY <2>1, <2>2, <2>3
<1>3. CASE \E a \in Async : Unary(a) \/ Outlive(a)
  BY <1>1, <1>3, CallKeepsTokens, RequestKeepsTokens, ReturnKeepsTokens, StoreKeepsTokens,
     ReturnTokenKeepsTokens DEF Unary, Outlive
<1>4. CASE (\E t \in Loop : CallBack(t)) \/ Destroy
  BY <1>1, <1>4 DEF CallBack, Destroy
<1>5. CASE UNCHANGED clientVars
  BY <1>1, <1>5 DEF clientVars
<1>6. QED
  BY <1>2, <1>3, <1>4, <1>5 DEF ClientNext

LEMMA TokenInvCorrect == ClientSpec => []TokenInv
<1>1. QED
  BY TokenInit, TokenNext, PTL DEF ClientSpec

(***************************************************************************)
(* The types, and what stop_ says of the loop that is held.                *)
(***************************************************************************)
THEOREM ClientTypeCorrect == ClientSpec => []ClientTypeOK
<1>1. ClientInv /\ TokenInv => ClientTypeOK
  BY DEF ClientInv, TokenInv, TokenTypes, TypeOK, ClientTypeOK
<1>2. QED
  BY <1>1, ClientInvCorrect, TokenInvCorrect, PTL

(***************************************************************************)
(* As long as the application logs in and refreshes one call at a time, no *)
(* call and no stream carries a token older than a result it was given.    *)
(***************************************************************************)
THEOREM HeadersStayCurrent == ClientSpec => []HeadersAreCurrent
<1>1. TokenInv => HeadersAreCurrent
  BY Zenon DEF TokenInv, HeadersAreCurrent
<1>2. QED
  BY <1>1, TokenInvCorrect, PTL
=============================================================================

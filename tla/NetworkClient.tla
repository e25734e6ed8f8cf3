---------------------------- MODULE NetworkClient ----------------------------
(***************************************************************************)
(* The whole of NetworkClient (client/core/src/NetworkClient.cpp): the     *)
(* receive loop of ReceiveLoop, the unary calls, each on a thread of its   *)
(* own (std::async), the access token all of them share, handlers that     *)
(* call back into the loop they are called from, and the destructor.       *)
(*                                                                         *)
(* token_ is a std::string without a lock.  A read while it is being       *)
(* assigned may return what nobody wrote (Torn); so may any later read if  *)
(* two assignments met.  Tokens are numbered in the order they are         *)
(* granted, and 0 is the empty string.                                     *)
(***************************************************************************)
EXTENDS ReceiveLoop, FiniteSets

CONSTANT MaxUses    \* bound: unary calls and subscriptions, taken together

ASSUME ClientAssumption == MaxUses \in Nat

\* Unary calls, in the order they are begun.
Async == 1 .. MaxUses

Torn == -1

\* SendMessageAsync, PublishPreKeysAsync and GetPreKeyBundleAsync are one shape.
Rpc == {"Login", "Refresh", "Other"}

VARIABLES process,    \* "running", "terminated", the client is "destroyed", or "undefined":
                      \* a destroyed client was used
          token,      \* token_
          call,       \* call[a]: its rpc, where it is, and the token of its result
          granted,    \* tokens granted by the server
          outdated,   \* a call or stream carried a token older than one known then
          overlapped  \* a Login or Refresh was begun while another one ran

client == <<token, call, granted, outdated, overlapped>>

clientVars == <<vars, process, client>>

At(a, label) == call[a].at = label

Running(a) == call[a].at \notin {"none", "ok", "thrown"}

Grants(a) == call[a].rpc \in {"Login", "Refresh"}

Storing == {a \in Async : At(a, "storing")}

\* What reading token_ may give.
Readable == {token} \cup (IF Storing = {} THEN {} ELSE {Torn})

\* The application was given a newer token than v as the result of a call.
Superseded(v) == \E a \in Async : At(a, "ok") /\ v < call[a].token

\* if (!token_.empty()) ctx.AddMetadata("authorization", ...): noted when no
\* assignment of token_ is under way that may explain an old one.
Authorize == \E v \in Readable :
    outdated' = (outdated \/ (Storing = {} /\ Superseded(v)))

-----------------------------------------------------------------------------
(***************************************************************************)
(* Unary calls.                                                            *)
(***************************************************************************)

Begun == Cardinality({a \in Async : ~ At(a, "none")})

\* The application, or a handler, calls one of the Async functions.
Call(a, rpc) ==
    /\ a = Begun + 1
    /\ Begun + started < MaxUses
    /\ overlapped' = (overlapped \/ (rpc # "Other" /\ \E b \in Async : Running(b) /\ Grants(b)))
    /\ call' = [call EXCEPT ![a] = [rpc |-> rpc, at |-> "started", token |-> 0]]
    /\ UNCHANGED <<token, granted, outdated>>

\* The request is made; Login and Refresh go without a header.
Request(a) ==
    /\ At(a, "started")
    /\ call' = [call EXCEPT ![a].at = "called"]
    /\ IF Grants(a) THEN UNCHANGED outdated ELSE Authorize
    /\ UNCHANGED <<token, granted, overlapped>>

\* Mutated: token_ is assigned before the status is looked at.
ReturnUnchecked(a) ==
    /\ At(a, "called")
    /\ \/ /\ call' = [call EXCEPT ![a].at = "thrown"]
          /\ token' = IF Grants(a) THEN 0 ELSE token
          /\ UNCHANGED granted
       \/ /\ ~ Grants(a)
          /\ call' = [call EXCEPT ![a].at = "ok"]
          /\ UNCHANGED <<token, granted>>
       \/ /\ Grants(a)
          /\ granted' = granted + 1
          /\ call' = [call EXCEPT ![a].at = "storing", ![a].token = granted + 1]
          /\ UNCHANGED token
    /\ UNCHANGED <<outdated, overlapped>>

\* The server answers, with an error or with OK.
Return(a) ==
    /\ At(a, "called")
    /\ \/ /\ call' = [call EXCEPT ![a].at = "thrown"]
          /\ UNCHANGED granted
       \/ /\ ~ Grants(a)
          /\ call' = [call EXCEPT ![a].at = "ok"]
          /\ UNCHANGED granted
       \/ /\ Grants(a)
          /\ granted' = granted + 1
          /\ call' = [call EXCEPT ![a].at = "storing", ![a].token = granted + 1]
    /\ UNCHANGED <<token, outdated, overlapped>>

\* token_ = resp.access_token() ends.
Store(a) ==
    /\ At(a, "storing")
    /\ token' \in {call[a].token} \cup (IF Storing = {a} THEN {} ELSE {Torn})
    /\ call' = [call EXCEPT ![a].at = IF call[a].rpc = "Refresh" THEN "returning" ELSE "ok"]
    /\ UNCHANGED <<granted, outdated, overlapped>>

\* RefreshAsync reads token_ once more for its result.
ReturnToken(a) ==
    /\ At(a, "returning")
    /\ \E v \in Readable : call' = [call EXCEPT ![a].at = "ok", ![a].token = v]
    /\ UNCHANGED <<token, granted, outdated, overlapped>>

Unary(a) == /\ \/ \E rpc \in Rpc : Call(a, rpc)
               \/ Request(a) \/ Return(a) \/ Store(a) \/ ReturnToken(a)
            /\ UNCHANGED <<vars, process>>

-----------------------------------------------------------------------------
(***************************************************************************)
(* The receive loop in its client.                                         *)
(***************************************************************************)

\* A step of ReceiveLoop; a stream that is opened carries the token.
LoopStep ==
    /\ Next
    /\ started' + Begun <= MaxUses
    /\ IF \E t \in Loop : pc[t] = "opening" /\ pc'[t] # "opening"
       THEN Authorize
       ELSE UNCHANGED outdated
    /\ UNCHANGED <<process, token, call, granted, overlapped>>

\* A handler calls Unsubscribe or Subscribe: join() of the own thread throws,
\* and an exception that leaves the thread ends the process.
CallBack(t) == /\ pc[t] = "handling"
               /\ process' = "terminated"
               /\ stop' = TRUE
               /\ UNCHANGED <<main, wanted, recv, started, chat, pc, taken, server,
                              handled, atStop, client>>

\* The application lets go of the client; the destructor of a joinable
\* std::thread ends the process.  Nothing waits for the unary calls.
Destroy == /\ main = "idle"
           /\ process' = IF recv = 0 THEN "destroyed" ELSE "terminated"
           /\ UNCHANGED <<vars, client>>

\* A call whose client is gone: its lambda uses the stub and token_ through this.
\* If it is waiting for the server it may still get away with it.
Outlive(a) == /\ Running(a)
              /\ \/ Return(a) /\ UNCHANGED process
                 \/ process' = "undefined" /\ UNCHANGED client
              /\ UNCHANGED vars

ClientInit == /\ Init
              /\ process = "running"
              /\ token = 0 /\ granted = 0 /\ outdated = FALSE /\ overlapped = FALSE
              /\ call = [a \in Async |-> [rpc |-> "Other", at |-> "none", token |-> 0]]

ClientNext == \/ /\ process = "running"
                 /\ \/ LoopStep
                    \/ \E a \in Async : Unary(a)
                    \/ \E t \in Loop : CallBack(t)
                    \/ Destroy
              \/ /\ process = "destroyed"
                 /\ \E a \in Async : Outlive(a)

ClientSpec == ClientInit /\ [][ClientNext]_clientVars

\* Threads that can run are run; the server owes nothing.
FairClientSpec ==
    ClientSpec /\ \A t \in Loop : WF_clientVars(process = "running" /\ Thread(t) /\ LoopStep)

-----------------------------------------------------------------------------
(***************************************************************************)
(* Properties.                                                             *)
(***************************************************************************)

\* The types, as far as the process has not been ended in the middle of a step.
ClientTypeOK ==
    /\ process # "terminated" => TypeOK
    /\ process \in {"running", "terminated", "destroyed", "undefined"}
    /\ token \in {Torn} \cup 0 .. granted
    /\ call \in [Async -> [rpc : Rpc, token : {Torn} \cup 0 .. granted,
                           at : {"none", "started", "called", "storing", "returning",
                                 "ok", "thrown"}]]
    /\ granted \in Nat
    /\ overlapped \in BOOLEAN /\ outdated \in BOOLEAN

\* Applications that log in and refresh one call at a time: every later call and
\* stream carries a token at least as new as the newest one they were given,
\* whatever calls fail in between; only a read that meets an assignment of
\* token_ can give anything else.
HeadersAreCurrent ==
    ~ overlapped => ~ outdated

\* A stream that has ended takes its loop with it, unless StopReceiveLoop came
\* first and left messages unread (Finish() then waits for ever), or the process
\* is ended.
ClientLoopEndsWithStream ==
    \A t \in Loop :
        closed[t] # "no" ~> \/ pc[t] = "done"
                            \/ closed[t] = "ok" /\ main = "joining"
                            \/ process = "terminated"
=============================================================================

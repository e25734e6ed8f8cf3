------------------------------ MODULE MCServer ------------------------------
(***************************************************************************)
(* Small sets of requests for Server.                                      *)
(***************************************************************************)
EXTENDS Server

CONSTANTS h1, h2

Handlers == Permutations(Handler)

Register(u, d) == [rpc |-> "Register", username |-> u, password |-> "pw", device_id |-> d,
                   identity_key |-> "ik0", pre_key |-> "pk0"]

Upload(u, d, n) == [rpc |-> "UploadPreKey", username |-> u, device_id |-> d,
                    pre_key |-> <<"pk", n>>, identity_key |-> <<"ik", n>>]

Get == [rpc |-> "GetPreKey", username |-> "u"]

Login(pw) == [rpc |-> "Login", username |-> "u", password |-> pw]

NewToken == [rpc |-> "Refresh"]

KeyRequests == {Register("u", "d1"), Upload("u", "d1", 1), Upload("u", "d1", 2),
                Get, Login("pw"), NewToken}

LoginRequests == {Register("u", "d"), Login("pw")}

RegisterRequests == {Register("u", "d1"), Register("u", "d2")}

Create == [rpc |-> "CreateChat", participants |-> <<"u", "v">>]

Send == [rpc |-> "SendMessage", chat_id |-> 1, sender |-> "u",
         ciphertext |-> <<"ct", "u">>]

History(limit, offset) == [rpc |-> "GetHistory", chat_id |-> 1, limit |-> limit, offset |-> offset]

ChatRequests == {Create, Send, History(2, 0), History(-1, 0)}

PageRequests == {Create, Send, History(2, 0), History(2, 2)}

Requests == KeyRequests \cup ChatRequests \cup PageRequests

\* The first calls come on all threads; of them a refused page is not the
\* first, and Refresh, which meets nobody, the last.
Interleaved == /\ Len(asked) <= 3
               /\ \A id \in Id : /\ asked[id] # History(2, 2)
                                 /\ asked[id] = History(-1, 0) => id > 1
                                 /\ asked[id] = NewToken => id > 2

\* What goes on longer is a client that talks to one chat, a call at a time,
\* while nothing fails.
OneAtATime == /\ \A id \in Id : asked[id] \in PageRequests
              /\ \A k \in 1 .. Len(replies) : replies[k].id = k /\ replies[k].status = "OK"
              /\ Len(asked) - Len(replies) <= 1
              /\ faults = 0

Bounded == Interleaved \/ OneAtATime
=============================================================================

---------------------------- MODULE HistoryProofs ----------------------------
(***************************************************************************)
(* Proofs about the pages that GetHistory answers with, for any number of  *)
(* threads, calls, messages and faults.  The list that a page is cut from  *)
(* is described by ranks: a message has rank k in its chat when k messages *)
(* of the chat are as new as it.  Ranks count a chat's messages down from  *)
(* the newest without a gap, and those of older messages only grow, which  *)
(* is why pages taken at different times leave no message out.  That the   *)
(* answers are such pages, of the messages there were at some moment, and  *)
(* of later moments the later they are given, is shown of AtomicServer's   *)
(* steps, as in ServerProofs.                                              *)
(***************************************************************************)
EXTENDS ServerProofs, FiniteSetTheorems

-----------------------------------------------------------------------------
(***************************************************************************)
(* Ranks.                                                                  *)
(***************************************************************************)

LEMMA RankType ==
    ASSUME NEW n \in Nat, NEW places \in SUBSET (1 .. n), NEW i \in Nat
    PROVE  /\ IsFiniteSet(places) /\ Cardinality(places) \in Nat
           /\ Rank(places, i) \in 0 .. Cardinality(places)
           /\ i \in places => Rank(places, i) > 0
<1> DEFINE above == {j \in places : j >= i}
<1>1. IsFiniteSet(places)
  <2>1. IsFiniteSet(1 .. n)
    BY FS_Interval
  <2> QED BY <2>1, FS_Subset
<1>2. IsFiniteSet(above) /\ Cardinality(above) <= Cardinality(places)
  BY <1>1, FS_Subset
<1>3. Cardinality(places) \in Nat /\ Cardinality(above) \in Nat
  BY <1>1, <1>2, FS_CardinalityType
<1>4. i \in places => Cardinality(above) # 0
  <2>1. i \in places => i \in above
    OBVIOUS
  <2>2. Cardinality(above) = 0 <=> above = {}
    BY <1>2, FS_EmptySet
  <2> QED BY <2>1, <2>2
<1> QED BY <1>1, <1>2, <1>3, <1>4 DEF Rank

\* The older, the higher the rank.
LEMMA RankFalls ==
    ASSUME NEW n \in Nat, NEW places \in SUBSET (1 .. n),
           NEW i \in places, NEW j \in places, i < j
    PROVE  Rank(places, j) < Rank(places, i)
<1> DEFINE high == {k \in places : k >= j}
           low == {k \in places : k >= i}
<1>1. IsFiniteSet(high) /\ IsFiniteSet(low)
  BY RankType, FS_Subset
<1>2. high \cup {i} \in SUBSET low /\ i \notin high
  <2>1. i \in Nat /\ j \in Nat /\ \A k \in places : k \in Nat
    OBVIOUS
  <2>2. i \in low /\ \A k \in high : k \in low
    BY <2>1
  <2>3. i \notin high
    BY <2>1
  <2> QED BY <2>2, <2>3
<1>3. /\ IsFiniteSet(high \cup {i})
      /\ Cardinality(high \cup {i}) = Cardinality(high) + 1
  BY <1>1, <1>2, FS_AddElement
<1>4. Cardinality(high) + 1 <= Cardinality(low)
  BY <1>1, <1>2, <1>3, FS_Subset
<1>5. Cardinality(high) \in Nat /\ Cardinality(low) \in Nat
  BY <1>1, FS_CardinalityType
<1> QED BY <1>4, <1>5 DEF Rank

\* Every number up to that of the messages is the rank of one.
LEMMA RankOnto ==
    ASSUME NEW n \in Nat, NEW places \in SUBSET (1 .. n),
           NEW k \in 1 .. Cardinality(places)
    PROVE  \E i \in places : Rank(places, i) = k
<1> DEFINE size == Cardinality(places)
           rank == [i \in places |-> Rank(places, i)]
<1>1. IsFiniteSet(places) /\ size \in Nat
  BY RankType
<1>2. \A i \in places : i \in Nat /\ Rank(places, i) \in 1 .. size
  <2> SUFFICES ASSUME NEW i \in places PROVE i \in Nat /\ Rank(places, i) \in 1 .. size
    OBVIOUS
  <2>1. i \in Nat
    OBVIOUS
  <2>2. Rank(places, i) \in 0 .. size /\ Rank(places, i) > 0
    BY <2>1, RankType
  <2> QED BY <1>1, <2>1, <2>2
<1>3. ASSUME NEW i \in places, NEW j \in places, rank[i] = rank[j] PROVE i = j
  <2>1. ~ (i < j) /\ ~ (j < i)
    <3>1. Rank(places, i) = Rank(places, j) /\ Rank(places, i) \in Nat
      BY <1>1, <1>2, <1>3
    <3> QED BY <3>1, RankFalls
  <2> QED BY <1>2, <2>1
<1>4. rank \in Injection(places, 1 .. size)
  <2>1. rank \in [places -> 1 .. size]
    BY <1>2
  <2> HIDE DEF rank
  <2> QED BY <2>1, <1>3 DEF Injection, IsInjective
<1>5. IsFiniteSet(1 .. size) /\ Cardinality(1 .. size) = size
  BY <1>1, FS_Interval
<1>6. rank \in Surjection(places, 1 .. size)
  BY <1>1, <1>4, <1>5, FS_Injection
<1>7. \E i \in places : rank[i] = k
  BY <1>6 DEF Surjection
<1> QED BY <1>7

\* A later message adds to the ranks of the earlier ones, if to any.
LEMMA RankGrows ==
    ASSUME NEW n \in Nat, NEW more \in SUBSET (1 .. n), NEW places \in SUBSET more, NEW i \in Nat
    PROVE  Rank(places, i) <= Rank(more, i)
<1> DEFINE few == {j \in places : j >= i}
           many == {j \in more : j >= i}
<1>1. IsFiniteSet(many)
  BY RankType, FS_Subset
<1>2. few \in SUBSET many
  OBVIOUS
<1> QED BY <1>1, <1>2, FS_Subset DEF Rank
-----------------------------------------------------------------------------
(***************************************************************************)
(* Pages.                                                                  *)
(***************************************************************************)

LEMMA MinOfTwo ==
    ASSUME NEW a \in Int, NEW b \in Int
    PROVE  Min({a, b}) = IF a <= b THEN a ELSE b
<1> DEFINE m == IF a <= b THEN a ELSE b
<1>1. m \in {a, b} /\ \A y \in {a, b} : m <= y
  OBVIOUS
<1>2. \A x \in {a, b} : (\A y \in {a, b} : x <= y) => x = m
  OBVIOUS
<1> HIDE DEF m
<1>3. Min({a, b}) = m
  BY <1>1, <1>2 DEF Min
<1> QED BY <1>3 DEF m

\* The first n messages.
Oldest(messages, n) == [i \in 1 .. n |-> messages[i]]

\* The places of a chat in them.
PlacesIn(messages, n, chat_id) == {i \in 1 .. n : messages[i].chat_id = chat_id}

LEMMA OldestPlaces ==
    ASSUME NEW messages, NEW n \in Nat, NEW chat_id
    PROVE  /\ OfChat(Oldest(messages, n), chat_id) = PlacesIn(messages, n, chat_id)
           /\ PlacesIn(messages, n, chat_id) \in SUBSET (1 .. n)
  BY DEF OfChat, Oldest, PlacesIn

\* The list of a chat: its messages by rank.
LEMMA NewestFirstRanks ==
    ASSUME NEW messages, NEW n \in Nat, NEW chat_id
    PROVE  LET places == PlacesIn(messages, n, chat_id)
               rows == NewestFirst(Oldest(messages, n), chat_id)
           IN  /\ Cardinality(places) \in Nat
               /\ Len(rows) = Cardinality(places)
               /\ \A k \in 1 .. Cardinality(places) :
                     \E i \in places : rows[k] = messages[i] /\ Rank(places, i) = k
<1> DEFINE places == PlacesIn(messages, n, chat_id)
           rows == NewestFirst(Oldest(messages, n), chat_id)
           size == Cardinality(places)
           row(k) == CHOOSE i \in places : Rank(places, i) = k
<1>1. places = OfChat(Oldest(messages, n), chat_id) /\ places \in SUBSET (1 .. n)
  BY OldestPlaces
<1>2. size \in Nat
  BY <1>1, RankType
<1>3. rows = [k \in 1 .. size |-> Oldest(messages, n)[row(k)]]
  BY <1>1 DEF NewestFirst
<1>4. ASSUME NEW k \in 1 .. size
      PROVE  row(k) \in places /\ Rank(places, row(k)) = k
  BY <1>1, RankOnto
<1>5. Len(rows) = size
  BY <1>2, <1>3
<1>6. ASSUME NEW k \in 1 .. size
      PROVE  rows[k] = messages[row(k)]
  <2>1. rows[k] = Oldest(messages, n)[row(k)]
    BY <1>3
  <2>2. row(k) \in 1 .. n
    BY <1>1, <1>4
  <2> QED BY <2>1, <2>2 DEF Oldest
<1> QED BY <1>2, <1>4, <1>5, <1>6

\* A page: the messages of ranks offset + 1, offset + 2 and so on.
LEMMA PageRanks ==
    ASSUME NEW messages, NEW n \in Nat, NEW req,
           req.limit \in Nat, req.offset \in Nat
    PROVE  LET places == PlacesIn(messages, n, req.chat_id)
               total == Cardinality(places)
               rows == Page(Oldest(messages, n), req)
           IN  /\ total \in Nat /\ Len(rows) \in Nat
               /\ rows = [k \in 1 .. Len(rows) |-> rows[k]]
               /\ Len(rows) = IF total <= req.offset THEN 0
                              ELSE IF req.limit <= total - req.offset THEN req.limit
                              ELSE total - req.offset
               /\ \A k \in 1 .. Len(rows) :
                     \E i \in places : /\ rows[k] = ReadMessage(messages[i])
                                       /\ Rank(places, i) = req.offset + k
<1> DEFINE places == PlacesIn(messages, n, req.chat_id)
           total == Cardinality(places)
           list == NewestFirst(Oldest(messages, n), req.chat_id)
           rows == Page(Oldest(messages, n), req)
           skip == Min({req.offset, Len(list)})
           size == Min({req.limit, Len(list) - skip})
<1>1. /\ total \in Nat /\ Len(list) = total
      /\ \A k \in 1 .. total :
            \E i \in places : list[k] = messages[i] /\ Rank(places, i) = k
  BY NewestFirstRanks
<1>2. rows = [k \in 1 .. size |-> ReadMessage(list[req.offset + k])]
  BY DEF Page
<1> HIDE DEF list, rows, places
<1>3. skip = IF req.offset <= total THEN req.offset ELSE total
  BY <1>1, MinOfTwo
<1>4. size = IF req.limit <= total - skip THEN req.limit ELSE total - skip
  <2>1. skip \in Int /\ Len(list) - skip = total - skip
    BY <1>1, <1>3
  <2> QED BY <1>1, <2>1, MinOfTwo
<1> HIDE DEF skip, size, total
<1>5. /\ size = IF total <= req.offset THEN 0
                ELSE IF req.limit <= total - req.offset THEN req.limit
                ELSE total - req.offset
      /\ size \in Nat
  BY <1>1, <1>3, <1>4
<1>6. Len(rows) = size
  BY <1>2, <1>5
<1>7. ASSUME NEW k \in 1 .. size
      PROVE  \E i \in places : /\ rows[k] = ReadMessage(messages[i])
                                /\ Rank(places, i) = req.offset + k
  <2>1. req.offset + k \in 1 .. total
    BY <1>1, <1>5
  <2>2. rows[k] = ReadMessage(list[req.offset + k])
    BY <1>2
  <2> QED BY <1>1, <2>1, <2>2
<1> QED BY <1>1, <1>2, <1>5, <1>6, <1>7 DEF list, rows, places, total

\* A page of a chat that has total messages.
Sized(rows, total, req) ==
    /\ Len(rows) \in Nat
    /\ Len(rows) = IF total <= req.offset THEN 0
                   ELSE IF req.limit <= total - req.offset THEN req.limit
                   ELSE total - req.offset

LEMMA PageSize ==
    ASSUME NEW messages, NEW n \in Nat, NEW req,
           req.limit \in Nat, req.offset \in Nat,
           NEW rows, rows = Page(Oldest(messages, n), req)
    PROVE  Sized(rows, Cardinality(PlacesIn(messages, n, req.chat_id)), req)
  BY PageRanks DEF Sized

\* Row k of a page is the message of the rank that the page has there.
RowFound(rows, k, messages, n, req) ==
    LET places == PlacesIn(messages, n, req.chat_id)
    IN  \E i \in places : /\ rows[k] = ReadMessage(messages[i])
                          /\ Rank(places, i) = req.offset + k

LEMMA PageRow ==
    ASSUME NEW messages, NEW n \in Nat, NEW req,
           req.limit \in Nat, req.offset \in Nat,
           NEW rows, rows = Page(Oldest(messages, n), req),
           NEW k \in 1 .. Len(rows)
    PROVE  RowFound(rows, k, messages, n, req)
  BY PageRanks DEF RowFound

\* p is the place of the last row of a page of the n oldest messages.
EndsAt(rows, messages, n, req, p) ==
    LET places == PlacesIn(messages, n, req.chat_id)
    IN  /\ p \in places /\ Last(rows) = ReadMessage(messages[p])
        /\ Rank(places, p) = req.offset + Len(rows)

LEMMA PageEnds ==
    ASSUME NEW messages, NEW n \in Nat, NEW req,
           req.limit \in Nat, req.offset \in Nat,
           NEW rows, rows = Page(Oldest(messages, n), req), rows # <<>>
    PROVE  \E p : EndsAt(rows, messages, n, req, p)
<1>1. Len(rows) \in Nat /\ rows = [k \in 1 .. Len(rows) |-> rows[k]]
  BY PageRanks
<1>2. Len(rows) # 0
  BY <1>1
<1>3. Len(rows) \in 1 .. Len(rows)
  BY <1>1, <1>2
<1>4. RowFound(rows, Len(rows), messages, n, req)
  BY <1>3, PageRow
<1> QED BY <1>4 DEF RowFound, Last, EndsAt

\* The next page: it starts where the first one ends, and has room for a row.
GoesOn(rb, ra) == rb.chat_id = ra.chat_id /\ rb.offset = ra.offset + ra.limit /\ rb.limit > 0

\* A page of the n oldest messages goes back to place i, or further on.
StartsFrom(rows, messages, n, i) ==
    Len(rows) > 0 /\ \E q \in 1 .. n : rows[1] = ReadMessage(messages[q]) /\ i <= q

\* A page taken when there are nb messages goes on where one taken when there
\* were na ended, and leaves none of those before it out.
LEMMA PagesMeet ==
    ASSUME NEW messages, NEW na \in Nat, NEW nb \in Nat, na <= nb,
           NEW ra, ra.limit \in Nat, ra.offset \in Nat,
           NEW rb, rb.limit \in Nat, rb.offset \in Nat, GoesOn(rb, ra),
           NEW first, first = Page(Oldest(messages, na), ra),
           NEW next, next = Page(Oldest(messages, nb), rb),
           NEW p, EndsAt(first, messages, na, ra, p),
           NEW i \in PlacesIn(messages, na, ra.chat_id), i < p
    PROVE  StartsFrom(next, messages, nb, i)
<1> DEFINE before == PlacesIn(messages, na, ra.chat_id)
           after == PlacesIn(messages, nb, rb.chat_id)
<1>1. /\ before \in SUBSET (1 .. na) /\ after \in SUBSET (1 .. nb)
      /\ before \in SUBSET after /\ p \in before
  BY DEF PlacesIn, GoesOn, EndsAt
<1>2. /\ i \in Nat /\ p \in Nat
      /\ Rank(before, i) \in 0 .. Cardinality(before) /\ Cardinality(before) \in Nat
      /\ Rank(before, p) \in Nat
  <2>1. i \in Nat /\ p \in Nat
    BY <1>1
  <2>2. Rank(before, i) \in 0 .. Cardinality(before) /\ Cardinality(before) \in Nat
    BY <1>1, <2>1, RankType
  <2>3. Rank(before, p) \in 0 .. Cardinality(before)
    BY <1>1, <2>1, RankType
  <2> QED BY <2>1, <2>2, <2>3
<1>3. Rank(before, p) < Rank(before, i) /\ Rank(before, p) = ra.offset + Len(first)
  BY <1>1, RankFalls DEF EndsAt
<1>4. Sized(first, Cardinality(before), ra)
  BY PageSize
<1>5. Len(first) = ra.limit
  BY <1>2, <1>3, <1>4 DEF Sized
<1>6. Rank(before, i) > rb.offset
  BY <1>2, <1>3, <1>5 DEF GoesOn
<1>7. /\ Rank(after, i) \in 0 .. Cardinality(after) /\ Cardinality(after) \in Nat
      /\ Rank(before, i) <= Rank(after, i)
  BY <1>1, <1>2, RankType, RankGrows
<1>8. Rank(after, i) > rb.offset /\ Cardinality(after) > rb.offset
  BY <1>2, <1>6, <1>7
<1>9. Sized(next, Cardinality(after), rb)
  BY PageSize
<1>10. Len(next) \in Nat /\ Len(next) > 0
  BY <1>7, <1>8, <1>9 DEF Sized, GoesOn
<1>11. PICK q \in after : next[1] = ReadMessage(messages[q]) /\ Rank(after, q) = rb.offset + 1
  <2>1. 1 \in 1 .. Len(next)
    BY <1>10
  <2>2. RowFound(next, 1, messages, nb, rb)
    BY <2>1, PageRow
  <2> QED BY <2>2 DEF RowFound
<1>12. q \in 1 .. nb /\ i \in after
  BY <1>1
<1>13. ~ (q < i)
  <2>1. q < i => Rank(after, i) < Rank(after, q)
    BY <1>1, <1>12, RankFalls
  <2> QED BY <2>1, <1>7, <1>8, <1>11
<1>14. i <= q
  BY <1>2, <1>12, <1>13
<1> QED BY <1>10, <1>11, <1>12, <1>14 DEF StartsFrom

-----------------------------------------------------------------------------
(***************************************************************************)
(* The invariant.                                                          *)
(***************************************************************************)

\* Answer k is a page, if of GetHistory, of the n oldest messages.
IsPageOf(k, n) ==
    LET req == asked[Answers[k].id]
    IN  req.rpc = "GetHistory" /\ Answers[k].status = "OK" =>
          /\ req.limit \in Nat /\ req.offset \in Nat
          /\ Answers[k].rows = Page(Oldest(tables.messages, n), req)

\* seen[k] messages were stored when answer k was given.
Dated(seen) == \A k \in 1 .. Len(Answers) :
    /\ seen[k] \in 0 .. Len(tables.messages)
    /\ IsPageOf(k, seen[k])
    /\ \A j \in 1 .. k : seen[j] <= seen[k]

PagesDated == \E seen \in [1 .. Len(Answers) -> 0 .. Len(tables.messages)] : Dated(seen)

\* A message is stored once.
Once == \A i, j \in 1 .. Len(tables.messages) :
    tables.messages[i].id = tables.messages[j].id => i = j

\* A message is in the chat, of the sender and with the ciphertext that its call
\* names.
AsSent == \A i \in 1 .. Len(tables.messages) :
    tables.messages[i] = MessageRow(tables.messages[i].id, asked[tables.messages[i].id])

\* A call is answered after the answers there were when it was made.
AnsweredLater == \A k \in 1 .. Len(replies) : replies[k].after \in 0 .. k - 1

HistoryInv == PagesDated /\ Once /\ AsSent /\ AnsweredLater

-----------------------------------------------------------------------------
(***************************************************************************)
(* The steps.                                                              *)
(***************************************************************************)

\* A step stores nothing, or the message of a call that had none stored.
LEMMA MessageSent ==
    ASSUME ServerInv, [Atomic!Next]_Atomic!vars
    PROVE  \/ tables'.messages = tables.messages
           \/ \E id \in Id :
                /\ ~ Atomic!Sent(id)
                /\ tables'.messages = Append(tables.messages, MessageRow(id, asked[id]))
<1>1. IsDatabase(tables)
  BY DEF ServerInv, Types
<1>2. \/ tables' = tables
      \/ \E id \in Id : \/ Atomic!Register(id) \/ Atomic!UploadPreKey(id)
                        \/ Atomic!CreateChat(id) \/ Atomic!SendMessage(id)
  BY DEF Atomic!Next, Atomic!vars, Atomic!Ask, Atomic!Apply, Atomic!Reply, Atomic!Call, Id
<1>3. ASSUME NEW id, Atomic!Register(id) \/ Atomic!UploadPreKey(id) \/ Atomic!CreateChat(id)
      PROVE  tables'.messages = tables.messages
  BY <1>1, <1>3 DEF Atomic!Register, Atomic!UploadPreKey, Atomic!CreateChat, IsDatabase
<1>4. ASSUME NEW id, Atomic!SendMessage(id)
      PROVE  /\ ~ Atomic!Sent(id)
             /\ tables'.messages = Append(tables.messages, MessageRow(id, asked[id]))
  BY <1>1, <1>4, SameRows DEF Atomic!SendMessage, IsDatabase
<1> QED BY <1>2, <1>3, <1>4

\* The messages stay where they are; a new one comes after them.
LEMMA MessagesAfter ==
    ASSUME ServerInv, [Atomic!Next]_Atomic!vars
    PROVE  LET old == tables.messages
               new == tables'.messages
           IN  /\ Len(old) \in Nat /\ Len(new) \in Nat
               /\ \A i \in 1 .. Len(old) : new[i] = old[i]
               /\ \/ Len(new) = Len(old)
                  \/ /\ Len(new) = Len(old) + 1
                     /\ \A i \in 1 .. Len(old) : old[i].id # new[Len(new)].id
<1>1. IsDatabase(tables)
  BY DEF ServerInv, Types
<1>2. Len(tables.messages) \in Nat
  BY <1>1 DEF IsDatabase, IsSeq
<1>3. \/ tables'.messages = tables.messages
      \/ \E id : /\ ~ Atomic!Sent(id)
                 /\ tables'.messages = Append(tables.messages, MessageRow(id, asked[id]))
  BY MessageSent
<1>4. ASSUME NEW id, ~ Atomic!Sent(id),
             tables'.messages = Append(tables.messages, MessageRow(id, asked[id]))
      PROVE  /\ Len(tables'.messages) = Len(tables.messages) + 1
             /\ \A i \in 1 .. Len(tables.messages) : tables'.messages[i] = tables.messages[i]
             /\ \A i \in 1 .. Len(tables.messages) :
                   tables.messages[i].id # tables'.messages[Len(tables'.messages)].id
  <2> DEFINE row == MessageRow(id, asked[id])
  <2>1. row.id = id
    BY DEF MessageRow
  <2>2. \A i \in 1 .. Len(tables.messages) : tables.messages[i].id # id
    BY <1>4 DEF Atomic!Sent
  <2> HIDE DEF row
  <2>3. /\ Len(tables'.messages) = Len(tables.messages) + 1
        /\ \A i \in 1 .. Len(tables.messages) : tables'.messages[i] = tables.messages[i]
        /\ tables'.messages[Len(tables.messages) + 1] = row
    BY <1>1, <1>4, Appended DEF IsDatabase, row
  <2> QED BY <2>1, <2>2, <2>3
<1> QED BY <1>2, <1>3, <1>4

\* The answers stay as they are; a new one comes after them.
LEMMA AnswersTail ==
    ASSUME ServerInv, [Atomic!Next]_Atomic!vars
    PROVE  /\ Len(Answers) \in Nat
           /\ \/ Answers' = Answers
              \/ /\ Len(Answers') = Len(Answers) + 1
                 /\ \A k \in 1 .. Len(Answers) : Answers'[k] = Answers[k]
<1>1. IsSeq(Answers) /\ Len(Answers) \in Nat
  BY AnswersSeq
<1>2. Answers' = Answers \/ \E a : Answers' = Append(Answers, a)
  BY DEF Atomic!Next, Atomic!vars, Atomic!Ask, Atomic!Apply, Atomic!Reply, Atomic!Give
<1> HIDE DEF Answers
<1> QED BY <1>1, <1>2, Appended

\* A page does not change when later messages come.
LEMMA PageStays ==
    ASSUME ServerInv, [Atomic!Next]_Atomic!vars,
           NEW k \in 1 .. Len(Answers), Answers'[k] = Answers[k],
           NEW n \in 0 .. Len(tables.messages), IsPageOf(k, n)
    PROVE  IsPageOf(k, n)'
<1>1. asked'[Answers[k].id] = asked[Answers[k].id]
  BY AnsweredAsked, AskedGrows
<1>2. Oldest(tables'.messages, n) = Oldest(tables.messages, n)
  <2>1. \A i \in 1 .. n : tables'.messages[i] = tables.messages[i]
    BY MessagesAfter
  <2> QED BY <2>1 DEF Oldest
<1> QED BY <1>1, <1>2 DEF IsPageOf

\* A page that is answered is one of all the messages there are.
LEMMA PageGiven ==
    ASSUME ServerInv, [Atomic!Next]_Atomic!vars, Len(Answers') = Len(Answers) + 1,
           NEW k, k = Len(Answers'), NEW n, n = Len(tables'.messages)
    PROVE  IsPageOf(k, n)'
<1>1. Len(Answers) \in Nat /\ k \in 1 .. Len(Answers') /\ k \notin 1 .. Len(Answers)
  BY AnswersTail
<1> SUFFICES ASSUME NEW req, req = asked'[Answers'[k].id],
                    req.rpc = "GetHistory", Answers'[k].status = "OK"
             PROVE  /\ req.limit \in Nat /\ req.offset \in Nat
                    /\ Answers'[k].rows = Page(Oldest(tables'.messages, n), req)
  BY DEF IsPageOf
<1>2. ASSUME NEW id \in Id, Atomic!Apply(id),
             Answers'[k] = [id |-> id, status |-> "OK", rows |-> <<>>]
      PROVE  FALSE
  <2>1. req = asked[id]
    BY <1>2 DEF Atomic!Apply
  <2> QED BY <1>2, <2>1 DEF Atomic!Apply, Atomic!Register, Atomic!UploadPreKey,
             Atomic!CreateChat, Atomic!SendMessage
<1>3. ASSUME NEW id \in Id, NEW answer \in Atomic!Answers(id),
             Answers'[k] = [id |-> id, status |-> answer.status, rows |-> answer.rows],
             asked' = asked, tables' = tables
      PROVE  /\ req.limit \in Nat /\ req.offset \in Nat
             /\ Answers'[k].rows = Page(Oldest(tables'.messages, n), req)
  <2>1. /\ req = asked[id] /\ answer.status = "OK" /\ Answers'[k].rows = answer.rows
    BY <1>3
  <2>2. Atomic!Answers(id) = Atomic!GetHistoryAnswers(req) \cup {Atomic!Error("INTERNAL")}
    BY <2>1 DEF Atomic!Answers
  <2>3. answer \in Atomic!GetHistoryAnswers(req)
    BY <1>3, <2>1, <2>2 DEF Atomic!Error
  <2>4. /\ ~ (req.limit < 0) /\ ~ (req.offset < 0)
        /\ answer.rows = Page(tables.messages, req)
    BY <2>3, SamePage DEF Atomic!GetHistoryAnswers, Atomic!Ok
  <2>5. req.limit \in Int /\ req.offset \in Int
    <3>1. req \in Request
      BY <2>1 DEF ServerInv, Types, Id
    <3> QED BY <3>1, PageAssumption
  <2>6. Oldest(tables.messages, n) = tables.messages
    BY <1>3 DEF ServerInv, Types, IsDatabase, IsSeq, Oldest
  <2> QED BY <1>3, <2>1, <2>4, <2>5, <2>6
<1> QED BY <1>1, <1>2, <1>3, AnswersAfter

LEMMA PagesDatedKept ==
    ASSUME ServerInv, PagesDated, [Atomic!Next]_Atomic!vars
    PROVE  PagesDated'
<1>1. PICK m : m = Len(Answers) /\ m \in Nat
  BY AnswersSeq
<1>2. PICK n : /\ n = Len(tables'.messages) /\ n \in Nat
               /\ Len(tables.messages) \in Nat /\ Len(tables.messages) <= n
  BY MessagesAfter
<1>3. PICK seen \in [1 .. m -> 0 .. Len(tables.messages)] : Dated(seen)
  BY <1>1 DEF PagesDated
<1>4. \A k \in 1 .. m : seen[k] \in 0 .. n
  BY <1>2, <1>3
<1>5. ASSUME NEW k \in 1 .. m, Answers'[k] = Answers[k]
      PROVE  IsPageOf(k, seen[k])' /\ \A j \in 1 .. k : seen[j] <= seen[k]
  <2>1. /\ k \in 1 .. Len(Answers)
        /\ seen[k] \in 0 .. Len(tables.messages) /\ IsPageOf(k, seen[k])
        /\ \A j \in 1 .. k : seen[j] <= seen[k]
    BY <1>1, <1>3 DEF Dated
  <2> QED BY <1>5, <2>1, PageStays
<1>6. CASE Answers' = Answers
  <2>1. seen \in [1 .. m -> 0 .. n]
    BY <1>3, <1>4
  <2>2. Dated(seen)'
    BY <1>1, <1>2, <1>4, <1>5, <1>6 DEF Dated
  <2> QED BY <1>1, <1>2, <1>6, <2>1, <2>2 DEF PagesDated
<1>7. CASE Len(Answers') = m + 1 /\ \A k \in 1 .. m : Answers'[k] = Answers[k]
  <2>1. PICK dates : dates = [k \in 1 .. m + 1 |-> IF k <= m THEN seen[k] ELSE n]
    OBVIOUS
  <2>2. /\ \A k \in 1 .. m : dates[k] = seen[k]
        /\ dates[m + 1] = n
        /\ dates \in [1 .. m + 1 -> 0 .. n]
    BY <1>1, <1>2, <1>4, <2>1
  <2>3. IsPageOf(m + 1, n)'
    <3>1. PICK k : k = m + 1
      OBVIOUS
    <3>2. IsPageOf(k, n)'
      BY <1>1, <1>2, <1>7, <3>1, PageGiven
    <3> QED BY <3>1, <3>2
  <2>4. ASSUME NEW k \in 1 .. m + 1
        PROVE  /\ dates[k] \in 0 .. n
               /\ IsPageOf(k, dates[k])'
               /\ \A j \in 1 .. k : dates[j] <= dates[k]
    <3>1. CASE k \in 1 .. m
      <4>1. IsPageOf(k, seen[k])' /\ \A j \in 1 .. k : seen[j] <= seen[k]
        BY <1>5, <1>7, <3>1
      <4>2. \A j \in 1 .. k : dates[j] = seen[j]
        BY <1>1, <2>2, <3>1
      <4>3. dates[k] = seen[k]
        BY <2>2, <3>1
      <4> QED BY <1>4, <3>1, <4>1, <4>2, <4>3
    <3>2. CASE k = m + 1
      <4>1. \A j \in 1 .. k : j \in 1 .. m \/ j = m + 1
        BY <1>1, <3>2
      <4>2. IsPageOf(k, dates[k])'
        BY <2>2, <2>3, <3>2
      <4>3. \A j \in 1 .. k : dates[j] <= n
        BY <1>2, <1>4, <2>2, <4>1
      <4> QED BY <1>2, <2>2, <3>2, <4>2, <4>3
    <3> QED BY <1>1, <3>1, <3>2
  <2>5. Dated(dates)'
    BY <1>2, <1>7, <2>4 DEF Dated
  <2> QED BY <1>2, <1>7, <2>2, <2>5 DEF PagesDated
<1> QED BY <1>1, <1>6, <1>7, AnswersTail

LEMMA OnceKept ==
    ASSUME ServerInv, Once, [Atomic!Next]_Atomic!vars
    PROVE  Once'
<1> DEFINE m == Len(tables.messages)
           n == Len(tables'.messages)
<1>1. /\ m \in Nat /\ n \in Nat
      /\ \A i \in 1 .. m : tables'.messages[i] = tables.messages[i]
      /\ \/ n = m
         \/ n = m + 1 /\ \A i \in 1 .. m : tables.messages[i].id # tables'.messages[n].id
  BY MessagesAfter
<1>2. \A i, j \in 1 .. m : tables.messages[i].id = tables.messages[j].id => i = j
  BY DEF Once
<1> HIDE DEF m, n
<1>3. ASSUME NEW i \in 1 .. n, NEW j \in 1 .. n,
             tables'.messages[i].id = tables'.messages[j].id
      PROVE  i = j
  <2>1. /\ i \in 1 .. m \/ i = n
        /\ j \in 1 .. m \/ j = n
    BY <1>1
  <2> QED BY <1>1, <1>2, <1>3, <2>1
<1> QED BY <1>3 DEF Once, n

LEMMA SentFields ==
    ASSUME AsSent, NEW i \in 1 .. Len(tables.messages),
           NEW id, id = tables.messages[i].id
    PROVE  /\ tables.messages[i].chat_id = asked[id].chat_id
           /\ tables.messages[i].sender = asked[id].sender
           /\ tables.messages[i].ciphertext = asked[id].ciphertext
<1>1. PICK row : row = tables.messages[i]
  OBVIOUS
<1>2. row = MessageRow(id, asked[id])
  BY <1>1 DEF AsSent
<1>3. /\ row.chat_id = asked[id].chat_id
      /\ row.sender = asked[id].sender
      /\ row.ciphertext = asked[id].ciphertext
  BY <1>2 DEF MessageRow
<1> QED BY <1>1, <1>3

LEMMA AsSentKept ==
    ASSUME ServerInv, AsSent, [Atomic!Next]_Atomic!vars
    PROVE  AsSent'
<1> DEFINE sent(row) == row = MessageRow(row.id, asked'[row.id])
<1>1. PICK m : m = Len(tables.messages) /\ m \in Nat
  BY MessagesAfter
<1>2. \A i \in 1 .. m : sent(tables.messages[i])
  BY <1>1, AskedGrows DEF AsSent, ServerInv, Messages
<1>3. ASSUME NEW id \in Id, NEW row, row = MessageRow(id, asked[id]),
             tables'.messages = Append(tables.messages, row),
             NEW i \in 1 .. Len(tables'.messages)
      PROVE  sent(tables'.messages[i])
  <2>1. /\ Len(tables'.messages) = m + 1
        /\ \A k \in 1 .. m : tables'.messages[k] = tables.messages[k]
        /\ tables'.messages[m + 1] = row
    BY <1>1, <1>3, Appended DEF ServerInv, Types, IsDatabase
  <2>2. row.id = id /\ asked'[id] = asked[id]
    BY <1>3, AskedGrows DEF MessageRow
  <2>3. CASE i \in 1 .. m
    BY <1>2, <2>1, <2>3
  <2>4. CASE i = m + 1
    BY <1>3, <2>1, <2>2, <2>4
  <2> QED BY <1>1, <2>1, <2>3, <2>4
<1>4. CASE tables'.messages = tables.messages
  BY <1>1, <1>2, <1>4 DEF AsSent
<1>5. ASSUME NEW id \in Id,
             tables'.messages = Append(tables.messages, MessageRow(id, asked[id]))
      PROVE  AsSent'
  BY <1>3, <1>5 DEF AsSent
<1> QED BY <1>4, <1>5, MessageSent

\* An answer is given by the handler that serves the call.
GivenBy(h) == Serving(h) /\ \E status, rows : Answer(h, status, rows)

LEMMA RepliesAfter ==
    ASSUME [SerialNext]_vars
    PROVE  replies' = replies \/ \E h \in Handler : GivenBy(h)
<1>1. ASSUME NEW h \in Handler, Serving(h), Proceed(h)
      PROVE  replies' = replies \/ GivenBy(h)
  BY <1>1 DEF Proceed, GivenBy
<1>2. ASSUME NEW h \in Handler, Serving(h), NEW status, NEW rows, Leave(h, status, rows)
      PROVE  GivenBy(h)
  BY <1>2 DEF Leave, GivenBy
<1>3. ASSUME NEW h \in Handler, Serving(h), NEW w, Exec(h, w)
      PROVE  replies' = replies \/ GivenBy(h)
  BY <1>1, <1>3 DEF Exec
<1>4. ASSUME NEW h \in Handler, Begin(h) \/ Refresh(h) \/ Commit(h) \/ Publish(h)
      PROVE  replies' = replies \/ GivenBy(h)
  <2>1. Serving(h)
    BY <1>4 DEF Begin, Refresh, Commit, Publish, At
  <2>2. CASE Begin(h)
    BY <1>1, <2>1, <2>2 DEF Begin, RegisterTransaction, GivenBy
  <2>3. CASE Refresh(h) \/ Commit(h) \/ Publish(h)
    BY <1>1, <2>1, <2>3 DEF Refresh, Commit, Publish
  <2> QED BY <1>4, <2>2, <2>3
<1>5. ASSUME NEW h \in Handler,
             \/ InsertUser(h) \/ InsertPreKey(h) \/ InsertMember(h) \/ InsertMessage(h)
             \/ UploadPreKey(h) \/ InsertChat(h)
      PROVE  replies' = replies \/ GivenBy(h)
  <2>1. Serving(h)
    BY <1>5 DEF InsertUser, InsertPreKey, InsertMember, InsertMessage, UploadPreKey,
       InsertChat, At
  <2>2. (\E w : Exec(h, w)) \/ Leave(h, "INTERNAL", <<>>)
    BY <1>5 DEF InsertUser, InsertPreKey, InsertMember, InsertMessage, UploadPreKey, InsertChat
  <2> QED BY <1>2, <1>3, <2>1, <2>2
<1>6. ASSUME NEW h \in Handler, SelectHash(h) \/ GetPreKey(h) \/ GetHistory(h) \/ Broken(h)
      PROVE  GivenBy(h)
  <2>1. Serving(h)
    BY <1>6 DEF SelectHash, GetPreKey, GetHistory, Broken, At
  <2>2. \E status, rows : Leave(h, status, rows) \/ Answer(h, status, rows)
    BY <1>6 DEF SelectHash, GetPreKey, GetHistory, Broken
  <2> QED BY <2>1, <2>2 DEF Leave, GivenBy
<1>7. ASSUME NEW h \in Handler, NEW req \in Request, Accept(h, req)
      PROVE  replies' = replies
  BY <1>7 DEF Accept
<1>8. LoseConnection \/ Restart => replies' = replies
  BY DEF LoseConnection, Restart
<1>9. ASSUME NEW h \in Handler, Step(h)
      PROVE  replies' = replies \/ GivenBy(h)
  BY <1>4, <1>5, <1>6, <1>7, <1>9 DEF Step
<1> QED BY <1>4, <1>8, <1>9 DEF SerialNext, vars

LEMMA AnsweredLaterKept ==
    ASSUME ServerInv, AnsweredLater, [SerialNext]_vars
    PROVE  AnsweredLater'
<1>1. CASE replies' = replies
  BY <1>1 DEF AnsweredLater
<1>2. ASSUME NEW h \in Handler, GivenBy(h)
      PROVE  AnsweredLater'
  <2>1. PICK r : replies' = Append(replies, r) /\ r.after = call[h].after
    BY <1>2 DEF GivenBy, Answer
  <2>2. r.after \in 0 .. Len(replies)
    BY <1>2, <2>1 DEF GivenBy, ServerInv, Places
  <2>3. /\ Len(replies) \in Nat /\ Len(replies') = Len(replies) + 1
        /\ \A k \in 1 .. Len(replies) : replies'[k] = replies[k]
        /\ replies'[Len(replies) + 1] = r
    BY <2>1, Appended DEF ServerInv, Types
  <2>4. ASSUME NEW k \in 1 .. Len(replies')
        PROVE  replies'[k].after \in 0 .. k - 1
    <3>1. CASE k \in 1 .. Len(replies)
      BY <2>3, <3>1 DEF AnsweredLater
    <3>2. CASE k = Len(replies) + 1
      BY <2>2, <2>3, <3>2
    <3> QED BY <2>3, <3>1, <3>2
  <2> QED BY <2>4 DEF AnsweredLater
<1> QED BY <1>1, <1>2, RepliesAfter

LEMMA InitHistory == Init => HistoryInv
<1> SUFFICES ASSUME Init PROVE HistoryInv
  OBVIOUS
<1>1. Len(Answers) = 0 /\ Len(replies) = 0 /\ Len(tables.messages) = 0
  BY DEF Init, EmptyTables, Answers
<1>2. PagesDated
  <2>1. PICK seen : seen = [k \in 1 .. 0 |-> 0]
    OBVIOUS
  <2>2. seen \in [1 .. 0 -> 0 .. 0] /\ Dated(seen)
    BY <1>1, <2>1 DEF Dated
  <2> QED BY <1>1, <2>2 DEF PagesDated
<1> QED BY <1>1, <1>2 DEF HistoryInv, Once, AsSent, AnsweredLater

LEMMA HistoryHolds == SerialSpec => [](ServerInv /\ HistoryInv)
<1>1. ServerInv /\ HistoryInv /\ [SerialNext]_vars => ServerInv' /\ HistoryInv'
  BY NextInv, NextRefined, PagesDatedKept, OnceKept, AsSentKept, AnsweredLaterKept DEF HistoryInv
<1> QED BY <1>1, InitInv, InitHistory, PTL DEF SerialSpec

-----------------------------------------------------------------------------
(***************************************************************************)
(* What the runs check of the pages.                                       *)
(***************************************************************************)

\* A page that was answered, with the number of messages there were.
LEMMA PageTaken ==
    ASSUME ServerInv, NEW seen, Dated(seen), NEW k \in 1 .. Len(replies), IsPage(k),
           NEW req, req = asked[replies[k].id]
    PROVE  /\ seen[k] \in 0 .. Len(tables.messages) /\ Len(tables.messages) \in Nat
           /\ req.limit \in Nat /\ req.offset \in Nat
           /\ replies[k].rows = Page(Oldest(tables.messages, seen[k]), req)
<1>1. /\ k \in 1 .. Len(Answers) /\ Answers[k].status = replies[k].status
      /\ Answers[k].id = replies[k].id /\ Answers[k].rows = replies[k].rows
  BY AnswersSeq DEF Answers
<1>2. seen[k] \in 0 .. Len(tables.messages) /\ IsPageOf(k, seen[k])
  BY <1>1 DEF Dated
<1>3. Len(tables.messages) \in Nat
  BY DEF ServerInv, Types, IsDatabase, IsSeq
<1> QED BY <1>1, <1>2, <1>3 DEF IsPageOf, IsPage

LEMMA PlaceFound ==
    ASSUME Once, NEW p \in 1 .. Len(tables.messages),
           NEW message, message = ReadMessage(tables.messages[p])
    PROVE  Position(message) = p
<1>1. message.id = tables.messages[p].id
  BY DEF ReadMessage
<1>2. \A i \in 1 .. Len(tables.messages) : tables.messages[i].id = message.id => i = p
  BY <1>1 DEF Once
<1> QED BY <1>1, <1>2 DEF Position

\* What GetHistory returns is committed: a message that was seen stays, whatever
\* restarts and lost connections do, and is the one that was sent, in the chat
\* that was asked for, but for its ciphertext, which is returned as text.
THEOREM HistoryStaysCommitted == SerialSpec => []HistoryIsCommitted
<1>1. ServerInv /\ HistoryInv => HistoryIsCommitted
  <2> SUFFICES ASSUME ServerInv, HistoryInv, NEW k \in 1 .. Len(replies), IsPage(k),
                      NEW i \in 1 .. Len(replies[k].rows),
                      NEW message, message = replies[k].rows[i],
                      NEW sent, sent = asked[message.id]
               PROVE  /\ MessageStored(message.id)
                      /\ message.chat_id = asked[replies[k].id].chat_id
                      /\ message.chat_id = sent.chat_id
                      /\ message.sender = sent.sender
                      /\ message.ciphertext = Hex(sent.ciphertext)
    BY DEF HistoryIsCommitted
  <2>1. PICK seen : Dated(seen)
    BY DEF HistoryInv, PagesDated
  <2>2. PICK req : req = asked[replies[k].id]
    OBVIOUS
  <2>3. PICK n : n = seen[k]
    OBVIOUS
  <2>4. /\ n \in 0 .. Len(tables.messages) /\ n \in Nat
        /\ req.limit \in Nat /\ req.offset \in Nat
        /\ replies[k].rows = Page(Oldest(tables.messages, n), req)
    BY <2>1, <2>2, <2>3, PageTaken
  <2>5. RowFound(replies[k].rows, i, tables.messages, n, req)
    BY <2>4, PageRow
  <2>6. PICK q \in PlacesIn(tables.messages, n, req.chat_id) :
            message = ReadMessage(tables.messages[q])
    BY <2>5 DEF RowFound
  <2>7. q \in 1 .. Len(tables.messages) /\ tables.messages[q].chat_id = req.chat_id
    BY <2>4, <2>6 DEF PlacesIn
  <2>8. /\ message.id = tables.messages[q].id
        /\ message.chat_id = tables.messages[q].chat_id
        /\ message.sender = tables.messages[q].sender
        /\ message.ciphertext = Hex(tables.messages[q].ciphertext)
    BY <2>6 DEF ReadMessage
  <2>9. /\ tables.messages[q].chat_id = sent.chat_id
        /\ tables.messages[q].sender = sent.sender
        /\ tables.messages[q].ciphertext = sent.ciphertext
    BY <2>7, <2>8, SentFields DEF HistoryInv
  <2> QED BY <2>2, <2>7, <2>8, <2>9 DEF MessageStored
<1> QED BY <1>1, HistoryHolds, PTL

\* Whoever pages through a chat with growing offsets misses no message, however
\* many new ones are sent between two pages.
THEOREM PagesStayGapless == SerialSpec => []PagesLeaveNoGap
<1>1. ServerInv /\ HistoryInv => PagesLeaveNoGap
  <2> DEFINE messages == tables.messages
  <2> SUFFICES ASSUME ServerInv, HistoryInv,
                      NEW a \in 1 .. Len(replies), NEW b \in 1 .. Len(replies), Follows(b, a),
                      NEW i \in 1 .. Len(messages),
                      messages[i].chat_id = asked[replies[a].id].chat_id,
                      i < Position(Last(replies[a].rows))
               PROVE  /\ replies[b].rows # <<>>
                      /\ i <= Position(Head(replies[b].rows))
    BY DEF PagesLeaveNoGap
  <2>1. PICK seen : Dated(seen)
    BY DEF HistoryInv, PagesDated
  <2>2. PICK ra, rb : ra = asked[replies[a].id] /\ rb = asked[replies[b].id]
    OBVIOUS
  <2>3. PICK na, nb : na = seen[a] /\ nb = seen[b]
    OBVIOUS
  <2>4. PICK first, next : first = replies[a].rows /\ next = replies[b].rows
    OBVIOUS
  <2>5. /\ IsPage(a) /\ IsPage(b) /\ a <= replies[b].after
        /\ GoesOn(rb, ra) /\ first # <<>>
    BY <2>2, <2>4 DEF Follows, GoesOn
  <2>6. /\ na \in 0 .. Len(messages) /\ na \in Nat /\ Len(messages) \in Nat
        /\ ra.limit \in Nat /\ ra.offset \in Nat
        /\ first = Page(Oldest(messages, na), ra)
    BY <2>1, <2>2, <2>3, <2>4, <2>5, PageTaken
  <2>7. /\ nb \in 0 .. Len(messages) /\ nb \in Nat
        /\ rb.limit \in Nat /\ rb.offset \in Nat
        /\ next = Page(Oldest(messages, nb), rb)
    BY <2>1, <2>2, <2>3, <2>4, <2>5, PageTaken
  <2>8. na <= nb
    <3>1. b \in 1 .. Len(Answers) /\ a \in 1 .. b
      <4>1. Len(Answers) = Len(replies) /\ Len(replies) \in Nat
        BY AnswersSeq
      <4>2. replies[b].after \in 0 .. b - 1
        BY DEF HistoryInv, AnsweredLater
      <4> QED BY <2>5, <4>1, <4>2
    <3> QED BY <2>1, <2>3, <3>1 DEF Dated
  <2>9. PICK p : EndsAt(first, messages, na, ra, p)
    BY <2>5, <2>6, PageEnds
  <2>10. /\ p \in 1 .. Len(messages) /\ p \in 1 .. na
         /\ Last(first) = ReadMessage(messages[p])
    BY <2>6, <2>9 DEF EndsAt, PlacesIn
  <2>11. i < p
    BY <2>4, <2>10, PlaceFound DEF HistoryInv
  <2>12. i \in PlacesIn(messages, na, ra.chat_id)
    BY <2>2, <2>6, <2>10, <2>11 DEF PlacesIn
  <2>13. StartsFrom(next, messages, nb, i)
    BY <2>5, <2>6, <2>7, <2>8, <2>9, <2>11, <2>12, PagesMeet
  <2>14. PICK q \in 1 .. nb : Len(next) > 0 /\ next[1] = ReadMessage(messages[q]) /\ i <= q
    BY <2>13 DEF StartsFrom
  <2>15. next # <<>> /\ Head(next) = next[1]
    BY <2>14
  <2>16. Position(Head(next)) = q
    <3>1. q \in 1 .. Len(messages)
      BY <2>7
    <3> QED BY <2>14, <2>15, <3>1, PlaceFound DEF HistoryInv
  <2> QED BY <2>4, <2>14, <2>15, <2>16
<1> QED BY <1>1, HistoryHolds, PTL
=============================================================================

-------------------------- MODULE Delivery_proofs --------------------------
(***************************************************************************)
(* What is proved of the open chat of one device (ChatSync), for any number *)
(* of messages, sizes of a page and steps: NoSilentLoss and ViewHasACause.  *)
(*                                                                         *)
(* Both speak of states at rest only, so neither is inductive. Inv says     *)
(* what stands for them while requests, pushes and a rollback are under     *)
(* way: Counted, that what the counter lost an answer on its way brings;    *)
(* Placed, that the list, and the one kept for a rollback, have an entry    *)
(* of another chat, or a second one, for a reason; Complete, that each      *)
(* stored message of the open chat is shown, or lost, or still to come.     *)
(* Sound has the types and what the other three need of the requests, the   *)
(* wire and the rollback.                                                   *)
(*                                                                         *)
(* Then the input below a chat (Composer), for any two chats: TypingInOrder *)
(* follows from InputInv, that says where each word is and what its state   *)
(* keeps it from being, or being again.                                     *)
(***************************************************************************)
EXTENDS MCDelivery, FiniteSetTheorems, TLAPS

Message == [chat : Chats, from : {"peer", "here", "there"}]
Steps == {"store", "push", "count", "answer"}
Request == [kind : {"idle", "select", "refresh", "unread"}, chat : Chats \cup {None},
            st : {"idle", "sent", "read", "back"}, got : (SUBSET Ids) \cup [Chats -> Nat]]
Lists == {"select", "refresh"}

\* The types, with those of the requests for lists in detail.
Typed ==
  /\ about \in [Ids -> Message \cup {None}] /\ done \in [Ids -> SUBSET Steps] /\ gone \in SUBSET Ids
  /\ counter \in [Chats -> Nat] /\ link \in Nat
  /\ wire \in Seq([kind : {"message", "deleted"}, id : Ids])
  /\ sel \in Chats \cup {None} /\ shown \in [Ids -> Nat] /\ temp \in SUBSET Ids
  /\ fetch \in [Slots -> Request]
  /\ undo \in [id : Nat, chat : Chats \cup {None}, shown : [Ids -> Nat], temp : SUBSET Ids]

\* A list that was read has messages of its chat; a request that is not for a
\* list is never between its two statements.
Asked(f) ==
  /\ f.kind \in Lists => /\ f.chat \in Chats /\ f.got \in SUBSET Ids
                         /\ \A i \in f.got : Written(i) /\ about[i].chat = f.chat
  /\ f.kind \notin Lists => f.st # "read"
  /\ f.kind = "idle" => f.st = "idle"

\* Nothing is known of a message before it is written.
Unwritten(i) == done[i] = {} /\ shown[i] = 0 /\ i \notin temp /\ undo.shown[i] = 0 /\ i \notin undo.temp

\* What is on the wire, and what a rollback would bring back.
Wired == \A k \in DOMAIN wire : Written(wire[k].id) /\ (wire[k].kind = "deleted" => wire[k].id \in gone)
Undoable == undo # NoUndo => undo.id \in Ids /\ Written(undo.id) /\ undo.shown[undo.id] > 0

Sound == /\ Typed /\ \A s \in Slots : Asked(fetch[s])
         /\ \A i \in Ids : ~Written(i) => Unwritten(i)
         /\ Wired /\ Undoable

-----------------------------------------------------------------------------
\* A message is counted, or an answer that has it is on its way back.
Brought(i, s) == fetch[s].kind \in Lists /\ fetch[s].st = "back" /\ i \in fetch[s].got
Counted == \A c \in Chats : \A i \in News(c) \ (gone \cup seen \cup uncounted) :
             counter[c] > 0 \/ \E s \in Slots : Brought(i, s)

\* Where a list lv with temporary entries tp, of chat c, may have its entries from.
Belongs(i, c, lv, tp) ==
  /\ lv[i] > 0 /\ about[i].chat # c => strayed \/ (c = "dm" /\ about[i].from = "peer")
  /\ i \in tp => strayed \/ about[i].chat = c
  /\ about[i].from # "here" => lv[i] <= 1 /\ i \notin tp
Placed == \A i \in Ids : Written(i) =>
            Belongs(i, sel, shown, temp) /\ Belongs(i, undo.chat, undo.shown, undo.temp)

\* A stored message of the open chat is shown, or there is a reason: it was
\* lost, or is too old; its push or the answer to its author is to come; it is
\* being deleted; or the chat was just selected and the list is to come.
Later(i, c) == {j \in Ids : j > i /\ Written(j) /\ about[j].chat = c}
Old == {i \in Ids : Cardinality(Later(i, sel)) >= Page}
Coming == {i \in Ids : \E k \in DOMAIN wire : wire[k] = [kind |-> "message", id |-> i]}
Unpushed == {i \in Ids : Written(i) /\ about[i].from # "here" /\ "push" \notin done[i]}
Unanswered == {i \in Ids : Written(i) /\ about[i].from = "here" /\ "answer" \notin done[i]}
Selecting(s) == {i \in Ids : /\ fetch[s].kind = "select" /\ fetch[s].chat = sel
                             /\ fetch[s].st = "sent" \/ (fetch[s].st \in {"read", "back"} /\ i \in fetch[s].got)}
Selected == UNION {Selecting(s) : s \in Slots}
Present == {i \in Ids : shown[i] > 0}
Pending == Unpushed \cup Unanswered \cup {i \in Coming : about[i].from # "here"}
Explained == Present \cup missed \cup Old \cup Pending \cup {undo.id} \cup Selected
Rows == Stored(sel)
Complete == sel # None => Rows \subseteq Explained

Inv == Sound /\ Counted /\ Placed /\ Complete

-----------------------------------------------------------------------------

\* The wire after an event was pushed, and after one was taken.
LEMMA EventIs ==
  ASSUME Typed, NEW kind \in {"message", "deleted"}, NEW i \in Ids
  PROVE  /\ Event(kind, i) \in Seq([kind : {"message", "deleted"}, id : Ids])
         /\ \A k \in DOMAIN Event(kind, i) : \/ Event(kind, i)[k] = [kind |-> kind, id |-> i]
                                             \/ \E j \in DOMAIN wire : Event(kind, i)[k] = wire[j]
         /\ \A j \in DOMAIN wire : j \in DOMAIN Event(kind, i) /\ Event(kind, i)[j] = wire[j]
         /\ link > 0 => \E k \in DOMAIN Event(kind, i) : Event(kind, i)[k] = [kind |-> kind, id |-> i]
<1> DEFINE e == [kind |-> kind, id |-> i]
           new == [n \in 1..link |-> e]
           S == [kind : {"message", "deleted"}, id : Ids]
<1>1. e \in S /\ wire \in Seq(S) /\ link \in Nat
  BY DEF Typed
<1>2. new \in Seq(S) /\ Len(new) = link /\ \A n \in 1..link : new[n] = e
  <2> HIDE DEF e, S
  <2> QED BY <1>1
<1>3. Event(kind, i) = wire \o new
  BY DEF Event
<1> HIDE DEF e, new, S
<1>4. /\ wire \o new \in Seq(S) /\ Len(wire \o new) = Len(wire) + link
      /\ \A k \in 1..(Len(wire) + link) : (wire \o new)[k] = IF k <= Len(wire) THEN wire[k] ELSE new[k - Len(wire)]
  BY <1>1, <1>2
<1>5. \A k \in DOMAIN (wire \o new) : (wire \o new)[k] = e \/ \E j \in DOMAIN wire : (wire \o new)[k] = wire[j]
  BY <1>1, <1>2, <1>4
<1>6. \A j \in DOMAIN wire : j \in DOMAIN (wire \o new) /\ (wire \o new)[j] = wire[j]
  BY <1>1, <1>4
<1>7. ASSUME link > 0 PROVE \E k \in DOMAIN (wire \o new) : (wire \o new)[k] = e
  <2>1. Len(wire) + 1 \in DOMAIN (wire \o new) /\ (wire \o new)[Len(wire) + 1] = new[1]
    BY <1>1, <1>4, <1>7
  <2> QED BY <2>1, <1>1, <1>2, <1>7
<1> QED
  BY <1>3, <1>4, <1>5, <1>6, <1>7 DEF S, e

\* Of the events on the wire, all but the first are left after it was taken.
LEMMA TailIs ==
  ASSUME Typed, wire # <<>>
  PROVE  /\ Head(wire) \in [kind : {"message", "deleted"}, id : Ids]
         /\ Tail(wire) \in Seq([kind : {"message", "deleted"}, id : Ids])
         /\ 1 \in DOMAIN wire /\ wire[1] = Head(wire)
         /\ \A k \in DOMAIN Tail(wire) : \E j \in DOMAIN wire : Tail(wire)[k] = wire[j]
         /\ \A j \in DOMAIN wire : wire[j] = Head(wire) \/ \E k \in DOMAIN Tail(wire) : Tail(wire)[k] = wire[j]
<1> DEFINE S == [kind : {"message", "deleted"}, id : Ids]
<1>1. wire \in Seq(S)
  BY DEF Typed
<1> HIDE DEF S
<1>2. /\ Len(wire) \in Nat \ {0} /\ Head(wire) = wire[1] /\ Head(wire) \in S /\ Tail(wire) \in Seq(S)
      /\ Len(Tail(wire)) = Len(wire) - 1 /\ \A k \in 1..(Len(wire) - 1) : Tail(wire)[k] = wire[k + 1]
  BY <1>1
<1>3. ASSUME NEW j \in DOMAIN wire PROVE wire[j] = Head(wire) \/ \E k \in DOMAIN Tail(wire) : Tail(wire)[k] = wire[j]
  <2>1. j = 1 \/ (j - 1 \in DOMAIN Tail(wire) /\ Tail(wire)[j - 1] = wire[j])
    BY <1>1, <1>2
  <2> QED BY <2>1, <1>2
<1>4. ASSUME NEW k \in DOMAIN Tail(wire) PROVE \E j \in DOMAIN wire : Tail(wire)[k] = wire[j]
  <2>1. k + 1 \in DOMAIN wire /\ Tail(wire)[k] = wire[k + 1]
    BY <1>1, <1>2
  <2> QED BY <2>1
<1>5. 1 \in DOMAIN wire
  BY <1>1, <1>2
<1>6. Head(wire) \in S /\ Tail(wire) \in Seq(S) /\ wire[1] = Head(wire)
  BY <1>2
<1> QED
  BY <1>3, <1>4, <1>5, <1>6 DEF S

\* Every event on the wire is about a message.
LEMMA WireIds ==
  ASSUME Typed
  PROVE  \A k \in DOMAIN wire : wire[k].id \in Ids
<1> DEFINE S == [kind : {"message", "deleted"}, id : Ids]
<1>1. wire \in Seq(S) /\ \A e \in S : e.id \in Ids
  BY DEF Typed
<1> HIDE DEF S
<1> QED
  BY <1>1

\* A message is written under an id of which nothing is known.
LEMMA NewId ==
  ASSUME Sound, NEW i \in Ids, \A j \in Ids : j < i <=> Written(j), NEW m \in Message, about' = [about EXCEPT ![i] = m]
  PROVE  /\ ~Written(i) /\ Unwritten(i) /\ about' \in [Ids -> Message \cup {None}]
         /\ about'[i] = m /\ Written(i)' /\ \A j \in Ids \ {i} : about'[j] = about[j] /\ (Written(j)' <=> Written(j))
         /\ \A j \in Ids : Written(j) => Written(j)' /\ about'[j] = about[j]
<1>1. ~Written(i)
  BY DEF Ids
<1>2. m # None
  BY SyncAssumption DEF Message
<1> QED
  BY <1>1, <1>2 DEF Sound, Typed, Written

\* Changes of a request keep its type.
LEMMA RequestChanges ==
  ASSUME NEW f \in Request, NEW st \in {"idle", "sent", "read", "back"}
  PROVE  /\ [f EXCEPT !.st = st] \in Request
         /\ \A g \in (SUBSET Ids) \cup [Chats -> Nat] : [f EXCEPT !.st = st, !.got = g] \in Request
         /\ Idle \in Request
         /\ \A k \in {"select", "refresh", "unread"}, c \in Chats \cup {None} :
              [Idle EXCEPT !.kind = k, !.chat = c, !.st = "sent"] \in Request
<1> DEFINE G == (SUBSET Ids) \cup [Chats -> Nat]
<1>1. Request = [kind : {"idle", "select", "refresh", "unread"}, chat : Chats \cup {None},
                 st : {"idle", "sent", "read", "back"}, got : G]
  BY DEF Request
<1>2. {} \in G
  OBVIOUS
<1> HIDE DEF G
<1> QED
  <2>1. Idle \in Request /\ \A k \in {"select", "refresh", "unread"}, c \in Chats \cup {None} :
              [Idle EXCEPT !.kind = k, !.chat = c, !.st = "sent"] \in Request
    BY <1>1, <1>2 DEF Idle
  <2>2. [f EXCEPT !.st = st] \in Request /\ \A g \in G : [f EXCEPT !.st = st, !.got = g] \in Request
    BY <1>1
  <2> QED BY <2>1, <2>2 DEF G

\* Every step keeps the types.
LEMMA TypedStep ==
  ASSUME Sound, Next
  PROVE  Typed'
<1>1. ASSUME NEW c \in Chats, NEW who \in {"peer", "there"}, Write(c, who)
      PROVE  Typed'
  BY <1>1 DEF Write, Sound, Typed, Request, Message, Steps, Idle, NoUndo, rows, view, ghost
<1>2. ASSUME SendMessage
      PROVE  Typed'
  BY <1>2 DEF SendMessage, Sound, Typed, Request, Message, Steps, Idle, NoUndo, rows, view, ghost
<1>3. ASSUME DeleteMessage
      PROVE  Typed'
  <2>1. PICK i \in Ids : /\ undo' = [id |-> i, chat |-> sel, shown |-> shown, temp |-> temp]
                         /\ shown' = [shown EXCEPT ![i] = 0]
                         /\ UNCHANGED <<about, done, gone, counter, link, wire, sel, temp, fetch>>
    BY <1>3 DEF DeleteMessage, rows
  <2>2. undo' \in [id : Nat, chat : Chats \cup {None}, shown : [Ids -> Nat], temp : SUBSET Ids]
    BY <2>1 DEF Sound, Typed, Ids
  <2>3. shown' \in [Ids -> Nat]
    BY <2>1 DEF Sound, Typed
  <2> QED
    BY <2>1, <2>2, <2>3 DEF Sound, Typed
<1>4. ASSUME Resume
      PROVE  Typed'
  BY <1>4 DEF Resume, Sound, Typed, Request, Message, Steps, Idle, NoUndo, rows, view, ghost
<1>5. ASSUME NEW i \in Ids, PeerDeletes(i)
      PROVE  Typed'
  BY <1>5 DEF PeerDeletes, Event, Sound, Typed, Request, Message, Steps, Idle, NoUndo, rows, view, ghost
<1>6. ASSUME NEW n \in 0..2, LinkTo(n)
      PROVE  Typed'
  BY <1>6 DEF LinkTo, Sound, Typed, Request, Message, Steps, Idle, NoUndo, rows, view, ghost
<1>7. ASSUME NEW c \in Chats \cup {None}, SelectChat(c)
      PROVE  Typed'
  <2>1. fetch' \in [Slots -> Request]
    <3>1. CASE c = None
      BY <1>7, <3>1 DEF SelectChat, Sound, Typed
    <3>2. CASE c # None
      <4>1. PICK s \in Slots : fetch' = [fetch EXCEPT ![s] = [Idle EXCEPT !.kind = "select", !.chat = c, !.st = "sent"]]
        BY <1>7, <3>2 DEF SelectChat, Ask
      <4>2. fetch[s] \in Request
        BY DEF Sound, Typed
      <4>3. [Idle EXCEPT !.kind = "select", !.chat = c, !.st = "sent"] \in Request
        BY <4>2, RequestChanges
      <4> QED
        BY <4>1, <4>3 DEF Sound, Typed
    <3> QED
      BY <3>1, <3>2
  <2> QED
    BY <1>7, <2>1 DEF SelectChat, Sound, Typed, rows
<1>8. ASSUME NEW i \in Ids, Store(i)
      PROVE  Typed'
  BY <1>8 DEF Store, Sound, Typed, Request, Message, Steps, Idle, NoUndo, rows, view, ghost
<1>9. ASSUME NEW i \in Ids, Push(i)
      PROVE  Typed'
  <2>1. wire' \in Seq([kind : {"message", "deleted"}, id : Ids])
    BY <1>9, EventIs DEF Push, Sound, Typed
  <2>2. done' \in [Ids -> SUBSET Steps]
    BY <1>9 DEF Push, Sound, Typed, Steps
  <2> QED
    BY <1>9, <2>1, <2>2 DEF Push, Sound, Typed, view
<1>10. ASSUME NEW i \in Ids, Count(i)
      PROVE  Typed'
  <2>1. done' \in [Ids -> SUBSET Steps]
    BY <1>10 DEF Count, Sound, Typed, Steps
  <2>2. counter' \in [Chats -> Nat]
    <3>1. about[i].chat \in Chats
      BY <1>10 DEF Count, Sound, Typed, Written, Message
    <3> QED
      BY <1>10, <3>1 DEF Count, Sound, Typed
  <2> QED
    BY <1>10, <2>1, <2>2 DEF Count, Sound, Typed, view
<1>11. ASSUME NEW i \in Ids, Sent(i)
      PROVE  Typed'
  BY <1>11 DEF Sent, Sound, Typed, Request, Message, Steps, Idle, NoUndo, rows, view, ghost
<1>12. ASSUME NEW i \in Ids, SendFails(i)
      PROVE  Typed'
  BY <1>12 DEF SendFails, Sound, Typed, Request, Message, Steps, Idle, NoUndo, rows, view, ghost
<1>13. ASSUME Receive
      PROVE  Typed'
  <2>1. wire' \in Seq([kind : {"message", "deleted"}, id : Ids]) /\ Head(wire).id \in Ids
    BY <1>13, TailIs DEF Receive, Incoming, Sound
  <2>2. shown' = shown \/ shown' = [shown EXCEPT ![Head(wire).id] = 1]
    BY <1>13 DEF Receive
  <2>3. shown' \in [Ids -> Nat]
    <3>1. shown \in [Ids -> Nat]
      BY DEF Sound, Typed
    <3> QED
      BY <2>1, <2>2, <3>1
  <2> QED
    BY <1>13, <2>1, <2>3 DEF Receive, Sound, Typed, rows
<1>14. ASSUME ReceiveDelete
      PROVE  Typed'
  <2>1. wire' \in Seq([kind : {"message", "deleted"}, id : Ids]) /\ Head(wire).id \in Ids
    BY <1>14, TailIs DEF ReceiveDelete, Incoming, Sound
  <2>2. shown' \in [Ids -> Nat]
    BY <1>14, <2>1 DEF ReceiveDelete, Sound, Typed
  <2> QED
    BY <1>14, <2>1, <2>2 DEF ReceiveDelete, Sound, Typed, rows
<1>15. ASSUME Deleted
      PROVE  Typed'
  <2>1. undo.id \in Ids
    BY <1>15 DEF Deleted, Sound, Undoable
  <2>2. wire' \in Seq([kind : {"message", "deleted"}, id : Ids])
    BY <1>15, <2>1, EventIs DEF Deleted, Sound
  <2>3. undo' \in [id : Nat, chat : Chats \cup {None}, shown : [Ids -> Nat], temp : SUBSET Ids]
    BY <1>15 DEF Deleted, NoUndo
  <2> QED
    BY <1>15, <2>1, <2>2, <2>3 DEF Deleted, Sound, Typed, view
<1>16. ASSUME DeleteFails
      PROVE  Typed'
  BY <1>16 DEF DeleteFails, Sound, Typed, Request, Message, Steps, Idle, NoUndo, rows, view, ghost
<1>17. ASSUME NEW s \in Slots, Read(s)
      PROVE  Typed'
  <2>1. Newest(Stored(fetch[s].chat)) \in SUBSET Ids /\ fetch[s] \in Request
    BY DEF Newest, Stored, Sound, Typed
  <2>2. [fetch[s] EXCEPT !.st = "read", !.got = Newest(Stored(fetch[s].chat))] \in Request
    BY <2>1, RequestChanges
  <2>3. fetch' = [fetch EXCEPT ![s] = [fetch[s] EXCEPT !.st = "read", !.got = Newest(Stored(fetch[s].chat))]]
    BY <1>17 DEF Read, Sound, Typed
  <2>4. fetch' \in [Slots -> Request]
    BY <2>2, <2>3 DEF Sound, Typed
  <2> QED
    BY <1>17, <2>4 DEF Read, Sound, Typed, rows, view
<1>18. ASSUME NEW s \in Slots, Reset(s)
      PROVE  Typed'
  <2>1. [fetch[s] EXCEPT !.st = "back"] \in Request
    BY RequestChanges DEF Sound, Typed
  <2>2. fetch' = [fetch EXCEPT ![s] = [fetch[s] EXCEPT !.st = "back"]]
    BY <1>18 DEF Reset, Sound, Typed
  <2>3. fetch' \in [Slots -> Request]
    BY <2>1, <2>2 DEF Sound, Typed
  <2>4. counter' \in [Chats -> Nat]
    BY <1>18 DEF Reset, Without, Sound, Typed
  <2> QED
    BY <1>18, <2>3, <2>4 DEF Reset, Sound, Typed, rows, view
<1>19. ASSUME NEW s \in Slots, ReadUnread(s)
      PROVE  Typed'
  <2>1. [fetch[s] EXCEPT !.st = "back", !.got = counter] \in Request
    BY RequestChanges DEF Sound, Typed
  <2>2. fetch' = [fetch EXCEPT ![s] = [fetch[s] EXCEPT !.st = "back", !.got = counter]]
    BY <1>19 DEF ReadUnread, Sound, Typed
  <2>3. fetch' \in [Slots -> Request]
    BY <2>1, <2>2 DEF Sound, Typed
  <2> QED
    BY <1>19, <2>3 DEF ReadUnread, Sound, Typed, rows, view
<1>20. ASSUME NEW s \in Slots, ListSelected(s)
      PROVE  Typed'
  BY <1>20 DEF ListSelected, Answered, Sound, Typed, Request, Message, Steps, Idle, NoUndo, rows, view, ghost
<1>21. ASSUME NEW s \in Slots, ListRefreshed(s)
      PROVE  Typed'
  <2>1. fetch' \in [Slots -> Request]
    BY <1>21, RequestChanges DEF ListRefreshed, Answered, Sound, Typed
  <2>2. shown' = shown \/ shown' = Merged(fetch[s].got)
    BY <1>21 DEF ListRefreshed
  <2>3. shown \in [Ids -> Nat] /\ Merged(fetch[s].got) \in [Ids -> Nat]
    BY DEF Sound, Typed, Merged
  <2> QED
    BY <1>21, <2>1, <2>2, <2>3 DEF ListRefreshed, Sound, Typed, rows
<1>22. ASSUME NEW s \in Slots, UnreadLoaded(s)
      PROVE  Typed'
  BY <1>22 DEF UnreadLoaded, Answered, Sound, Typed, Request, Message, Steps, Idle, NoUndo, rows, view, ghost
<1>23. ASSUME NEW s \in Slots, Fail(s)
      PROVE  Typed'
  BY <1>23 DEF Fail, Stored, Sound, Typed, Request, Message, Steps, Idle, NoUndo, rows, view, ghost
<1> QED
  BY <1>1, <1>2, <1>3, <1>4, <1>5, <1>6, <1>7, <1>8, <1>9, <1>10, <1>11, <1>12, <1>13, <1>14, <1>15, <1>16, <1>17, <1>18, <1>19, <1>20, <1>21, <1>22, <1>23 DEF Next, Begin, Continue

\* Every step keeps what is known of requests.
LEMMA AskedStep ==
  ASSUME Sound, Next
  PROVE  (\A t \in Slots : Asked(fetch[t]))'
<1>1. ASSUME NEW c \in Chats, NEW who \in {"peer", "there"}, Write(c, who)
      PROVE  (\A t \in Slots : Asked(fetch[t]))'
  <2>1. PICK i \in Ids : /\ \A j \in Ids : j < i <=> Written(j)
                         /\ about' = [about EXCEPT ![i] = [chat |-> c, from |-> who]]
    BY <1>1 DEF Write
  <2>2. \A j \in Ids : Written(j) => Written(j)' /\ about'[j] = about[j]
    BY <2>1, NewId DEF Message
  <2> QED
    BY <1>1, <2>2 DEF Write, Sound, Asked
<1>2. ASSUME SendMessage
      PROVE  (\A t \in Slots : Asked(fetch[t]))'
  <2>1. PICK i \in Ids : /\ \A j \in Ids : j < i <=> Written(j)
                         /\ about' = [about EXCEPT ![i] = [chat |-> sel, from |-> "here"]]
    BY <1>2 DEF SendMessage
  <2>2. \A j \in Ids : Written(j) => Written(j)' /\ about'[j] = about[j]
    BY <1>2, <2>1, NewId DEF SendMessage, Message, Sound, Typed
  <2> QED
    BY <1>2, <2>2 DEF SendMessage, Sound, Asked
<1>3. ASSUME DeleteMessage
      PROVE  (\A t \in Slots : Asked(fetch[t]))'
  BY <1>3 DEF DeleteMessage, Sound, Typed, Asked, Lists, Request, Idle, Written, rows, view, ghost
<1>4. ASSUME Resume
      PROVE  (\A t \in Slots : Asked(fetch[t]))'
  <2> DEFINE r == [Idle EXCEPT !.kind = "refresh", !.chat = sel, !.st = "sent"]
             u == [Idle EXCEPT !.kind = "unread", !.st = "sent"]
  <2>1. fetch' = [fetch EXCEPT ![1] = r, ![2] = u] /\ sel \in Chats /\ UNCHANGED about
    BY <1>4 DEF Resume, Sound, Typed, rows
  <2>2. /\ r.kind = "refresh" /\ r.chat = sel /\ r.st = "sent" /\ r.got = {}
        /\ u.kind = "unread" /\ u.st = "sent"
    BY DEF Idle
  <2> HIDE DEF r, u
  <2>3. fetch'[1] = r /\ fetch'[2] = u /\ Slots = {1, 2}
    BY <2>1 DEF Sound, Typed, Slots
  <2> QED
    BY <2>1, <2>2, <2>3 DEF Asked, Lists
<1>5. ASSUME NEW i \in Ids, PeerDeletes(i)
      PROVE  (\A t \in Slots : Asked(fetch[t]))'
  BY <1>5 DEF PeerDeletes, Event, Sound, Typed, Asked, Lists, Request, Idle, Written, rows, view, ghost
<1>6. ASSUME NEW n \in 0..2, LinkTo(n)
      PROVE  (\A t \in Slots : Asked(fetch[t]))'
  BY <1>6 DEF LinkTo, Sound, Typed, Asked, Lists, Request, Idle, Written, rows, view, ghost
<1>7. ASSUME NEW c \in Chats \cup {None}, SelectChat(c)
      PROVE  (\A t \in Slots : Asked(fetch[t]))'
  <2>1. CASE c = None
    BY <1>7, <2>1 DEF SelectChat, Sound, Asked, Written, rows
  <2>2. CASE c # None
    <3> DEFINE r == [Idle EXCEPT !.kind = "select", !.chat = c, !.st = "sent"]
    <3>1. PICK s \in Slots : fetch' = [fetch EXCEPT ![s] = r]
      BY <1>7, <2>2 DEF SelectChat, Ask
    <3>2. r.kind = "select" /\ r.chat = c /\ r.st = "sent" /\ r.got = {}
      BY DEF Idle
    <3> HIDE DEF r
    <3>3. Asked(r)' /\ UNCHANGED about
      BY <1>7, <2>2, <3>2 DEF SelectChat, Asked, Lists, rows
    <3>4. \A t \in Slots : fetch'[t] = IF t = s THEN r ELSE fetch[t]
      BY <3>1 DEF Sound, Typed
    <3> QED
      BY <3>3, <3>4 DEF Sound, Asked, Written
  <2> QED
    BY <2>1, <2>2
<1>8. ASSUME NEW i \in Ids, Store(i)
      PROVE  (\A t \in Slots : Asked(fetch[t]))'
  BY <1>8 DEF Store, Sound, Typed, Asked, Lists, Request, Idle, Written, rows, view, ghost
<1>9. ASSUME NEW i \in Ids, Push(i)
      PROVE  (\A t \in Slots : Asked(fetch[t]))'
  BY <1>9 DEF Push, Event, Reaches, Sound, Typed, Asked, Lists, Request, Idle, Written, rows, view, ghost
<1>10. ASSUME NEW i \in Ids, Count(i)
      PROVE  (\A t \in Slots : Asked(fetch[t]))'
  BY <1>10 DEF Count, Sound, Typed, Asked, Lists, Request, Idle, Written, rows, view, ghost
<1>11. ASSUME NEW i \in Ids, Sent(i)
      PROVE  (\A t \in Slots : Asked(fetch[t]))'
  BY <1>11 DEF Sent, Sound, Typed, Asked, Lists, Request, Idle, Written, rows, view, ghost
<1>12. ASSUME NEW i \in Ids, SendFails(i)
      PROVE  (\A t \in Slots : Asked(fetch[t]))'
  BY <1>12 DEF SendFails, Sound, Typed, Asked, Lists, Request, Idle, Written, rows, view, ghost
<1>13. ASSUME Receive
      PROVE  (\A t \in Slots : Asked(fetch[t]))'
  BY <1>13 DEF Receive, Incoming, IsCurrent, Sound, Typed, Asked, Lists, Request, Idle, Written, rows, view, ghost
<1>14. ASSUME ReceiveDelete
      PROVE  (\A t \in Slots : Asked(fetch[t]))'
  BY <1>14 DEF ReceiveDelete, Incoming, Sound, Typed, Asked, Lists, Request, Idle, Written, rows, view, ghost
<1>15. ASSUME Deleted
      PROVE  (\A t \in Slots : Asked(fetch[t]))'
  BY <1>15 DEF Deleted, Event, Sound, Typed, Asked, Lists, Request, Idle, Written, rows, view, ghost
<1>16. ASSUME DeleteFails
      PROVE  (\A t \in Slots : Asked(fetch[t]))'
  BY <1>16 DEF DeleteFails, Sound, Typed, Asked, Lists, Request, Idle, Written, rows, view, ghost
<1>17. ASSUME NEW s \in Slots, Read(s)
      PROVE  (\A t \in Slots : Asked(fetch[t]))'
  BY <1>17 DEF Read, Newest, Stored, Sound, Typed, Asked, Lists, Request, Idle, Written, rows, view, ghost
<1>18. ASSUME NEW s \in Slots, Reset(s)
      PROVE  (\A t \in Slots : Asked(fetch[t]))'
  BY <1>18 DEF Reset, Without, Sound, Typed, Asked, Lists, Request, Idle, Written, rows, view, ghost
<1>19. ASSUME NEW s \in Slots, ReadUnread(s)
      PROVE  (\A t \in Slots : Asked(fetch[t]))'
  BY <1>19 DEF ReadUnread, Sound, Typed, Asked, Lists, Request, Idle, Written, rows, view, ghost
<1>20. ASSUME NEW s \in Slots, ListSelected(s)
      PROVE  (\A t \in Slots : Asked(fetch[t]))'
  BY <1>20 DEF ListSelected, Answered, Sound, Typed, Asked, Lists, Request, Idle, Written, rows, view, ghost
<1>21. ASSUME NEW s \in Slots, ListRefreshed(s)
      PROVE  (\A t \in Slots : Asked(fetch[t]))'
  BY <1>21 DEF ListRefreshed, Answered, Merged, Sound, Typed, Asked, Lists, Request, Idle, Written, rows, view, ghost
<1>22. ASSUME NEW s \in Slots, UnreadLoaded(s)
      PROVE  (\A t \in Slots : Asked(fetch[t]))'
  BY <1>22 DEF UnreadLoaded, Answered, Sound, Typed, Asked, Lists, Request, Idle, Written, rows, view, ghost
<1>23. ASSUME NEW s \in Slots, Fail(s)
      PROVE  (\A t \in Slots : Asked(fetch[t]))'
  BY <1>23 DEF Fail, Stored, Sound, Typed, Asked, Lists, Request, Idle, Written, rows, view, ghost
<1> QED
  BY <1>1, <1>2, <1>3, <1>4, <1>5, <1>6, <1>7, <1>8, <1>9, <1>10, <1>11, <1>12, <1>13, <1>14, <1>15, <1>16, <1>17, <1>18, <1>19, <1>20, <1>21, <1>22, <1>23 DEF Next, Begin, Continue

\* Every step leaves nothing known of a message that is not written.
LEMMA UnwrittenStep ==
  ASSUME Sound, Next
  PROVE  (\A m \in Ids : ~Written(m) => Unwritten(m))'
<1>1. ASSUME NEW c \in Chats, NEW who \in {"peer", "there"}, Write(c, who)
      PROVE  (\A m \in Ids : ~Written(m) => Unwritten(m))'
  <2>1. PICK i \in Ids : /\ \A j \in Ids : j < i <=> Written(j)
                         /\ about' = [about EXCEPT ![i] = [chat |-> c, from |-> who]]
    BY <1>1 DEF Write
  <2>2. \A j \in Ids : Written(j) => Written(j)'
    BY <2>1, NewId DEF Message
  <2> QED
    BY <1>1, <2>2 DEF Write, Sound, Unwritten, view
<1>2. ASSUME SendMessage
      PROVE  (\A m \in Ids : ~Written(m) => Unwritten(m))'
  <2>1. PICK i \in Ids : /\ \A j \in Ids : j < i <=> Written(j)
                         /\ about' = [about EXCEPT ![i] = [chat |-> sel, from |-> "here"]]
                         /\ temp' = temp \cup {i}
    BY <1>2 DEF SendMessage
  <2>2. Written(i)' /\ \A j \in Ids : Written(j) => Written(j)'
    BY <1>2, <2>1, NewId DEF SendMessage, Message, Sound, Typed
  <2> QED
    BY <1>2, <2>1, <2>2 DEF SendMessage, Sound, Unwritten
<1>3. ASSUME DeleteMessage
      PROVE  (\A m \in Ids : ~Written(m) => Unwritten(m))'
  BY <1>3 DEF DeleteMessage, Sound, Typed, Unwritten, Wired, Undoable, Asked, Written, Idle, Request, NoUndo, Message, Lists, rows, view, ghost
<1>4. ASSUME Resume
      PROVE  (\A m \in Ids : ~Written(m) => Unwritten(m))'
  BY <1>4 DEF Resume, Sound, Typed, Unwritten, Wired, Undoable, Asked, Written, Idle, Request, NoUndo, Message, Lists, rows, view, ghost
<1>5. ASSUME NEW i \in Ids, PeerDeletes(i)
      PROVE  (\A m \in Ids : ~Written(m) => Unwritten(m))'
  BY <1>5 DEF PeerDeletes, Event, Sound, Typed, Unwritten, Wired, Undoable, Asked, Written, Idle, Request, NoUndo, Message, Lists, rows, view, ghost
<1>6. ASSUME NEW n \in 0..2, LinkTo(n)
      PROVE  (\A m \in Ids : ~Written(m) => Unwritten(m))'
  BY <1>6 DEF LinkTo, Sound, Typed, Unwritten, Wired, Undoable, Asked, Written, Idle, Request, NoUndo, Message, Lists, rows, view, ghost
<1>7. ASSUME NEW c \in Chats \cup {None}, SelectChat(c)
      PROVE  (\A m \in Ids : ~Written(m) => Unwritten(m))'
  BY <1>7 DEF SelectChat, Ask, Sound, Typed, Unwritten, Wired, Undoable, Asked, Written, Idle, Request, NoUndo, Message, Lists, rows, view, ghost
<1>8. ASSUME NEW i \in Ids, Store(i)
      PROVE  (\A m \in Ids : ~Written(m) => Unwritten(m))'
  BY <1>8 DEF Store, Sound, Typed, Unwritten, Wired, Undoable, Asked, Written, Idle, Request, NoUndo, Message, Lists, rows, view, ghost
<1>9. ASSUME NEW i \in Ids, Push(i)
      PROVE  (\A m \in Ids : ~Written(m) => Unwritten(m))'
  BY <1>9 DEF Push, Event, Reaches, Sound, Typed, Unwritten, Wired, Undoable, Asked, Written, Idle, Request, NoUndo, Message, Lists, rows, view, ghost
<1>10. ASSUME NEW i \in Ids, Count(i)
      PROVE  (\A m \in Ids : ~Written(m) => Unwritten(m))'
  BY <1>10 DEF Count, Sound, Typed, Unwritten, Wired, Undoable, Asked, Written, Idle, Request, NoUndo, Message, Lists, rows, view, ghost
<1>11. ASSUME NEW i \in Ids, Sent(i)
      PROVE  (\A m \in Ids : ~Written(m) => Unwritten(m))'
  BY <1>11 DEF Sent, Sound, Typed, Unwritten, Wired, Undoable, Asked, Written, Idle, Request, NoUndo, Message, Lists, rows, view, ghost
<1>12. ASSUME NEW i \in Ids, SendFails(i)
      PROVE  (\A m \in Ids : ~Written(m) => Unwritten(m))'
  BY <1>12 DEF SendFails, Sound, Typed, Unwritten, Wired, Undoable, Asked, Written, Idle, Request, NoUndo, Message, Lists, rows, view, ghost
<1>13. ASSUME Receive
      PROVE  (\A m \in Ids : ~Written(m) => Unwritten(m))'
  <2>1. Head(wire).id \in Ids /\ Written(Head(wire).id)
    BY <1>13, TailIs DEF Receive, Incoming, Sound, Wired
  <2> QED
    BY <1>13, <2>1 DEF Receive, Sound, Typed, Unwritten, Written, rows
<1>14. ASSUME ReceiveDelete
      PROVE  (\A m \in Ids : ~Written(m) => Unwritten(m))'
  BY <1>14 DEF ReceiveDelete, Incoming, Sound, Typed, Unwritten, Wired, Undoable, Asked, Written, Idle, Request, NoUndo, Message, Lists, rows, view, ghost
<1>15. ASSUME Deleted
      PROVE  (\A m \in Ids : ~Written(m) => Unwritten(m))'
  BY <1>15 DEF Deleted, Event, Sound, Typed, Unwritten, Wired, Undoable, Asked, Written, Idle, Request, NoUndo, Message, Lists, rows, view, ghost
<1>16. ASSUME DeleteFails
      PROVE  (\A m \in Ids : ~Written(m) => Unwritten(m))'
  BY <1>16 DEF DeleteFails, Sound, Typed, Unwritten, Wired, Undoable, Asked, Written, Idle, Request, NoUndo, Message, Lists, rows, view, ghost
<1>17. ASSUME NEW s \in Slots, Read(s)
      PROVE  (\A m \in Ids : ~Written(m) => Unwritten(m))'
  BY <1>17 DEF Read, Newest, Stored, Sound, Typed, Unwritten, Wired, Undoable, Asked, Written, Idle, Request, NoUndo, Message, Lists, rows, view, ghost
<1>18. ASSUME NEW s \in Slots, Reset(s)
      PROVE  (\A m \in Ids : ~Written(m) => Unwritten(m))'
  BY <1>18 DEF Reset, Without, Sound, Typed, Unwritten, Wired, Undoable, Asked, Written, Idle, Request, NoUndo, Message, Lists, rows, view, ghost
<1>19. ASSUME NEW s \in Slots, ReadUnread(s)
      PROVE  (\A m \in Ids : ~Written(m) => Unwritten(m))'
  BY <1>19 DEF ReadUnread, Sound, Typed, Unwritten, Wired, Undoable, Asked, Written, Idle, Request, NoUndo, Message, Lists, rows, view, ghost
<1>20. ASSUME NEW s \in Slots, ListSelected(s)
      PROVE  (\A m \in Ids : ~Written(m) => Unwritten(m))'
  BY <1>20 DEF ListSelected, Answered, Sound, Typed, Unwritten, Wired, Undoable, Asked, Written, Idle, Request, NoUndo, Message, Lists, rows, view, ghost
<1>21. ASSUME NEW s \in Slots, ListRefreshed(s)
      PROVE  (\A m \in Ids : ~Written(m) => Unwritten(m))'
  BY <1>21 DEF ListRefreshed, Answered, Merged, Sound, Typed, Unwritten, Wired, Undoable, Asked, Written, Idle, Request, NoUndo, Message, Lists, rows, view, ghost
<1>22. ASSUME NEW s \in Slots, UnreadLoaded(s)
      PROVE  (\A m \in Ids : ~Written(m) => Unwritten(m))'
  BY <1>22 DEF UnreadLoaded, Answered, Sound, Typed, Unwritten, Wired, Undoable, Asked, Written, Idle, Request, NoUndo, Message, Lists, rows, view, ghost
<1>23. ASSUME NEW s \in Slots, Fail(s)
      PROVE  (\A m \in Ids : ~Written(m) => Unwritten(m))'
  BY <1>23 DEF Fail, Stored, Sound, Typed, Unwritten, Wired, Undoable, Asked, Written, Idle, Request, NoUndo, Message, Lists, rows, view, ghost
<1> QED
  BY <1>1, <1>2, <1>3, <1>4, <1>5, <1>6, <1>7, <1>8, <1>9, <1>10, <1>11, <1>12, <1>13, <1>14, <1>15, <1>16, <1>17, <1>18, <1>19, <1>20, <1>21, <1>22, <1>23 DEF Next, Begin, Continue

\* Every step keeps what is known of the wire.
LEMMA WiredStep ==
  ASSUME Sound, Next
  PROVE  Wired'
<1>1. ASSUME NEW c \in Chats, NEW who \in {"peer", "there"}, Write(c, who)
      PROVE  Wired'
  <2>1. PICK i \in Ids : /\ \A j \in Ids : j < i <=> Written(j)
                         /\ about' = [about EXCEPT ![i] = [chat |-> c, from |-> who]]
    BY <1>1 DEF Write
  <2>2. \A j \in Ids : Written(j) => Written(j)'
    BY <2>1, NewId DEF Message
  <2>3. \A k \in DOMAIN wire : wire[k].id \in Ids
    BY WireIds DEF Sound
  <2> QED
    BY <1>1, <2>2, <2>3 DEF Write, Sound, Wired
<1>2. ASSUME SendMessage
      PROVE  Wired'
  <2>1. PICK i \in Ids : /\ \A j \in Ids : j < i <=> Written(j)
                         /\ about' = [about EXCEPT ![i] = [chat |-> sel, from |-> "here"]]
    BY <1>2 DEF SendMessage
  <2>2. \A j \in Ids : Written(j) => Written(j)'
    BY <1>2, <2>1, NewId DEF SendMessage, Message, Sound, Typed
  <2>3. \A k \in DOMAIN wire : wire[k].id \in Ids
    BY WireIds DEF Sound
  <2> QED
    BY <1>2, <2>2, <2>3 DEF SendMessage, Sound, Wired
<1>3. ASSUME DeleteMessage
      PROVE  Wired'
  BY <1>3 DEF DeleteMessage, Sound, Typed, Wired, Undoable, Written, NoUndo, rows, view, ghost
<1>4. ASSUME Resume
      PROVE  Wired'
  BY <1>4 DEF Resume, Sound, Typed, Wired, Undoable, Written, NoUndo, rows, view, ghost
<1>5. ASSUME NEW i \in Ids, PeerDeletes(i)
      PROVE  Wired'
  <2>1. \A k \in DOMAIN Event("deleted", i) : \/ Event("deleted", i)[k] = [kind |-> "deleted", id |-> i]
                                             \/ \E j \in DOMAIN wire : Event("deleted", i)[k] = wire[j]
    BY EventIs DEF Sound
  <2> QED
    BY <1>5, <2>1 DEF PeerDeletes, Sound, Wired, Written
<1>6. ASSUME NEW n \in 0..2, LinkTo(n)
      PROVE  Wired'
  BY <1>6 DEF LinkTo, Sound, Typed, Wired, Undoable, Written, NoUndo, rows, view, ghost
<1>7. ASSUME NEW c \in Chats \cup {None}, SelectChat(c)
      PROVE  Wired'
  BY <1>7 DEF SelectChat, Ask, Sound, Typed, Wired, Undoable, Written, NoUndo, rows, view, ghost
<1>8. ASSUME NEW i \in Ids, Store(i)
      PROVE  Wired'
  BY <1>8 DEF Store, Sound, Typed, Wired, Undoable, Written, NoUndo, rows, view, ghost
<1>9. ASSUME NEW i \in Ids, Push(i)
      PROVE  Wired'
  <2>1. \A k \in DOMAIN Event("message", i) : \/ Event("message", i)[k] = [kind |-> "message", id |-> i]
                                             \/ \E j \in DOMAIN wire : Event("message", i)[k] = wire[j]
    BY EventIs DEF Sound
  <2> QED
    BY <1>9, <2>1 DEF Push, Sound, Wired, Written
<1>10. ASSUME NEW i \in Ids, Count(i)
      PROVE  Wired'
  BY <1>10 DEF Count, Sound, Typed, Wired, Undoable, Written, NoUndo, rows, view, ghost
<1>11. ASSUME NEW i \in Ids, Sent(i)
      PROVE  Wired'
  BY <1>11 DEF Sent, Sound, Typed, Wired, Undoable, Written, NoUndo, rows, view, ghost
<1>12. ASSUME NEW i \in Ids, SendFails(i)
      PROVE  Wired'
  BY <1>12 DEF SendFails, Sound, Typed, Wired, Undoable, Written, NoUndo, rows, view, ghost
<1>13. ASSUME Receive
      PROVE  Wired'
  <2>1. \A k \in DOMAIN Tail(wire) : \E j \in DOMAIN wire : Tail(wire)[k] = wire[j]
    BY <1>13, TailIs DEF Receive, Incoming, Sound
  <2> QED
    BY <1>13, <2>1 DEF Receive, Incoming, Sound, Wired, Written, rows
<1>14. ASSUME ReceiveDelete
      PROVE  Wired'
  <2>1. \A k \in DOMAIN Tail(wire) : \E j \in DOMAIN wire : Tail(wire)[k] = wire[j]
    BY <1>14, TailIs DEF ReceiveDelete, Incoming, Sound
  <2> QED
    BY <1>14, <2>1 DEF ReceiveDelete, Incoming, Sound, Wired, Written, rows
<1>15. ASSUME Deleted
      PROVE  Wired'
  <2>1. undo.id \in Ids /\ Written(undo.id)
    BY <1>15 DEF Deleted, Sound, Undoable
  <2>2. \A k \in DOMAIN Event("deleted", undo.id) : \/ Event("deleted", undo.id)[k] = [kind |-> "deleted", id |-> undo.id]
                                             \/ \E j \in DOMAIN wire : Event("deleted", undo.id)[k] = wire[j]
    BY <2>1, EventIs DEF Sound
  <2> QED
    BY <1>15, <2>1, <2>2 DEF Deleted, Sound, Wired, Written
<1>16. ASSUME DeleteFails
      PROVE  Wired'
  BY <1>16 DEF DeleteFails, Sound, Typed, Wired, Undoable, Written, NoUndo, rows, view, ghost
<1>17. ASSUME NEW s \in Slots, Read(s)
      PROVE  Wired'
  BY <1>17 DEF Read, Newest, Stored, Sound, Typed, Wired, Undoable, Written, NoUndo, rows, view, ghost
<1>18. ASSUME NEW s \in Slots, Reset(s)
      PROVE  Wired'
  BY <1>18 DEF Reset, Without, Sound, Typed, Wired, Undoable, Written, NoUndo, rows, view, ghost
<1>19. ASSUME NEW s \in Slots, ReadUnread(s)
      PROVE  Wired'
  BY <1>19 DEF ReadUnread, Sound, Typed, Wired, Undoable, Written, NoUndo, rows, view, ghost
<1>20. ASSUME NEW s \in Slots, ListSelected(s)
      PROVE  Wired'
  BY <1>20 DEF ListSelected, Answered, Sound, Typed, Wired, Undoable, Written, NoUndo, rows, view, ghost
<1>21. ASSUME NEW s \in Slots, ListRefreshed(s)
      PROVE  Wired'
  BY <1>21 DEF ListRefreshed, Answered, Merged, Sound, Typed, Wired, Undoable, Written, NoUndo, rows, view, ghost
<1>22. ASSUME NEW s \in Slots, UnreadLoaded(s)
      PROVE  Wired'
  BY <1>22 DEF UnreadLoaded, Answered, Sound, Typed, Wired, Undoable, Written, NoUndo, rows, view, ghost
<1>23. ASSUME NEW s \in Slots, Fail(s)
      PROVE  Wired'
  BY <1>23 DEF Fail, Stored, Sound, Typed, Wired, Undoable, Written, NoUndo, rows, view, ghost
<1> QED
  BY <1>1, <1>2, <1>3, <1>4, <1>5, <1>6, <1>7, <1>8, <1>9, <1>10, <1>11, <1>12, <1>13, <1>14, <1>15, <1>16, <1>17, <1>18, <1>19, <1>20, <1>21, <1>22, <1>23 DEF Next, Begin, Continue

\* Every step keeps what is known of the rollback.
LEMMA UndoableStep ==
  ASSUME Sound, Next
  PROVE  Undoable'
<1>1. ASSUME NEW c \in Chats, NEW who \in {"peer", "there"}, Write(c, who)
      PROVE  Undoable'
  BY <1>1 DEF Write, Sound, Typed, Undoable, Unwritten, Written, NoUndo, rows, view, ghost
<1>2. ASSUME SendMessage
      PROVE  Undoable'
  BY <1>2 DEF SendMessage, Sound, Typed, Undoable, Unwritten, Written, NoUndo, rows, view, ghost
<1>3. ASSUME DeleteMessage
      PROVE  Undoable'
  BY <1>3 DEF DeleteMessage, Sound, Typed, Undoable, Unwritten, Written, NoUndo, rows, view, ghost
<1>4. ASSUME Resume
      PROVE  Undoable'
  BY <1>4 DEF Resume, Sound, Typed, Undoable, Unwritten, Written, NoUndo, rows, view, ghost
<1>5. ASSUME NEW i \in Ids, PeerDeletes(i)
      PROVE  Undoable'
  BY <1>5 DEF PeerDeletes, Event, Sound, Typed, Undoable, Unwritten, Written, NoUndo, rows, view, ghost
<1>6. ASSUME NEW n \in 0..2, LinkTo(n)
      PROVE  Undoable'
  BY <1>6 DEF LinkTo, Sound, Typed, Undoable, Unwritten, Written, NoUndo, rows, view, ghost
<1>7. ASSUME NEW c \in Chats \cup {None}, SelectChat(c)
      PROVE  Undoable'
  BY <1>7 DEF SelectChat, Ask, Sound, Typed, Undoable, Unwritten, Written, NoUndo, rows, view, ghost
<1>8. ASSUME NEW i \in Ids, Store(i)
      PROVE  Undoable'
  BY <1>8 DEF Store, Sound, Typed, Undoable, Unwritten, Written, NoUndo, rows, view, ghost
<1>9. ASSUME NEW i \in Ids, Push(i)
      PROVE  Undoable'
  BY <1>9 DEF Push, Event, Reaches, Sound, Typed, Undoable, Unwritten, Written, NoUndo, rows, view, ghost
<1>10. ASSUME NEW i \in Ids, Count(i)
      PROVE  Undoable'
  BY <1>10 DEF Count, Sound, Typed, Undoable, Unwritten, Written, NoUndo, rows, view, ghost
<1>11. ASSUME NEW i \in Ids, Sent(i)
      PROVE  Undoable'
  BY <1>11 DEF Sent, Sound, Typed, Undoable, Unwritten, Written, NoUndo, rows, view, ghost
<1>12. ASSUME NEW i \in Ids, SendFails(i)
      PROVE  Undoable'
  BY <1>12 DEF SendFails, Sound, Typed, Undoable, Unwritten, Written, NoUndo, rows, view, ghost
<1>13. ASSUME Receive
      PROVE  Undoable'
  BY <1>13 DEF Receive, Incoming, IsCurrent, Sound, Typed, Undoable, Unwritten, Written, NoUndo, rows, view, ghost
<1>14. ASSUME ReceiveDelete
      PROVE  Undoable'
  BY <1>14 DEF ReceiveDelete, Incoming, Sound, Typed, Undoable, Unwritten, Written, NoUndo, rows, view, ghost
<1>15. ASSUME Deleted
      PROVE  Undoable'
  BY <1>15 DEF Deleted, Event, Sound, Typed, Undoable, Unwritten, Written, NoUndo, rows, view, ghost
<1>16. ASSUME DeleteFails
      PROVE  Undoable'
  BY <1>16 DEF DeleteFails, Sound, Typed, Undoable, Unwritten, Written, NoUndo, rows, view, ghost
<1>17. ASSUME NEW s \in Slots, Read(s)
      PROVE  Undoable'
  BY <1>17 DEF Read, Newest, Stored, Sound, Typed, Undoable, Unwritten, Written, NoUndo, rows, view, ghost
<1>18. ASSUME NEW s \in Slots, Reset(s)
      PROVE  Undoable'
  BY <1>18 DEF Reset, Without, Sound, Typed, Undoable, Unwritten, Written, NoUndo, rows, view, ghost
<1>19. ASSUME NEW s \in Slots, ReadUnread(s)
      PROVE  Undoable'
  BY <1>19 DEF ReadUnread, Sound, Typed, Undoable, Unwritten, Written, NoUndo, rows, view, ghost
<1>20. ASSUME NEW s \in Slots, ListSelected(s)
      PROVE  Undoable'
  BY <1>20 DEF ListSelected, Answered, Sound, Typed, Undoable, Unwritten, Written, NoUndo, rows, view, ghost
<1>21. ASSUME NEW s \in Slots, ListRefreshed(s)
      PROVE  Undoable'
  BY <1>21 DEF ListRefreshed, Answered, Merged, Sound, Typed, Undoable, Unwritten, Written, NoUndo, rows, view, ghost
<1>22. ASSUME NEW s \in Slots, UnreadLoaded(s)
      PROVE  Undoable'
  BY <1>22 DEF UnreadLoaded, Answered, Sound, Typed, Undoable, Unwritten, Written, NoUndo, rows, view, ghost
<1>23. ASSUME NEW s \in Slots, Fail(s)
      PROVE  Undoable'
  BY <1>23 DEF Fail, Stored, Sound, Typed, Undoable, Unwritten, Written, NoUndo, rows, view, ghost
<1> QED
  BY <1>1, <1>2, <1>3, <1>4, <1>5, <1>6, <1>7, <1>8, <1>9, <1>10, <1>11, <1>12, <1>13, <1>14, <1>15, <1>16, <1>17, <1>18, <1>19, <1>20, <1>21, <1>22, <1>23 DEF Next, Begin, Continue

\* At the start all of it holds.
LEMMA SoundInit == Init => Sound
<1> SUFFICES ASSUME Init PROVE Sound
  OBVIOUS
<1>1. Typed
  <2>1. NoUndo \in [id : Nat, chat : Chats \cup {None}, shown : [Ids -> Nat], temp : SUBSET Ids]
    BY DEF NoUndo
  <2>2. Idle \in Request
    BY DEF Idle, Request
  <2> QED BY <2>1, <2>2 DEF Init, Typed
<1>2. \A s \in Slots : Asked(fetch[s])
  BY DEF Init, Asked, Idle, Lists
<1>3. \A i \in Ids : Unwritten(i)
  BY DEF Init, Unwritten, NoUndo
<1>4. Wired /\ Undoable
  BY DEF Init, Wired, Undoable
<1> QED
  BY <1>1, <1>2, <1>3, <1>4 DEF Sound

\* No step breaks the types and what is known of requests, the wire and the rollback.
LEMMA SoundStep ==
  ASSUME Sound, [Next]_<<vars, acts>>
  PROVE  Sound'
<1>1. CASE Next
  BY <1>1, TypedStep, AskedStep, UnwrittenStep, WiredStep, UndoableStep DEF Sound
<1>2. CASE UNCHANGED <<vars, acts>>
  BY <1>2 DEF Sound, Typed, Asked, Unwritten, Written, Wired, Undoable, vars, rows, view, ghost
<1> QED
  BY <1>1, <1>2

\* A message that was counted stays so, or an answer brings it.
LEMMA CountedStep ==
  ASSUME Sound, Counted, Next
  PROVE  Counted'
<1>1. ASSUME NEW c \in Chats, NEW who \in {"peer", "there"}, Write(c, who)
      PROVE  Counted'
  <2>1. PICK i \in Ids : /\ \A j \in Ids : j < i <=> Written(j)
                         /\ about' = [about EXCEPT ![i] = [chat |-> c, from |-> who]]
    BY <1>1 DEF Write
  <2>2. ~Written(i) /\ done[i] = {} /\ \A j \in Ids \ {i} : about'[j] = about[j]
    BY <2>1, NewId DEF Message, Unwritten
  <2>3. \A d \in Chats : News(d)' \subseteq News(d)
    BY <1>1, <2>2 DEF Write, News, Written
  <2> QED
    BY <1>1, <2>3 DEF Write, Counted, Brought, ghost
<1>2. ASSUME SendMessage
      PROVE  Counted'
  BY <1>2 DEF SendMessage, Sound, Typed, Asked, Unwritten, Written, Lists, Idle, Counted, News, Brought, rows, view, ghost
<1>3. ASSUME DeleteMessage
      PROVE  Counted'
  BY <1>3 DEF DeleteMessage, Sound, Typed, Asked, Unwritten, Written, Lists, Idle, Counted, News, Brought, rows, view, ghost
<1>4. ASSUME Resume
      PROVE  Counted'
  BY <1>4 DEF Resume, Sound, Typed, Asked, Unwritten, Written, Lists, Idle, Counted, News, Brought, rows, view, ghost
<1>5. ASSUME NEW i \in Ids, PeerDeletes(i)
      PROVE  Counted'
  BY <1>5 DEF PeerDeletes, Event, Sound, Typed, Asked, Unwritten, Written, Lists, Idle, Counted, News, Brought, rows, view, ghost
<1>6. ASSUME NEW n \in 0..2, LinkTo(n)
      PROVE  Counted'
  BY <1>6 DEF LinkTo, Sound, Typed, Asked, Unwritten, Written, Lists, Idle, Counted, News, Brought, rows, view, ghost
<1>7. ASSUME NEW c \in Chats \cup {None}, SelectChat(c)
      PROVE  Counted'
  <2>1. \A i \in Ids, t \in Slots : Brought(i, t) => Brought(i, t)'
    <3>1. CASE c = None
      BY <1>7, <3>1 DEF SelectChat, Brought
    <3>2. CASE c # None
      <4>1. PICK s \in Slots : /\ fetch[s] = Idle
                               /\ fetch' = [fetch EXCEPT ![s] = [Idle EXCEPT !.kind = "select", !.chat = c, !.st = "sent"]]
        BY <1>7, <3>2 DEF SelectChat, Ask
      <4>2. \A t \in Slots \ {s} : fetch'[t] = fetch[t]
        BY <4>1 DEF Sound, Typed
      <4> QED
        BY <4>1, <4>2 DEF Brought, Idle, Lists
    <3> QED
      BY <3>1, <3>2
  <2>2. UNCHANGED <<about, done, gone, counter, seen, uncounted>>
    BY <1>7 DEF SelectChat, rows
  <2> QED
    BY <2>1, <2>2 DEF Counted, News, Written
<1>8. ASSUME NEW i \in Ids, Store(i)
      PROVE  Counted'
  BY <1>8 DEF Store, Sound, Typed, Asked, Unwritten, Written, Lists, Idle, Counted, News, Brought, rows, view, ghost
<1>9. ASSUME NEW i \in Ids, Push(i)
      PROVE  Counted'
  BY <1>9 DEF Push, Event, Reaches, Sound, Typed, Asked, Unwritten, Written, Lists, Idle, Counted, News, Brought, rows, view, ghost
<1>10. ASSUME NEW i \in Ids, Count(i)
      PROVE  Counted'
  BY <1>10 DEF Count, Sound, Typed, Asked, Unwritten, Written, Lists, Idle, Counted, News, Brought, rows, view, ghost
<1>11. ASSUME NEW i \in Ids, Sent(i)
      PROVE  Counted'
  BY <1>11 DEF Sent, Sound, Typed, Asked, Unwritten, Written, Lists, Idle, Counted, News, Brought, rows, view, ghost
<1>12. ASSUME NEW i \in Ids, SendFails(i)
      PROVE  Counted'
  BY <1>12 DEF SendFails, Sound, Typed, Asked, Unwritten, Written, Lists, Idle, Counted, News, Brought, rows, view, ghost
<1>13. ASSUME Receive
      PROVE  Counted'
  BY <1>13 DEF Receive, Incoming, IsCurrent, Sound, Typed, Asked, Unwritten, Written, Lists, Idle, Counted, News, Brought, rows, view, ghost
<1>14. ASSUME ReceiveDelete
      PROVE  Counted'
  BY <1>14 DEF ReceiveDelete, Incoming, Sound, Typed, Asked, Unwritten, Written, Lists, Idle, Counted, News, Brought, rows, view, ghost
<1>15. ASSUME Deleted
      PROVE  Counted'
  BY <1>15 DEF Deleted, Event, Sound, Typed, Asked, Unwritten, Written, Lists, Idle, Counted, News, Brought, rows, view, ghost
<1>16. ASSUME DeleteFails
      PROVE  Counted'
  BY <1>16 DEF DeleteFails, Sound, Typed, Asked, Unwritten, Written, Lists, Idle, Counted, News, Brought, rows, view, ghost
<1>17. ASSUME NEW s \in Slots, Read(s)
      PROVE  Counted'
  BY <1>17 DEF Read, Newest, Stored, Sound, Typed, Asked, Unwritten, Written, Lists, Idle, Counted, News, Brought, rows, view, ghost
<1>18. ASSUME NEW s \in Slots, Reset(s)
      PROVE  Counted'
  <2>1. /\ fetch[s].st = "read" /\ fetch[s].kind \in Lists /\ fetch[s].chat \in Chats
        /\ fetch' = [fetch EXCEPT ![s].st = "back"]
        /\ counter' = [counter EXCEPT ![fetch[s].chat] = 0]
        /\ uncounted' = uncounted \cup (News(fetch[s].chat) \ fetch[s].got)
        /\ UNCHANGED <<about, done, gone, seen>>
    BY <1>18 DEF Reset, Without, Sound, Asked, rows
  <2>2. \A t \in Slots : fetch'[t] = IF t = s THEN [fetch[s] EXCEPT !.st = "back"] ELSE fetch[t]
    BY <2>1 DEF Sound, Typed
  <2>3. fetch'[s].kind = fetch[s].kind /\ fetch'[s].st = "back" /\ fetch'[s].got = fetch[s].got
    BY <2>2 DEF Sound, Typed, Request
  <2>4. \A i \in Ids : /\ i \in fetch[s].got => Brought(i, s)'
                       /\ \A t \in Slots : Brought(i, t) => Brought(i, t)'
    BY <2>1, <2>2, <2>3 DEF Brought
  <2>5. \A c \in Chats : /\ News(c)' = News(c) /\ News(c) \subseteq Ids
                         /\ counter'[c] = IF c = fetch[s].chat THEN 0 ELSE counter[c]
    BY <2>1 DEF News, Written, Sound, Typed
  <2> QED
    BY <2>1, <2>4, <2>5 DEF Counted
<1>19. ASSUME NEW s \in Slots, ReadUnread(s)
      PROVE  Counted'
  BY <1>19 DEF ReadUnread, Sound, Typed, Asked, Unwritten, Written, Lists, Idle, Counted, News, Brought, rows, view, ghost
<1>20. ASSUME NEW s \in Slots, ListSelected(s)
      PROVE  Counted'
  BY <1>20 DEF ListSelected, Answered, Sound, Typed, Asked, Unwritten, Written, Lists, Idle, Counted, News, Brought, rows, view, ghost
<1>21. ASSUME NEW s \in Slots, ListRefreshed(s)
      PROVE  Counted'
  BY <1>21 DEF ListRefreshed, Answered, Merged, Sound, Typed, Asked, Unwritten, Written, Lists, Idle, Counted, News, Brought, rows, view, ghost
<1>22. ASSUME NEW s \in Slots, UnreadLoaded(s)
      PROVE  Counted'
  BY <1>22 DEF UnreadLoaded, Answered, Sound, Typed, Asked, Unwritten, Written, Lists, Idle, Counted, News, Brought, rows, view, ghost
<1>23. ASSUME NEW s \in Slots, Fail(s)
      PROVE  Counted'
  BY <1>23 DEF Fail, Stored, Sound, Typed, Asked, Unwritten, Written, Lists, Idle, Counted, News, Brought, rows, view, ghost
<1> QED
  BY <1>1, <1>2, <1>3, <1>4, <1>5, <1>6, <1>7, <1>8, <1>9, <1>10, <1>11, <1>12, <1>13, <1>14, <1>15, <1>16, <1>17, <1>18, <1>19, <1>20, <1>21, <1>22, <1>23 DEF Next, Begin, Continue

\* What is shown, or was when a deletion began, has its reason.
LEMMA PlacedStep ==
  ASSUME Sound, Placed, Next
  PROVE  Placed'
<1>1. ASSUME NEW c \in Chats, NEW who \in {"peer", "there"}, Write(c, who)
      PROVE  Placed'
  <2>1. PICK i \in Ids : /\ \A j \in Ids : j < i <=> Written(j)
                         /\ about' = [about EXCEPT ![i] = [chat |-> c, from |-> who]]
    BY <1>1 DEF Write
  <2>2. Unwritten(i) /\ \A j \in Ids \ {i} : about'[j] = about[j] /\ (Written(j)' <=> Written(j))
    BY <2>1, NewId DEF Message
  <2>3. UNCHANGED <<sel, shown, temp, undo, strayed>>
    BY <1>1 DEF Write, view, ghost
  <2>4. Belongs(i, sel, shown, temp)' /\ Belongs(i, undo.chat, undo.shown, undo.temp)'
    BY <2>2, <2>3 DEF Belongs, Unwritten
  <2>5. \A j \in Ids \ {i} : Written(j)' => Belongs(j, sel, shown, temp)' /\ Belongs(j, undo.chat, undo.shown, undo.temp)'
    BY <2>2, <2>3 DEF Placed, Belongs
  <2> QED
    BY <2>4, <2>5 DEF Placed
<1>2. ASSUME SendMessage
      PROVE  Placed'
  <2>1. PICK i \in Ids : /\ \A j \in Ids : j < i <=> Written(j)
                         /\ about' = [about EXCEPT ![i] = [chat |-> sel, from |-> "here"]]
                         /\ temp' = temp \cup {i}
    BY <1>2 DEF SendMessage
  <2>2. /\ Unwritten(i) /\ about'[i] = [chat |-> sel, from |-> "here"]
        /\ \A j \in Ids \ {i} : about'[j] = about[j] /\ (Written(j)' <=> Written(j))
    <3>1. [chat |-> sel, from |-> "here"] \in Message
      BY <1>2 DEF SendMessage, Message, Sound, Typed
    <3> QED BY <2>1, <3>1, NewId
  <2>3. UNCHANGED <<sel, shown, undo, strayed>>
    BY <1>2 DEF SendMessage, ghost
  <2>4. Belongs(i, sel, shown, temp)' /\ Belongs(i, undo.chat, undo.shown, undo.temp)'
    BY <2>1, <2>2, <2>3 DEF Belongs, Unwritten
  <2>5. \A j \in Ids \ {i} : Written(j)' => Belongs(j, sel, shown, temp)' /\ Belongs(j, undo.chat, undo.shown, undo.temp)'
    BY <2>1, <2>2, <2>3 DEF Placed, Belongs
  <2> QED
    BY <2>4, <2>5 DEF Placed
<1>3. ASSUME DeleteMessage
      PROVE  Placed'
  BY <1>3 DEF DeleteMessage, Sound, Typed, Asked, Unwritten, Undoable, Written, Lists, Idle, NoUndo, Placed, Belongs, rows, view, ghost
<1>4. ASSUME Resume
      PROVE  Placed'
  BY <1>4 DEF Resume, Sound, Typed, Asked, Unwritten, Undoable, Written, Lists, Idle, NoUndo, Placed, Belongs, rows, view, ghost
<1>5. ASSUME NEW i \in Ids, PeerDeletes(i)
      PROVE  Placed'
  BY <1>5 DEF PeerDeletes, Event, Sound, Typed, Asked, Unwritten, Undoable, Written, Lists, Idle, NoUndo, Placed, Belongs, rows, view, ghost
<1>6. ASSUME NEW n \in 0..2, LinkTo(n)
      PROVE  Placed'
  BY <1>6 DEF LinkTo, Sound, Typed, Asked, Unwritten, Undoable, Written, Lists, Idle, NoUndo, Placed, Belongs, rows, view, ghost
<1>7. ASSUME NEW c \in Chats \cup {None}, SelectChat(c)
      PROVE  Placed'
  BY <1>7 DEF SelectChat, Ask, Sound, Typed, Asked, Unwritten, Undoable, Written, Lists, Idle, NoUndo, Placed, Belongs, rows, view, ghost
<1>8. ASSUME NEW i \in Ids, Store(i)
      PROVE  Placed'
  BY <1>8 DEF Store, Sound, Typed, Asked, Unwritten, Undoable, Written, Lists, Idle, NoUndo, Placed, Belongs, rows, view, ghost
<1>9. ASSUME NEW i \in Ids, Push(i)
      PROVE  Placed'
  BY <1>9 DEF Push, Event, Reaches, Sound, Typed, Asked, Unwritten, Undoable, Written, Lists, Idle, NoUndo, Placed, Belongs, rows, view, ghost
<1>10. ASSUME NEW i \in Ids, Count(i)
      PROVE  Placed'
  BY <1>10 DEF Count, Sound, Typed, Asked, Unwritten, Undoable, Written, Lists, Idle, NoUndo, Placed, Belongs, rows, view, ghost
<1>11. ASSUME NEW i \in Ids, Sent(i)
      PROVE  Placed'
  BY <1>11 DEF Sent, Sound, Typed, Asked, Unwritten, Undoable, Written, Lists, Idle, NoUndo, Placed, Belongs, rows, view, ghost
<1>12. ASSUME NEW i \in Ids, SendFails(i)
      PROVE  Placed'
  BY <1>12 DEF SendFails, Sound, Typed, Asked, Unwritten, Undoable, Written, Lists, Idle, NoUndo, Placed, Belongs, rows, view, ghost
<1>13. ASSUME Receive
      PROVE  Placed'
  <2>1. PICK h \in Ids : h = Head(wire).id /\ Written(h)
    BY <1>13, TailIs DEF Receive, Incoming, Sound, Wired
  <2>2. /\ shown' = shown \/ (shown[h] = 0 /\ IsCurrent(h) /\ shown' = [shown EXCEPT ![h] = 1])
        /\ UNCHANGED <<about, sel, temp, undo, strayed>>
    <3>1. shown[h] \in Nat
      BY DEF Sound, Typed
    <3> QED
      BY <1>13, <2>1, <3>1 DEF Receive, rows
  <2>3. ASSUME NEW j \in Ids, Written(j)'
        PROVE  Belongs(j, sel, shown, temp)' /\ Belongs(j, undo.chat, undo.shown, undo.temp)'
    <3>1. Belongs(j, sel, shown, temp) /\ Belongs(j, undo.chat, undo.shown, undo.temp)
      BY <2>2, <2>3 DEF Placed, Written
    <3>2. shown'[j] = shown[j] \/ (shown'[j] = 1 /\ IsCurrent(j))
      BY <2>2 DEF Sound, Typed
    <3>3. Belongs(j, sel, shown, temp)'
      BY <2>2, <3>1, <3>2 DEF Belongs, IsCurrent
    <3> QED
      BY <2>2, <3>1, <3>3 DEF Belongs
  <2> QED
    BY <2>3 DEF Placed
<1>14. ASSUME ReceiveDelete
      PROVE  Placed'
  <2>1. UNCHANGED <<about, sel, temp, undo, strayed>>
    BY <1>14 DEF ReceiveDelete, rows, ghost
  <2>2. \A j \in Ids : shown[j] \in Nat /\ shown'[j] \in {0, shown[j]}
    BY <1>14 DEF ReceiveDelete, Sound, Typed
  <2> QED
    BY <2>1, <2>2 DEF Placed, Belongs, Written
<1>15. ASSUME Deleted
      PROVE  Placed'
  BY <1>15 DEF Deleted, Event, Sound, Typed, Asked, Unwritten, Undoable, Written, Lists, Idle, NoUndo, Placed, Belongs, rows, view, ghost
<1>16. ASSUME DeleteFails
      PROVE  Placed'
  <2>1. /\ undo' = NoUndo /\ shown' = undo.shown /\ temp' = undo.temp /\ strayed' = (strayed \/ undo.chat # sel)
        /\ UNCHANGED <<about, sel>>
    BY <1>16 DEF DeleteFails, rows
  <2>2. ASSUME NEW i \in Ids, Written(i)'
        PROVE  Belongs(i, sel, shown, temp)' /\ Belongs(i, undo.chat, undo.shown, undo.temp)'
    <3>1. Belongs(i, undo.chat, undo.shown, undo.temp)
      BY <2>1, <2>2 DEF Placed, Written
    <3>2. Belongs(i, sel, shown, temp)'
      BY <2>1, <3>1 DEF Belongs
    <3>3. Belongs(i, undo.chat, undo.shown, undo.temp)'
      BY <2>1 DEF Belongs, NoUndo
    <3> QED
      BY <3>2, <3>3
  <2> QED
    BY <2>2 DEF Placed
<1>17. ASSUME NEW s \in Slots, Read(s)
      PROVE  Placed'
  BY <1>17 DEF Read, Newest, Stored, Sound, Typed, Asked, Unwritten, Undoable, Written, Lists, Idle, NoUndo, Placed, Belongs, rows, view, ghost
<1>18. ASSUME NEW s \in Slots, Reset(s)
      PROVE  Placed'
  BY <1>18 DEF Reset, Without, Sound, Typed, Asked, Unwritten, Undoable, Written, Lists, Idle, NoUndo, Placed, Belongs, rows, view, ghost
<1>19. ASSUME NEW s \in Slots, ReadUnread(s)
      PROVE  Placed'
  BY <1>19 DEF ReadUnread, Sound, Typed, Asked, Unwritten, Undoable, Written, Lists, Idle, NoUndo, Placed, Belongs, rows, view, ghost
<1>20. ASSUME NEW s \in Slots, ListSelected(s)
      PROVE  Placed'
  <2>1. /\ fetch[s].kind = "select" /\ shown' = [i \in Ids |-> IF i \in fetch[s].got THEN 1 ELSE 0] /\ temp' = {}
        /\ strayed' = (strayed \/ sel # fetch[s].chat) /\ UNCHANGED <<about, sel, undo>>
    BY <1>20 DEF ListSelected, Answered, rows
  <2>2. \A i \in fetch[s].got : about[i].chat = fetch[s].chat
    BY <2>1 DEF Sound, Asked, Lists
  <2>3. ASSUME NEW i \in Ids PROVE Belongs(i, sel, shown, temp)'
    <3>1. shown'[i] = (IF i \in fetch[s].got THEN 1 ELSE 0) /\ temp' = {}
      BY <2>1
    <3>2. CASE i \in fetch[s].got
      <4>1. about'[i].chat = fetch[s].chat /\ shown'[i] = 1 /\ i \notin temp'
        BY <2>1, <2>2, <3>1, <3>2
      <4>2. strayed' \/ sel' = fetch[s].chat
        BY <2>1
      <4> QED
        BY <4>1, <4>2 DEF Belongs
    <3>3. CASE i \notin fetch[s].got
      <4>1. shown'[i] = 0 /\ i \notin temp'
        BY <3>1, <3>3
      <4> QED
        BY <4>1 DEF Belongs
    <3> QED
      BY <3>2, <3>3
  <2> QED
    BY <2>1, <2>3 DEF Placed, Belongs, Written
<1>21. ASSUME NEW s \in Slots, ListRefreshed(s)
      PROVE  Placed'
  <2>1. /\ fetch[s].kind = "refresh" /\ UNCHANGED <<about, sel, temp, undo, strayed>>
        /\ shown' = shown \/ (sel = fetch[s].chat /\ shown' = Merged(fetch[s].got))
    BY <1>21 DEF ListRefreshed, Answered, rows
  <2>2. \A i \in fetch[s].got : about[i].chat = fetch[s].chat
    BY <2>1 DEF Sound, Asked, Lists
  <2>3. ASSUME NEW i \in Ids, Written(i)' PROVE Belongs(i, sel, shown, temp)'
    <3>1. Belongs(i, sel, shown, temp) /\ shown[i] \in Nat
      BY <2>1, <2>3 DEF Placed, Written, Sound, Typed
    <3>2. shown'[i] = shown[i] \/ (sel = fetch[s].chat /\ i \in fetch[s].got /\ shown'[i] = 1)
      BY <2>1 DEF Merged
    <3> QED
      BY <2>1, <2>2, <3>1, <3>2 DEF Belongs
  <2> QED
    BY <2>1, <2>3 DEF Placed, Belongs, Written
<1>22. ASSUME NEW s \in Slots, UnreadLoaded(s)
      PROVE  Placed'
  BY <1>22 DEF UnreadLoaded, Answered, Sound, Typed, Asked, Unwritten, Undoable, Written, Lists, Idle, NoUndo, Placed, Belongs, rows, view, ghost
<1>23. ASSUME NEW s \in Slots, Fail(s)
      PROVE  Placed'
  BY <1>23 DEF Fail, Stored, Sound, Typed, Asked, Unwritten, Undoable, Written, Lists, Idle, NoUndo, Placed, Belongs, rows, view, ghost
<1> QED
  BY <1>1, <1>2, <1>3, <1>4, <1>5, <1>6, <1>7, <1>8, <1>9, <1>10, <1>11, <1>12, <1>13, <1>14, <1>15, <1>16, <1>17, <1>18, <1>19, <1>20, <1>21, <1>22, <1>23 DEF Next, Begin, Continue

\* Messages that are there stay there, so a full page stays full.
LEMMA AboutGrows ==
  ASSUME Sound, Next
  PROVE  \A j \in Ids : Written(j) => Written(j)' /\ about'[j] = about[j]
<1>1. ASSUME NEW c \in Chats, NEW who \in {"peer", "there"}, Write(c, who)
      PROVE  \A j \in Ids : Written(j) => Written(j)' /\ about'[j] = about[j]
  <2>1. PICK i \in Ids : /\ \A j \in Ids : j < i <=> Written(j)
                         /\ about' = [about EXCEPT ![i] = [chat |-> c, from |-> who]]
    BY <1>1 DEF Write
  <2> QED
    BY <2>1, NewId DEF Message
<1>2. ASSUME SendMessage
      PROVE  \A j \in Ids : Written(j) => Written(j)' /\ about'[j] = about[j]
  <2>1. PICK i \in Ids : /\ \A j \in Ids : j < i <=> Written(j)
                         /\ about' = [about EXCEPT ![i] = [chat |-> sel, from |-> "here"]]
    BY <1>2 DEF SendMessage
  <2> QED
    BY <1>2, <2>1, NewId DEF SendMessage, Message, Sound, Typed
<1>3. \/ UNCHANGED about \/ SendMessage \/ \E c \in Chats, who \in {"peer", "there"} : Write(c, who)
  BY DEF Next, Begin, Continue, DeleteMessage, Resume, PeerDeletes, LinkTo, SelectChat, Store, Push, Count, Sent,
     SendFails, Receive, ReceiveDelete, Deleted, DeleteFails, Read, Reset, ReadUnread, ListSelected, ListRefreshed,
     UnreadLoaded, Fail, rows
<1> QED
  BY <1>1, <1>2, <1>3 DEF Written

\* The messages after one are finitely many, and a set of them no more.
LEMMA LaterFinite ==
  ASSUME NEW S \in SUBSET Ids, NEW R \in SUBSET S
  PROVE  Cardinality(S) \in Nat /\ Cardinality(R) \in Nat /\ Cardinality(R) <= Cardinality(S)
<1>1. IsFiniteSet(Ids)
  BY FS_Interval, SyncAssumption DEF Ids
<1> QED
  BY <1>1, FS_Subset, FS_CardinalityType

\* While a chat is open, what is too old for its last page stays so.
LEMMA OldStays ==
  ASSUME Sound, Next, sel' = sel
  PROVE  Old \subseteq Old'
<1> SUFFICES ASSUME NEW i \in Ids, Cardinality(Later(i, sel)) >= Page PROVE Cardinality(Later(i, sel)') >= Page
  BY DEF Old
<1>1. Later(i, sel) \subseteq Later(i, sel)' /\ Later(i, sel)' \subseteq Ids
  BY AboutGrows DEF Later
<1>2. /\ Cardinality(Later(i, sel)) <= Cardinality(Later(i, sel)')
      /\ Cardinality(Later(i, sel)) \in Nat /\ Cardinality(Later(i, sel)') \in Nat
  BY <1>1, LaterFinite
<1> QED
  BY <1>2, SyncAssumption

\* While a chat is open, it is enough to look at the rows that came and at the
\* reasons that went.
LEMMA StillComplete ==
  ASSUME Sound, Complete, Next, sel' = sel, Rows' \subseteq Rows \cup Explained',
         Rows' \cap (Present \cup missed \cup Pending \cup {undo.id} \cup Selected) \subseteq Explained'
  PROVE  Complete'
<1>1. Old \subseteq Explained'
  BY OldStays DEF Explained
<1> QED
  BY <1>1 DEF Complete, Explained

\* A message that the open chat misses keeps a reason, through every step.
LEMMA CompleteStep ==
  ASSUME Sound, Complete, Next
  PROVE  Complete'
<1>1. ASSUME NEW c \in Chats, NEW who \in {"peer", "there"}, Write(c, who)
      PROVE  Complete'
  <2>1. PICK i \in Ids : /\ \A j \in Ids : j < i <=> Written(j)
                         /\ about' = [about EXCEPT ![i] = [chat |-> c, from |-> who]]
    BY <1>1 DEF Write
  <2>2. ~Written(i) /\ done[i] = {} /\ \A j \in Ids \ {i} : about'[j] = about[j] /\ (Written(j)' <=> Written(j))
    BY <2>1, NewId DEF Message, Unwritten
  <2>3. UNCHANGED <<done, gone, wire, sel, shown, fetch, undo, missed>>
    BY <1>1 DEF Write, view, ghost
  <2>4. Rows' = Rows /\ i \notin Rows
    BY <2>2, <2>3 DEF Rows, Stored
  <2>5. Rows \cap Pending \subseteq Pending'
    BY <2>2, <2>3, <2>4 DEF Pending, Unpushed, Unanswered, Coming
  <2>6. Present' = Present /\ Selected' = Selected
    BY <2>3 DEF Present, Selected, Selecting
  <2> QED
    BY <1>1, <2>3, <2>4, <2>5, <2>6, StillComplete DEF Explained
<1>2. ASSUME SendMessage
      PROVE  Complete'
  <2>1. PICK i \in Ids : /\ \A j \in Ids : j < i <=> Written(j)
                         /\ about' = [about EXCEPT ![i] = [chat |-> sel, from |-> "here"]]
    BY <1>2 DEF SendMessage
  <2>2. ~Written(i) /\ Unwritten(i) /\ \A j \in Ids \ {i} : about'[j] = about[j] /\ (Written(j)' <=> Written(j))
    <3>1. [chat |-> sel, from |-> "here"] \in Message
      BY <1>2 DEF SendMessage, Message, Sound, Typed
    <3> QED BY <2>1, <3>1, NewId
  <2>3. UNCHANGED <<done, gone, wire, sel, shown, fetch, undo, missed>>
    BY <1>2 DEF SendMessage, ghost
  <2>4. Rows' = Rows /\ i \notin Rows
    BY <2>2, <2>3 DEF Rows, Stored, Unwritten
  <2>5. Rows \cap Pending \subseteq Pending'
    BY <2>2, <2>3, <2>4 DEF Pending, Unpushed, Unanswered, Coming
  <2>6. Present' = Present /\ Selected' = Selected
    BY <2>3 DEF Present, Selected, Selecting
  <2> QED
    BY <1>2, <2>3, <2>4, <2>5, <2>6, StillComplete DEF Explained
<1>3. ASSUME DeleteMessage
      PROVE  Complete'
  <2>1. PICK i \in Ids : /\ undo = NoUndo /\ undo' = [id |-> i, chat |-> sel, shown |-> shown, temp |-> temp]
                         /\ shown' = [shown EXCEPT ![i] = 0]
                         /\ UNCHANGED <<about, done, gone, wire, sel, fetch, missed>>
    BY <1>3 DEF DeleteMessage, rows, ghost
  <2>2. Present \ {i} \subseteq Present' /\ undo'.id = i /\ undo.id = 0
    BY <2>1 DEF Present, NoUndo, Sound, Typed
  <2>3. Rows' = Rows /\ Rows \subseteq Ids /\ 0 \notin Ids
    BY <2>1 DEF Rows, Stored, Written, Ids
  <2>4. Pending' = Pending /\ Selected' = Selected
    BY <2>1 DEF Pending, Unpushed, Unanswered, Coming, Written, Selected, Selecting
  <2> QED
    BY <1>3, <2>1, <2>2, <2>3, <2>4, StillComplete DEF Explained
<1>4. ASSUME Resume
      PROVE  Complete'
  <2>1. Rows' = Rows /\ Present' = Present /\ missed' = missed /\ Pending' = Pending /\ undo' = undo /\ sel' = sel
    BY <1>4 DEF Resume, Rows, Stored, Written, Present, Pending, Coming, Unpushed, Unanswered, rows, view, ghost
  <2>2. Selected \subseteq Selected'
    <3>1. \A s \in Slots : fetch[s].kind = "idle"
      BY <1>4 DEF Resume, Idle
    <3> QED
      BY <3>1 DEF Selected, Selecting
  <2> QED
    BY <1>4, <2>1, <2>2, StillComplete DEF Explained
<1>5. ASSUME NEW i \in Ids, PeerDeletes(i)
      PROVE  Complete'
  <2>1. Coming \subseteq Coming'
    <3>1. wire' = Event("deleted", i)
      BY <1>5 DEF PeerDeletes
    <3>2. \A j \in DOMAIN wire : j \in DOMAIN wire' /\ wire'[j] = wire[j]
      BY <3>1, EventIs DEF Sound
    <3> QED
      BY <3>2 DEF Coming
  <2>2. Rows' \subseteq Rows /\ UNCHANGED <<about, done, sel, shown, fetch, undo, missed>>
    BY <1>5 DEF PeerDeletes, Rows, Stored, Written, view, ghost
  <2>3. Pending \subseteq Pending' /\ Present' = Present /\ Selected' = Selected
    BY <2>1, <2>2 DEF Pending, Unpushed, Unanswered, Written, Present, Selected, Selecting
  <2> QED
    BY <1>5, <2>2, <2>3, StillComplete DEF Explained
<1>6. ASSUME NEW n \in 0..2, LinkTo(n)
      PROVE  Complete'
  <2>1. Coming \subseteq Coming' \cup missed' /\ missed \subseteq missed'
    BY <1>6 DEF LinkTo, Coming
  <2>2. Rows' = Rows /\ UNCHANGED <<about, done, sel, shown, fetch, undo>>
    BY <1>6 DEF LinkTo, Rows, Stored, Written, view, rows
  <2>3. Pending \subseteq Pending' \cup missed' /\ Present' = Present /\ Selected' = Selected
    BY <2>1, <2>2 DEF Pending, Unpushed, Unanswered, Written, Present, Selected, Selecting
  <2> QED
    BY <1>6, <2>1, <2>2, <2>3, StillComplete DEF Explained
<1>7. ASSUME NEW c \in Chats \cup {None}, SelectChat(c)
      PROVE  Complete'
  <2>1. CASE c = None
    BY <1>7, <2>1 DEF SelectChat, Complete
  <2>2. CASE c # None
    <3>1. PICK s \in Slots : fetch' = [fetch EXCEPT ![s] = [Idle EXCEPT !.kind = "select", !.chat = c, !.st = "sent"]]
      BY <1>7, <2>2 DEF SelectChat, Ask
    <3>2. fetch'[s].kind = "select" /\ fetch'[s].chat = c /\ fetch'[s].st = "sent" /\ sel' = c
      BY <1>7, <3>1 DEF SelectChat, Idle, Sound, Typed
    <3>3. Ids \subseteq Selected'
      BY <3>2 DEF Selected, Selecting
    <3>4. Rows' \subseteq Ids
      BY DEF Rows, Stored
    <3> QED
      BY <3>3, <3>4 DEF Explained, Complete
  <2> QED
    BY <2>1, <2>2
<1>8. ASSUME NEW i \in Ids, Store(i)
      PROVE  Complete'
  <2>1. /\ Written(i) /\ UNCHANGED <<about, gone, wire, sel, shown, fetch, undo, missed>>
        /\ done'[i] = {"store"} /\ \A j \in Ids \ {i} : done'[j] = done[j]
    BY <1>8 DEF Store, view, ghost, Sound, Typed
  <2>2. Rows' \subseteq Rows \cup {i}
    BY <2>1 DEF Rows, Stored, Written
  <2>3. Pending \subseteq Pending' /\ i \in Pending'
    BY <2>1 DEF Pending, Unpushed, Unanswered, Coming, Written
  <2>4. Present' = Present /\ Selected' = Selected
    BY <2>1 DEF Present, Selected, Selecting
  <2> QED
    BY <1>8, <2>1, <2>2, <2>3, <2>4, StillComplete DEF Explained
<1>9. ASSUME NEW i \in Ids, Push(i)
      PROVE  Complete'
  <2>1. /\ UNCHANGED <<about, gone, sel, shown, fetch, undo>> /\ missed \subseteq missed'
        /\ done'[i] = done[i] \cup {"push"} /\ \A j \in Ids \ {i} : done'[j] = done[j]
    BY <1>9 DEF Push, view, Sound, Typed
  <2>2. Coming \subseteq Coming' /\ i \in Coming' \cup missed'
    <3>1. CASE Reaches(i)
      <4>1. wire' = Event("message", i) /\ (link > 0 \/ i \in missed')
        BY <1>9, <3>1 DEF Push
      <4>2. /\ \A j \in DOMAIN wire : j \in DOMAIN wire' /\ wire'[j] = wire[j]
            /\ link > 0 => \E k \in DOMAIN wire' : wire'[k] = [kind |-> "message", id |-> i]
        <5>1. Typed /\ "message" \in {"message", "deleted"}
          BY DEF Sound
        <5>2. /\ \A j \in DOMAIN wire : j \in DOMAIN Event("message", i) /\ Event("message", i)[j] = wire[j]
              /\ link > 0 => \E k \in DOMAIN Event("message", i) : Event("message", i)[k] = [kind |-> "message", id |-> i]
          BY <5>1, EventIs
        <5> QED BY <4>1, <5>2
      <4> QED
        <5>1. Coming \subseteq Coming'
          BY <4>2 DEF Coming
        <5>2. link > 0 => i \in Coming'
          BY <4>2 DEF Coming
        <5> QED BY <4>1, <5>1, <5>2
    <3>2. CASE ~Reaches(i)
      BY <1>9, <3>2 DEF Push, Coming
    <3> QED
      BY <3>1, <3>2
  <2>3. Rows' = Rows
    BY <2>1 DEF Rows, Stored, Written
  <2>4. Pending \subseteq Pending' \cup missed' /\ Present' = Present /\ Selected' = Selected
    BY <2>1, <2>2 DEF Pending, Unpushed, Unanswered, Written, Present, Selected, Selecting
  <2> QED
    BY <1>9, <2>1, <2>3, <2>4, StillComplete DEF Explained
<1>10. ASSUME NEW i \in Ids, Count(i)
      PROVE  Complete'
  <2>1. /\ UNCHANGED <<about, gone, wire, sel, shown, fetch, undo, missed>>
        /\ done'[i] = done[i] \cup {"count"} /\ \A j \in Ids \ {i} : done'[j] = done[j]
    BY <1>10 DEF Count, view, ghost, Sound, Typed
  <2>2. Rows' = Rows
    BY <2>1 DEF Rows, Stored, Written
  <2>3. Pending' = Pending /\ Present' = Present /\ Selected' = Selected
    BY <2>1 DEF Pending, Unpushed, Unanswered, Coming, Written, Present, Selected, Selecting
  <2> QED
    BY <1>10, <2>1, <2>2, <2>3, StillComplete DEF Explained
<1>11. ASSUME NEW i \in Ids, Sent(i)
      PROVE  Complete'
  <2>1. /\ UNCHANGED <<about, gone, wire, sel, fetch, undo>> /\ about[i].from = "here"
        /\ done'[i] = done[i] \cup {"answer"} /\ \A j \in Ids \ {i} : done'[j] = done[j]
    BY <1>11 DEF Sent, Sound, Typed
  <2>2. Present \subseteq Present'
    BY <1>11 DEF Sent, Present, Sound, Typed
  <2>3. missed \cup {i} \subseteq missed' \cup Present'
    BY <1>11 DEF Sent, Present
  <2>4. Rows' = Rows
    BY <2>1 DEF Rows, Stored, Written
  <2>5. Pending \subseteq Pending' \cup {i} /\ Selected' = Selected
    BY <2>1 DEF Pending, Unpushed, Unanswered, Coming, Written, Selected, Selecting
  <2> QED
    BY <1>11, <2>1, <2>2, <2>3, <2>4, <2>5, StillComplete DEF Explained
<1>12. ASSUME NEW i \in Ids, SendFails(i)
      PROVE  Complete'
  <2>1. /\ UNCHANGED <<about, gone, wire, sel, shown, fetch, undo>> /\ about[i].from = "here"
        /\ done'[i] = done[i] \cup {"answer"} /\ \A j \in Ids \ {i} : done'[j] = done[j]
    BY <1>12 DEF SendFails, view, Sound, Typed
  <2>2. Present' = Present /\ missed \cup {i} \subseteq missed' \cup Present'
    BY <1>12, <2>1 DEF SendFails, Present
  <2>3. Rows' = Rows
    BY <2>1 DEF Rows, Stored, Written
  <2>4. Pending \subseteq Pending' \cup {i} /\ Selected' = Selected
    BY <2>1 DEF Pending, Unpushed, Unanswered, Coming, Written, Selected, Selecting
  <2> QED
    BY <1>12, <2>1, <2>2, <2>3, <2>4, StillComplete DEF Explained
<1>13. ASSUME Receive
      PROVE  Complete'
  <2>1. PICK h \in Ids : h = Head(wire).id /\ Written(h)
    BY <1>13, TailIs DEF Receive, Incoming, Sound, Wired
  <2>2. Coming \subseteq Coming' \cup {h}
    <3>1. wire # <<>> /\ wire' = Tail(wire)
      BY <1>13 DEF Receive, Incoming
    <3>2. \A j \in DOMAIN wire : wire[j] = Head(wire) \/ \E k \in DOMAIN wire' : wire'[k] = wire[j]
      BY <3>1, TailIs DEF Sound
    <3> QED
      BY <2>1, <3>2 DEF Coming
  <2>3. /\ about[h].from = "here" \/ shown[h] > 0 \/ ~IsCurrent(h) \/ shown' = [shown EXCEPT ![h] = 1]
        /\ shown' = shown \/ shown' = [shown EXCEPT ![h] = 1]
        /\ missed \subseteq missed' \cup {h} /\ (h \in missed => h \in missed' \/ shown'[h] > 0)
        /\ UNCHANGED <<about, done, gone, sel, fetch, undo>>
    BY <1>13, <2>1 DEF Receive, rows
  <2>4. Present \subseteq Present' /\ missed \subseteq missed' \cup Present'
    <3>1. ASSUME NEW j \in Ids, shown[j] > 0 PROVE shown'[j] > 0
      <4>1. shown \in [Ids -> Nat] /\ (shown' = shown \/ shown' = [shown EXCEPT ![h] = 1])
        BY <2>3 DEF Sound, Typed
      <4>2. shown'[j] = shown[j] \/ shown'[j] = 1
        BY <4>1
      <4> QED
        BY <3>1, <4>2
    <3> QED
      BY <2>3, <3>1 DEF Present
  <2>5. Rows' = Rows
    BY <2>3 DEF Rows, Stored, Written
  <2>6. Rows \cap Pending \subseteq Pending' \cup Present'
    <3>1. ASSUME h \in Rows, about[h].from # "here" PROVE h \in Present'
      <4>1. IsCurrent(h)
        BY <3>1 DEF Rows, Stored, IsCurrent, Sound, Typed, Message, Chats, Written
      <4>2. shown[h] > 0 \/ shown'[h] = 1
        BY <2>3, <3>1, <4>1 DEF Sound, Typed
      <4> QED
        BY <2>4, <4>2 DEF Present
    <3> QED
      BY <2>2, <2>3, <3>1 DEF Pending, Unpushed, Unanswered, Written
  <2>7. Selected' = Selected
    BY <2>3 DEF Selected, Selecting
  <2> QED
    BY <1>13, <2>3, <2>4, <2>5, <2>6, <2>7, StillComplete DEF Explained
<1>14. ASSUME ReceiveDelete
      PROVE  Complete'
  <2>1. PICK h \in Ids : h = Head(wire).id /\ h \in gone
    BY <1>14, TailIs DEF ReceiveDelete, Incoming, Sound, Wired
  <2>2. Coming \subseteq Coming'
    <3>1. wire # <<>> /\ wire' = Tail(wire)
      BY <1>14 DEF ReceiveDelete, Incoming
    <3>2. \A j \in DOMAIN wire : wire[j] = Head(wire) \/ \E k \in DOMAIN wire' : wire'[k] = wire[j]
      BY <3>1, TailIs DEF Sound
    <3> QED
      BY <1>14, <3>2 DEF Coming, ReceiveDelete
  <2>3. shown' = [shown EXCEPT ![h] = 0] /\ UNCHANGED <<about, done, gone, sel, fetch, undo, missed>>
    BY <1>14, <2>1 DEF ReceiveDelete, rows, ghost
  <2>4. Rows' = Rows /\ h \notin Rows
    BY <2>1, <2>3 DEF Rows, Stored, Written
  <2>5. Present \subseteq Present' \cup {h}
    BY <2>3 DEF Present, Sound, Typed
  <2>6. Pending \subseteq Pending' /\ Selected' = Selected
    BY <2>2, <2>3 DEF Pending, Unpushed, Unanswered, Written, Selected, Selecting
  <2> QED
    BY <1>14, <2>3, <2>4, <2>5, <2>6, StillComplete DEF Explained
<1>15. ASSUME Deleted
      PROVE  Complete'
  <2>1. undo.id \in Ids /\ undo.id \notin Rows'
    BY <1>15 DEF Deleted, Sound, Undoable, Rows, Stored
  <2>2. Coming \subseteq Coming'
    <3>1. wire' = Event("deleted", undo.id)
      BY <1>15 DEF Deleted
    <3>2. \A j \in DOMAIN wire : j \in DOMAIN wire' /\ wire'[j] = wire[j]
      BY <2>1, <3>1, EventIs DEF Sound
    <3> QED
      BY <3>2 DEF Coming
  <2>3. Rows' \subseteq Rows /\ UNCHANGED <<about, done, sel, shown, fetch, missed>>
    BY <1>15 DEF Deleted, Rows, Stored, Written, view, ghost
  <2>4. Pending \subseteq Pending' /\ Present' = Present /\ Selected' = Selected
    BY <2>2, <2>3 DEF Pending, Unpushed, Unanswered, Written, Present, Selected, Selecting
  <2> QED
    BY <1>15, <2>1, <2>3, <2>4, StillComplete DEF Explained
<1>16. ASSUME DeleteFails
      PROVE  Complete'
  <2>1. /\ undo # NoUndo /\ shown' = undo.shown
        /\ missed' = (missed \cup {i \in Ids : shown[i] > 0 /\ undo.shown[i] = 0} \cup (temp \ undo.temp))
                      \ {i \in Ids : undo.shown[i] > 0}
        /\ UNCHANGED <<about, done, gone, wire, sel, fetch>>
    BY <1>16 DEF DeleteFails, rows
  <2>2. undo.id \in Present' /\ missed \subseteq missed' \cup Present'
    BY <2>1 DEF Present, Sound, Undoable
  <2>3. Present \subseteq missed' \cup Present'
    <3>1. undo.shown \in [Ids -> Nat]
      BY DEF Sound, Typed
    <3> QED
      BY <2>1, <3>1 DEF Present
  <2>4. Rows' = Rows /\ Pending' = Pending /\ Selected' = Selected
    BY <2>1 DEF Rows, Stored, Pending, Unpushed, Unanswered, Coming, Written, Selected, Selecting
  <2> QED
    BY <1>16, <2>1, <2>2, <2>3, <2>4, StillComplete DEF Explained
<1>17. ASSUME NEW s \in Slots, Read(s)
      PROVE  Complete'
  <2>1. /\ fetch[s].st = "sent" /\ UNCHANGED <<about, done, gone, wire, sel, shown, undo, missed>>
        /\ fetch' = [fetch EXCEPT ![s] = [fetch[s] EXCEPT !.st = "read", !.got = Newest(Stored(fetch[s].chat))]]
    BY <1>17 DEF Read, rows, view, ghost, Sound, Typed
  <2>2. \A t \in Slots \ {s} : fetch'[t] = fetch[t]
    BY <2>1 DEF Sound, Typed
  <2>3. /\ fetch'[s].kind = fetch[s].kind /\ fetch'[s].chat = fetch[s].chat
        /\ fetch'[s].st = "read" /\ fetch'[s].got = Newest(Stored(fetch[s].chat))
    BY <2>1 DEF Sound, Typed, Request
  <2>4. Rows' = Rows /\ Pending' = Pending /\ Present' = Present
    BY <2>1 DEF Rows, Stored, Pending, Unpushed, Unanswered, Coming, Written, Present
  <2>5. Rows \subseteq Newest(Rows) \cup Old'
    <3> SUFFICES ASSUME NEW i \in Rows, i \notin Newest(Rows) PROVE i \in Old'
      OBVIOUS
    <3> DEFINE after == {j \in Rows : j > i}
    <3>1. after \subseteq Later(i, sel) /\ Later(i, sel) \subseteq Ids /\ i \in Ids
      BY DEF Rows, Stored, Later
    <3>2. ~(Cardinality(after) < Page)
      BY DEF Newest
    <3> HIDE DEF after
    <3>3. Cardinality(Later(i, sel)) >= Page
      BY <3>1, <3>2, LaterFinite, SyncAssumption
    <3>4. Later(i, sel)' = Later(i, sel)
      BY <2>1 DEF Later, Written
    <3> QED
      BY <3>1, <3>3, <3>4 DEF Old
  <2>6. Rows \cap Selecting(s) \subseteq Selecting(s)' \cup Old'
    BY <2>1, <2>3, <2>5 DEF Selecting, Rows
  <2>7. \A t \in Slots \ {s} : Selecting(t)' = Selecting(t)
    BY <2>1, <2>2 DEF Selecting
  <2>8. Rows \cap Selected \subseteq Selected' \cup Old'
    BY <2>6, <2>7 DEF Selected
  <2> QED
    BY <1>17, <2>1, <2>4, <2>8, StillComplete DEF Explained
<1>18. ASSUME NEW s \in Slots, Reset(s)
      PROVE  Complete'
  <2>1. Rows' = Rows /\ Present' = Present /\ missed' = missed /\ Pending' = Pending /\ undo' = undo /\ sel' = sel
    BY <1>18 DEF Reset, Rows, Stored, Written, Present, Pending, Coming, Unpushed, Unanswered, rows, view, ghost
  <2>2. Selected \subseteq Selected'
    <3>1. fetch' = [fetch EXCEPT ![s] = [fetch[s] EXCEPT !.st = "back"]] /\ sel' = sel /\ fetch[s].st = "read"
      BY <1>18 DEF Reset, Sound, Typed, view
    <3>2. \A t \in Slots \ {s} : fetch'[t] = fetch[t]
      BY <3>1 DEF Sound, Typed
    <3>3. fetch'[s].kind = fetch[s].kind /\ fetch'[s].chat = fetch[s].chat /\ fetch'[s].st = "back" /\ fetch'[s].got = fetch[s].got
      BY <3>1 DEF Sound, Typed, Request
    <3>4. \A t \in Slots : Selecting(t) \subseteq Selecting(t)'
      BY <3>1, <3>2, <3>3 DEF Selecting
    <3> QED
      BY <3>4 DEF Selected
  <2> QED
    BY <1>18, <2>1, <2>2, StillComplete DEF Explained
<1>19. ASSUME NEW s \in Slots, ReadUnread(s)
      PROVE  Complete'
  <2>1. Rows' = Rows /\ Present' = Present /\ missed' = missed /\ Pending' = Pending /\ undo' = undo /\ sel' = sel
    BY <1>19 DEF ReadUnread, Rows, Stored, Written, Present, Pending, Coming, Unpushed, Unanswered, rows, view, ghost
  <2>2. Selected \subseteq Selected'
    <3>1. /\ fetch' = [fetch EXCEPT ![s] = [fetch[s] EXCEPT !.st = "back", !.got = counter]] /\ sel' = sel
          /\ fetch[s].kind = "unread"
      BY <1>19 DEF ReadUnread, Sound, Typed, view
    <3>2. \A t \in Slots \ {s} : fetch'[t] = fetch[t]
      BY <3>1 DEF Sound, Typed
    <3>3. \A t \in Slots : Selecting(t) \subseteq Selecting(t)'
      BY <3>1, <3>2 DEF Selecting
    <3> QED
      BY <3>3 DEF Selected
  <2> QED
    BY <1>19, <2>1, <2>2, StillComplete DEF Explained
<1>20. ASSUME NEW s \in Slots, ListSelected(s)
      PROVE  Complete'
  <2>1. /\ fetch' = [fetch EXCEPT ![s] = Idle] /\ UNCHANGED <<about, done, gone, wire, sel, undo>>
        /\ shown' = [i \in Ids |-> IF i \in fetch[s].got THEN 1 ELSE 0]
        /\ missed' = (missed \cup {i \in Ids : shown[i] > 0} \cup temp) \ (IF sel = fetch[s].chat THEN fetch[s].got ELSE {})
        /\ fetch[s].kind = "select" /\ fetch[s].st = "back"
    BY <1>20 DEF ListSelected, Answered, rows
  <2>2. \A t \in Slots \ {s} : fetch'[t] = fetch[t]
    BY <2>1 DEF Sound, Typed
  <2>3. Selected \subseteq Selected' \cup Selecting(s)
    BY <2>1, <2>2 DEF Selected, Selecting
  <2>4. Present' = Ids \cap fetch[s].got /\ fetch[s].got \subseteq Ids
    BY <2>1 DEF Present, Sound, Asked, Lists
  <2>5. missed \cup Present \subseteq missed' \cup Present'
    BY <2>1, <2>4 DEF Present
  <2>6. Selecting(s) \subseteq Present'
    BY <2>1, <2>4 DEF Selecting
  <2>7. Rows' = Rows /\ Pending' = Pending
    BY <2>1 DEF Rows, Stored, Pending, Unpushed, Unanswered, Coming, Written
  <2> QED
    BY <1>20, <2>1, <2>3, <2>5, <2>6, <2>7, StillComplete DEF Explained
<1>21. ASSUME NEW s \in Slots, ListRefreshed(s)
      PROVE  Complete'
  <2>1. /\ fetch' = [fetch EXCEPT ![s] = Idle] /\ UNCHANGED <<about, done, gone, wire, sel, undo>>
        /\ \/ shown' = shown /\ missed' = missed
           \/ shown' = Merged(fetch[s].got) /\ missed' = missed \ fetch[s].got
        /\ fetch[s].kind = "refresh"
    BY <1>21 DEF ListRefreshed, Answered, rows
  <2>2. \A t \in Slots \ {s} : fetch'[t] = fetch[t]
    BY <2>1 DEF Sound, Typed
  <2>3. Selected \subseteq Selected' \cup Selecting(s)
    BY <2>1, <2>2 DEF Selected, Selecting
  <2>4. Selecting(s) = {}
    BY <2>1 DEF Selecting
  <2>5. Present \subseteq Present' /\ missed \subseteq missed' \cup Present'
    <3>1. fetch[s].got \subseteq Ids /\ shown \in [Ids -> Nat]
      BY <2>1 DEF Sound, Typed, Asked, Lists
    <3> QED
      BY <2>1, <3>1 DEF Present, Merged
  <2>6. Rows' = Rows /\ Pending' = Pending
    BY <2>1 DEF Rows, Stored, Pending, Unpushed, Unanswered, Coming, Written
  <2> QED
    BY <1>21, <2>1, <2>3, <2>4, <2>5, <2>6, StillComplete DEF Explained
<1>22. ASSUME NEW s \in Slots, UnreadLoaded(s)
      PROVE  Complete'
  <2>1. Rows' = Rows /\ Present' = Present /\ missed' = missed /\ Pending' = Pending /\ undo' = undo /\ sel' = sel
    BY <1>22 DEF UnreadLoaded, Answered, Rows, Stored, Written, Present, Pending, Coming, Unpushed, Unanswered, rows, view, ghost
  <2>2. Selected \subseteq Selected'
    <3>1. fetch' = [fetch EXCEPT ![s] = Idle] /\ sel' = sel /\ fetch[s].kind = "unread"
      BY <1>22 DEF UnreadLoaded, Answered, view
    <3>2. \A t \in Slots \ {s} : fetch'[t] = fetch[t]
      BY <3>1 DEF Sound, Typed
    <3>3. \A t \in Slots : Selecting(t) \subseteq Selecting(t)'
      BY <3>1, <3>2 DEF Selecting
    <3> QED
      BY <3>3 DEF Selected
  <2> QED
    BY <1>22, <2>1, <2>2, StillComplete DEF Explained
<1>23. ASSUME NEW s \in Slots, Fail(s)
      PROVE  Complete'
  <2>1. /\ fetch' = [fetch EXCEPT ![s] = Idle] /\ UNCHANGED <<about, done, gone, wire, sel, undo>>
        /\ \/ /\ fetch[s].kind = "select"
              /\ missed' = missed \cup Stored(fetch[s].chat) \cup {i \in Ids : shown[i] > 0} \cup temp
           \/ fetch[s].kind # "select" /\ UNCHANGED <<shown, missed>>
    BY <1>23 DEF Fail, rows
  <2>2. \A t \in Slots \ {s} : fetch'[t] = fetch[t]
    BY <2>1 DEF Sound, Typed
  <2>3. Selected \subseteq Selected' \cup Selecting(s)
    BY <2>1, <2>2 DEF Selected, Selecting
  <2>4. Present \cup missed \subseteq Present' \cup missed'
    BY <2>1 DEF Present
  <2>5. Rows \cap Selecting(s) \subseteq missed'
    BY <2>1 DEF Selecting, Rows
  <2>6. Rows' = Rows /\ Pending' = Pending
    BY <2>1 DEF Rows, Stored, Pending, Unpushed, Unanswered, Coming, Written
  <2> QED
    BY <1>23, <2>1, <2>3, <2>4, <2>5, <2>6, StillComplete DEF Explained
<1> QED
  BY <1>1, <1>2, <1>3, <1>4, <1>5, <1>6, <1>7, <1>8, <1>9, <1>10, <1>11, <1>12, <1>13, <1>14, <1>15, <1>16, <1>17, <1>18, <1>19, <1>20, <1>21, <1>22, <1>23 DEF Next, Begin, Continue

\* At the start nothing was written and no chat is open.
LEMMA InvInit == Init => Inv
<1> SUFFICES ASSUME Init PROVE Inv
  OBVIOUS
<1>1. \A i \in Ids : ~Written(i)
  BY DEF Init, Written
<1>2. Counted
  BY <1>1 DEF Counted, News
<1>3. Placed /\ Complete
  BY <1>1 DEF Placed, Complete, Init
<1> QED
  BY <1>2, <1>3, SoundInit DEF Inv

\* All of it holds in every state: each step keeps each part.
LEMMA InvHolds == Spec => []Inv
<1>1. Inv /\ [Next]_<<vars, acts>> => Inv'
  <2> SUFFICES ASSUME Inv, [Next]_<<vars, acts>> PROVE Inv'
    OBVIOUS
  <2>1. Sound'
    BY SoundStep DEF Inv
  <2>2. CASE Next
    BY <2>1, <2>2, CountedStep, PlacedStep, CompleteStep DEF Inv
  <2>3. CASE UNCHANGED <<vars, acts>>
    <3>1. Counted'
      BY <2>3 DEF Inv, Counted, News, Written, Brought, vars, rows, ghost
    <3>2. Placed'
      BY <2>3 DEF Inv, Placed, Belongs, Written, vars, rows, view, ghost
    <3>3. Complete'
      BY <2>3 DEF Inv, Complete, Rows, Stored, Explained, Present, Old, Later, Pending, Unpushed, Unanswered, Coming,
         Selected, Selecting, Written, vars, rows, view, ghost
    <3> QED
      BY <2>1, <3>1, <3>2, <3>3 DEF Inv
  <2> QED
    BY <2>2, <2>3
<1> QED
  BY <1>1, InvInit, PTL DEF Spec

-----------------------------------------------------------------------------
\* At rest (no request, push or rollback under way) a message of the peer that
\* was counted for this user is still counted, unless it was deleted or shown, or
\* an answer of /chat/list that did not have it, or was not used, reset the
\* counter: chatSend.js, the routes of /chat and chat.svelte.js, in any order.
THEOREM NoSilentLossHolds == Spec => []NoSilentLoss
<1>1. Inv => NoSilentLoss
  <2> SUFFICES ASSUME Inv, AtRest PROVE \A c \in Chats : \A i \in News(c) \ (gone \cup seen \cup uncounted) : counter[c] > 0
    BY DEF NoSilentLoss
  <2>1. \A i \in Ids, s \in Slots : ~Brought(i, s)
    BY DEF AtRest, Brought, Idle, Lists
  <2>2. \A c \in Chats : News(c) \subseteq Ids
    BY DEF News
  <2> QED
    BY <2>1, <2>2 DEF Inv, Counted
<1> QED
  BY <1>1, InvHolds, PTL

\* What the open chat shows, and what it does not, has a cause: at rest every
\* stored message of its last page is shown unless a lost push, an overwritten
\* list or a left chat took it away; and a message is shown in another chat, or
\* twice, only where an answer was applied to the wrong list, where the push of a
\* group's message came to the chat with its sender, or where it was sent here.
THEOREM ViewHolds == Spec => []ViewHasACause
<1>1. Inv => MissingHasACause
  <2> SUFFICES ASSUME Inv, AtRest, sel # None, NEW i \in Stored(sel)
               PROVE  \/ shown[i] > 0 \/ i \in missed
                      \/ Cardinality({j \in Ids : j > i /\ Written(j) /\ about[j].chat = sel}) >= Page
    BY DEF MissingHasACause
  <2>1. i \in Ids /\ Written(i) /\ i \in Explained
    BY DEF Inv, Complete, Rows, Stored
  <2>2. i \notin Pending
    <3>1. wire = <<>> /\ "push" \in done[i] /\ (about[i].from = "here" => "answer" \in done[i])
      BY <2>1 DEF AtRest
    <3>2. i \notin Coming
      BY <3>1 DEF Coming
    <3> QED
      BY <3>1, <3>2 DEF Pending, Unpushed, Unanswered
  <2>3. i # undo.id
    BY <2>1 DEF AtRest, NoUndo, Ids
  <2>4. i \notin Selected
    BY DEF AtRest, Selected, Selecting, Idle
  <2> QED
    BY <2>1, <2>2, <2>3, <2>4 DEF Explained, Present, Old, Later
<1>2. Inv => ShownHasACause
  <2> SUFFICES ASSUME Inv, NEW i \in Ids
               PROVE  /\ shown[i] > 0 /\ about[i].chat # sel => strayed \/ (sel = "dm" /\ about[i].from = "peer")
                      /\ shown[i] + (IF i \in temp THEN 1 ELSE 0) > 1 => about[i].from = "here"
    BY DEF ShownHasACause
  <2>1. CASE Written(i)
    BY <2>1 DEF Inv, Placed, Belongs, Sound, Typed
  <2>2. CASE ~Written(i)
    BY <2>2 DEF Inv, Sound, Unwritten
  <2> QED
    BY <2>1, <2>2
<1> QED
  BY <1>1, <1>2, InvHolds, PTL DEF ViewHasACause

-----------------------------------------------------------------------------
\* The chats, words, bounds and requests of the input.
Rooms == {p, q}
Bounds == [words : Nat, moves : Nat, sends : Nat, files : Nat, marks : Nat, fails : Nat]
Words == [n : Nat, at : Rooms, of : C!Msg \cup {None}]
Jobs == [input : Nat, kind : {"send", "edit", "caption", "upload"}, words : SUBSET Words, m : C!Msg \cup {None},
         to : Rooms \cup {None}, reply : Rooms \cup {None}, file : Rooms \cup {None}, away : BOOLEAN, n : Bounds]
Ways == {"send", "caption"}
Asks == {"send", "edit"}

\* The types; without a chat there is no input.
Shaped ==
  /\ chosen \in Rooms \cup {None} /\ editing \in C!Msg \cup {None} /\ reply \in {None, chosen}
  /\ editing # None => chosen = editing[1]
  /\ chosen = None => text = {} /\ before = {} /\ draft = {} /\ editing = None
  /\ input \in Nat /\ left \in Bounds /\ typed \subseteq Words /\ jobs \subseteq Jobs
  /\ drafts \in [Rooms -> SUBSET Words] /\ own \in [C!Msg -> SUBSET Words]

\* All words were typed, at the message's chat when in an edit.
Known ==
  /\ \A w \in typed : w.n > left.words /\ (w.of # None => w.at = w.of[1])
  /\ text \cup before \cup draft \subseteq typed
  /\ \A t \in jobs : t.words \subseteq typed
  /\ \A x \in posted : x.words \subseteq typed
  /\ \A c \in Rooms : drafts[c] \subseteq typed
  /\ \A m \in C!Msg : own[m] \subseteq typed

\* Each input has one send or edit under way.
OneAsk ==
  /\ \A t \in jobs : t.input <= input
  /\ \A t, u \in jobs : t.input = input /\ u.input = input /\ t.kind \in Asks /\ u.kind \in Asks => t = u

\* Where a request goes, and where its words were typed.
Bound ==
  \A t \in jobs :
    /\ t.kind = "upload" => t.words \subseteq stray /\ (chosen # None => t.file = chosen \/ t.away)
    /\ t.kind = "edit" => t.m \in C!Msg /\ \A w \in t.words : w.of = t.m
    /\ t.kind \in Ways => /\ t.to \in Rooms /\ t.reply \in {None, t.to} /\ (t.file \in {None, t.to} \/ t.away)
                          /\ \A w \in t.words \ stray : w.at = t.to

\* What an edit has, or shows, was typed in it.
EditsApart ==
  /\ \A m \in C!Msg : \A w \in own[m] : w.of = m
  /\ editing # None => \A w \in text : w.of = editing

\* What did not stray is at the chat it was typed for.
Local ==
  /\ \A w \in (text \cup before \cup draft) \ stray : w.at = chosen
  /\ \A c \in Rooms : \A w \in drafts[c] \ stray : w.at = c

\* A word that is on its way is in one request, was not sent before, and is left
\* only in the input that waits for the answer, which then takes it away.
Single(w) ==
  /\ \A t \in jobs : t.kind \in Ways /\ w \in t.words =>
       /\ \A u \in jobs : u.kind \in Ways /\ w \in u.words => u = t
       /\ \A x \in posted : w \notin x.words
       /\ w \notin before /\ \A c \in Rooms : w \notin drafts[c]
       /\ w \in text => t.input = input
       /\ w \in draft => w \in text
  /\ \A x \in posted : w \in x.words =>
       /\ \A y \in posted : w \in y.words => y = x
       /\ w \notin text \cup before \cup draft /\ \A c \in Rooms : w \notin drafts[c]
  /\ w \in text => w \notin before
Once == \A w \in typed \ stray : w.of = None => Single(w)

\* A word typed for a new message is kept apart from what the input shows.
Somewhere(w) ==
  \/ w \in draft
  \/ \E c \in Rooms \ {chosen} : w \in drafts[c]
  \/ \E x \in posted : w \in x.words
  \/ \E t \in jobs : t.kind \in Ways /\ w \in t.words
Kept == \A w \in typed \ excused : w.of = None => Somewhere(w)

\* What the input would give back after an edit; while a message is on its way,
\* that is the message.
Held == IF editing = None THEN text ELSE before
Waiting ==
  \A t \in jobs : t.kind = "send" /\ t.input = input => \A w \in Held : w.of = None => w \in t.words \cup excused

\* What was sent went where it was typed.
Delivered ==
  \A x \in posted : /\ \A w \in x.words \ stray : w.at = x.to
                    /\ x.reply \in {None, x.to} /\ (x.file \in {None, x.to} \/ x.away)

InputInv == Shaped /\ Known /\ OneAsk /\ Bound /\ EditsApart /\ Local /\ Once /\ Kept /\ Waiting /\ Delivered


-----------------------------------------------------------------------------
\* What the effects of the input do, what is spent, posted and asked for.
LEMMA ShowsIs ==
  ASSUME NEW t, NEW ed, NEW stored, NEW lost, C!Shows(t, ed, stored, lost)
  PROVE  /\ text' = t /\ editing' = ed
         /\ \/ draft' = t /\ ed = None /\ (t # text \/ editing # None)
            \/ draft' = stored /\ ed # None
            \/ draft' = stored /\ ed = None /\ editing = None /\ t = text
         /\ excused \cup lost \subseteq excused'
         /\ \A w \in stored : w \in excused' \cup draft' \/ (editing = None /\ w \in text)
BY DEF C!Shows

\* Spending leaves less.
LEMMA SpendIs ==
  ASSUME left \in Bounds, NEW what \in {"words", "moves", "sends", "files", "marks", "fails"}, C!Spend(what)
  PROVE  left' \in Bounds /\ left'.words <= left.words /\ (what = "words" => left'.words < left.words)
BY DEF C!Spend, Bounds

LEMMA PostsIs ==
  ASSUME NEW t, NEW ok \in BOOLEAN, C!Posts(t, ok)
  PROVE  \/ posted' = posted /\ ~ok
         \/ \E x : /\ posted' = posted \cup {x} /\ ok
                   /\ x.to = t.to /\ x.words = t.words /\ x.file = t.file /\ x.away = t.away /\ x.reply = t.reply
<1>1. CASE ok
  <2>1. PICK k : posted' = posted \cup {[n |-> k, to |-> t.to, words |-> t.words, file |-> t.file, away |-> t.away,
                                         reply |-> t.reply]}
    BY <1>1 DEF C!Posts
  <2> DEFINE x == [n |-> k, to |-> t.to, words |-> t.words, file |-> t.file, away |-> t.away, reply |-> t.reply]
  <2>2. x.to = t.to /\ x.words = t.words /\ x.file = t.file /\ x.away = t.away /\ x.reply = t.reply
    OBVIOUS
  <2>3. posted' = posted \cup {x}
    BY <2>1
  <2> HIDE DEF x
  <2> QED
    BY <1>1, <2>2, <2>3
<1>2. CASE ~ok
  BY <1>2 DEF C!Posts
<1> QED
  BY <1>1, <1>2

LEMMA JobIs ==
  ASSUME Shaped, NEW kind \in {"send", "edit", "caption", "upload"}, NEW words \in SUBSET Words, NEW m \in C!Msg \cup {None},
         NEW file \in Rooms \cup {None}
  PROVE  /\ C!Job(kind, words, m, file) \in Jobs
         /\ C!Job(kind, words, m, file) = [input |-> input, kind |-> kind, words |-> words, m |-> m, to |-> chosen,
              reply |-> reply, file |-> file, away |-> FALSE, n |-> left]
BY DEF C!Job, Jobs, Shaped
-----------------------------------------------------------------------------
\* The types of the requests, which an answer, another chat or a closed one changes.
LEMMA JobChanges ==
  /\ \A t \in Jobs, b \in BOOLEAN : [t EXCEPT !.away = b] \in Jobs
  /\ \A t \in Jobs, ws \in SUBSET Words : [t EXCEPT !.words = ws] \in Jobs
  /\ \A t \in Jobs, ws \in SUBSET Words, c \in Rooms, r \in Rooms \cup {None} :
       [t EXCEPT !.kind = "caption", !.words = ws, !.to = c, !.reply = r] \in Jobs
  /\ \A t \in Jobs : [t EXCEPT !.to = None] \in Jobs
BY DEF Jobs

\* What such a change leaves as it was.
LEMMA NewWords ==
  ASSUME NEW t \in Jobs
  PROVE  /\ \A b : LET u == [t EXCEPT !.away = b] IN
              /\ u.input = t.input /\ u.kind = t.kind /\ u.words = t.words /\ u.m = t.m /\ u.to = t.to
              /\ u.reply = t.reply /\ u.file = t.file /\ u.away = b
         /\ \A ws : LET u == [t EXCEPT !.words = ws] IN
              /\ u.input = t.input /\ u.kind = t.kind /\ u.words = ws /\ u.m = t.m /\ u.to = t.to
              /\ u.reply = t.reply /\ u.file = t.file /\ u.away = t.away
         /\ \A ws, c, r : LET u == [t EXCEPT !.kind = "caption", !.words = ws, !.to = c, !.reply = r] IN
              /\ u.input = t.input /\ u.kind = "caption" /\ u.words = ws /\ u.m = t.m /\ u.to = c
              /\ u.reply = r /\ u.file = t.file /\ u.away = t.away
BY DEF Jobs

\* What the requests are after a step that changes some of them.
LEMMA ClosedJobs ==
  ASSUME Shaped, C!Close, NEW u \in jobs'
  PROVE  \/ u \in jobs
         \/ \E v \in jobs : /\ v.kind = "upload" /\ v.input = input /\ u.kind = "upload" /\ u.input = input
                            /\ u.words = text /\ u.file = v.file /\ u.away = v.away
<1>1. PICK v \in jobs : u = IF C!Ours(v) /\ v.kind = "upload" THEN [v EXCEPT !.words = text] ELSE v
  BY DEF C!Close
<1>2. v \in Jobs
  BY DEF Shaped
<1> QED
  BY <1>1, <1>2, NewWords DEF C!Ours

LEMMA SelectedJobs ==
  ASSUME Shaped, NEW c \in Rooms, C!SelectChat(c), NEW u \in jobs'
  PROVE  \E v \in jobs : /\ u = [v EXCEPT !.away = v.away \/ v.file # c]
                         /\ u.input = v.input /\ u.kind = v.kind /\ u.words = v.words /\ u.m = v.m
                         /\ u.to = v.to /\ u.reply = v.reply /\ u.file = v.file /\ u.away = (v.away \/ v.file # c)
<1>1. PICK v \in jobs : u = [v EXCEPT !.away = v.away \/ v.file # c]
  BY DEF C!SelectChat
<1>2. v \in Jobs
  BY DEF Shaped
<1> QED
  BY <1>1, <1>2, NewWords

\* What is on its way stays so.
LEMMA SelectedStay ==
  ASSUME Shaped, NEW c \in Rooms, C!SelectChat(c), NEW u \in jobs
  PROVE  \E v \in jobs' : v.kind = u.kind /\ v.words = u.words
<1> DEFINE v == [u EXCEPT !.away = u.away \/ u.file # c]
<1>1. v \in jobs'
  BY DEF C!SelectChat
<1>2. u \in Jobs
  BY DEF Shaped
<1>3. v.kind = u.kind /\ v.words = u.words
  BY <1>2, NewWords
<1> HIDE DEF v
<1> QED
  BY <1>1, <1>3

LEMMA WaysStay ==
  /\ C!Close => \A u \in jobs : u.kind \in Ways => u \in jobs'
  /\ \A t \in jobs : C!Captioned(t) => \A u \in jobs \ {t} : u.kind \in Ways => u \in jobs'
<1>1. ASSUME C!Close, NEW u \in jobs, u.kind \in Ways PROVE u \in jobs'
  <2>1. (IF C!Ours(u) /\ u.kind = "upload" THEN [u EXCEPT !.words = text] ELSE u) \in jobs'
    BY <1>1 DEF C!Close
  <2> QED
    BY <1>1, <2>1 DEF Ways
<1>2. ASSUME NEW t \in jobs, C!Captioned(t), NEW u \in jobs \ {t}, u.kind \in Ways PROVE u \in jobs'
  <2>1. (IF u.input = t.input /\ u.kind = "upload" THEN [u EXCEPT !.words = {}] ELSE u) \in jobs'
    BY <1>2 DEF C!Captioned
  <2> QED
    BY <1>2, <2>1 DEF Ways
<1> QED
  BY <1>1, <1>2

LEMMA SelectedWays ==
  ASSUME Shaped, NEW c \in Rooms, C!SelectChat(c), NEW w,
         \A t, u \in jobs : t.kind \in Ways /\ w \in t.words /\ u.kind \in Ways /\ w \in u.words => u = t
  PROVE  \A t, u \in jobs' : t.kind \in Ways /\ w \in t.words /\ u.kind \in Ways /\ w \in u.words => u = t
<1> SUFFICES ASSUME NEW t \in jobs', NEW u \in jobs', t.kind \in Ways, w \in t.words, u.kind \in Ways, w \in u.words
             PROVE  u = t
  OBVIOUS
<1>1. PICK t0 \in jobs : t = [t0 EXCEPT !.away = t0.away \/ t0.file # c] /\ t0.words = t.words /\ t0.kind = t.kind
  BY SelectedJobs
<1>2. PICK u0 \in jobs : u = [u0 EXCEPT !.away = u0.away \/ u0.file # c] /\ u0.words = u.words /\ u0.kind = u.kind
  BY SelectedJobs
<1>3. t0 = u0
  BY <1>1, <1>2
<1> QED
  BY <1>1, <1>2, <1>3

LEMMA UploadedJobs ==
  ASSUME Shaped, NEW t \in jobs, C!Uploaded(t)
  PROVE  \E n : /\ jobs' = (jobs \ {t}) \cup {n}
                /\ n.input = t.input /\ n.kind = "caption" /\ n.words = (IF C!Ours(t) THEN text ELSE t.words)
                /\ n.to = chosen /\ n.reply = reply /\ n.file = t.file /\ n.away = t.away
<1> DEFINE n == [t EXCEPT !.kind = "caption", !.words = IF C!Ours(t) THEN text ELSE t.words,
                          !.to = chosen, !.reply = reply]
<1>1. jobs' = (jobs \ {t}) \cup {n}
  BY DEF C!Uploaded, C!SendMessage
<1>2. t \in Jobs
  BY DEF Shaped
<1> HIDE DEF n
<1>3. /\ n.input = t.input /\ n.kind = "caption" /\ n.words = (IF C!Ours(t) THEN text ELSE t.words)
      /\ n.to = chosen /\ n.reply = reply /\ n.file = t.file /\ n.away = t.away
  BY <1>2, NewWords DEF n
<1> QED
  BY <1>1, <1>3

LEMMA CaptionedJobs ==
  ASSUME Shaped, NEW t \in jobs, C!Captioned(t), NEW u \in jobs'
  PROVE  \/ u \in jobs \ {t}
         \/ \E v \in jobs : /\ v.kind = "upload" /\ u.kind = "upload" /\ u.input = v.input
                            /\ u.words = {} /\ u.file = v.file /\ u.away = v.away
<1>1. PICK v \in jobs \ {t} : u = IF v.input = t.input /\ v.kind = "upload" THEN [v EXCEPT !.words = {}] ELSE v
  BY DEF C!Captioned
<1>2. v \in Jobs
  BY DEF Shaped
<1> QED
  BY <1>1, <1>2, NewWords

\* The types are kept.
LEMMA JobsStep ==
  ASSUME Shaped, Known, C!CNext
  PROVE  jobs' \subseteq Jobs
<1>0. /\ text \subseteq Words /\ None \notin Rooms /\ chosen \in Rooms \cup {None} /\ reply \in Rooms \cup {None}
      /\ jobs \subseteq Jobs /\ editing \in C!Msg \cup {None}
  BY InputAssumption DEF Shaped, Known, Rooms
<1>1. ASSUME C!Type \/ C!CancelEdit \/ C!SetReplyingTo \/ \E m \in C!Msg : C!SetEditing(m)
      PROVE  jobs' \subseteq Jobs
  BY <1>0, <1>1 DEF C!Type, C!CancelEdit, C!SetReplyingTo, C!SetEditing
<1>2. ASSUME C!Close PROVE jobs' \subseteq Jobs
  <2>1. \A u \in jobs : [u EXCEPT !.words = text] \in Jobs
    BY <1>0, JobChanges
  <2>2. \A u \in jobs' : u \in jobs \/ \E v \in jobs : u = [v EXCEPT !.words = text]
    BY <1>2 DEF C!Close
  <2> QED
    BY <1>0, <2>1, <2>2
<1>3. ASSUME NEW c \in {p, q}, C!SelectChat(c) PROVE jobs' \subseteq Jobs
  <2>1. \A t \in jobs : t.away \in BOOLEAN
    BY <1>0 DEF Jobs
  <2>2. jobs' = {[t EXCEPT !.away = t.away \/ t.file # c] : t \in jobs}
    BY <1>3 DEF C!SelectChat
  <2>3. \A t \in jobs : [t EXCEPT !.away = t.away \/ t.file # c] \in Jobs
    <3> SUFFICES ASSUME NEW t \in jobs PROVE [t EXCEPT !.away = t.away \/ t.file # c] \in Jobs
      OBVIOUS
    <3>1. (t.away \/ t.file # c) \in BOOLEAN
      OBVIOUS
    <3> QED
      BY <1>0, <3>1, JobChanges
  <2> QED
    BY <2>2, <2>3
<1>4. ASSUME C!SendText \/ C!PickGif \/ C!SendEdit \/ C!PickFile PROVE jobs' \subseteq Jobs
  <2>1. CASE C!SendText
    BY <1>0, <2>1, JobIs DEF C!SendText, C!SendMessage
  <2>2. CASE C!PickGif
    BY <1>0, <2>2, JobIs DEF C!PickGif, C!SendMessage
  <2>3. CASE C!SendEdit
    BY <1>0, <2>3, JobIs DEF C!SendEdit
  <2>4. CASE C!PickFile
    <3>1. chosen \in Rooms
      BY <1>0, <2>4 DEF C!PickFile, C!Mounted
    <3> QED
      BY <1>0, <2>4, <3>1, JobIs, JobChanges DEF C!PickFile
  <2> QED
    BY <1>4, <2>1, <2>2, <2>3, <2>4
<1>5. ASSUME NEW t \in jobs, C!Uploaded(t) PROVE jobs' \subseteq Jobs
  <2>1. PICK ws \in SUBSET Words : jobs' = (jobs \ {t}) \cup {[t EXCEPT !.kind = "caption", !.words = ws, !.to = chosen, !.reply = reply]}
    <3>1. t.words \subseteq Words
      BY <1>0 DEF Jobs
    <3> QED
      BY <1>0, <1>5, <3>1 DEF C!Uploaded, C!SendMessage
  <2>2. chosen \in Rooms
    BY <1>0, <1>5 DEF C!Uploaded, C!Mounted
  <2>3. [t EXCEPT !.kind = "caption", !.words = ws, !.to = chosen, !.reply = reply] \in Jobs
    BY <1>0, <2>2, JobChanges
  <2> QED
    BY <1>0, <2>1, <2>3
<1>6. ASSUME NEW t \in jobs, C!UploadFails(t) \/ C!Sent(t) \/ C!Edited(t) \/ C!NotEdited(t) PROVE jobs' \subseteq Jobs
  BY <1>0, <1>6 DEF C!UploadFails, C!Sent, C!Edited, C!NotEdited
<1>7. ASSUME NEW t \in jobs, C!Captioned(t) PROVE jobs' \subseteq Jobs
  <2>1. jobs' = {IF u.input = t.input /\ u.kind = "upload" THEN [u EXCEPT !.words = {}] ELSE u : u \in jobs \ {t}}
    BY <1>7 DEF C!Captioned
  <2>2. \A u \in jobs : [u EXCEPT !.words = {}] \in Jobs
    BY <1>0, JobChanges
  <2>3. \A u \in jobs' : u \in jobs \/ \E v \in jobs : u = [v EXCEPT !.words = {}]
    BY <2>1
  <2> QED
    BY <1>0, <2>2, <2>3
<1> QED
  BY <1>1, <1>2, <1>3, <1>4, <1>5, <1>6, <1>7 DEF C!CNext, C!Answers

LEMMA ShapedStep ==
  ASSUME Shaped, Known, EditsApart, Bound, C!CNext
  PROVE  Shaped'
<1>0. /\ text \subseteq Words /\ None \notin Rooms /\ None \notin C!Msg /\ C!Msg = Rooms \X {1, 2}
      /\ before \subseteq Words /\ draft \subseteq Words /\ left \in Bounds /\ jobs \subseteq Jobs
  BY InputAssumption DEF Shaped, Known, Rooms, C!Msg
<1>1. jobs' \subseteq Jobs
  BY JobsStep
<1>2. CASE C!Type
  <2>1. left' \in Bounds
    BY <1>0, <1>2, SpendIs DEF C!Type
  <2>2. [n |-> left.words, at |-> chosen, of |-> editing] \in Words
    BY <1>0, <1>2 DEF C!Type, C!Mounted, Words, Bounds, Shaped
  <2>3. chosen # None
    BY <1>2 DEF C!Type, C!Mounted
  <2> QED
    BY <1>0, <1>1, <1>2, <2>1, <2>2, <2>3, ShowsIs DEF C!Type, Shaped
<1>3. CASE C!CancelEdit
  <2>1. left' \in Bounds
    BY <1>0, <1>3, SpendIs DEF C!CancelEdit
  <2> QED
    BY <1>0, <1>1, <1>3, <2>1, ShowsIs DEF C!CancelEdit, Shaped
<1>4. CASE C!SetReplyingTo
  <2>1. left' \in Bounds
    BY <1>0, <1>4, SpendIs DEF C!SetReplyingTo
  <2> QED
    BY <1>0, <1>1, <1>4, <2>1, ShowsIs DEF C!SetReplyingTo, C!Mounted, Shaped
<1>5. CASE \E m \in C!Msg : C!SetEditing(m)
  <2>0. PICK m \in C!Msg : C!SetEditing(m)
    BY <1>5
  <2>1. left' \in Bounds
    BY <1>0, <2>0, SpendIs DEF C!SetEditing
  <2>2. m[1] \in Rooms
    BY <1>0
  <2> QED
    BY <1>0, <1>1, <2>0, <2>1, <2>2, ShowsIs DEF C!SetEditing, Shaped
<1>6. CASE C!Close
  <2>1. left' \in Bounds /\ drafts' \in [Rooms -> SUBSET Words]
    BY <1>0, <1>6, SpendIs DEF C!Close, C!Leaves, C!Mounted, Shaped
  <2> QED
    BY <1>0, <1>1, <1>6, <2>1 DEF C!Close, C!Leaves, Shaped
<1>7. CASE \E c \in {p, q} : C!SelectChat(c)
  <2>0. PICK c \in {p, q} : C!SelectChat(c)
    BY <1>7
  <2>1. left' \in Bounds /\ drafts' \in [Rooms -> SUBSET Words] /\ reply' = None /\ chosen' = c /\ c \in Rooms
    BY <1>0, <2>0, SpendIs DEF C!SelectChat, C!Leaves, C!Mounted, Shaped, Rooms
  <2>2. input' \in Nat /\ editing' = None /\ UNCHANGED <<typed, own>>
    BY <1>0, <2>0, ShowsIs DEF C!SelectChat, Shaped
  <2> QED
    BY <1>0, <1>1, <2>1, <2>2 DEF Shaped
<1>8. CASE C!SendText \/ C!PickGif
  <2>1. left' \in Bounds
    BY <1>0, <1>8, SpendIs DEF C!SendText, C!PickGif
  <2>2. drafts' \in [Rooms -> SUBSET Words] /\ reply' = None /\ draft' = {}
        /\ UNCHANGED <<chosen, editing, own, text, before, input, typed>>
    BY <1>0, <1>8 DEF C!SendText, C!PickGif, C!SendMessage, Shaped
  <2> QED
    BY <1>0, <1>1, <2>1, <2>2 DEF Shaped
<1>9. CASE C!SendEdit \/ C!PickFile
  <2>1. left' \in Bounds
    BY <1>0, <1>9, SpendIs DEF C!SendEdit, C!PickFile
  <2> QED
    BY <1>0, <1>1, <1>9, <2>1 DEF C!SendEdit, C!PickFile, Shaped
<1>10. ASSUME NEW t \in jobs, C!Uploaded(t) PROVE Shaped'
  <2>1. drafts' \in [Rooms -> SUBSET Words] /\ reply' = None /\ draft' = {}
        /\ UNCHANGED <<chosen, editing, own, text, before, input, typed, left>>
    BY <1>0, <1>10 DEF C!Uploaded, C!SendMessage, Shaped
  <2> QED
    BY <1>0, <1>1, <2>1 DEF Shaped
<1>11. ASSUME NEW t \in jobs, C!UploadFails(t) \/ C!NotEdited(t) PROVE Shaped'
  <2>1. left' \in Bounds
    BY <1>0, <1>11, SpendIs DEF C!UploadFails, C!NotEdited
  <2> QED
    BY <1>0, <1>1, <1>11, <2>1 DEF C!UploadFails, C!NotEdited, Shaped
<1>12. ASSUME NEW t \in jobs, C!Sent(t) \/ C!Captioned(t) PROVE Shaped'
  <2>1. left' \in Bounds
    BY <1>0, <1>12, SpendIs DEF C!Sent, C!Captioned, C!Posts
  <2>2. /\ editing' = editing /\ UNCHANGED <<chosen, reply, drafts, own, before, input, typed>>
        /\ text' \in {text, {}} /\ (draft' = draft \/ draft' = {}) /\ (chosen = None => draft' = draft)
    <3>1. CASE C!Sent(t)
      BY <3>1, ShowsIs DEF C!Sent, C!Ours, C!Mounted
    <3>2. CASE C!Captioned(t)
      BY <3>2, ShowsIs DEF C!Captioned, C!Ours, C!Mounted
    <3> QED
      BY <1>12, <3>1, <3>2
  <2> QED
    BY <1>0, <1>1, <2>1, <2>2 DEF Shaped
<1>13. ASSUME NEW t \in jobs, C!Edited(t) PROVE Shaped'
  <2>1. own' \in [C!Msg -> SUBSET Words]
    <3>1. t.words \subseteq Words
      BY <1>0 DEF Jobs
    <3> QED
      BY <1>13, <3>1 DEF C!Edited, Shaped
  <2>2. UNCHANGED <<chosen, reply, drafts, input, left, typed>>
    BY <1>13 DEF C!Edited
  <2>3. CASE C!Ours(t)
    <3>1. text' = before /\ before' = {} /\ editing' = None /\ chosen # None
      BY <1>13, <2>3, ShowsIs DEF C!Edited, C!Ours, C!Mounted
    <3> QED
      BY <1>0, <1>1, <2>1, <2>2, <3>1 DEF Shaped
  <2>4. CASE chosen # None /\ ~C!Ours(t)
    <3>1. text' = text /\ before' = before /\ editing' = None
      BY <1>13, <2>4, ShowsIs DEF C!Edited, C!Mounted
    <3> QED
      BY <1>0, <1>1, <2>1, <2>2, <2>4, <3>1 DEF Shaped
  <2>5. CASE chosen = None
    <3>1. UNCHANGED <<text, editing, draft, before>>
      BY <1>13, <2>5 DEF C!Edited, C!Ours, C!Mounted
    <3> QED
      BY <1>0, <1>1, <2>1, <2>2, <3>1 DEF Shaped
  <2> QED
    BY <2>3, <2>4, <2>5
<1> QED
  BY <1>2, <1>3, <1>4, <1>5, <1>6, <1>7, <1>8, <1>9, <1>10, <1>11, <1>12, <1>13 DEF C!CNext, C!Answers
-----------------------------------------------------------------------------
\* What a step spends and what is typed in it.
LEMMA LeftStep ==
  ASSUME Shaped, C!CNext
  PROVE  /\ left \in Bounds /\ left' \in Bounds /\ left'.words <= left.words
         /\ \/ typed' = typed
            \/ /\ typed' = typed \cup {[n |-> left.words, at |-> chosen, of |-> editing]} /\ left'.words < left.words
               /\ chosen # None
<1>0. left \in Bounds /\ left.words <= left.words
  BY DEF Shaped, Bounds
<1>1. CASE C!Type
  BY <1>0, <1>1, SpendIs DEF C!Type, C!Mounted
<1>2. CASE C!CancelEdit \/ C!SetReplyingTo \/ C!Close \/ \E m \in C!Msg : C!SetEditing(m)
  BY <1>0, <1>2, SpendIs DEF C!CancelEdit, C!SetReplyingTo, C!Close, C!Leaves, C!SetEditing
<1>3. CASE C!SendText \/ C!PickGif \/ C!SendEdit \/ C!PickFile \/ \E c \in {p, q} : C!SelectChat(c)
  BY <1>0, <1>3, SpendIs DEF C!SendText, C!PickGif, C!SendEdit, C!PickFile, C!SelectChat, C!Leaves
<1>4. CASE C!Answers
  BY <1>0, <1>4, SpendIs DEF C!Answers, C!Uploaded, C!UploadFails, C!Sent, C!Captioned, C!Posts, C!Edited, C!NotEdited
<1> QED
  BY <1>1, <1>2, <1>3, <1>4 DEF C!CNext

\* No word comes from nowhere.
LEMMA KnownStep ==
  ASSUME Shaped, Known, C!CNext
  PROVE  Known'
<1>0. typed \subseteq typed' /\ left \in Bounds /\ left' \in Bounds
  BY LeftStep
<1>1. \A w \in typed' : w.n > left'.words /\ (w.of # None => w.at = w.of[1])
  <2> SUFFICES ASSUME NEW w \in typed' PROVE w.n > left'.words /\ (w.of # None => w.at = w.of[1])
    OBVIOUS
  <2>1. CASE w \in typed
    <3>1. w.n > left.words /\ w.n \in Nat
      BY <2>1 DEF Known, Shaped, Words
    <3> QED
      BY <2>1, <3>1, LeftStep DEF Known, Bounds
  <2>2. CASE w \notin typed
    <3>1. w = [n |-> left.words, at |-> chosen, of |-> editing] /\ left'.words < left.words
      BY <2>2, LeftStep
    <3> QED
      BY <3>1, <1>0 DEF Shaped, Bounds
  <2> QED
    BY <2>1, <2>2
\* Where the words of a step come from.
<1>2. /\ text' \cup before' \cup draft' \subseteq typed'
      /\ \A c \in Rooms : drafts'[c] \subseteq typed'
      /\ \A m \in C!Msg : own'[m] \subseteq typed'
  <2>0. /\ drafts \in [Rooms -> SUBSET Words] /\ own \in [C!Msg -> SUBSET Words]
        /\ text \subseteq typed' /\ before \subseteq typed' /\ draft \subseteq typed'
        /\ \A c \in Rooms : drafts[c] \subseteq typed'
        /\ \A m \in C!Msg : own[m] \subseteq typed'
    BY <1>0 DEF Shaped, Known
  <2>1. CASE C!Type
    BY <2>0, <2>1, ShowsIs DEF C!Type
  <2>2. CASE C!CancelEdit
    BY <2>0, <2>2, ShowsIs DEF C!CancelEdit
  <2>3. CASE C!SetReplyingTo
    BY <2>0, <2>3, ShowsIs DEF C!SetReplyingTo
  <2>4. CASE \E m \in C!Msg : C!SetEditing(m)
    BY <2>0, <2>4, ShowsIs DEF C!SetEditing
  <2>5. CASE C!Close
    BY <2>0, <2>5 DEF C!Close, C!Leaves
  <2>6. CASE \E c \in Rooms : C!SelectChat(c)
    <3>0. PICK c \in Rooms : C!SelectChat(c)
      BY <2>6
    <3>1. \A e \in Rooms : drafts'[e] \subseteq typed'
      BY <2>0, <3>0 DEF C!SelectChat, C!Leaves
    <3>2. text' \cup before' \cup draft' \subseteq typed' /\ own' = own
      BY <2>0, <3>0, ShowsIs DEF C!SelectChat
    <3> QED
      BY <2>0, <3>1, <3>2
  <2>7. CASE C!SendText \/ C!PickGif \/ C!SendEdit \/ C!PickFile
    BY <2>0, <2>7 DEF C!SendText, C!PickGif, C!SendEdit, C!PickFile, C!SendMessage
  <2>8. ASSUME NEW t \in jobs, C!Uploaded(t) \/ C!UploadFails(t) \/ C!NotEdited(t)
        PROVE  /\ text' = text /\ before' = before /\ draft' \subseteq typed' /\ own' = own
               /\ \A c \in Rooms : drafts'[c] \subseteq typed'
    BY <2>0, <2>8 DEF C!Uploaded, C!UploadFails, C!NotEdited, C!SendMessage
  <2>9. ASSUME NEW t \in jobs, C!Sent(t)
        PROVE  text' \cup draft' \subseteq typed' /\ before' = before /\ drafts' = drafts /\ own' = own
    BY <2>0, <2>9, ShowsIs DEF C!Sent
  <2>10. ASSUME NEW t \in jobs, C!Captioned(t)
         PROVE  text' \cup draft' \subseteq typed' /\ before' = before /\ drafts' = drafts /\ own' = own
    BY <2>0, <2>10, ShowsIs DEF C!Captioned
  <2>11. ASSUME NEW t \in jobs, C!Edited(t)
         PROVE  /\ text' \cup before' \cup draft' \subseteq typed' /\ drafts' = drafts
                /\ \A m \in C!Msg : own'[m] \subseteq typed'
    <3>1. t.words \subseteq typed'
      BY <1>0 DEF Known
    <3>2. drafts' = drafts /\ own' = [own EXCEPT ![t.m] = t.words]
      BY <2>11 DEF C!Edited
    <3>3. text' \cup before' \cup draft' \subseteq typed'
      <4>1. CASE C!Ours(t)
        BY <2>0, <2>11, <4>1, ShowsIs DEF C!Edited
      <4>2. CASE C!Mounted /\ ~C!Ours(t)
        BY <2>0, <2>11, <4>2, ShowsIs DEF C!Edited
      <4>3. CASE ~C!Mounted
        BY <2>0, <2>11, <4>3 DEF C!Edited, C!Ours
      <4> QED
        BY <4>1, <4>2, <4>3
    <3> QED
      BY <2>0, <3>1, <3>2, <3>3
  <2> QED
    BY <2>0, <2>1, <2>2, <2>3, <2>4, <2>5, <2>6, <2>7, <2>8, <2>9, <2>10, <2>11 DEF C!CNext, C!Answers, Rooms
<1>3. \A u \in jobs' : u.words \subseteq typed'
  <2>0. /\ text \subseteq typed' /\ \A t \in jobs : t.words \subseteq typed'
    BY <1>0 DEF Known
  <2>1. CASE C!Type \/ C!CancelEdit \/ C!SetReplyingTo \/ \E m \in C!Msg : C!SetEditing(m)
    BY <2>0, <2>1 DEF C!Type, C!CancelEdit, C!SetReplyingTo, C!SetEditing
  <2>2. CASE C!Close
    BY <2>0, <2>2, ClosedJobs
  <2>3. CASE \E c \in {p, q} : C!SelectChat(c)
    BY <2>0, <2>3, SelectedJobs DEF Rooms
  <2>4. CASE C!SendText \/ C!PickGif \/ C!SendEdit \/ C!PickFile
    BY <2>0, <2>4 DEF C!SendText, C!PickGif, C!SendEdit, C!PickFile, C!SendMessage, C!Job
  <2>5. ASSUME NEW t \in jobs, C!Uploaded(t) PROVE \A u \in jobs' : u.words \subseteq typed'
    BY <2>0, <2>5, UploadedJobs
  <2>6. ASSUME NEW t \in jobs, C!UploadFails(t) \/ C!Sent(t) \/ C!Edited(t) \/ C!NotEdited(t)
        PROVE  jobs' \subseteq jobs
    BY <2>6 DEF C!UploadFails, C!Sent, C!Edited, C!NotEdited
  <2>7. ASSUME NEW t \in jobs, C!Captioned(t) PROVE \A u \in jobs' : u.words \subseteq typed'
    BY <2>0, <2>7, CaptionedJobs
  <2> QED
    BY <2>0, <2>1, <2>2, <2>3, <2>4, <2>5, <2>6, <2>7 DEF C!CNext, C!Answers
<1>4. \A x \in posted' : x.words \subseteq typed'
  <2>0. \A x \in posted : x.words \subseteq typed'
    BY <1>0 DEF Known
  <2>1. posted' = posted \/ \E t \in jobs : C!Sent(t) \/ C!Captioned(t)
    BY DEF C!CNext, C!Answers, C!Type, C!CancelEdit, C!SetReplyingTo, C!SetEditing, C!Close, C!SelectChat, C!SendText,
       C!PickGif, C!SendEdit, C!PickFile, C!Uploaded, C!UploadFails, C!Edited, C!NotEdited
  <2>2. ASSUME NEW t \in jobs, C!Sent(t) \/ C!Captioned(t)
        PROVE  \A x \in posted' : x \in posted \/ x.words = t.words
    <3>1. PICK ok \in BOOLEAN : C!Posts(t, ok)
      BY <2>2 DEF C!Sent, C!Captioned
    <3> QED
      BY <3>1, PostsIs
  <2>3. \A t \in jobs : t.words \subseteq typed'
    BY <1>0 DEF Known
  <2> QED
    BY <2>0, <2>1, <2>2, <2>3
<1> QED
  BY <1>1, <1>2, <1>3, <1>4 DEF Known
-----------------------------------------------------------------------------
\* One send or edit of the mounted input at a time, as it is disabled meanwhile.
LEMMA OneAskStep ==
  ASSUME Shaped, OneAsk, C!CNext
  PROVE  OneAsk'
<1>0. /\ input \in Nat /\ \A t \in jobs : t.input <= input /\ t.input \in Nat
  BY DEF Shaped, Jobs, OneAsk
<1>1. CASE C!Type \/ C!CancelEdit \/ C!SetReplyingTo \/ \E m \in C!Msg : C!SetEditing(m)
  <2>1. jobs' = jobs /\ input' = input
    BY <1>1 DEF C!Type, C!CancelEdit, C!SetReplyingTo, C!SetEditing
  <2> QED
    BY <2>1 DEF OneAsk
<1>2. CASE C!Close
  <2>1. input' = input
    BY <1>2 DEF C!Close
  <2>2. \A u \in jobs' : u.kind \in Asks => u \in jobs
    BY <1>2, ClosedJobs DEF Asks
  <2>3. \A u \in jobs' : u.input <= input
    BY <1>0, <1>2, ClosedJobs
  <2> QED
    BY <2>1, <2>2, <2>3 DEF OneAsk
<1>3. ASSUME NEW c \in Rooms, C!SelectChat(c) PROVE OneAsk'
  <2>0. input' \in {input, input + 1}
    BY <1>0, <1>3 DEF C!SelectChat
  <2>1. \A u \in jobs' : u.input <= input
    BY <1>0, <1>3, SelectedJobs
  <2>2. \A t, u \in jobs' : t.input = input /\ u.input = input /\ t.kind \in Asks /\ u.kind \in Asks => t = u
    <3> SUFFICES ASSUME NEW t \in jobs', NEW u \in jobs', t.input = input, u.input = input, t.kind \in Asks, u.kind \in Asks
                 PROVE  t = u
      OBVIOUS
    <3>1. PICK t0 \in jobs : t = [t0 EXCEPT !.away = t0.away \/ t0.file # c] /\ t0.input = t.input /\ t0.kind = t.kind
      BY <1>3, SelectedJobs
    <3>2. PICK u0 \in jobs : u = [u0 EXCEPT !.away = u0.away \/ u0.file # c] /\ u0.input = u.input /\ u0.kind = u.kind
      BY <1>3, SelectedJobs
    <3>3. t0 = u0
      BY <3>1, <3>2 DEF OneAsk
    <3> QED
      BY <3>1, <3>2, <3>3
  <2>3. input' = input + 1 => \A u \in jobs' : u.input # input'
    BY <1>0, <2>1
  <2>4. \A u \in jobs' : u.input <= input'
    <3>1. \A u \in jobs' : u.input \in Nat
      BY <1>0, <1>3, SelectedJobs
    <3> QED
      BY <1>0, <2>0, <2>1, <3>1
  <2> QED
    BY <2>0, <2>1, <2>2, <2>3, <2>4 DEF OneAsk
<1>4. CASE C!SendText \/ C!SendEdit
  <2>1. /\ input' = input /\ ~C!Busy /\ chosen # None
        /\ \E n : jobs' = jobs \cup {n} /\ n.input = input
    <3>1. CASE C!SendText
      <4>1. jobs' = jobs \cup {C!Job("send", text, None, None)} /\ input' = input /\ ~C!Busy /\ chosen # None
        BY <3>1 DEF C!SendText, C!SendMessage, C!Mounted
      <4>2. C!Job("send", text, None, None).input = input
        BY DEF C!Job
      <4> QED
        BY <4>1, <4>2
    <3>2. CASE C!SendEdit
      <4>1. jobs' = jobs \cup {C!Job("edit", text, editing, None)} /\ input' = input /\ ~C!Busy /\ chosen # None
        BY <3>2 DEF C!SendEdit, Shaped
      <4>2. C!Job("edit", text, editing, None).input = input
        BY DEF C!Job
      <4> QED
        BY <4>1, <4>2
    <3> QED
      BY <1>4, <3>1, <3>2
  <2>2. \A t \in jobs : ~(t.input = input /\ t.kind \in Asks)
    BY <2>1 DEF C!Busy, C!Ours, C!Mounted, Asks
  <2> QED
    BY <1>0, <2>1, <2>2 DEF OneAsk
<1>5. CASE C!PickGif \/ C!PickFile
  <2>1. /\ input' = input
        /\ \E n : jobs' = jobs \cup {n} /\ n.input = input /\ n.kind \notin Asks
    <3>1. CASE C!PickGif
      <4>1. jobs' = jobs \cup {C!Job("caption", text, None, None)} /\ input' = input
        BY <3>1 DEF C!PickGif, C!SendMessage
      <4>2. C!Job("caption", text, None, None).input = input /\ C!Job("caption", text, None, None).kind \notin Asks
        BY DEF C!Job, Asks
      <4> QED
        BY <4>1, <4>2
    <3>2. CASE C!PickFile
      <4>1. jobs' = jobs \cup {[C!Job("upload", {}, None, chosen) EXCEPT !.to = None]} /\ input' = input
        BY <3>2 DEF C!PickFile
      <4>2. /\ [C!Job("upload", {}, None, chosen) EXCEPT !.to = None].input = input
            /\ [C!Job("upload", {}, None, chosen) EXCEPT !.to = None].kind \notin Asks
        BY DEF C!Job, Asks
      <4> QED
        BY <4>1, <4>2
    <3> QED
      BY <1>5, <3>1, <3>2
  <2> QED
    BY <1>0, <2>1 DEF OneAsk
<1>6. ASSUME NEW t \in jobs, C!Uploaded(t) PROVE OneAsk'
  <2>1. /\ input' = input
        /\ \E n : jobs' = (jobs \ {t}) \cup {n} /\ n.input = t.input /\ n.kind \notin Asks
    BY <1>6, UploadedJobs DEF C!Uploaded, Asks
  <2> QED
    BY <1>0, <2>1 DEF OneAsk
<1>7. ASSUME NEW t \in jobs, C!UploadFails(t) \/ C!Sent(t) \/ C!Edited(t) \/ C!NotEdited(t) PROVE OneAsk'
  <2>1. jobs' \subseteq jobs /\ input' = input
    BY <1>7 DEF C!UploadFails, C!Sent, C!Edited, C!NotEdited
  <2> QED
    BY <2>1 DEF OneAsk
<1>8. ASSUME NEW t \in jobs, C!Captioned(t) PROVE OneAsk'
  <2>1. input' = input
    BY <1>8 DEF C!Captioned
  <2>2. \A u \in jobs' : u.kind \in Asks => u \in jobs
    BY <1>8, CaptionedJobs DEF Asks
  <2>3. \A u \in jobs' : u.input <= input
    BY <1>0, <1>8, CaptionedJobs
  <2> QED
    BY <2>1, <2>2, <2>3 DEF OneAsk
<1> QED
  BY <1>1, <1>2, <1>3, <1>4, <1>5, <1>6, <1>7, <1>8 DEF C!CNext, C!Answers, Rooms

\* What an edit has is of its message.
LEMMA EditsApartStep ==
  ASSUME Shaped, Bound, EditsApart, C!CNext
  PROVE  EditsApart'
<1>0. None \notin C!Msg /\ own \in [C!Msg -> SUBSET Words]
  BY InputAssumption DEF Shaped, C!Msg
<1>1. CASE C!Type
  BY <1>1, ShowsIs DEF C!Type, EditsApart
<1>2. CASE C!CancelEdit
  BY <1>2, ShowsIs DEF C!CancelEdit, EditsApart
<1>3. CASE C!SetReplyingTo
  BY <1>3, ShowsIs DEF C!SetReplyingTo, EditsApart
<1>4. CASE \E m \in C!Msg : C!SetEditing(m)
  BY <1>4, ShowsIs DEF C!SetEditing, EditsApart
<1>5. CASE C!Close
  BY <1>5 DEF C!Close, EditsApart
<1>6. CASE \E c \in {p, q} : C!SelectChat(c)
  BY <1>6, ShowsIs DEF C!SelectChat, EditsApart
<1>7. CASE C!SendText \/ C!PickGif \/ C!SendEdit \/ C!PickFile
  BY <1>7 DEF C!SendText, C!PickGif, C!SendEdit, C!PickFile, EditsApart
<1>8. ASSUME NEW t \in jobs, C!Uploaded(t) \/ C!UploadFails(t) \/ C!NotEdited(t) PROVE EditsApart'
  BY <1>8 DEF C!Uploaded, C!UploadFails, C!NotEdited, EditsApart
<1>9. ASSUME NEW t \in jobs, C!Sent(t) \/ C!Captioned(t) PROVE EditsApart'
  <2>1. own' = own /\ editing' = editing /\ text' \in {text, {}}
    <3>1. CASE C!Sent(t)
      BY <3>1, ShowsIs DEF C!Sent
    <3>2. CASE C!Captioned(t)
      BY <3>2, ShowsIs DEF C!Captioned
    <3> QED
      BY <1>9, <3>1, <3>2
  <2> QED
    BY <2>1 DEF EditsApart
<1>10. ASSUME NEW t \in jobs, C!Edited(t) PROVE EditsApart'
  <2>1. own' = [own EXCEPT ![t.m] = t.words] /\ \A w \in t.words : w.of = t.m
    BY <1>10 DEF C!Edited, Bound
  <2>2. \A m \in C!Msg : \A w \in own'[m] : w.of = m
    BY <1>0, <2>1 DEF EditsApart
  <2>3. editing' = None \/ (editing' = editing /\ text' = text)
    <3>1. CASE C!Ours(t)
      BY <1>10, <3>1, ShowsIs DEF C!Edited
    <3>2. CASE C!Mounted /\ ~C!Ours(t)
      BY <1>10, <3>2, ShowsIs DEF C!Edited
    <3>3. CASE ~C!Mounted
      BY <1>10, <3>3 DEF C!Edited, C!Ours
    <3> QED
      BY <3>1, <3>2, <3>3
  <2> QED
    BY <2>2, <2>3 DEF EditsApart
<1> QED
  BY <1>1, <1>2, <1>3, <1>4, <1>5, <1>6, <1>7, <1>8, <1>9, <1>10 DEF C!CNext, C!Answers
-----------------------------------------------------------------------------
\* A message and a GIF, an edit, and a file that begin.
LEMMA SendIs ==
  ASSUME Shaped, C!SendText \/ C!PickGif
  PROVE  /\ chosen \in Rooms /\ draft' = {} /\ drafts' = [drafts EXCEPT ![chosen] = {}] /\ reply' = None
         /\ stray' = stray \cup (text \cap C!InFlight) /\ excused' = excused \cup (draft \ text)
         /\ UNCHANGED <<chosen, editing, own, text, before, input, posted, typed>>
         /\ \E n : /\ jobs' = jobs \cup {n} /\ n.kind \in Ways /\ n.input = input /\ n.words = text /\ n.to = chosen
                   /\ n.reply = reply /\ n.file = None
                   /\ n.kind = "send" => ~C!Busy /\ editing = None
<1> DEFINE n(k) == C!Job(k, text, None, None)
<1>1. \A k : /\ n(k).kind = k /\ n(k).input = input /\ n(k).words = text /\ n(k).to = chosen
             /\ n(k).reply = reply /\ n(k).file = None
  BY DEF C!Job
<1>2. \E k \in Ways : jobs' = jobs \cup {n(k)} /\ (k = "send" => ~C!Busy /\ editing = None)
  BY DEF C!SendText, C!PickGif, C!SendMessage, Ways
<1>3. chosen \in Rooms
  BY DEF C!SendText, C!PickGif, C!Mounted, Shaped
<1>4. /\ draft' = {} /\ drafts' = [drafts EXCEPT ![chosen] = {}] /\ reply' = None
      /\ stray' = stray \cup (text \cap C!InFlight)
      /\ UNCHANGED <<chosen, editing, own, text, before, input, posted, typed>>
  BY DEF C!SendText, C!PickGif, C!SendMessage, C!Strays
<1>5. excused' = excused \cup (draft \ text)
  <2>1. \E k \in Ways : excused' = excused \cup (draft \ n(k).words)
    BY DEF C!SendText, C!PickGif, C!SendMessage, Ways
  <2> QED
    BY <1>1, <2>1
<1> HIDE DEF n
<1> QED
  BY <1>1, <1>2, <1>3, <1>4, <1>5

LEMMA SendEditIs ==
  ASSUME Shaped, C!SendEdit
  PROVE  /\ editing \in C!Msg /\ ~C!Busy
         /\ UNCHANGED <<chosen, reply, editing, draft, drafts, own, text, before, input, posted, typed, stray, excused>>
         /\ \E n : jobs' = jobs \cup {n} /\ n.kind = "edit" /\ n.input = input /\ n.words = text /\ n.m = editing
<1> DEFINE n == C!Job("edit", text, editing, None)
<1>1. n.kind = "edit" /\ n.input = input /\ n.words = text /\ n.m = editing
  BY DEF C!Job
<1>2. /\ editing \in C!Msg /\ ~C!Busy /\ jobs' = jobs \cup {n}
      /\ UNCHANGED <<chosen, reply, editing, draft, drafts, own, text, before, input, posted, typed, stray, excused>>
  BY DEF C!SendEdit, Shaped
<1> HIDE DEF n
<1> QED
  BY <1>1, <1>2

LEMMA PickFileIs ==
  ASSUME C!PickFile
  PROVE  /\ UNCHANGED <<chosen, reply, editing, draft, drafts, own, text, before, input, posted, typed, stray, excused>>
         /\ \E n : jobs' = jobs \cup {n} /\ n.kind = "upload" /\ n.input = input /\ n.words = {} /\ n.file = chosen
<1> DEFINE n == [C!Job("upload", {}, None, chosen) EXCEPT !.to = None]
<1>1. n.kind = "upload" /\ n.input = input /\ n.words = {} /\ n.file = chosen
  BY DEF C!Job
<1>2. /\ jobs' = jobs \cup {n}
      /\ UNCHANGED <<chosen, reply, editing, draft, drafts, own, text, before, input, posted, typed, stray, excused>>
  BY DEF C!PickFile
<1> HIDE DEF n
<1> QED
  BY <1>1, <1>2

\* What strayed or may be lost stays so.
LEMMA HistoryStep ==
  ASSUME C!CNext
  PROVE  stray \subseteq stray' /\ excused \subseteq excused'
<1>1. CASE C!Type \/ C!CancelEdit \/ C!SetReplyingTo \/ \E m \in C!Msg : C!SetEditing(m)
  BY <1>1, ShowsIs DEF C!Type, C!CancelEdit, C!SetReplyingTo, C!SetEditing, C!Strays
<1>2. CASE C!Close \/ \E c \in {p, q} : C!SelectChat(c)
  BY <1>2, ShowsIs DEF C!Close, C!SelectChat, C!Strays
<1>3. CASE C!SendText \/ C!PickGif \/ C!SendEdit \/ C!PickFile
  BY <1>3 DEF C!SendText, C!PickGif, C!SendEdit, C!PickFile, C!SendMessage, C!Strays
<1>4. ASSUME NEW t \in jobs, C!Uploaded(t) \/ C!UploadFails(t) \/ C!NotEdited(t)
      PROVE  stray \subseteq stray' /\ excused \subseteq excused'
  BY <1>4 DEF C!Uploaded, C!UploadFails, C!NotEdited, C!SendMessage, C!Strays
<1>5. ASSUME NEW t \in jobs, C!Sent(t) PROVE stray \subseteq stray' /\ excused \subseteq excused'
  BY <1>5, ShowsIs DEF C!Sent
<1>6. ASSUME NEW t \in jobs, C!Captioned(t) PROVE stray \subseteq stray' /\ excused \subseteq excused'
  BY <1>6, ShowsIs DEF C!Captioned
<1>7. ASSUME NEW t \in jobs, C!Edited(t) PROVE stray \subseteq stray' /\ excused \subseteq excused'
  <2>1. stray' = stray
    BY <1>7 DEF C!Edited
  <2>2. CASE C!Ours(t)
    BY <1>7, <2>1, <2>2, ShowsIs DEF C!Edited
  <2>3. CASE C!Mounted /\ ~C!Ours(t)
    BY <1>7, <2>1, <2>3, ShowsIs DEF C!Edited
  <2>4. CASE ~C!Mounted
    BY <1>7, <2>1, <2>4 DEF C!Edited, C!Ours
  <2> QED
    BY <2>2, <2>3, <2>4
<1> QED
  BY <1>1, <1>2, <1>3, <1>4, <1>5, <1>6, <1>7 DEF C!CNext, C!Answers

\* Where a request goes.
LEMMA BoundStep ==
  ASSUME Shaped, EditsApart, Local, Bound, C!CNext
  PROVE  Bound'
<1>0. stray \subseteq stray' /\ None \notin Rooms /\ reply \in {None, chosen} /\ chosen \in Rooms \cup {None}
  BY HistoryStep, InputAssumption DEF Rooms, Shaped
<1> USE DEF Ways
<1>1. CASE C!Type \/ C!CancelEdit \/ C!SetReplyingTo \/ \E m \in C!Msg : C!SetEditing(m)
  <2>1. jobs' = jobs /\ chosen' = chosen
    BY <1>1 DEF C!Type, C!CancelEdit, C!SetReplyingTo, C!SetEditing
  <2> QED
    BY <1>0, <2>1 DEF Bound
<1>2. CASE C!Close
  <2>1. chosen' = None /\ ((\E v \in jobs : v.kind = "upload" /\ v.input = input) => text \subseteq stray')
    BY <1>2 DEF C!Close, C!Strays, C!Ours, C!Mounted
  <2> SUFFICES ASSUME NEW u \in jobs', u \notin jobs PROVE u.kind = "upload" /\ u.words \subseteq stray'
    BY <1>0, <2>1 DEF Bound
  <2> QED
    BY <1>2, <2>1, ClosedJobs
<1>3. ASSUME NEW c \in Rooms, C!SelectChat(c) PROVE Bound'
  <2> SUFFICES ASSUME NEW u \in jobs'
      PROVE /\ u.kind = "upload" => u.words \subseteq stray' /\ (u.file = c \/ u.away)
            /\ u.kind = "edit" => u.m \in C!Msg /\ \A w \in u.words : w.of = u.m
            /\ u.kind \in Ways => /\ u.to \in Rooms /\ u.reply \in {None, u.to} /\ (u.file \in {None, u.to} \/ u.away)
                                  /\ \A w \in u.words \ stray' : w.at = u.to
    BY <1>3 DEF C!SelectChat, Bound
  <2>1. PICK v \in jobs : /\ u.kind = v.kind /\ u.words = v.words /\ u.m = v.m
                          /\ u.to = v.to /\ u.reply = v.reply /\ u.file = v.file /\ u.away = (v.away \/ v.file # c)
    BY <1>3, SelectedJobs
  <2> QED
    BY <1>0, <2>1 DEF Bound
<1>4. CASE C!SendText \/ C!PickGif
  <2>1. \A w \in text \ stray : w.at = chosen
    BY DEF Local
  <2> QED
    BY <1>0, <1>4, <2>1, SendIs DEF Bound
<1>5. CASE C!SendEdit
  BY <1>0, <1>5, SendEditIs, InputAssumption DEF Bound, EditsApart, C!Msg
<1>6. CASE C!PickFile
  BY <1>0, <1>6, PickFileIs DEF Bound
<1>7. ASSUME NEW t \in jobs, C!Uploaded(t) PROVE Bound'
  <2>1. chosen' = chosen /\ chosen # None /\ t.kind = "upload"
    BY <1>7 DEF C!Uploaded, C!Mounted
  <2>2. \A w \in (text \cup t.words) \ stray : w.at = chosen
    BY <2>1 DEF Local, Bound
  <2>3. t.file = chosen \/ t.away
    BY <2>1 DEF Bound
  <2> QED
    BY <1>0, <1>7, <2>1, <2>2, <2>3, UploadedJobs DEF Bound
<1>8. ASSUME NEW t \in jobs, C!UploadFails(t) \/ C!Sent(t) \/ C!Edited(t) \/ C!NotEdited(t) PROVE Bound'
  <2>1. jobs' \subseteq jobs /\ chosen' = chosen
    BY <1>8 DEF C!UploadFails, C!Sent, C!Edited, C!NotEdited
  <2> QED
    BY <1>0, <2>1 DEF Bound
<1>9. ASSUME NEW t \in jobs, C!Captioned(t) PROVE Bound'
  <2>1. chosen' = chosen
    BY <1>9 DEF C!Captioned
  <2> QED
    BY <1>0, <1>9, <2>1, CaptionedJobs DEF Bound
<1> QED
  BY <1>1, <1>2, <1>3, <1>4, <1>5, <1>6, <1>7, <1>8, <1>9 DEF C!CNext, C!Answers, Rooms

\* Words stay at the chat they were typed for, or stray.
LEMMA LocalStep ==
  ASSUME Shaped, Known, EditsApart, Local, C!CNext
  PROVE  Local'
<1>0. /\ stray \subseteq stray' /\ None \notin Rooms /\ None \notin C!Msg /\ drafts \in [Rooms -> SUBSET Words]
      /\ chosen \in Rooms \cup {None}
      /\ \A w \in (text \cup before \cup draft) \ stray' : w.at = chosen
      /\ \A c \in Rooms : \A w \in drafts[c] \ stray' : w.at = c
  BY HistoryStep, InputAssumption DEF Shaped, Local, Rooms, C!Msg
<1>1. CASE C!Type
  BY <1>0, <1>1, ShowsIs DEF C!Type, Local
<1>2. CASE C!CancelEdit
  BY <1>0, <1>2, ShowsIs DEF C!CancelEdit, Local
<1>3. CASE C!SetReplyingTo
  BY <1>0, <1>3, ShowsIs DEF C!SetReplyingTo, Local
<1>4. ASSUME NEW m \in C!Msg, C!SetEditing(m) PROVE Local'
  <2>1. \A w \in own[m] : w.at = chosen
    BY <1>0, <1>4 DEF C!SetEditing, EditsApart, Known
  <2> QED
    BY <1>0, <1>4, <2>1, ShowsIs DEF C!SetEditing, Local
<1>5. CASE C!Close
  BY <1>0, <1>5 DEF C!Close, C!Leaves, Local
<1>6. ASSUME NEW c \in Rooms, C!SelectChat(c) PROVE Local'
  <2>1. chosen' = c /\ \A e \in Rooms : drafts'[e] = IF e = chosen THEN draft ELSE drafts[e]
    BY <1>0, <1>6 DEF C!SelectChat, C!Leaves, C!Mounted
  <2>2. \A e \in Rooms : \A w \in drafts'[e] \ stray' : w.at = e
    BY <1>0, <2>1
  <2>3. CASE C!Mounted
    <3>1. /\ text' = text /\ before' = before /\ draft' \subseteq text \cup drafts[c]
          /\ text \cup before \subseteq stray'
      BY <1>6, <2>3, ShowsIs DEF C!SelectChat, C!Strays
    <3> QED
      BY <1>0, <2>1, <2>2, <3>1 DEF Local
  <2>4. CASE ~C!Mounted
    <3>1. text' = drafts[c] /\ before' = {} /\ draft' = drafts[c]
      BY <1>6, <2>4 DEF C!SelectChat
    <3> QED
      BY <1>0, <2>1, <2>2, <3>1 DEF Local
  <2> QED
    BY <2>3, <2>4
<1>7. CASE C!SendText \/ C!PickGif
  BY <1>0, <1>7, SendIs DEF Local
<1>8. CASE C!SendEdit \/ C!PickFile
  BY <1>0, <1>8, SendEditIs, PickFileIs DEF Local
<1>9. ASSUME NEW t \in jobs, C!Uploaded(t) PROVE Local'
  BY <1>0, <1>9 DEF C!Uploaded, C!SendMessage, Local
<1>10. ASSUME NEW t \in jobs, C!UploadFails(t) \/ C!NotEdited(t) PROVE Local'
  BY <1>0, <1>10 DEF C!UploadFails, C!NotEdited, Local
<1>11. ASSUME NEW t \in jobs, C!Sent(t) PROVE Local'
  BY <1>0, <1>11, ShowsIs DEF C!Sent, Local
<1>12. ASSUME NEW t \in jobs, C!Captioned(t) PROVE Local'
  BY <1>0, <1>12, ShowsIs DEF C!Captioned, Local
<1>13. ASSUME NEW t \in jobs, C!Edited(t) PROVE Local'
  <2>1. chosen' = chosen /\ drafts' = drafts
    BY <1>13 DEF C!Edited
  <2>2. text' \cup before' \cup draft' \subseteq text \cup before \cup draft
    <3>1. CASE C!Ours(t)
      BY <1>13, <3>1, ShowsIs DEF C!Edited
    <3>2. CASE C!Mounted /\ ~C!Ours(t)
      BY <1>13, <3>2, ShowsIs DEF C!Edited
    <3>3. CASE ~C!Mounted
      BY <1>13, <3>3 DEF C!Edited, C!Ours
    <3> QED
      BY <3>1, <3>2, <3>3
  <2> QED
    BY <1>0, <2>1, <2>2 DEF Local
<1> QED
  BY <1>1, <1>2, <1>3, <1>4, <1>5, <1>6, <1>7, <1>8, <1>9, <1>10, <1>11, <1>12, <1>13 DEF C!CNext, C!Answers, Rooms
-----------------------------------------------------------------------------
\* What a step may not do to a word that is on its way or was sent.
LEMMA OnceStep ==
  ASSUME Shaped, Known, EditsApart, Local, Bound, Once, C!CNext
  PROVE  Once'
<1> SUFFICES ASSUME NEW w \in typed' \ stray', w.of = None PROVE Single(w)'
  BY DEF Once
<1>0. /\ w \notin stray /\ None \notin Rooms /\ None \notin C!Msg /\ (editing # None => w \notin text)
      /\ (w \in typed => Single(w)) /\ (chosen = None => text = {} /\ before = {} /\ draft = {} /\ editing = None)
      /\ drafts \in [Rooms -> SUBSET Words] /\ chosen \in Rooms \cup {None}
      /\ \A m \in C!Msg : w \notin own[m]
  BY HistoryStep, InputAssumption DEF EditsApart, Shaped, Once, Rooms, C!Msg
<1>1. CASE C!Type
  <2>1. /\ text' = text \cup {[n |-> left.words, at |-> chosen, of |-> editing]} /\ (draft' = draft \/ draft' = text')
        /\ UNCHANGED <<drafts, before, input, jobs, posted>>
    BY <1>1, ShowsIs DEF C!Type
  <2>2. CASE w \in typed
    <3>1. w \in text' => w \in text
      <4>1. w.n > left.words /\ left.words \in Nat
        BY <2>2 DEF Known, Shaped, Bounds
      <4> QED
        BY <2>1, <4>1
    <3> QED
      BY <1>0, <2>1, <2>2, <3>1 DEF Single
  <2>3. CASE w \notin typed
    <3>1. /\ w \notin before /\ \A c \in Rooms : w \notin drafts[c]
          /\ \A t \in jobs : w \notin t.words
          /\ \A x \in posted : w \notin x.words
      BY <2>3 DEF Known
    <3> QED
      BY <2>1, <3>1 DEF Single
  <2> QED
    BY <2>2, <2>3
<1>2. CASE C!CancelEdit
  <2>1. /\ text' = before /\ before' = {} /\ draft' = before
        /\ UNCHANGED <<drafts, input, jobs, posted, typed>>
    BY <1>2, ShowsIs DEF C!CancelEdit
  <2> QED
    BY <1>0, <2>1 DEF Single
<1>3. CASE C!SetReplyingTo
  <2>1. /\ text' = text /\ (draft' = draft \/ (editing # None /\ draft' = text))
        /\ UNCHANGED <<drafts, before, input, jobs, posted, typed>>
    BY <1>3, ShowsIs DEF C!SetReplyingTo
  <2> QED
    BY <1>0, <2>1 DEF Single
<1>4. ASSUME NEW m \in C!Msg, C!SetEditing(m) PROVE Single(w)'
  <2>1. /\ text' = own[m] /\ before' = text /\ draft' = draft /\ stray' = stray \cup (text \cap C!InFlight)
        /\ UNCHANGED <<drafts, input, jobs, posted, typed>>
    BY <1>0, <1>4, ShowsIs DEF C!SetEditing, C!Strays
  <2>2. w \in text => \A t \in jobs : w \notin t.words
    BY <2>1 DEF C!InFlight
  <2> QED
    BY <1>0, <2>1, <2>2 DEF Single
<1>5. CASE C!Close
  <2>1. /\ text' = {} /\ before' = {} /\ draft' = {} /\ UNCHANGED <<input, posted, typed>>
        /\ \A c \in Rooms : drafts'[c] = IF c = chosen THEN draft ELSE drafts[c]
        /\ draft \cap C!InFlight \subseteq stray'
    BY <1>0, <1>5 DEF C!Close, C!Leaves, C!Mounted, C!Strays
  <2>2. w \in draft => \A t \in jobs : w \notin t.words
    BY <2>1 DEF C!InFlight
  <2>3. \A u \in jobs' : u.kind \in Ways => u \in jobs
    BY <1>5, ClosedJobs DEF Ways
  <2> QED
    BY <1>0, <2>1, <2>2, <2>3 DEF Single
<1>6. ASSUME NEW c \in Rooms, C!SelectChat(c) PROVE Single(w)'
  <2>1. /\ \A e \in Rooms : drafts'[e] = IF e = chosen THEN draft ELSE drafts[e]
        /\ UNCHANGED <<posted, typed>>
    BY <1>0, <1>6 DEF C!SelectChat, C!Leaves, C!Mounted
  <2>2. CASE C!Mounted
    <3>1. /\ w \notin text' /\ w \notin text /\ w \notin before' /\ w \notin before /\ draft' \subseteq text \cup drafts[c]
          /\ input' = input
      BY <1>6, <2>2, ShowsIs DEF C!SelectChat, C!Strays
    <3>2. /\ \A t \in jobs : t.kind \in Ways /\ w \in t.words =>
               /\ \A x \in posted' : w \notin x.words
               /\ w \notin draft' /\ \A e \in Rooms : w \notin drafts'[e]
          /\ \A x \in posted' : w \in x.words =>
               /\ \A y \in posted' : w \in y.words => y = x
               /\ w \notin draft' /\ \A e \in Rooms : w \notin drafts'[e]
      BY <1>0, <2>1, <3>1 DEF Single
    <3>3. \A t \in jobs' : t.kind \in Ways /\ w \in t.words =>
               /\ \A x \in posted' : w \notin x.words
               /\ w \notin draft' /\ \A e \in Rooms : w \notin drafts'[e]
      BY <1>6, <3>2, SelectedJobs
    <3>4. \A t, u \in jobs' : t.kind \in Ways /\ w \in t.words /\ u.kind \in Ways /\ w \in u.words => u = t
      BY <1>0, <1>6, <2>1, SelectedWays DEF Single
    <3> QED
      BY <3>1, <3>2, <3>3, <3>4 DEF Single
  <2>3. CASE ~C!Mounted
    <3>1. text' = drafts[c] /\ before' = {} /\ draft' = drafts[c] /\ \A e \in Rooms : drafts'[e] = drafts[e]
      BY <1>0, <1>6, <2>1, <2>3 DEF C!SelectChat, C!Mounted
    <3>2. /\ \A t \in jobs : t.kind \in Ways /\ w \in t.words =>
               /\ \A x \in posted' : w \notin x.words
               /\ \A e \in Rooms : w \notin drafts[e]
          /\ \A x \in posted' : w \in x.words =>
               /\ \A y \in posted' : w \in y.words => y = x
               /\ \A e \in Rooms : w \notin drafts[e]
      BY <1>0, <2>1 DEF Single
    <3>3. \A t \in jobs' : t.kind \in Ways /\ w \in t.words =>
               /\ \A x \in posted' : w \notin x.words
               /\ \A e \in Rooms : w \notin drafts[e]
      BY <1>6, <3>2, SelectedJobs
    <3>4. \A t, u \in jobs' : t.kind \in Ways /\ w \in t.words /\ u.kind \in Ways /\ w \in u.words => u = t
      BY <1>0, <1>6, <2>1, SelectedWays DEF Single
    <3> QED
      BY <3>1, <3>2, <3>3, <3>4 DEF Single
  <2> QED
    BY <2>2, <2>3
<1>7. CASE C!SendText \/ C!PickGif
  <2>1. PICK n : /\ jobs' = jobs \cup {n} /\ n.kind \in Ways /\ n.input = input /\ n.words = text
    BY <1>7, SendIs
  <2>2. /\ chosen \in Rooms /\ draft' = {} /\ drafts' = [drafts EXCEPT ![chosen] = {}]
        /\ stray' = stray \cup (text \cap C!InFlight) /\ UNCHANGED <<text, before, input, posted, typed>>
    BY <1>7, SendIs
  <2>3. \A c \in Rooms : w \in text => w \notin drafts'[c]
    BY <1>0, <2>2 DEF Local
  <2>4. w \in text => \A t \in jobs : w \notin t.words
    BY <2>2 DEF C!InFlight
  <2>5. \A c \in Rooms : drafts'[c] \subseteq drafts[c]
    BY <1>0, <2>2
  <2> QED
    BY <1>0, <2>1, <2>2, <2>3, <2>4, <2>5 DEF Single
<1>8. CASE C!SendEdit \/ C!PickFile
  <2>1. /\ UNCHANGED <<draft, drafts, text, before, input, posted, typed>>
        /\ \A u \in jobs' : u.kind \in Ways => u \in jobs
    BY <1>8, SendEditIs, PickFileIs DEF Ways
  <2> QED
    BY <1>0, <2>1 DEF Single
<1>9. ASSUME NEW t \in jobs, C!Uploaded(t) PROVE Single(w)'
  <2>1. PICK n : jobs' = (jobs \ {t}) \cup {n} /\ n.input = t.input /\ n.words = (IF C!Ours(t) THEN text ELSE t.words)
    BY <1>9, UploadedJobs
  <2>2. /\ chosen \in Rooms /\ draft' = {} /\ drafts' = [drafts EXCEPT ![chosen] = {}]
        /\ UNCHANGED <<text, before, input, posted, typed>> /\ t.words \subseteq stray
        /\ stray' = stray \cup ((IF C!Ours(t) THEN text ELSE t.words) \cap UNION {u.words : u \in jobs \ {t}})
    BY <1>0, <1>9 DEF C!Uploaded, C!SendMessage, C!Mounted, C!Strays, Bound
  <2>3. \A c \in Rooms : w \in text => w \notin drafts'[c]
    BY <1>0, <2>2 DEF Local
  <2>4. w \in n.words => w \in text /\ n.input = input /\ \A u \in jobs \ {t} : w \notin u.words
    BY <1>0, <2>1, <2>2 DEF C!Ours
  <2>5. \A c \in Rooms : drafts'[c] \subseteq drafts[c]
    BY <1>0, <2>2
  <2> QED
    BY <1>0, <2>1, <2>2, <2>3, <2>4, <2>5 DEF Single
<1>10. ASSUME NEW t \in jobs, C!UploadFails(t) \/ C!NotEdited(t) PROVE Single(w)'
  <2>1. UNCHANGED <<draft, drafts, text, before, input, posted, typed>> /\ jobs' \subseteq jobs
    BY <1>10 DEF C!UploadFails, C!NotEdited
  <2> QED
    BY <1>0, <2>1 DEF Single
<1>11. ASSUME NEW t \in jobs, C!Sent(t) \/ C!Captioned(t) PROVE Single(w)'
  <2>1. UNCHANGED <<drafts, before, input, typed>> /\ t.kind \in Ways
    BY <1>11 DEF C!Sent, C!Captioned, Ways
  <2>2. posted' = posted \/ \E x : posted' = posted \cup {x} /\ x.words = t.words
    <3>1. PICK ok \in BOOLEAN : C!Posts(t, ok)
      BY <1>11 DEF C!Sent, C!Captioned
    <3> QED
      BY <3>1, PostsIs
  <2>3. \A u \in jobs' : u.kind \in Ways => u \in jobs \ {t}
    <3>1. CASE C!Sent(t)
      BY <3>1 DEF C!Sent
    <3>2. CASE C!Captioned(t)
      BY <3>2, CaptionedJobs DEF Ways
    <3> QED
      BY <1>11, <3>1, <3>2
  <2>4. \/ text' = text /\ draft' = draft /\ (w \in t.words => ~C!Ours(t))
        \/ text' = {} /\ (draft' = {} \/ (draft' = draft /\ (editing # None \/ text = {})))
    <3>1. CASE C!Sent(t)
      BY <3>1, ShowsIs DEF C!Sent
    <3>2. CASE C!Captioned(t)
      BY <3>2, ShowsIs DEF C!Captioned
    <3> QED
      BY <1>11, <3>1, <3>2
  <2>5. Single(w)
    BY <1>0, <2>1
  <2>6. CASE w \in t.words
    <3>1. w \in text => C!Ours(t)
      BY <1>0, <2>1, <2>5, <2>6 DEF Single, C!Ours, C!Mounted
    <3>2. w \notin text' \cup draft'
      BY <1>0, <2>1, <2>4, <2>5, <2>6, <3>1 DEF Single
    <3> QED
      BY <2>1, <2>2, <2>3, <2>5, <2>6, <3>2 DEF Single
  <2>7. CASE w \notin t.words
    <3>1. (w \in text' => w \in text) /\ (w \in draft' => w \in draft /\ (w \in text => w \in text'))
      BY <1>0, <2>4
    <3> QED
      BY <2>1, <2>2, <2>3, <2>5, <2>7, <3>1 DEF Single
  <2> QED
    BY <2>6, <2>7
<1>12. ASSUME NEW t \in jobs, C!Edited(t) PROVE Single(w)'
  <2>1. UNCHANGED <<drafts, input, posted, typed>> /\ jobs' \subseteq jobs
    BY <1>12 DEF C!Edited
  <2>2. CASE C!Ours(t)
    <3>1. text' = before /\ before' = {} /\ (draft' = before \/ (draft' = draft /\ before = text))
      BY <1>12, <2>2, ShowsIs DEF C!Edited
    <3> QED
      BY <1>0, <2>1, <3>1 DEF Single
  <2>3. CASE C!Mounted /\ ~C!Ours(t)
    <3>1. text' = text /\ before' = before /\ (draft' = draft \/ (draft' = text /\ editing # None))
      BY <1>12, <2>3, ShowsIs DEF C!Edited
    <3> QED
      BY <1>0, <2>1, <3>1 DEF Single
  <2>4. CASE ~C!Mounted
    <3>1. UNCHANGED <<text, draft, before>>
      BY <1>12, <2>4 DEF C!Edited, C!Ours
    <3> QED
      BY <1>0, <2>1, <3>1 DEF Single
  <2> QED
    BY <2>2, <2>3, <2>4
<1> QED
  BY <1>1, <1>2, <1>3, <1>4, <1>5, <1>6, <1>7, <1>8, <1>9, <1>10, <1>11, <1>12 DEF C!CNext, C!Answers, Rooms
-----------------------------------------------------------------------------
\* What is sent goes where it was to go.
LEMMA DeliveredStep ==
  ASSUME Bound, Delivered, C!CNext
  PROVE  Delivered'
<1>0. stray \subseteq stray'
  BY HistoryStep
<1>1. posted' = posted \/ \E t \in jobs : C!Sent(t) \/ C!Captioned(t)
  BY DEF C!CNext, C!Answers, C!Type, C!CancelEdit, C!SetReplyingTo, C!SetEditing, C!Close, C!SelectChat, C!SendText,
     C!PickGif, C!SendEdit, C!PickFile, C!Uploaded, C!UploadFails, C!Edited, C!NotEdited
<1>2. CASE posted' = posted
  BY <1>0, <1>2 DEF Delivered
<1>3. ASSUME NEW t \in jobs, C!Sent(t) \/ C!Captioned(t) PROVE Delivered'
  <2>1. t.kind \in Ways
    BY <1>3 DEF C!Sent, C!Captioned, Ways
  <2>2. \/ posted' = posted
        \/ \E x : /\ posted' = posted \cup {x}
                  /\ x.to = t.to /\ x.words = t.words /\ x.file = t.file /\ x.away = t.away /\ x.reply = t.reply
    <3>1. PICK ok \in BOOLEAN : C!Posts(t, ok)
      BY <1>3 DEF C!Sent, C!Captioned
    <3> QED
      BY <3>1, PostsIs
  <2> QED
    BY <1>0, <2>1, <2>2 DEF Delivered, Bound
<1> QED
  BY <1>1, <1>2, <1>3

\* No step loses a word that is not excused.
LEMMA KeptStep ==
  ASSUME Shaped, Known, Bound, EditsApart, Kept, Waiting, C!CNext
  PROVE  Kept'
<1> SUFFICES ASSUME NEW w \in typed' \ excused', w.of = None PROVE Somewhere(w)'
  BY DEF Kept
<1>0. /\ w \notin excused /\ None \notin Rooms /\ None \notin C!Msg /\ (editing # None => w \notin text)
      /\ (w \in typed => Somewhere(w)) /\ (chosen = None => text = {} /\ before = {} /\ draft = {} /\ editing = None)
      /\ drafts \in [Rooms -> SUBSET Words] /\ chosen \in Rooms \cup {None}
  BY HistoryStep, InputAssumption DEF EditsApart, Shaped, Kept, Rooms, C!Msg
<1>1. CASE C!Type
  <2>1. /\ UNCHANGED <<drafts, chosen, jobs, posted>> /\ typed' = typed \cup {[n |-> left.words, at |-> chosen, of |-> editing]}
    BY <1>1 DEF C!Type
  <2>2. C!Shows(text \cup {[n |-> left.words, at |-> chosen, of |-> editing]}, editing, draft, {})
    BY <1>1 DEF C!Type
  <2>3. CASE w \in typed
    BY <1>0, <2>1, <2>2, <2>3, ShowsIs DEF Somewhere
  <2>4. CASE w \notin typed
    <3>1. w = [n |-> left.words, at |-> chosen, of |-> editing] /\ editing = None /\ w \notin text
      BY <2>1, <2>4 DEF Known
    <3> QED
      BY <2>2, <3>1, ShowsIs DEF Somewhere
  <2> QED
    BY <2>3, <2>4
<1>2. CASE C!CancelEdit
  <2>1. UNCHANGED <<drafts, chosen, jobs, posted, typed>> /\ (w \in draft => w \in draft')
    BY <1>0, <1>2, ShowsIs DEF C!CancelEdit
  <2> QED
    BY <1>0, <2>1 DEF Somewhere
<1>3. CASE C!SetReplyingTo
  <2>1. UNCHANGED <<drafts, chosen, jobs, posted, typed>> /\ (w \in draft => w \in draft')
    BY <1>0, <1>3, ShowsIs DEF C!SetReplyingTo
  <2> QED
    BY <1>0, <2>1 DEF Somewhere
<1>4. CASE \E m \in C!Msg : C!SetEditing(m)
  <2>1. UNCHANGED <<drafts, chosen, jobs, posted, typed, draft>>
    BY <1>0, <1>4, ShowsIs DEF C!SetEditing
  <2> QED
    BY <1>0, <2>1 DEF Somewhere
<1>5. CASE C!Close
  <2>1. /\ UNCHANGED <<posted, typed>> /\ chosen' = None /\ chosen # None
        /\ \A c \in Rooms : drafts'[c] = IF c = chosen THEN draft ELSE drafts[c]
    BY <1>0, <1>5 DEF C!Close, C!Leaves, C!Mounted
  <2>2. \A u \in jobs : u.kind \in Ways => u \in jobs'
    BY <1>5, WaysStay
  <2> QED
    BY <1>0, <2>1, <2>2 DEF Somewhere
<1>6. ASSUME NEW c \in Rooms, C!SelectChat(c) PROVE Somewhere(w)'
  <2>1. /\ UNCHANGED <<posted, typed>> /\ chosen' = c /\ chosen # c
        /\ \A e \in Rooms : drafts'[e] = IF e = chosen THEN draft ELSE drafts[e]
    BY <1>0, <1>6 DEF C!SelectChat, C!Leaves, C!Mounted
  <2>2. \A u \in jobs : \E v \in jobs' : v.kind = u.kind /\ v.words = u.words
    BY <1>6, SelectedStay
  <2>3. w \in drafts[c] => w \in draft'
    <3>1. CASE C!Mounted
      BY <1>0, <1>6, <3>1, ShowsIs DEF C!SelectChat
    <3>2. CASE ~C!Mounted
      BY <1>6, <3>2 DEF C!SelectChat
    <3> QED
      BY <3>1, <3>2
  <2> QED
    BY <1>0, <2>1, <2>2, <2>3 DEF Somewhere
<1>7. CASE C!SendText \/ C!PickGif
  <2>1. PICK n : jobs' = jobs \cup {n} /\ n.kind \in Ways /\ n.words = text
    BY <1>7, SendIs
  <2>2. /\ UNCHANGED <<chosen, posted, typed>> /\ drafts' = [drafts EXCEPT ![chosen] = {}]
        /\ excused' = excused \cup (draft \ text)
    BY <1>7, SendIs
  <2> QED
    BY <1>0, <2>1, <2>2 DEF Somewhere
<1>8. CASE C!SendEdit \/ C!PickFile
  <2>1. UNCHANGED <<drafts, chosen, draft, posted, typed>> /\ jobs \subseteq jobs'
    BY <1>8, SendEditIs, PickFileIs
  <2> QED
    BY <1>0, <2>1 DEF Somewhere
<1>9. ASSUME NEW t \in jobs, C!Uploaded(t) PROVE Somewhere(w)'
  <2>1. PICK n : /\ jobs' = (jobs \ {t}) \cup {n} /\ n.kind = "caption"
                 /\ n.words = (IF C!Ours(t) THEN text ELSE t.words)
    BY <1>9, UploadedJobs
  <2>2. /\ UNCHANGED <<chosen, posted, typed>> /\ drafts' = [drafts EXCEPT ![chosen] = {}] /\ t.kind = "upload"
    BY <1>9 DEF C!Uploaded, C!SendMessage
  <2>3. excused' = excused \cup (draft \ n.words)
    <3>1. excused' = excused \cup
              (draft \ [t EXCEPT !.kind = "caption", !.words = IF C!Ours(t) THEN text ELSE t.words, !.to = chosen,
                                 !.reply = reply].words)
      BY <1>9 DEF C!Uploaded, C!SendMessage
    <3>2. t \in Jobs
      BY DEF Shaped
    <3> QED
      BY <2>1, <3>1, <3>2, NewWords
  <2> QED
    BY <1>0, <2>1, <2>2, <2>3 DEF Somewhere, Ways
<1>10. ASSUME NEW t \in jobs, C!UploadFails(t) \/ C!NotEdited(t) PROVE Somewhere(w)'
  <2>1. UNCHANGED <<drafts, chosen, draft, posted, typed>> /\ \A u \in jobs : u.kind \in Ways => u \in jobs'
    BY <1>10 DEF C!UploadFails, C!NotEdited, Ways
  <2> QED
    BY <1>0, <2>1 DEF Somewhere
<1>11. ASSUME NEW t \in jobs, C!Sent(t) \/ C!Captioned(t) PROVE Somewhere(w)'
  <2>1. UNCHANGED <<drafts, chosen, typed>>
    BY <1>11 DEF C!Sent, C!Captioned
  <2>2. posted \subseteq posted' /\ (w \in t.words => \E x \in posted' : w \in x.words)
    <3>1. PICK ok \in BOOLEAN : C!Posts(t, ok) /\ C!Unsent(t, ok) \subseteq excused'
      <4>1. CASE C!Sent(t)
        BY <4>1, ShowsIs DEF C!Sent
      <4>2. CASE C!Captioned(t)
        BY <4>2, ShowsIs DEF C!Captioned
      <4> QED
        BY <1>11, <4>1, <4>2
    <3> QED
      BY <3>1, PostsIs DEF C!Unsent
  <2>3. \A u \in jobs \ {t} : u.kind \in Ways => u \in jobs'
    BY <1>11, WaysStay DEF C!Sent
  <2>4. w \in draft => w \in draft' \/ w \in t.words
    <3>1. CASE C!Sent(t)
      <4>1. C!Ours(t) => t.kind = "send" /\ t.input = input /\ (w \in Held => w \in t.words)
        BY <1>0, <3>1 DEF C!Sent, C!Ours, Waiting
      <4> QED
        BY <1>0, <3>1, <4>1, ShowsIs DEF C!Sent, Held
    <3>2. CASE C!Captioned(t)
      BY <1>0, <3>2, ShowsIs DEF C!Captioned
    <3> QED
      BY <1>11, <3>1, <3>2
  <2> QED
    BY <1>0, <2>1, <2>2, <2>3, <2>4 DEF Somewhere
<1>12. ASSUME NEW t \in jobs, C!Edited(t) PROVE Somewhere(w)'
  <2>1. UNCHANGED <<drafts, chosen, posted, typed>> /\ (\A u \in jobs : u.kind \in Ways => u \in jobs') /\ t.m \in C!Msg
    BY <1>12 DEF C!Edited, Ways, Bound
  <2>2. w \in draft => w \in draft'
    <3>1. CASE C!Ours(t)
      <4>1. C!Shows(before, None, draft, IF editing = t.m THEN {} ELSE text)
        BY <1>12, <3>1 DEF C!Edited
      <4>2. editing = None => text \subseteq excused'
        BY <1>0, <2>1, <4>1, ShowsIs
      <4> QED
        BY <1>0, <4>1, <4>2, ShowsIs
    <3>2. CASE C!Mounted /\ ~C!Ours(t)
      BY <1>0, <1>12, <3>2, ShowsIs DEF C!Edited
    <3>3. CASE ~C!Mounted
      BY <1>12, <3>3 DEF C!Edited, C!Ours
    <3> QED
      BY <3>1, <3>2, <3>3
  <2> QED
    BY <1>0, <2>1, <2>2 DEF Somewhere
<1> QED
  BY <1>1, <1>2, <1>3, <1>4, <1>5, <1>6, <1>7, <1>8, <1>9, <1>10, <1>11, <1>12 DEF C!CNext, C!Answers, Rooms

\* While a message is on its way, nothing else gets to where it came from.
LEMMA WaitingStep ==
  ASSUME Shaped, OneAsk, EditsApart, Waiting, C!CNext
  PROVE  Waiting'
<1>0. /\ excused \subseteq excused' /\ None \notin C!Msg /\ (editing # None => \A w \in text : w.of # None)
      /\ \A t \in jobs : t.input <= input /\ t.input \in Nat /\ input \in Nat
  BY HistoryStep, InputAssumption DEF EditsApart, Shaped, Jobs, OneAsk, C!Msg
\* A step that leaves the requests, and nothing new in Held, is one that keeps it.
<1> DEFINE Quiet == /\ \A u \in jobs' : u.kind = "send" => \E v \in jobs : v.kind = "send" /\ v.input = u.input /\ v.words = u.words
                    /\ input' = input
                    /\ \A w \in Held' : w.of = None => w \in Held
<1>q. Quiet => Waiting'
  BY <1>0 DEF Waiting
<1> HIDE DEF Quiet
<1>1. CASE C!Type
  <2>1. \A t \in jobs : ~(t.input = input /\ t.kind = "send")
    BY <1>1 DEF C!Type, C!Busy, C!Ours
  <2> QED
    BY <1>1, <2>1 DEF C!Type, Waiting
<1>2. CASE C!CancelEdit
  BY <1>q, <1>2, ShowsIs DEF C!CancelEdit, Held, Quiet
<1>3. CASE C!SetReplyingTo
  BY <1>0, <1>q, <1>3, ShowsIs DEF C!SetReplyingTo, Held, Quiet
<1>4. CASE \E m \in C!Msg : C!SetEditing(m)
  BY <1>0, <1>q, <1>4, ShowsIs DEF C!SetEditing, Held, Quiet
<1>5. CASE C!Close
  <2>1. Held' = {} /\ input' = input
    BY <1>5 DEF C!Close, Held
  <2> QED
    BY <2>1 DEF Waiting
<1>6. ASSUME NEW c \in Rooms, C!SelectChat(c) PROVE Waiting'
  <2>0. \A u \in jobs' : \E v \in jobs : v.kind = u.kind /\ v.input = u.input /\ v.words = u.words
    BY <1>6, SelectedJobs
  <2>1. CASE C!Mounted
    <3>1. text' = text /\ editing' = None /\ input' = input
      BY <1>6, <2>1, ShowsIs DEF C!SelectChat
    <3> QED
      BY <1>0, <1>q, <2>0, <3>1 DEF Held, Quiet
  <2>2. CASE ~C!Mounted
    <3>1. input' = input + 1
      BY <1>6, <2>2 DEF C!SelectChat
    <3>2. \A u \in jobs' : u.input # input'
      BY <1>0, <2>0, <3>1
    <3> QED
      BY <3>2 DEF Waiting
  <2> QED
    BY <2>1, <2>2
<1>7. CASE C!SendText \/ C!PickGif
  <2>1. PICK n : jobs' = jobs \cup {n} /\ n.words = text /\ (n.kind = "send" => editing = None)
    BY <1>7, SendIs
  <2>2. UNCHANGED <<text, before, editing, input>>
    BY <1>7, SendIs
  <2> QED
    BY <1>0, <2>1, <2>2 DEF Waiting, Held
<1>8. CASE C!SendEdit \/ C!PickFile
  <2>1. UNCHANGED <<text, before, editing, input>> /\ \A u \in jobs' : u.kind = "send" => u \in jobs
    BY <1>8, SendEditIs, PickFileIs
  <2> QED
    BY <1>q, <2>1 DEF Held, Quiet
<1>9. ASSUME NEW t \in jobs, C!Uploaded(t) PROVE Waiting'
  <2>1. UNCHANGED <<text, before, editing, input>> /\ \A u \in jobs' : u.kind = "send" => u \in jobs
    BY <1>9, UploadedJobs DEF C!Uploaded
  <2> QED
    BY <1>q, <2>1 DEF Held, Quiet
<1>10. ASSUME NEW t \in jobs, C!UploadFails(t) \/ C!NotEdited(t) PROVE Waiting'
  <2>1. UNCHANGED <<text, before, editing, input>> /\ jobs' \subseteq jobs
    BY <1>10 DEF C!UploadFails, C!NotEdited
  <2> QED
    BY <1>q, <2>1 DEF Held, Quiet
<1>11. ASSUME NEW t \in jobs, C!Sent(t) PROVE Waiting'
  <2>1. UNCHANGED <<before, editing, input>> /\ text' \in {text, {}} /\ jobs' \subseteq jobs
    BY <1>11, ShowsIs DEF C!Sent
  <2> QED
    BY <1>q, <2>1 DEF Held, Quiet
<1>12. ASSUME NEW t \in jobs, C!Captioned(t) PROVE Waiting'
  <2>1. UNCHANGED <<before, editing, input>> /\ text' \in {text, {}}
    BY <1>12, ShowsIs DEF C!Captioned
  <2>2. \A u \in jobs' : u.kind = "send" => u \in jobs
    BY <1>12, CaptionedJobs
  <2> QED
    BY <1>q, <2>1, <2>2 DEF Held, Quiet
<1>13. ASSUME NEW t \in jobs, C!Edited(t) PROVE Waiting'
  <2>1. t.kind = "edit" /\ input' = input /\ jobs' \subseteq jobs
    BY <1>13 DEF C!Edited
  <2>2. CASE C!Ours(t)
    <3>1. \A u \in jobs : ~(u.kind = "send" /\ u.input = input)
      BY <2>1, <2>2 DEF OneAsk, C!Ours, Asks
    <3> QED
      BY <2>1, <3>1 DEF Waiting
  <2>3. CASE C!Mounted /\ ~C!Ours(t)
    <3>1. text' = text /\ editing' = None
      BY <1>13, <2>3, ShowsIs DEF C!Edited
    <3> QED
      BY <1>0, <1>q, <2>1, <3>1 DEF Held, Quiet
  <2>4. CASE ~C!Mounted
    <3>1. UNCHANGED <<text, editing, before>>
      BY <1>13, <2>4 DEF C!Edited, C!Ours
    <3> QED
      BY <1>q, <2>1, <3>1 DEF Held, Quiet
  <2> QED
    BY <2>2, <2>3, <2>4
<1> QED
  BY <1>1, <1>2, <1>3, <1>4, <1>5, <1>6, <1>7, <1>8, <1>9, <1>10, <1>11, <1>12, <1>13 DEF C!CNext, C!Answers, Rooms
-----------------------------------------------------------------------------
\* At the start nothing is typed and no chat is open.
LEMMA InputStart == C!CInit => InputInv
<1> SUFFICES ASSUME C!CInit PROVE InputInv
  OBVIOUS
<1>1. left \in Bounds
  BY DEF C!CInit, InputLimits, Types, Bounds
<1>2. Shaped
  BY <1>1 DEF C!CInit, Shaped, Rooms
<1>3. Known /\ OneAsk /\ Bound /\ EditsApart /\ Local /\ Once /\ Kept /\ Waiting /\ Delivered
  BY InputAssumption DEF C!CInit, Known, OneAsk, Bound, EditsApart, Local, Once, Kept, Waiting, Delivered, Rooms
<1> QED
  BY <1>2, <1>3 DEF InputInv

\* Each step keeps each part, and so do all of a behaviour about the input.
LEMMA InputStep == InputInv /\ C!CNext => InputInv'
BY ShapedStep, KnownStep, OneAskStep, BoundStep, EditsApartStep, LocalStep, OnceStep, KeptStep, WaitingStep, DeliveredStep
   DEF InputInv

LEMMA InputHolds == MCSpec => [](part = "input" => InputInv)
<1>1. MCInit => (part = "input" => InputInv)
  BY InputStart DEF MCInit
<1>2. (part = "input" => InputInv) /\ [MCNext]_all => (part = "input" => InputInv)'
  <2> SUFFICES ASSUME part = "input" => InputInv, [MCNext]_all, part' = "input" PROVE InputInv'
    OBVIOUS
  <2>1. CASE MCNext
    <3>1. part = "input" /\ C!CNext
      BY <2>1 DEF MCNext
    <3> QED
      BY <3>1, InputStep
  <2>2. CASE UNCHANGED all
    BY <2>2 DEF all, typing, InputInv, Shaped, Known, OneAsk, Bound, EditsApart, Local, Once, Single, Kept, Somewhere, Waiting,
       Held, Delivered
  <2> QED
    BY <2>1, <2>2
<1>3. MCSpec => MCInit /\ [][MCNext]_all
  BY PTL DEF MCSpec
<1> QED
  BY <1>1, <1>2, <1>3, PTL

\* What is typed below a chat is kept until it is sent, is sent once and to the
\* chat it was typed for, changes a message only in that message's edit, and a
\* reply or a file goes to its own chat: ChatInput.svelte and chat.svelte.js, with
\* requests, moves between chats and edits in any order.
THEOREM TypingInOrderHolds == MCSpec => []TypingInOrder
<1>1. InputInv => C!NothingTypedIsLost
  BY DEF InputInv, Kept, Somewhere, C!NothingTypedIsLost, C!InFlight, Rooms
<1>2. InputInv => C!SentOnce
  BY DEF InputInv, Known, Once, Single, Delivered, C!SentOnce
<1>3. InputInv => C!EditsStay
  BY DEF InputInv, EditsApart, C!EditsStay
<1>4. InputInv => C!BelongsToItsChat
  BY DEF InputInv, Delivered, C!BelongsToItsChat
<1>5. (part = "input" => InputInv) => TypingInOrder
  BY <1>1, <1>2, <1>3, <1>4 DEF TypingInOrder
<1> QED
  BY <1>5, InputHolds, PTL
=============================================================================

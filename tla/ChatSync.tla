------------------------------ MODULE ChatSync ------------------------------
(* The open chat of one device against the server's rows: a direct chat and a  *)
(* group with the same peer. The server stores a message, pushes it and counts *)
(* it as separate calls (src/src/helpers/chatSend.js); the client merges live  *)
(* pushes with the answers of /chat/list and /chat/unread, which it awaits     *)
(* (src/frontend/src/stores/chat.svelte.js, inbox.svelte.js, App.svelte).      *)
EXTENDS FiniteSets, Naturals, Sequences

CONSTANTS MaxMsgs,   \* bound: messages of a behaviour
          Page,      \* rows a /chat/list returns
          MaxActs,   \* bound: things users and the network begin
          None

VARIABLES about,     \* id -> [chat, from], None before it is written
          done,      \* id -> which of "store", "push", "count" happened
          gone,      \* ids deleted at the server
          counter,   \* unread_counters of this user, per chat
          link,      \* open sockets of this device
          wire,      \* events on their way to it
          sel,       \* _selectedChat
          shown,     \* id -> number of its entries in _messages
          temp,      \* own messages shown under their temporary id
          unread,    \* _unreadCounts
          fetch,     \* requests in flight
          undo,      \* list kept by deleteMessage for its rollback
          seen,      \* ids shown at some time
          uncounted, \* ids whose counter was reset by an answer without them, or whose answer was not used
          missed,    \* ids that a lost push, an overwritten list or a left chat took from the view
          strayed,   \* an answer was applied to another chat's list
          acts

rows == <<about, done, gone>>
view == <<sel, shown, temp>>
ghost == <<seen, uncounted, missed, strayed>>
vars == <<rows, counter, link, wire, view, unread, fetch, undo, ghost>>

Ids == 1..MaxMsgs
Chats == {"dm", "group"}
Slots == 1..2

ASSUME SyncAssumption ==
  /\ MaxMsgs \in Nat /\ Page \in Nat \ {0}
  /\ None \notin Chats \cup [chat : Chats, from : {"peer", "here", "there"}]

Idle == [kind |-> "idle", chat |-> None, st |-> "idle", got |-> {}]
NoUndo == [id |-> 0, chat |-> None, shown |-> [i \in Ids |-> 0], temp |-> {}]

Written(i) == about[i] # None
Stored(c) == {i \in Ids : Written(i) /\ about[i].chat = c /\ "store" \in done[i]} \ gone
News(c) == {i \in Ids : Written(i) /\ about[i] = [chat |-> c, from |-> "peer"] /\ "count" \in done[i]}
(* ORDER BY ts DESC LIMIT                                                      *)
Newest_Oldest(S) == {i \in S : Cardinality({j \in S : j < i}) < Page}         \* slip
Newest(S) == {i \in S : Cardinality({j \in S : j > i}) < Page}

Init == /\ about = [i \in Ids |-> None] /\ done = [i \in Ids |-> {}] /\ gone = {}
        /\ counter = [c \in Chats |-> 0]
        /\ link = 1 /\ wire = <<>>
        /\ sel = None /\ shown = [i \in Ids |-> 0] /\ temp = {}
        /\ unread = [c \in Chats |-> 0]
        /\ fetch = [s \in Slots |-> Idle] /\ undo = NoUndo
        /\ seen = {} /\ uncounted = {} /\ missed = {} /\ strayed = FALSE
        /\ acts = 0

(***************************************************************************)
(* The server                                                              *)
(***************************************************************************)
(* The device of the peer, or another device of this user, posts a message.   *)
Write(c, who) == \E i \in Ids :
  /\ \A j \in Ids : j < i <=> Written(j)
  /\ about' = [about EXCEPT ![i] = [chat |-> c, from |-> who]]
  /\ UNCHANGED <<done, gone, counter, link, wire, view, unread, fetch, undo, ghost>>

Event(kind, i) == wire \o [n \in 1..link |-> [kind |-> kind, id |-> i]]
(* A group's push leaves out the sender's own devices.                         *)
Reaches(i) == about[i].from = "peer" \/ about[i].chat = "dm"

Store(i) == /\ Written(i) /\ done[i] \ {"answer"} = {}
            /\ done' = [done EXCEPT ![i] = {"store"}]
            /\ UNCHANGED <<about, gone, counter, link, wire, view, unread, fetch, undo, ghost>>

(* A direct message is pushed before it is counted; the push of a group message*)
(* is left to the background, after the count.                                 *)
Push(i) == /\ Written(i) /\ done[i] \ {"answer"} = IF about[i].chat = "dm" THEN {"store"} ELSE {"store", "count"}
           /\ done' = [done EXCEPT ![i] = @ \cup {"push"}]
           /\ wire' = IF Reaches(i) THEN Event("message", i) ELSE wire
           /\ missed' = IF Reaches(i) /\ link > 0 THEN missed ELSE missed \cup {i}
           /\ UNCHANGED <<about, gone, counter, link, view, unread, fetch, undo, seen, uncounted, strayed>>

Count(i) == /\ Written(i) /\ done[i] \ {"answer"} = IF about[i].chat = "dm" THEN {"store", "push"} ELSE {"store"}
            /\ done' = [done EXCEPT ![i] = @ \cup {"count"}]
            /\ counter' = IF about[i].from = "peer" THEN [counter EXCEPT ![about[i].chat] = @ + 1] ELSE counter
            /\ UNCHANGED <<about, gone, link, wire, view, unread, fetch, undo, ghost>>

(* /chat/message/delete, by the author, who knows the id from the answer.      *)
PeerDeletes(i) == /\ Written(i) /\ about[i].from # "here" /\ "count" \in done[i] /\ i \notin gone
                  /\ gone' = gone \cup {i}
                  /\ wire' = Event("deleted", i)
                  /\ UNCHANGED <<about, done, counter, link, view, unread, fetch, undo, ghost>>

(* The socket drops, comes back, or a second one is opened beside it (WsLink). *)
LinkTo(n) == /\ link # n /\ link' = n
             /\ wire' = IF n = 0 THEN <<>> ELSE wire
             /\ missed' = IF n = 0 THEN missed \cup {wire[k].id : k \in DOMAIN wire} ELSE missed
             /\ UNCHANGED <<rows, counter, view, unread, fetch, undo, seen, uncounted, strayed>>

(***************************************************************************)
(* The client: live events                                                 *)
(***************************************************************************)
(* receiveMessage: a direct chat looks only at the peer's name, not at groupId.*)
IsCurrent(i) == \/ sel = "dm" /\ (about[i].from = "peer" \/ about[i].chat = "dm")
                \/ sel = "group" /\ about[i].chat = "group"

Incoming == wire # <<>> /\ wire' = Tail(wire)

Receive ==
  LET i == Head(wire).id IN
  /\ Incoming /\ Head(wire).kind = "message"
  /\ IF about[i].from = "here" \/ shown[i] > 0 THEN UNCHANGED <<shown, unread, seen>>
     ELSE /\ shown' = IF IsCurrent(i) THEN [shown EXCEPT ![i] = 1] ELSE shown
          /\ seen' = IF IsCurrent(i) THEN seen \cup {i} ELSE seen
          /\ unread' = IF IsCurrent(i) \/ about[i].from # "peer" THEN unread
                       ELSE [unread EXCEPT ![about[i].chat] = @ + 1]
  /\ missed' = IF shown'[i] > 0 THEN missed \ {i} ELSE missed
  /\ UNCHANGED <<rows, counter, link, sel, temp, fetch, undo, uncounted, strayed>>

ReceiveDelete ==
  /\ Incoming /\ Head(wire).kind = "deleted"
  /\ shown' = [shown EXCEPT ![Head(wire).id] = 0]
  /\ UNCHANGED <<rows, counter, link, sel, temp, unread, fetch, undo, ghost>>

(***************************************************************************)
(* The client: reading                                                     *)
(***************************************************************************)
Ask(kind, c) == \E s \in Slots : /\ fetch[s] = Idle /\ \A t \in Slots : t < s => fetch[t] # Idle
                                 /\ fetch' = [fetch EXCEPT ![s] = [Idle EXCEPT !.kind = kind, !.chat = c, !.st = "sent"]]

SelectChat(c) == /\ sel # c
                 /\ sel' = c /\ shown' = [i \in Ids |-> 0] /\ temp' = {}
                 /\ missed' = missed \cup {i \in Ids : shown[i] > 0} \cup temp
                 /\ IF c = None THEN UNCHANGED <<fetch, unread>>
                    ELSE Ask("select", c) /\ unread' = [unread EXCEPT ![c] = 0]
                 /\ UNCHANGED <<rows, counter, link, wire, undo, seen, uncounted, strayed>>

(* The app comes to the foreground: refreshSelected and loadUnread.            *)
Resume == /\ sel # None /\ \A s \in Slots : fetch[s] = Idle
          /\ fetch' = [fetch EXCEPT ![1] = [Idle EXCEPT !.kind = "refresh", !.chat = sel, !.st = "sent"],
                                    ![2] = [Idle EXCEPT !.kind = "unread", !.st = "sent"]]
          /\ UNCHANGED <<rows, counter, link, wire, view, unread, undo, ghost>>

(* /chat/list: the rows are read and then the counter deleted.                 *)
Read(s) == /\ fetch[s].st = "sent" /\ fetch[s].kind # "unread"
           /\ fetch' = [fetch EXCEPT ![s].st = "read", ![s].got = Newest(Stored(fetch[s].chat))]
           /\ UNCHANGED <<rows, counter, link, wire, view, unread, undo, ghost>>

Without_AllChats(c) == [d \in Chats |-> 0]                                     \* slip
Without(c) == [counter EXCEPT ![c] = 0]
Reset(s) == /\ fetch[s].st = "read"
            /\ counter' = Without(fetch[s].chat)
            /\ fetch' = [fetch EXCEPT ![s].st = "back"]
            /\ uncounted' = uncounted \cup (News(fetch[s].chat) \ fetch[s].got)
            /\ UNCHANGED <<rows, link, wire, view, unread, undo, seen, missed, strayed>>

ReadUnread(s) == /\ fetch[s].st = "sent" /\ fetch[s].kind = "unread"
                 /\ fetch' = [fetch EXCEPT ![s].st = "back", ![s].got = counter]
                 /\ UNCHANGED <<rows, counter, link, wire, view, unread, undo, ghost>>

Answered(s, kind) == /\ fetch[s].kind = kind /\ fetch[s].st = "back"
                     /\ fetch' = [fetch EXCEPT ![s] = Idle]

(* selectChat overwrites the list without looking at the selection again.      *)
ListSelected(s) ==
  LET got == fetch[s].got  lost == {i \in Ids : shown[i] > 0} \cup temp IN
  /\ Answered(s, "select")
  /\ shown' = [i \in Ids |-> IF i \in got THEN 1 ELSE 0] /\ temp' = {}
  /\ seen' = IF sel = None THEN seen ELSE seen \cup got
  /\ uncounted' = IF sel = None THEN uncounted \cup got ELSE uncounted
  /\ missed' = (missed \cup lost) \ (IF sel = fetch[s].chat THEN got ELSE {})
  /\ strayed' = (strayed \/ sel # fetch[s].chat)
  /\ UNCHANGED <<rows, counter, link, wire, sel, unread, undo>>

Merged(got) == [i \in Ids |-> IF i \in got /\ shown[i] = 0 THEN 1 ELSE shown[i]]
ListRefreshed(s) ==
  LET got == fetch[s].got IN
  /\ Answered(s, "refresh")
  /\ IF sel = fetch[s].chat
     THEN /\ shown' = Merged(got) /\ unread' = [unread EXCEPT ![sel] = 0]
          /\ seen' = seen \cup got /\ missed' = missed \ got /\ UNCHANGED uncounted
     ELSE /\ uncounted' = uncounted \cup got /\ UNCHANGED <<shown, unread, seen, missed>>
  /\ UNCHANGED <<rows, counter, link, wire, sel, temp, undo, strayed>>

UnreadLoaded(s) == /\ Answered(s, "unread") /\ unread' = fetch[s].got
                   /\ UNCHANGED <<rows, counter, link, wire, view, undo, ghost>>

(* A request fails on its way (also the limit of 15 lists), or its answer does;*)
(* selectChat then shows an empty list.                                        *)
Fail(s) ==
  /\ fetch[s].st \in {"sent", "back"} /\ fetch' = [fetch EXCEPT ![s] = Idle]
  /\ uncounted' = IF fetch[s].kind = "unread" THEN uncounted ELSE uncounted \cup fetch[s].got
  /\ IF fetch[s].kind = "select"
     THEN /\ shown' = [i \in Ids |-> 0] /\ temp' = {}
          /\ missed' = missed \cup Stored(fetch[s].chat) \cup {i \in Ids : shown[i] > 0} \cup temp
     ELSE UNCHANGED <<shown, temp, missed>>
  /\ UNCHANGED <<rows, counter, link, wire, sel, unread, undo, seen, strayed>>

(***************************************************************************)
(* The client: writing                                                     *)
(***************************************************************************)
(* The id is the server's; until the answer the entry has a temporary one.     *)
SendMessage == \E i \in Ids :
  /\ sel # None /\ \A j \in Ids : j < i <=> Written(j)
  /\ about' = [about EXCEPT ![i] = [chat |-> sel, from |-> "here"]]
  /\ temp' = temp \cup {i}
  /\ UNCHANGED <<done, gone, counter, link, wire, sel, shown, unread, fetch, undo, ghost>>

(* The answer replaces the temporary entry if the list still has it; a second  *)
(* entry with the server's id is not looked for.                               *)
Sent(i) == /\ Written(i) /\ about[i].from = "here" /\ "answer" \notin done[i]
           /\ {"store", "count"} \subseteq done[i] /\ (about[i].chat = "dm" => "push" \in done[i])
           /\ done' = [done EXCEPT ![i] = @ \cup {"answer"}]
           /\ temp' = temp \ {i}
           /\ shown' = IF i \in temp THEN [shown EXCEPT ![i] = @ + 1] ELSE shown
           /\ missed' = IF shown'[i] > 0 THEN missed \ {i} ELSE missed \cup {i}
           /\ UNCHANGED <<about, gone, counter, link, wire, sel, unread, fetch, undo, seen, uncounted, strayed>>

(* The answer is lost: the entry stays, marked as failed, under its temporary  *)
(* id, although the message is stored.                                         *)
SendFails(i) == /\ Written(i) /\ about[i].from = "here" /\ "answer" \notin done[i] /\ "store" \in done[i]
                /\ done' = [done EXCEPT ![i] = @ \cup {"answer"}]
                /\ missed' = IF shown[i] > 0 THEN missed ELSE missed \cup {i}
                /\ UNCHANGED <<about, gone, counter, link, wire, view, unread, fetch, undo, seen, uncounted, strayed>>

(* deleteMessage: the entry goes at once and the list comes back if the request*)
(* fails, as it was.                                                           *)
DeleteMessage == \E i \in Ids :
  /\ undo = NoUndo /\ shown[i] > 0 /\ about[i].from # "peer"
  /\ undo' = [id |-> i, chat |-> sel, shown |-> shown, temp |-> temp]
  /\ shown' = [shown EXCEPT ![i] = 0]
  /\ UNCHANGED <<rows, counter, link, wire, sel, temp, unread, fetch, ghost>>

Deleted == /\ undo # NoUndo
           /\ gone' = gone \cup {undo.id} /\ wire' = Event("deleted", undo.id)
           /\ undo' = NoUndo
           /\ UNCHANGED <<about, done, counter, link, view, unread, fetch, ghost>>

DeleteFails == /\ undo # NoUndo /\ undo' = NoUndo
               /\ shown' = undo.shown /\ temp' = undo.temp
               /\ missed' = (missed \cup {i \in Ids : shown[i] > 0 /\ undo.shown[i] = 0} \cup (temp \ undo.temp))
                             \ {i \in Ids : undo.shown[i] > 0}
               /\ strayed' = (strayed \/ undo.chat # sel)
               /\ UNCHANGED <<rows, counter, link, wire, sel, unread, fetch, seen, uncounted>>

Begin == \/ \E c \in Chats, who \in {"peer", "there"} : Write(c, who)
         \/ SendMessage \/ DeleteMessage \/ Resume
         \/ \E i \in Ids : PeerDeletes(i)
         \/ \E n \in 0..2 : LinkTo(n)
         \/ \E c \in Chats \cup {None} : SelectChat(c)

Continue == \/ \E i \in Ids : Store(i) \/ Push(i) \/ Count(i) \/ Sent(i) \/ SendFails(i)
            \/ Receive \/ ReceiveDelete \/ Deleted \/ DeleteFails
            \/ \E s \in Slots : \/ Read(s) \/ Reset(s) \/ ReadUnread(s)
                                  \/ ListSelected(s) \/ ListRefreshed(s) \/ UnreadLoaded(s) \/ Fail(s)

Next == \/ acts < MaxActs /\ acts' = acts + 1 /\ Begin
        \/ Continue /\ UNCHANGED acts

Spec == Init /\ [][Next]_<<vars, acts>>

(***************************************************************************)
(* Properties                                                              *)
(***************************************************************************)
(* Shapes; a list has at most two entries of one message.                      *)
TypeOK == /\ \A i \in Ids : about[i] # None => about[i] \in [chat : Chats, from : {"peer", "here", "there"}]
          /\ done \in [Ids -> SUBSET {"store", "push", "count", "answer"}] /\ gone \subseteq Ids
          /\ counter \in [Chats -> 0..MaxMsgs] /\ unread \in [Chats -> 0..3 * MaxMsgs]
          /\ shown \in [Ids -> 0..2] /\ temp \subseteq Ids

AtRest == /\ wire = <<>> /\ undo = NoUndo /\ \A s \in Slots : fetch[s] = Idle
          /\ \A i \in Ids : Written(i) => {"store", "push", "count"} \subseteq done[i]
                                         /\ (about[i].from = "here" => "answer" \in done[i])

(* A message of the peer that this user has never seen is counted as unread,   *)
(* so that the badge shows it after a reload, unless a /chat/list reset the    *)
(* counter without it, or the client did not use that answer.                  *)
NoSilentLoss == AtRest =>
  \A c \in Chats : \A i \in News(c) \ (gone \cup seen \cup uncounted) : counter[c] > 0

(* At rest the open chat shows every stored message of its last page (deleted  *)
(* ones counted), except those that a lost push, an overwritten list or a left *)
(* chat took from it: no order of pushes and answers alone hides one for good. *)
MissingHasACause == AtRest /\ sel # None =>
  \A i \in Stored(sel) : \/ shown[i] > 0 \/ i \in missed
                         \/ Cardinality({j \in Ids : j > i /\ Written(j) /\ about[j].chat = sel}) >= Page

(* A list shows messages of the open chat only, except for an answer that was  *)
(* applied to another chat, and for group messages in the chat with their      *)
(* sender; and it shows twice only what was sent from this device, which a     *)
(* refresh brings before the answer to the send does.                          *)
ShownHasACause == \A i \in Ids :
  /\ shown[i] > 0 /\ about[i].chat # sel => strayed \/ (sel = "dm" /\ about[i].from = "peer")
  /\ shown[i] + (IF i \in temp THEN 1 ELSE 0) > 1 => about[i].from = "here"

(* The comment of receiveMessage (chat.svelte.js): no id is in the list twice. *)
(* It does not hold.                                                           *)
NoIdTwice == \A i \in Ids : shown[i] <= 1
(* Both of them: what is missing and what is shown.                            *)
ViewHasACause == MissingHasACause /\ ShownHasACause
=============================================================================

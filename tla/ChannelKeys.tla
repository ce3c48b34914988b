---------------------------- MODULE ChannelKeys ----------------------------
(* The sender keys of one channel of a server when members go: App.svelte's    *)
(* serverMemberRemovedHandler collects departures, waits between half a second *)
(* and five, asks the server who remains and gives a new key to them. It knows *)
(* the channels only from servers opened since the app was started.            *)
EXTENDS Naturals, FiniteSets, Sequences, TLC

CONSTANTS User, None, Limits

VARIABLES
  inside, viewers,  \* members of the server; those of them who may see the channel
  online, visited,  \* who is connected; whose app has seen the channel
  mine, holders,    \* each user's own key (0: none); who was given each key made
  due,              \* departures on their way to a user
  batch,            \* those her timer is running for
  pass,             \* her rotation under way
  left,             \* what may still happen
  blame             \* why a departure did not change her key

ckeys == <<inside, viewers, online, visited, mine, holders, due, batch, pass, left, blame>>
Passes == [at : {"ask", "make", "post"}, gone : SUBSET User, to : SUBSET User, key : Nat]

KTypeOK ==
  /\ viewers \subseteq inside /\ inside \subseteq User /\ online \subseteq User
  /\ holders \in Seq(SUBSET User) /\ mine \in [User -> 0..Len(holders)] /\ pass \in [User -> Passes \union {None}]
  /\ \A u \in User : due[u] \subseteq User /\ batch[u] \subseteq User

(* Two of the members have written in the channel, all of them can read it.    *)
KInit ==
  \E a, b \in User :
    /\ a # b /\ inside = User /\ viewers = User /\ online = User
    /\ visited \in {{a, b}, {a}} /\ mine = [u \in User |-> IF u = a THEN 1 ELSE IF u = b THEN 2 ELSE 0]
    /\ holders = <<User, User>>
    /\ due = [u \in User |-> {}] /\ batch = due /\ pass = [u \in User |-> None]
    /\ left \in Limits /\ blame = [u \in User |-> {}]

Spend(k) == left[k] > 0 /\ left' = [left EXCEPT ![k] = @ - 1]
Blaming(U, w) == blame' = [u \in User |-> IF u \in U THEN blame[u] \union {w} ELSE blame[u]]
Keyed == {u \in User : mine[u] # 0}

(* A departure is pushed to those who remain, a kick or a ban to the one       *)
(* removed as well; someone who is not connected never hears of it.            *)
Departs(h, told) ==
  /\ h \in inside /\ Spend("changes") /\ inside' = inside \ {h} /\ viewers' = viewers \ {h}
  /\ due' = [u \in User |-> IF u \in told \intersect online THEN due[u] \union {h} ELSE due[u]]
  /\ Blaming((inside \intersect Keyed) \ (told \intersect online), "untold")
  /\ UNCHANGED <<online, visited, mine, holders, batch, pass>>
leaveServer(h) == Departs(h, inside \ {h})
kickOrBan(h) == Departs(h, inside)

(* Whoever comes back sees the channel; the others give her no key unasked.    *)
join(h) ==
  /\ h \notin inside /\ Spend("changes") /\ inside' = inside \union {h} /\ viewers' = viewers \union {h}
  /\ UNCHANGED <<online, visited, mine, holders, due, batch, pass, blame>>

(* An override or a role takes the channel away: its keys stay as they are.    *)
Hide(h) ==
  /\ h \in viewers /\ Spend("changes") /\ viewers' = viewers \ {h}
  /\ Blaming(Keyed, "hidden")
  /\ UNCHANGED <<inside, online, visited, mine, holders, due, batch, pass>>

(* The connection goes; or the app is closed, with its timers and requests.    *)
Disconnect(u) ==
  /\ u \in online /\ Spend("trips") /\ online' = online \ {u}
  /\ due' = [due EXCEPT ![u] = {}]
  /\ Blaming(IF due[u] # {} /\ mine[u] # 0 THEN {u} ELSE {}, "untold")
  /\ UNCHANGED <<inside, viewers, visited, mine, holders, batch, pass>>
CloseApp(u) ==
  /\ Spend("trips") /\ online' = online \ {u} /\ visited' = visited \ {u}
  /\ due' = [due EXCEPT ![u] = {}] /\ batch' = [batch EXCEPT ![u] = {}] /\ pass' = [pass EXCEPT ![u] = None]
  /\ Blaming(IF (due[u] # {} \/ batch[u] # {} \/ pass[u] # None) /\ mine[u] # 0 THEN {u} ELSE {}, "closed")
  /\ UNCHANGED <<inside, viewers, mine, holders>>
Connect(u) ==
  /\ u \notin online /\ online' = online \union {u}
  /\ UNCHANGED <<inside, viewers, visited, mine, holders, due, batch, pass, left, blame>>

Visit(u) ==
  /\ u \in (viewers \intersect online) \ visited /\ visited' = visited \union {u}
  /\ UNCHANGED <<inside, viewers, online, mine, holders, due, batch, pass, left, blame>>

(* One's own departure drops the keys of the channels one has seen; another's  *)
(* joins the batch of the timer, which it starts.                              *)
Drop(u) == IF u \in visited THEN mine' = [mine EXCEPT ![u] = 0] /\ blame' = [blame EXCEPT ![u] = {}]
           ELSE UNCHANGED mine /\ Blaming({u} \intersect Keyed, "unseen")
Hear(u, h) ==
  /\ h \in due[u] /\ due' = [due EXCEPT ![u] = @ \ {h}]
  /\ IF h = u THEN Drop(u) /\ UNCHANGED batch
     ELSE batch' = [batch EXCEPT ![u] = @ \union {h}] /\ UNCHANGED <<mine, blame>>
  /\ UNCHANGED <<inside, viewers, online, visited, holders, pass, left>>

(* The timer forgets the batch; without a key in a channel seen it stops here. *)
Fire(u) ==
  /\ batch[u] # {} /\ batch' = [batch EXCEPT ![u] = {}]
  /\ IF u \in visited /\ mine[u] # 0
     THEN pass' = [pass EXCEPT ![u] = [at |-> "ask", gone |-> batch[u], to |-> {}, key |-> 0]] /\ UNCHANGED blame
     ELSE UNCHANGED pass /\ Blaming({u} \intersect Keyed, "unseen")
  /\ UNCHANGED <<inside, viewers, online, visited, mine, holders, due, left>>

(* The members and the channels she may see; a failure ends it for good.       *)
Recipients(u, gone) == inside \ (gone \union {u})
Asked(u) ==
  /\ pass[u] # None /\ pass[u].at = "ask"
  /\ IF u \in viewers /\ mine[u] # 0
     THEN /\ pass' = [pass EXCEPT ![u] = [at |-> "make", gone |-> @.gone, to |-> Recipients(u, @.gone), key |-> 0]]
          /\ UNCHANGED blame
     ELSE pass' = [pass EXCEPT ![u] = None] /\ Blaming({u} \intersect Keyed, "shut out")
  /\ UNCHANGED <<inside, viewers, online, visited, mine, holders, due, batch, left>>
AskFails(u) ==
  /\ pass[u] # None /\ pass[u].at = "ask" /\ Spend("trips")
  /\ pass' = [pass EXCEPT ![u] = None] /\ Blaming({u} \intersect Keyed, "failed")
  /\ UNCHANGED <<inside, viewers, online, visited, mine, holders, due, batch>>

(* rotateMyGSK makes the key and posts it; the server passes it on to those    *)
(* who may see the channel when it comes.                                      *)
Made(u) ==
  /\ pass[u] # None /\ pass[u].at = "make"
  /\ holders' = Append(holders, {u}) /\ mine' = [mine EXCEPT ![u] = Len(holders')]
  /\ pass' = [pass EXCEPT ![u] = [at |-> "post", gone |-> @.gone, to |-> @.to, key |-> Len(holders')]]
  /\ blame' = [blame EXCEPT ![u] = {}]
  /\ UNCHANGED <<inside, viewers, online, visited, due, batch, left>>
\* Slip: the key goes to all it is addressed to.
PassedOn_Anyone(u, to) == to
PassedOn(u, to) == IF u \in viewers THEN to \intersect viewers ELSE {}
Posted(u) ==
  /\ pass[u] # None /\ pass[u].at = "post" /\ pass' = [pass EXCEPT ![u] = None]
  /\ holders' = [holders EXCEPT ![pass[u].key] = @ \union PassedOn(u, pass[u].to)]
  /\ UNCHANGED <<inside, viewers, online, visited, mine, due, batch, left, blame>>

(* Who reads a message without the writer's key asks for it, and gets it.      *)
Ask(d, u) ==
  /\ d # u /\ {d, u} \subseteq viewers \intersect online /\ mine[u] # 0 /\ d \notin holders[mine[u]]
  /\ holders' = [holders EXCEPT ![mine[u]] = @ \union {d}]
  /\ UNCHANGED <<inside, viewers, online, visited, mine, due, batch, pass, left, blame>>

(* Who has no key makes one with the first message and gives it to all viewers.*)
FirstMessage(u) ==
  /\ u \in viewers \intersect online /\ u \in visited /\ mine[u] = 0 /\ Spend("changes")
  /\ holders' = Append(holders, viewers) /\ mine' = [mine EXCEPT ![u] = Len(holders')]
  /\ blame' = [blame EXCEPT ![u] = {}]
  /\ UNCHANGED <<inside, viewers, online, visited, due, batch, pass>>

KNext ==
  \E u \in User :
    \/ leaveServer(u) \/ kickOrBan(u) \/ join(u) \/ Hide(u) \/ Disconnect(u) \/ CloseApp(u) \/ Connect(u)
    \/ Visit(u) \/ Fire(u) \/ Asked(u) \/ AskFails(u) \/ Made(u) \/ Posted(u) \/ FirstMessage(u)
    \/ \E h \in User : Hear(u, h) \/ Ask(h, u)

(* Once nothing is under way for a member's app, nobody who has gone from the  *)
(* channel holds the key she writes with, unless her app was not told, was     *)
(* closed or refused the list before the rotation, had not opened the server   *)
(* since it was started, or the channel was only hidden from the one who went. *)
GoneCannotRead ==
  \A u \in viewers :
    mine[u] # 0 /\ due[u] = {} /\ batch[u] = {} /\ pass[u] = None /\ blame[u] = {}
      => holders[mine[u]] \subseteq viewers
=============================================================================

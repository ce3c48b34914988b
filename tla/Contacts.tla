------------------------------ MODULE Contacts ------------------------------
(***************************************************************************)
(* Two users as each other's contacts.  The server keeps a row per         *)
(* direction and changes them by requests of several statements            *)
(* (contactRoutes.js).  Each user's list is loaded again after a push or   *)
(* an answer, through the browser's cache, which a version token           *)
(* invalidates that a change bumps as its last step (utils.js,             *)
(* inbox.svelte.js, App.svelte).                                           *)
(***************************************************************************)
EXTENDS Integers, FiniteSets

CONSTANTS
  User,      \* the two users, each with one client
  Call,      \* requests the server may be serving at once
  Limits,    \* bounds, a set of [changes, expiries, trips], of which a run has one
  NoCall     \* no request

Peer(u) == CHOOSE v \in User : v # u
Status == {"none", "in", "out", "accepted", "removed", "rejected"}
Change == {"request", "accept", "reject", "remove", "cancel"}

VARIABLES
  row,      \* row[u]: status and direction of the peer in u's row
  version,  \* version[u]: KV contacts_v:<u>, 0 when absent
  stamps,   \* the last time written to a version
  call,     \* call[c]: the requests under way
  list,     \* list[u]: what u's screen shows of the peer
  cached,   \* cached[u]: the browser's copy of the last full answer
  due,      \* due[u]: loads u's client still has to start
  online,   \* users whose client runs
  left,     \* what is left of the bounds
  asked,    \* history: users who asked or agreed since the last break
  crossed,  \* history: a change wrote over rows it had not seen, or broke off
  alone,    \* history: a request was agreed to by the user who had made it
  blind     \* history: blind[u], why u's list may be behind

cvars == <<row, version, stamps, call, list, cached, due, online, left, asked, crossed, alone, blind>>

Free == [op |-> NoCall, pc |-> "free", me |-> NoCall, seen |-> NoCall, tag |-> 0, copy |-> "none"]
NoCopy == [tag |-> -1, row |-> "none"]

\* Strangers, or contacts of each other.
CInit ==
  /\ \E s \in {"none", "accepted"} :
       /\ row = [u \in User |-> s] /\ list = row
       /\ asked = IF s = "none" THEN {} ELSE User
  /\ version = [u \in User |-> 0] /\ stamps = 0
  /\ call = [c \in Call |-> Free]
  /\ cached = [u \in User |-> NoCopy]
  /\ due = [u \in User |-> 0] /\ online = User
  /\ left \in Limits
  /\ crossed = FALSE /\ alone = FALSE /\ blind = [u \in User |-> {}]

Me(c) == call[c].me
You(c) == Peer(call[c].me)
Is(c, op, pc) == call[c].op = op /\ call[c].pc = pc
Hang(c) == call' = [call EXCEPT ![c] = Free]

Second == {"agree2", "again2", "first2", "accept2", "reject2", "remove2", "cancel2"}
\* A change that wrote its first row and has not bumped the versions yet.
Writing(c) == call[c].pc \in Second \union {"push", "bump", "quiet"}
\* The statement meets other rows than its request has seen, or the halves of another.
Excused(c) ==
  crossed' = (crossed \/ IF call[c].seen # NoCall THEN call[c].seen # row
                                                  ELSE \E d \in Call \ {c} : call[d].pc \in Second)

\* One statement changes one row and goes on; seen is what the request takes the
\* rows to be from then on.
Put(c, u, s, pc) ==
  /\ row' = [row EXCEPT ![u] = s]
  /\ call' = [call EXCEPT ![c].pc = pc, ![c].seen = [row EXCEPT ![u] = s]]
  /\ Excused(c)
Update(c, u, s, pc) == Put(c, u, IF row[u] = "none" THEN "none" ELSE s, pc)
Told == <<version, stamps, list, cached, due, online, left, blind>>
Others == UNCHANGED Told /\ UNCHANGED alone

(***************************************************************************)
(* A change begins at the list its user sees, which may be behind.         *)
(***************************************************************************)
Offered(op, shown) ==
  CASE op = "request" -> TRUE
    [] op \in {"accept", "reject"} -> shown = "in"
    [] op = "cancel" -> shown = "out"
    [] op = "remove" -> shown = "accepted"

Ask(c, op, u) ==
  /\ call[c].op = NoCall /\ left.changes > 0
  /\ u \in online /\ Offered(op, list[u])
  /\ call' = [call EXCEPT ![c] = [Free EXCEPT !.op = op, !.pc = "read", !.me = u]]
  /\ left' = [left EXCEPT !.changes = @ - 1]
  /\ UNCHANGED <<row, version, stamps, list, cached, due, online, asked, crossed, alone, blind>>

\* The statements that only read.
Read(c) ==
  /\ call[c].pc = "read" /\ call[c].op \in {"request", "accept", "cancel"}
  /\ LET mine == row[Me(c)]  yours == row[You(c)]
         To(pc) == call' = [call EXCEPT ![c].pc = pc, ![c].seen = row]
     IN /\ CASE call[c].op = "accept" -> IF mine \in {"in", "out"} THEN To("accept1") ELSE Hang(c)
             [] call[c].op = "cancel" -> IF mine = "out" THEN To("cancel1") ELSE Hang(c)
             [] call[c].op = "request" ->
                  \/ mine = "rejected" /\ Hang(c)
                  \/ yours \in {"in", "out"} /\ To("agree1")
                  \/ yours = "accepted" /\ Hang(c)
                  \/ yours = "removed" /\ To("again1")
                  \/ yours \in {"none", "rejected"} /\ To("first1")
        /\ alone' = \/ alone
                    \/ call[c].op = "accept" /\ mine = "out"
                    \/ call[c].op = "request" /\ yours = "in"
  /\ UNCHANGED Told /\ UNCHANGED <<row, asked, crossed>>

(***************************************************************************)
(* /contacts/request: the peer's waiting request is accepted on the spot;  *)
(* a removed contact is asked again; otherwise both rows are made.         *)
(***************************************************************************)
RequestWrites(c) ==
  /\ call[c].op = "request"
  /\ \/ call[c].pc = "agree1" /\ Update(c, You(c), "accepted", "agree2")
     \/ call[c].pc = "agree2" /\ Put(c, Me(c), "accepted", "quiet")
     \/ call[c].pc = "again1" /\ Update(c, You(c), "in", "again2")
     \/ call[c].pc = "again2" /\ Update(c, Me(c), "out", "quiet")
     \/ call[c].pc = "first1" /\ Put(c, You(c), "in", "first2")
     \/ /\ call[c].pc = "first2"
        /\ Put(c, Me(c), IF row[Me(c)] \in {"none", "rejected"} THEN "out" ELSE row[Me(c)], "push")
  /\ asked' = asked \union {Me(c)}
  /\ Others

Accept(c) ==
  /\ call[c].op = "accept"
  /\ \/ call[c].pc = "accept1" /\ Update(c, Me(c), "accepted", "accept2")
     \/ call[c].pc = "accept2" /\ Put(c, You(c), "accepted", "push")
  /\ asked' = asked \union {Me(c)}
  /\ Others

\* /contacts/reject: the own row goes, the sender's stays as the cooldown.
Reject(c) ==
  /\ call[c].op = "reject"
  /\ \/ /\ call[c].pc = "read"
        /\ IF row[Me(c)] = "none" THEN Hang(c) /\ UNCHANGED <<row, crossed, asked>>
           ELSE Put(c, Me(c), "none", "reject2") /\ asked' = {}
     \/ call[c].pc = "reject2" /\ Update(c, You(c), "rejected", "push") /\ UNCHANGED asked
  /\ Others

\* Slip: the peer's row stays.
Remove_OwnRow(c) ==
  /\ call[c].op = "remove"
  /\ call[c].pc = "read" /\ Update(c, Me(c), "removed", "push") /\ asked' = {}
  /\ Others

Remove(c) ==
  /\ call[c].op = "remove"
  /\ \/ call[c].pc = "read" /\ Update(c, Me(c), "removed", "remove2") /\ asked' = {}
     \/ call[c].pc = "remove2" /\ Update(c, You(c), "removed", "push") /\ UNCHANGED asked
  /\ Others

Cancel(c) ==
  /\ call[c].op = "cancel"
  /\ \/ call[c].pc = "cancel1" /\ Put(c, Me(c), "none", "cancel2") /\ asked' = {}
     \/ call[c].pc = "cancel2" /\ Put(c, You(c), "none", "push") /\ UNCHANGED asked
  /\ Others

\* Something is lost on the way, or a client closed or shown again.
Trip == left.trips > 0 /\ left' = [left EXCEPT !.trips = @ - 1]

\* The push to the peer reaches a client whose socket is up; the server drops it
\* otherwise, and when it fails.
Push(c) ==
  /\ call[c].pc = "push" /\ call[c].op \in Change
  /\ \/ /\ due' = [due EXCEPT ![You(c)] = IF You(c) \in online THEN @ + 1 ELSE @]
        /\ UNCHANGED <<blind, left>>
     \/ /\ Trip /\ You(c) \in online
        /\ blind' = [blind EXCEPT ![You(c)] = @ \union {"PushLost"}] /\ UNCHANGED due
  /\ call' = [call EXCEPT ![c].pc = "bump"]
  /\ UNCHANGED <<row, version, stamps, list, cached, online, asked, crossed, alone>>

\* bumpContactsVersion and the answer, after which the client loads its list.
\* It does not when the answer is lost.
Bump(c) ==
  /\ call[c].pc \in {"bump", "quiet"}
  /\ stamps' = stamps + 1
  /\ version' = [u \in User |-> stamps + 1]
  /\ LET unpushed == IF call[c].pc = "quiet" THEN [blind EXCEPT ![You(c)] = @ \union {"NotPushed"}] ELSE blind
     IN \/ /\ due' = [due EXCEPT ![Me(c)] = IF Me(c) \in online THEN @ + 1 ELSE @]
           /\ blind' = unpushed /\ UNCHANGED left
        \/ /\ Trip /\ UNCHANGED due
           /\ blind' = [unpushed EXCEPT ![Me(c)] = @ \union {"AnswerLost"}]
  /\ Hang(c)
  /\ UNCHANGED <<row, list, cached, online, asked, crossed, alone>>

\* A statement fails: what was written stays, nobody is told.
Break(c) ==
  /\ Writing(c)
  /\ crossed' = TRUE
  /\ blind' = [u \in User |-> blind[u] \union {"BrokeOff"}]
  /\ Hang(c)
  /\ UNCHANGED <<row, version, stamps, list, cached, due, online, left, asked, alone>>

(***************************************************************************)
(* loadContacts: the browser asks with the version of its copy; an equal   *)
(* version is answered by that copy, otherwise the rows are read.  Two     *)
(* loads may be on the way, and the later answer is shown.                 *)
(***************************************************************************)
View(s) == IF s \in {"removed", "rejected"} THEN "none" ELSE s
Loads(u) == {c \in Call : call[c].op = "list" /\ call[c].me = u}
Changing == {c \in Call : Writing(c)}

Load(c, u) ==
  /\ call[c].op = NoCall /\ due[u] > 0 /\ u \in online
  /\ due' = [due EXCEPT ![u] = @ - 1]
  /\ call' = [call EXCEPT ![c] = [Free EXCEPT !.op = "list", !.pc = "version", !.me = u,
                                             !.tag = cached[u].tag, !.copy = cached[u].row]]
  /\ blind' = IF Loads(u) # {} THEN [blind EXCEPT ![u] = @ \union {"Overtaken"}] ELSE blind
  /\ UNCHANGED <<row, version, stamps, list, cached, online, left, asked, crossed, alone>>

ListVersion(c) ==
  /\ Is(c, "list", "version")
  /\ call' = [call EXCEPT ![c].pc = IF call[c].tag = version[Me(c)] THEN "shown" ELSE "rows",
                          ![c].tag = version[Me(c)]]
  /\ blind' = IF Changing # {} THEN [blind EXCEPT ![Me(c)] = @ \union {"BeforeBump"}] ELSE blind
  /\ UNCHANGED <<row, version, stamps, list, cached, due, online, left, asked, crossed, alone>>

ListRows(c) ==
  /\ Is(c, "list", "rows")
  /\ call' = [call EXCEPT ![c].pc = "shown", ![c].copy = View(row[Me(c)])]
  /\ UNCHANGED <<row, version, stamps, list, cached, due, online, left, asked, crossed, alone, blind>>

ListShown(c) ==
  /\ Is(c, "list", "shown")
  /\ LET u == Me(c)  s == call[c].copy IN
       /\ list' = IF u \in online THEN [list EXCEPT ![u] = s] ELSE list
       /\ cached' = [cached EXCEPT ![u] = [tag |-> call[c].tag, row |-> s]]
       /\ blind' = IF s = View(row[u]) /\ Changing = {} /\ Loads(u) = {c} /\ call[c].tag = version[u]
                     THEN [blind EXCEPT ![u] = @ \intersect {"Expired"}] ELSE blind
  /\ Hang(c)
  /\ UNCHANGED <<row, version, stamps, due, online, left, asked, crossed, alone>>

\* The load fails at the server or on the way: the list stays, and no one repeats it.
ListFails(c) ==
  /\ call[c].op = "list" /\ Trip
  /\ blind' = [blind EXCEPT ![Me(c)] = @ \union {"LoadFailed"}]
  /\ Hang(c)
  /\ UNCHANGED <<row, version, stamps, list, cached, due, online, asked, crossed, alone>>

\* The app comes to the foreground again, and loads the list.
Resume(u) ==
  /\ u \in online /\ Trip
  /\ due' = [due EXCEPT ![u] = @ + 1]
  /\ UNCHANGED <<row, version, stamps, call, list, cached, online, asked, crossed, alone, blind>>

\* A day without a change: the version token expires.
Expire(u) ==
  /\ version[u] # 0 /\ left.expiries > 0
  /\ \A c \in Call : call[c].op = NoCall
  /\ version' = [version EXCEPT ![u] = 0]
  /\ left' = [left EXCEPT !.expiries = @ - 1]
  /\ blind' = [blind EXCEPT ![u] = @ \union {"Expired"}]
  /\ UNCHANGED <<row, stamps, call, list, cached, due, online, asked, crossed, alone>>

\* The app is closed; opened again, it starts with an empty list and a load.
Close(u) ==
  /\ u \in online /\ Trip
  /\ \A c \in Call : call[c].me # u
  /\ online' = online \ {u} /\ list' = [list EXCEPT ![u] = "none"]
  /\ due' = [due EXCEPT ![u] = 0]
  /\ UNCHANGED <<row, version, stamps, call, cached, asked, crossed, alone, blind>>

Open(u) ==
  /\ u \notin online
  /\ online' = online \union {u} /\ due' = [due EXCEPT ![u] = 1]
  /\ UNCHANGED <<row, version, stamps, call, list, cached, left, asked, crossed, alone, blind>>

CNext ==
  \/ \E c \in Call :
       \/ \E u \in User : (\E op \in Change : Ask(c, op, u)) \/ Load(c, u)
       \/ Read(c) \/ RequestWrites(c) \/ Accept(c) \/ Reject(c) \/ Remove(c) \/ Cancel(c)
       \/ Push(c) \/ Bump(c) \/ Break(c)
       \/ ListVersion(c) \/ ListRows(c) \/ ListShown(c) \/ ListFails(c)
  \/ \E u \in User : Expire(u) \/ Resume(u) \/ Close(u) \/ Open(u)

CSpec == CInit /\ [][CNext]_cvars

-----------------------------------------------------------------------------
(* Properties                                                              *)

Quiet == \A c \in Call : call[c].op = NoCall

\* The types of the variables.
CTypeOK ==
  /\ row \in [User -> Status] /\ version \in [User -> Nat] /\ stamps \in Nat
  /\ list \in [User -> Status] /\ due \in [User -> Nat] /\ online \subseteq User
  /\ \A u \in User : cached[u].tag \in Int /\ cached[u].row \in Status
  /\ asked \subseteq User /\ crossed \in BOOLEAN /\ alone \in BOOLEAN

\* Two users are contacts of each other or of neither, and only when both asked
\* or agreed since the last break, unless two changes crossed each other, one
\* broke off, or one user made the request and agreed to it (contactRoutes.js).
ContactsAgree ==
  Quiet /\ ~crossed => \A u \in User :
    row[u] = "accepted" => row[Peer(u)] = "accepted" /\ (asked = User \/ alone)

\* A contact is accepted on the spot only when the other one has asked too: "hat
\* targetHandle schon einen pending-Request an mich?" (contactRoutes.js:162-167).
\* The row it looks at is also the one that the own first request made.
AcceptedByBoth ==
  Quiet /\ ~crossed => \A u \in User : row[u] = "accepted" => asked = User

\* Once nothing is on the way, a running client shows what the server has of the
\* contact, unless a reason in blind says why: it was not told, a push, an answer or
\* a load was lost, it read too early, or a change broke off (inbox.svelte.js,
\* contactRoutes.js, auth.js).
InboxHasACause ==
  Quiet => \A u \in online : due[u] = 0 => list[u] = View(row[u]) \/ blind[u] # {}
=============================================================================

--------------------------- MODULE VoiceCall_proofs ---------------------------
(***************************************************************************)
(* What is proved of VoiceCall: the busy slots follow the call log.          *)
(* TLC runs one call with a fault; the theorem holds for any number of     *)
(* users, calls, functions in progress and faults. Its argument: a call's    *)
(* row is written once, by the one startCall that dialled it, so a call that *)
(* is over is not rung again; whoever ends it, or answers it too late,       *)
(* clears or corrects the slots of both parties, and no slot of anyone else  *)
(* names it. What breaks this off is what "stuck" and "astray" record.       *)
(***************************************************************************)
EXTENDS VoiceCall, TLAPS

Client ==
  [st : {"idle", "ringing", "connecting", "active", "ended"}, dir : {"none", "out", "in"}, call : Calls \cup {0},
   pc : Calls \cup {0}, offer : Calls \cup {0}, open : SUBSET (Calls \cup {0}),
   remote : SUBSET (Calls \cup {0}),
   timer : {"off", "caller", "callee"}, resets : Nat]
Slot == [state : {"idle", "calling", "ringing", "connected"}, call : Calls \cup {0}]
Pushed == [to : Users, type : {"ring", "answer", "end"}, call : Calls, sdp : Calls \cup {0}]

Types ==
  /\ parties \in [Calls -> [from : Users, to : Users]] /\ dialled \in Nat
  /\ log \in [Calls -> Final \cup {"none", "ringing", "connected"}]
  /\ kv \in [Users -> Slot] /\ push \subseteq Pushed
  /\ cl \in [Users -> Client] /\ jobs \subseteq Job /\ overtaken \subseteq Calls
  /\ stuck \subseteq Users /\ astray \subseteq Calls

Waiting(j) == j.fn = "start" /\ j.at \in {"media", "sent", "read", "put"}
Clearing(j) == (Ending(j) \/ j.fn = "accept") /\ j.at = "logged"
OverARow(j) == j.at \in {"read", "blind", "put", "logged"}
Party(k) == {parties[k].from, parties[k].to}

\* No call is named before it is dialled.
Dialled ==
  /\ \A x \in Users : cl[x].call <= dialled /\ kv[x].call <= dialled
  /\ \A j \in jobs : j.call <= dialled /\ (Waiting(j) => j.sdp <= dialled)
  /\ \A e \in push : e.call <= dialled
  /\ \A k \in Calls : k > dialled => log[k] = "none"

\* A call is known to its parties only.
OnlyParties ==
  \A k \in Calls \ overtaken :
    /\ \A x \in Users : cl[x].call = k \/ kv[x].call = k => x \in Party(k)
    /\ \A j \in jobs : j.call = k => j.u \in Party(k)
    /\ \A e \in push : e.call = k => e.to \in Party(k)

\* One startCall per dialling; it rings the call that it dialled, which has no
\* row yet, or else the call it rings counts as overtaken.
OneStart ==
  /\ \A i, j \in jobs : Waiting(i) /\ Waiting(j) /\ i.sdp = j.sdp => i = j
  /\ \A j \in jobs : Waiting(j) =>
       /\ j.call # 0 /\ j.sdp # 0
       /\ j.call # j.sdp => j.at # "media" /\ j.call \in overtaken
       /\ j.call \notin overtaken => log[j.call] = "none"

\* A call that is being answered has a row, and it is a call that is ended.
Answered ==
  /\ \A j \in jobs : j.fn = "accept" =>
       /\ j.at = "sent" => j.call # 0
       /\ j.at \in {"read", "logged"} => log[j.call] # "none"
  /\ \A j \in jobs : OverARow(j) => j.call # 0

SlotsCleared ==
  \A x \in Users : LET k == kv[x].call IN
    (k # 0 /\ log[k] \in Final) =>
        x \in stuck \/ k \in overtaken \cup astray \/ \E j \in jobs : j.call = k /\ Clearing(j)

VInv == Types /\ Dialled /\ OnlyParties /\ OneStart /\ Answered /\ SlotsCleared

USE VoiceAssumption

(***************************************************************************)
(* What the store's helpers do to a client: it stays one, in the same call. *)
(***************************************************************************)
LEMMA HelpersKeepTheCall ==
  ASSUME NEW s \in Client
  PROVE  /\ \A r \in {"caller", "callee", "off"} : StartTimer(s, r) \in Client /\ StartTimer(s, r).call = s.call
         /\ HardReset(s) \in Client /\ HardReset(s).call = s.call
         /\ ScheduleReset(s) \in Client /\ ScheduleReset(s).call = s.call
         /\ Ended(s) \in Client /\ Ended(s).call = s.call
         /\ Fails(s) \in Client /\ Fails(s).call = s.call
         /\ ScheduleReset(HardReset(s)) \in Client /\ ScheduleReset(HardReset(s)).call = s.call
         /\ Apply(s) \in Client /\ Apply(s).call = s.call
<1>1. \A t \in Client : HardReset(t) \in Client /\ HardReset(t).call = t.call
  BY DEF Client, HardReset
<1>2. \A t \in Client : ScheduleReset(t) \in Client /\ ScheduleReset(t).call = t.call
  BY DEF Client, ScheduleReset
<1>3. \A t \in Client : Ended(t) \in Client /\ Ended(t).call = t.call
  <2>1. \A t \in Client : [t EXCEPT !.st = "ended"] \in Client /\ [t EXCEPT !.st = "ended"].call = t.call
    BY DEF Client
  <2> QED BY <2>1, <1>2 DEF Ended
<1>4. \A t \in Client : Apply(t) \in Client /\ Apply(t).call = t.call
  BY DEF Client, Apply
<1>5. \A r \in {"caller", "callee", "off"} : StartTimer(s, r) \in Client /\ StartTimer(s, r).call = s.call
  BY DEF Client, StartTimer
<1> QED BY <1>1, <1>2, <1>3, <1>4, <1>5 DEF Fails

(***************************************************************************)
(* The steps of a client that only drop events and functions, or begin      *)
(* functions for calls that the client was told of.                         *)
(***************************************************************************)
Told(j) ==
  \/ j.call \in {0, cl[j.u].call}
  \/ \E i \in jobs : i.u = j.u /\ i.call = j.call
  \/ \E e \in push : e.to = j.u /\ e.call = j.call
  \/ j.call \in Calls /\ j.call <= dialled /\ j.u = parties[j.call].to

Begun(j) ==
  /\ ~Waiting(j) /\ ~Clearing(j) /\ Told(j)
  /\ j.fn = "accept" => (j.at = "sent" => j.call # 0) /\ (j.at = "read" => log[j.call] # "none")
  /\ OverARow(j) => j.call # 0

ClientStep ==
  /\ UNCHANGED <<dial, server>> /\ push' \subseteq push
  /\ cl' \in [Users -> Client] /\ jobs' \subseteq Job
  /\ \A x \in Users : \/ cl'[x].call \in {0, cl[x].call}
                      \/ \E j \in jobs : j.u = x /\ j.call = cl'[x].call
  /\ \A j \in jobs' : j \in jobs \/ Begun(j)
  /\ \A j \in jobs : j \in jobs' \/ ~Clearing(j)

LEMMA ClientStepKeeps == VInv /\ ClientStep => VInv'
<1> SUFFICES ASSUME VInv, ClientStep PROVE VInv'
  OBVIOUS
<1> USE DEF VInv
<1>u. /\ parties' = parties /\ dialled' = dialled /\ overtaken' = overtaken /\ log' = log /\ kv' = kv
      /\ stuck' = stuck /\ astray' = astray
      /\ push' \subseteq push /\ \A k \in Calls \cup {0} : k \in Nat
  BY DEF ClientStep, dial, server, Calls
<1>1. Types'
  BY <1>u DEF ClientStep, Types
<1>2. Dialled'
  <2>1. \A x \in Users : cl'[x].call <= dialled
    BY <1>u DEF ClientStep, Dialled, Types
  <2>2. \A j \in jobs' : j.call <= dialled
    <3> SUFFICES ASSUME NEW j \in jobs', Begun(j) PROVE j.call <= dialled
      BY DEF ClientStep, Dialled
    <3>1. j.u \in Users
      BY DEF ClientStep, Job
    <3> QED BY <3>1, <1>u DEF Begun, Told, Dialled, Types, OverARow
  <2> QED BY <1>u, <2>1, <2>2 DEF Dialled, ClientStep, Begun, OverARow
<1>3. OnlyParties'
  <2> SUFFICES ASSUME NEW k \in Calls \ overtaken
               PROVE  /\ \A x \in Users : cl'[x].call = k \/ kv[x].call = k => x \in Party(k)
                      /\ \A j \in jobs' : j.call = k => j.u \in Party(k)
                      /\ \A e \in push' : e.call = k => e.to \in Party(k)
    BY <1>u DEF OnlyParties, Party
  <2>0. k # 0 /\ k \in Nat
    BY DEF Calls
  <2>1. \A x \in Users : cl'[x].call = k => x \in Party(k)
    BY <2>0 DEF ClientStep, OnlyParties
  <2>2. ASSUME NEW j \in jobs', j.call = k PROVE j.u \in Party(k)
    <3>1. j.u \in Users
      BY DEF ClientStep, Job
    <3>2. CASE j \in jobs
      BY <3>2, <2>2 DEF OnlyParties
    <3>3. CASE Begun(j)
      BY <3>3, <3>1, <2>2, <2>0 DEF Begun, Told, OnlyParties, Party, OverARow
    <3> QED BY <3>2, <3>3 DEF ClientStep
  <2> QED BY <2>1, <2>2, <1>u DEF OnlyParties
<1>4. OneStart'
  <2>1. \A j \in jobs' : Waiting(j) => j \in jobs
    BY DEF ClientStep, Begun, OverARow
  <2> QED BY <2>1, <1>u DEF OneStart, Waiting
<1>5. Answered'
  BY <1>u DEF Answered, ClientStep, Begun, Clearing, Ending, OverARow
<1>6. SlotsCleared'
  BY <1>u DEF SlotsCleared, ClientStep, Clearing, Ending
<1> QED BY <1>1, <1>2, <1>3, <1>4, <1>5, <1>6

(***************************************************************************)
(* Each of them is such a step.                                             *)
(***************************************************************************)
\* A step that changes one client, and not its call.
LEMMA OneClient ==
  ASSUME Types, NEW u \in Users, NEW s \in Client, s.call \in {0, cl[u].call}, cl' = [cl EXCEPT ![u] = s]
  PROVE  /\ cl' \in [Users -> Client]
         /\ \A x \in Users : cl'[x].call \in {0, cl[x].call}
  BY DEF Types

LEMMA JobOf ==
  ASSUME Types, NEW j \in jobs
  PROVE  /\ j \in Job /\ j.u \in Users /\ cl[j.u] \in Client /\ j.call \in Calls \cup {0} /\ j.sdp \in Calls \cup {0}
         /\ \A a \in {"media", "setup", "sent", "read", "blind", "put", "logged", "alone", "rang", "answered",
                 "refused", "decrypt"} :
              [j EXCEPT !.at = a] \in Job
  BY DEF Types, Job

\* Calls are known by a number.
LEMMA CallsAreNumbers == \A k \in Calls \cup {0} : k \in Nat
BY DEF Calls

LEMMA ANewJob ==
  ASSUME NEW u \in Users, NEW f \in {"start", "receive", "accept", "answer", "cancel", "hangup", "decline"},
         NEW c \in Calls \cup {0}, NEW k \in Calls \cup {0},
         NEW a \in {"media", "setup", "sent", "read", "blind", "put", "logged", "alone", "rang", "answered",
                 "refused", "decrypt"},
         NEW o \in BOOLEAN
  PROVE  NewJob(u, f, c, k, a, o) \in Job
  BY DEF NewJob, Job

LEMMA EndCallIsClient ==
  ASSUME Types, NEW u \in Users, NEW left \in SUBSET jobs, EndCallOf(u, left),
         \A j \in jobs \ left : ~Clearing(j), UNCHANGED <<dial, server>>, push' \subseteq push
  PROVE  ClientStep
<1>0. cl[u] \in Client /\ jobs \subseteq Job
  BY DEF Types
<1>1. CASE InCall(cl[u])
  <2> DEFINE n == NewJob(u, EndFn(cl[u]), cl[u].call, 0, "sent", TRUE)
             t == [cl[u] EXCEPT !.st = "ended"]
  <2>1. t \in Client /\ t.call = cl[u].call
    BY <1>0 DEF Client
  <2>2. cl' = [cl EXCEPT ![u] = t] /\ jobs' = left \cup {n}
    BY <1>1, <1>0 DEF EndCallOf, Types
  <2>3. EndFn(cl[u]) \in {"cancel", "hangup"} /\ cl[u].call \in Calls \cup {0}
    BY <1>0 DEF EndFn, Client
  <2>4. n \in Job
    BY <2>3, ANewJob
  <2>5. Begun(n)
    BY <2>3 DEF Begun, NewJob, Waiting, Clearing, Ending, Told, OverARow
  <2> HIDE DEF n, t
  <2>6. cl' \in [Users -> Client] /\ \A x \in Users : cl'[x].call \in {0, cl[x].call}
    BY <2>1, <2>2, OneClient
  <2> QED BY <2>2, <2>4, <2>5, <2>6, <1>0 DEF ClientStep
<1>2. CASE ~InCall(cl[u])
  BY <1>2, <1>0 DEF EndCallOf, ClientStep, Types
<1> QED BY <1>1, <1>2

\* The user's own moves, and the timers.
LEMMA UserIsClient ==
  ASSUME VInv, NEW u \in Users,
         AcceptCall(u) \/ DeclineCall(u) \/ EndCall(u) \/ NoAnswer(u) \/ ResetUi(u)
  PROVE  ClientStep
<1> USE DEF VInv
<1>0. /\ cl[u] \in Client /\ jobs \subseteq Job /\ cl[u].call \in Calls \cup {0} /\ cl[u].offer \in Calls \cup {0}
      /\ cl \in [Users -> Client] /\ cl[u].resets \in Nat
  BY DEF Types, Client
<1>a. CASE AcceptCall(u)
  <2> DEFINE n == NewJob(u, "accept", cl[u].call, cl[u].offer, "media", TRUE)
             t == [cl[u] EXCEPT !.timer = "off"]
  <2>1. t \in Client /\ t.call = cl[u].call
    BY <1>0 DEF Client
  <2>2. /\ cl' = [cl EXCEPT ![u] = t] /\ jobs' = jobs \cup {n} /\ UNCHANGED <<dial, server, push>>
    BY <1>a, <1>0 DEF AcceptCall, Begins
  <2>4. n \in Job
    BY <1>0, ANewJob
  <2>5. Begun(n)
    BY DEF Begun, NewJob, Waiting, Clearing, Ending, Told, OverARow
  <2> HIDE DEF n, t
  <2>6. cl' \in [Users -> Client] /\ \A x \in Users : cl'[x].call \in {0, cl[x].call}
    BY <2>1, <2>2, OneClient
  <2> QED BY <2>2, <2>4, <2>5, <2>6, <1>0 DEF ClientStep
<1>b. ASSUME Declining(u), UNCHANGED <<dial, server, push>> PROVE ClientStep
  <2> DEFINE n == NewJob(u, "decline", cl[u].call, 0, "sent", TRUE)
             t == [cl[u] EXCEPT !.st = "ended", !.timer = "off", !.offer = 0]
  <2>1. t \in Client /\ t.call = cl[u].call
    BY <1>0 DEF Client
  <2>2. cl' = [cl EXCEPT ![u] = t] /\ jobs' = jobs \cup {n}
    BY <1>b, <1>0 DEF Declining, Begins
  <2>4. n \in Job
    BY <1>0, ANewJob
  <2>5. Begun(n)
    BY DEF Begun, NewJob, Waiting, Clearing, Ending, Told, OverARow
  <2> HIDE DEF n, t
  <2>6. cl' \in [Users -> Client] /\ \A x \in Users : cl'[x].call \in {0, cl[x].call}
    BY <2>1, <2>2, OneClient
  <2> QED BY <1>b, <2>2, <2>4, <2>5, <2>6, <1>0 DEF ClientStep
<1>c. CASE DeclineCall(u)
  BY <1>b, <1>c DEF DeclineCall
<1>d. CASE EndCall(u)
  BY <1>d, EndCallIsClient DEF EndCall
<1>e. CASE NoAnswer(u)
  <2>1. CASE cl[u].st # "ringing" \/ (cl[u].timer = "callee" /\ cl[u].dir # "in")
    <3> DEFINE t == [cl[u] EXCEPT !.timer = "off"]
    <3>1. t \in Client /\ t.call = cl[u].call
      BY <1>0 DEF Client
    <3>2. cl' = [cl EXCEPT ![u] = t] /\ jobs' = jobs /\ UNCHANGED <<dial, server, push>>
      BY <1>e, <2>1, <1>0 DEF NoAnswer
    <3> HIDE DEF t
    <3>3. cl' \in [Users -> Client] /\ \A x \in Users : cl'[x].call \in {0, cl[x].call}
      BY <3>1, <3>2, OneClient
    <3> QED BY <3>2, <3>3, <1>0 DEF ClientStep
  <2>2. CASE ~(cl[u].st # "ringing" \/ (cl[u].timer = "callee" /\ cl[u].dir # "in")) /\ cl[u].timer = "callee"
    BY <1>e, <2>2, <1>b DEF NoAnswer
  <2>3. CASE ~(cl[u].st # "ringing" \/ (cl[u].timer = "callee" /\ cl[u].dir # "in")) /\ cl[u].timer # "callee"
    <3> DEFINE n == NewJob(u, EndFn(cl[u]), cl[u].call, 0, "sent", TRUE)
               t == [cl[u] EXCEPT !.timer = "off", !.st = "ended"]
    <3>1. t \in Client /\ t.call = cl[u].call
      BY <1>0 DEF Client
    <3>2. cl' = [cl EXCEPT ![u] = t] /\ jobs' = jobs \cup {n} /\ UNCHANGED <<dial, server, push>>
      BY <1>e, <2>3, <1>0 DEF NoAnswer, Begins
    <3>3. EndFn(cl[u]) \in {"cancel", "hangup"}
      BY DEF EndFn
    <3>4. n \in Job
      BY <3>3, <1>0, ANewJob
    <3>5. Begun(n)
      BY <3>3 DEF Begun, NewJob, Waiting, Clearing, Ending, Told, OverARow
    <3> HIDE DEF n, t
    <3>6. cl' \in [Users -> Client] /\ \A x \in Users : cl'[x].call \in {0, cl[x].call}
      BY <3>1, <3>2, OneClient
    <3> QED BY <3>2, <3>4, <3>5, <3>6, <1>0 DEF ClientStep
  <2> QED BY <2>1, <2>2, <2>3
<1>f. CASE ResetUi(u)
  <2> DEFINE t == [cl[u] EXCEPT !.resets = cl[u].resets - 1, !.st = "idle", !.dir = "none", !.call = 0]
  <2>0. cl[u].resets - 1 \in Nat
    BY <1>f, <1>0 DEF ResetUi
  <2>1. t \in Client /\ t.call = 0
    BY <2>0, <1>0 DEF Client
  <2>2. cl' = [cl EXCEPT ![u] = t] /\ jobs' = jobs /\ UNCHANGED <<dial, server, push>>
    BY <1>f, <1>0 DEF ResetUi
  <2> HIDE DEF t
  <2>3. cl' \in [Users -> Client] /\ \A x \in Users : cl'[x].call \in {0, cl[x].call}
    BY <2>1, <2>2, OneClient
  <2> QED BY <2>2, <2>3, <1>0 DEF ClientStep
<1> QED BY <1>a, <1>c, <1>d, <1>e, <1>f

\* What the browser, an event or an old notification makes a client do.
LEMMA OutsideIsClient ==
  ASSUME VInv, NEW u \in Users,
         \/ \E c \in Calls : Connected(u, c) \/ IceFailed(u, c) \/ NotificationDecline(u, c)
         \/ \E e \in push : Receive(u, e) \/ HandleAnswer(u, e) \/ HandlePeerEnd(u, e)
  PROVE  ClientStep
<1> USE DEF VInv
<1>0. /\ cl[u] \in Client /\ jobs \subseteq Job /\ cl[u].call \in Calls \cup {0}
      /\ cl \in [Users -> Client]
      /\ \A e \in push : e.call \in Calls /\ e.sdp \in Calls \cup {0}
  BY DEF Types, Client, Pushed
<1>a. ASSUME NEW c \in Calls, Connected(u, c) PROVE ClientStep
  <2> DEFINE t == [cl[u] EXCEPT !.st = "active"]
  <2>1. t \in Client /\ t.call = cl[u].call
    BY <1>0 DEF Client
  <2>2. cl' = [cl EXCEPT ![u] = t] /\ jobs' = jobs /\ UNCHANGED <<dial, server, push>>
    BY <1>a, <1>0 DEF Connected
  <2> HIDE DEF t
  <2>3. cl' \in [Users -> Client] /\ \A x \in Users : cl'[x].call \in {0, cl[x].call}
    BY <2>1, <2>2, OneClient
  <2> QED BY <2>2, <2>3, <1>0 DEF ClientStep
<1>b. ASSUME NEW c \in Calls, IceFailed(u, c) PROVE ClientStep
  BY <1>b, EndCallIsClient DEF IceFailed
<1>c. ASSUME NEW c \in Calls, NotificationDecline(u, c) PROVE ClientStep
  <2> DEFINE n == NewJob(u, "decline", c, 0, "sent", FALSE)
  <2>1. n \in Job
    BY ANewJob
  <2>2. Begun(n)
    BY <1>c DEF NotificationDecline, Begun, NewJob, Waiting, Clearing, Ending, Told, OverARow
  <2>3. jobs' = jobs \cup {n} /\ UNCHANGED <<dial, server, push, cl>>
    BY <1>c DEF NotificationDecline
  <2> HIDE DEF n
  <2> QED BY <2>1, <2>2, <2>3, <1>0 DEF ClientStep
<1>d. ASSUME NEW e \in push, Receive(u, e) PROVE ClientStep
  <2> DEFINE n == NewJob(u, "receive", e.call, e.sdp, "decrypt", TRUE)
             m == NewJob(u, "decline", e.call, 0, "sent", FALSE)
  <2>1. n \in Job /\ m \in Job
    BY <1>0, ANewJob
  <2>2. Begun(n) /\ Begun(m)
    BY <1>d DEF Receive, Begun, NewJob, Waiting, Clearing, Ending, Told, OverARow
  <2>3. (jobs' = jobs \cup {n} \/ jobs' = jobs \cup {m}) /\ push' \subseteq push /\ UNCHANGED <<dial, server, cl>>
    BY <1>d DEF Receive, Begins
  <2> HIDE DEF n, m
  <2> QED BY <2>1, <2>2, <2>3, <1>0 DEF ClientStep
<1>e. ASSUME NEW e \in push, HandleAnswer(u, e) PROVE ClientStep
  <2> DEFINE n == NewJob(u, "answer", e.call, e.sdp, "decrypt", TRUE)
  <2>1. n \in Job
    BY <1>0, ANewJob
  <2>2. Begun(n)
    BY <1>e DEF HandleAnswer, Begun, NewJob, Waiting, Clearing, Ending, Told, OverARow
  <2>3. (jobs' = jobs \cup {n} \/ jobs' = jobs) /\ push' \subseteq push /\ UNCHANGED <<dial, server, cl>>
    BY <1>e DEF HandleAnswer, Begins
  <2> HIDE DEF n
  <2> QED BY <2>1, <2>2, <2>3, <1>0 DEF ClientStep
<1>f. ASSUME NEW e \in push, HandlePeerEnd(u, e) PROVE ClientStep
  <2>1. Fails(cl[u]) \in Client /\ Fails(cl[u]).call = cl[u].call
    BY <1>0, HelpersKeepTheCall
  <2>2. /\ (cl' = [cl EXCEPT ![u] = Fails(cl[u])] \/ cl' = cl)
        /\ jobs' = jobs /\ push' \subseteq push /\ UNCHANGED <<dial, server>>
    BY <1>f, <1>0 DEF HandlePeerEnd
  <2>3. cl' \in [Users -> Client] /\ \A x \in Users : cl'[x].call \in {0, cl[x].call}
    BY <2>1, <2>2, <1>0, OneClient
  <2> QED BY <2>2, <2>3, <1>0 DEF ClientStep
<1> QED BY <1>a, <1>b, <1>c, <1>d, <1>e, <1>f

\* A function of a client goes on, or comes to its end.
LEMMA StageIsClient ==
  ASSUME VInv, NEW j \in jobs, ~Clearing(j), NEW s \in Client,
         s.call \in {0, cl[j.u].call, j.call},
         cl' = [cl EXCEPT ![j.u] = s], UNCHANGED <<dial, server, push>>,
         \/ jobs' = jobs \ {j}
         \/ \E n \in Job : Begun(n) /\ jobs' = (jobs \ {j}) \cup {n}
  PROVE  ClientStep
<1> USE DEF VInv
<1>1. j.u \in Users /\ jobs \subseteq Job /\ cl \in [Users -> Client]
  BY DEF Types, Job
<1>2. cl' \in [Users -> Client]
  BY <1>1
<1>3. \A x \in Users : \/ cl'[x].call \in {0, cl[x].call}
                       \/ \E i \in jobs : i.u = x /\ i.call = cl'[x].call
  <2> SUFFICES ASSUME NEW x \in Users PROVE \/ cl'[x].call \in {0, cl[x].call}
                                            \/ \E i \in jobs : i.u = x /\ i.call = cl'[x].call
    OBVIOUS
  <2>1. CASE x = j.u
    BY <2>1, <1>1
  <2>2. CASE x # j.u
    BY <2>2, <1>1
  <2> QED BY <2>1, <2>2
<1> QED BY <1>1, <1>2, <1>3 DEF ClientStep

LEMMA FunctionIsClient ==
  ASSUME VInv, NEW j \in jobs,
         \/ StartDone(j) \/ ReceiveDone(j) \/ AcceptFails(j) \/ AcceptMedia(j) \/ AcceptSetup(j)
         \/ AcceptDone(j) \/ HandleAnswerDone(j) \/ AnswerRead(j) \/ EndRead(j)
  PROVE  ClientStep
<1> USE DEF VInv
<1>0. /\ j \in Job /\ j.u \in Users /\ cl[j.u] \in Client /\ j.call \in Calls \cup {0} /\ j.sdp \in Calls \cup {0}
      /\ cl \in [Users -> Client] /\ jobs \subseteq Job /\ cl[j.u].call \in Calls \cup {0}
  BY JobOf DEF Types, Client
<1>k. cl = [cl EXCEPT ![j.u] = cl[j.u]]
  BY <1>0
<1>h. /\ Fails(cl[j.u]) \in Client /\ Fails(cl[j.u]).call = cl[j.u].call
      /\ StartTimer(cl[j.u], "caller") \in Client /\ StartTimer(cl[j.u], "caller").call = cl[j.u].call
      /\ Apply(cl[j.u]) \in Client /\ Apply(cl[j.u]).call = cl[j.u].call
  BY <1>0, HelpersKeepTheCall
<1>a. CASE StartDone(j)
  <2>1. ~Clearing(j) /\ jobs' = jobs \ {j} /\ UNCHANGED <<dial, server, push>>
    BY <1>a DEF StartDone, Clearing, Ending
  <2>2. PICK s \in {cl[j.u], Fails(cl[j.u]), StartTimer(cl[j.u], "caller")} : cl' = [cl EXCEPT ![j.u] = s]
    BY <1>a, <1>k, <1>0 DEF StartDone, Job
  <2> QED BY <2>1, <2>2, <1>h, <1>0, StageIsClient
<1>b. CASE ReceiveDone(j)
  <2>0. ~Clearing(j) /\ UNCHANGED <<dial, server, push>>
    BY <1>b DEF ReceiveDone, Clearing, Ending
  <2>1. CASE Fine /\ jobs' = jobs \ {j} /\
             cl' = [cl EXCEPT ![j.u] = StartTimer([@ EXCEPT !.dir = "in", !.call = j.call, !.offer = j.sdp,
                                                              !.st = "ringing"], "callee")]
    <3> DEFINE t == [cl[j.u] EXCEPT !.dir = "in", !.call = j.call, !.offer = j.sdp, !.st = "ringing"]
    <3>1. t \in Client /\ t.call = j.call
      BY <1>0 DEF Client
    <3>2. cl' = [cl EXCEPT ![j.u] = StartTimer(t, "callee")]
      BY <2>1, <1>0
    <3> HIDE DEF t
    <3>3. StartTimer(t, "callee") \in Client /\ StartTimer(t, "callee").call = j.call
      BY <3>1, HelpersKeepTheCall
    <3> QED BY <2>0, <2>1, <3>2, <3>3, StageIsClient
  <2>2. CASE /\ jobs' = (jobs \ {j}) \cup {[j EXCEPT !.fn = "decline", !.at = "sent", !.own = FALSE]}
             /\ UNCHANGED cl
    <3> DEFINE n == [j EXCEPT !.fn = "decline", !.at = "sent", !.own = FALSE]
    <3>1. n \in Job /\ Begun(n)
      BY <1>0 DEF Job, Begun, Told, Waiting, Clearing, Ending, OverARow
    <3>2. jobs' = (jobs \ {j}) \cup {n}
      BY <2>2
    <3> HIDE DEF n
    <3> QED BY <2>0, <2>2, <3>1, <3>2, <1>k, <1>0, StageIsClient
  <2> QED BY <1>b, <2>1, <2>2 DEF ReceiveDone
<1>c. CASE AcceptFails(j)
  <2> DEFINE t == [Fails(cl[j.u]) EXCEPT !.offer = IF j.at = "media" THEN Fails(cl[j.u]).offer ELSE 0]
  <2>1. t \in Client /\ t.call = cl[j.u].call
    BY <1>h DEF Client
  <2>2. ~Clearing(j) /\ jobs' = jobs \ {j} /\ UNCHANGED <<dial, server, push>>
    BY <1>c DEF AcceptFails, Clearing, Ending
  <2>3. cl' = [cl EXCEPT ![j.u] = t]
    BY <1>c, <1>0 DEF AcceptFails
  <2> HIDE DEF t
  <2> QED BY <2>1, <2>2, <2>3, <1>0, StageIsClient
<1>d. CASE AcceptMedia(j)
  <2> DEFINE t == [cl[j.u] EXCEPT !.st = "connecting", !.pc = j.sdp, !.open = cl[j.u].open \cup {j.sdp}]
             n == [j EXCEPT !.at = "setup"]
  <2>1. t \in Client /\ t.call = cl[j.u].call
    BY <1>0 DEF Client
  <2>2. ~Clearing(j) /\ UNCHANGED <<dial, server, push>>
    BY <1>d DEF AcceptMedia, Clearing, Ending
  <2>3. cl' = [cl EXCEPT ![j.u] = t] /\ jobs' = (jobs \ {j}) \cup {n}
    BY <1>d, <1>0 DEF AcceptMedia, Goes
  <2>4. n \in Job /\ Begun(n)
    BY <1>d, <1>0 DEF AcceptMedia, Job, Begun, Told, Waiting, Clearing, Ending, OverARow
  <2> HIDE DEF t, n
  <2> QED BY <2>1, <2>2, <2>3, <2>4, <1>0, StageIsClient
<1>e. CASE AcceptSetup(j)
  <2> DEFINE t == [cl[j.u] EXCEPT !.remote = cl[j.u].remote \cup {j.sdp}]
             n == [j EXCEPT !.call = cl[j.u].call, !.at = IF cl[j.u].call = 0 THEN "refused" ELSE "sent"]
  <2>1. t \in Client /\ t.call = cl[j.u].call
    BY <1>0 DEF Client
  <2>2. ~Clearing(j) /\ UNCHANGED <<dial, server, push>>
    BY <1>e DEF AcceptSetup, Clearing, Ending
  <2>3. cl' = [cl EXCEPT ![j.u] = t] /\ jobs' = (jobs \ {j}) \cup {n}
    BY <1>e, <1>0 DEF AcceptSetup
  <2>4. n \in Job /\ Begun(n)
    BY <1>e, <1>0 DEF AcceptSetup, Job, Begun, Told, Waiting, Clearing, Ending, OverARow
  <2> HIDE DEF t, n
  <2> QED BY <2>1, <2>2, <2>3, <2>4, <1>0, StageIsClient
<1>f. CASE AcceptDone(j)
  <2>1. ~Clearing(j) /\ jobs' = jobs \ {j} /\ UNCHANGED <<dial, server, push>>
    BY <1>f DEF AcceptDone, Clearing, Ending
  <2> DEFINE t == [Fails(cl[j.u]) EXCEPT !.offer = 0]
             r == [cl[j.u] EXCEPT !.offer = 0]
  <2>2. t \in Client /\ t.call = cl[j.u].call /\ r \in Client /\ r.call = cl[j.u].call
    BY <1>h, <1>0 DEF Client
  <2>3. cl' = [cl EXCEPT ![j.u] = cl[j.u]] \/ cl' = [cl EXCEPT ![j.u] = t] \/ cl' = [cl EXCEPT ![j.u] = r]
    BY <1>f, <1>k, <1>0 DEF AcceptDone, Job
  <2> HIDE DEF t, r
  <2> QED BY <2>1, <2>2, <2>3, <1>0, StageIsClient
<1>g. CASE HandleAnswerDone(j)
  <2>1. ~Clearing(j) /\ UNCHANGED <<dial, server, push>>
    BY <1>g DEF HandleAnswerDone, Clearing, Ending
  <2>2. CASE cl' = [cl EXCEPT ![j.u] = Apply(@)] /\ jobs' = jobs \ {j}
    <3>1. cl' = [cl EXCEPT ![j.u] = Apply(cl[j.u])]
      BY <2>2, <1>0
    <3> QED BY <2>1, <2>2, <3>1, <1>h, <1>0, StageIsClient
  <2>3. CASE EndCallOf(j.u, jobs \ {j})
    BY <2>1, <2>3, <1>0, EndCallIsClient
  <2> QED BY <1>g, <2>2, <2>3 DEF HandleAnswerDone
<1>i. CASE AnswerRead(j)
  <2>1. PICK a \in {"read", "refused"} : /\ jobs' = (jobs \ {j}) \cup {[j EXCEPT !.at = a]}
                                         /\ a = "read" => log[j.call] = "ringing"
    BY <1>i DEF AnswerRead, Goes
  <2> DEFINE n == [j EXCEPT !.at = a]
  <2>2. n \in Job /\ n.u = j.u /\ n.fn = "accept" /\ n.call = j.call /\ n.at = a
    BY <1>i, <1>0 DEF AnswerRead, Job
  <2>3. j.call # 0 /\ ~Clearing(j) /\ UNCHANGED <<dial, server, push, cl>>
    BY <1>i DEF AnswerRead, Answered, Clearing
  <2> HIDE DEF n
  <2>4. Begun(n)
    BY <2>1, <2>2, <2>3 DEF Begun, Told, Waiting, Clearing, Ending, OverARow
  <2>5. cl' = [cl EXCEPT ![j.u] = cl[j.u]]
    BY <2>3, <1>k
  <2>6. jobs' = (jobs \ {j}) \cup {n}
    BY <2>1 DEF n
  <2> QED BY <2>2, <2>3, <2>4, <2>5, <2>6, <1>0, StageIsClient
<1>j. CASE EndRead(j)
  <2>1. j.fn \in {"cancel", "hangup", "decline"} /\ ~Clearing(j) /\ UNCHANGED <<dial, server, push>>
    BY <1>j DEF EndRead, Ending, Clearing
  <2>2. CASE Over(j)
    <3>1. /\ ScheduleReset(HardReset(cl[j.u])) \in Client
          /\ ScheduleReset(HardReset(cl[j.u])).call = cl[j.u].call
      BY <1>0, HelpersKeepTheCall
    <3>2. \/ cl' = [cl EXCEPT ![j.u] = ScheduleReset(HardReset(cl[j.u]))]
          \/ cl' = [cl EXCEPT ![j.u] = cl[j.u]]
      BY <2>2, <1>k DEF Over
    <3> QED BY <2>1, <2>2, <3>1, <3>2, <1>0, StageIsClient DEF Over
  <2>3. CASE j.call # 0 /\ UNCHANGED cl /\ (Goes(j, "read") \/ Goes(j, "blind"))
    <3>1. PICK a \in {"read", "blind"} : jobs' = (jobs \ {j}) \cup {[j EXCEPT !.at = a]}
      BY <2>3 DEF Goes
    <3> DEFINE n == [j EXCEPT !.at = a]
    <3>2. n \in Job /\ n.u = j.u /\ n.fn = j.fn /\ n.call = j.call /\ n.at = a
      BY <1>0 DEF Job
    <3> HIDE DEF n
    <3>3. Begun(n)
      BY <2>1, <2>3, <3>2 DEF Begun, Told, Waiting, Clearing, Ending, OverARow
    <3>4. jobs' = (jobs \ {j}) \cup {n} /\ cl' = [cl EXCEPT ![j.u] = cl[j.u]]
      BY <3>1, <2>3, <1>k DEF n
    <3> QED BY <2>1, <3>2, <3>3, <3>4, <1>0, StageIsClient
  <2> QED BY <1>j, <2>2, <2>3 DEF EndRead
<1> QED BY <1>a, <1>b, <1>c, <1>d, <1>e, <1>f, <1>g, <1>i, <1>j

(***************************************************************************)
(* The steps that dial, or that the Worker takes.                           *)
(***************************************************************************)
LEMMA StartCallKeeps ==
  ASSUME VInv, NEW u \in Users, NEW v \in Users, StartCall(u, v) PROVE VInv'
<1> USE DEF VInv
<1>n. PICK c \in Nat : c = dialled + 1
  BY DEF Types
<1> DEFINE t == [cl[u] EXCEPT !.st = "ringing", !.dir = "out", !.call = c]
           n == NewJob(u, "start", c, c, "media", TRUE)
<1>0. /\ cl[u] \in Client /\ jobs \subseteq Job /\ cl \in [Users -> Client] /\ dialled \in Nat
      /\ parties \in [Calls -> [from : Users, to : Users]] /\ overtaken \subseteq Calls
  BY DEF Types
<1>1. c \in Calls /\ c # 0 /\ c > dialled /\ ~(c <= dialled) /\ (\A k \in Calls : k # 0 /\ k \in Nat)
  BY <1>n, <1>0 DEF StartCall, Calls
<1>2. /\ dialled' = c /\ parties' = [parties EXCEPT ![c] = [from |-> u, to |-> v]]
      /\ cl' = [cl EXCEPT ![u] = t] /\ jobs' = jobs \cup {n}
      /\ overtaken' = overtaken /\ log' = log /\ kv' = kv /\ push' = push
      /\ stuck' = stuck /\ astray' = astray
  BY <1>n, <1>0 DEF StartCall, Begins, server
<1>3. t \in Client /\ t.call = c
  BY <1>0, <1>1 DEF Client
<1>t. n \in Job
  BY <1>1, ANewJob
<1>4. n \in Job /\ n.u = u /\ n.fn = "start" /\ n.at = "media" /\ n.call = c /\ n.sdp = c
  BY <1>t DEF NewJob
<1>5. \A k \in Calls : k # c => Party(k)' = Party(k)
  BY <1>2, <1>1, <1>0 DEF Party
<1>6. u \in Party(c)'
  BY <1>2, <1>1, <1>0 DEF Party
<1> HIDE DEF t, n
<1>a. Types'
  BY <1>0, <1>1, <1>2, <1>3, <1>4 DEF Types
<1>b. Dialled'
  <2>1. \A x \in Users : cl'[x].call <= c /\ kv[x].call <= c
    <3> SUFFICES ASSUME NEW x \in Users PROVE cl'[x].call <= c /\ kv[x].call <= c
      OBVIOUS
    <3>0. cl[x].call \in Calls \cup {0} /\ kv[x].call \in Calls \cup {0}
      BY DEF Types, Client, Slot
    <3>1. cl[x].call \in Nat /\ kv[x].call \in Nat
      BY <3>0, CallsAreNumbers
    <3>2. cl[x].call <= dialled /\ kv[x].call <= dialled
      BY DEF Dialled
    <3> QED BY <1>n, <3>1, <3>2, <1>0, <1>2, <1>3
  <2>2. \A j \in jobs : j.call <= c /\ (Waiting(j) => j.sdp <= c)
    <3> SUFFICES ASSUME NEW j \in jobs PROVE j.call <= c /\ (Waiting(j) => j.sdp <= c)
      OBVIOUS
    <3>0. j \in Job
      BY <1>0
    <3>1. j.call \in Calls \cup {0} /\ j.sdp \in Calls \cup {0}
      BY <3>0 DEF Job
    <3>2. j.call \in Nat /\ j.sdp \in Nat
      BY <3>1, CallsAreNumbers
    <3> QED BY <1>n, <3>2, <1>0 DEF Dialled
  <2>3. \A e \in push : e.call <= c
    <3> SUFFICES ASSUME NEW e \in push PROVE e.call <= c
      OBVIOUS
    <3>1. e.call \in Nat
      BY <1>1 DEF Types, Pushed
    <3> QED BY <1>n, <3>1, <1>0 DEF Dialled
  <2>4. \A k \in Calls : k > c => log[k] = "none"
    BY <1>n, <1>0, <1>1 DEF Dialled
  <2> QED BY <2>1, <2>2, <2>3, <2>4, <1>2, <1>4, <1>0, <1>1 DEF Dialled
<1>c. OnlyParties'
  <2> SUFFICES ASSUME NEW k \in Calls \ overtaken
               PROVE  /\ \A x \in Users : cl'[x].call = k \/ kv[x].call = k => x \in Party(k)'
                      /\ \A j \in jobs' : j.call = k => j.u \in Party(k)'
                      /\ \A e \in push : e.call = k => e.to \in Party(k)'
    BY <1>2 DEF OnlyParties, Party
  <2>1. CASE k = c
    BY <2>1, <1>0, <1>1, <1>2, <1>3, <1>4, <1>6 DEF Dialled
  <2>2. CASE k # c
    <3>1. \A x \in Users : cl'[x].call = k => cl[x].call = k
      BY <2>2, <1>0, <1>2, <1>3
    <3> QED BY <3>1, <2>2, <1>2, <1>4, <1>5 DEF OnlyParties
  <2> QED BY <2>1, <2>2
<1>d. OneStart'
  <2>1. \A j \in jobs : Waiting(j) => j.sdp # c
    BY <1>1 DEF Dialled
  <2>2. log[c] = "none"
    BY <1>1 DEF Dialled
  <2> QED BY <2>1, <2>2, <1>1, <1>2, <1>4 DEF OneStart, Waiting
<1>e. Answered'
  BY <1>2, <1>4 DEF Answered, Clearing, Ending, OverARow
<1>f. SlotsCleared'
  BY <1>2 DEF SlotsCleared, Clearing, Ending
<1> QED BY <1>a, <1>b, <1>c, <1>d, <1>e, <1>f

\* A call that counts as overtaken loses nothing but promises.
LEMMA StartMediaKeeps ==
  ASSUME VInv, NEW j \in jobs, StartMedia(j) PROVE VInv'
<1> USE DEF VInv
<1>0. /\ j \in Job /\ j.u \in Users /\ cl[j.u] \in Client /\ j.sdp \in Calls \cup {0} /\ jobs \subseteq Job
      /\ cl \in [Users -> Client] /\ cl[j.u].call \in Calls \cup {0} /\ overtaken \subseteq Calls
      /\ ~Clearing(j)
  BY JobOf DEF Types, Client, StartMedia, Clearing, Ending
<1>h. /\ Fails(cl[j.u]) \in Client /\ Fails(cl[j.u]).call = cl[j.u].call
      /\ Ended(cl[j.u]) \in Client /\ Ended(cl[j.u]).call = cl[j.u].call
  BY <1>0, HelpersKeepTheCall
<1>1. CASE /\ jobs' = jobs \ {j} /\ UNCHANGED overtaken
           /\ cl' = [cl EXCEPT ![j.u] = Ended(@)] \/ cl' = [cl EXCEPT ![j.u] = Fails(@)]
  <2>1. UNCHANGED <<dial, server, push>>
    BY <1>1 DEF StartMedia, dial
  <2>2. cl' = [cl EXCEPT ![j.u] = Ended(cl[j.u])] \/ cl' = [cl EXCEPT ![j.u] = Fails(cl[j.u])]
    BY <1>1
  <2>3. ClientStep
    BY <2>1, <2>2, <1>1, <1>h, <1>0, StageIsClient
  <2> QED BY <2>3, ClientStepKeeps
<1>2. CASE /\ Fine
           /\ cl' = [cl EXCEPT ![j.u] = [cl[j.u] EXCEPT !.pc = j.sdp, !.open = @ \cup {j.sdp}]]
           /\ jobs' = (jobs \ {j}) \cup {[j EXCEPT !.call = cl[j.u].call,
                                          !.at = IF cl[j.u].call = 0 THEN "refused" ELSE "sent"]}
           /\ overtaken' = overtaken \cup ({cl[j.u].call} \ {0, j.sdp})
  <2> DEFINE t == [cl[j.u] EXCEPT !.pc = j.sdp, !.open = cl[j.u].open \cup {j.sdp}]
             c == cl[j.u].call
             n == [j EXCEPT !.call = cl[j.u].call, !.at = IF cl[j.u].call = 0 THEN "refused" ELSE "sent"]
  <2>1. t \in Client /\ t.call = c
    BY <1>0 DEF Client
  <2>2. /\ cl' = [cl EXCEPT ![j.u] = t] /\ jobs' = (jobs \ {j}) \cup {n}
        /\ overtaken' = overtaken \cup ({c} \ {0, j.sdp})
        /\ UNCHANGED <<parties, dialled, log, kv, stuck, astray, push>>
    BY <1>2, <1>0 DEF StartMedia, server
  <2>3. /\ n \in Job /\ n.u = j.u /\ n.fn = "start" /\ n.call = c /\ n.sdp = j.sdp
        /\ c = 0 => n.at = "refused"
        /\ c # 0 => n.at = "sent"
    BY <1>0 DEF Job, StartMedia
  <2>4. Waiting(j) /\ j.call = j.sdp /\ j.sdp # 0
    BY DEF StartMedia, Waiting, OneStart
  <2> HIDE DEF t, n, c
  <2>5. cl' \in [Users -> Client] /\ \A x \in Users : cl'[x].call = cl[x].call
    BY <2>1, <2>2, <1>0 DEF c
  <2>6. c \in Calls \cup {0} /\ overtaken \subseteq overtaken' /\ overtaken' \subseteq Calls
    BY <1>0, <2>2 DEF c
  <2>a. Types'
    BY <2>2, <2>3, <2>5, <2>6, <1>0 DEF Types
  <2>b. Dialled'
    BY <2>2, <2>3, <2>4, <2>5, <1>0 DEF Dialled, c
  <2>c. OnlyParties'
    <3>1. \A k \in Calls : Party(k)' = Party(k)
      BY <2>2 DEF Party
    <3>2. \A k \in Calls \ overtaken : c = k => j.u \in Party(k)
      BY <1>0 DEF OnlyParties, c
    <3> QED BY <3>1, <3>2, <2>2, <2>3, <2>5, <2>6 DEF OnlyParties
  <2>d. OneStart'
    <3>1. \A i, k \in jobs' : Waiting(i) /\ Waiting(k) /\ i.sdp = k.sdp => i = k
      BY <2>2, <2>3, <2>4 DEF OneStart
    <3>2. \A i \in jobs : Waiting(i) =>
            /\ i.call # 0 /\ i.sdp # 0
            /\ i.call # i.sdp => i.at # "media" /\ i.call \in overtaken'
            /\ i.call \notin overtaken' => log'[i.call] = "none"
      BY <2>2, <2>6 DEF OneStart
    <3>3. Waiting(n) => c # 0 /\ n.at # "media"
      BY <2>3 DEF Waiting
    <3>4. c # 0 /\ c # j.sdp => c \in overtaken'
      BY <2>2
    <3>5. c # 0 /\ c \notin overtaken' => log'[c] = "none"
      BY <3>2, <3>4, <2>4
    <3>6. \A i \in jobs' : Waiting(i) =>
            /\ i.call # 0 /\ i.sdp # 0
            /\ i.call # i.sdp => i.at # "media" /\ i.call \in overtaken'
            /\ i.call \notin overtaken' => log'[i.call] = "none"
      BY <3>2, <3>3, <3>4, <3>5, <2>2, <2>3, <2>4
    <3> QED BY <3>1, <3>6 DEF OneStart, Waiting
  <2>e. Answered'
    BY <2>2, <2>3 DEF Answered, Clearing, Ending, OverARow
  <2>f. SlotsCleared'
    BY <2>2, <2>6, <1>0 DEF SlotsCleared, Clearing, Ending
  <2> QED BY <2>a, <2>b, <2>c, <2>d, <2>e, <2>f
<1> QED BY <1>1, <1>2 DEF StartMedia

LEMMA RingReadKeeps ==
  ASSUME VInv, NEW j \in jobs, RingRead(j) PROVE VInv'
<1> USE DEF VInv
<1>0. PICK a \in {"read", "refused"} : jobs' = (jobs \ {j}) \cup {[j EXCEPT !.at = a]}
  BY DEF RingRead, Goes
<1> DEFINE n == [j EXCEPT !.at = a]
<1>t. j \in Job /\ n \in Job
  BY JobOf
<1>1. /\ n \in Job /\ n.u = j.u /\ n.fn = "start" /\ n.call = j.call /\ n.sdp = j.sdp /\ n.at = a
      /\ jobs' = (jobs \ {j}) \cup {n}
  BY <1>0, <1>t DEF RingRead, Job
<1>2. Waiting(j) /\ ~Clearing(j) /\ n.at # "media" /\ n.fn # "accept"
  BY <1>1 DEF RingRead, Waiting, Clearing, Ending
<1>3. UNCHANGED <<parties, dialled, overtaken, log, kv, stuck, astray, push, cl>>
  BY DEF RingRead, dial, server
<1> HIDE DEF n
<1>a. Types'
  BY <1>1, <1>3 DEF Types
<1>b. Dialled'
  BY <1>1, <1>2, <1>3 DEF Dialled
<1>c. OnlyParties'
  BY <1>1, <1>3 DEF OnlyParties, Party
<1>d. OneStart'
  <2>1. \A i, k \in jobs' : Waiting(i) /\ Waiting(k) /\ i.sdp = k.sdp => i = k
    BY <1>1, <1>2 DEF OneStart
  <2>2. \A i \in jobs' : Waiting(i) =>
          /\ i.call # 0 /\ i.sdp # 0
          /\ i.call # i.sdp => i.at # "media" /\ i.call \in overtaken
          /\ i.call \notin overtaken => log[i.call] = "none"
    BY <1>1, <1>2 DEF OneStart
  <2> QED BY <2>1, <2>2, <1>3 DEF OneStart, Waiting
<1>e. Answered'
  <2>1. n.call # 0
    BY <1>1, <1>2 DEF OneStart
  <2> QED BY <2>1, <1>1, <1>2, <1>3 DEF Answered, OverARow
<1>f. SlotsCleared'
  BY <1>1, <1>2, <1>3 DEF SlotsCleared, Clearing, Ending
<1> QED BY <1>a, <1>b, <1>c, <1>d, <1>e, <1>f

\* What a put of busy slots does: those of some users name the call.
LEMMA PutsAre ==
  ASSUME Types, NEW c \in Calls, NEW us \in SUBSET Users, NEW both \in SUBSET Users, us \subseteq both,
         NEW slots \in [both -> {"calling", "ringing", "connected"}], Puts(c, slots, us)
  PROVE  /\ kv' \in [Users -> Slot] /\ stuck' = stuck \ us
         /\ \A x \in Users : IF x \in us THEN kv'[x].call = c ELSE kv'[x] = kv[x]
<1>1. \A x \in us : [state |-> slots[x], call |-> c] \in Slot
  BY DEF Slot
<1> QED BY <1>1 DEF Puts, Types

\* A call is rung before it has a row, or else it counts as overtaken.
LEMMA RingPutKeeps ==
  ASSUME VInv, NEW j \in jobs, RingPut(j) PROVE VInv'
<1> USE DEF VInv
<1> DEFINE c == j.call
           to == parties[j.sdp].to
           both == {j.u, parties[j.sdp].to}
<1>0. PICK us \in SUBSET both :
         /\ Puts(j.call, [u \in both |-> IF u = j.u THEN "calling" ELSE "ringing"], us)
         /\ Goes(j, IF us = both THEN "put" ELSE "refused")
  BY DEF RingPut
<1>p. PICK a \in {"put", "refused"} : jobs' = (jobs \ {j}) \cup {[j EXCEPT !.at = a]}
  BY <1>0 DEF Goes
<1> DEFINE n == [j EXCEPT !.at = a]
<1>t. j \in Job /\ n \in Job
  BY JobOf
<1>1. /\ j \in Job /\ n \in Job /\ n.u = j.u /\ n.fn = "start" /\ n.call = c /\ n.sdp = j.sdp /\ n.at = a
      /\ jobs' = (jobs \ {j}) \cup {n}
  BY <1>p, <1>t DEF RingPut, Job
<1>2. Waiting(j) /\ ~Clearing(j) /\ ~Clearing(n) /\ n.at # "media" /\ n.fn # "accept"
  BY <1>1 DEF RingPut, Waiting, Clearing, Ending
<1>3. UNCHANGED <<parties, dialled, overtaken, log, astray, push, cl>>
  BY DEF RingPut, dial
<1>4. c \in Calls /\ j.sdp \in Calls /\ j.u \in Users /\ to \in Users
  BY <1>1, <1>2 DEF OneStart, Job, Types
<1>5. c <= dialled
  BY DEF Dialled
<1>8. c \notin overtaken => c = j.sdp /\ both \subseteq Party(c) /\ log[c] = "none"
  BY <1>2, <1>4 DEF OneStart, Party, OnlyParties
<1>9. /\ kv' \in [Users -> Slot] /\ stuck' = stuck \ us
      /\ \A x \in Users : IF x \in us THEN kv'[x].call = c ELSE kv'[x] = kv[x]
  <2> DEFINE slots == [u \in both |-> IF u = j.u THEN "calling" ELSE "ringing"]
  <2>1. slots \in [both -> {"calling", "ringing", "connected"}] /\ both \in SUBSET Users /\ us \in SUBSET Users
    BY <1>4
  <2>2. Puts(c, slots, us)
    BY <1>0
  <2> HIDE DEF slots, both
  <2> QED BY <2>1, <2>2, <1>4, PutsAre
<1> HIDE DEF n, c, to, both
<1>a. Types'
  BY <1>1, <1>3, <1>9 DEF Types
<1>b. Dialled'
  <2>1. \A x \in Users : kv'[x].call <= dialled
    BY <1>5, <1>9 DEF Dialled
  <2> QED BY <2>1, <1>1, <1>2, <1>3 DEF Dialled, c
<1>c. OnlyParties'
  <2>1. \A k \in Calls : Party(k)' = Party(k)
    BY <1>3 DEF Party
  <2>2. \A k \in Calls \ overtaken : \A x \in Users : kv'[x].call = k => x \in Party(k)
    BY <1>8, <1>9 DEF OnlyParties
  <2> QED BY <2>1, <2>2, <1>1, <1>3 DEF OnlyParties, c
<1>d. OneStart'
  <2>1. \A i, k \in jobs' : Waiting(i) /\ Waiting(k) /\ i.sdp = k.sdp => i = k
    BY <1>1, <1>2 DEF OneStart
  <2>2. \A i \in jobs' : Waiting(i) =>
          /\ i.call # 0 /\ i.sdp # 0
          /\ i.call # i.sdp => i.at # "media" /\ i.call \in overtaken
          /\ i.call \notin overtaken => log[i.call] = "none"
    BY <1>1, <1>2 DEF OneStart, c
  <2> QED BY <2>1, <2>2, <1>3 DEF OneStart, Waiting
<1>e. Answered'
  <2>1. c # 0
    BY <1>4 DEF Calls
  <2> QED BY <2>1, <1>1, <1>2, <1>3 DEF Answered, OverARow
<1>f. SlotsCleared'
  <2> SUFFICES ASSUME NEW x \in Users, kv'[x].call # 0, log[kv'[x].call] \in Final,
                      kv'[x].call \notin overtaken \cup astray, x \notin stuck'
               PROVE  \E i \in jobs' : i.call = kv'[x].call /\ Clearing(i)
    BY <1>3 DEF SlotsCleared, Clearing, Ending
  <2>1. "none" \notin Final
    BY DEF Final
  <2>2. x \notin us
    BY <2>1, <1>8, <1>9
  <2>3. kv'[x] = kv[x] /\ x \notin stuck
    BY <2>2, <1>9
  <2>4. PICK i \in jobs : i.call = kv[x].call /\ Clearing(i)
    BY <2>3 DEF SlotsCleared
  <2>5. i \in jobs'
    BY <2>4, <1>1, <1>2
  <2> QED BY <2>3, <2>4, <2>5
<1> QED BY <1>a, <1>b, <1>c, <1>d, <1>e, <1>f

\* The row of a call that was not overtaken is new.
LEMMA RingWriteKeeps ==
  ASSUME VInv, NEW j \in jobs, RingWrite(j) PROVE VInv'
<1> USE DEF VInv
<1> DEFINE c == j.call
           to == parties[j.sdp].to
<1>0. PICK a \in {"rang", "refused"} : jobs' = (jobs \ {j}) \cup {[j EXCEPT !.at = a]}
  BY DEF RingWrite, Goes
<1> DEFINE n == [j EXCEPT !.at = a]
<1>t. j \in Job /\ n \in Job
  BY JobOf
<1>1. /\ j \in Job /\ n \in Job /\ n.u = j.u /\ n.fn = "start" /\ n.call = c /\ n.sdp = j.sdp /\ n.at = a
      /\ jobs' = (jobs \ {j}) \cup {n}
  BY <1>0, <1>t DEF RingWrite, Job
<1>2. Waiting(j) /\ ~Clearing(j) /\ ~Waiting(n) /\ ~Clearing(n) /\ n.fn # "accept" /\ ~OverARow(n)
  BY <1>0, <1>1 DEF RingWrite, Waiting, Clearing, Ending, OverARow
<1>3. UNCHANGED <<parties, dialled, overtaken, cl, kv, stuck, astray>>
  BY DEF RingWrite, dial
<1>4. c \in Calls /\ j.sdp \in Calls /\ j.u \in Users /\ to \in Users
  BY <1>1, <1>2 DEF OneStart, Job, Types
<1>5. /\ push' = push \cup {Event(to, "ring", c, j.sdp)}
      /\ log' = log \/ log' = [log EXCEPT ![c] = IF log[c] = "none" THEN "ringing" ELSE log[c]]
  BY DEF RingWrite
<1> DEFINE ev == Event(to, "ring", c, j.sdp)
<1>6. ev \in Pushed /\ ev.call = c /\ ev.to = to
  BY <1>4 DEF Event, Pushed
<1>7. c <= dialled /\ log \in [Calls -> Final \cup {"none", "ringing", "connected"}]
  BY <1>2 DEF Dialled, Types
<1>8. c \notin overtaken => c = j.sdp /\ to \in Party(c)
  BY <1>2, <1>4 DEF OneStart, Party
<1>9. /\ \A k \in Calls : k # c => log'[k] = log[k]
      /\ log'[c] \in {log[c], "ringing"}
      /\ log[c] # "none" => log'[c] = log[c]
      /\ log' \in [Calls -> Final \cup {"none", "ringing", "connected"}]
  BY <1>5, <1>7, <1>4
<1> HIDE DEF n, ev, c, to
<1>a. Types'
  BY <1>1, <1>3, <1>5, <1>6, <1>9 DEF Types, ev, c, to
<1>b. Dialled'
  <2>2. \A k \in Calls : k > dialled => log'[k] = "none"
    <3> SUFFICES ASSUME NEW k \in Calls, k > dialled PROVE log'[k] = "none"
      OBVIOUS
    <3>1. k # c
      BY <1>7 DEF Calls, Types
    <3> QED BY <3>1, <1>9 DEF Dialled
  <2>3. \A e \in push' : e.call <= dialled
    BY <1>5, <1>6, <1>7 DEF Dialled, ev, c, to
  <2> QED BY <2>2, <2>3, <1>1, <1>2, <1>3 DEF Dialled, c
<1>c. OnlyParties'
  <2>1. \A k \in Calls : Party(k)' = Party(k)
    BY <1>3 DEF Party
  <2>3. \A k \in Calls \ overtaken : \A e \in push' : e.call = k => e.to \in Party(k)
    BY <1>5, <1>6, <1>8 DEF OnlyParties, ev, c, to
  <2> QED BY <2>1, <2>3, <1>1, <1>3 DEF OnlyParties, c
<1>d. OneStart'
  <2>1. \A i \in jobs' : Waiting(i) => i \in jobs /\ i # j
    BY <1>1, <1>2
  <2>2. \A i \in jobs : Waiting(i) /\ i # j /\ i.call \notin overtaken => i.call # c
    BY <1>2, <1>8 DEF OneStart, c
  <2>3. \A i \in jobs' : Waiting(i) /\ i.call \notin overtaken => log'[i.call] = "none"
    <3> SUFFICES ASSUME NEW i \in jobs', Waiting(i), i.call \notin overtaken PROVE log'[i.call] = "none"
      OBVIOUS
    <3>1. i.call \in Calls /\ log[i.call] = "none"
      BY <2>1 DEF OneStart, Types, Job
    <3> QED BY <3>1, <2>1, <2>2, <1>9
  <2>4. \A i \in jobs' : Waiting(i) =>
          /\ i.call # 0 /\ i.sdp # 0
          /\ i.call # i.sdp => i.at # "media" /\ i.call \in overtaken
    BY <2>1 DEF OneStart
  <2>5. \A i, k \in jobs' : Waiting(i) /\ Waiting(k) /\ i.sdp = k.sdp => i = k
    BY <2>1 DEF OneStart
  <2> QED BY <2>3, <2>4, <2>5, <1>3 DEF OneStart, Waiting
<1>e. Answered'
  <2>0. \A i \in jobs' : OverARow(i) => i.call # 0
    BY <1>1, <1>2 DEF Answered
  <2> SUFFICES ASSUME NEW i \in jobs', i.fn = "accept"
               PROVE  /\ i.at = "sent" => i.call # 0
                      /\ i.at \in {"read", "logged"} => log'[i.call] # "none"
    BY <2>0 DEF Answered, OverARow
  <2>1. i \in jobs /\ i.call \in Calls \cup {0}
    BY <1>1, <1>2 DEF Types, Job
  <2> QED BY <2>1, <1>9 DEF Answered, OverARow
<1>f. SlotsCleared'
  <2> SUFFICES ASSUME NEW x \in Users, kv[x].call # 0, log'[kv[x].call] \in Final,
                      kv[x].call \notin overtaken \cup astray, x \notin stuck
               PROVE  \E i \in jobs' : i.call = kv[x].call /\ Clearing(i)
    BY <1>3 DEF SlotsCleared, Clearing, Ending
  <2>1. kv[x].call \in Calls /\ "ringing" \notin Final /\ "none" \notin Final
    BY DEF Slot, Final, Types
  <2>2. log[kv[x].call] \in Final
    BY <2>1, <1>9
  <2>3. PICK i \in jobs : i.call = kv[x].call /\ Clearing(i)
    BY <2>1, <2>2 DEF SlotsCleared
  <2>4. i \in jobs'
    BY <2>3, <1>1, <1>2
  <2> QED BY <2>3, <2>4
<1> QED BY <1>a, <1>b, <1>c, <1>d, <1>e, <1>f

\* An answer puts the slots of the two who are on the call; if the call is over
\* by now, its request goes on to say that it is not, or went astray.
LEMMA AnswerPutKeeps ==
  ASSUME VInv, NEW j \in jobs, AnswerPut(j) PROVE VInv'
<1> USE DEF VInv
<1> DEFINE both == {j.u, Peer(j.call, j.u)}
<1>0. PICK us \in SUBSET both :
         /\ Puts(j.call, [u \in both |-> "connected"], us)
         /\ IF us = both THEN Goes(j, "logged") /\ UNCHANGED astray
            ELSE Goes(j, "refused") /\ astray' = astray \cup Unlogged(j)
  BY DEF AnswerPut
<1>p. PICK a \in {"logged", "refused"} :
         /\ jobs' = (jobs \ {j}) \cup {[j EXCEPT !.at = a]}
         /\ a = "logged" => UNCHANGED astray
         /\ a = "refused" => astray' = astray \cup Unlogged(j)
  BY <1>0 DEF Goes
<1> DEFINE n == [j EXCEPT !.at = a]
<1>t. j \in Job /\ n \in Job
  BY JobOf
<1>1. /\ j \in Job /\ n \in Job /\ n.u = j.u /\ n.fn = "accept" /\ n.call = j.call /\ n.at = a
      /\ jobs' = (jobs \ {j}) \cup {n}
  BY <1>p, <1>t DEF AnswerPut, Job
<1>2. /\ ~Waiting(j) /\ ~Clearing(j) /\ ~Waiting(n) /\ j.call # 0 /\ log[j.call] # "none"
      /\ a = "logged" => Clearing(n)
  BY <1>1 DEF AnswerPut, Waiting, Clearing, Ending, Answered, OverARow
<1>3. UNCHANGED <<parties, dialled, overtaken, log, push, cl>>
  BY DEF AnswerPut, dial
<1>4. j.call \in Calls /\ j.u \in Users /\ Peer(j.call, j.u) \in Users /\ j.call <= dialled
  BY <1>1, <1>2 DEF Job, Types, Peer, Dialled
<1>8. j.call \notin overtaken => both \subseteq Party(j.call)
  BY <1>4 DEF OnlyParties, Party, Peer
<1>9. /\ kv' \in [Users -> Slot] /\ stuck' = stuck \ us
      /\ \A x \in Users : IF x \in us THEN kv'[x].call = j.call ELSE kv'[x] = kv[x]
  <2> DEFINE slots == [u \in both |-> "connected"]
  <2>1. slots \in [both -> {"calling", "ringing", "connected"}] /\ both \in SUBSET Users /\ us \in SUBSET Users
    BY <1>4
  <2>2. Puts(j.call, slots, us)
    BY <1>0
  <2> HIDE DEF slots, both
  <2> QED BY <2>1, <2>2, <1>4, PutsAre
<1>10. /\ astray \subseteq astray' /\ astray' \subseteq Calls
       /\ a = "refused" /\ log[j.call] \in Final => j.call \in astray'
  BY <1>p, <1>4 DEF Unlogged, Types
<1> HIDE DEF n, both
<1>a. Types'
  BY <1>1, <1>3, <1>9, <1>10 DEF Types
<1>b. Dialled'
  <2>1. \A x \in Users : kv'[x].call <= dialled
    BY <1>4, <1>9 DEF Dialled
  <2> QED BY <2>1, <1>1, <1>2, <1>3 DEF Dialled
<1>c. OnlyParties'
  <2>1. \A k \in Calls : Party(k)' = Party(k)
    BY <1>3 DEF Party
  <2>2. \A k \in Calls \ overtaken : \A x \in Users : kv'[x].call = k => x \in Party(k)
    BY <1>8, <1>9 DEF OnlyParties
  <2> QED BY <2>1, <2>2, <1>1, <1>3 DEF OnlyParties
<1>d. OneStart'
  <2>1. \A i \in jobs' : Waiting(i) => i \in jobs
    BY <1>1, <1>2
  <2> QED BY <2>1, <1>3 DEF OneStart, Waiting
<1>e. Answered'
  BY <1>1, <1>2, <1>3 DEF Answered, OverARow
<1>f. SlotsCleared'
  <2> SUFFICES ASSUME NEW x \in Users, kv'[x].call # 0, log[kv'[x].call] \in Final,
                      kv'[x].call \notin overtaken \cup astray', x \notin stuck'
               PROVE  \E i \in jobs' : i.call = kv'[x].call /\ Clearing(i)
    BY <1>3 DEF SlotsCleared, Clearing, Ending
  <2>1. CASE kv'[x].call = j.call
    BY <2>1, <1>1, <1>2, <1>10
  <2>2. CASE kv'[x].call # j.call
    <3>1. kv'[x] = kv[x] /\ x \notin stuck /\ kv[x].call \notin astray
      BY <2>2, <1>9, <1>10
    <3>2. PICK i \in jobs : i.call = kv[x].call /\ Clearing(i)
      BY <3>1 DEF SlotsCleared
    <3> QED BY <3>1, <3>2, <2>2, <1>1
  <2> QED BY <2>1, <2>2
<1> QED BY <1>a, <1>b, <1>c, <1>d, <1>e, <1>f

\* The row of a call that is being answered may be over by now; unless it cannot
\* be written, it is not over afterwards.
LEMMA AnswerWriteKeeps ==
  ASSUME VInv, NEW j \in jobs, AnswerWrite(j) PROVE VInv'
<1> USE DEF VInv
<1>0. /\ j \in Job /\ j.u \in Users /\ j.call # 0 /\ j.call \in Calls /\ ~Waiting(j)
      /\ log[j.call] # "none" /\ log \in [Calls -> Final \cup {"none", "ringing", "connected"}]
  BY JobOf DEF AnswerWrite, Answered, Waiting, Types, OverARow
<1>n. PICK a \in {"answered", "refused"} : jobs' = (jobs \ {j}) \cup {[j EXCEPT !.at = a]}
  BY DEF AnswerWrite, Goes
<1> DEFINE n == [j EXCEPT !.at = a]
           ev == Event(Peer(j.call, j.u), "answer", j.call, j.sdp)
<1>t. n \in Job
  BY JobOf
<1>1. /\ n.u = j.u /\ n.fn = "accept" /\ n.at = a /\ n.call = j.call
      /\ ~Waiting(n) /\ ~OverARow(n) /\ jobs' = (jobs \ {j}) \cup {n}
  BY <1>n, <1>0, <1>t DEF AnswerWrite, Job, Waiting, OverARow
<1>2. UNCHANGED <<parties, dialled, overtaken, kv, stuck, cl>> /\ push' = push \cup {ev}
  BY DEF AnswerWrite, dial
<1>w. \/ log' = [log EXCEPT ![j.call] = "connected"] /\ astray' = astray
      \/ log' = log /\ astray' = astray \cup Unlogged(j)
  BY DEF AnswerWrite, AfterAnswer
<1>6. /\ astray \subseteq astray' /\ astray' \subseteq Calls
      /\ log' \in [Calls -> Final \cup {"none", "ringing", "connected"}]
      /\ \A k \in Calls : (k # j.call => log'[k] = log[k]) /\ (log[k] # "none" <=> log'[k] # "none")
      /\ log'[j.call] \in Final => j.call \in astray'
  BY <1>w, <1>0 DEF Unlogged, Types, Final
<1>3. Peer(j.call, j.u) \in Party(j.call) /\ Peer(j.call, j.u) \in Users
  BY <1>0 DEF Peer, Party, Types
<1>4. ev \in Pushed /\ ev.call = j.call /\ ev.to \in Party(j.call)
  BY <1>0, <1>3 DEF Event, Pushed, Job
<1>5. j.call <= dialled
  BY DEF Dialled
<1> HIDE DEF n, ev
<1>a. Types'
  BY <1>1, <1>2, <1>4, <1>6, <1>t DEF Types
<1>b. Dialled'
  BY <1>1, <1>2, <1>4, <1>5, <1>6 DEF Dialled
<1>c. OnlyParties'
  <2>1. \A k \in Calls : Party(k)' = Party(k)
    BY <1>2 DEF Party
  <2> QED BY <2>1, <1>0, <1>1, <1>2, <1>4 DEF OnlyParties
<1>d. OneStart'
  <2>1. \A i \in jobs' : Waiting(i) => i \in jobs /\ i.call \in Calls \cup {0}
    BY <1>1 DEF Types, Job
  <2>2. \A i \in jobs' : Waiting(i) /\ i.call \notin overtaken => log'[i.call] = "none"
    BY <2>1, <1>6 DEF OneStart
  <2> QED BY <2>1, <2>2, <1>2 DEF OneStart, Waiting
<1>e. Answered'
  <2>1. \A i \in jobs' : OverARow(i) \/ i.at = "sent" => i \in jobs /\ i.call \in Calls \cup {0}
    BY <1>1 DEF Types, Job
  <2> QED BY <2>1, <1>6 DEF Answered, OverARow
<1>f. SlotsCleared'
  <2> SUFFICES ASSUME NEW x \in Users, kv[x].call # 0, log'[kv[x].call] \in Final,
                      kv[x].call \notin overtaken \cup astray', x \notin stuck
               PROVE  \E i \in jobs' : i.call = kv[x].call /\ Clearing(i)
    BY <1>2 DEF SlotsCleared, Clearing, Ending
  <2>1. kv[x].call \in Calls /\ kv[x].call # j.call
    BY <1>6 DEF Types, Slot
  <2>2. PICK i \in jobs : i.call = kv[x].call /\ Clearing(i)
    BY <2>1, <1>6 DEF SlotsCleared
  <2> QED BY <2>1, <2>2, <1>1
<1> QED BY <1>a, <1>b, <1>c, <1>d, <1>e, <1>f

\* What a client that ended a call cleans up.
LEMMA OverKeepsTheCall ==
  ASSUME VInv, NEW j \in jobs, Over(j)
  PROVE  /\ cl' \in [Users -> Client] /\ jobs' = jobs \ {j}
         /\ \A x \in Users : cl'[x].call = cl[x].call
<1>0. j.u \in Users /\ cl \in [Users -> Client] /\ cl[j.u] \in Client
  BY DEF VInv, Types, Job
<1>1. /\ ScheduleReset(HardReset(cl[j.u])) \in Client
      /\ ScheduleReset(HardReset(cl[j.u])).call = cl[j.u].call
  BY <1>0, HelpersKeepTheCall
<1>2. cl' = [cl EXCEPT ![j.u] = ScheduleReset(HardReset(cl[j.u]))] \/ cl' = cl
  BY DEF Over
<1> QED BY <1>0, <1>1, <1>2 DEF Over

\* The row is closed, and the request goes on to clear the slots.
LEMMA EndLogKeeps ==
  ASSUME VInv, NEW j \in jobs, EndLog(j) PROVE VInv'
<1> USE DEF VInv
<1>0. /\ j \in Job /\ j.u \in Users /\ j.call \in Calls /\ j.call # 0 /\ ~Clearing(j) /\ ~Waiting(j)
      /\ j.fn \in {"cancel", "hangup", "decline"} /\ j.at \in {"read", "blind"} /\ jobs \subseteq Job
      /\ log \in [Calls -> Final \cup {"none", "ringing", "connected"}]
  BY JobOf DEF EndLog, Clearing, Ending, Waiting, Types, Answered, OverARow
<1>n. PICK a \in {"logged", "alone"} :
         /\ jobs' = (jobs \ {j}) \cup {[j EXCEPT !.at = a]}
         /\ a = "logged" <=> j.at = "read"
  BY <1>0 DEF EndLog, Goes
<1> DEFINE n == [j EXCEPT !.at = a]
           s == IF log[j.call] = "none" THEN "none" ELSE StatusOf(j.fn)
<1>t. n \in Job
  BY JobOf
<1>1. /\ n.u = j.u /\ n.fn = j.fn /\ n.at = a /\ n.call = j.call /\ ~Waiting(n)
      /\ jobs' = (jobs \ {j}) \cup {n}
      /\ j.at = "read" => Clearing(n)
  BY <1>n, <1>t, <1>0 DEF Job, Waiting, Clearing, Ending
<1>2. /\ UNCHANGED <<parties, dialled, overtaken, kv, stuck, push, cl>>
      /\ log' = [log EXCEPT ![j.call] = s] \/ log' = log
      /\ astray' = IF j.at = "blind" /\ log[j.call] # "none" THEN astray \cup {j.call} ELSE astray
  BY <1>0 DEF EndLog, dial
<1>3. s \in Final \cup {"none"} /\ (s = "none" <=> log[j.call] = "none") /\ "none" \notin Final
  BY <1>0 DEF StatusOf, Final
<1> HIDE DEF n, s
<1>5. /\ \A k \in Calls : /\ log'[k] = "none" <=> log[k] = "none"
                          /\ k # j.call => log'[k] = log[k]
      /\ log' \in [Calls -> Final \cup {"none", "ringing", "connected"}]
  BY <1>2, <1>3, <1>0
<1>6. /\ astray \subseteq astray' /\ astray' \subseteq Calls
      /\ j.at = "blind" /\ log[j.call] # "none" => j.call \in astray'
  BY <1>2, <1>0 DEF Types
<1>a. Types'
  BY <1>1, <1>2, <1>5, <1>6, <1>t DEF Types
<1>b. Dialled'
  BY <1>1, <1>2, <1>5 DEF Dialled
<1>c. OnlyParties'
  <2>1. \A k \in Calls : Party(k)' = Party(k)
    BY <1>2 DEF Party
  <2> QED BY <2>1, <1>1, <1>2 DEF OnlyParties
<1>d. OneStart'
  <2>1. \A i \in jobs' : Waiting(i) => i \in jobs /\ i.call \in Calls \cup {0}
    BY <1>1, <1>0 DEF Job
  <2> QED BY <2>1, <1>2, <1>5 DEF OneStart, Waiting
<1>e. Answered'
  <2>1. \A i \in jobs' : i.fn = "accept" => i \in jobs /\ i.call \in Calls \cup {0}
    BY <1>1, <1>0 DEF Job
  <2>2. \A i \in jobs' : OverARow(i) => i.call # 0
    BY <1>1, <1>0 DEF Answered
  <2> QED BY <2>1, <2>2, <1>5 DEF Answered, OverARow
<1>f. SlotsCleared'
  <2> SUFFICES ASSUME NEW x \in Users, kv[x].call # 0, log'[kv[x].call] \in Final,
                      kv[x].call \notin overtaken \cup astray', x \notin stuck
               PROVE  \E i \in jobs' : i.call = kv[x].call /\ Clearing(i)
    BY <1>2 DEF SlotsCleared, Clearing, Ending
  <2>1. kv[x].call \in Calls
    BY DEF Types, Slot
  <2>2. CASE kv[x].call = j.call
    BY <2>1, <2>2, <1>0, <1>1, <1>3, <1>5, <1>6
  <2>3. CASE kv[x].call # j.call
    <3>1. PICK i \in jobs : i.call = kv[x].call /\ Clearing(i)
      BY <2>1, <2>3, <1>5, <1>6 DEF SlotsCleared
    <3> QED BY <3>1, <1>1, <1>0
  <2> QED BY <2>2, <2>3
<1> QED BY <1>a, <1>b, <1>c, <1>d, <1>e, <1>f

\* The slots of both parties go; nobody else's slot names the call.
LEMMA EndClearKeeps ==
  ASSUME VInv, NEW j \in jobs, EndClear(j) PROVE VInv'
<1> USE DEF VInv
<1> DEFINE peer == IF j.at = "logged" THEN {Peer(j.call, j.u)} ELSE {}
           us == {j.u} \cup peer
<1>0. /\ j \in Job /\ j.u \in Users /\ j.call \in Calls \cup {0} /\ ~Waiting(j) /\ j.fn # "accept"
      /\ jobs \subseteq Job
  BY JobOf DEF EndClear, Ending, Waiting, Types
<1>k. PICK kept \in SUBSET us : /\ kv' = Cleared(us \ kept)
                                /\ stuck' = (stuck \ us) \cup kept
  BY DEF EndClear
<1>1. /\ UNCHANGED <<parties, dialled, overtaken, log, astray>> /\ Over(j)
      /\ push' = push \cup {Event(p, "end", j.call, 0) : p \in peer}
  BY DEF EndClear, dial
<1>2. /\ cl' \in [Users -> Client] /\ jobs' = jobs \ {j}
      /\ \A x \in Users : cl'[x].call = cl[x].call
  BY <1>1, OverKeepsTheCall
<1>3. kv' \in [Users -> Slot] /\ \A x \in Users : kv'[x] = IF x \in us \ kept THEN Idle ELSE kv[x]
  BY <1>k DEF Cleared, Types, Slot, Idle
<1>4. j.call # 0 => Peer(j.call, j.u) \in Users /\ parties[j.call] \in [from : Users, to : Users]
  BY <1>0 DEF Types, Peer
<1>5. j.at = "logged" /\ j.call # 0 /\ j.call \notin overtaken => Party(j.call) \subseteq us
  <2> SUFFICES ASSUME j.call \in Calls \ overtaken PROVE Party(j.call) \subseteq {j.u, Peer(j.call, j.u)}
    BY <1>0
  <2>1. j.u \in Party(j.call)
    BY DEF OnlyParties
  <2> QED BY <2>1 DEF Party, Peer
<1>6. j.at = "logged" => Clearing(j) /\ j.call # 0 /\ j.call <= dialled
  BY DEF EndClear, Clearing, Answered, Dialled, OverARow
<1>7. \A e \in push' : e \in push \/ (e \in Pushed /\ e.call = j.call /\ j.call # 0 /\ e.to = Peer(j.call, j.u))
  BY <1>0, <1>1, <1>4, <1>6 DEF Event, Pushed
<1>8. stuck' \subseteq Users
  BY <1>0, <1>4, <1>6, <1>k DEF Types
<1> HIDE DEF us, peer
<1>a. Types'
  BY <1>1, <1>2, <1>3, <1>7, <1>8 DEF Types
<1>b. Dialled'
  <2>1. \A x \in Users : kv'[x].call <= dialled
    BY <1>3 DEF Dialled, Idle, Types
  <2>2. \A e \in push' : e.call <= dialled
    BY <1>7 DEF Dialled
  <2> QED BY <2>1, <2>2, <1>1, <1>2 DEF Dialled
<1>c. OnlyParties'
  <2>1. \A k \in Calls : Party(k)' = Party(k)
    BY <1>1 DEF Party
  <2> SUFFICES ASSUME NEW k \in Calls \ overtaken
               PROVE  /\ \A x \in Users : cl'[x].call = k \/ kv'[x].call = k => x \in Party(k)
                      /\ \A i \in jobs' : i.call = k => i.u \in Party(k)
                      /\ \A e \in push' : e.call = k => e.to \in Party(k)
    BY <1>1, <2>1 DEF OnlyParties
  <2>2. \A e \in push' : e.call = k => e.to \in Party(k)
    BY <1>7 DEF OnlyParties, Party, Peer
  <2>3. \A x \in Users : kv'[x].call = k => x \in Party(k)
    BY <1>3 DEF OnlyParties, Idle, Calls
  <2> QED BY <2>2, <2>3, <1>2 DEF OnlyParties
<1>d. OneStart'
  BY <1>1, <1>2 DEF OneStart, Waiting
<1>e. Answered'
  BY <1>1, <1>2 DEF Answered, Clearing, Ending, OverARow
<1>f. SlotsCleared'
  <2> SUFFICES ASSUME NEW x \in Users, kv'[x].call # 0, log[kv'[x].call] \in Final,
                      kv'[x].call \notin overtaken \cup astray, x \notin stuck'
               PROVE  \E i \in jobs' : i.call = kv'[x].call /\ Clearing(i)
    BY <1>1 DEF SlotsCleared, Clearing, Ending
  <2>a. x \notin us \ kept
    BY <1>3 DEF Idle
  <2>b. x \notin us /\ x \notin stuck
    BY <2>a, <1>k
  <2>1. x \notin us /\ x \notin stuck /\ kv'[x] = kv[x] /\ kv[x].call \in Calls
    BY <2>b, <1>3 DEF Types, Slot
  <2>2. PICK i \in jobs : i.call = kv[x].call /\ Clearing(i)
    BY <2>1 DEF SlotsCleared
  <2>3. x \in Party(kv[x].call)
    BY <2>1 DEF OnlyParties
  <2>4. i # j
    BY <2>1, <2>2, <2>3, <1>5 DEF Clearing
  <2> QED BY <2>1, <2>2, <2>4, <1>2
<1> QED BY <1>a, <1>b, <1>c, <1>d, <1>e, <1>f

LEMMA ExpireKeeps ==
  ASSUME VInv, NEW u \in Users, Expire(u) PROVE VInv'
<1> USE DEF VInv
<1>1. /\ UNCHANGED <<parties, dialled, overtaken, log, astray, push, cl, jobs>>
      /\ kv' = [kv EXCEPT ![u] = Idle] /\ stuck' = stuck \ {u}
  BY DEF Expire, dial
<1>2. kv' \in [Users -> Slot] /\ \A x \in Users : kv'[x] = Idle \/ (kv'[x] = kv[x] /\ x # u)
  BY <1>1 DEF Types, Slot, Idle
<1>a. Types'
  BY <1>1, <1>2 DEF Types
<1>b. Dialled'
  BY <1>1, <1>2 DEF Dialled, Idle, Types
<1>c. OnlyParties'
  <2>1. \A k \in Calls : k # 0
    BY DEF Calls
  <2> QED BY <2>1, <1>1, <1>2 DEF OnlyParties, Party, Idle
<1>d. OneStart'
  BY <1>1 DEF OneStart, Waiting
<1>e. Answered'
  BY <1>1 DEF Answered, Clearing, Ending, OverARow
<1>f. SlotsCleared'
  BY <1>1, <1>2 DEF SlotsCleared, Clearing, Ending, Idle
<1> QED BY <1>a, <1>b, <1>c, <1>d, <1>e, <1>f

\* A page that was closed: its requests that reached the Worker go on.
LEMMA CrashKeeps ==
  ASSUME VInv, NEW u \in Users, Crash(u) PROVE VInv'
<1> USE DEF VInv
<1> DEFINE Left(i) == [i EXCEPT !.own = FALSE]
<1>0. jobs \subseteq Job /\ cl \in [Users -> Client]
  BY DEF Types
<1>1. /\ UNCHANGED <<parties, dialled, overtaken, log, kv, stuck, astray, push>> /\ cl' = [cl EXCEPT ![u] = Fresh]
      /\ jobs' = {j \in jobs : j.u # u} \cup
                 {Left(j) : j \in {k \in MyJobs(u) : k.at \in {"sent", "read", "blind", "put", "logged", "alone"}}}
  BY DEF Crash, dial, server
<1>2. Fresh \in Client /\ Fresh.call = 0
  BY DEF Fresh, Client
<1>3. \A i \in jobs : /\ Left(i) \in Job /\ Left(i).u = i.u /\ Left(i).fn = i.fn /\ Left(i).call = i.call
                      /\ Left(i).sdp = i.sdp /\ Left(i).at = i.at
  BY <1>0 DEF Job
<1>4. \A n \in jobs' : n \in Job /\ \E i \in jobs : /\ n \in {i, Left(i)} /\ n.u = i.u /\ n.fn = i.fn /\ n.call = i.call
                                                    /\ n.sdp = i.sdp /\ n.at = i.at /\ (n = i <=> i.u # u \/ Left(i) = i)
  <2> HIDE DEF Left
  <2> TAKE n \in jobs'
  <2>1. CASE n \in jobs /\ n.u # u
    BY <2>1, <1>0
  <2>2. CASE \E i \in jobs : i.u = u /\ n = Left(i)
    BY <2>2, <1>3
  <2> QED BY <2>1, <2>2, <1>1 DEF MyJobs
<1>5. \A i \in jobs : Clearing(i) => i \in jobs' \/ Left(i) \in jobs'
  BY <1>1 DEF MyJobs, Clearing
<1> HIDE DEF Left
<1>6. \A x \in Users : cl'[x].call \in {0, cl[x].call}
  BY <1>0, <1>1, <1>2
<1>a. Types'
  BY <1>0, <1>1, <1>2, <1>4 DEF Types
<1>b. Dialled'
  BY <1>1, <1>4, <1>6 DEF Dialled, Types, Waiting
<1>c. OnlyParties'
  <2>1. \A k \in Calls : k # 0
    BY DEF Calls
  <2> QED BY <2>1, <1>1, <1>4, <1>6 DEF OnlyParties, Party
<1>d. OneStart'
  <2>1. ASSUME NEW m \in jobs', NEW n \in jobs', Waiting(m), Waiting(n), m.sdp = n.sdp PROVE m = n
    <3>1. PICK i \in jobs : /\ m \in {i, Left(i)} /\ m.u = i.u /\ m.fn = i.fn /\ m.call = i.call
                            /\ m.sdp = i.sdp /\ m.at = i.at /\ (m = i <=> i.u # u \/ Left(i) = i)
      BY <1>4
    <3>2. PICK k \in jobs : /\ n \in {k, Left(k)} /\ n.u = k.u /\ n.fn = k.fn /\ n.call = k.call
                            /\ n.sdp = k.sdp /\ n.at = k.at /\ (n = k <=> k.u # u \/ Left(k) = k)
      BY <1>4
    <3>3. i = k
      BY <2>1, <3>1, <3>2 DEF OneStart, Waiting
    <3> QED BY <3>1, <3>2, <3>3
  <2> QED BY <2>1, <1>1, <1>4 DEF OneStart, Waiting
<1>e. Answered'
  BY <1>1, <1>4 DEF Answered, Clearing, Ending, OverARow
<1>f. SlotsCleared'
  BY <1>1, <1>3, <1>5 DEF SlotsCleared, Clearing, Ending
<1> QED BY <1>a, <1>b, <1>c, <1>d, <1>e, <1>f

(***************************************************************************)
(* The theorem.                                                             *)
(***************************************************************************)
LEMMA InitHolds == Init /\ Users # {} => VInv
<1> SUFFICES ASSUME Init, Users # {} PROVE VInv
  OBVIOUS
<1>1. parties \in [Calls -> [from : Users, to : Users]]
  <2>1. PICK u \in Users : TRUE
    OBVIOUS
  <2>2. [from |-> u, to |-> u] \in [from : Users, to : Users]
    OBVIOUS
  <2>3. (CHOOSE p \in [from : Users, to : Users] : TRUE) \in [from : Users, to : Users]
    BY <2>2
  <2> QED BY <2>3 DEF Init
<1>2. /\ dialled = 0 /\ log = [c \in Calls |-> "none"] /\ kv = [u \in Users |-> Idle]
      /\ push = {} /\ jobs = {} /\ overtaken = {} /\ stuck = {} /\ astray = {} /\ cl = [u \in Users |-> Fresh]
  BY DEF Init
<1>3. Fresh \in Client /\ Fresh.call = 0 /\ Idle \in Slot /\ Idle.call = 0
  BY DEF Fresh, Client, Idle, Slot
<1>4. \A k \in Calls : k # 0
  BY DEF Calls
<1>a. Types
  BY <1>1, <1>2, <1>3 DEF Types
<1>b. Dialled
  BY <1>2, <1>3 DEF Dialled
<1>c. OnlyParties
  BY <1>2, <1>3, <1>4 DEF OnlyParties
<1>d. OneStart /\ Answered /\ SlotsCleared
  BY <1>2, <1>3 DEF OneStart, Answered, SlotsCleared, OverARow
<1> QED BY <1>a, <1>b, <1>c, <1>d DEF VInv

LEMMA StepKeeps == VInv /\ [Next]_vars => VInv'
<1> SUFFICES ASSUME VInv, [Next]_vars PROVE VInv'
  OBVIOUS
<1>1. ASSUME NEW u \in Callers, NEW v \in Users, StartCall(u, v) PROVE VInv'
  BY <1>1, StartCallKeeps
<1>2. ASSUME NEW u \in Users, AcceptCall(u) \/ DeclineCall(u) \/ EndCall(u) \/ NoAnswer(u) \/ ResetUi(u) PROVE VInv'
  BY <1>2, UserIsClient, ClientStepKeeps
<1>3. ASSUME NEW u \in Users, NEW c \in Calls, Connected(u, c) \/ IceFailed(u, c) \/ NotificationDecline(u, c)
      PROVE  VInv'
  BY <1>3, OutsideIsClient, ClientStepKeeps
<1>4. ASSUME NEW j \in jobs, JobStep(j) PROVE VInv'
  <2>1. CASE \/ StartDone(j) \/ ReceiveDone(j) \/ AcceptFails(j) \/ AcceptMedia(j) \/ AcceptSetup(j)
             \/ AcceptDone(j) \/ HandleAnswerDone(j) \/ AnswerRead(j) \/ EndRead(j)
    BY <2>1, FunctionIsClient, ClientStepKeeps
  <2> QED BY <1>4, <2>1, StartMediaKeeps, RingReadKeeps, RingPutKeeps, RingWriteKeeps, AnswerPutKeeps, AnswerWriteKeeps,
             EndLogKeeps, EndClearKeeps DEF JobStep
<1>5. ASSUME NEW e \in push, Deliver(e) PROVE VInv'
  <2>1. e.to \in Users
    BY DEF VInv, Types, Pushed
  <2> QED BY <1>5, <2>1, OutsideIsClient, ClientStepKeeps DEF Deliver
<1>6. ASSUME NEW u \in Users, Expire(u) \/ Crash(u) PROVE VInv'
  BY <1>6, ExpireKeeps, CrashKeeps
<1>7. ASSUME UNCHANGED vars PROVE VInv'
  <2>1. UNCHANGED <<parties, dialled, overtaken, log, kv, stuck, astray, push, cl, jobs>>
    BY <1>7 DEF vars
  <2>2. Types' /\ Dialled'
    BY <2>1 DEF VInv, Types, Dialled, Waiting
  <2>3. OnlyParties'
    BY <2>1 DEF VInv, OnlyParties, Party
  <2>4. OneStart' /\ Answered'
    BY <2>1 DEF VInv, OneStart, Answered, Waiting, Clearing, Ending, OverARow
  <2>5. SlotsCleared'
    BY <2>1 DEF VInv, SlotsCleared, Clearing, Ending
  <2> QED BY <2>2, <2>3, <2>4, <2>5 DEF VInv
<1> QED BY <1>1, <1>2, <1>3, <1>4, <1>5, <1>6, <1>7 DEF Next

\* A busy slot names a call that is over only while the request that ended it,
\* or answered it too late, is between its two writes; or if the slot's delete
\* failed, another startCall rang the call again, or a request that could not
\* read or write the row went on: for any number of users, calls and faults.
THEOREM BusySlotsHolds == Spec => []BusySlotsFollowTheLog
<1>1. VInv => BusySlotsFollowTheLog
  BY DEF VInv, SlotsCleared, BusySlotsFollowTheLog, Clearing, BetweenWrites
<1>2. CASE Users = {}
  <2>1. BusySlotsFollowTheLog
    BY <1>2 DEF BusySlotsFollowTheLog
  <2> QED BY <2>1, PTL
<1>3. CASE Users # {}
  <2>1. Init => VInv
    BY <1>3, InitHolds
  <2> QED BY <2>1, <1>1, StepKeeps, PTL DEF Spec
<1> QED BY <1>2, <1>3
=============================================================================

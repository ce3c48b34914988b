------------------------------ MODULE VoiceCall ------------------------------
(***************************************************************************)
(* One-to-one voice calls: the Worker's signalling routes                   *)
(* (src/src/routes/voiceRoutes.js), which keep a call log in D1 and a busy  *)
(* slot per user in KV, and the call store of each client                   *)
(* (src/frontend/src/stores/voice.svelte.js).                               *)
(*                                                                         *)
(* A client is one thread, but its functions await; a job is a function in  *)
(* progress, and what it finds after an await may have changed. A request   *)
(* is a stage of the job that waits for it: the Worker reads, then writes   *)
(* D1 and KV one after the other, and each write may fail. Pushes go to the *)
(* open socket of a user, in any order, or never. What is said in the SDP   *)
(* and the candidates is reduced to the call they belong to.                *)
(***************************************************************************)
EXTENDS Naturals, FiniteSets

CONSTANTS
    Users,       \* handles; all of them are contacts of each other
    Callers,     \* those who dial
    MaxCalls,    \* calls that are dialled
    MaxEvents,   \* calls that are dialled and things that go wrong: pages closed, late taps on a notification,
                 \* expired slots, microphones refused, bad keys, writes that fail, answers that are lost
    MaxJobs,     \* functions of one client that are in progress at once
    MaxResets,   \* pending timers that clear the screen of one client
    MaxEnders    \* requests that end a call and are at once between their read of the row and their write

ASSUME VoiceAssumption ==
    Callers \subseteq Users /\ {MaxCalls, MaxEvents, MaxJobs, MaxResets, MaxEnders} \subseteq Nat

VARIABLES
    parties,   \* per call: who dialled whom (the row's caller and callee)
    dialled,   \* calls dialled so far; they are numbered in that order
    log,       \* call_log.status, "none" while there is no row
    kv,        \* voice_state: per user the state and the call
    push,      \* events on their way to a socket
    cl,        \* per user the fields of the voice store
    jobs,      \* the functions in progress, with the stage of their request
    faults,    \* how many things went wrong
    overtaken, \* history: calls whose id was also rung by a function that had begun for another one
    stuck,     \* history: users whose busy slot could not be deleted and still shows what it showed
    astray     \* history: calls that were declined by a request that could not read the row, or answered
               \* when they were over by an answer that could not be logged

vars == <<parties, dialled, log, kv, push, cl, jobs, faults, overtaken, stuck, astray>>
server == <<log, kv, stuck, astray>>
dial == <<parties, dialled, overtaken>>

Calls == 1 .. MaxCalls
Final == {"declined", "missed", "ended"}

Idle == [state |-> "idle", call |-> 0]

(* A connection is known by the dialling its offer comes from.                 *)
(* st, dir, call: _state, _direction, _callId. pc: _pc. offer: _incomingOffer.  *)
(* open: connections not closed. remote: those with the peer's description.     *)
(* timer: the role for which 'no-answer' runs. resets: timers of _scheduleReset.*)
Fresh == [st |-> "idle", dir |-> "none", call |-> 0, pc |-> 0, offer |-> 0, open |-> {}, remote |-> {},
          timer |-> "off", resets |-> 0]

Job == [u : Users, fn : {"start", "receive", "accept", "answer", "cancel", "hangup", "decline"},
        call : Calls \cup {0},
        sdp : Calls \cup {0},     \* the connection of its offer or answer
        at : {"media", "setup", "sent", "read", "blind", "put", "logged", "alone", "rang", "answered", "refused",
               "decrypt"},
        own : BOOLEAN]   \* the client still waits for the answer

TypeOK ==
    /\ parties \in [Calls -> [from : Users, to : Users]] /\ dialled \in 0 .. MaxCalls
    /\ log \in [Calls -> Final \cup {"none", "ringing", "connected"}]
    /\ kv \in [Users -> [state : {"idle", "calling", "ringing", "connected"}, call : Calls \cup {0}]]
    /\ push \subseteq [to : Users, type : {"ring", "answer", "end"}, call : Calls, sdp : Calls \cup {0}]
    /\ jobs \subseteq Job /\ faults \in 0 .. MaxEvents
    /\ overtaken \subseteq Calls /\ stuck \subseteq Users /\ astray \subseteq Calls
    /\ \A u \in Users :
          /\ cl[u].st \in {"idle", "ringing", "connecting", "active", "ended"}
          /\ cl[u].dir \in {"none", "out", "in"} /\ cl[u].timer \in {"off", "caller", "callee"}
          /\ {cl[u].call, cl[u].pc, cl[u].offer} \subseteq Calls \cup {0}
          /\ cl[u].open \cup cl[u].remote \subseteq Calls
          /\ cl[u].resets \in 0 .. MaxResets

Init ==
    /\ parties = [c \in Calls |-> CHOOSE p \in [from : Users, to : Users] : TRUE]
    /\ dialled = 0 /\ log = [c \in Calls |-> "none"] /\ kv = [u \in Users |-> Idle]
    /\ push = {} /\ jobs = {} /\ faults = 0 /\ overtaken = {} /\ stuck = {} /\ astray = {}
    /\ cl = [u \in Users |-> Fresh]

Peer(c, u) == IF parties[c].from = u THEN parties[c].to ELSE parties[c].from
MyJobs(u) == {j \in jobs : j.u = u}
Goes(j, stage) == jobs' = (jobs \ {j}) \cup {[j EXCEPT !.at = stage]}
NewJob(u, fn, c, k, stage, own) == [u |-> u, fn |-> fn, call |-> c, sdp |-> k, at |-> stage, own |-> own]
Begins(u, fn, c, k, stage) == jobs' = jobs \cup {NewJob(u, fn, c, k, stage, TRUE)}
Failures(n) == dialled + faults + n <= MaxEvents /\ faults' = faults + n
Fault == Failures(1)
Fine == faults' = faults
Event(u, type, c, k) == [to |-> u, type |-> type, call |-> c, sdp |-> k]

(***************************************************************************)
(* What several functions of the store share.                               *)
(***************************************************************************)
StartTimer_CalleeOnly(s, role) == IF role = "callee" THEN [s EXCEPT !.timer = role] ELSE s
StartTimer(s, role) == [s EXCEPT !.timer = role]
HardReset(s) == [s EXCEPT !.timer = "off", !.open = @ \ {s.pc}, !.remote = @ \ {s.pc}, !.pc = 0]
ScheduleReset(s) == [s EXCEPT !.resets = IF @ < MaxResets THEN @ + 1 ELSE @]
Ended(s) == ScheduleReset([s EXCEPT !.st = "ended"])
(* The error paths of startCall and acceptCall: whatever the store shows now. *)
Fails(s) == Ended(HardReset(s))
InCall(s) == s.st \notin {"idle", "ended"}

(* The screen is cleared some time after a call ended; the timer is never      *)
(* cancelled, and it does not ask what the store does by then.                 *)
ResetUi(u) ==
    /\ cl[u].resets > 0
    /\ cl' = [cl EXCEPT ![u] = [cl[u] EXCEPT !.resets = @ - 1, !.st = "idle", !.dir = "none", !.call = 0]]
    /\ UNCHANGED <<dial, server, push, jobs, faults>>

(***************************************************************************)
(* startCall: ask for the microphone, set up, ring, and wait.               *)
(***************************************************************************)
StartCall(u, v) ==
    /\ cl[u].st = "idle" /\ u # v /\ dialled < MaxCalls /\ dialled + faults < MaxEvents
    /\ Cardinality(MyJobs(u)) < MaxJobs
    /\ dialled' = dialled + 1
    /\ parties' = [parties EXCEPT ![dialled + 1] = [from |-> u, to |-> v]]
    /\ cl' = [cl EXCEPT ![u] = [@ EXCEPT !.st = "ringing", !.dir = "out", !.call = dialled + 1]]
    /\ Begins(u, "start", dialled + 1, dialled + 1, "media")
    /\ UNCHANGED <<server, push, faults, overtaken>>

(* The microphone is refused; or the connection is set up and /voice/ring is   *)
(* posted for the _callId of now; or setting up fails.                         *)
StartMedia(j) ==
    /\ j.fn = "start" /\ j.at = "media"
    /\ \/ Fault /\ cl' = [cl EXCEPT ![j.u] = Ended(@)] /\ jobs' = jobs \ {j} /\ UNCHANGED overtaken
       \/ Fault /\ cl' = [cl EXCEPT ![j.u] = Fails(@)] /\ jobs' = jobs \ {j} /\ UNCHANGED overtaken
       \/ /\ Fine
          /\ cl' = [cl EXCEPT ![j.u] = [cl[j.u] EXCEPT !.pc = j.sdp, !.open = @ \cup {j.sdp}]]
          /\ jobs' = (jobs \ {j}) \cup {[j EXCEPT !.call = cl[j.u].call,
                                         !.at = IF cl[j.u].call = 0 THEN "refused" ELSE "sent"]}
          /\ overtaken' = overtaken \cup ({cl[j.u].call} \ {0, j.sdp})
    /\ UNCHANGED <<parties, dialled, server, push>>

(* The busy check reads KV for both users, and a read that fails finds nobody  *)
(* busy; the rate limit may refuse as well.                                    *)
Busy(u) == kv[u].state # "idle"

RingRead(j) ==
    /\ j.fn = "start" /\ j.at = "sent"
    /\ LET busy == Busy(parties[j.sdp].to) \/ Busy(j.u) IN
       \/ Fine /\ Goes(j, IF busy THEN "refused" ELSE "read")
       \/ Fault /\ Goes(j, IF busy THEN "read" ELSE "refused")
    /\ UNCHANGED <<dial, server, push, cl>>

(* Both busy slots are put at once; when one of them fails the other may stand.*)
Puts(c, slots, us) ==
    /\ kv' = [u \in Users |-> IF u \in us THEN [state |-> slots[u], call |-> c] ELSE kv[u]]
    /\ stuck' = stuck \ us

RingPut(j) ==
    /\ j.fn = "start" /\ j.at = "read"
    /\ LET both == {j.u, parties[j.sdp].to} IN
       \E us \in SUBSET both :
          /\ Puts(j.call, [u \in both |-> IF u = j.u THEN "calling" ELSE "ringing"], us)
          /\ Failures(Cardinality(both \ us))
          /\ Goes(j, IF us = both THEN "put" ELSE "refused")
    /\ UNCHANGED <<dial, log, astray, push, cl>>

(* The row, whose failure is ignored, then the push.                           *)
RingWrite(j) ==
    /\ j.fn = "start" /\ j.at = "put"
    /\ push' = push \cup {Event(parties[j.sdp].to, "ring", j.call, j.sdp)}
    /\ LET row == [log EXCEPT ![j.call] = IF @ = "none" THEN "ringing" ELSE @] IN
       \/ Fine /\ log' = row /\ Goes(j, "rang")
       \/ Fault /\ log' = log /\ Goes(j, "rang")
       \/ Fault /\ log' = row /\ Goes(j, "refused")
    /\ UNCHANGED <<dial, kv, stuck, astray, cl>>

StartDone(j) ==
    /\ j.fn = "start" /\ j.at \in {"rang", "refused"}
    /\ jobs' = jobs \ {j}
    /\ cl' = CASE ~j.own -> cl
                [] j.own /\ j.at = "refused" -> [cl EXCEPT ![j.u] = Fails(@)]
                [] j.own /\ j.at = "rang" -> [cl EXCEPT ![j.u] = StartTimer(@, "caller")]
    /\ UNCHANGED <<dial, server, push, faults>>

(***************************************************************************)
(* receiveCall: an incoming ring.                                           *)
(***************************************************************************)
Receive(u, e) ==
    /\ e.to = u /\ e.type = "ring" /\ push' = push \ {e}
    /\ \/ cl[u].st = "idle" /\ Begins(u, "receive", e.call, e.sdp, "decrypt")
       \/ /\ cl[u].st # "idle"     \* declined without a word
          /\ jobs' = jobs \cup {NewJob(u, "decline", e.call, 0, "sent", FALSE)}
    /\ UNCHANGED <<dial, server, cl, faults>>

(* After the key, the offer and its signature were checked the store is set,   *)
(* whatever it shows by then; or the call is declined.                         *)
ReceiveDone(j) ==
    /\ j.fn = "receive"
    /\ \/ /\ Fine
          /\ cl' = [cl EXCEPT ![j.u] = StartTimer([@ EXCEPT !.dir = "in", !.call = j.call, !.offer = j.sdp,
                                                              !.st = "ringing"], "callee")]
          /\ jobs' = jobs \ {j}
       \/ /\ Fault
          /\ jobs' = (jobs \ {j}) \cup {[j EXCEPT !.fn = "decline", !.at = "sent", !.own = FALSE]}
          /\ UNCHANGED cl
    /\ UNCHANGED <<dial, server, push>>

(***************************************************************************)
(* acceptCall, and /voice/answer.                                           *)
(***************************************************************************)
AcceptCall(u) ==
    /\ cl[u].st = "ringing" /\ cl[u].dir = "in" /\ cl[u].offer # 0 /\ Cardinality(MyJobs(u)) < MaxJobs
    /\ cl' = [cl EXCEPT ![u].timer = "off"]
    /\ Begins(u, "accept", cl[u].call, cl[u].offer, "media")
    /\ UNCHANGED <<dial, server, push, faults>>

(* Setting up fails, or finds the call or its connection gone.                 *)
AcceptFails(j) ==
    /\ j.fn = "accept" /\ j.at \in {"media", "setup"}
    /\ LET gone == IF j.at = "media" THEN cl[j.u].call = 0 ELSE j.sdp \notin cl[j.u].open IN
       IF gone THEN Fine ELSE Fault
    /\ cl' = [cl EXCEPT ![j.u] = [Fails(cl[j.u]) EXCEPT !.offer = IF j.at = "media" THEN @ ELSE 0]]
    /\ jobs' = jobs \ {j}
    /\ UNCHANGED <<dial, server, push>>

(* The microphone is there; the connection is made for the _callId of now.     *)
AcceptMedia(j) ==
    /\ j.fn = "accept" /\ j.at = "media" /\ cl[j.u].call # 0
    /\ cl' = [cl EXCEPT ![j.u] = [cl[j.u] EXCEPT !.st = "connecting", !.pc = j.sdp, !.open = @ \cup {j.sdp}]]
    /\ Goes(j, "setup")
    /\ UNCHANGED <<dial, server, push, faults>>

(* setRemoteDescription on this connection, and the answer to it is posted for *)
(* the _callId of now.                                                         *)
AcceptSetup(j) ==
    /\ j.fn = "accept" /\ j.at = "setup" /\ j.sdp \in cl[j.u].open
    /\ cl' = [cl EXCEPT ![j.u] = [cl[j.u] EXCEPT !.remote = @ \cup {j.sdp}]]
    /\ jobs' = (jobs \ {j}) \cup {[j EXCEPT !.call = cl[j.u].call,
                                   !.at = IF cl[j.u].call = 0 THEN "refused" ELSE "sent"]}
    /\ UNCHANGED <<dial, server, push, faults>>

(* An answer that does not reach the row, of a call that is over.              *)
Unlogged(j) == IF log[j.call] \in Final THEN {j.call} ELSE {}

(* /voice/answer: the row must say "ringing" when it is read; a read that      *)
(* fails finds no row.                                                         *)
AnswerRead(j) ==
    /\ j.fn = "accept" /\ j.at = "sent"
    /\ LET ringing == log[j.call] = "ringing" /\ parties[j.call].to = j.u IN
       \/ Fine /\ Goes(j, IF ringing THEN "read" ELSE "refused")
       \/ ringing /\ Fault /\ Goes(j, "refused")
    /\ UNCHANGED <<dial, server, push, cl>>

(* Then both busy slots are put, whatever became of the call meanwhile ...     *)
AnswerPut(j) ==
    /\ j.fn = "accept" /\ j.at = "read"
    /\ LET both == {j.u, Peer(j.call, j.u)} IN
       \E us \in SUBSET both :
          /\ Puts(j.call, [u \in both |-> "connected"], us)
          /\ Failures(Cardinality(both \ us))
          /\ IF us = both THEN Goes(j, "logged") /\ UNCHANGED astray
             ELSE Goes(j, "refused") /\ astray' = astray \cup Unlogged(j)
    /\ UNCHANGED <<dial, log, push, cl>>

(* ... and then the row, whose failure is ignored, and the caller is told.     *)
AfterAnswer(status) == "connected"

AnswerWrite(j) ==
    /\ j.fn = "accept" /\ j.at = "logged"
    /\ push' = push \cup {Event(Peer(j.call, j.u), "answer", j.call, j.sdp)}
    /\ LET row == [log EXCEPT ![j.call] = AfterAnswer(@)] IN
       \/ Fine /\ log' = row /\ Goes(j, "answered") /\ UNCHANGED astray
       \/ Fault /\ log' = row /\ Goes(j, "refused") /\ UNCHANGED astray
       \/ Fault /\ log' = log /\ Goes(j, "answered") /\ astray' = astray \cup Unlogged(j)
    /\ UNCHANGED <<dial, kv, stuck, cl>>

AcceptDone(j) ==
    /\ j.fn = "accept" /\ j.at \in {"answered", "refused"}
    /\ jobs' = jobs \ {j}
    /\ cl' = IF ~j.own THEN cl
             ELSE [cl EXCEPT ![j.u] = [IF j.at = "refused" THEN Fails(@) ELSE @ EXCEPT !.offer = 0]]
    /\ UNCHANGED <<dial, server, push, faults>>

(***************************************************************************)
(* The caller hears the answer, and the connection comes up.                *)
(***************************************************************************)
(* Everything that would end a call from this side: what is told the Worker    *)
(* depends on who called and whether it was already active.                    *)
EndFn(s) == IF s.dir = "out" /\ s.st # "active" THEN "cancel" ELSE "hangup"

EndCallOf(u, left) ==
    IF InCall(cl[u])
    THEN /\ cl' = [cl EXCEPT ![u].st = "ended"]
         /\ jobs' = left \cup {NewJob(u, EndFn(cl[u]), cl[u].call, 0, "sent", TRUE)}
    ELSE jobs' = left /\ UNCHANGED cl

ForCall(s, c) == s.call = c

HandleAnswer(u, e) ==
    /\ e.to = u /\ e.type = "answer" /\ push' = push \ {e}
    /\ IF cl[u].pc # 0 /\ cl[u].st = "ringing" /\ cl[u].dir = "out" /\ ForCall(cl[u], e.call)
       THEN Begins(u, "answer", e.call, e.sdp, "decrypt") ELSE UNCHANGED jobs
    /\ UNCHANGED <<dial, server, cl, faults>>

(* The answer is opened and applied to the _pc of now, which accepts only an    *)
(* answer to its own offer; or it is bad, or there is no _pc, and the call ends.*)
Apply(s) == [s EXCEPT !.timer = "off", !.st = "connecting", !.remote = @ \cup {s.pc}]

HandleAnswerDone(j) ==
    /\ j.fn = "answer"
    /\ \/ /\ cl[j.u].pc = j.sdp /\ Fine
          /\ cl' = [cl EXCEPT ![j.u] = Apply(@)] /\ jobs' = jobs \ {j}
       \/ cl[j.u].pc # j.sdp /\ Fine /\ EndCallOf(j.u, jobs \ {j})
       \/ cl[j.u].pc = j.sdp /\ Fault /\ EndCallOf(j.u, jobs \ {j})
    /\ UNCHANGED <<dial, server, push>>

(* The two connections of one call find each other.                            *)
Linked(u, k) ==
    /\ k \in cl[u].open \cap cl[u].remote
    /\ LET v == Peer(k, u) IN k \in cl[v].open \cap cl[v].remote

Connected(u, c) ==
    /\ Linked(u, c) /\ cl[u].st = "connecting"
    /\ cl' = [cl EXCEPT ![u].st = "active"]
    /\ UNCHANGED <<dial, server, push, jobs, faults>>

(* A connection fails: the network, or the peer's is closed. The caller's one  *)
(* retry is an EndCall and a StartCall.                                        *)
IceFailed(u, c) ==
    /\ c \in cl[u].open \cap cl[u].remote /\ InCall(cl[u])
    /\ EndCallOf(u, jobs)
    /\ UNCHANGED <<dial, server, push, faults>>

(***************************************************************************)
(* The ways to end a call, and their routes.                                *)
(***************************************************************************)
EndCall(u) ==
    /\ InCall(cl[u]) /\ EndCallOf(u, jobs)
    /\ UNCHANGED <<dial, server, push, faults>>

Declining(u) ==
    /\ cl' = [cl EXCEPT ![u] = [@ EXCEPT !.st = "ended", !.timer = "off", !.offer = 0]]
    /\ Begins(u, "decline", cl[u].call, 0, "sent")

DeclineCall(u) ==
    /\ cl[u].st = "ringing" /\ cl[u].dir = "in" /\ Declining(u)
    /\ UNCHANGED <<dial, server, push, faults>>

(* The "decline" button of a notification, which may be long out of date.      *)
NotificationDecline(u, c) ==
    /\ c <= dialled /\ parties[c].to = u /\ log[c] # "none"
    /\ Fault
    /\ jobs' = jobs \cup {NewJob(u, "decline", c, 0, "sent", FALSE)}
    /\ UNCHANGED <<dial, server, push, cl>>

(* Sixty seconds without an answer.                                            *)
NoAnswer(u) ==
    /\ cl[u].timer # "off"
    /\ IF cl[u].st # "ringing" \/ (cl[u].timer = "callee" /\ cl[u].dir # "in")
       THEN cl' = [cl EXCEPT ![u].timer = "off"] /\ UNCHANGED jobs
       ELSE IF cl[u].timer = "callee" THEN Declining(u)
       ELSE /\ cl' = [cl EXCEPT ![u] = [@ EXCEPT !.timer = "off", !.st = "ended"]]
            /\ Begins(u, EndFn(cl[u]), cl[u].call, 0, "sent")
    /\ UNCHANGED <<dial, server, push, faults>>

(* The routes look the row up. A call that is over is left alone; cancel is    *)
(* for the caller only; decline goes on without a row.                         *)
MayEnd(fn, c, u) ==
    /\ log[c] \notin Final
    /\ fn = "cancel" => log[c] # "none" /\ parties[c].from = u
    /\ fn = "hangup" => log[c] # "none"

(* Told or not, the client that waited cleans up.                              *)
Over(j) ==
    /\ jobs' = jobs \ {j}
    /\ cl' = IF j.own THEN [cl EXCEPT ![j.u] = ScheduleReset(HardReset(@))] ELSE cl

Ending(j) == j.fn \in {"cancel", "hangup", "decline"}
Enders == {j \in jobs : Ending(j) /\ j.at \in {"read", "blind"}}

StatusOf(fn) == CASE fn = "cancel" -> "missed" [] fn = "hangup" -> "ended" [] fn = "decline" -> "declined"

(* The row is read. Where the read fails cancel and hangup find no row, and    *)
(* decline goes on without a peer.                                             *)
EndRead(j) ==
    /\ Ending(j) /\ j.at = "sent" /\ Cardinality(Enders) < MaxEnders
    /\ LET found == j.call # 0 /\ MayEnd(j.fn, j.call, j.u)
           blind == j.call # 0 /\ j.fn = "decline" IN
       \/ found /\ Fine /\ Goes(j, IF log[j.call] = "none" THEN "blind" ELSE "read") /\ UNCHANGED cl
       \/ ~found /\ Fine /\ Over(j)
       \/ blind /\ Fault /\ Goes(j, "blind") /\ UNCHANGED cl
       \/ found /\ ~blind /\ Fault /\ Over(j)
    /\ UNCHANGED <<dial, server, push>>

(* The row is written, whatever it says by now; its failure is ignored.        *)
EndLog(j) ==
    /\ Ending(j) /\ j.at \in {"read", "blind"}
    /\ LET row == [log EXCEPT ![j.call] = IF @ = "none" THEN @ ELSE StatusOf(j.fn)] IN
       \/ Fine /\ log' = row
       \/ Fault /\ log' = log
    /\ Goes(j, IF j.at = "read" THEN "logged" ELSE "alone")
    /\ astray' = IF j.at = "blind" /\ log[j.call] # "none" THEN astray \cup {j.call} ELSE astray
    /\ UNCHANGED <<dial, kv, stuck, push, cl>>

(* The busy slots go, whichever call they are for, and the peer is told. A     *)
(* delete that fails is ignored.                                               *)
Cleared_Connected(us) == [u \in Users |-> IF u \in us /\ kv[u].state = "connected" THEN Idle ELSE kv[u]]
Cleared(us) == [u \in Users |-> IF u \in us THEN Idle ELSE kv[u]]

EndClear(j) ==
    /\ Ending(j) /\ j.at \in {"logged", "alone"}
    /\ LET peer == IF j.at = "logged" THEN {Peer(j.call, j.u)} ELSE {} IN
       /\ \E kept \in SUBSET ({j.u} \cup peer) :
             /\ Failures(Cardinality(kept))
             /\ kv' = Cleared(({j.u} \cup peer) \ kept)
             /\ stuck' = (stuck \ ({j.u} \cup peer)) \cup kept
       /\ push' = push \cup {Event(p, "end", j.call, 0) : p \in peer}
    /\ Over(j)
    /\ UNCHANGED <<dial, log, astray>>

HandlePeerEnd(u, e) ==
    /\ e.to = u /\ e.type = "end" /\ push' = push \ {e}
    /\ cl' = IF InCall(cl[u]) /\ cl[u].call = e.call THEN [cl EXCEPT ![u] = Fails(@)] ELSE cl
    /\ UNCHANGED <<dial, server, jobs, faults>>

(***************************************************************************)
(* The environment.                                                         *)
(***************************************************************************)
(* The busy slot expires after 90 seconds: longer than a client rings, but no  *)
(* part of a call that was answered renews it.                                 *)
Expire(u) ==
    /\ kv[u].state # "idle"
    /\ kv[u].state # "connected" => \A v \in Users : cl[v].timer = "off"
    /\ Fault /\ kv' = [kv EXCEPT ![u] = Idle] /\ stuck' = stuck \ {u}
    /\ UNCHANGED <<dial, log, astray, push, cl, jobs>>

Crash(u) ==
    /\ Fault /\ cl' = [cl EXCEPT ![u] = Fresh]
    /\ jobs' = {j \in jobs : j.u # u} \cup
               {[j EXCEPT !.own = FALSE] : j \in {k \in MyJobs(u) : k.at \in {"sent", "read", "blind", "put", "logged", "alone"}}}
    /\ UNCHANGED <<dial, server, push>>

JobStep(j) ==
    \/ StartMedia(j) \/ RingRead(j) \/ RingPut(j) \/ RingWrite(j) \/ StartDone(j) \/ ReceiveDone(j)
    \/ AcceptFails(j) \/ AcceptMedia(j) \/ AcceptSetup(j) \/ AnswerRead(j)
    \/ AnswerPut(j) \/ AnswerWrite(j) \/ AcceptDone(j) \/ HandleAnswerDone(j)
    \/ EndRead(j) \/ EndLog(j) \/ EndClear(j)

Deliver(e) == Receive(e.to, e) \/ HandleAnswer(e.to, e) \/ HandlePeerEnd(e.to, e)

Next ==
    \/ \E u \in Callers, v \in Users : StartCall(u, v)
    \/ \E u \in Users : AcceptCall(u) \/ DeclineCall(u) \/ EndCall(u) \/ NoAnswer(u) \/ ResetUi(u)
    \/ \E u \in Users, c \in Calls : Connected(u, c) \/ IceFailed(u, c) \/ NotificationDecline(u, c)
    \/ \E j \in jobs : JobStep(j)
    \/ \E e \in push : Deliver(e)
    \/ \E u \in Users : Expire(u) \/ Crash(u)

(* Timers fire, functions in progress go on, and the browser finds out that a  *)
(* connection has no other end; nothing else has to happen.                    *)
Progress ==
    \/ \E j \in jobs : JobStep(j)
    \/ \E u \in Users : NoAnswer(u) \/ ResetUi(u) \/ \E c \in Calls : IceFailed(u, c) /\ ~Linked(u, c)

Fairness == WF_vars(Progress)

Spec == Init /\ [][Next]_vars /\ Fairness

(***************************************************************************)
(* Properties.                                                              *)
(***************************************************************************)
(* A busy slot in KV that names a call which is over in the log is about to be *)
(* cleared or about to be right: a request that ended the call, or an answer   *)
(* to it, is between its two writes. Nobody is refused calls because of a call *)
(* that ended (short of a page that was closed, whose slot runs out), unless   *)
(* the slot's delete failed, the call was rung again by a startCall that had   *)
(* begun for another call, was declined by a request that could not read its   *)
(* row, or was answered too late by an answer that could not be logged.        *)
BetweenWrites(j) == j.at = "logged" /\ (Ending(j) \/ j.fn = "accept")

BusySlotsFollowTheLog ==
    \A u \in Users : LET c == kv[u].call IN
        (c # 0 /\ log[c] \in Final) =>
            \/ u \in stuck \/ c \in overtaken \cup astray
            \/ \E j \in jobs : j.call = c /\ BetweenWrites(j)

(* A client is not left in a call that neither comes up nor ends, whatever is  *)
(* lost, refused or crossed on the way: ringing is bounded by the no-answer    *)
(* timer, and connecting by the browser's verdict on the connection.           *)
CallsComeUpOrEnd == \A u \in Users : InCall(cl[u]) ~> (~InCall(cl[u]) \/ \E k \in Calls : Linked(u, k))

(* With no call on the screen and no function in progress the connection, and  *)
(* with it the microphone, is closed. startCall goes on after its awaits       *)
(* without asking whether the call was ended meanwhile, so this fails.         *)
MicClosedWhenIdle == \A u \in Users : (cl[u].st = "idle" /\ MyJobs(u) = {}) => cl[u].open = {}

=============================================================================

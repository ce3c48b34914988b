----------------------------- MODULE AutoDelete -----------------------------
(***************************************************************************)
(* The time after which the messages of a conversation are deleted.  In a  *)
(* direct chat one side proposes a number of days and the other accepts or *)
(* declines (autoDeleteRoutes.js); in a group any member sets it           *)
(* (groupRoutes.js).  Every client keeps a copy (autoDelete.svelte.js)     *)
(* that pushes and loads renew, and the hourly sweep deletes what is too   *)
(* old, files before rows (cron.js).                                       *)
(***************************************************************************)
EXTENDS Integers, Sequences

CONSTANTS
  Side,      \* the two members, each with one client and one request at a time
  Days,      \* the numbers of days to choose from, 0 (off) apart
  CapDays,   \* MSG_RETENTION_DAYS
  Limits,    \* bounds, a set of [kinds, changes, loads, drops, sweeps], of which a run has one
  Nobody     \* no member, no request

Other(u) == CHOOSE v \in Side : v # u

VARIABLES
  kind,      \* "dm" or "group"
  row,       \* the row of auto_delete_settings
  screen,    \* screen[u]: the client's copy, _settings[cid]
  loading,   \* loading[u]: what a load of u's client has read and not yet shown
  call,      \* call[u]: the request of u under way
  pushes,    \* pushes[u]: the pushes on their way to u, in the order they were sent
  age,       \* age of the conversation's message in days, -1 once deleted
  file,      \* its file is still stored
  sweep,     \* the sweep: where it is, and the days it has read
  left,      \* what is left of the bounds
  consent,   \* history: consent[u], the values u agreed to since the last agreement
  why,       \* history: why the setting in force may be one that a side did not agree to
  behind,    \* history: behind[u], why u's copy may differ
  stirred    \* history: the setting changed under a sweep, or a delete of it failed, in
             \* this one or in one that parted the two

avars == <<kind, row, screen, loading, call, pushes, age, file, sweep, left, consent, why, behind, stirred>>

NoRow == [status |-> "off", days |-> 0, orig |-> 0, by |-> Nobody]
Unread == [status |-> "unread", days |-> 0, by |-> Nobody]
Free == [op |-> Nobody, pc |-> "free", days |-> 0, seen |-> NoRow]
Idle == [pc |-> "idle", days |-> 0]
NoLoad == [status |-> "none", days |-> 0, by |-> Nobody]

AInit ==
  /\ left \in Limits /\ kind \in left.kinds
  /\ \E u \in Side : row = IF left.from = 0 THEN NoRow ELSE [status |-> "active", days |-> left.from, orig |-> 0, by |-> u]
  /\ screen = [u \in Side |-> Unread] /\ loading = [u \in Side |-> NoLoad]
  /\ call = [u \in Side |-> Free] /\ pushes = [u \in Side |-> <<>>]
  /\ age = 0 /\ file = TRUE /\ sweep = Idle
  /\ consent = [u \in Side |-> {left.from}] /\ why = {} /\ behind = [u \in Side |-> {}] /\ stirred = FALSE

Hang(u) == call' = [call EXCEPT ![u] = Free]
Elsewhere == <<kind, age, file, sweep, left>>

Quiet == \A u \in Side : pushes[u] = <<>> /\ call[u].op = Nobody

\* What a client shows of a row.
View(r) == [status |-> r.status, days |-> r.days, by |-> IF r.status = "pending" THEN r.by ELSE Nobody]
Shows(u, s) == screen' = [screen EXCEPT ![u] = s]

Write(r) ==
  /\ row' = r
  /\ stirred' = (stirred \/ (sweep.pc # "idle" /\ r # row))

(***************************************************************************)
(* A push reaches each client in the order the server sent them, or is     *)
(* lost; the answer to the sender overtakes it or not.                     *)
(***************************************************************************)
Tell(u, to, s) ==
  /\ pushes' = [v \in Side |-> IF v \in to THEN Append(pushes[v], s) ELSE pushes[v]]
  /\ behind' = [v \in Side |->
       IF call[Other(u)].op # Nobody THEN behind[v] \union {"Overlap"} ELSE behind[v]]

Receive(u) ==
  /\ pushes[u] # <<>>
  /\ pushes' = [pushes EXCEPT ![u] = Tail(@)]
  /\ Shows(u, Head(pushes[u]))
  /\ UNCHANGED <<kind, row, loading, call, age, file, sweep, left, consent, why, behind, stirred>>

Lose(u) ==
  /\ pushes[u] # <<>> /\ left.drops > 0
  /\ pushes' = [pushes EXCEPT ![u] = Tail(@)]
  /\ left' = [left EXCEPT !.drops = @ - 1]
  /\ behind' = [behind EXCEPT ![u] = @ \union {"NotTold"}]
  /\ UNCHANGED <<kind, row, screen, loading, call, age, file, sweep, consent, why, stirred>>

(***************************************************************************)
(* The requests.  A menu offers any number of days; accepting and          *)
(* declining are offered for a proposal the copy shows.                    *)
(***************************************************************************)
Ask(u, op, d) ==
  /\ call[u].op = Nobody /\ left.changes > 0
  /\ CASE op = "set" -> kind = "group"
       [] op = "propose" -> kind = "dm"
       [] op = "accept" -> kind = "dm" /\ d = screen[u].days
                           /\ screen[u].status = "pending" /\ screen[u].by # u
       [] op = "decline" -> kind = "dm" /\ d = screen[u].days /\ screen[u].status = "pending"
  /\ call' = [call EXCEPT ![u] = [Free EXCEPT !.op = op, !.pc = "read", !.days = d]]
  /\ left' = [left EXCEPT !.changes = @ - 1]
  /\ UNCHANGED <<kind, row, screen, loading, pushes, age, file, sweep, consent, why, behind, stirred>>

\* The row is read; "No pending proposal" and "Cannot accept own proposal".
Read(u) ==
  /\ call[u].pc = "read"
  /\ IF call[u].op = "accept" /\ (row.status # "pending" \/ row.by = u) THEN Hang(u)
     ELSE call' = [call EXCEPT ![u].pc = "write", ![u].seen = row]
  /\ why' = why \union
       (IF call[u].op \in {"accept", "decline"} /\ (row.status # "pending" \/ row.days # call[u].days)
         THEN {"ScreenBehind"} ELSE {}) \union
       (IF call[u].op = "propose" /\ row.status = "pending" THEN {"ProposedTwice"} ELSE {})
  /\ UNCHANGED <<row, screen, loading, pushes, consent, behind, stirred>> /\ UNCHANGED Elsewhere

\* Slip: the setting in force is not kept with a proposal.
Original_Off(r) == 0

Original(r) == IF r.status = "active" THEN r.days ELSE 0

\* UPDATE finds no row once another request deleted it.
Existing(r) == IF row.status = "off" THEN NoRow ELSE r

Written(u) ==
  LET seen == call[u].seen  d == call[u].days
  IN CASE call[u].op = "propose" -> [status |-> "pending", days |-> d, orig |-> Original(seen), by |-> u]
       [] call[u].op = "accept" -> IF seen.days = 0 THEN NoRow ELSE Existing([row EXCEPT !.status = "active"])
       [] call[u].op = "decline" -> IF seen.orig = 0 THEN NoRow
                                    ELSE Existing([row EXCEPT !.status = "active", !.days = seen.orig, !.orig = 0])
       [] call[u].op = "set" -> IF d = 0 THEN NoRow
                                ELSE [status |-> "active", days |-> d, orig |-> row.orig, by |-> u]

\* What the peer is told and the answer shows, from what the request has read.
Announced(u) ==
  LET seen == call[u].seen
      As(s, d, v) == [status |-> s, days |-> d, by |-> v]
      Set(d) == As(IF d = 0 THEN "off" ELSE "active", d, Nobody)
  IN CASE call[u].op = "propose" -> As("pending", call[u].days, u)
       [] call[u].op = "accept" -> Set(seen.days)
       [] call[u].op = "decline" -> Set(seen.orig)
       [] call[u].op = "set" -> Set(call[u].days)

WriteRow(u) ==
  /\ call[u].pc = "write"
  /\ Write(Written(u))
  /\ consent' = CASE call[u].op = "propose" -> [consent EXCEPT ![u] = @ \union {call[u].days}]
                  [] call[u].op = "accept" -> [v \in Side |-> {IF v = u THEN call[u].days ELSE row.days}]
                  [] call[u].op = "set" -> [v \in Side |-> {call[u].days}]
                  [] call[u].op = "decline" -> consent
  /\ why' = IF row # call[u].seen /\ kind = "dm" THEN why \union {"Overlap"} ELSE why
  /\ call' = [call EXCEPT ![u].pc = "tell"]
  /\ behind' = [v \in Side |-> IF loading[v] = NoLoad THEN behind[v] ELSE behind[v] \union {"Loading"}]
  /\ UNCHANGED <<screen, loading, pushes>> /\ UNCHANGED Elsewhere

\* The control message; in a group the sender receives its own as well.
TellPeer(u) ==
  /\ call[u].pc = "tell"
  /\ Tell(u, IF kind = "group" THEN Side ELSE {Other(u)}, Announced(u))
  /\ call' = [call EXCEPT ![u].pc = "answer"]
  /\ UNCHANGED <<row, screen, loading, consent, why, stirred>> /\ UNCHANGED Elsewhere

Answer(u) ==
  /\ call[u].pc = "answer"
  /\ Shows(u, Announced(u))
  /\ behind' = IF pushes[u] # <<>>
                 THEN [behind EXCEPT ![u] = @ \union {"Overlap"}] ELSE behind
  /\ Hang(u)
  /\ UNCHANGED <<row, loading, pushes, consent, why, stirred>> /\ UNCHANGED Elsewhere

\* A request breaks off, before its write, between it and the system message or the
\* push, or on the way of its answer: what was written stays.
Break(u) ==
  /\ call[u].pc # "free" /\ left.drops > 0
  /\ left' = [left EXCEPT !.drops = @ - 1]
  /\ behind' = CASE call[u].pc \in {"read", "write"} -> behind
                 [] call[u].pc = "tell" -> [v \in Side |-> behind[v] \union {"BrokeOff"}]
                 [] call[u].pc = "answer" -> [behind EXCEPT ![u] = @ \union {"BrokeOff"}]
  /\ Hang(u)
  /\ UNCHANGED <<kind, row, screen, loading, pushes, age, file, sweep, consent, why, stirred>>

(***************************************************************************)
(* Opening the menu loads the setting (loadFor): the answer replaces what  *)
(* the client shows by then, and no answer leaves it.                      *)
(***************************************************************************)
LoadRead(u) ==
  /\ loading[u] = NoLoad /\ left.loads > 0
  /\ loading' = [loading EXCEPT ![u] = View(row)]
  /\ left' = [left EXCEPT !.loads = @ - 1]
  /\ UNCHANGED <<kind, row, screen, call, pushes, age, file, sweep, consent, why, behind, stirred>>

LoadShown(u) ==
  /\ loading[u] # NoLoad
  /\ Shows(u, loading[u])
  /\ behind' = IF Quiet /\ loading[u] = View(row) THEN [behind EXCEPT ![u] = {}] ELSE behind
  /\ loading' = [loading EXCEPT ![u] = NoLoad]
  /\ UNCHANGED <<row, call, pushes, consent, why, stirred>> /\ UNCHANGED Elsewhere

LoadFails(u) ==
  /\ loading[u] # NoLoad
  /\ loading' = [loading EXCEPT ![u] = NoLoad]
  /\ UNCHANGED <<row, screen, call, pushes, consent, why, behind, stirred>> /\ UNCHANGED Elsewhere

(***************************************************************************)
(* The sweep: the active settings, then the cap for all other chats, each  *)
(* deleting the files of what it selects and then the rows.  A delete that *)
(* fails is passed over.                                                   *)
(***************************************************************************)
Day ==
  /\ age \in 0..CapDays /\ left.sweeps > 0
  /\ sweep.pc = "idle"   \* a sweep takes its cutoffs once
  /\ age' = age + 1
  /\ UNCHANGED <<kind, row, screen, loading, call, pushes, file, sweep, left, consent, why, behind, stirred>>

SweepTo(pc) == sweep' = [sweep EXCEPT !.pc = pc]
TooOld == age > sweep.days
Capped == age > CapDays /\ row.status # "active"

\* The message has its file, or both are gone.
Together == file <=> age >= 0

SweepSettings ==
  /\ sweep.pc = "idle" /\ left.sweeps > 0
  /\ sweep' = IF row.status = "active" THEN [pc |-> "files", days |-> row.days]
                                       ELSE [pc |-> "capFiles", days |-> 0]
  /\ left' = [left EXCEPT !.sweeps = @ - 1]
  /\ stirred' = (stirred /\ ~Together)   \* nothing brings together what it parted
  /\ UNCHANGED <<age, file>>

Miss(chosen) ==
  /\ chosen /\ left.drops > 0
  /\ left' = [left EXCEPT !.drops = @ - 1]
  /\ stirred' = TRUE /\ UNCHANGED <<age, file>>

SweepFiles(pc, chosen, next) ==
  /\ sweep.pc = pc /\ SweepTo(next)
  /\ \/ file' = (file /\ ~chosen) /\ UNCHANGED <<age, left, stirred>>
     \/ Miss(chosen)

SweepRows(pc, chosen, next) ==
  /\ sweep.pc = pc /\ SweepTo(next)
  /\ \/ age' = (IF chosen THEN -1 ELSE age) /\ UNCHANGED <<file, left, stirred>>
     \/ Miss(chosen)

Sweep ==
  /\ \/ SweepSettings
     \/ SweepFiles("files", TooOld, "rows")
     \/ SweepRows("rows", TooOld, "capFiles")
     \/ SweepFiles("capFiles", Capped, "capRows")
     \/ SweepRows("capRows", Capped, "idle")
  /\ UNCHANGED <<kind, row, screen, loading, call, pushes, consent, why, behind>>

ANext ==
  \/ \E u \in Side :
       \/ \E d \in {0} \union Days, op \in {"propose", "accept", "decline", "set"} : Ask(u, op, d)
       \/ Read(u) \/ WriteRow(u) \/ TellPeer(u) \/ Answer(u) \/ Break(u)
       \/ Receive(u) \/ Lose(u) \/ LoadRead(u) \/ LoadShown(u) \/ LoadFails(u)
  \/ Day \/ Sweep

ASpec == AInit /\ [][ANext]_avars

-----------------------------------------------------------------------------
(* Properties                                                              *)

\* The types of the variables.
ATypeOK ==
  /\ kind \in {"dm", "group"} /\ row.status \in {"off", "pending", "active"}
  /\ row.days \in {0} \union Days /\ row.orig \in {0} \union Days
  /\ \A u \in Side : /\ screen[u].status \in {"unread", "off", "pending", "active"}
                      /\ loading[u].status \in {"none", "off", "pending", "active"}
  /\ age \in -1..(CapDays + 1) /\ file \in BOOLEAN /\ stirred \in BOOLEAN

\* "Both sides must agree": the setting in force, or that none is, was agreed to
\* by both, unless two requests crossed, a client answered a proposal that was no
\* longer there, or a proposal replaced a proposal (autoDeleteRoutes.js:49-160).
SettingWasAgreed ==
  why = {} /\ row.status # "pending" => \A u \in Side : row.days \in consent[u]

\* Once nothing is on the way, a client that has loaded the setting shows it,
\* unless a push was lost, two changes overlapped, the setting changed under a load,
\* or a change broke off (autoDelete.svelte.js).
CopyHasACause ==
  Quiet => \A u \in Side :
    screen[u].status # "unread" => screen[u] = View(row) \/ behind[u] # {}

\* Between sweeps a message that is kept keeps its file and one that is deleted
\* has none, unless the setting changed under the sweep or a delete failed
\* (cron.js:18-55, 363-400).
FilesFollowMessages ==
  sweep.pc = "idle" /\ ~stirred => Together

\* What is in force was agreed to and is shown: SettingWasAgreed and CopyHasACause.
SettingShownAsAgreed == SettingWasAgreed /\ CopyHasACause
=============================================================================

------------------------------ MODULE Devices ------------------------------
(***************************************************************************)
(* The devices of one user: the rows of the table devices, and the two     *)
(* stores derived from them, each device's inbox key and the index of      *)
(* devices that others encrypt for (e2eRoutes.js, cron.js).  A device      *)
(* registers at every start (e2eKeys.js), says every hour that it is used  *)
(* (multidevice.js), and is taken out by its user or by the hourly sweep.  *)
(* Every request changes its row first and the index last, from rows it    *)
(* read in between.                                                        *)
(***************************************************************************)
EXTENDS Integers, FiniteSets

CONSTANTS
  Device,      \* the user's devices
  MaxDevices,  \* MAX_DEVICES, 5 in the code
  Limits,      \* bounds, a set of [acts, sweeps, ticks, lost], of which a run has one
  Nobody       \* no request, no device

VARIABLES
  row,      \* row[d]: state of the row, created less than a day ago, unseen for 30 days
  key,      \* devices with an inbox key in KV
  index,    \* KV e2e:inbox:index
  beat,     \* devices whose heartbeat counted within the hour
  use,      \* use[d]: signed out, closed, open, registered, or refused by the limit
  call,     \* call[d]: the request of d's client under way
  sweep,    \* the hourly sweep under way
  left,     \* what is left of the bounds
  banned,   \* history: devices their user removed and did not sign in on again
  excuse,   \* history: excuse[d], why d may not be served
  stray,    \* history: why the index may differ from the rows
  met,      \* history: requests that changed rows while another one did
  raced     \* history: a device was added to other rows than its upload had counted

dvars == <<row, key, index, beat, use, call, sweep, left, banned, excuse, stray, met, raced>>

NoRow == [state |-> "absent", young |-> FALSE, unseen |-> FALSE]
Free == [op |-> Nobody, pc |-> "free", of |-> Nobody, seen |-> {}]
Idle == [pc |-> "idle", todo |-> {}, of |-> Nobody, seen |-> {}]

DInit ==
  /\ left \in Limits
  /\ \E first \in Device :
       /\ row = [d \in Device |-> IF d = first THEN [state |-> "active", young |-> FALSE, unseen |-> FALSE] ELSE NoRow]
       /\ key = {first} /\ index = {first}
       /\ use = [d \in Device |-> IF d = first THEN "registered" ELSE "out"]
  /\ beat = {} /\ call = [d \in Device |-> Free] /\ sweep = Idle
  /\ banned = {} /\ excuse = [d \in Device |-> {}] /\ stray = {} /\ met = {} /\ raced = FALSE

Live == {d \in Device : row[d].state \in {"active", "syncing"}}
Counted == {d \in Device : row[d].state \in {"active", "syncing", "new"}}
Idling == sweep.pc = "idle" /\ \A d \in Device : call[d].op = Nobody

\* The requests between their first change of a row and their index.
Cron == Nobody
Between == {d \in Device : call[d].op # Nobody /\ call[d].pc \in {"unkey", "key", "sync", "list", "index"}}
             \union (IF sweep.pc \in {"unkey", "list", "index"} THEN {Cron} ELSE {})
Meets(who) == met' = IF Between \ {who} = {} THEN met ELSE met \union Between \union {who}

\* Slip: the index is added to and never derived again.
Puts_OnlyAdds(who, seen) ==
  /\ index' = index \union seen
  /\ stray' = IF who \in met THEN stray \union {"Overlap"} ELSE {}
  /\ met' = met \ {who}

\* A request reads the rows, and writes the index of what it read.
Puts(who, seen) ==
  /\ index' = seen
  /\ stray' = IF who \in met THEN stray \union {"Overlap"} ELSE {}
  /\ met' = met \ {who}

(***************************************************************************)
(* A client starts, registers and says that it is used.                    *)
(***************************************************************************)
SignIn(d) ==
  /\ use[d] = "out" /\ left.acts > 0
  /\ use' = [use EXCEPT ![d] = "closed"]
  /\ banned' = banned \ {d}
  /\ excuse' = [excuse EXCEPT ![d] = @ \ {"Kept"}]
  /\ left' = [left EXCEPT !.acts = @ - 1]
  /\ UNCHANGED <<row, key, index, beat, call, sweep, stray, met, raced>>

Close(d) ==
  /\ use[d] \in {"registered", "refused"} /\ call[d].op = Nobody
  /\ use' = [use EXCEPT ![d] = "closed"]
  /\ UNCHANGED <<row, key, index, beat, call, sweep, left, banned, excuse, stray, met, raced>>

\* Those between taking d out and the index.
Removers(d) == {c \in Device : call[c].op = "remove" /\ call[c].of = d /\ c \in Between}
                 \union (IF sweep.of = d /\ Cron \in Between THEN {Cron} ELSE {})

Start(d) ==
  /\ use[d] = "closed" /\ call[d].op = Nobody
  /\ use' = [use EXCEPT ![d] = "open"]
  /\ call' = [call EXCEPT ![d] = [op |-> "upload", pc |-> "limit", of |-> d, seen |-> {}]]
  /\ excuse' = [excuse EXCEPT ![d] = @ \union IF Removers(d) # {} THEN {"Crossed"} ELSE {}]
  /\ UNCHANGED <<row, key, index, beat, sweep, left, banned, stray, met, raced>>

\* /e2e/inbox/upload: the limit counts the rows that are not revoked.
Limit(d) ==
  /\ call[d].pc = "limit"
  /\ LET refused == d \notin Counted /\ Cardinality(Counted) >= MaxDevices
     IN IF refused THEN /\ call' = [call EXCEPT ![d] = Free]
                        /\ use' = [use EXCEPT ![d] = IF use[d] = "open" THEN "refused" ELSE @]
                   ELSE call' = [call EXCEPT ![d].pc = "row", ![d].seen = Counted] /\ UNCHANGED use
  /\ UNCHANGED <<row, key, index, beat, sweep, left, banned, excuse, stray, met, raced>>

\* A revoked row begins again but keeps the day it was created.
Registered(r) ==
  CASE r.state = "absent" -> [state |-> "new", young |-> TRUE, unseen |-> FALSE]
    [] r.state = "revoked" -> [r EXCEPT !.state = "new", !.unseen = FALSE]
    [] OTHER -> [r EXCEPT !.unseen = FALSE]

\* Why a row may still be syncing that was created long ago.
Silent == {"OldRow", "Debounced", "Unheard"}

UploadRow(d) ==
  /\ call[d].op = "upload" /\ call[d].pc = "row"
  /\ row' = [row EXCEPT ![d] = Registered(row[d])]
  /\ call' = [call EXCEPT ![d].pc = "key"]
  /\ excuse' = [excuse EXCEPT ![d] =
       (@ \intersect (Silent \union {"Kept"} \union IF d \in banned THEN {"Crossed"} ELSE {}))
         \union (IF Removers(d) # {} THEN {"Crossed"} ELSE {})
         \union (IF row[d].state = "revoked" /\ ~row[d].young THEN {"OldRow"} ELSE {})]
  /\ raced' = (raced \/ (d \notin Counted /\ Counted # call[d].seen))
  /\ Meets(d)
  /\ UNCHANGED <<key, index, beat, use, sweep, left, banned, stray>>

UploadKey(d) ==
  /\ call[d].pc = "key"
  /\ key' = key \union {d}
  /\ call' = [call EXCEPT ![d].pc = "sync"]
  /\ UNCHANGED <<row, index, beat, use, sweep, left, banned, excuse, stray, met, raced>>

UploadSync(d) ==
  /\ call[d].pc = "sync"
  /\ row' = [row EXCEPT ![d].state = IF @ = "new" THEN "syncing" ELSE @]
  /\ call' = [call EXCEPT ![d].pc = "list"]
  /\ UNCHANGED <<key, index, beat, use, sweep, left, banned, excuse, stray, met, raced>>

List(d) ==
  /\ call[d].pc = "list"
  /\ call' = [call EXCEPT ![d].pc = "index", ![d].seen = Live]
  /\ UNCHANGED <<row, key, index, beat, use, sweep, left, banned, excuse, stray, met, raced>>

\* The answer; the client then sends its heartbeat.
UploadIndex(d) ==
  /\ call[d].op = "upload" /\ call[d].pc = "index"
  /\ Puts(d, call[d].seen)
  /\ use' = [use EXCEPT ![d] = IF @ = "open" THEN "registered" ELSE @]
  /\ call' = [call EXCEPT ![d] = IF use[d] = "open" THEN [Free EXCEPT !.op = "heartbeat", !.pc = "beat"] ELSE Free]
  /\ UNCHANGED <<row, key, beat, sweep, left, banned, excuse, raced>>

\* The app comes back to the foreground.
Resume(d) ==
  /\ use[d] = "registered" /\ call[d].op = Nobody
  /\ d \notin beat /\ row[d].state # "revoked"
  /\ call' = [call EXCEPT ![d] = [Free EXCEPT !.op = "heartbeat", !.pc = "beat"]]
  /\ UNCHANGED <<row, key, index, beat, use, sweep, left, banned, excuse, stray, met, raced>>

\* /e2e/inbox/heartbeat: once an hour, and only for a row that is not revoked.
Heartbeat(d) ==
  /\ call[d].op = "heartbeat"
  /\ IF d \in beat \/ d \notin Live
     THEN /\ excuse' = [excuse EXCEPT ![d] = IF row[d].state = "syncing" THEN @ \union {"Debounced"} ELSE @]
          /\ UNCHANGED <<row, beat>>
     ELSE /\ row' = [row EXCEPT ![d].state = "active", ![d].unseen = FALSE]
          /\ beat' = beat \union {d}
          /\ excuse' = [excuse EXCEPT ![d] = @ \ Silent]
  /\ call' = [call EXCEPT ![d] = Free]
  /\ UNCHANGED <<key, index, use, sweep, left, banned, stray, met, raced>>

\* It is not repeated when it is lost.
HeartbeatLost(d) ==
  /\ call[d].op = "heartbeat" /\ left.lost > 0
  /\ call' = [call EXCEPT ![d] = Free]
  /\ left' = [left EXCEPT !.lost = @ - 1]
  /\ excuse' = [excuse EXCEPT ![d] = @ \union {"Unheard"}]
  /\ UNCHANGED <<row, key, index, beat, use, sweep, banned, stray, met, raced>>

(***************************************************************************)
(* /e2e/inbox/remove: for another device a security measure, which also    *)
(* ends the sessions of all others; for the own one the way to log out.    *)
(***************************************************************************)
Remove(a, d) ==
  /\ use[a] = "registered" /\ call[a].op = Nobody /\ left.acts > 0
  /\ row[d].state \notin {"absent", "revoked"}
  /\ call' = [call EXCEPT ![a] = [op |-> "remove", pc |-> "revoke", of |-> d, seen |-> {}]]
  /\ left' = [left EXCEPT !.acts = @ - 1]
  /\ UNCHANGED <<row, key, index, beat, use, sweep, banned, excuse, stray, met, raced>>

Uploading(d) == call[d].op = "upload"

RemoveRow(a) ==
  /\ call[a].pc = "revoke"
  /\ LET d == call[a].of IN
       IF row[d].state = "revoked"
       THEN /\ call' = [call EXCEPT ![a] = Free]
            /\ use' = [use EXCEPT ![a] = IF d = a THEN "out" ELSE @]
            /\ UNCHANGED <<row, banned, excuse, met>>
       ELSE /\ row' = [row EXCEPT ![d].state = "revoked"]
            /\ call' = [call EXCEPT ![a].pc = "unkey"]
            /\ excuse' = [excuse EXCEPT ![d] = @ \union {"Removed"} \union IF Uploading(d) THEN {"Crossed"} ELSE {}]
            /\ banned' = IF d = a THEN banned ELSE banned \union {d}
            /\ Meets(a) /\ UNCHANGED use
  /\ UNCHANGED <<key, index, beat, sweep, left, stray, raced>>

RemoveKey(a) ==
  /\ call[a].pc = "unkey"
  /\ key' = key \ {call[a].of}
  /\ call' = [call EXCEPT ![a].pc = "list"]
  /\ UNCHANGED <<row, index, beat, use, sweep, left, banned, excuse, stray, met, raced>>

\* The index, the sessions (of which some may be missed), the pushes, the answer.
Ends(a, d, missed) ==
  [x \in Device |-> IF d = a THEN (IF x = a THEN "out" ELSE use[x])
                    ELSE IF x = a \/ x \in missed THEN use[x] ELSE "out"]

RemoveIndex(a) ==
  /\ call[a].op = "remove" /\ call[a].pc = "index"
  /\ Puts(a, call[a].seen)
  /\ \E missed \in SUBSET {x \in Device \ {a} : use[x] = "closed"} :
       /\ use' = Ends(a, call[a].of, missed)
       /\ excuse' = [x \in Device |-> IF x \in missed THEN excuse[x] \union {"Kept"} ELSE excuse[x]]
  /\ call' = [call EXCEPT ![a] = Free]
  /\ UNCHANGED <<row, key, beat, sweep, left, banned, raced>>

\* A request breaks off between two of its statements; a client tries again at
\* its next start.
Break(d) ==
  /\ d \in Between /\ left.lost > 0
  /\ call' = [call EXCEPT ![d] = Free]
  /\ use' = [use EXCEPT ![d] = IF @ = "open" THEN "refused" ELSE @]
  /\ stray' = stray \union {"BrokeOff"}
  /\ excuse' = [excuse EXCEPT ![d] = @ \union {"BrokeOff"}]
  /\ met' = met \ {d}
  /\ left' = [left EXCEPT !.lost = @ - 1]
  /\ UNCHANGED <<row, key, index, beat, sweep, banned, raced>>

(***************************************************************************)
(* The hourly sweep: rows that never became active in a day are revoked in *)
(* one statement and nothing else; active rows unseen for 30 days are      *)
(* taken one by one, with their keys and the index; rows revoked for 90    *)
(* days go.                                                                *)
(***************************************************************************)
Stuck == {d \in Device : row[d].state \in {"new", "syncing"} /\ ~row[d].young}
StuckSweep ==
  /\ sweep.pc = "idle" /\ left.sweeps > 0
  /\ row' = [d \in Device |-> IF d \in Stuck THEN [row[d] EXCEPT !.state = "revoked"] ELSE row[d]]
  /\ stray' = IF Stuck = {} THEN stray ELSE stray \union {"Swept"}
  /\ met' = IF Stuck = {} THEN met ELSE met \union Between
  /\ excuse' = [d \in Device |-> IF d \in Stuck /\ Uploading(d) THEN excuse[d] \union {"Crossed"} ELSE excuse[d]]
  /\ sweep' = [Idle EXCEPT !.pc = "stale"]
  /\ left' = [left EXCEPT !.sweeps = @ - 1]
  /\ UNCHANGED <<key, index, beat, use, call, banned, raced>>

Stale == {d \in Device : row[d].state = "active" /\ row[d].unseen}
StaleRead ==
  /\ sweep.pc = "stale"
  /\ sweep' = [sweep EXCEPT !.pc = "next", !.todo = Stale]
  /\ UNCHANGED <<row, key, index, beat, use, call, left, banned, excuse, stray, met, raced>>

StaleRow(d) ==
  /\ sweep.pc = "next" /\ d \in sweep.todo
  /\ row' = [row EXCEPT ![d].state = IF @ = "absent" THEN @ ELSE "revoked"]
  /\ sweep' = [sweep EXCEPT !.pc = "unkey", !.of = d, !.todo = @ \ {d}]
  /\ excuse' = [excuse EXCEPT ![d] = @ \union IF row[d].unseen THEN {} ELSE {"SeenAgain"}]
  /\ Meets(Cron)
  /\ UNCHANGED <<key, index, beat, use, call, left, banned, stray, raced>>

StaleKey ==
  /\ sweep.pc = "unkey"
  /\ key' = key \ {sweep.of}
  /\ sweep' = [sweep EXCEPT !.pc = "list"]
  /\ UNCHANGED <<row, index, beat, use, call, left, banned, excuse, stray, met, raced>>

StaleList ==
  /\ sweep.pc = "list"
  /\ sweep' = [sweep EXCEPT !.pc = "index", !.seen = Live]
  /\ UNCHANGED <<row, key, index, beat, use, call, left, banned, excuse, stray, met, raced>>

\* The index, and the push that makes the device itself log out if it hears it.
StaleIndex ==
  /\ sweep.pc = "index"
  /\ Puts(Cron, sweep.seen)
  /\ \E heard \in BOOLEAN :
       use' = [use EXCEPT ![sweep.of] = IF @ # "closed" /\ heard THEN "out" ELSE @]
  /\ sweep' = [sweep EXCEPT !.pc = "next", !.of = Nobody, !.seen = {}]
  /\ UNCHANGED <<row, key, beat, call, left, banned, excuse, raced>>

SweepEnds ==
  /\ sweep.pc = "next" /\ sweep.todo = {}
  /\ sweep' = Idle
  /\ UNCHANGED <<row, key, index, beat, use, call, left, banned, excuse, stray, met, raced>>

(***************************************************************************)
(* Time passes while no request is under way.                              *)
(***************************************************************************)
Pass == Idling /\ left.ticks > 0 /\ left' = [left EXCEPT !.ticks = @ - 1]

Rest == UNCHANGED <<key, index, use, call, sweep, banned, excuse, stray, met, raced>>
Hour == Pass /\ beat # {} /\ beat' = {} /\ UNCHANGED row /\ Rest
Day == Pass /\ beat' = {} /\ row' = [d \in Device |-> [row[d] EXCEPT !.young = FALSE]] /\ Rest
\* A device in use is seen.
Month ==
  /\ Pass /\ beat' = {}
  /\ row' = [d \in Device |-> [row[d] EXCEPT !.young = FALSE, !.unseen = @ \/ use[d] # "registered"]]
  /\ Rest
\* Three months after its revocation a row goes; its device is out of use.
Forget(d) ==
  /\ Pass /\ row[d].state = "revoked" /\ use[d] # "registered"
  /\ row' = [row EXCEPT ![d] = NoRow] /\ beat' = {} /\ Rest

DNext ==
  \/ \E d \in Device :
       \/ SignIn(d) \/ Close(d) \/ Start(d) \/ Limit(d) \/ UploadRow(d) \/ UploadKey(d) \/ UploadSync(d)
       \/ List(d) \/ UploadIndex(d) \/ Resume(d) \/ Heartbeat(d) \/ HeartbeatLost(d)
       \/ (\E t \in Device : Remove(d, t)) \/ RemoveRow(d) \/ RemoveKey(d) \/ RemoveIndex(d)
       \/ Break(d) \/ StaleRow(d) \/ Forget(d)
  \/ StuckSweep \/ StaleRead \/ StaleKey \/ StaleList \/ StaleIndex \/ SweepEnds
  \/ Hour \/ Day \/ Month

DSpec == DInit /\ [][DNext]_dvars

-----------------------------------------------------------------------------
(* Properties                                                              *)

\* The types of the variables.
DTypeOK ==
  /\ \A d \in Device : /\ row[d].state \in {"absent", "new", "syncing", "active", "revoked"}
                       /\ row[d].young \in BOOLEAN /\ row[d].unseen \in BOOLEAN
                       /\ use[d] \in {"out", "closed", "open", "registered", "refused"}
  /\ key \subseteq Device /\ index \subseteq Device /\ beat \subseteq Device
  /\ banned \subseteq Device /\ met \subseteq Device \union {Cron}

\* A device that has registered and is in use keeps its row, its key and its place
\* in the index, unless something in excuse or stray took them: its removal, a
\* crossing upload or sweep, or the sweep of rows that never became active, which
\* looks at the day of the first registration, before a heartbeat counted
\* (e2eRoutes.js, cron.js).
InUseStaysServed ==
  Idling => \A d \in Device : use[d] = "registered" =>
    /\ d \in Live \/ excuse[d] # {}
    /\ d \in index \intersect key \/ excuse[d] # {} \/ stray # {}

\* The index lists the devices whose rows are active or syncing, unless two
\* requests wrote it from rows that overlapped, one broke off, or the sweep of stuck
\* devices changed rows without it: "KV-Index aus D1 ableiten" (e2eRoutes.js).
IndexHasACause == Idling => index = Live \/ stray # {}

\* A device its user removed as unsafe is registered again only by a sign-in, or by
\* an upload that was under way or a session that was missed (e2eRoutes.js).
RemovedStaysOut ==
  Idling => \A d \in banned : d \in Live => excuse[d] \intersect {"Crossed", "Kept", "BrokeOff"} # {}

\* More devices than the limit allows are registered only when a device was added to
\* other rows than its upload had counted: the limit is read before the row is
\* written (e2eRoutes.js).
LimitHasACause == Cardinality(Counted) > MaxDevices => raced

\* What others encrypt for is what is registered and in use: InUseStaysServed and
\* IndexHasACause.
DevicesServed == InUseStaysServed /\ IndexHasACause

\* Who may not register does not: RemovedStaysOut and LimitHasACause.
DevicesAdmitted == RemovedStaysOut /\ LimitHasACause
=============================================================================

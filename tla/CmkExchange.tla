---------------------------- MODULE CmkExchange ----------------------------
(* The master key (CMK) of one direct chat between the users a and b. Every    *)
(* device keeps an active key and a map from the rotation index to the key     *)
(* that holds from there on; the server keeps one wrapped key per device, which *)
(* whoever stored last has written, and one backup per user. A message names   *)
(* its index, not its key. All functions of a device are asynchronous and any  *)
(* two of them overlap.                                                        *)
EXTENDS Naturals, FiniteSets, Sequences

CONSTANTS DevsA, DevsB, MaxActs, MaxPending, MaxIndex

ASSUME Disjoint == DevsA \cap DevsB = {}
ASSUME BoundsAssumption == {MaxActs, MaxPending, MaxIndex} \subseteq Nat

Devs == DevsA \cup DevsB
Users == {"a", "b"}
Of(u) == IF u = "a" THEN DevsA ELSE DevsB
User(d) == IF d \in DevsA THEN "a" ELSE "b"
Own(d) == Of(User(d))
Theirs(d) == Devs \ Own(d)

None == 0
Keys == 1..(1 + 2 * MaxActs)
KeyOrNone == Keys \cup {None}
Index == 0..MaxIndex
Nothing == [i \in Index |-> None]
NoCell == [key |-> None, from |-> None]

(* registered, online: devices of a and b that the server lists, that have the  *)
(* app open. inbox: control messages and device events on their way. cell: the  *)
(* wrap for a device. tasks: the asynchronous functions under way.             *)
VARIABLES registered, online, inbox, active, map, sk, unavailable, cell, msgs, backup, dirty,
          tasks, made, heard, acts, leaked, excused

(* Memory of the page: sk, unavailable, dirty, tasks. Stored on the device:    *)
(* active and map. At the server: cell, msgs, backup. heard: the user whose    *)
(* device events reach the other user. History: leaked, the keys that a removed *)
(* device has; excused, the devices that cannot know of the removal, or were   *)
(* put back to an older key.                                                   *)
device == <<active, map, sk, unavailable, dirty>>
server == <<registered, cell, msgs, backup>>
cmk == <<device, server, online, inbox, tasks, made, heard, acts, leaked, excused>>

TypeOK ==
  /\ online \subseteq registered /\ registered \subseteq Devs
  /\ \A d \in Devs : /\ active[d] \in KeyOrNone
                     /\ map[d] \in [Index -> KeyOrNone] /\ sk[d] \in [Index -> KeyOrNone]
                     /\ cell[d].key # None => cell[d].from \in Devs \ {d}
  /\ \A m \in msgs : m.key \in Keys /\ m.idx \in Index
  /\ leaked \subseteq Keys /\ excused \subseteq Devs

(* A chat without a message, or one under key 1 that all devices have.         *)
Init ==
  \E R \in SUBSET Devs, old \in BOOLEAN :
    /\ R \cap DevsA # {} /\ R \cap DevsB # {}
    /\ registered = R /\ online = R /\ inbox = [d \in Devs |-> <<>>]
    /\ active = [d \in Devs |-> IF old /\ d \in R THEN 1 ELSE None]
    /\ map = [d \in Devs |-> Nothing] /\ sk = [d \in Devs |-> Nothing]
    /\ unavailable = {} /\ dirty = {} /\ tasks = {}
    /\ cell = [d \in Devs |-> IF old /\ d \in R THEN [key |-> 1, from |-> CHOOSE e \in R : e \in Theirs(d)]
                                               ELSE NoCell]
    /\ msgs = (IF old THEN {[by |-> CHOOSE e \in R : TRUE, idx |-> 0, key |-> 1]} ELSE {})
    /\ backup = [u \in Users |-> [key |-> IF old THEN 1 ELSE None, map |-> Nothing]]
    /\ made = (IF old THEN 1 ELSE 0) /\ heard \in Users /\ acts \in 0..MaxActs
    /\ leaked = {} /\ excused = {}

(* MaxActs: what users and the network do in a behaviour, those it has already *)
(* spent at its start included; MaxPending: how much is under way when one more *)
(* thing is done.                                                              *)
Pending == Cardinality(tasks) + Cardinality({d \in Devs : inbox[d] # <<>>})
Act == acts < MaxActs /\ acts' = acts + 1 /\ Pending <= MaxPending
Pushed(D, e) == [d \in Devs |-> IF d \in D \cap online THEN Append(inbox[d], e) ELSE inbox[d]]
Becomes(t, new) == tasks' = (tasks \ {t}) \cup new

----------------------------------------------------------------------------
(* session.js: the map's last entry, an entry put in place of all from its     *)
(* index on, and the key for an index.                                         *)
At(M) == {i \in Index : M[i] # None}
MaxOf(S) == CHOOSE i \in S : \A j \in S : j <= i
Last(M) == IF At(M) = {} THEN 0 ELSE MaxOf(At(M))
Appended_Alone(M, i, k) == [j \in Index |-> IF j = i THEN k ELSE None]
Appended(M, i, k) == [j \in Index |-> IF j = i THEN k ELSE IF j < i THEN M[j] ELSE None]
Look(M, i) ==
  LET below == {j \in At(M) : j <= i}
  IN IF At(M) = {} THEN None
     ELSE IF below = {} THEN M[CHOOSE j \in At(M) : \A l \in At(M) : j <= l] ELSE M[MaxOf(below)]

(* A wrap opens only with the public key of a device of the other user: what   *)
(* an own device stored is never found (tryFetchAndUnwrapCMK).                 *)
Fetched(d) == IF cell[d].from \in Theirs(d) \cap registered THEN cell[d].key ELSE None
Tried(d, i) == IF active[d] = None THEN {} ELSE {Look(map[d], i), active[d]}

(* A session key is kept for its index, whatever the map says or will say of it. *)
ExcusedUnless(d, held) == excused' = IF held THEN excused ELSE excused \cup {d}
Keep(d, i, k) == sk' = [sk EXCEPT ![d][i] = k]
                 /\ ExcusedUnless(d, k = IF At(map[d]) = {} THEN active'[d] ELSE Look(map[d], i))
Entered(d, i, k) == /\ map' = [map EXCEPT ![d] = Appended(@, i, k)]
                    /\ ExcusedUnless(d, sk[d][i] \in {None, k} /\ k \notin leaked)

----------------------------------------------------------------------------
(* sendEncryptedDm. ensureSecureDmSession: the local key; the wrap; with       *)
(* history a request; only without history a new key.                          *)
Encrypt(d, k) == [dev |-> d, op |-> "encrypt", key |-> k]
Store(d, k, next) == [dev |-> d, op |-> "store", key |-> k, to |-> registered \ {d}, next |-> next]

Send(d) ==
  /\ Act /\ d \in online \ unavailable
  /\ LET k == IF active[d] # None THEN active[d] ELSE Fetched(d) IN
     /\ active' = [active EXCEPT ![d] = k]
     /\ dirty' = dirty \cup (IF active[d] # k THEN {d} ELSE {})
     /\ IF k # None THEN tasks' = tasks \cup {Encrypt(d, k)} /\ inbox' = inbox
        ELSE IF msgs # {} THEN tasks' = tasks \cup {[dev |-> d, op |-> "wait"]}
                               /\ inbox' = Pushed(Theirs(d), [e |-> "request"])
        ELSE tasks' = tasks \cup {[dev |-> d, op |-> "create", n |-> acts]} /\ inbox' = inbox
  /\ UNCHANGED <<map, sk, unavailable, server, online, made, heard, leaked, excused>>

Waited(t) ==
  /\ t.op = "wait"
  /\ \/ /\ Fetched(t.dev) # None /\ t.dev \notin unavailable
        /\ active' = [active EXCEPT ![t.dev] = IF @ = None THEN Fetched(t.dev) ELSE @]
        /\ dirty' = dirty \cup {t.dev} /\ Becomes(t, {Encrypt(t.dev, Fetched(t.dev))})
     \/ tasks' = tasks \ {t} /\ UNCHANGED <<active, dirty>>
  /\ UNCHANGED <<map, sk, unavailable, server, online, inbox, made, heard, acts, leaked, excused>>

(* createAndStoreCMK does not look whether a key has come since.               *)
Create(t) ==
  /\ t.op = "create" /\ made' = made + 1 /\ active' = [active EXCEPT ![t.dev] = made']
  /\ dirty' = dirty \cup {t.dev} /\ Becomes(t, {Store(t.dev, made', TRUE)})
  /\ ExcusedUnless(t.dev, active[t.dev] = None)
  /\ UNCHANGED <<map, sk, unavailable, server, online, inbox, heard, acts, leaked>>

(* The wraps for all devices but the own one; a failure is not looked at.      *)
Wrapped(t) == [d \in Devs |-> IF d \in t.to THEN [key |-> t.key, from |-> t.dev] ELSE cell[d]]
Stored(t) ==
  /\ t.op = "store" /\ t.dev \in registered
  /\ \/ cell' = Wrapped(t) /\ acts' = acts
     \/ cell' = cell /\ Act
  /\ Becomes(t, IF t.next THEN {Encrypt(t.dev, t.key)} ELSE {})
  /\ UNCHANGED <<device, registered, msgs, backup, online, inbox, made, heard, leaked, excused>>

(* The index is the map's last one; the session key of an index is kept.       *)
SendKey_AnyIndex(d, i, k) == IF sk[d][0] # None THEN sk[d][0] ELSE k
SendKey(d, i, k) == IF sk[d][i] # None THEN sk[d][i] ELSE k
Encrypted(t) ==
  /\ t.op = "encrypt" /\ Becomes(t, {}) /\ active' = active
  /\ LET i == Last(map[t.dev])  k == SendKey(t.dev, i, t.key) IN
     /\ Keep(t.dev, i, k)
     /\ msgs' = IF t.dev \in registered THEN msgs \cup {[by |-> t.dev, idx |-> i, key |-> k]} ELSE msgs
  /\ UNCHANGED <<map, unavailable, dirty, registered, cell, backup, online, inbox, made, heard, acts, leaked>>

(* An edit is encrypted like the message it replaces: for that one's index.    *)
Edit(d, m) ==
  /\ Act /\ d \in online /\ m.by = d /\ active[d] # None /\ sk[d][m.idx] = None /\ active' = active
  /\ LET held == Look(map[d], m.idx)  k == IF held = None THEN active[d] ELSE held IN
     /\ Keep(d, m.idx, k)
     /\ msgs' = msgs \cup {[by |-> d, idx |-> m.idx, key |-> k]}
  /\ UNCHANGED <<map, unavailable, dirty, registered, cell, backup, online, inbox, tasks, made, heard, leaked>>

(* A pulse is sent for the map's last index, and received for that of its       *)
(* sender. Either way its key is made of the active key, whatever the map says, *)
(* and kept as the session key of that index.                                  *)
PulseIndex(d) == {Last(map[e]) : e \in {d} \cup (Theirs(d) \cap online)}
Pulse(d, i) ==
  /\ Act /\ d \in online /\ active[d] # None /\ sk[d][i] = None /\ active' = active
  /\ Keep(d, i, active[d])
  /\ UNCHANGED <<map, unavailable, dirty, server, online, inbox, tasks, made, heard, leaked>>

----------------------------------------------------------------------------
(* decryptIncomingMessage: the map's key, the active one, the wrap; then a     *)
(* request. What opened the message is kept as the session key of its index.   *)
Open(d, m) ==
  /\ d \in online /\ m.key \in Tried(d, m.idx) /\ sk[d][m.idx] # m.key /\ active' = active
  /\ Keep(d, m.idx, m.key)
  /\ UNCHANGED <<map, unavailable, dirty, server, online, inbox, tasks, made, heard, acts, leaked>>

OpenByWrap(d, m) ==
  /\ d \in online \ unavailable /\ m.key \notin Tried(d, m.idx) /\ Fetched(d) # None
  /\ active' = [active EXCEPT ![d] = IF @ = None THEN Fetched(d) ELSE @]
  /\ dirty' = IF active[d] = None THEN dirty \cup {d} ELSE dirty
  /\ IF m.key \in {Look(map[d], m.idx), Fetched(d)} THEN Keep(d, m.idx, m.key)
     ELSE active[d] = None /\ UNCHANGED <<sk, excused>>
  /\ UNCHANGED <<map, unavailable, server, online, inbox, tasks, made, heard, acts, leaked>>

Ask(d, m) ==
  /\ Act /\ d \in online \ unavailable /\ m.key \notin Tried(d, m.idx) \cup {Fetched(d)}
  /\ inbox' = Pushed(Theirs(d), [e |-> "request"])
  /\ UNCHANGED <<device, server, online, tasks, made, heard, leaked, excused>>

----------------------------------------------------------------------------
(* Control messages and device events (App.svelte).                            *)
Event(d, e) == d \in online /\ inbox[d] # <<>> /\ Head(inbox[d]).e = e
Rest(d) == [inbox EXCEPT ![d] = Tail(@)]

RequestArrives(d) ==
  /\ Event(d, "request")
  /\ IF active[d] = None
     THEN tasks' = tasks /\ inbox' = [x \in Devs |-> IF x \in Theirs(d) \cap online
                                                     THEN Append(inbox[x], [e |-> "unavailable"]) ELSE Rest(d)[x]]
     ELSE tasks' = tasks \cup {Store(d, active[d], FALSE)} /\ inbox' = Rest(d)
  /\ UNCHANGED <<device, server, online, made, heard, acts, leaked, excused>>

UnavailableArrives(d) ==
  /\ Event(d, "unavailable") /\ inbox' = Rest(d)
  /\ unavailable' = IF active[d] = None THEN unavailable \cup {d} ELSE unavailable
  /\ UNCHANGED <<active, map, sk, dirty, server, online, tasks, made, heard, acts, leaked, excused>>

AddedArrives(d) ==
  /\ Event(d, "added") /\ inbox' = Rest(d)
  /\ tasks' = tasks \cup (IF active[d] = None THEN {} ELSE {Store(d, active[d], FALSE)})
  /\ UNCHANGED <<device, server, online, made, heard, acts, leaked, excused>>

(* Only the own device that removed it rotates; the peer's devices mirror,     *)
(* unless they are mirroring or have done so in the last 30 seconds.           *)
Mirrors(d) == \E t \in tasks : t.dev = d /\ t.op \in {"mirror", "mirrored", "cooling"}
RemovedArrives(d) ==
  /\ Event(d, "removed") /\ inbox' = Rest(d)
  /\ LET by == Head(inbox[d]).by
         does == active[d] # None /\ (by = d \/ (by \in Theirs(d) /\ ~Mirrors(d))) IN
     /\ tasks' = tasks \cup (IF ~does THEN {}
                             ELSE {[dev |-> d, op |-> IF by = d THEN "rotate" ELSE "mirror", seen |-> map[d],
                                    old |-> active[d], tell |-> by = d]})
     /\ map' = [map EXCEPT ![d] = IF does /\ At(@) = {} THEN Appended(@, 0, active[d]) ELSE @]
     /\ ExcusedUnless(d, does)
  /\ UNCHANGED <<active, sk, unavailable, dirty, server, online, made, heard, acts, leaked>>

(* A counter of messages that reaches its threshold rotates too, and tells     *)
(* nobody.                                                                     *)
Threshold(d) ==
  /\ Act /\ d \in online /\ active[d] # None /\ \E m \in msgs : m.by = d
  /\ tasks' = tasks \cup {[dev |-> d, op |-> "rotate", seen |-> map[d], old |-> active[d], tell |-> FALSE]}
  /\ map' = [map EXCEPT ![d] = IF At(@) = {} THEN Appended(@, 0, active[d]) ELSE @]
  /\ UNCHANGED <<active, sk, unavailable, dirty, server, online, inbox, made, heard, leaked, excused>>

(* rotateCMKForPeer: the next index of server and map, the map, the active     *)
(* key, the wraps. Rotations overlap: one that entered the map first may be    *)
(* the last to make its key the active one.                                    *)
ServerMax(d) == LET S == {m.idx : m \in {x \in msgs : x.by \in Own(d)}} IN IF S = {} THEN 0 ELSE MaxOf(S)
NextIndex(d, M) == MaxOf({ServerMax(d), Last(M)}) + 1

Rotate(t) ==
  /\ t.op = "rotate" /\ made' = made + 1
  /\ LET i == NextIndex(t.dev, IF At(t.seen) = {} THEN Appended(t.seen, 0, t.old) ELSE t.seen) IN
     i <= MaxIndex /\ Entered(t.dev, i, made')
  /\ Becomes(t, {[dev |-> t.dev, op |-> "rotated", key |-> made', tell |-> t.tell]})
  /\ UNCHANGED <<active, sk, unavailable, dirty, server, online, inbox, heard, acts, leaked>>

Imported(t) ==
  /\ t.op \in {"rotated", "mirrored"} /\ active' = [active EXCEPT ![t.dev] = t.key]
  /\ dirty' = dirty \cup {t.dev}
  /\ Becomes(t, IF t.op = "mirrored" THEN {[dev |-> t.dev, op |-> "cooling"]}
                ELSE IF t.tell THEN {Store(t.dev, t.key, FALSE)} ELSE {})
  /\ ExcusedUnless(t.dev, t.key = map[t.dev][Last(map[t.dev])])
  /\ UNCHANGED <<map, sk, unavailable, server, online, inbox, made, heard, acts, leaked>>

(* _doMirrorRotate takes a wrapped key that is neither the active one nor in   *)
(* the map as it was.                                                          *)
IsNew(t, k) == k \notin {None, t.old} \cup {t.seen[i] : i \in Index}
Mirror(t) ==
  /\ t.op = "mirror"
  /\ LET k == Fetched(t.dev)  i == NextIndex(t.dev, map[t.dev]) IN
     \/ /\ IsNew(t, k) /\ i <= MaxIndex /\ Entered(t.dev, i, k)
        /\ Becomes(t, {[dev |-> t.dev, op |-> "mirrored", key |-> k]})
     \/ tasks' = tasks \ {t} /\ map' = map /\ ExcusedUnless(t.dev, FALSE)
  /\ UNCHANGED <<active, sk, unavailable, dirty, server, online, inbox, made, heard, acts, leaked>>

Cooled(t) == /\ t.op = "cooling" /\ Becomes(t, {})
             /\ UNCHANGED <<device, server, online, inbox, made, heard, acts, leaked, excused>>

----------------------------------------------------------------------------
(* Devices come, go, close the app and lose their connection. Their events     *)
(* reach the other user only if that one's handle sorts first.                 *)
Told(d) == Own(d) \cup (IF User(d) = heard THEN Theirs(d) ELSE {})
Add(d) ==
  /\ Act /\ d \notin registered /\ active[d] = None /\ registered' = registered \cup {d}
  /\ online' = online \cup {d} /\ inbox' = Pushed(Told(d), [e |-> "added"])
  /\ ExcusedUnless(d, leaked = {})
  /\ UNCHANGED <<device, cell, msgs, backup, tasks, made, heard, leaked>>

Remove(d, by) ==
  /\ Act /\ by \in online /\ d \in (registered \cap Own(by)) \ {by}
  /\ registered' = registered \ {d} /\ online' = online \ {d} /\ cell' = [cell EXCEPT ![d] = NoCell]
  /\ leaked' = leaked \cup (({active[d]} \cup {map[d][i] : i \in Index}) \ {None})
  /\ excused' = excused \cup (Devs \ (Told(d) \cap online))
  /\ inbox' = [Pushed(Told(d) \ {d}, [e |-> "removed", by |-> by]) EXCEPT ![d] = <<>>]
  /\ tasks' = {t \in tasks : t.dev # d}
  /\ UNCHANGED <<device, msgs, backup, made, heard>>

Disconnect(d) == /\ Act /\ d \in online /\ inbox[d] = <<>> /\ online' = online \ {d}
                 /\ UNCHANGED <<device, server, inbox, tasks, made, heard, leaked, excused>>
Connect(d) == /\ d \in registered \ online /\ online' = online \cup {d}
              /\ UNCHANGED <<device, server, inbox, tasks, made, heard, acts, leaked, excused>>

(* The backup is written five seconds after the last import; a write that fails *)
(* or is due while another is under way is not made up for.                    *)
Sync(d) ==
  /\ d \in dirty \cap online /\ dirty' = dirty \ {d}
  /\ \/ backup' = [backup EXCEPT ![User(d)] = [key |-> active[d], map |-> map[d]]] /\ acts' = acts
     \/ backup' = backup /\ Act
  /\ UNCHANGED <<active, map, sk, unavailable, registered, cell, msgs, online, inbox, tasks, made, heard, leaked,
                 excused>>

(* The app starts anew, perhaps with its storage gone: bootstrapBundleRestore  *)
(* takes the key if there is none, and the map in any case.                    *)
Rotating(d) == \/ \E t \in tasks : t.dev = d /\ t.op \in {"rotate", "rotated", "mirror", "mirrored"}
               \/ \E n \in DOMAIN inbox[d] : inbox[d][n].e = "removed"
RestoredMap(M, B) == IF At(B) = {} THEN M ELSE B
Reload(d, wiped) ==
  /\ Act /\ d \in online
  /\ LET b == backup[User(d)]
         k == IF wiped \/ active[d] = None THEN b.key ELSE active[d] IN
     /\ active' = [active EXCEPT ![d] = k]
     /\ map' = [map EXCEPT ![d] = RestoredMap(IF wiped THEN Nothing ELSE @, b.map)]
     /\ ExcusedUnless(d, k = active[d] /\ map'[d] = map[d] /\ ~Rotating(d))
  /\ sk' = [sk EXCEPT ![d] = Nothing] /\ unavailable' = unavailable \ {d}
  /\ dirty' = dirty \cup {d} /\ tasks' = {t \in tasks : t.dev # d} /\ inbox' = [inbox EXCEPT ![d] = <<>>]
  /\ UNCHANGED <<server, online, made, heard, leaked>>

----------------------------------------------------------------------------
Task(t) == Waited(t) \/ Create(t) \/ Stored(t) \/ Encrypted(t) \/ Rotate(t) \/ Imported(t) \/ Mirror(t) \/ Cooled(t)
Arrives(d) == RequestArrives(d) \/ UnavailableArrives(d) \/ AddedArrives(d) \/ RemovedArrives(d)
Next == \/ \E d \in Devs : \/ Send(d) \/ Arrives(d) \/ Add(d) \/ Disconnect(d) \/ Connect(d) \/ Sync(d) \/ Threshold(d)
                           \/ \E e \in Devs : Remove(e, d)
                           \/ \E m \in msgs : Open(d, m) \/ OpenByWrap(d, m) \/ Ask(d, m) \/ Edit(d, m)
                           \/ \E i \in PulseIndex(d) : Pulse(d, i)
                           \/ \E wiped \in BOOLEAN : Reload(d, wiped)
        \/ \E t \in tasks : Task(t)
Spec == Init /\ [][Next]_cmk

----------------------------------------------------------------------------
Quiet == tasks = {} /\ \A d \in Devs : inbox[d] = <<>>
NextKey(d) == SendKey(d, Last(map[d]), active[d])

(* When all has been worked off, no device still sends under a key that a      *)
(* removed device holds, unless it is excused: it is another device of the     *)
(* remover, or was offline, or its user is not told of the other's devices, or *)
(* had no key then; it found no new wrap in time, or one with a key that the   *)
(* removed device had as well; it was closed in between or restored an older   *)
(* backup; it made the key of an older rotation the active one after that of a *)
(* newer one; or it keeps a session key that is not the map's for its index,   *)
(* because a send, a message or a pulse overtook a rotation.                   *)
RemovedKeyHasACause ==
  Quiet => \A d \in registered : NextKey(d) \in leaked => d \in excused

(* Whatever a device has sent stays readable to it under its active key and    *)
(* its map, through every rotation, mirrored rotation, request and reload, with *)
(* the same exceptions, and that of two sends of which each made a key.        *)
SentStaysReadable ==
  \A m \in msgs : m.by \in registered \ excused => m.key \in Tried(m.by, m.idx)
=============================================================================

----------------------------- MODULE GroupKeys -----------------------------
(* The sender keys (GSK) of one group. Every device that sends has a key of    *)
(* its own (my) and stores one key per other member (peer, by handle, not by   *)
(* device); it replaces its key when a member goes. GroupChain has the keys of *)
(* the messages, GroupMembers the server's member list, which is one set here. *)
(* Events reach only the devices that are connected, and handlers wait: for    *)
(* the list, for the write of the key, for the posts.                          *)
EXTENDS Naturals, Sequences, FiniteSets

CONSTANTS Handles, TwoDevices, Earlier, MaxActs, MaxPending
ASSUME DevicesAssumption == TwoDevices \subseteq Handles

Devices == {<<h, 1>> : h \in Handles} \cup {<<h, 2>> : h \in TwoDevices}
Of(H) == {d \in Devices : d[1] \in H}
None == 0

VARIABLES members, registered, online, inbox, my, peer, kv, tasks, last,
          known, unrotated, astray, acts

(* What the code keeps; then the history the properties need: who was sent     *)
(* which key (pairs), the devices that were not told of a departure or could    *)
(* not act on it, and pairs <<device, handle>> where a key on its way to the    *)
(* device went missing or its owner dropped the one that is stored.            *)
code == <<members, registered, online, inbox, my, peer, kv, tasks, last>>
history == <<known, unrotated, astray>>
gkeys == <<code, history, acts>>

Holders(k) == {h \in Handles : <<k, h>> \in known}

TypeOK ==
  /\ members \subseteq Handles /\ registered \subseteq Devices /\ online \subseteq registered
  /\ \A d \in Devices : /\ my[d] \in 0..last /\ kv[d] \in 0..last
                        /\ peer[d] \in [Handles -> 0..last]
  /\ \A t \in tasks : t.dev \in registered
  /\ last \in Nat /\ known \subseteq (1..last) \X Handles

(* A group of all handles, the second devices still to come, or a smaller one  *)
(* with them; two members have sent one message each.                          *)
Init ==
  \E a, b \in Handles, M \in SUBSET Handles :
    /\ a # b /\ a \in TwoDevices /\ {a, b} \subseteq M
    /\ members = M /\ registered = IF M = Handles THEN {d \in Devices : d[2] = 1} ELSE Devices
    /\ online = registered
    /\ inbox = [d \in Devices |-> <<>>] /\ tasks = {} /\ last = 2
    /\ my = [d \in Devices |-> IF d = <<a, 1>> THEN 1 ELSE IF d = <<b, 1>> THEN 2 ELSE None]
    /\ peer = [d \in Devices |-> [h \in Handles |->
                 IF d \notin registered \cap Of(M \ {h}) THEN None ELSE my[<<h, 1>>]]]
    /\ kv = [d \in Devices |-> IF d \in registered /\ d[2] = 2 THEN my[<<d[1], 1>>] ELSE None]
    /\ known = {1, 2} \X M
    /\ unrotated = {} /\ astray = {} /\ acts = 0

(* MaxActs: what users and the network do in a behaviour; MaxPending: devices  *)
(* with events and tasks under way when one more thing is done.                *)
Pending == Cardinality(tasks) + Cardinality({d \in Devices : inbox[d] # <<>>})
Act == acts < MaxActs /\ acts' = acts + 1 /\ Pending <= MaxPending
Pushed(D, e) == [d \in Devices |-> IF d \in D \cap online THEN Append(inbox[d], e) ELSE inbox[d]]
Others(d) == (Of({d[1]}) \cap registered) \ {d}
Pairs(D, h) == {<<d, h>> : d \in D}

----------------------------------------------------------------------------
(* Members come and go. A leave is pushed to those who remain and not to the   *)
(* other devices of the one who left; an expired guest (who has one device) is *)
(* announced under an event name no client listens to.                         *)
Goes(h, told) ==
  /\ Act /\ h \in members /\ members' = members \ {h}
  /\ inbox' = Pushed(told, [e |-> "left", h |-> h])
  /\ unrotated' = unrotated \cup {d \in Of(members) : my[d] # None /\ d \notin told \cap online}
  /\ UNCHANGED <<registered, online, my, peer, kv, tasks, last, known, astray>>

Leave(h) == Goes(h, Of(members \ {h}))
Remove(h) == members # {h} /\ Goes(h, Of(members))
Expire(h) == h \notin TwoDevices /\ Goes(h, {})

Invite(h) ==
  /\ Act /\ h \notin members /\ members # {} /\ members' = members \cup {h}
  /\ inbox' = Pushed(Of(members'), [e |-> "joined", h |-> h])
  /\ astray' = astray \cup UNION {Pairs(Of({h}), d[1]) : d \in Of(members) \ online}
  /\ UNCHANGED <<registered, online, my, peer, kv, tasks, last, known, unrotated>>

(* A new device is announced to the user's devices and to those contacts whose *)
(* handle sorts before the user's; Earlier has the sets these may be.          *)
AddDevice(d) ==
  /\ Act /\ d \notin registered /\ registered' = registered \cup {d} /\ online' = online \cup {d}
  /\ \E C \in Earlier :
       LET told == Of(C \cup {d[1]}) IN
       /\ inbox' = Pushed(told, [e |-> "device", h |-> d[1]])
       /\ astray' = astray \cup {<<d, x[1]>> : x \in Devices \ (told \cap online)}
  /\ UNCHANGED <<members, my, peer, kv, tasks, last, known, unrotated>>

(* A push to a device that is not connected is gone.                           *)
Disconnect(d) == /\ Act /\ d \in online /\ inbox[d] = <<>> /\ online' = online \ {d}
                 /\ UNCHANGED <<members, registered, inbox, my, peer, kv, tasks, last, history>>
Connect(d) == /\ d \in registered \ online /\ online' = online \cup {d}
              /\ UNCHANGED <<members, registered, inbox, my, peer, kv, tasks, last, history, acts>>

----------------------------------------------------------------------------
(* A device handles its oldest event. What the handler starts and waits for    *)
(* is a task.                                                                  *)
Post(d, k, H, own) ==
  [dev |-> d, op |-> "post", key |-> k, to |-> H, own |-> own, devs |-> Of(H) \cap registered]
Write(d, k, H, own) == [dev |-> d, op |-> "write", key |-> k, to |-> H \ {d[1]}, own |-> own]

Event(d, e) == inbox[d] # <<>> /\ Head(inbox[d]).e = e /\ inbox' = [inbox EXCEPT ![d] = Tail(@)]

Joined(d) ==
  /\ Event(d, "joined")
  /\ LET h == Head(inbox[d]).h IN
     tasks' = tasks \cup (IF h = d[1] \/ my[d] = None THEN {} ELSE {Post(d, my[d], {h}, FALSE)})
  /\ UNCHANGED <<members, registered, online, my, peer, kv, last, history, acts>>

(* deleteAllGSKsForGroup leaves the copy that the server keeps.                *)
IWasRemoved(d) ==
  /\ Event(d, "left") /\ Head(inbox[d]).h = d[1]
  /\ my' = [my EXCEPT ![d] = None]
  /\ peer' = [peer EXCEPT ![d] = [h \in Handles |-> None]]
  /\ unrotated' = unrotated \ {d}
  /\ astray' = astray \cup Pairs({x \in Devices : peer[x][d[1]] \in {my[d]} \ {None}}, d[1])
  /\ UNCHANGED <<members, registered, online, kv, tasks, last, known, acts>>

OtherLeft(d) ==
  /\ Event(d, "left") /\ Head(inbox[d]).h # d[1]
  /\ LET h == Head(inbox[d]).h IN
     /\ peer' = [peer EXCEPT ![d][h] = None]
     /\ tasks' = tasks \cup (IF my[d] = None THEN {} ELSE {[dev |-> d, op |-> "list", h |-> h]})
  /\ UNCHANGED <<members, registered, online, my, kv, last, history, acts>>

(* handleIncomingGSKMessage: whatever key comes is the one that counts.        *)
Stored_First(old, new) == IF old = None THEN new ELSE old
Stored(old, new) == new
GskArrives(d) ==
  /\ Event(d, "gsk")
  /\ LET h == Head(inbox[d]).h  k == Head(inbox[d]).key IN
     /\ peer' = [peer EXCEPT ![d][h] = Stored(@, k)]
     /\ astray' = IF \E x \in Of({h}) : my[x] = k THEN astray \ {<<d, h>>} ELSE astray \cup {<<d, h>>}
  /\ UNCHANGED <<members, registered, online, my, kv, tasks, last, known, unrotated, acts>>

(* Every device answers a request, one without a key by making one.            *)
RequestArrives(d) ==
  /\ Event(d, "request")
  /\ LET h == Head(inbox[d]).h IN
     IF my[d] # None
     THEN tasks' = tasks \cup {Post(d, my[d], {h}, FALSE)} /\ last' = last
     ELSE last' = last + 1 /\ tasks' = tasks \cup {Write(d, last', {h}, FALSE)}
  /\ UNCHANGED <<members, registered, online, my, peer, kv, history, acts>>

DeviceAdded(d) ==
  /\ Event(d, "device")
  /\ LET h == Head(inbox[d]).h IN
     tasks' = tasks \cup (IF my[d] = None \/ d[1] \notin members THEN {}
                          ELSE IF h = d[1] THEN {Post(d, my[d], {}, TRUE)}
                          ELSE IF h \in members THEN {Post(d, my[d], {h}, FALSE)} ELSE {})
  /\ UNCHANGED <<members, registered, online, my, peer, kv, last, history, acts>>

Handle(d) == \/ Joined(d) \/ IWasRemoved(d) \/ OtherLeft(d) \/ GskArrives(d) \/ RequestArrives(d)
             \/ DeviceAdded(d)

----------------------------------------------------------------------------
(* rotateMyGSK after the list has come; without it there is no rotation.       *)
Becomes(t, new) == tasks' = (tasks \ {t}) \cup new

ListRead(t) ==
  /\ t.op = "list" /\ t.dev[1] \in members
  /\ last' = last + 1 /\ Becomes(t, {Write(t.dev, last', members, TRUE)})
  /\ UNCHANGED <<members, registered, online, inbox, my, peer, kv, history, acts>>

ListFails(t) ==
  /\ t.op = "list" /\ (Act \/ (t.dev[1] \notin members /\ UNCHANGED acts))
  /\ Becomes(t, {}) /\ unrotated' = unrotated \cup {t.dev}
  /\ UNCHANGED <<members, registered, online, inbox, my, peer, kv, last, known, astray>>

(* setMyGSK; a key that was sent to others before comes from the other device. *)
KeyWritten(t) ==
  LET own == {t.dev[1]} IN
  /\ t.op = "write" /\ my' = [my EXCEPT ![t.dev] = t.key]
  /\ Becomes(t, {Post(t.dev, t.key, t.to, t.own)})
  /\ known' = known \cup ({t.key} \X own)
  /\ unrotated' = IF Holders(t.key) \subseteq own THEN unrotated \ {t.dev}
                  ELSE IF Holders(t.key) \subseteq members /\ own \subseteq members THEN unrotated
                  ELSE unrotated \cup {t.dev}
  /\ astray' = astray \cup {<<d, t.dev[1]>> : d \in {x \in Of(Handles \ t.to) : peer[x][t.dev[1]] # t.key}}
  /\ UNCHANGED <<members, registered, online, inbox, peer, kv, last, acts>>

(* The server takes a key from a member to a member only; the copy for the own *)
(* other device is stored beside it.                                           *)
Accepted_Anyone(t) == t.to
Accepted(t) == IF t.dev[1] \in members THEN t.to \cap members ELSE {}
Posted(t) ==
  LET reach == Of(Accepted(t)) \cap t.devs \cap online
  IN /\ t.op = "post" /\ Becomes(t, {})
     /\ inbox' = Pushed(reach, [e |-> "gsk", h |-> t.dev[1], key |-> t.key])
     /\ known' = known \cup ({t.key} \X {d[1] : d \in reach})
     /\ astray' = astray \cup Pairs(Of(t.to) \ reach, t.dev[1])
     /\ kv' = [d \in Devices |-> IF t.own /\ d \in Others(t.dev) /\ d[1] \in members THEN t.key ELSE kv[d]]
     /\ UNCHANGED <<members, registered, online, my, peer, last, unrotated, acts>>

PostFails(t) ==
  /\ t.op = "post" /\ Act /\ Becomes(t, {})
  /\ astray' = astray \cup Pairs(Of(t.to), t.dev[1])
  /\ UNCHANGED <<members, registered, online, inbox, my, peer, kv, last, known, unrotated>>

----------------------------------------------------------------------------
(* ensureMyGSK for a device without a key: the copy its other device left with *)
(* the server, or a new key.                                                   *)
Ensure(d) ==
  /\ Act /\ d \in online /\ d[1] \in members /\ my[d] = None
  /\ \/ kv[d] # None /\ tasks' = tasks \cup {Write(d, kv[d], {}, FALSE)} /\ last' = last
     \/ kv[d] = None /\ last' = last + 1 /\ tasks' = tasks \cup {Write(d, last', members, TRUE)}
  /\ UNCHANGED <<members, registered, online, inbox, my, peer, kv, known, unrotated, astray>>

(* A message of h arrived and no key of h is stored.                           *)
Request(d, h) ==
  /\ Act /\ d \in online /\ {d[1], h} \subseteq members /\ h # d[1] /\ peer[d][h] = None
  /\ \E e \in Of({h}) : my[e] # None
  /\ inbox' = Pushed(Of({h}), [e |-> "request", h |-> d[1]])
  /\ UNCHANGED <<members, registered, online, my, peer, kv, tasks, last, history>>

----------------------------------------------------------------------------
Task(t) == ListRead(t) \/ ListFails(t) \/ KeyWritten(t) \/ Posted(t) \/ PostFails(t)
Membership == \E h \in Handles : Leave(h) \/ Remove(h) \/ Expire(h) \/ Invite(h)
Next == \/ Membership
        \/ \E d \in Devices : AddDevice(d) \/ Disconnect(d) \/ Connect(d) \/ Handle(d) \/ Ensure(d)
                              \/ \E h \in Handles : Request(d, h)
        \/ \E t \in tasks : Task(t)
Spec == Init /\ [][Next]_gkeys

----------------------------------------------------------------------------
Settled(d) == inbox[d] = <<>> /\ \A t \in tasks : t.dev = d => t.op = "post"
Quiet == tasks = {} /\ \A d \in Devices : inbox[d] = <<>>

(* Once a device has handled what it was told, none of those who have left the *)
(* group was ever sent the key it goes on sending with (App.svelte,            *)
(* memberLeaveHandler), unless it was not told or got no member list. In flight *)
(* keys, overlapping rotations and stale lists do not break this, because the  *)
(* server refuses a key for someone who is no member.                          *)
FormerMemberCannotRead ==
  \A d \in Devices : d[1] \in members /\ my[d] # None /\ Settled(d) /\ d \notin unrotated
    => Holders(my[d]) \subseteq members

(* When nothing is under way, a stored key of another member is one it sends   *)
(* with (handleIncomingGSKMessage), unless the newer key went missing on its   *)
(* way or arrived before the older one, the device it came from dropped its    *)
(* keys, or two devices of that member have different keys. A wrong key is     *)
(* never asked for again (getOrRequestPeerGSK).                                *)
WrongKeyHasACause ==
  Quiet => \A d, e \in Devices :
    LET h == e[1] IN
    {d[1], h} \subseteq members /\ d[1] # h /\ my[e] # None /\ peer[d][h] \notin {None, my[e]}
      => <<d, h>> \in astray \/ \E x \in Of({h}) : my[x] \notin {None, my[e]}
=============================================================================

---------------------------- MODULE GroupMembers ----------------------------
(* The member rows of one group in the database (groupRoutes.js). A request is *)
(* several statements and requests overlap between any two of them; there is   *)
(* no transaction. The list of members that a message is pushed to is kept in  *)
(* KV for a while: requests delete it, a push that finds none stores one.      *)
EXTENDS Naturals, FiniteSets

CONSTANTS Users, MaxMembers, MaxRequests

VARIABLES convo, role, since, reqs, list, reads, requests, crossed, late

members == {u \in Users : role[u] # "none"}
admins == {u \in Users : role[u] = "admin"}

(* requests bounds the requests of a behaviour and is the clock of joined_at.  *)
(* crossed: a departure overlapped another request. late: the stored list was  *)
(* written by a push that read before a change, or a change did not delete it. *)
gmembers == <<convo, role, since, reqs, list, reads, requests, crossed, late>>

NoList == {"no list"}

MTypeOK ==
  /\ convo \in BOOLEAN /\ role \in [Users -> {"none", "member", "admin"}]
  /\ since \in [Users -> 0..MaxRequests] /\ \A u \in Users : role[u] = "none" => since[u] = 0
  /\ list \subseteq Users \/ list = NoList
  /\ reads \subseteq SUBSET Users
  /\ \A r \in reqs : r.who \in Users /\ r.next \in {"insert", "gone", "others", "heir", "crown", "left", "drop"}

(* /groups/create: the creator is admin, everybody joined at one time.         *)
Init ==
  \E a \in Users, M \in SUBSET Users :
    /\ a \in M /\ Cardinality(M) <= MaxMembers
    /\ role = [u \in Users |-> IF u = a THEN "admin" ELSE IF u \in M THEN "member" ELSE "none"]
    /\ convo = TRUE /\ since = [u \in Users |-> 0] /\ reqs = {} /\ list = NoList /\ reads = {}
    /\ requests = 0 /\ crossed = FALSE /\ late = FALSE

Request(r) == requests < MaxRequests /\ requests' = requests + 1 /\ reqs' = reqs \cup {r}
Goes(r, next) == reqs' = (reqs \ {r}) \cup (IF next = "end" THEN {} ELSE {[r EXCEPT !.next = next]})

(* The delete of the stored list is not waited for and may not happen.         *)
Forgets == \/ list' = NoList /\ late' = late
           \/ list' = list /\ late' = (late \/ list # NoList)

Inviting == {r \in reqs : r.next = "insert"}
Departing == {r \in reqs : r.op = "leave" \/ r.next = "gone"}

----------------------------------------------------------------------------
(* /groups/invite: role, number of members and the invitee's row are read,     *)
(* then the row is inserted. A second row for one member is refused.           *)
Full == Cardinality(members) >= MaxMembers
Invite(u, v) ==
  /\ u \in members /\ ~Full /\ v \notin members
  /\ Request([op |-> "invite", who |-> u, whom |-> v, was |-> role[u], next |-> "insert", n |-> requests])
  /\ crossed' = (crossed \/ Departing # {})
  /\ UNCHANGED <<convo, role, since, list, reads, late>>

Inserted(r) ==
  /\ r.op = "invite" /\ r.next = "insert"
  /\ IF r.whom \in members
     THEN Goes(r, "end") /\ UNCHANGED <<role, since, list, late>>
     ELSE /\ role' = [role EXCEPT ![r.whom] = "member"] /\ since' = [since EXCEPT ![r.whom] = requests]
          /\ Goes(r, "end") /\ Forgets
  /\ UNCHANGED <<convo, reads, requests, crossed>>

(* A guest or a user comes in by a link (inviteRoutes.js): nothing is deleted. *)
JoinByLink(v) ==
  /\ convo /\ v \notin members /\ ~Full /\ Inviting = {}
  /\ requests < MaxRequests /\ requests' = requests + 1
  /\ role' = [role EXCEPT ![v] = "member"] /\ since' = [since EXCEPT ![v] = requests]
  /\ late' = (late \/ list # NoList) /\ crossed' = (crossed \/ Departing # {})
  /\ UNCHANGED <<convo, reqs, list, reads>>

----------------------------------------------------------------------------
(* /groups/leave: the role is read, the row deleted; if an admin left and none *)
(* is there, the member who joined first becomes admin; if nobody is there the *)
(* group is deleted.                                                           *)
Leave(u) ==
  /\ u \in members
  /\ Request([op |-> "leave", who |-> u, whom |-> u, was |-> role[u], next |-> "gone", n |-> requests])
  /\ crossed' = (crossed \/ Departing \cup Inviting # {})
  /\ UNCHANGED <<convo, role, since, list, reads, late>>

(* /groups/remove: the admin's role is read, the row deleted, nothing more.    *)
Remove(u, v) ==
  /\ u \in admins /\ v # u
  /\ Request([op |-> "remove", who |-> u, whom |-> v, was |-> role[u], next |-> "gone", n |-> requests])
  /\ crossed' = (crossed \/ Departing \cup Inviting # {})
  /\ UNCHANGED <<convo, role, since, list, reads, late>>

Succeeds_Members(r) == r.was = "member"
Succeeds(r) == r.was = "admin"
Deleted(r) ==
  /\ r.next = "gone"
  /\ role' = [role EXCEPT ![r.whom] = "none"] /\ since' = [since EXCEPT ![r.whom] = 0]
  /\ Forgets
  /\ Goes(r, IF r.op = "remove" THEN "end" ELSE IF Succeeds(r) THEN "others" ELSE "left")
  /\ UNCHANGED <<convo, reads, requests, crossed>>

OthersRead(r) == /\ r.next = "others" /\ Goes(r, IF admins = {} THEN "heir" ELSE "left")
                 /\ UNCHANGED <<convo, role, since, list, reads, requests, crossed, late>>

Eldest == {u \in members : \A v \in members : since[u] <= since[v]}
HeirRead(r) ==
  /\ r.next = "heir"
  /\ IF members = {} THEN Goes(r, "left")
     ELSE \E u \in Eldest : reqs' = (reqs \ {r}) \cup {[r EXCEPT !.next = "crown", !.whom = u]}
  /\ UNCHANGED <<convo, role, since, list, reads, requests, crossed, late>>

(* An UPDATE whose row has gone changes nothing.                               *)
Crowned(r) ==
  /\ r.next = "crown" /\ Goes(r, "left")
  /\ role' = IF r.whom \in members THEN [role EXCEPT ![r.whom] = "admin"] ELSE role
  /\ UNCHANGED <<convo, since, list, reads, requests, crossed, late>>

Counted(r) == /\ r.next = "left" /\ Goes(r, IF members = {} THEN "drop" ELSE "end")
              /\ UNCHANGED <<convo, role, since, list, reads, requests, crossed, late>>
Dropped(r) == /\ r.next = "drop" /\ convo' = FALSE /\ Goes(r, "end")
              /\ UNCHANGED <<role, since, list, reads, requests, crossed, late>>

----------------------------------------------------------------------------
(* pushToGroupMembers for a message: the stored list, or one read and stored.  *)
ListRead ==
  /\ list = NoList /\ convo /\ reads = {} /\ reads' = {members}
  /\ UNCHANGED <<convo, role, since, reqs, list, requests, crossed, late>>
ListStored ==
  /\ reads # {} /\ list' \in reads /\ reads' = {} /\ late' = (list' # members)
  /\ UNCHANGED <<convo, role, since, reqs, requests, crossed>>
ListExpires ==
  /\ list # NoList /\ list' = NoList /\ late' = FALSE
  /\ UNCHANGED <<convo, role, since, reqs, reads, requests, crossed>>

Next == \/ \E u, v \in Users : Invite(u, v) \/ Remove(u, v)
        \/ \E u \in Users : Leave(u) \/ JoinByLink(u)
        \/ \E r \in reqs : \/ Inserted(r) \/ Deleted(r) \/ OthersRead(r) \/ HeirRead(r) \/ Crowned(r)
                           \/ Counted(r) \/ Dropped(r)
        \/ ListRead \/ ListStored \/ ListExpires
Spec == Init /\ [][Next]_gmembers

----------------------------------------------------------------------------
(* When no request is in progress, a group with members has an admin, and a    *)
(* group that was deleted has no member rows (/groups/leave), unless a         *)
(* departure overlapped another request: the heir may have gone between the    *)
(* read and the update, or an invited member arrive after the last one counted.*)
AdminUnlessOverlap ==
  reqs = {} /\ members # {} /\ ~crossed => convo /\ admins # {}

(* The stored list is the list of members, unless it was read before a change  *)
(* and stored after it, or a change did not delete it.                         *)
ListHasACause == list # NoList => list = members \/ late
=============================================================================

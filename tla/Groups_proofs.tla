----------------------------- MODULE Groups_proofs -----------------------------
(***************************************************************************)
(* Proofs about a group, for any number of members, devices and requests:  *)
(* its member rows (GroupMembers), the keys of a member's messages         *)
(* (GroupChain) and the sender keys (GroupKeys).  The three are composed   *)
(* in MCGroups, where a behaviour is about one of them; the lemmas speak   *)
(* of the steps of each, the theorems of the composition.                  *)
(***************************************************************************)
EXTENDS MCGroups, TLAPS

-----------------------------------------------------------------------------
(* Member rows: a group with members has an admin                          *)

\* What a request holds between its statements.
RowRequest ==
  [op : {"invite", "leave", "remove"}, who : Users, whom : Users,
   was : {"none", "member", "admin"}, next : {"insert", "gone", "others", "heir", "crown", "left", "drop"}, n : Nat]

RowTypes ==
  /\ role \in [Users -> {"none", "member", "admin"}]
  /\ reqs \subseteq RowRequest /\ requests \in Nat
  /\ convo \in BOOLEAN /\ crossed \in BOOLEAN
  /\ \A r \in reqs : /\ r.op = "invite" <=> r.next = "insert"
                     /\ r.op = "remove" => r.next = "gone"

\* A departure that nothing overlapped is alone ...
Alone == \A r \in Rows!Departing : reqs = {r}
\* ... without one the group stands: it has members exactly when it exists, and
\* then an admin ...
Stands == (convo <=> Rows!members # {}) /\ (convo => Rows!admins # {})
Undisturbed == Rows!Departing = {} => Stands /\ (reqs # {} => convo)
\* ... and while one is under way its own statements say what is the case.
Departs(r) ==
  CASE r.op = "remove" -> Stands /\ convo /\ r.who \in Rows!admins /\ r.who # r.whom
    [] r.op = "leave" /\ r.next = "gone" -> Stands /\ convo /\ r.was = role[r.whom]
    [] r.op = "leave" /\ r.next \in {"others", "heir"} -> convo /\ (r.next = "heir" => Rows!admins = {})
    [] r.op = "leave" /\ r.next = "crown" -> convo /\ r.whom \in Rows!members
    [] r.op = "leave" /\ r.next = "left" -> convo /\ (Rows!members # {} => Rows!admins # {})
    [] r.op = "leave" /\ r.next = "drop" -> Rows!members = {}

RowInv ==
  /\ RowTypes
  /\ ~crossed => Alone /\ Undisturbed /\ \A r \in Rows!Departing : Departs(r)

\* What a step does to the requests in progress.
LEMMA RowTypesKept ==
  ASSUME RowTypes, Rows!Next
  PROVE  RowTypes'
<1> USE DEF RowTypes, RowRequest, Rows!Request, Rows!Goes, Rows!members, Rows!admins
<1>1. ASSUME NEW x \in Users, NEW y \in Users, Rows!Invite(x, y) \/ Rows!Remove(x, y) PROVE RowTypes'
  <2>1. crossed' \in BOOLEAN /\ UNCHANGED <<role, convo>>
    BY <1>1 DEF Rows!Invite, Rows!Remove
  <2>2. requests \in Nat /\ requests' = requests + 1 /\ x \in Rows!members
    BY <1>1 DEF Rows!Invite, Rows!Remove
  <2>3. \E op \in {"invite", "remove"} :
          reqs' = reqs \cup {[op |-> op, who |-> x, whom |-> y, was |-> role[x],
                              next |-> IF op = "invite" THEN "insert" ELSE "gone", n |-> requests]}
    BY <1>1 DEF Rows!Invite, Rows!Remove
  <2> QED
    BY <2>1, <2>2, <2>3
<1>2. ASSUME NEW x \in Users, Rows!Leave(x) \/ Rows!JoinByLink(x) PROVE RowTypes'
  <2>1. crossed' \in BOOLEAN /\ UNCHANGED convo
    BY <1>2 DEF Rows!Leave, Rows!JoinByLink
  <2>2. requests' \in Nat /\ role' \in [Users -> {"none", "member", "admin"}]
    BY <1>2 DEF Rows!Leave, Rows!JoinByLink
  <2>3. \/ reqs' = reqs
        \/ reqs' = reqs \cup {[op |-> "leave", who |-> x, whom |-> x, was |-> role[x], next |-> "gone", n |-> requests]}
    BY <1>2 DEF Rows!Leave, Rows!JoinByLink
  <2> QED
    BY <2>1, <2>2, <2>3
<1>3. ASSUME NEW r \in reqs, Rows!Inserted(r) PROVE RowTypes'
  BY <1>3 DEF Rows!Inserted
<1>4. ASSUME NEW r \in reqs, Rows!Deleted(r) PROVE RowTypes'
  BY <1>4 DEF Rows!Deleted, Rows!Succeeds
<1>5. ASSUME NEW r \in reqs, Rows!OthersRead(r) PROVE RowTypes'
  BY <1>5 DEF Rows!OthersRead
<1>6. ASSUME NEW r \in reqs, Rows!HeirRead(r) PROVE RowTypes'
  <2>1. UNCHANGED <<role, convo, requests, crossed>>
    BY <1>6 DEF Rows!Goes, Rows!HeirRead
  <2>2. CASE Rows!members = {}
    BY <1>6, <2>1, <2>2 DEF Rows!Goes, Rows!HeirRead
  <2>3. CASE Rows!members # {}
    <3>1. PICK h \in Users : reqs' = (reqs \ {r}) \cup {[r EXCEPT !.next = "crown", !.whom = h]}
      BY <1>6, <2>3 DEF Rows!Goes, Rows!HeirRead, Rows!Eldest
    <3> QED
      BY <1>6, <2>1, <3>1 DEF Rows!Goes, Rows!HeirRead
  <2> QED
    BY <2>2, <2>3
<1>7. ASSUME NEW r \in reqs, Rows!Crowned(r) \/ Rows!Counted(r) \/ Rows!Dropped(r) PROVE RowTypes'
  <2>1. CASE Rows!Crowned(r)
    BY <2>1 DEF Rows!Crowned
  <2>2. CASE Rows!Counted(r)
    BY <2>2 DEF Rows!Counted
  <2>3. CASE Rows!Dropped(r)
    BY <2>3 DEF Rows!Dropped
  <2> QED
    BY <1>7, <2>1, <2>2, <2>3
<1>8. ASSUME Rows!ListRead \/ Rows!ListStored \/ Rows!ListExpires PROVE RowTypes'
  BY <1>8 DEF Rows!ListRead, Rows!ListStored, Rows!ListExpires
<1> QED
  BY <1>1, <1>2, <1>3, <1>4, <1>5, <1>6, <1>7, <1>8 DEF Rows!Goes, Rows!Next

\* A request is an invitation or a departure, and one that departs is alone
\* when nothing overlapped it.
LEMMA InvitesOrDeparts ==
  ASSUME RowInv
  PROVE  /\ \A r \in reqs : r \in Rows!Departing <=> r.op # "invite"
         /\ Rows!Departing \subseteq reqs
         /\ Rows!Departing \cup Rows!Inviting = reqs
         /\ crossed \in BOOLEAN
         /\ ~crossed => \A r \in reqs : r.op = "invite" => Rows!Departing = {}
  BY DEF RowInv, RowTypes, RowRequest, Alone, Rows!Departing, Rows!Inviting

\* A new request: nobody departs beside an invitation, nothing runs beside a
\* departure.
LEMMA RowBegins ==
  ASSUME RowInv, NEW x \in Users, NEW y \in Users,
         Rows!Invite(x, y) \/ Rows!Remove(x, y) \/ Rows!Leave(x)
  PROVE  RowInv'
<1> DEFINE Asks(o, w, n) == [op |-> o, who |-> x, whom |-> w, was |-> role[x], next |-> n, n |-> requests]
<1>1. RowTypes'
  BY RowTypesKept DEF RowInv, Rows!Next
<1>2. UNCHANGED <<role, convo>> /\ x \in Rows!members
  BY DEF Rows!Invite, Rows!Remove, Rows!Leave, Rows!admins, Rows!members, Rows!Request
<1>3. UNCHANGED <<Rows!members, Rows!admins>>
  BY <1>2 DEF Rows!members, Rows!admins
<1>4. ASSUME Rows!Invite(x, y), ~crossed' PROVE Alone' /\ Undisturbed' /\ \A r \in Rows!Departing' : Departs(r)'
  <2>1. ~crossed /\ Rows!Departing = {} /\ reqs' = reqs \cup {Asks("invite", y, "insert")}
    BY <1>4, InvitesOrDeparts DEF Rows!Invite, Rows!Request
  <2>2. Rows!Departing' = {}
    BY <2>1 DEF Rows!Departing
  <2>3. Stands /\ convo
    BY <2>1, <1>2 DEF RowInv, Undisturbed, Stands
  <2> QED
    BY <1>2, <1>3, <2>2, <2>3 DEF Alone, Undisturbed, Stands
<1>5. ASSUME Rows!Remove(x, y) \/ Rows!Leave(x), ~crossed'
      PROVE  Alone' /\ Undisturbed' /\ \A r \in Rows!Departing' : Departs(r)'
  <2>1. ~crossed /\ reqs = {}
    BY <1>5, InvitesOrDeparts DEF Rows!Remove, Rows!Leave
  <2>2. Stands /\ convo
    BY <2>1, <1>2, InvitesOrDeparts DEF RowInv, Undisturbed, Stands
  <2>3. PICK r : /\ reqs' = {r} /\ r.next = "gone" /\ r.was = role[r.who]
                 /\ \/ r.op = "leave" /\ r.who = r.whom
                    \/ r.op = "remove" /\ r.who \in Rows!admins /\ r.who # r.whom
    <3>1. CASE Rows!Remove(x, y)
      <4>1. reqs' = {Asks("remove", y, "gone")} /\ x \in Rows!admins /\ x # y
        BY <2>1, <3>1 DEF Rows!Remove, Rows!Request
      <4> WITNESS Asks("remove", y, "gone")
      <4> QED
        BY <4>1
    <3>2. CASE Rows!Leave(x)
      <4>1. reqs' = {Asks("leave", x, "gone")}
        BY <2>1, <3>2 DEF Rows!Leave, Rows!Request
      <4> WITNESS Asks("leave", x, "gone")
      <4> QED
        BY <4>1
    <3> QED
      BY <1>5, <3>1, <3>2
  <2>4. Rows!Departing' = {r}
    BY <2>3 DEF Rows!Departing
  <2>5. Departs(r)'
    BY <1>2, <1>3, <2>2, <2>3 DEF Departs, Stands
  <2> QED
    BY <2>3, <2>4, <2>5 DEF Alone, Undisturbed
<1> QED
  BY <1>1, <1>4, <1>5 DEF RowInv

\* Whoever comes in while nobody departs finds a group with an admin.
LEMMA RowComes ==
  ASSUME RowInv, NEW x \in Users, (\E r \in reqs : Rows!Inserted(r)) \/ Rows!JoinByLink(x)
  PROVE  RowInv'
<1>1. RowTypes'
  BY RowTypesKept DEF RowInv, Rows!Next
<1>2. SUFFICES ASSUME ~crossed' PROVE Alone' /\ Undisturbed' /\ \A r \in Rows!Departing' : Departs(r)'
  BY <1>1 DEF RowInv
<1>3. ~crossed /\ Rows!Departing = {} /\ Stands /\ convo /\ convo'
  <2>1. ~crossed /\ Rows!Departing = {}
    <3>1. ASSUME NEW r \in reqs, Rows!Inserted(r) PROVE ~crossed /\ Rows!Departing = {}
      BY <1>2, <3>1, InvitesOrDeparts DEF Rows!Inserted
    <3>2. ASSUME Rows!JoinByLink(x) PROVE ~crossed /\ Rows!Departing = {}
      BY <1>2, <3>2, InvitesOrDeparts DEF Rows!JoinByLink
    <3> QED
      BY <3>1, <3>2
  <2>2. (reqs # {} \/ convo) /\ convo' = convo
    BY DEF Rows!Inserted, Rows!JoinByLink
  <2> QED
    BY <2>1, <2>2 DEF RowInv, Undisturbed, RowTypes
<1>4. reqs' \subseteq reqs
  BY DEF Rows!Inserted, Rows!JoinByLink, Rows!Goes
<1>5. Rows!Departing' = {}
  BY <1>3, <1>4 DEF Rows!Departing
<1>6. role' = role \/ \E v0 \in Users : v0 \notin Rows!members /\ role' = [role EXCEPT ![v0] = "member"]
  BY DEF Rows!Inserted, Rows!JoinByLink, RowInv, RowTypes, RowRequest
<1>7. Rows!members \subseteq Rows!members' /\ Rows!admins \subseteq Rows!admins'
  BY <1>6 DEF Rows!Goes, Rows!members, Rows!admins, RowInv, RowTypes
<1> QED
  BY <1>3, <1>5, <1>7 DEF Alone, Undisturbed, Stands

\* One statement of a departure that nothing overlapped.
LEMMA RowGoesOn ==
  ASSUME RowInv, NEW r \in reqs,
         Rows!Deleted(r) \/ Rows!OthersRead(r) \/ Rows!HeirRead(r) \/ Rows!Crowned(r) \/ Rows!Counted(r) \/ Rows!Dropped(r)
  PROVE  RowInv'
<1>1. RowTypes'
  BY RowTypesKept DEF RowInv, Rows!Next
<1>2. SUFFICES ASSUME ~crossed' PROVE Alone' /\ Undisturbed' /\ \A q \in Rows!Departing' : Departs(q)'
  BY <1>1 DEF RowInv
<1>3. crossed' = crossed
  BY DEF Rows!Deleted, Rows!OthersRead, Rows!HeirRead, Rows!Crowned, Rows!Counted, Rows!Dropped
<1>4. /\ r \in RowRequest /\ r.op # "invite" /\ (r.op = "remove" => r.next = "gone")
      /\ role \in [Users -> {"none", "member", "admin"}] /\ convo \in BOOLEAN
  BY DEF RowInv, RowTypes, Rows!Deleted, Rows!OthersRead, Rows!HeirRead, Rows!Crowned, Rows!Counted, Rows!Dropped
<1>5. reqs = {r} /\ Departs(r)
  BY <1>2, <1>3, <1>4, InvitesOrDeparts DEF RowInv, Alone
<1>6. reqs \ {r} = {} /\ \A S : {} \cup S = S
  BY <1>5
\* It is enough to say where the request stands then, or that the group stands.
<1>7. ASSUME NEW q, reqs' = {q}, q.op = "leave", Departs(q)' PROVE Alone' /\ Undisturbed' /\ \A p \in Rows!Departing' : Departs(p)'
  BY <1>7 DEF Alone, Undisturbed, Rows!Departing
<1>8. ASSUME reqs' = {}, Stands' PROVE Alone' /\ Undisturbed' /\ \A p \in Rows!Departing' : Departs(p)'
  BY <1>8 DEF Alone, Undisturbed, Rows!Departing
<1>9. CASE Rows!Deleted(r)
  <2>1. role' = [role EXCEPT ![r.whom] = "none"] /\ convo' = convo /\ r.next = "gone" /\ r.whom \in Users
    BY <1>4, <1>9 DEF Rows!Deleted, RowRequest
  <2>2. CASE r.op = "remove"
    <3>1. reqs' = {}
      BY <1>6, <1>9, <2>2 DEF Rows!Goes, Rows!Deleted
    <3>2. Stands /\ convo /\ r.who \in Rows!admins /\ r.who # r.whom
      BY <1>5, <2>2 DEF Departs
    <3>3. r.who \in Rows!admins' /\ r.who \in Rows!members'
      BY <1>4, <2>1, <3>2 DEF Rows!admins, Rows!members
    <3> QED
      BY <1>8, <2>1, <3>1, <3>2, <3>3 DEF Stands
  <2>3. CASE r.op = "leave"
    <3>1. Stands /\ convo /\ r.was = role[r.whom]
      BY <1>5, <2>1, <2>3 DEF Departs
    <3>2. CASE r.was = "admin"
      <4>1. reqs' = {[r EXCEPT !.next = "others"]}
        BY <1>6, <1>9, <2>3, <3>2 DEF Rows!Goes, Rows!Deleted, Rows!Succeeds
      <4> QED
        BY <1>4, <1>7, <2>1, <2>3, <3>1, <4>1 DEF Departs, RowRequest
    <3>3. CASE r.was # "admin"
      <4>1. reqs' = {[r EXCEPT !.next = "left"]}
        BY <1>6, <1>9, <2>3, <3>3 DEF Rows!Goes, Rows!Deleted, Rows!Succeeds
      <4>2. Rows!admins' = Rows!admins
        BY <1>4, <2>1, <3>1, <3>3 DEF Rows!admins
      <4>3. Rows!admins # {}
        BY <3>1 DEF Stands
      <4> QED
        BY <1>4, <1>7, <2>1, <2>3, <3>1, <4>1, <4>2, <4>3 DEF Departs, RowRequest
    <3> QED
      BY <3>2, <3>3
  <2> QED
    BY <1>4, <2>2, <2>3 DEF RowRequest
<1>10. CASE Rows!OthersRead(r)
  <2>1. UNCHANGED <<role, convo>> /\ r.next = "others" /\ r.op = "leave" /\ convo
    BY <1>4, <1>5, <1>10 DEF Rows!OthersRead, RowRequest, Departs
  <2>2. UNCHANGED <<Rows!admins, Rows!members>>
    BY <2>1 DEF Rows!admins, Rows!members
  <2>3. \/ Rows!admins = {} /\ reqs' = {[r EXCEPT !.next = "heir"]}
        \/ Rows!admins # {} /\ reqs' = {[r EXCEPT !.next = "left"]}
    BY <1>6, <1>10 DEF Rows!Goes, Rows!OthersRead
  <2> QED
    BY <1>4, <1>7, <2>1, <2>2, <2>3 DEF Departs, RowRequest
<1>11. CASE Rows!HeirRead(r)
  <2>1. UNCHANGED <<role, convo>> /\ r.next = "heir" /\ r.op = "leave" /\ convo
    BY <1>4, <1>5, <1>11 DEF Rows!HeirRead, RowRequest, Departs
  <2>2. UNCHANGED <<Rows!admins, Rows!members>>
    BY <2>1 DEF Rows!admins, Rows!members
  <2>3. CASE Rows!members = {}
    <3>1. reqs' = {[r EXCEPT !.next = "left"]}
      BY <1>6, <1>11, <2>3 DEF Rows!Goes, Rows!HeirRead
    <3> QED
      BY <1>4, <1>7, <2>1, <2>2, <2>3, <3>1 DEF Departs, RowRequest
  <2>4. CASE Rows!members # {}
    <3>1. PICK h \in Rows!members : reqs' = {[r EXCEPT !.next = "crown", !.whom = h]}
      BY <1>5, <1>11, <2>4 DEF Rows!HeirRead, Rows!Eldest
    <3> QED
      BY <1>4, <1>7, <2>1, <2>2, <3>1 DEF Departs, RowRequest
  <2> QED
    BY <2>3, <2>4
<1>12. CASE Rows!Crowned(r)
  <2>1. /\ convo' = convo /\ r.next = "crown" /\ r.op = "leave" /\ convo /\ r.whom \in Rows!members
        /\ role' = [role EXCEPT ![r.whom] = "admin"]
    BY <1>4, <1>5, <1>12 DEF Rows!Crowned, RowRequest, Departs
  <2>2. r.whom \in Rows!admins'
    BY <1>4, <2>1 DEF Rows!admins, Rows!members
  <2>3. reqs' = {[r EXCEPT !.next = "left"]}
    BY <1>6, <1>12 DEF Rows!Goes, Rows!Crowned
  <2> QED
    BY <1>4, <1>7, <2>1, <2>2, <2>3 DEF Departs, RowRequest
<1>13. CASE Rows!Counted(r)
  <2>1. /\ UNCHANGED <<role, convo>> /\ r.next = "left" /\ r.op = "leave" /\ convo
        /\ Rows!members # {} => Rows!admins # {}
    BY <1>4, <1>5, <1>13 DEF Rows!Counted, RowRequest, Departs
  <2>2. UNCHANGED <<Rows!admins, Rows!members>>
    BY <2>1 DEF Rows!admins, Rows!members
  <2>3. CASE Rows!members = {}
    <3>1. reqs' = {[r EXCEPT !.next = "drop"]}
      BY <1>6, <1>13, <2>3 DEF Rows!Goes, Rows!Counted
    <3> QED
      BY <1>4, <1>7, <2>1, <2>2, <2>3, <3>1 DEF Departs, RowRequest
  <2>4. CASE Rows!members # {}
    <3>1. reqs' = {}
      BY <1>6, <1>13, <2>4 DEF Rows!Goes, Rows!Counted
    <3> QED
      BY <1>8, <2>1, <2>2, <2>4, <3>1 DEF Stands
  <2> QED
    BY <2>3, <2>4
<1>14. CASE Rows!Dropped(r)
  <2>1. UNCHANGED role /\ convo' = FALSE /\ Rows!members = {} /\ reqs' = {}
    <3>1. r.op = "leave" /\ r.next = "drop"
      BY <1>4, <1>14 DEF Rows!Dropped, RowRequest
    <3>2. UNCHANGED role /\ convo' = FALSE /\ reqs' = {}
      BY <1>6, <1>14 DEF Rows!Goes, Rows!Dropped
    <3> QED
      BY <1>5, <3>1, <3>2 DEF Departs
  <2>2. UNCHANGED Rows!members
    BY <2>1 DEF Rows!members
  <2> QED
    BY <1>8, <2>1, <2>2 DEF Stands
<1> QED
  BY <1>9, <1>10, <1>11, <1>12, <1>13, <1>14

\* Every step on the member rows keeps the invariant.
LEMMA RowInvNext ==
  ASSUME RowInv, [Rows!Next]_rows
  PROVE  RowInv'
<1>1. ASSUME NEW x \in Users, NEW y \in Users, Rows!Invite(x, y) \/ Rows!Remove(x, y) \/ Rows!Leave(x) \/ Rows!JoinByLink(x)
      PROVE  RowInv'
  BY <1>1, RowBegins, RowComes
<1>2. ASSUME NEW r \in reqs, Rows!Inserted(r) PROVE RowInv'
  <2>1. r.who \in Users
    BY DEF RowInv, RowTypes, RowRequest
  <2> QED
    BY <1>2, <2>1, RowComes
<1>3. ASSUME NEW r \in reqs,
             Rows!Deleted(r) \/ Rows!OthersRead(r) \/ Rows!HeirRead(r) \/ Rows!Crowned(r) \/ Rows!Counted(r) \/ Rows!Dropped(r)
      PROVE  RowInv'
  BY <1>3, RowGoesOn
<1>4. ASSUME UNCHANGED <<convo, role, reqs, requests, crossed>> PROVE RowInv'
  <2>1. UNCHANGED <<Rows!Departing, Rows!members, Rows!admins>>
    BY <1>4 DEF Rows!Departing, Rows!members, Rows!admins
  <2>2. RowTypes'
    BY <1>4 DEF RowInv, RowTypes, RowRequest
  <2>3. \A r \in Rows!Departing : Departs(r) => Departs(r)'
    BY <1>4, <2>1 DEF Departs, Stands
  <2> QED
    BY <1>4, <2>1, <2>2, <2>3 DEF RowInv, Alone, Undisturbed, Stands
<1>5. ASSUME Rows!ListRead \/ Rows!ListStored \/ Rows!ListExpires \/ UNCHANGED rows PROVE RowInv'
  BY <1>4, <1>5 DEF Rows!ListRead, Rows!ListStored, Rows!ListExpires, rows
<1> QED
  BY <1>1, <1>2, <1>3, <1>5 DEF Rows!Next

\* A new group has its creator as admin.
LEMMA RowInvInit == Rows!Init => RowInv
<1> SUFFICES ASSUME Rows!Init PROVE RowInv
  OBVIOUS
<1>1. reqs = {} /\ convo = TRUE /\ crossed = FALSE /\ requests = 0 /\ Rows!admins # {} /\ Rows!members # {}
      /\ role \in [Users -> {"none", "member", "admin"}]
  BY DEF Rows!Init, Rows!admins, Rows!members
<1>2. Rows!Departing = {}
  BY <1>1 DEF Rows!Departing
<1> QED
  BY <1>1, <1>2 DEF RowInv, RowTypes, Alone, Undisturbed, Stands

\* A group with members exists and has an admin when no request is in progress
\* (/groups/leave), unless a departure overlapped another request.
THEOREM AdminHolds == MCSpec => []AdminUnlessOverlap
<1>1. MCInit => RowInv
  BY RowInvInit DEF MCInit
<1>2. RowInv /\ [KeysStep \/ ChainStep \/ RowsStep]_<<part, gkeys, chain, rows>> => RowInv'
  BY RowInvNext DEF KeysStep, ChainStep, RowsStep
<1>3. RowInv => AdminUnlessOverlap
  <2> SUFFICES ASSUME RowInv, reqs = {}, Rows!members # {}, ~crossed PROVE convo /\ Rows!admins # {}
    BY DEF AdminUnlessOverlap, Rows!AdminUnlessOverlap
  <2>1. Rows!Departing = {}
    BY DEF Rows!Departing
  <2> QED
    BY <2>1 DEF RowInv, Undisturbed, Stands
<1> QED
  BY <1>1, <1>2, <1>3, PTL DEF MCSpec

-----------------------------------------------------------------------------
(* Message keys: a key is used twice only for a listed cause               *)

\* Sender keys, and what a device has under way.
Gsk == Nat \ {0}
ChainTask ==
  [dev : Devs, op : {"write", "reset"}, gsk : Gsk]
    \cup [dev : Devs, op : {"key"}, gsk : Gsk, n : Nat]
    \cup [dev : Devs, op : {"index"}, gsk : Gsk, n : Nat, i : Nat]

ChainTypes ==
  /\ key \in [Devs -> Nat] /\ past \in [Devs -> SUBSET Gsk] /\ count \in [Devs -> Nat]
  /\ doing \subseteq ChainTask /\ made \in Nat /\ steps \in Nat
  /\ used \subseteq Gsk \X Nat

\* A device has a sender key: current, archived or under way.
Holds(x, k) == key[x] = k \/ k \in past[x] \/ \E t \in doing : t.dev = x /\ t.gsk = k
Resets(x) == \E t \in doing : t.dev = x /\ t.op = "reset"
Unused(k) == \A m \in used : m[1] # k

\* No key is ahead of those made ...
OnlyMade ==
  /\ \A x \in Devs, k \in Gsk : Holds(x, k) => k <= made
  /\ \A m \in used : m[1] <= made
\* ... and one without a cause for reuse belongs to one device ...
OneHolder == \A k \in Gsk \ blurred : \A x, y \in Devs : Holds(x, k) /\ Holds(y, k) => x = y
\* ... is set once, before it is used ...
SetOnce ==
  \A t \in doing : t.op = "write" /\ t.gsk \notin blurred =>
    /\ \A x \in Devs : key[x] # t.gsk /\ t.gsk \notin past[x]
    /\ \A s \in doing : s.gsk = t.gsk => s = t
    /\ Unused(t.gsk)
\* ... by one send at a time ...
OneSend ==
  \A t, s \in doing : /\ t.dev = s.dev /\ t.gsk \notin blurred
                      /\ {t.op, s.op} \subseteq {"key", "index"}
                      => t = s
\* ... whose index is ahead of all that were used with it ...
IndexAhead ==
  \A t \in doing : t.op = "index" /\ t.gsk \notin blurred => \A m \in used : m[1] = t.gsk => m[2] < t.i
\* ... as the counter is, unless it is still to be reset (then the key is as yet
\* unused), or a send of an earlier key will overwrite it (then too).
CounterAhead ==
  \A x \in Devs : key[x] \in Gsk \ blurred =>
    /\ ~Resets(x) => \A m \in used : m[1] = key[x] => m[2] < count[x]
    /\ Resets(x) => Unused(key[x]) /\ \A t \in doing : t.op = "index" => t.gsk # key[x]
    /\ \A t \in doing : t.dev = x /\ t.op = "index" /\ t.gsk # key[x] => Unused(key[x])

ChainInv ==
  /\ ChainTypes /\ OnlyMade /\ OneHolder /\ SetOnce /\ OneSend /\ IndexAhead /\ CounterAhead
  /\ ReuseHasACause


\* What the statements keep when only tasks are added and a key is blurred.
LEMMA ChainNewTask ==
  ASSUME ChainInv, NEW x \in Devs, NEW k \in Gsk,
         doing' = doing \cup {[dev |-> x, op |-> "write", gsk |-> k]},
         UNCHANGED <<key, past, count, used, twice>>, steps' \in Nat, made' \in Nat, made <= made', k <= made',
         \/ k \in blurred' /\ blurred' = blurred \cup {k}
         \/ k > made /\ blurred' = blurred
  PROVE  ChainInv'
<1> DEFINE n == [dev |-> x, op |-> "write", gsk |-> k]
<1>1. ChainTypes'
  BY DEF ChainInv, ChainTypes, ChainTask
<1>2. \A y \in Devs, g \in Gsk : Holds(y, g)' <=> Holds(y, g) \/ (y = x /\ g = k)
  <2>1. n \in doing' /\ n.dev = x /\ n.gsk = k
    OBVIOUS
  <2> HIDE DEF n
  <2>2. doing' = doing \cup {n} /\ UNCHANGED <<key, past>>
    BY DEF n
  <2> QED
    BY <2>1, <2>2 DEF Holds
<1>3. OnlyMade'
  BY <1>2 DEF ChainInv, OnlyMade, ChainTypes, Gsk
<1>4. k \in blurred' \/ ((\A y \in Devs : ~Holds(y, k)) /\ Unused(k))
  <2>1. \A y \in Devs : Holds(y, k) => k <= made
    BY DEF ChainInv, OnlyMade
  <2>2. made \in Nat /\ k \in Nat /\ \A m \in used : m[1] \in Nat /\ m[1] <= made
    BY DEF ChainInv, OnlyMade, ChainTypes, Gsk
  <2> QED
    BY <2>1, <2>2 DEF Unused
<1>5. OneHolder'
  BY <1>2, <1>4 DEF ChainInv, OneHolder
<1>6. SetOnce'
  <2> SUFFICES ASSUME NEW t \in doing', t.op = "write", t.gsk \notin blurred'
               PROVE  /\ \A y \in Devs : key[y] # t.gsk /\ t.gsk \notin past[y]
                      /\ \A s \in doing' : s.gsk = t.gsk => s = t
                      /\ Unused(t.gsk)
    BY DEF SetOnce, Unused
  <2>1. CASE t = n
    <3>1. \A s \in doing : s.dev \in Devs /\ s.gsk # k
      BY <1>4, <2>1 DEF Holds, ChainInv, ChainTypes, ChainTask
    <3> QED
      BY <1>4, <2>1, <3>1 DEF Holds
  <2>2. CASE t \in doing
    <3>1. t.gsk # k
      BY <1>4, <2>2 DEF Holds, ChainInv, ChainTypes, ChainTask
    <3> QED
      BY <2>2, <3>1 DEF ChainInv, SetOnce
  <2> QED
    BY <2>1, <2>2
<1>7. \A t \in doing' : t.op # "write" => t \in doing
  OBVIOUS
<1>8. OneSend' /\ IndexAhead'
  BY <1>7 DEF ChainInv, OneSend, IndexAhead
<1>9. CounterAhead'
  <2>1. \A y \in Devs : Resets(y)' <=> Resets(y)
    BY <1>7 DEF Resets
  <2> QED
    BY <1>7, <2>1 DEF ChainInv, CounterAhead, Unused
<1>10. ReuseHasACause'
  BY DEF ChainInv, ReuseHasACause, Chain!ReuseHasACause
<1> QED
  BY <1>1, <1>3, <1>5, <1>6, <1>8, <1>9, <1>10 DEF ChainInv

\* A message is encrypted: alone, or whatever is being sent is blurred.
LEMMA ChainSends ==
  ASSUME ChainInv, NEW x \in Devs, NEW k \in Gsk, key[x] = k \/ k \in past[x], Chain!Sends(x, k)
  PROVE  ChainInv'
<1> DEFINE n == [dev |-> x, op |-> "key", gsk |-> k, n |-> steps]
<1>1. /\ doing' = doing \cup {n} /\ UNCHANGED <<key, past, count, made, used, twice>>
      /\ steps' = steps + 1 /\ blurred \subseteq blurred'
  BY DEF Chain!Sends, Chain!Begin
<1>2. \A t \in doing : t.dev = x /\ t.op \in {"key", "index"} => t.gsk \in blurred' /\ k \in blurred'
  BY DEF Chain!Sends, Chain!Writing
<1> HIDE DEF n
<1>n. n.dev = x /\ n.op = "key" /\ n.gsk = k /\ n \in ChainTask
  BY DEF n, ChainTask, ChainInv, ChainTypes
<1>3. ChainTypes'
  BY <1>1, <1>n DEF ChainInv, ChainTypes
<1>4. \A y \in Devs, g \in Gsk : Holds(y, g)' <=> Holds(y, g)
  BY <1>1, <1>n DEF Holds
<1>5. OnlyMade' /\ OneHolder'
  BY <1>1, <1>4 DEF ChainInv, OnlyMade, OneHolder
<1>6. SetOnce'
  BY <1>1, <1>n DEF ChainInv, SetOnce, Unused
<1>7. OneSend'
  BY <1>1, <1>2, <1>n DEF ChainInv, OneSend
<1>8. IndexAhead'
  BY <1>1, <1>n DEF ChainInv, IndexAhead
<1>9. CounterAhead'
  <2>1. \A y \in Devs : Resets(y)' <=> Resets(y)
    BY <1>1, <1>n DEF Resets
  <2> QED
    BY <1>1, <1>n, <2>1 DEF ChainInv, CounterAhead, Unused
<1>10. ReuseHasACause'
  BY <1>1 DEF ChainInv, ReuseHasACause, Chain!ReuseHasACause
<1> QED
  BY <1>3, <1>5, <1>6, <1>7, <1>8, <1>9, <1>10 DEF ChainInv

\* A clear key that is set has not been used; its counter is to be reset.
LEMMA ChainSetKey ==
  ASSUME ChainInv, NEW t \in doing, Chain!SetKey(t)
  PROVE  ChainInv'
<1> DEFINE n == [t EXCEPT !.op = "reset"]
<1>1. /\ t.op = "write" /\ t \in [dev : Devs, op : {"write", "reset"}, gsk : Gsk]
      /\ t.dev \in Devs /\ t.gsk \in Gsk
  BY DEF Chain!SetKey, ChainInv, ChainTypes, ChainTask
<1>2. /\ key' = [key EXCEPT ![t.dev] = t.gsk]
      /\ past' = [past EXCEPT ![t.dev] = (past[t.dev] \cup {key[t.dev]}) \ {0, t.gsk}]
      /\ doing' = (doing \ {t}) \cup {n}
      /\ UNCHANGED <<count, made, used, twice, blurred, steps>>
  BY DEF Chain!SetKey, Chain!NoKey
<1>n. n.dev = t.dev /\ n.op = "reset" /\ n.gsk = t.gsk /\ n \in [dev : Devs, op : {"write", "reset"}, gsk : Gsk]
  BY <1>1
<1> HIDE DEF n
<1>3. ChainTypes'
  BY <1>1, <1>2, <1>n DEF ChainInv, ChainTypes, ChainTask, Gsk
<1>4. \A y \in Devs, g \in Gsk : Holds(y, g)' => Holds(y, g)
  BY <1>1, <1>2, <1>n DEF Holds, ChainInv, ChainTypes
<1>5. OnlyMade' /\ OneHolder'
  BY <1>2, <1>4 DEF ChainInv, OnlyMade, OneHolder
<1>6. t.gsk \in blurred \/ /\ Unused(t.gsk)
                           /\ \A s \in doing : s.gsk = t.gsk => s = t
  BY <1>1 DEF ChainInv, SetOnce
<1>7. SetOnce'
  <2> SUFFICES ASSUME NEW s \in doing', s.op = "write", s.gsk \notin blurred
               PROVE  /\ \A y \in Devs : key'[y] # s.gsk /\ s.gsk \notin past'[y]
                      /\ \A r \in doing' : r.gsk = s.gsk => r = s
                      /\ Unused(s.gsk)
    BY <1>2 DEF SetOnce, Unused
  <2>1. s \in doing /\ s # t
    BY <1>2, <1>n
  <2>2. s.gsk # t.gsk
    BY <1>1, <1>6, <2>1
  <2>3. \A y \in Devs : key'[y] \in {key[y], t.gsk} /\ past'[y] \subseteq past[y] \cup {key[y]}
    BY <1>1, <1>2 DEF ChainInv, ChainTypes
  <2>4. \A y \in Devs : key[y] # s.gsk /\ s.gsk \notin past[y]
    BY <2>1 DEF ChainInv, SetOnce
  <2>5. (\A r \in doing : r.gsk = s.gsk => r = s) /\ Unused(s.gsk)
    BY <2>1 DEF ChainInv, SetOnce
  <2> QED
    BY <1>2, <1>n, <2>2, <2>3, <2>4, <2>5
<1>8. \A s \in doing' : s.op \in {"key", "index"} => s \in doing
  BY <1>2, <1>n
<1>9. OneSend' /\ IndexAhead'
  BY <1>2, <1>8 DEF ChainInv, OneSend, IndexAhead
<1>10. CounterAhead'
  <2> SUFFICES ASSUME NEW y \in Devs, key'[y] \in Gsk \ blurred
               PROVE  /\ ~Resets(y)' => \A m \in used : m[1] = key'[y] => m[2] < count[y]
                      /\ Resets(y)' => Unused(key'[y]) /\ \A s \in doing' : s.op = "index" => s.gsk # key'[y]
                      /\ \A s \in doing' : s.dev = y /\ s.op = "index" /\ s.gsk # key'[y] => Unused(key'[y])
    BY <1>2 DEF CounterAhead, Unused
  <2>1. CASE y = t.dev
    <3>1. key'[y] = t.gsk
      BY <1>2, <2>1 DEF ChainInv, ChainTypes
    <3>2. Unused(key'[y]) /\ \A s \in doing' : s.op = "index" => s.gsk # key'[y]
      BY <1>1, <1>6, <1>8, <3>1
    <3> QED
      BY <3>2 DEF Unused
  <2>2. CASE y # t.dev
    <3>1. key'[y] = key[y] /\ (Resets(y)' <=> Resets(y))
      BY <1>1, <1>2, <1>n, <2>2 DEF Resets, ChainInv, ChainTypes
    <3> QED
      BY <1>8, <3>1 DEF ChainInv, CounterAhead
  <2> QED
    BY <2>1, <2>2
<1>11. ReuseHasACause'
  BY <1>2 DEF ChainInv, ReuseHasACause, Chain!ReuseHasACause
<1> QED
  BY <1>3, <1>5, <1>7, <1>9, <1>10, <1>11 DEF ChainInv

\* The counter of a key that is set and unused starts anew.
LEMMA ChainSetCount ==
  ASSUME ChainInv, NEW t \in doing, Chain!SetCount(t)
  PROVE  ChainInv'
<1>1. /\ t.op = "reset" /\ t.dev \in Devs /\ count' = [count EXCEPT ![t.dev] = 0] /\ doing' = doing \ {t}
      /\ UNCHANGED <<key, past, made, used, twice, blurred, steps>>
  BY DEF Chain!SetCount, ChainInv, ChainTypes, ChainTask
<1>2. ChainTypes'
  BY <1>1 DEF ChainInv, ChainTypes
<1>3. \A y \in Devs, g \in Gsk : Holds(y, g)' => Holds(y, g)
  BY <1>1 DEF Holds
<1>4. OnlyMade' /\ OneHolder' /\ SetOnce' /\ OneSend' /\ IndexAhead'
  BY <1>1, <1>3 DEF ChainInv, OnlyMade, OneHolder, SetOnce, OneSend, IndexAhead, Unused
<1>5. CounterAhead'
  <2> SUFFICES ASSUME NEW y \in Devs, key[y] \in Gsk \ blurred
               PROVE  /\ ~Resets(y)' => \A m \in used : m[1] = key[y] => m[2] < count'[y]
                      /\ Resets(y)' => Unused(key[y]) /\ \A s \in doing' : s.op = "index" => s.gsk # key[y]
                      /\ \A s \in doing' : s.dev = y /\ s.op = "index" /\ s.gsk # key[y] => Unused(key[y])
    BY <1>1 DEF CounterAhead, Unused
  <2>1. CASE y = t.dev
    <3>1. Resets(y)
      BY <1>1, <2>1 DEF Resets
    <3> QED
      BY <1>1, <3>1 DEF ChainInv, CounterAhead, Unused
  <2>2. CASE y # t.dev
    <3>1. count'[y] = count[y] /\ (Resets(y)' <=> Resets(y))
      BY <1>1, <2>2 DEF Resets, ChainInv, ChainTypes
    <3> QED
      BY <1>1, <3>1 DEF ChainInv, CounterAhead
  <2> QED
    BY <2>1, <2>2
<1>6. ReuseHasACause'
  BY <1>1 DEF ChainInv, ReuseHasACause, Chain!ReuseHasACause
<1> QED
  BY <1>2, <1>4, <1>5, <1>6 DEF ChainInv

\* A send reads its index: the key is current and not to be reset, or blurred.
LEMMA ChainReadIndex ==
  ASSUME ChainInv, NEW t \in doing, Chain!ReadIndex(t)
  PROVE  ChainInv'
<1> DEFINE n == [dev |-> t.dev, op |-> "index", gsk |-> t.gsk, n |-> t.n, i |-> count[t.dev]]
<1>1. t.op = "key" /\ t.dev \in Devs /\ t.gsk \in Gsk /\ t.n \in Nat
  BY DEF Chain!ReadIndex, ChainInv, ChainTypes, ChainTask
<1>2. /\ doing' = (doing \ {t}) \cup {n}
      /\ UNCHANGED <<key, past, count, made, used, twice, steps>> /\ blurred \subseteq blurred'
  BY DEF Chain!ReadIndex
<1>3. ASSUME t.gsk \notin blurred' \/ key[t.dev] \in Gsk \ blurred'
      PROVE  key[t.dev] = t.gsk /\ ~Resets(t.dev)
  <2>1. /\ key[t.dev] # t.gsk \/ (\E x \in doing : x.dev = t.dev /\ x.op = "reset") => blurred' = blurred \cup ({t.gsk, key[t.dev]} \ {0})
    BY DEF Chain!ReadIndex, Chain!NoKey
  <2> QED
    BY <1>1, <1>3, <2>1 DEF Resets, Gsk
<1>n. /\ n.dev = t.dev /\ n.op = "index" /\ n.gsk = t.gsk /\ n.i = count[t.dev]
      /\ n \in [dev : Devs, op : {"index"}, gsk : Gsk, n : Nat, i : Nat]
  BY <1>1 DEF ChainInv, ChainTypes
<1> HIDE DEF n
<1>4. ChainTypes'
  BY <1>2, <1>n DEF ChainInv, ChainTypes, ChainTask
<1>5. \A y \in Devs, g \in Gsk : Holds(y, g)' => Holds(y, g)
  BY <1>2, <1>n DEF Holds
<1>6. OnlyMade' /\ OneHolder'
  BY <1>2, <1>5 DEF ChainInv, OnlyMade, OneHolder
<1>7. SetOnce'
  BY <1>1, <1>2, <1>n DEF ChainInv, SetOnce, Unused
<1>8. OneSend'
  BY <1>1, <1>2, <1>n DEF ChainInv, OneSend
<1>9. IndexAhead'
  <2>1. t.gsk \notin blurred' => \A m \in used : m[1] = t.gsk => m[2] < count[t.dev]
    BY <1>1, <1>2, <1>3 DEF ChainInv, CounterAhead
  <2> QED
    BY <1>2, <1>n, <2>1 DEF ChainInv, IndexAhead
<1>10. CounterAhead'
  <2> SUFFICES ASSUME NEW y \in Devs, key[y] \in Gsk \ blurred'
               PROVE  /\ ~Resets(y)' => \A m \in used : m[1] = key[y] => m[2] < count[y]
                      /\ Resets(y)' => Unused(key[y]) /\ \A s \in doing' : s.op = "index" => s.gsk # key[y]
                      /\ \A s \in doing' : s.dev = y /\ s.op = "index" /\ s.gsk # key[y] => Unused(key[y])
    BY <1>2 DEF CounterAhead, Unused
  <2>1. Resets(y)' <=> Resets(y)
    BY <1>1, <1>2, <1>n DEF Resets
  <2>2. key[y] = t.gsk => y = t.dev
    <3>1. Holds(t.dev, t.gsk) /\ (key[y] = t.gsk => Holds(y, t.gsk))
      BY DEF Holds
    <3> QED
      BY <1>1, <1>2, <3>1 DEF ChainInv, OneHolder
  <2>3. y = t.dev => key[y] = t.gsk /\ ~Resets(y)
    BY <1>3
  <2> QED
    BY <1>2, <1>n, <2>1, <2>2, <2>3 DEF ChainInv, CounterAhead
<1>11. ReuseHasACause'
  BY <1>2 DEF ChainInv, ReuseHasACause, Chain!ReuseHasACause
<1> QED
  BY <1>4, <1>6, <1>7, <1>8, <1>9, <1>10, <1>11 DEF ChainInv

\* A clear key's send is the only one, its index ahead of all those used.
LEMMA ChainWriteIndex ==
  ASSUME ChainInv, NEW t \in doing, Chain!WriteIndex(t)
  PROVE  ChainInv'
<1>1. t.op = "index" /\ t.dev \in Devs /\ t.gsk \in Gsk /\ t.i \in Nat
  BY DEF Chain!WriteIndex, ChainInv, ChainTypes, ChainTask
<1>2. /\ doing' = doing \ {t} /\ count' = [count EXCEPT ![t.dev] = t.i + 1]
      /\ used' = used \cup {<<t.gsk, t.i>>} /\ twice' = twice \cup ({<<t.gsk, t.i>>} \cap used)
      /\ UNCHANGED <<key, past, made, blurred, steps>>
  BY DEF Chain!WriteIndex, Chain!After
<1>3. Holds(t.dev, t.gsk)
  BY DEF Holds
<1>4. ChainTypes'
  BY <1>1, <1>2 DEF ChainInv, ChainTypes
<1>5. \A y \in Devs, g \in Gsk : Holds(y, g)' => Holds(y, g)
  BY <1>2 DEF Holds
<1>6. OnlyMade' /\ OneHolder'
  BY <1>1, <1>2, <1>3, <1>5 DEF ChainInv, OnlyMade, OneHolder
<1>7. SetOnce'
  <2>1. \A s \in doing : s.op = "write" /\ s.gsk \notin blurred => s.gsk # t.gsk
    BY <1>1 DEF ChainInv, SetOnce
  <2> QED
    BY <1>2, <2>1 DEF ChainInv, SetOnce, Unused
<1>8. OneSend'
  BY <1>2 DEF ChainInv, OneSend
<1>9. IndexAhead'
  <2>1. \A s \in doing' : s.op = "index" /\ s.gsk \notin blurred => s.gsk # t.gsk
    <3> SUFFICES ASSUME NEW s \in doing, s # t, s.op = "index", s.gsk \notin blurred, s.gsk = t.gsk PROVE FALSE
      BY <1>2
    <3>1. Holds(s.dev, s.gsk) /\ s.dev \in Devs
      BY DEF Holds, ChainInv, ChainTypes, ChainTask
    <3>2. s.dev = t.dev
      BY <1>1, <1>3, <3>1 DEF ChainInv, OneHolder
    <3> QED
      BY <1>1, <3>2 DEF ChainInv, OneSend
  <2> QED
    BY <1>2, <2>1 DEF ChainInv, IndexAhead
<1>10. CounterAhead'
  <2> SUFFICES ASSUME NEW y \in Devs, key[y] \in Gsk \ blurred
               PROVE  /\ ~Resets(y)' => \A m \in used' : m[1] = key[y] => m[2] < count'[y]
                      /\ Resets(y)' => Unused(key[y])' /\ \A s \in doing' : s.op = "index" => s.gsk # key[y]
                      /\ \A s \in doing' : s.dev = y /\ s.op = "index" /\ s.gsk # key[y] => Unused(key[y])'
    BY <1>2 DEF CounterAhead, Unused
  <2>1. Resets(y)' <=> Resets(y)
    BY <1>1, <1>2 DEF Resets
  <2>2. CASE key[y] = t.gsk
    <3>1. y = t.dev
      BY <1>1, <1>2, <1>3, <2>2 DEF Holds, ChainInv, OneHolder
    <3>2. ~Resets(y)
      BY <1>1, <2>2 DEF ChainInv, CounterAhead
    <3>3. \A m \in used' : m[1] = key[y] => m[2] < count'[y]
      BY <1>1, <1>2, <2>2, <3>1 DEF ChainInv, ChainTypes, IndexAhead
    <3>4. \A s \in doing' : s.dev = y /\ s.op = "index" => FALSE
      BY <1>1, <1>2, <2>2, <3>1 DEF ChainInv, OneSend
    <3> QED
      BY <2>1, <3>2, <3>3, <3>4
  <2>3. CASE key[y] # t.gsk
    <3>1. Unused(key[y]) => Unused(key[y])'
      BY <1>2, <2>3 DEF Unused
    <3>2. CASE y = t.dev
      <4>1. Unused(key[y])
        BY <1>1, <2>3, <3>2 DEF ChainInv, CounterAhead
      <4> QED
        BY <1>2, <2>1, <3>1, <4>1 DEF ChainInv, CounterAhead, Unused
    <3>3. CASE y # t.dev
      <4>1. count'[y] = count[y]
        BY <1>1, <1>2, <3>3 DEF ChainInv, ChainTypes
      <4> QED
        BY <1>2, <2>1, <2>3, <3>1, <4>1 DEF ChainInv, CounterAhead
    <3> QED
      BY <3>2, <3>3
  <2> QED
    BY <2>2, <2>3
<1>11. ReuseHasACause'
  <2>1. <<t.gsk, t.i>> \in used => t.gsk \in blurred
    BY <1>1 DEF ChainInv, IndexAhead
  <2> QED
    BY <1>2, <2>1 DEF ChainInv, ReuseHasACause, Chain!ReuseHasACause
<1> QED
  BY <1>4, <1>6, <1>7, <1>8, <1>9, <1>10, <1>11 DEF ChainInv

\* Every step on the message keys keeps the invariant.
LEMMA ChainInvNext ==
  ASSUME ChainInv, [Chain!Next]_chain
  PROVE  ChainInv'
<1>1. ASSUME NEW x \in Devs, Chain!NewKey(x) PROVE ChainInv'
  <2>1. /\ made' = made + 1 /\ made \in Nat /\ steps' \in Nat /\ blurred' = blurred
        /\ doing' = doing \cup {[dev |-> x, op |-> "write", gsk |-> made']}
        /\ UNCHANGED <<key, past, count, used, twice>>
    BY <1>1 DEF Chain!NewKey, Chain!Begin, ChainInv, ChainTypes
  <2>2. made' \in Gsk /\ made' > made
    BY <2>1 DEF Gsk
  <2> QED
    BY <2>1, <2>2, ChainNewTask
<1>2. ASSUME NEW x \in Devs, Chain!Adopt(x) PROVE ChainInv'
  <2>1. PICK k \in {key[y] : y \in Devs} \ {0} :
          doing' = doing \cup {[dev |-> x, op |-> "write", gsk |-> k]} /\ blurred' = blurred \cup {k}
    BY <1>2 DEF Chain!Adopt, Chain!NoKey
  <2>2. steps' \in Nat /\ UNCHANGED <<key, past, count, made, used, twice>>
    BY <1>2 DEF Chain!Adopt, Chain!Begin, ChainInv, ChainTypes
  <2>3. k \in Gsk /\ made \in Nat
    BY DEF ChainInv, ChainTypes, Gsk
  <2>4. k <= made
    BY <2>3 DEF ChainInv, OnlyMade, Holds
  <2> QED
    BY <2>1, <2>2, <2>3, <2>4, ChainNewTask
<1>3. ASSUME NEW x \in Devs, Chain!Send(x) \/ Chain!Edit(x) PROVE ChainInv'
  <2>1. key[x] \in Gsk \cup {0} /\ past[x] \subseteq Gsk
    BY DEF ChainInv, ChainTypes, Gsk
  <2> QED
    BY <1>3, <2>1, ChainSends DEF Chain!Send, Chain!Edit, Chain!NoKey
<1>4. ASSUME NEW t \in doing, Chain!SetKey(t) \/ Chain!SetCount(t) \/ Chain!ReadIndex(t) \/ Chain!WriteIndex(t)
      PROVE  ChainInv'
  BY <1>4, ChainSetKey, ChainSetCount, ChainReadIndex, ChainWriteIndex
<1>5. ASSUME UNCHANGED chain PROVE ChainInv'
  BY <1>5 DEF chain, ChainInv, ChainTypes, OnlyMade, OneHolder, Holds, SetOnce, Unused, OneSend, IndexAhead,
              CounterAhead, Resets, ReuseHasACause, Chain!ReuseHasACause
<1> QED
  BY <1>1, <1>2, <1>3, <1>4, <1>5 DEF Chain!Next

\* At first one device has made the first key.
LEMMA ChainInvInit == Chain!Init => ChainInv
<1> SUFFICES ASSUME Chain!Init PROVE ChainInv
  OBVIOUS
<1>1. PICK z \in Devs : key = [x \in Devs |-> IF x = z THEN 1 ELSE 0]
  BY DEF Chain!Init, Chain!NoKey
<1>2. /\ past = [x \in Devs |-> {}] /\ count = [x \in Devs |-> 0] /\ doing = {} /\ made = 1
      /\ used = {} /\ twice = {} /\ blurred = {} /\ steps = 0
  BY DEF Chain!Init
<1>3. ChainTypes
  BY <1>1, <1>2 DEF ChainTypes, Gsk
<1>4. \A x \in Devs, k \in Gsk : Holds(x, k) => x = z /\ k = 1
  BY <1>1, <1>2 DEF Holds, Gsk
<1> QED
  BY <1>2, <1>3, <1>4 DEF ChainInv, OnlyMade, OneHolder, SetOnce, OneSend, IndexAhead, CounterAhead, Resets, Unused,
                          ReuseHasACause, Chain!ReuseHasACause

\* A message key is used twice only when a listed cause touched its sender key
\* (nextGroupChainIndex, setMyGSK), for any number of devices, keys and messages.
THEOREM ReuseHolds == MCSpec => []ReuseHasACause
<1>1. MCInit => ChainInv
  BY ChainInvInit DEF MCInit
<1>2. ChainInv /\ [KeysStep \/ ChainStep \/ RowsStep]_<<part, gkeys, chain, rows>> => ChainInv'
  BY ChainInvNext DEF KeysStep, ChainStep, RowsStep
<1>3. ChainInv => ReuseHasACause
  BY DEF ChainInv
<1> QED
  BY <1>1, <1>2, <1>3, PTL DEF MCSpec

-----------------------------------------------------------------------------
(* Sender keys: a former member cannot read what is sent from now on        *)

\* Events and tasks.
KEvent == [e : {"left", "joined", "request", "device"}, h : Handles] \cup [e : {"gsk"}, h : Handles, key : Nat]
KTask ==
  [dev : Devices, op : {"list"}, h : Handles]
    \cup [dev : Devices, op : {"write"}, key : Nat, to : SUBSET Handles, own : BOOLEAN]
    \cup [dev : Devices, op : {"post"}, key : Nat, to : SUBSET Handles, own : BOOLEAN, devs : SUBSET Devices]
KTypes ==
  /\ members \subseteq Handles /\ registered \subseteq Devices /\ last \in Nat
  /\ my \in [Devices -> Nat] /\ kv \in [Devices -> Nat]
  /\ inbox \in [Devices -> Seq(KEvent)] /\ tasks \subseteq KTask

\* A device has a sender key: its own, the server's copy for it, or under way.
HasKey(d, k) ==
  \/ my[d] = k \/ kv[d] = k
  \/ \E t \in tasks : t.dev = d /\ t.op \in {"write", "post"} /\ t.key = k
\* A device has been told of a departure, or is getting a list or a new key.
Queued(d) == {inbox[d][i] : i \in 1..Len(inbox[d])}
Told(d) == \E ev \in Queued(d) : ev.e = "left"
Renews(d) == \E t \in tasks : t.dev = d /\ t.op \in {"list", "write"}

\* A key is one member's ...
KeysOwned ==
  \A k \in Nat \ {None}, d \in Devices : HasKey(d, k) =>
    k <= last /\ \A e \in Devices : HasKey(e, k) => e[1] = d[1]
\* ... and whoever was sent a key in use is a member, or its owner is to renew it
\* or could not be told. One who is no member has a key that nobody else has.
Readers(d) == IF d[1] \in members THEN members ELSE {d[1]}
Guarded ==
  \A d \in Devices : my[d] # None /\ d \notin unrotated =>
    Told(d) \/ Renews(d) \/ Holders(my[d]) \subseteq Readers(d)

KInv == KTypes /\ KeysOwned /\ Guarded

\* Every device belongs to a member or former member.
LEMMA DeviceOwner == \A d \in Devices : d[1] \in Handles
BY DevicesAssumption DEF Devices

\* An event is put at the end of a queue; the oldest is taken from it.
LEMMA Appended ==
  ASSUME NEW q \in Seq(KEvent), NEW ev \in KEvent
  PROVE  LET r == Append(q, ev) IN r \in Seq(KEvent) /\ {r[i] : i \in 1..Len(r)} = {q[i] : i \in 1..Len(q)} \cup {ev}
<1> DEFINE r == Append(q, ev)
<1>1. r \in Seq(KEvent) /\ Len(r) = Len(q) + 1 /\ Len(q) \in Nat
  OBVIOUS
<1>2. (\A i \in 1..Len(q) : r[i] = q[i]) /\ r[Len(q) + 1] = ev
  OBVIOUS
<1>3. 1..Len(r) = 1..Len(q) \cup {Len(q) + 1}
  BY <1>1
<1> QED
  BY <1>1, <1>2, <1>3

LEMMA Taken ==
  ASSUME NEW q \in Seq(KEvent), q # <<>>
  PROVE  LET r == Tail(q) IN /\ r \in Seq(KEvent) /\ Head(q) \in KEvent
                             /\ {q[i] : i \in 1..Len(q)} \ {Head(q)} \subseteq {r[i] : i \in 1..Len(r)}
<1> DEFINE r == Tail(q)
<1>1. r \in Seq(KEvent) /\ Head(q) \in KEvent /\ Len(r) = Len(q) - 1 /\ Len(q) \in Nat /\ Head(q) = q[1]
  OBVIOUS
<1>2. \A i \in 1..Len(r) : r[i] = q[i + 1]
  OBVIOUS
<1>3. ASSUME NEW i \in 1..Len(q), q[i] # Head(q) PROVE q[i] \in {r[j] : j \in 1..Len(r)}
  <2>1. i # 1 /\ i - 1 \in 1..Len(r) /\ (i - 1) + 1 = i
    BY <1>1, <1>3
  <2>2. r[i - 1] = q[i]
    BY <1>2, <2>1
  <2> QED
    BY <2>1, <2>2
<1> QED
  BY <1>1, <1>3

\* What pushing an event does to the queues.
LEMMA PushKeeps ==
  ASSUME KTypes, NEW D, NEW ev \in KEvent, inbox' = Pushed(D, ev)
  PROVE  /\ inbox' \in [Devices -> Seq(KEvent)]
         /\ \A d \in Devices : Queued(d)' = Queued(d) \cup (IF d \in D \cap online THEN {ev} ELSE {})
         /\ \A d \in Devices : Told(d) => Told(d)'
<1>1. inbox' \in [Devices -> Seq(KEvent)]
  BY Appended DEF Pushed, KTypes
<1>2. ASSUME NEW d \in Devices
      PROVE  Queued(d)' = Queued(d) \cup (IF d \in D \cap online THEN {ev} ELSE {})
  <2>1. inbox[d] \in Seq(KEvent) /\ inbox'[d] = IF d \in D \cap online THEN Append(inbox[d], ev) ELSE inbox[d]
    BY DEF Pushed, KTypes
  <2>2. CASE d \in D \cap online
    <3>1. inbox'[d] = Append(inbox[d], ev)
      BY <2>1, <2>2
    <3> QED
      BY <2>1, <2>2, <3>1, Appended DEF Queued
  <2>3. CASE d \notin D \cap online
    BY <2>1, <2>3 DEF Queued
  <2> QED
    BY <2>2, <2>3
<1> QED
  BY <1>1, <1>2 DEF Told

\* What handling an event does to the queues.
LEMMA EventKeeps ==
  ASSUME KTypes, NEW d \in Devices, NEW kind, Event(d, kind)
  PROVE  /\ inbox' \in [Devices -> Seq(KEvent)] /\ Head(inbox[d]) \in KEvent /\ Head(inbox[d]).e = kind
         /\ \A x \in Devices : Queued(x) \ (IF x = d THEN {Head(inbox[d])} ELSE {}) \subseteq Queued(x)'
         /\ \A x \in Devices : x # d \/ kind # "left" => (Told(x) => Told(x)')
<1>1. /\ inbox[d] # <<>> /\ Head(inbox[d]).e = kind /\ inbox' = [inbox EXCEPT ![d] = Tail(inbox[d])]
      /\ inbox[d] \in Seq(KEvent) /\ inbox \in [Devices -> Seq(KEvent)]
  BY DEF Event, KTypes
<1>2. Tail(inbox[d]) \in Seq(KEvent) /\ Head(inbox[d]) \in KEvent
  BY <1>1, Taken
<1>3. ASSUME NEW x \in Devices
      PROVE  Queued(x) \ (IF x = d THEN {Head(inbox[d])} ELSE {}) \subseteq Queued(x)'
  <2>1. CASE x # d
    BY <1>1, <2>1 DEF Queued
  <2>2. CASE x = d
    <3>1. inbox'[x] = Tail(inbox[d])
      BY <1>1, <2>2
    <3>2. /\ Queued(x) = {inbox[d][i] : i \in 1..Len(inbox[d])}
          /\ Queued(x)' = {Tail(inbox[d])[i] : i \in 1..Len(Tail(inbox[d]))}
      BY <2>2, <3>1 DEF Queued
    <3> QED
      BY <1>1, <2>2, <3>2, Taken
  <2> QED
    BY <2>1, <2>2
<1>4. \A x \in Devices : x # d \/ kind # "left" => (Told(x) => Told(x)')
  BY <1>1, <1>3 DEF Told
<1> QED
  BY <1>1, <1>2, <1>3, <1>4

\* A step that sends no key and leaves those in use alone: at most one new key
\* is under way, and whoever is to renew its key still is, or the history says
\* that it cannot.
LEMMA KeysStand ==
  ASSUME KInv, KTypes', UNCHANGED <<members, my, kv, known>>, unrotated \subseteq unrotated', last <= last',
         NEW o \in Devices,
         \A d \in Devices : Told(d) \/ Renews(d) => Told(d)' \/ Renews(d)' \/ d \in unrotated',
         \A d \in Devices, k \in Nat \ {None} : HasKey(d, k)' => HasKey(d, k) \/ (d = o /\ last < k /\ k <= last')
  PROVE  KInv'
<1>1. last \in Nat /\ last' \in Nat
  BY DEF KInv, KTypes
<1>2. KeysOwned'
  <2> SUFFICES ASSUME NEW k \in Nat \ {None}, NEW d \in Devices, HasKey(d, k)'
               PROVE  k <= last' /\ \A x \in Devices : HasKey(x, k)' => x[1] = d[1]
    BY DEF KeysOwned
  <2>1. CASE HasKey(d, k)
    <3>1. k <= last /\ \A x \in Devices : HasKey(x, k) => x[1] = d[1]
      BY <2>1 DEF KInv, KeysOwned
    <3> QED
      BY <1>1, <3>1
  <2>2. CASE d = o /\ last < k /\ k <= last'
    <3>1. \A x \in Devices : ~HasKey(x, k)
      BY <1>1, <2>2 DEF KInv, KeysOwned
    <3> QED
      BY <2>2, <3>1
  <2> QED
    BY <2>1, <2>2
<1>3. Guarded'
  BY DEF KInv, Guarded, Holders, Readers
<1> QED
  BY <1>2, <1>3 DEF KInv

\* Tasks that are added beside those there are.
LEMMA TasksAdded ==
  ASSUME KInv, UNCHANGED <<members, my, kv, known, last>>, unrotated' = unrotated,
         registered' \subseteq Devices, inbox' \in [Devices -> Seq(KEvent)],
         \A d \in Devices : Told(d) => Told(d)' \/ Renews(d)',
         tasks \subseteq tasks', tasks' \subseteq KTask,
         \A t \in tasks' \ tasks : t.op = "list" \/ HasKey(t.dev, t.key)
  PROVE  KInv'
<1>1. KTypes'
  BY DEF KInv, KTypes
<1>2. \A d \in Devices : Told(d) \/ Renews(d) => Told(d)' \/ Renews(d)'
  BY DEF Renews
<1>3. \A d \in Devices, k \in Nat \ {None} : HasKey(d, k)' => HasKey(d, k)
  <2> SUFFICES ASSUME NEW d \in Devices, NEW k \in Nat \ {None}, HasKey(d, k)' PROVE HasKey(d, k)
    OBVIOUS
  <2>1. CASE \E t \in tasks' \ tasks : t.dev = d /\ t.op \in {"write", "post"} /\ t.key = k
    BY <2>1
  <2>2. CASE ~\E t \in tasks' \ tasks : t.dev = d /\ t.op \in {"write", "post"} /\ t.key = k
    BY <2>2 DEF HasKey
  <2> QED
    BY <2>1, <2>2
<1>4. CASE Devices = {}
  BY <1>1, <1>4 DEF KInv, KeysOwned, Guarded
<1>5. CASE Devices # {}
  <2>1. PICK o \in Devices : TRUE
    BY <1>5
  <2>2. last \in Nat /\ last <= last'
    BY DEF KInv, KTypes
  <2> QED
    BY <1>1, <1>2, <1>3, <2>1, <2>2, KeysStand
<1> QED
  BY <1>4, <1>5

\* A task that makes a new key.
LEMMA KeyMade ==
  ASSUME KInv, UNCHANGED <<members, registered, my, kv, known, unrotated>>,
         inbox' \in [Devices -> Seq(KEvent)], \A d \in Devices : Told(d) => Told(d)',
         NEW o \in Devices, NEW H \in SUBSET Handles, NEW own \in BOOLEAN, last' = last + 1,
         Write(o, last', H, own) \in tasks', tasks' \subseteq tasks \cup {Write(o, last', H, own)},
         \A t \in tasks \ tasks' : t.dev = o
  PROVE  KInv'
<1> DEFINE n == Write(o, last', H, own)
<1>1. last \in Nat /\ last' \in Nat
  BY DEF KInv, KTypes
<1>2. /\ n.dev = o /\ n.op = "write" /\ n.key = last' /\ n \in KTask
  BY <1>1 DEF Write, KTask
<1>3. n \in tasks' /\ tasks' \subseteq tasks \cup {n} /\ \A t \in tasks \ tasks' : t.dev = o
  OBVIOUS
<1> HIDE DEF n
<1>4. KTypes'
  BY <1>1, <1>2, <1>3 DEF KInv, KTypes
<1>5. \A d \in Devices : Told(d) \/ Renews(d) => Told(d)' \/ Renews(d)'
  BY <1>2, <1>3 DEF Renews
<1>6. \A d \in Devices, k \in Nat \ {None} : HasKey(d, k)' => HasKey(d, k) \/ (d = o /\ k = last')
  BY <1>2, <1>3 DEF HasKey
<1>7. last < last' /\ last <= last' /\ last' <= last'
  BY <1>1
<1> QED
  BY <1>4, <1>5, <1>6, <1>7, KeysStand

\* Members go: who is told has the event, for the others the history notes it.
LEMMA GoesKeeps ==
  ASSUME KInv, NEW h \in Handles, NEW D, Goes(h, D)
  PROVE  KInv'
<1> DEFINE ev == [e |-> "left", h |-> h]
<1>1. /\ members' = members \ {h} /\ inbox' = Pushed(D, ev)
      /\ unrotated' = unrotated \cup {d \in Of(members) : my[d] # None /\ d \notin D \cap online}
      /\ UNCHANGED <<registered, my, kv, tasks, last, known>>
  BY DEF Goes
<1>2. ev \in KEvent /\ ev.e = "left"
  BY DEF KEvent
<1> HIDE DEF ev
<1>3. /\ inbox' \in [Devices -> Seq(KEvent)]
      /\ \A d \in Devices : (Told(d) => Told(d)') /\ (d \in D \cap online => Told(d)')
  <2>1. \A d \in Devices : d \in D \cap online => ev \in Queued(d)'
    BY <1>1, <1>2, PushKeeps DEF KInv
  <2> QED
    BY <1>1, <1>2, <2>1, PushKeeps DEF KInv, Told
<1>4. KTypes'
  BY <1>1, <1>3 DEF KInv, KTypes
<1>5. KeysOwned'
  BY <1>1 DEF KInv, KeysOwned, HasKey
<1>6. Guarded'
  <2> SUFFICES ASSUME NEW d \in Devices, my[d] # None, d \notin unrotated', ~Told(d)', ~Renews(d)
               PROVE  Holders(my[d]) \subseteq Readers(d)'
    BY <1>1 DEF Guarded, Renews, Holders
  <2>1. d[1] \notin members
    BY <1>1, <1>3 DEF Of
  <2>2. Holders(my[d]) \subseteq {d[1]}
    BY <1>1, <1>3, <2>1 DEF KInv, Guarded, Readers
  <2> QED
    BY <1>1, <2>1, <2>2 DEF Readers
<1> QED
  BY <1>4, <1>5, <1>6 DEF KInv

LEMMA InviteKeeps ==
  ASSUME KInv, NEW h \in Handles, Invite(h)
  PROVE  KInv'
<1> DEFINE ev == [e |-> "joined", h |-> h]
<1>1. /\ members' = members \cup {h} /\ inbox' = Pushed(Of(members'), ev)
      /\ UNCHANGED <<registered, my, kv, tasks, last, known, unrotated>>
  BY DEF Invite
<1>2. ev \in KEvent
  BY DEF KEvent
<1> HIDE DEF ev
<1>3. /\ inbox' \in [Devices -> Seq(KEvent)]
      /\ \A d \in Devices : Told(d) => Told(d)'
  BY <1>1, <1>2, PushKeeps DEF KInv
<1>4. KTypes'
  BY <1>1, <1>3 DEF KInv, KTypes
<1>5. KeysOwned'
  BY <1>1 DEF KInv, KeysOwned, HasKey
<1>6. Guarded'
  <2>1. \A d \in Devices : Readers(d) \subseteq Readers(d)'
    BY <1>1 DEF Readers
  <2> QED
    BY <1>1, <1>3, <2>1 DEF KInv, Guarded, Renews, Holders
<1> QED
  BY <1>4, <1>5, <1>6 DEF KInv

LEMMA IWasRemovedKeeps ==
  ASSUME KInv, NEW d \in Devices, IWasRemoved(d)
  PROVE  KInv'
<1>1. /\ Event(d, "left") /\ my' = [my EXCEPT ![d] = None] /\ unrotated' = unrotated \ {d}
      /\ UNCHANGED <<members, registered, kv, tasks, last, known>>
  BY DEF IWasRemoved
<1>2. /\ inbox' \in [Devices -> Seq(KEvent)]
      /\ \A x \in Devices : x # d => (Told(x) => Told(x)')
  BY <1>1, EventKeeps DEF KInv
<1>3. my \in [Devices -> Nat] /\ my' \in [Devices -> Nat] /\ my'[d] = None /\ \A x \in Devices : x # d => my'[x] = my[x]
  BY <1>1 DEF KInv, KTypes, None
<1>4. KTypes'
  BY <1>1, <1>2, <1>3 DEF KInv, KTypes
<1>5. \A x \in Devices, k \in Nat \ {None} : HasKey(x, k)' => HasKey(x, k)
  BY <1>1, <1>3 DEF HasKey
<1>6. KeysOwned'
  BY <1>1, <1>5 DEF KInv, KeysOwned
<1>7. Guarded'
  BY <1>1, <1>2, <1>3 DEF KInv, Guarded, Renews, Holders, Readers
<1> QED
  BY <1>4, <1>6, <1>7 DEF KInv

\* A key that others have been sent is in force only while they are members.
LEMMA KeyWrittenKeeps ==
  ASSUME KInv, NEW t \in tasks, KeyWritten(t)
  PROVE  KInv'
<1> DEFINE n == Post(t.dev, t.key, t.to, t.own)
<1>1. /\ t.op = "write" /\ t.dev \in Devices /\ t.key \in Nat /\ t.to \in SUBSET Handles /\ t.own \in BOOLEAN
  BY DEF KeyWritten, KInv, KTypes, KTask
<1>2. /\ my' = [my EXCEPT ![t.dev] = t.key] /\ tasks' = (tasks \ {t}) \cup {n}
      /\ known' = known \cup ({t.key} \X {t.dev[1]})
      /\ UNCHANGED <<members, registered, inbox, kv, last>>
  BY DEF KeyWritten, Becomes
<1>3. unrotated' = IF Holders(t.key) \subseteq {t.dev[1]} THEN unrotated \ {t.dev}
                   ELSE IF Holders(t.key) \subseteq members /\ {t.dev[1]} \subseteq members THEN unrotated
                   ELSE unrotated \cup {t.dev}
  BY DEF KeyWritten
<1>4. n.dev = t.dev /\ n.op = "post" /\ n.key = t.key /\ n \in KTask
  BY <1>1 DEF Post, KTask, Of, KInv, KTypes
<1> HIDE DEF n
<1>5. my' \in [Devices -> Nat] /\ my'[t.dev] = t.key /\ \A d \in Devices : d # t.dev => my'[d] = my[d]
  BY <1>1, <1>2 DEF KInv, KTypes
<1>6. KTypes'
  BY <1>2, <1>4, <1>5 DEF KInv, KTypes
<1>7. HasKey(t.dev, t.key)
  BY <1>1 DEF HasKey
<1>8. \A d \in Devices, k \in Nat \ {None} : HasKey(d, k)' => HasKey(d, k)
  BY <1>1, <1>2, <1>4, <1>5, <1>7 DEF HasKey
<1>9. KeysOwned'
  BY <1>2, <1>8 DEF KInv, KeysOwned
<1>10. \A k : Holders(k)' \subseteq Holders(k) \cup {t.dev[1]} /\ (k # t.key => Holders(k)' = Holders(k))
  BY <1>2 DEF Holders
<1>11. Guarded'
  <2> SUFFICES ASSUME NEW d \in Devices, my'[d] # None, d \notin unrotated', ~Told(d)', ~Renews(d)'
               PROVE  Holders(my[d])' \subseteq Readers(d)
    BY <1>2 DEF Guarded, Readers
  <2>0. \A k : my'[d] = k => Holders(my[d])' = Holders(k)'
    BY DEF Holders
  <2>1. CASE d = t.dev
    <3>1. Holders(t.key) \subseteq {t.dev[1]} \/ (Holders(t.key) \subseteq members /\ {t.dev[1]} \subseteq members)
      BY <1>3, <2>1
    <3> QED
      BY <1>5, <1>10, <2>0, <2>1, <3>1 DEF Readers
  <2>2. CASE d # t.dev
    <3>1. my'[d] = my[d] /\ d \notin unrotated /\ ~Told(d) /\ ~Renews(d)
      BY <1>2, <1>3, <1>5, <2>2 DEF Told, Queued, Renews
    <3>2. Holders(my[d]) \subseteq Readers(d)
      BY <3>1 DEF KInv, Guarded
    <3>3. CASE my[d] = t.key
      <4>1. t.dev[1] = d[1]
        BY <1>1, <1>7, <3>1, <3>3 DEF KInv, KeysOwned, HasKey
      <4> QED
        BY <1>10, <2>0, <3>1, <3>2, <4>1 DEF Readers
    <3>4. CASE my[d] # t.key
      BY <1>10, <2>0, <3>1, <3>2, <3>4
    <3> QED
      BY <3>3, <3>4
  <2> QED
    BY <2>1, <2>2
<1> QED
  BY <1>6, <1>9, <1>11 DEF KInv

\* A key is sent from a member to members.
LEMMA PostedKeeps ==
  ASSUME KInv, NEW t \in tasks, Posted(t)
  PROVE  KInv'
<1> DEFINE reach == Of(Accepted(t)) \cap t.devs \cap online
           ev == [e |-> "gsk", h |-> t.dev[1], key |-> t.key]
<1>1. t.op = "post" /\ t.dev \in Devices /\ t.key \in Nat
  BY DEF Posted, KInv, KTypes, KTask
<1>2. /\ tasks' = tasks \ {t} /\ inbox' = Pushed(reach, ev)
      /\ known' = known \cup ({t.key} \X {d[1] : d \in reach})
      /\ kv' = [d \in Devices |-> IF t.own /\ d \in Others(t.dev) /\ d[1] \in members THEN t.key ELSE kv[d]]
      /\ UNCHANGED <<members, registered, my, last, unrotated>>
  BY DEF Posted, Becomes
<1>3. ev \in KEvent /\ t.dev[1] \in Handles
  BY <1>1, DeviceOwner DEF KEvent
<1>4. \A d \in reach : d[1] \in members /\ t.dev[1] \in members
  BY DEF Of, Accepted
<1> HIDE DEF ev, reach
<1>5. /\ inbox' \in [Devices -> Seq(KEvent)]
      /\ \A d \in Devices : Told(d) => Told(d)'
  BY <1>2, <1>3, PushKeeps DEF KInv
<1>6. kv' \in [Devices -> Nat] /\ \A d \in Devices : kv'[d] = kv[d] \/ (kv'[d] = t.key /\ d[1] = t.dev[1])
  BY <1>1, <1>2 DEF KInv, KTypes, Others, Of
<1>7. KTypes'
  BY <1>2, <1>5, <1>6 DEF KInv, KTypes
<1>8. HasKey(t.dev, t.key)
  BY <1>1 DEF HasKey
<1>9. \A d \in Devices, k \in Nat \ {None} : HasKey(d, k)' => HasKey(d, k) \/ (k = t.key /\ d[1] = t.dev[1])
  BY <1>2, <1>6 DEF HasKey
<1>10. KeysOwned'
  <2> SUFFICES ASSUME NEW k \in Nat \ {None}, NEW d \in Devices, HasKey(d, k)'
               PROVE  k <= last /\ \A x \in Devices : HasKey(x, k)' => x[1] = d[1]
    BY <1>2 DEF KeysOwned
  <2>1. PICK y \in Devices : HasKey(y, k) /\ y[1] = d[1]
    BY <1>1, <1>8, <1>9
  <2>2. k <= last /\ \A x \in Devices : HasKey(x, k) => x[1] = y[1]
    BY <2>1 DEF KInv, KeysOwned
  <2> QED
    BY <1>1, <1>8, <1>9, <2>1, <2>2
<1>11. Guarded'
  <2> SUFFICES ASSUME NEW d \in Devices, my[d] # None, d \notin unrotated, ~Told(d)', ~Renews(d)'
               PROVE  Holders(my[d])' \subseteq Readers(d)
    BY <1>2 DEF Guarded, Readers, Holders
  <2>1. Holders(my[d]) \subseteq Readers(d)
    BY <1>1, <1>2, <1>5 DEF KInv, Guarded, Renews
  <2>2. my[d] = t.key => d[1] = t.dev[1]
    BY <1>1, <1>8 DEF KInv, KeysOwned, HasKey
  <2>3. \A h \in Holders(my[d])' : h \in Holders(my[d]) \/ (my[d] = t.key /\ h \in members /\ t.dev[1] \in members)
    BY <1>2, <1>4 DEF Holders
  <2> QED
    BY <2>1, <2>2, <2>3 DEF Readers
<1> QED
  BY <1>7, <1>10, <1>11 DEF KInv

\* What a device does with an event, besides a departure of its own.
LEMMA HandleKeeps ==
  ASSUME KInv, NEW d \in Devices, Handle(d)
  PROVE  KInv'
<1>1. d[1] \in Handles /\ my[d] \in Nat /\ HasKey(d, my[d])
  BY DeviceOwner DEF KInv, KTypes, HasKey
<1>2. \A k \in Nat, H \in SUBSET Handles, own \in BOOLEAN :
        LET n == Post(d, k, H, own) IN n \in KTask /\ n.dev = d /\ n.key = k /\ n.op = "post"
  BY DEF Post, KTask, Of, KInv, KTypes
<1>3. ASSUME NEW kind \in {"joined", "gsk", "device"}, Event(d, kind),
             UNCHANGED <<members, registered, my, kv, last, known, unrotated>>,
             tasks' = tasks \/ \E H \in SUBSET Handles, own \in BOOLEAN : tasks' = tasks \cup {Post(d, my[d], H, own)}
      PROVE  KInv'
  <2>1. inbox' \in [Devices -> Seq(KEvent)] /\ \A x \in Devices : Told(x) => Told(x)'
    BY <1>3, EventKeeps DEF KInv
  <2>2. tasks \subseteq tasks' /\ tasks' \subseteq KTask /\ \A t \in tasks' \ tasks : HasKey(t.dev, t.key)
    BY <1>1, <1>2, <1>3 DEF KInv, KTypes
  <2>3. registered' \subseteq Devices
    BY <1>3 DEF KInv, KTypes
  <2> QED
    BY <1>3, <2>1, <2>2, <2>3, TasksAdded
<1>4. ASSUME Joined(d) PROVE KInv'
  <2>1. Event(d, "joined") /\ UNCHANGED <<members, registered, my, kv, last, known, unrotated>>
    BY <1>4 DEF Joined, history
  <2>2. Head(inbox[d]).h \in Handles
    BY <2>1, EventKeeps DEF KInv, KEvent
  <2>3. tasks' = tasks \/ tasks' = tasks \cup {Post(d, my[d], {Head(inbox[d]).h}, FALSE)}
    BY <1>4 DEF Joined
  <2> QED
    BY <1>3, <2>1, <2>2, <2>3
<1>5. ASSUME GskArrives(d) PROVE KInv'
  BY <1>3, <1>5 DEF GskArrives
<1>6. ASSUME DeviceAdded(d) PROVE KInv'
  <2>1. Event(d, "device") /\ UNCHANGED <<members, registered, my, kv, last, known, unrotated>>
    BY <1>6 DEF DeviceAdded, history
  <2>2. Head(inbox[d]).h \in Handles
    BY <2>1, EventKeeps DEF KInv, KEvent
  <2>3. \/ tasks' = tasks
        \/ tasks' = tasks \cup {Post(d, my[d], {Head(inbox[d]).h}, FALSE)}
        \/ tasks' = tasks \cup {Post(d, my[d], {}, TRUE)}
    BY <1>6 DEF DeviceAdded
  <2> QED
    BY <1>3, <2>1, <2>2, <2>3
<1>7. ASSUME OtherLeft(d) PROVE KInv'
  <2> DEFINE n == [dev |-> d, op |-> "list", h |-> Head(inbox[d]).h]
  <2>1. /\ Event(d, "left") /\ UNCHANGED <<members, registered, my, kv, last, known, unrotated>>
        /\ tasks' = tasks \cup (IF my[d] = None THEN {} ELSE {n})
    BY <1>7 DEF OtherLeft, history
  <2>2. /\ inbox' \in [Devices -> Seq(KEvent)] /\ Head(inbox[d]) \in KEvent /\ Head(inbox[d]).e = "left"
        /\ \A x \in Devices : x # d => (Told(x) => Told(x)')
    BY <2>1, EventKeeps DEF KInv
  <2>3. Head(inbox[d]).h \in Handles
    BY <2>2 DEF KEvent
  <2>4. n \in KTask /\ n.dev = d /\ n.op = "list"
    BY <2>3 DEF KTask
  <2> HIDE DEF n
  <2>5. KTypes'
    BY <2>1, <2>2, <2>4 DEF KInv, KTypes
  <2>6. KeysOwned'
    BY <2>1, <2>4 DEF KInv, KeysOwned, HasKey
  <2>7. Guarded'
    BY <2>1, <2>2, <2>4 DEF KInv, Guarded, Renews, Holders, Readers
  <2> QED
    BY <2>5, <2>6, <2>7 DEF KInv
<1>8. ASSUME RequestArrives(d) PROVE KInv'
  <2>1. Event(d, "request") /\ UNCHANGED <<members, registered, my, kv, known, unrotated>>
    BY <1>8 DEF RequestArrives, history
  <2>2. /\ inbox' \in [Devices -> Seq(KEvent)] /\ Head(inbox[d]) \in KEvent /\ Head(inbox[d]).e = "request"
        /\ \A x \in Devices : Told(x) => Told(x)'
    BY <2>1, EventKeeps DEF KInv
  <2>3. {Head(inbox[d]).h} \in SUBSET Handles
    BY <2>2 DEF KEvent
  <2>4. CASE my[d] # None
    <3>1. tasks' = tasks \cup {Post(d, my[d], {Head(inbox[d]).h}, FALSE)} /\ last' = last
      BY <1>8, <2>4 DEF RequestArrives
    <3> DEFINE n == Post(d, my[d], {Head(inbox[d]).h}, FALSE)
    <3>4. n \in KTask /\ n.dev = d /\ n.key = my[d]
      BY <1>1, <1>2, <2>3
    <3> HIDE DEF n
    <3>2. tasks' \subseteq KTask /\ \A t \in tasks' \ tasks : HasKey(t.dev, t.key)
      <4>1. tasks' = tasks \cup {n}
        BY <3>1 DEF n
      <4> QED
        BY <1>1, <3>4, <4>1 DEF KInv, KTypes
    <3>3. registered' \subseteq Devices
      BY <2>1 DEF KInv, KTypes
    <3> QED
      BY <2>1, <2>2, <3>1, <3>2, <3>3, TasksAdded
  <2>5. CASE my[d] = None
    <3>1. last' = last + 1 /\ tasks' = tasks \cup {Write(d, last', {Head(inbox[d]).h}, FALSE)}
      BY <1>8, <2>5 DEF RequestArrives
    <3> QED
      BY <2>1, <2>2, <2>3, <3>1, KeyMade
  <2> QED
    BY <2>4, <2>5
<1> QED
  BY <1>4, <1>5, <1>6, <1>7, <1>8, IWasRemovedKeeps DEF Handle

\* What becomes of a task.
LEMMA TaskKeeps ==
  ASSUME KInv, NEW t \in tasks, Task(t)
  PROVE  KInv'
<1>1. t \in KTask /\ t.dev \in Devices
  BY DEF KInv, KTypes, KTask
<1>2. ASSUME ListRead(t) PROVE KInv'
  <2>1. /\ last' = last + 1 /\ tasks' = (tasks \ {t}) \cup {Write(t.dev, last', members, TRUE)}
        /\ UNCHANGED <<members, registered, inbox, my, kv, known, unrotated>>
    BY <1>2 DEF ListRead, Becomes, history
  <2>2. inbox' \in [Devices -> Seq(KEvent)] /\ (\A d \in Devices : Told(d) => Told(d)') /\ members \in SUBSET Handles
    BY <2>1 DEF KInv, KTypes, Told, Queued
  <2> QED
    BY <1>1, <2>1, <2>2, KeyMade
<1>3. ASSUME tasks' = tasks \ {t}, unrotated \subseteq unrotated', t.op = "post" \/ t.dev \in unrotated',
             UNCHANGED <<members, registered, inbox, my, kv, last, known>>
      PROVE  KInv'
  <2>1. KTypes'
    BY <1>3 DEF KInv, KTypes
  <2>2. \A d \in Devices : Told(d) \/ Renews(d) => Told(d)' \/ Renews(d)' \/ d \in unrotated'
    BY <1>3 DEF Told, Queued, Renews
  <2>3. \A d \in Devices, k \in Nat \ {None} : HasKey(d, k)' => HasKey(d, k)
    BY <1>3 DEF HasKey
  <2>4. last <= last'
    BY <1>3 DEF KInv, KTypes
  <2> QED
    BY <1>1, <1>3, <2>1, <2>2, <2>3, <2>4, KeysStand
<1>4. ASSUME ListFails(t) \/ PostFails(t) PROVE KInv'
  BY <1>3, <1>4 DEF ListFails, PostFails, Becomes
<1> QED
  BY <1>2, <1>4, KeyWrittenKeeps, PostedKeeps DEF Task

\* Every step on the sender keys keeps the invariant.
LEMMA KInvNext ==
  ASSUME KInv, [Next]_gkeys
  PROVE  KInv'
<1>1. ASSUME NEW h \in Handles, Leave(h) \/ Remove(h) \/ Expire(h) \/ Invite(h) PROVE KInv'
  BY <1>1, GoesKeeps, InviteKeeps DEF Leave, Remove, Expire
<1>2. ASSUME UNCHANGED <<members, my, kv, tasks, last, known, unrotated>>, registered' \subseteq Devices,
             inbox' \in [Devices -> Seq(KEvent)], \A d \in Devices : Told(d) => Told(d)'
      PROVE  KInv'
  <2>1. tasks \subseteq tasks' /\ tasks' \subseteq KTask /\ tasks' \ tasks = {}
    BY <1>2 DEF KInv, KTypes
  <2> QED
    BY <1>2, <2>1, TasksAdded
<1>3. ASSUME NEW d \in Devices, AddDevice(d) PROVE KInv'
  <2>1. PICK C \in Earlier : inbox' = Pushed(Of(C \cup {d[1]}), [e |-> "device", h |-> d[1]])
    BY <1>3 DEF AddDevice
  <2>2. [e |-> "device", h |-> d[1]] \in KEvent
    BY DeviceOwner DEF KEvent
  <2>3. UNCHANGED <<members, my, kv, tasks, last, known, unrotated>> /\ registered' = registered \cup {d}
    BY <1>3 DEF AddDevice
  <2>4. registered' \subseteq Devices
    BY <2>3 DEF KInv, KTypes
  <2>5. inbox' \in [Devices -> Seq(KEvent)] /\ \A x \in Devices : Told(x) => Told(x)'
    BY <2>1, <2>2, PushKeeps DEF KInv
  <2> QED
    BY <1>2, <2>3, <2>4, <2>5
<1>4. ASSUME NEW d \in Devices, Disconnect(d) \/ Connect(d) \/ UNCHANGED gkeys PROVE KInv'
  <2>1. UNCHANGED <<members, registered, inbox, my, kv, tasks, last, known, unrotated>>
    BY <1>4 DEF Disconnect, Connect, gkeys, code, history
  <2> QED
    BY <1>2, <2>1 DEF KInv, KTypes, Told, Queued
<1>5. ASSUME NEW d \in Devices, NEW h \in Handles, Request(d, h) PROVE KInv'
  <2>1. /\ inbox' = Pushed(Of({h}), [e |-> "request", h |-> d[1]])
        /\ UNCHANGED <<members, registered, my, kv, tasks, last, known, unrotated>>
    BY <1>5 DEF Request, history
  <2>2. [e |-> "request", h |-> d[1]] \in KEvent
    BY DeviceOwner DEF KEvent
  <2>3. inbox' \in [Devices -> Seq(KEvent)] /\ \A x \in Devices : Told(x) => Told(x)'
    BY <2>1, <2>2, PushKeeps DEF KInv
  <2> QED
    BY <1>2, <2>1, <2>3 DEF KInv, KTypes
<1>6. ASSUME NEW d \in Devices, Ensure(d) PROVE KInv'
  <2>1. /\ UNCHANGED <<members, registered, inbox, my, kv, known, unrotated>>
        /\ \/ tasks' = tasks \cup {Write(d, kv[d], {}, FALSE)} /\ last' = last
           \/ last' = last + 1 /\ tasks' = tasks \cup {Write(d, last', members, TRUE)}
    BY <1>6 DEF Ensure
  <2>2. /\ inbox' \in [Devices -> Seq(KEvent)] /\ registered' \subseteq Devices
        /\ \A x \in Devices : Told(x) => Told(x)'
    BY <2>1 DEF KInv, KTypes, Told, Queued
  <2>3. CASE tasks' = tasks \cup {Write(d, kv[d], {}, FALSE)} /\ last' = last
    <3> DEFINE n == Write(d, kv[d], {}, FALSE)
    <3>1. n \in KTask /\ n.dev = d /\ n.key = kv[d] /\ HasKey(d, kv[d])
      BY DEF Write, KTask, HasKey, KInv, KTypes
    <3> HIDE DEF n
    <3>2. tasks' \subseteq KTask /\ \A t \in tasks' \ tasks : HasKey(t.dev, t.key)
      <4>1. tasks' = tasks \cup {n}
        BY <2>3 DEF n
      <4> QED
        BY <3>1, <4>1 DEF KInv, KTypes
    <3> QED
      BY <2>1, <2>2, <2>3, <3>2, TasksAdded
  <2>4. CASE last' = last + 1 /\ tasks' = tasks \cup {Write(d, last', members, TRUE)}
    <3>1. members \in SUBSET Handles
      BY DEF KInv, KTypes
    <3> QED
      BY <2>1, <2>2, <2>4, <3>1, KeyMade
  <2> QED
    BY <2>1, <2>3, <2>4
<1>7. ASSUME UNCHANGED gkeys PROVE KInv'
  BY <1>2, <1>7 DEF gkeys, code, history, KInv, KTypes, Told, Queued
<1> QED
  BY <1>1, <1>3, <1>4, <1>5, <1>6, <1>7, HandleKeeps, TaskKeeps DEF Next, Membership

\* At first every key is known to members only.
LEMMA KInvInit == Init => KInv
<1> SUFFICES ASSUME Init PROVE KInv
  OBVIOUS
<1>1. PICK y \in Handles, z \in Handles, M \in SUBSET Handles :
        /\ y # z /\ y \in TwoDevices /\ {y, z} \subseteq M
        /\ members = M /\ registered = IF M = Handles THEN {d \in Devices : d[2] = 1} ELSE Devices
        /\ inbox = [d \in Devices |-> <<>>] /\ tasks = {} /\ last = 2
        /\ my = [d \in Devices |-> IF d = <<y, 1>> THEN 1 ELSE IF d = <<z, 1>> THEN 2 ELSE None]
        /\ kv = [d \in Devices |-> IF d \in registered /\ d[2] = 2 THEN my[<<d[1], 1>>] ELSE None]
        /\ known = {1, 2} \X M
  BY DEF Init
<1>2. \A d \in Devices : <<d[1], 1>> \in Devices
  BY DevicesAssumption DEF Devices
<1>3. \A d \in Devices : my[d] \in {0, 1, 2} /\ (my[d] = 1 => d[1] = y) /\ (my[d] = 2 => d[1] = z)
  BY <1>1 DEF None
<1>4. \A d \in Devices : kv[d] \in {0, 1, 2} /\ (kv[d] = 1 => d[1] = y) /\ (kv[d] = 2 => d[1] = z)
  <2> SUFFICES ASSUME NEW d \in Devices
               PROVE  kv[d] \in {0, 1, 2} /\ (kv[d] = 1 => d[1] = y) /\ (kv[d] = 2 => d[1] = z)
    OBVIOUS
  <2> DEFINE x == <<d[1], 1>>
  <2>1. kv[d] = 0 \/ kv[d] = my[x]
    BY <1>1 DEF None
  <2>2. x \in Devices /\ x[1] = d[1]
    BY <1>2
  <2> HIDE DEF x
  <2> QED
    BY <1>3, <2>1, <2>2
<1>5. KTypes
  <2>1. <<>> \in Seq(KEvent)
    OBVIOUS
  <2>2. my \in [Devices -> Nat] /\ kv \in [Devices -> Nat]
    BY <1>1, <1>3, <1>4 DEF None
  <2>3. registered \subseteq Devices /\ tasks \subseteq KTask /\ last \in Nat /\ members \subseteq Handles
    BY <1>1
  <2> QED
    BY <1>1, <2>1, <2>2, <2>3 DEF KTypes
<1>6. \A d \in Devices, k \in Nat \ {None} : HasKey(d, k) => k <= 2 /\ (k = 1 => d[1] = y) /\ (k = 2 => d[1] = z)
  BY <1>1, <1>3, <1>4 DEF HasKey, None
<1>7. KeysOwned
  <2> SUFFICES ASSUME NEW k \in Nat \ {None}, NEW d \in Devices, HasKey(d, k)
               PROVE  k <= last /\ \A x \in Devices : HasKey(x, k) => x[1] = d[1]
    BY DEF KeysOwned
  <2>1. k = 1 \/ k = 2
    BY <1>6 DEF None
  <2> QED
    BY <1>1, <1>6, <2>1
<1>8. Guarded
  <2> SUFFICES ASSUME NEW d \in Devices, my[d] # None PROVE Holders(my[d]) \subseteq Readers(d)
    BY DEF Guarded
  <2>1. d[1] \in members
    BY <1>1, <1>3 DEF None
  <2> QED
    BY <1>1, <2>1 DEF Holders, Readers
<1> QED
  BY <1>5, <1>7, <1>8 DEF KInv

\* Once a device has handled what it was told, nobody who has left was ever sent
\* the key it goes on sending with (App.svelte, memberLeaveHandler), unless it
\* was not told or got no member list: for any number of members, departures,
\* rotations under way and devices that come and go.
THEOREM FormerMemberHolds == Spec => []FormerMemberCannotRead
<1>1. KInv => FormerMemberCannotRead
  <2> SUFFICES ASSUME KInv, NEW d \in Devices, d[1] \in members, my[d] # None, Settled(d), d \notin unrotated
               PROVE  Holders(my[d]) \subseteq members
    BY DEF FormerMemberCannotRead
  <2>1. ~Told(d) /\ ~Renews(d)
    BY DEF Settled, Told, Queued, Renews
  <2> QED
    BY <2>1 DEF KInv, Guarded, Readers
<1> QED
  BY <1>1, KInvInit, KInvNext, PTL DEF Spec

-----------------------------------------------------------------------------
(* Sender keys: a wrong key has a cause                                     *)

\* A key of a member is on its way to a device.
ComesAsEvent(d, h) == \E ev \in Queued(d) : ev.e = "gsk" /\ ev.h = h
ComesAsPost(d, h) == \E t \in tasks : t.op = "post" /\ t.dev[1] = h /\ d \in Of(t.to)

\* A stored key is one its owner sends with, another is coming, or it went astray.
PeersMatch ==
  \A d \in Devices, h \in Handles : peer[d][h] # None =>
    \/ <<d, h>> \in astray \/ ComesAsEvent(d, h) \/ ComesAsPost(d, h)
    \/ \E x \in Of({h}) : my[x] = peer[d][h]

PInv == peer \in [Devices -> [Handles -> Nat]] /\ PeersMatch

\* The stored keys stand when they, the own keys and the posts under way do and
\* no event is taken.
LEMMA PeersStand ==
  ASSUME PInv, UNCHANGED <<my, peer>>, astray \subseteq astray',
         \A d \in Devices : Queued(d) \subseteq Queued(d)',
         \A t \in tasks \ tasks' : t.op # "post"
  PROVE  PInv'
<1>1. \A d \in Devices, h \in Handles : ComesAsEvent(d, h) => ComesAsEvent(d, h)'
  BY DEF ComesAsEvent
<1>2. \A d \in Devices, h \in Handles : ComesAsPost(d, h) => ComesAsPost(d, h)'
  BY DEF ComesAsPost, Of
<1> QED
  BY <1>1, <1>2 DEF PInv, PeersMatch, Of

\* The events a device handles: a key that comes is stored whatever it is.
LEMMA PeersHandled ==
  ASSUME KInv, PInv, NEW d \in Devices, Handle(d)
  PROVE  PInv'
<1>1. peer \in [Devices -> [Handles -> Nat]] /\ my \in [Devices -> Nat] /\ KTypes
  BY DEF PInv, KInv, KTypes
<1>2. ASSUME NEW kind, Event(d, kind), tasks \subseteq tasks'
      PROVE  /\ \A x \in Devices, h \in Handles :
                  ComesAsEvent(x, h) => ComesAsEvent(x, h)' \/ (x = d /\ kind = "gsk" /\ h = Head(inbox[d]).h)
             /\ \A x \in Devices, h \in Handles : ComesAsPost(x, h) => ComesAsPost(x, h)'
  <2>1. \A x \in Devices : Queued(x) \ (IF x = d THEN {Head(inbox[d])} ELSE {}) \subseteq Queued(x)'
    BY <1>1, <1>2, EventKeeps
  <2>2. Head(inbox[d]).e = kind
    BY <1>2 DEF Event
  <2>3. \A x \in Devices, h \in Handles : ComesAsPost(x, h) => ComesAsPost(x, h)'
    BY <1>2 DEF ComesAsPost, Of
  <2> QED
    BY <2>1, <2>2, <2>3 DEF ComesAsEvent
<1>3. ASSUME NEW kind, kind # "gsk", Event(d, kind), tasks \subseteq tasks', UNCHANGED <<my, peer, astray>>
      PROVE  PInv'
  <2>1. \A x \in Devices, h \in Handles : (ComesAsEvent(x, h) => ComesAsEvent(x, h)') /\ (ComesAsPost(x, h) => ComesAsPost(x, h)')
    BY <1>2, <1>3
  <2> QED
    BY <1>3, <2>1 DEF PInv, PeersMatch, Of
<1>4. ASSUME Joined(d) \/ RequestArrives(d) \/ DeviceAdded(d) PROVE PInv'
  <2>1. PICK kind \in {"joined", "request", "device"} : Event(d, kind)
    BY <1>4 DEF Joined, RequestArrives, DeviceAdded
  <2>2. tasks \subseteq tasks' /\ UNCHANGED <<my, peer, astray>>
    BY <1>4 DEF Joined, RequestArrives, DeviceAdded, history
  <2> QED
    BY <1>3, <2>1, <2>2
<1>5. ASSUME IWasRemoved(d) PROVE PInv'
  <2>1. /\ Event(d, "left") /\ my' = [my EXCEPT ![d] = None]
        /\ peer' = [peer EXCEPT ![d] = [h \in Handles |-> None]]
        /\ astray' = astray \cup Pairs({x \in Devices : peer[x][d[1]] \in {my[d]} \ {None}}, d[1])
        /\ UNCHANGED tasks
    BY <1>5 DEF IWasRemoved
  <2>2. \A x \in Devices, h \in Handles : (ComesAsEvent(x, h) => ComesAsEvent(x, h)') /\ (ComesAsPost(x, h) => ComesAsPost(x, h)')
    BY <1>2, <2>1
  <2>3. peer' \in [Devices -> [Handles -> Nat]]
    BY <1>1, <2>1 DEF None
  <2>4. ASSUME NEW x \in Devices, NEW h \in Handles, peer'[x][h] # None, <<x, h>> \notin astray'
        PROVE  ComesAsEvent(x, h)' \/ ComesAsPost(x, h)' \/ \E y \in Of({h}) : my'[y] = peer'[x][h]
    <3>1. x # d /\ peer'[x] = peer[x]
      BY <1>1, <2>1, <2>4
    <3>2. CASE ComesAsEvent(x, h) \/ ComesAsPost(x, h)
      BY <2>2, <3>2
    <3>3. ASSUME NEW y \in Of({h}), my[y] = peer[x][h] PROVE my'[y] = peer'[x][h]
      <4>1. y \in Devices /\ y[1] = h
        BY DEF Of
      <4>2. y = d => <<x, h>> \in astray'
        BY <2>1, <2>4, <3>1, <3>3, <4>1 DEF Pairs
      <4> QED
        BY <1>1, <2>1, <2>4, <3>1, <3>3, <4>1, <4>2
    <3> QED
      BY <2>1, <2>4, <3>1, <3>2, <3>3 DEF PInv, PeersMatch
  <2> QED
    BY <2>3, <2>4 DEF PInv, PeersMatch, Of
<1>6. ASSUME OtherLeft(d) PROVE PInv'
  <2> DEFINE g == Head(inbox[d]).h
  <2>1. /\ Event(d, "left") /\ peer' = [peer EXCEPT ![d][g] = None] /\ tasks \subseteq tasks'
        /\ UNCHANGED <<my, astray>>
    BY <1>6 DEF OtherLeft, history
  <2>2. \A x \in Devices, h \in Handles : (ComesAsEvent(x, h) => ComesAsEvent(x, h)') /\ (ComesAsPost(x, h) => ComesAsPost(x, h)')
    BY <1>2, <2>1
  <2>3. g \in Handles
    BY <1>1, <2>1, EventKeeps DEF KEvent
  <2> HIDE DEF g
  <2>4. /\ peer' \in [Devices -> [Handles -> Nat]]
        /\ \A x \in Devices, h \in Handles : peer'[x][h] = None \/ peer'[x][h] = peer[x][h]
    BY <1>1, <2>1, <2>3 DEF None
  <2> QED
    BY <2>1, <2>2, <2>4 DEF PInv, PeersMatch, Of
<1>7. ASSUME GskArrives(d) PROVE PInv'
  <2> DEFINE g == Head(inbox[d]).h
             k == Head(inbox[d]).key
  <2>1. /\ Event(d, "gsk") /\ peer' = [peer EXCEPT ![d][g] = k]
        /\ astray' = IF \E x \in Of({g}) : my[x] = k THEN astray \ {<<d, g>>} ELSE astray \cup {<<d, g>>}
        /\ UNCHANGED <<my, tasks>>
    BY <1>7 DEF GskArrives, Stored
  <2>2. \A x \in Devices, h \in Handles : x # d \/ h # g =>
          (ComesAsEvent(x, h) => ComesAsEvent(x, h)') /\ (ComesAsPost(x, h) => ComesAsPost(x, h)')
    BY <1>2, <2>1
  <2>3. g \in Handles /\ k \in Nat
    BY <1>1, <2>1, EventKeeps DEF KEvent
  <2> HIDE DEF g, k
  <2>4. /\ peer' \in [Devices -> [Handles -> Nat]] /\ peer'[d][g] = k
        /\ \A x \in Devices, h \in Handles : x # d \/ h # g => peer'[x][h] = peer[x][h]
    BY <1>1, <2>1, <2>3
  <2>5. \A x \in Devices, h \in Handles : x # d \/ h # g => (<<x, h>> \in astray => <<x, h>> \in astray')
    BY <2>1
  <2>6. <<d, g>> \in astray' \/ \E x \in Of({g}) : my[x] = peer'[d][g]
    BY <2>1, <2>4
  <2> QED
    BY <2>1, <2>2, <2>4, <2>5, <2>6 DEF PInv, PeersMatch, Of
<1> QED
  BY <1>4, <1>5, <1>6, <1>7 DEF Handle

\* A key that replaces another is posted to the others, reaches them or goes astray.
LEMMA PeersTask ==
  ASSUME KInv, PInv, NEW t \in tasks, Task(t)
  PROVE  PInv'
<1>1. /\ peer \in [Devices -> [Handles -> Nat]] /\ my \in [Devices -> Nat] /\ KTypes /\ t \in KTask /\ t.dev \in Devices
      /\ t.dev[1] \in Handles
  BY DeviceOwner DEF PInv, KInv, KTypes, KTask
<1>2. ASSUME ListRead(t) \/ ListFails(t) PROVE PInv'
  <2>1. /\ t.op = "list" /\ tasks \ tasks' \subseteq {t} /\ UNCHANGED <<my, peer, inbox, astray>>
    BY <1>2 DEF ListRead, ListFails, Becomes, history
  <2> QED
    BY <2>1, PeersStand DEF Queued
<1>3. ASSUME KeyWritten(t) PROVE PInv'
  <2> DEFINE n == Post(t.dev, t.key, t.to, t.own)
             g == t.dev[1]
  <2>1. /\ t.op = "write" /\ my' = [my EXCEPT ![t.dev] = t.key] /\ tasks' = (tasks \ {t}) \cup {n}
        /\ astray' = astray \cup {<<d, g>> : d \in {x \in Of(Handles \ t.to) : peer[x][g] # t.key}}
        /\ UNCHANGED <<inbox, peer>>
    BY <1>3 DEF KeyWritten, Becomes
  <2>2. n.op = "post" /\ n.dev = t.dev /\ n.to = t.to
    BY DEF Post
  <2> HIDE DEF n
  <2>3. \A d \in Devices, h \in Handles : (ComesAsEvent(d, h) => ComesAsEvent(d, h)') /\ (ComesAsPost(d, h) => ComesAsPost(d, h)')
    BY <2>1 DEF ComesAsEvent, ComesAsPost, Queued, Of
  <2>4. \A d \in Devices : d \in Of(t.to) => ComesAsPost(d, g)'
    BY <2>1, <2>2 DEF ComesAsPost, Of
  <2>5. my'[t.dev] = t.key /\ \A x \in Devices : x # t.dev => my'[x] = my[x]
    BY <1>1, <2>1
  <2>6. \A d \in Devices : d \notin Of(t.to) => d \in Of(Handles \ t.to)
    BY DeviceOwner DEF Of
  <2>7. ASSUME NEW d \in Devices, NEW h \in Handles, peer[d][h] # None, <<d, h>> \notin astray'
        PROVE  ComesAsEvent(d, h)' \/ ComesAsPost(d, h)' \/ \E y \in Of({h}) : my'[y] = peer[d][h]
    <3>1. CASE h # g
      BY <2>1, <2>3, <2>5, <2>7, <3>1 DEF PInv, PeersMatch, Of
    <3>2. CASE h = g
      <4>1. d \in Of(t.to) \/ peer[d][g] = t.key
        BY <2>1, <2>6, <2>7, <3>2
      <4>2. t.dev \in Of({h})
        BY <1>1, <3>2 DEF Of
      <4> QED
        BY <2>4, <2>5, <3>2, <4>1, <4>2
    <3> QED
      BY <3>1, <3>2
  <2> QED
    BY <1>1, <2>1, <2>7 DEF PInv, PeersMatch, Of
<1>4. ASSUME Posted(t) PROVE PInv'
  <2> DEFINE reach == Of(Accepted(t)) \cap t.devs \cap online
             g == t.dev[1]
             ev == [e |-> "gsk", h |-> g, key |-> t.key]
  <2>1. /\ t.op = "post" /\ tasks' = tasks \ {t} /\ inbox' = Pushed(reach, ev)
        /\ astray' = astray \cup Pairs(Of(t.to) \ reach, g) /\ UNCHANGED <<my, peer>>
    BY <1>4 DEF Posted, Becomes
  <2>2. ev \in KEvent
    BY <1>1, <2>1 DEF KEvent, KTask
  <2>3. ev.e = "gsk" /\ ev.h = g /\ reach \subseteq online
    OBVIOUS
  <2> HIDE DEF ev, reach
  <2>4. \A d \in Devices : Queued(d)' = Queued(d) \cup (IF d \in reach \cap online THEN {ev} ELSE {})
    BY <1>1, <2>1, <2>2, PushKeeps
  <2>5. /\ \A d \in Devices, h \in Handles : ComesAsEvent(d, h) => ComesAsEvent(d, h)'
        /\ \A d \in Devices : d \in reach => ComesAsEvent(d, g)'
    BY <2>3, <2>4 DEF ComesAsEvent
  <2>6. \A d \in Devices, h \in Handles : ComesAsPost(d, h) => ComesAsPost(d, h)' \/ (h = g /\ d \in Of(t.to))
    BY <2>1 DEF ComesAsPost, Of
  <2>7. \A d \in Devices : d \in Of(t.to) => d \in reach \/ <<d, g>> \in astray'
    BY <2>1 DEF Pairs
  <2> QED
    BY <1>1, <2>1, <2>5, <2>6, <2>7 DEF PInv, PeersMatch, Of
<1>5. ASSUME PostFails(t) PROVE PInv'
  <2>1. /\ t.op = "post" /\ tasks' = tasks \ {t} /\ astray' = astray \cup Pairs(Of(t.to), t.dev[1])
        /\ UNCHANGED <<my, peer, inbox>>
    BY <1>5 DEF PostFails, Becomes
  <2>2. \A d \in Devices, h \in Handles : ComesAsEvent(d, h) => ComesAsEvent(d, h)'
    BY <2>1 DEF ComesAsEvent, Queued
  <2>3. \A d \in Devices, h \in Handles : ComesAsPost(d, h) => ComesAsPost(d, h)' \/ <<d, h>> \in astray'
    BY <2>1 DEF ComesAsPost, Pairs, Of
  <2> QED
    BY <2>1, <2>2, <2>3 DEF PInv, PeersMatch, Of
<1> QED
  BY <1>2, <1>3, <1>4, <1>5 DEF Task

\* Every step on the sender keys keeps the stored keys explained.
LEMMA PInvNext ==
  ASSUME KInv, PInv, [Next]_gkeys
  PROVE  PInv'
<1>1. KTypes
  BY DEF KInv
<1>2. ASSUME NEW D, NEW ev \in KEvent, inbox' = Pushed(D, ev), UNCHANGED <<my, peer, tasks>>, astray \subseteq astray'
      PROVE  PInv'
  <2>1. \A d \in Devices : Queued(d) \subseteq Queued(d)'
    BY <1>1, <1>2, PushKeeps
  <2> QED
    BY <1>2, <2>1, PeersStand
<1>3. \A h \in Handles : /\ [e |-> "left", h |-> h] \in KEvent /\ [e |-> "joined", h |-> h] \in KEvent
                         /\ [e |-> "device", h |-> h] \in KEvent /\ [e |-> "request", h |-> h] \in KEvent
  BY DEF KEvent
<1>4. ASSUME NEW h \in Handles, Leave(h) \/ Remove(h) \/ Expire(h) PROVE PInv'
  <2>1. PICK D : Goes(h, D)
    BY <1>4 DEF Leave, Remove, Expire
  <2>2. inbox' = Pushed(D, [e |-> "left", h |-> h]) /\ UNCHANGED <<my, peer, tasks, astray>>
    BY <2>1 DEF Goes
  <2> QED
    BY <1>2, <1>3, <2>2
<1>5. ASSUME NEW h \in Handles, Invite(h) PROVE PInv'
  <2>1. inbox' = Pushed(Of(members'), [e |-> "joined", h |-> h]) /\ UNCHANGED <<my, peer, tasks>> /\ astray \subseteq astray'
    BY <1>5 DEF Invite
  <2> QED
    BY <1>2, <1>3, <2>1
<1>6. ASSUME NEW d \in Devices, AddDevice(d) PROVE PInv'
  <2>1. PICK C \in Earlier : inbox' = Pushed(Of(C \cup {d[1]}), [e |-> "device", h |-> d[1]]) /\ astray \subseteq astray'
    BY <1>6 DEF AddDevice
  <2>2. UNCHANGED <<my, peer, tasks>>
    BY <1>6 DEF AddDevice
  <2> QED
    BY <1>2, <1>3, <2>1, <2>2, DeviceOwner
<1>7. ASSUME NEW d \in Devices, NEW h \in Handles, Request(d, h) PROVE PInv'
  <2>1. inbox' = Pushed(Of({h}), [e |-> "request", h |-> d[1]]) /\ UNCHANGED <<my, peer, tasks, astray>>
    BY <1>7 DEF Request, history
  <2> QED
    BY <1>2, <1>3, <2>1, DeviceOwner
<1>8. ASSUME UNCHANGED <<inbox, my, peer, astray>>, tasks \subseteq tasks' PROVE PInv'
  BY <1>8, PeersStand DEF Queued
<1>9. ASSUME NEW d \in Devices, Disconnect(d) \/ Connect(d) \/ Ensure(d) PROVE PInv'
  <2>1. UNCHANGED <<inbox, my, peer, astray>> /\ tasks \subseteq tasks'
    BY <1>9 DEF Disconnect, Connect, Ensure, history
  <2> QED
    BY <1>8, <2>1
<1>10. ASSUME UNCHANGED gkeys PROVE PInv'
  BY <1>8, <1>10 DEF gkeys, code, history
<1> QED
  BY <1>4, <1>5, <1>6, <1>7, <1>9, <1>10, PeersHandled, PeersTask DEF Next, Membership

\* At first the stored keys are those their owners send with.
LEMMA PInvInit == Init => PInv
<1> SUFFICES ASSUME Init PROVE PInv
  OBVIOUS
<1>1. PICK M \in SUBSET Handles :
        peer = [d \in Devices |-> [h \in Handles |-> IF d \notin registered \cap Of(M \ {h}) THEN None ELSE my[<<h, 1>>]]]
  BY DEF Init
<1>2. \A h \in Handles : <<h, 1>> \in Of({h})
  BY DEF Of, Devices
<1>3. \A h \in Handles : my[<<h, 1>>] \in Nat
  BY <1>2, KInvInit DEF KInv, KTypes, Of
<1>4. peer \in [Devices -> [Handles -> Nat]]
  BY <1>1, <1>3 DEF None
<1>5. \A d \in Devices, h \in Handles : peer[d][h] = None \/ peer[d][h] = my[<<h, 1>>]
  BY <1>1
<1> QED
  BY <1>2, <1>4, <1>5 DEF PInv, PeersMatch

\* When nothing is under way, a stored key of another member is one it sends with
\* (handleIncomingGSKMessage), unless the newer key went missing or was
\* overtaken, its owner dropped it, or two devices of that member have different keys.
THEOREM WrongKeyHolds == Spec => []WrongKeyHasACause
<1>1. KInv /\ PInv => WrongKeyHasACause
  <2> SUFFICES ASSUME KInv, PInv, Quiet, NEW d \in Devices, NEW x \in Devices, my[x] # None,
                      peer[d][x[1]] \notin {None, my[x]}
               PROVE  <<d, x[1]>> \in astray \/ \E y \in Of({x[1]}) : my[y] \notin {None, my[x]}
    BY DEF WrongKeyHasACause
  <2>1. ~ComesAsEvent(d, x[1]) /\ ~ComesAsPost(d, x[1])
    BY DEF Quiet, ComesAsEvent, ComesAsPost, Queued
  <2>2. x[1] \in Handles
    BY DeviceOwner
  <2> QED
    BY <2>1, <2>2 DEF PInv, PeersMatch
<1>2. Init => KInv /\ PInv
  BY KInvInit, PInvInit
<1>3. KInv /\ PInv /\ [Next]_gkeys => (KInv /\ PInv)'
  BY KInvNext, PInvNext
<1> QED
  BY <1>1, <1>2, <1>3, PTL DEF Spec
=============================================================================

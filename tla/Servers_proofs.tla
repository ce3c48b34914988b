------------------------------ MODULE Servers_proofs ------------------------------
(***************************************************************************)
(* What is proved of a server, its members, roles and readers (Servers), of  *)
(* the sender keys of a channel (ChannelKeys) and of its rows and files       *)
(* (Contents).                                                               *)
(***************************************************************************)
EXTENDS MCBackend, Sequences, FiniteSetTheorems, WellFoundedInduction, TLAPS

(***************************************************************************)
(* A finite set of numbers has a greatest element.                          *)
(***************************************************************************)
LEMMA LeastNatural ==
  ASSUME NEW S \in SUBSET Nat, S # {}
  PROVE  \E x \in S : \A y \in S : x <= y
<1>1. PICK x \in S : \A y \in S : ~(<<y, x>> \in OpToRel(<, Nat))
  BY NatLessThanWellFounded, WFMin
<1>2. \A y \in S : ~(y < x)
  BY <1>1 DEF OpToRel
<1>3. \A y \in S : y \in Nat /\ x \in Nat
  OBVIOUS
<1> QED BY <1>2, <1>3

LEMMA FiniteHasGreatest ==
  ASSUME NEW S \in SUBSET Nat, S # {}, IsFiniteSet(S)
  PROVE  \E x \in S : \A y \in S : y <= x
<1> DEFINE Top(T) == \E x \in T : \A y \in T : y <= x
           Sizes == {Cardinality(T) : T \in {T \in SUBSET S : T # {} /\ ~Top(T)}}
<1> SUFFICES ASSUME ~Top(S) PROVE FALSE
  OBVIOUS
<1>1. \A T \in SUBSET S : IsFiniteSet(T) /\ Cardinality(T) \in Nat
  BY FS_Subset, FS_CardinalityType
<1>2. Sizes \in SUBSET Nat /\ Sizes # {}
  BY <1>1
<1>3. PICK n \in Sizes : \A k \in Sizes : n <= k
  BY <1>2, LeastNatural
<1>4. PICK T \in SUBSET S : T # {} /\ ~Top(T) /\ n = Cardinality(T)
  BY <1>3
<1>5. PICK x \in T : TRUE
  BY <1>4
<1>6. IsFiniteSet(T \ {x}) /\ Cardinality(T \ {x}) = n - 1 /\ n \in Nat
  BY <1>1, <1>4, <1>5, FS_RemoveElement
<1>7. T \ {x} = {} \/ Top(T \ {x})
  <2> SUFFICES ASSUME T \ {x} # {}, ~Top(T \ {x}) PROVE FALSE
    OBVIOUS
  <2>1. Cardinality(T \ {x}) \in Sizes
    OBVIOUS
  <2>2. n <= n - 1
    BY <2>1, <1>3, <1>6
  <2> QED BY <2>2, <1>6
<1>8. CASE T \ {x} = {}
  <2>1. \A y \in T : y <= x
    BY <1>8
  <2> QED BY <2>1, <1>4
<1>9. CASE Top(T \ {x})
  <2>1. PICK z \in T \ {x} : \A y \in T \ {x} : y <= z
    BY <1>9
  <2>2. x \in Nat /\ z \in Nat /\ \A y \in T : y \in Nat
    BY <1>4
  <2>3. CASE x <= z
    <3>1. \A y \in T : y <= z
      BY <2>1, <2>3
    <3> QED BY <3>1, <1>4, <2>1
  <2>4. CASE z <= x
    <3>1. \A y \in T : y <= x
      BY <2>1, <2>2, <2>4
    <3> QED BY <3>1, <1>4
  <2> QED BY <2>2, <2>3, <2>4
<1> QED BY <1>7, <1>8, <1>9

\* The highest of a set of role positions.
LEMMA HighestPosition ==
  ASSUME NEW P \in SUBSET (Positions \cup {0, 2})
  PROVE  Max0(P) \in Nat /\ (\A p \in P : p <= Max0(P)) /\ (Max0(P) = 0 \/ Max0(P) \in P)
<1>1. CASE P = {}
  BY <1>1 DEF Max0
<1>2. CASE P # {}
  <2>1. IsFiniteSet(Positions \cup {0, 2})
    <3>1. IsFiniteSet({0}) /\ IsFiniteSet({2})
      BY FS_Singleton
    <3>2. IsFiniteSet(Positions \cup {0})
      BY <3>1, FS_Union, ServersAssumption
    <3>3. IsFiniteSet((Positions \cup {0}) \cup {2})
      BY <3>1, <3>2, FS_Union
    <3>4. (Positions \cup {0}) \cup {2} = Positions \cup {0, 2}
      OBVIOUS
    <3> QED BY <3>3, <3>4
  <2>2. P \in SUBSET Nat
    BY ServersAssumption
  <2>3. PICK x \in P : \A y \in P : y <= x
    BY <1>2, <2>1, <2>2, FS_Subset, FiniteHasGreatest
  <2>4. Max0(P) \in P /\ \A y \in P : y <= Max0(P)
    BY <1>2, <2>3 DEF Max0
  <2> QED BY <2>2, <2>4
<1> QED BY <1>1, <1>2

(***************************************************************************)
(* The tables have their shapes, and requests name what they are about.     *)
(***************************************************************************)
Form(q) ==
  /\ q \in [op : Operations, by : Users, to : Users \cup Roles \cup {None}, role : Roles \cup {None},
            pos : Positions \cup {0}, allow : SUBSET Perms, deny : SUBSET Perms, stage : {"write", "purge"}]
  /\ q.op \in {"transfer", "kick", "ban", "unban", "assign", "revoke"} => q.to \in Users
  /\ q.op \in {"assign", "revoke", "createRole", "moveRole", "editRole", "deleteRole"} => q.role \in Roles
  /\ q.op \in {"override", "clear"} => q.to \in Users \cup Roles
  /\ q.op = "clear" => q.allow = {} /\ q.deny = {}

LEMMA RequestsForm == \A q \in Requests : Form(q) /\ q.stage = "write"
<1> SUFFICES ASSUME NEW q \in Requests PROVE Form(q) /\ q.stage = "write"
  OBVIOUS
<1>0. /\ \A p \in Positions : p \in Positions \cup {0}
      /\ 0 \in Positions \cup {0} /\ {} \in SUBSET Perms
      /\ \A k \in RoleKinds : k \in SUBSET Perms
      /\ \A o \in OverrideKinds : o[1] \in SUBSET Perms /\ o[2] \in SUBSET Perms
  BY ServersAssumption
<1>1. \/ \E op \in {"leave", "close", "uninvite"}, u \in Users : q = Request(op, u, None, None, 0, {}, {})
      \/ \E op \in {"transfer", "kick", "ban", "unban"}, u \in Users, t \in Users : q = Request(op, u, t, None, 0, {}, {})
      \/ \E op \in {"assign", "revoke"}, u \in Users, t \in Users, r \in Roles : q = Request(op, u, t, r, 0, {}, {})
      \/ \E u \in Users, r \in Roles : q = Request("deleteRole", u, None, r, 0, {}, {})
      \/ \E u \in Users, t \in Users \cup Roles : q = Request("clear", u, t, None, 0, {}, {})
      \/ \E op \in {"invite", "join"}, u \in Users, r \in Roles \cup {None} : q = Request(op, u, None, r, 0, {}, {})
      \/ \E u \in Users, r \in Roles, p \in Positions, k \in RoleKinds : q = Request("createRole", u, None, r, p, k, {})
      \/ \E u \in Users, r \in Roles, p \in Positions : q = Request("moveRole", u, None, r, p, {}, {})
      \/ \E u \in Users, r \in Roles, k \in RoleKinds : q = Request("editRole", u, None, r, 0, k, {})
      \/ \E u \in Users, t \in Users \cup Roles, o \in OverrideKinds : q = Request("override", u, t, None, 0, o[1], o[2])
      \/ \E u \in Users, k \in {{}, {"VIEW_CHANNEL"}} : q = Request("list", u, None, None, 0, k, {})
  BY DEF Requests
<1>2. ASSUME NEW op \in {"leave", "close", "uninvite"}, NEW u \in Users, q = Request(op, u, None, None, 0, {}, {})
      PROVE  Form(q) /\ q.stage = "write"
  BY <1>0, <1>2 DEF Operations, Form, Request
<1>3. ASSUME NEW op \in {"transfer", "kick", "ban", "unban"}, NEW u \in Users, NEW t \in Users,
             q = Request(op, u, t, None, 0, {}, {})
      PROVE  Form(q) /\ q.stage = "write"
  BY <1>0, <1>3 DEF Operations, Form, Request
<1>4. ASSUME NEW op \in {"assign", "revoke"}, NEW u \in Users, NEW t \in Users, NEW r \in Roles,
             q = Request(op, u, t, r, 0, {}, {})
      PROVE  Form(q) /\ q.stage = "write"
  BY <1>0, <1>4 DEF Operations, Form, Request
<1>5. ASSUME NEW u \in Users, NEW r \in Roles, q = Request("deleteRole", u, None, r, 0, {}, {})
      PROVE  Form(q) /\ q.stage = "write"
  BY <1>0, <1>5 DEF Operations, Form, Request
<1>6. ASSUME NEW u \in Users, NEW t \in Users \cup Roles, q = Request("clear", u, t, None, 0, {}, {})
      PROVE  Form(q) /\ q.stage = "write"
  BY <1>0, <1>6 DEF Operations, Form, Request
<1>7. ASSUME NEW op \in {"invite", "join"}, NEW u \in Users, NEW r \in Roles \cup {None},
             q = Request(op, u, None, r, 0, {}, {})
      PROVE  Form(q) /\ q.stage = "write"
  BY <1>0, <1>7 DEF Operations, Form, Request
<1>8. ASSUME NEW u \in Users, NEW r \in Roles, NEW p \in Positions, NEW k \in RoleKinds,
             q = Request("createRole", u, None, r, p, k, {})
      PROVE  Form(q) /\ q.stage = "write"
  BY <1>0, <1>8 DEF Operations, Form, Request
<1>9. ASSUME NEW u \in Users, NEW r \in Roles, NEW p \in Positions, q = Request("moveRole", u, None, r, p, {}, {})
      PROVE  Form(q) /\ q.stage = "write"
  BY <1>0, <1>9 DEF Operations, Form, Request
<1>10. ASSUME NEW u \in Users, NEW r \in Roles, NEW k \in RoleKinds, q = Request("editRole", u, None, r, 0, k, {})
       PROVE  Form(q) /\ q.stage = "write"
  BY <1>0, <1>10 DEF Operations, Form, Request
<1>11. ASSUME NEW u \in Users, NEW t \in Users \cup Roles, NEW o \in OverrideKinds,
              q = Request("override", u, t, None, 0, o[1], o[2])
       PROVE  Form(q) /\ q.stage = "write"
  BY <1>0, <1>11 DEF Operations, Form, Request
<1>12. ASSUME NEW u \in Users, NEW k \in {{}, {"VIEW_CHANNEL"}}, q = Request("list", u, None, None, 0, k, {})
       PROVE  Form(q) /\ q.stage = "write"
  <2>1. k \in SUBSET Perms
    BY DEF Perms
  <2> QED BY <1>0, <1>12, <2>1 DEF Operations, Form, Request
<1> QED BY <1>1, <1>2, <1>3, <1>4, <1>5, <1>6, <1>7, <1>8, <1>9, <1>10, <1>11, <1>12

Shape == TypeOK /\ \A q \in reqs : Form(q)

LEMMA RequestsKeep ==
  ASSUME \A q \in reqs : Form(q), NEW q \in reqs, GoesOn(q) \/ Returns(q)
  PROVE  \A x \in reqs' : Form(x)
<1>1. Form([q EXCEPT !.stage = "purge"])
  BY DEF Form
<1> QED BY <1>1 DEF GoesOn, Returns

LEMMA FormType ==
  ASSUME \A q \in reqs : Form(q)
  PROVE  reqs \subseteq [op : Operations, by : Users, to : Users \cup Roles \cup {None},
                         role : Roles \cup {None}, pos : Positions \cup {0},
                         allow : SUBSET Perms, deny : SUBSET Perms, stage : {"write", "purge"}]
BY DEF Form

\* The tables of members, roles and overrides, and the rest.
Tables ==
  /\ alive \in BOOLEAN /\ member \subseteq Users /\ owner \subseteq member
  /\ role \in [Roles -> [on : BOOLEAN, pos : Positions \cup {0, 2}, perms : SUBSET Perms]]
  /\ assigned \subseteq Users \X Roles
  /\ over \in [Users \cup Roles -> [allow : SUBSET Perms, deny : SUBSET Perms]]
  /\ banned \subseteq Users
  /\ invite \in [on : BOOLEAN, made : BOOLEAN, role : Roles \cup {None}, uses : Nat]
Lists ==
  /\ recipients \in (SUBSET Users) \cup {None} /\ fill \in (SUBSET Users) \cup {None}
  /\ listed \in [Users -> BOOLEAN \cup {None}] /\ outdated \subseteq Users
  /\ causes \subseteq Operations \cup ListCauses
  /\ ops \subseteq Operations /\ acts \in Nat

LEMMA ShapeSplit == Shape <=> Tables /\ Lists /\ \A q \in reqs : Form(q)
BY FormType DEF Shape, TypeOK, Tables, Lists

LEMMA WriteTables ==
  ASSUME Tables, NEW q \in reqs, Form(q), Writes(q) PROVE Tables'
<1>0. /\ q.by \in Users /\ q.allow \in SUBSET Perms /\ q.deny \in SUBSET Perms /\ q.role \in Roles \cup {None}
      /\ q.pos \in Positions \cup {0, 2} /\ q.to \in Users \cup Roles \cup {None}
      /\ NoOverride \in [allow : SUBSET Perms, deny : SUBSET Perms]
      /\ Everyone \in Roles
  BY ServersAssumption DEF Form, NoOverride
<1>1. ASSUME NEW u \in Users, Removes(u), UNCHANGED <<alive, role, invite>>, banned' \in {banned, banned \cup {u}}
      PROVE  Tables'
  BY <1>0, <1>1 DEF Tables, Removes
<1>a. CASE leaveServer(q)
  BY <1>0, <1>1, <1>a DEF leaveServer
<1>b. CASE closeServer(q)
  <2>1. role' \in [Roles -> [on : BOOLEAN, pos : Positions \cup {0, 2}, perms : SUBSET Perms]]
    <3>1. \A r \in Roles : [role[r] EXCEPT !.on = FALSE] \in [on : BOOLEAN, pos : Positions \cup {0, 2}, perms : SUBSET Perms]
      BY DEF Tables
    <3> QED BY <3>1, <1>b DEF closeServer
  <2>2. invite' \in [on : BOOLEAN, made : BOOLEAN, role : Roles \cup {None}, uses : Nat]
    BY <1>b DEF closeServer, Tables
  <2> QED BY <2>1, <2>2, <1>b DEF closeServer, Tables
<1>c. CASE transferServer(q)
  BY <1>0, <1>c DEF transferServer, Tables
<1>d. CASE kickMember(q)
  <2>1. q.to \in Users
    BY <1>d DEF kickMember, Writing, Form
  <2> QED BY <2>1, <1>1, <1>d DEF kickMember
<1>e. CASE banMember(q)
  <2>1. q.to \in Users
    BY <1>e DEF banMember, Writing, Form
  <2> QED BY <2>1, <1>1, <1>e DEF banMember
<1>f. CASE banDetail(q)
  BY <1>f DEF banDetail, Tables
<1>g. CASE assignRole(q)
  <2>1. q.to \in Users /\ q.role \in Roles
    BY <1>g DEF assignRole, Writing, Form
  <2> QED BY <2>1, <1>g DEF assignRole, Tables
<1>h. CASE revokeRole(q)
  BY <1>h DEF revokeRole, Tables
<1>i. CASE createRole(q)
  <2>1. [on |-> TRUE, pos |-> q.pos, perms |-> q.allow] \in [on : BOOLEAN, pos : Positions \cup {0, 2}, perms : SUBSET Perms]
    BY <1>0
  <2> QED BY <2>1, <1>i DEF createRole, Tables
<1>j. CASE moveRole(q)
  <2>1. role' = role \/ role' = [role EXCEPT ![q.role].pos = q.pos]
    BY <1>j DEF moveRole
  <2>2. q.role \in Roles
    BY <1>j DEF moveRole, Writing, Form
  <2>3. [role[q.role] EXCEPT !.pos = q.pos] \in [on : BOOLEAN, pos : Positions \cup {0, 2}, perms : SUBSET Perms]
    BY <2>2, <1>0 DEF Tables
  <2>4. role' = role \/ role' = [role EXCEPT ![q.role] = [role[q.role] EXCEPT !.pos = q.pos]]
    BY <2>1
  <2>5. role' \in [Roles -> [on : BOOLEAN, pos : Positions \cup {0, 2}, perms : SUBSET Perms]]
    BY <2>2, <2>3, <2>4 DEF Tables
  <2>6. UNCHANGED <<alive, member, owner, assigned, over, banned, invite>>
    BY <1>j DEF moveRole
  <2> QED BY <2>5, <2>6 DEF Tables
<1>k. CASE editRole(q)
  <2>1. role' = role \/ role' = [role EXCEPT ![q.role].perms = q.allow]
    BY <1>k DEF editRole
  <2>2. q.role \in Roles
    BY <1>k DEF editRole, Writing, Form
  <2>3. [role[q.role] EXCEPT !.perms = q.allow] \in [on : BOOLEAN, pos : Positions \cup {0, 2}, perms : SUBSET Perms]
    BY <2>2, <1>0 DEF Tables
  <2>4. role' = role \/ role' = [role EXCEPT ![q.role] = [role[q.role] EXCEPT !.perms = q.allow]]
    BY <2>1
  <2>5. role' \in [Roles -> [on : BOOLEAN, pos : Positions \cup {0, 2}, perms : SUBSET Perms]]
    BY <2>2, <2>3, <2>4 DEF Tables
  <2>6. UNCHANGED <<alive, member, owner, assigned, over, banned, invite>>
    BY <1>k DEF editRole
  <2> QED BY <2>5, <2>6 DEF Tables
<1>l. CASE deleteRole(q)
  <2>1. role' \in [Roles -> [on : BOOLEAN, pos : Positions \cup {0, 2}, perms : SUBSET Perms]]
    <3>1. q.role \in Roles /\ role' = [role EXCEPT ![q.role].on = FALSE]
      BY <1>l DEF deleteRole, Writing, Form
    <3>2. \A r \in Roles : [role[r] EXCEPT !.on = FALSE] \in [on : BOOLEAN, pos : Positions \cup {0, 2}, perms : SUBSET Perms]
      BY DEF Tables
    <3>3. role' = [role EXCEPT ![q.role] = [role[q.role] EXCEPT !.on = FALSE]]
      BY <3>1
    <3> QED BY <3>1, <3>2, <3>3 DEF Tables
  <2> QED BY <2>1, <1>l DEF deleteRole, Tables
<1>m. CASE channelPermissions(q)
  <2>1. [allow |-> q.allow, deny |-> q.deny] \in [allow : SUBSET Perms, deny : SUBSET Perms]
    BY <1>0
  <2> QED BY <2>1, <1>m DEF channelPermissions, Tables
<1>n. CASE invites(q)
  <2>1. invite' \in [on : BOOLEAN, made : BOOLEAN, role : Roles \cup {None}, uses : Nat]
    BY <1>0, <1>n DEF invites
  <2> QED BY <2>1, <1>n DEF invites, Tables
<1>o. CASE inviteDelete(q)
  <2>1. invite' \in [on : BOOLEAN, made : BOOLEAN, role : Roles \cup {None}, uses : Nat]
    BY <1>o DEF inviteDelete, Tables
  <2> QED BY <2>1, <1>o DEF inviteDelete, Tables
<1>p. CASE joinByToken(q)
  <2>1. invite' = invite \/ invite' = [invite EXCEPT !.uses = invite.uses + 1]
    BY <1>p DEF joinByToken
  <2>2. invite' \in [on : BOOLEAN, made : BOOLEAN, role : Roles \cup {None}, uses : Nat]
    BY <2>1 DEF Tables
  <2>3. Grants(q) \subseteq Roles
    BY <1>0 DEF Grants
  <2> QED BY <2>2, <2>3, <1>0, <1>p DEF joinByToken, Tables
<1> QED BY <1>a, <1>b, <1>c, <1>d, <1>e, <1>f, <1>g, <1>h, <1>i, <1>j, <1>k, <1>l, <1>m, <1>n, <1>o, <1>p DEF Writes

LEMMA ViewersType == Tables => getChannelViewerHandles \in SUBSET Users
BY DEF Tables, getChannelViewerHandles

LEMMA WriteLists ==
  ASSUME Lists, NEW q \in reqs, Form(q), Writes(q), outdated' \subseteq Users PROVE Lists' /\ (GoesOn(q) \/ Returns(q))
<1>0. q.op \in Operations /\ (Marks(q) => causes' \subseteq Operations \cup ListCauses)
  BY DEF Form, Marks, Lists
<1>1. ASSUME Marks(q), UNCHANGED <<recipients, fill, listed, acts, ops>> PROVE Lists'
  BY <1>0, <1>1 DEF Lists
<1>a. CASE leaveServer(q)
  BY <1>1, <1>a DEF leaveServer
<1>b. CASE closeServer(q)
  BY <1>1, <1>b DEF closeServer
<1>c. CASE transferServer(q)
  <2>1. causes' \subseteq Operations \cup ListCauses
    BY <1>c DEF transferServer, Lists, Operations, ListCauses
  <2> QED BY <2>1, <1>c DEF transferServer, Lists
<1>d. CASE kickMember(q)
  BY <1>1, <1>d DEF kickMember
<1>e. CASE banMember(q)
  BY <1>1, <1>e DEF banMember
<1>f. CASE banDetail(q)
  BY <1>1, <1>f DEF banDetail
<1>g. CASE assignRole(q)
  BY <1>1, <1>g DEF assignRole
<1>h. CASE revokeRole(q)
  BY <1>1, <1>h DEF revokeRole
<1>i. CASE createRole(q)
  BY <1>1, <1>i DEF createRole
<1>j. CASE moveRole(q)
  BY <1>1, <1>j DEF moveRole
<1>k. CASE editRole(q)
  BY <1>1, <1>k DEF editRole
<1>l. CASE deleteRole(q)
  BY <1>1, <1>l DEF deleteRole
<1>m. CASE channelPermissions(q)
  BY <1>1, <1>m DEF channelPermissions
<1>n. CASE invites(q)
  BY <1>1, <1>n DEF invites
<1>o. CASE inviteDelete(q)
  BY <1>1, <1>o DEF inviteDelete
<1>p. CASE joinByToken(q)
  BY <1>1, <1>p DEF joinByToken
<1> QED BY <1>a, <1>b, <1>c, <1>d, <1>e, <1>f, <1>g, <1>h, <1>i, <1>j, <1>k, <1>l, <1>m, <1>n, <1>o, <1>p DEF Writes

tables == <<alive, member, owner, role, assigned, over, banned, invite>>

LEMMA ShapeNext == Shape /\ [Next]_vars => Shape'
<1> SUFFICES ASSUME Tables, Lists, \A q \in reqs : Form(q), [Next]_vars
             PROVE  Tables' /\ Lists' /\ \A q \in reqs' : Form(q)
  <2>1. Shape' <=> Tables' /\ Lists' /\ \A q \in reqs' : Form(q)
    BY FormType DEF Shape, TypeOK, Tables, Lists, Form
  <2> QED BY <2>1, ShapeSplit
<1>t. ASSUME UNCHANGED tables PROVE Tables'
  BY <1>t DEF tables, Tables
<1>o. Next => outdated' \subseteq Users
  BY DEF Next, Ages
<1>1. ASSUME NEW q \in Requests, Ask(q), Next PROVE Tables' /\ Lists' /\ \A x \in reqs' : Form(x)
  <2>1. UNCHANGED <<tables, recipients, fill, listed, causes, ops>> /\ acts \in Nat /\ acts > 0 /\ acts' = acts - 1
        /\ reqs' = reqs \cup {q}
    BY <1>1 DEF Ask, tables, Lists
  <2>2. Lists'
    BY <2>1, <1>1, <1>o DEF Lists
  <2> QED BY <2>1, <2>2, <1>t, RequestsForm
<1>2. ASSUME NEW q \in reqs, Writes(q), Next PROVE Tables' /\ Lists' /\ \A x \in reqs' : Form(x)
  BY <1>2, <1>o, WriteTables, WriteLists, RequestsKeep
<1>3. ASSUME NEW q \in reqs, Refused(q) \/ Purges(q) \/ ListPut(q), Next
      PROVE  Tables' /\ Lists' /\ \A x \in reqs' : Form(x)
  <2>1. UNCHANGED <<tables, fill, ops, acts>> /\ reqs' = reqs \ {q} /\ recipients' \in {recipients, None}
    BY <1>3 DEF Refused, Purges, Purge, PurgeFails, Drops, ListPut, Returns, tables
  <2>2. causes' \subseteq causes \cup ListCauses
    BY <1>3 DEF Refused, Purges, Purge, PurgeFails, Drops, ListPut, ListCauses
  <2>3. listed' \in [Users -> BOOLEAN \cup {None}]
    BY <1>3 DEF Refused, Purges, ListPut, Lists
  <2>4. Lists'
    BY <2>1, <2>2, <2>3, <1>3, <1>o DEF Lists
  <2> QED BY <2>1, <2>4, <1>t
<1>4. ASSUME FillRead \/ FillPut \/ Expire, Next PROVE Tables' /\ Lists' /\ \A x \in reqs' : Form(x)
  <2>1. UNCHANGED <<tables, listed, reqs, ops, acts>>
    BY <1>4 DEF FillRead, FillPut, Expire, tables
  <2>2. /\ recipients' \in {recipients, None, fill} /\ fill' \in {fill, None, getChannelViewerHandles}
        /\ causes' \subseteq causes \cup ListCauses
    BY <1>4 DEF FillRead, FillPut, Expire, Drops, ListCauses
  <2>3. Lists'
    BY <2>1, <2>2, <1>4, <1>o, ViewersType DEF Lists
  <2> QED BY <2>1, <2>3, <1>t
<1>5. ASSUME NEW u \in Users, ListExpire(u), Next PROVE Tables' /\ Lists' /\ \A x \in reqs' : Form(x)
  <2>1. UNCHANGED <<tables, recipients, fill, causes, reqs, ops, acts>> /\ listed' = [listed EXCEPT ![u] = None]
    BY <1>5 DEF ListExpire, tables
  <2>2. Lists'
    BY <2>1, <1>5, <1>o DEF Lists
  <2> QED BY <2>1, <2>2, <1>t
<1>6. CASE UNCHANGED vars
  BY <1>6, <1>t DEF vars, tables, Lists
<1> QED BY <1>1, <1>2, <1>3, <1>4, <1>5, <1>6 DEF Next, Step

LEMMA StartShape == Init => Shape /\ IsFiniteSet(member)
<1> SUFFICES ASSUME Init PROVE Shape /\ IsFiniteSet(member)
  OBVIOUS
<1>0. /\ First \in Users /\ Crowd \subseteq Users \ {First} /\ IsFiniteSet(Crowd) /\ Everyone \in Roles
      /\ Mod \in Roles \ {Everyone} /\ Chief \in Crowd /\ ModPerms \subseteq Perms
      /\ Families \subseteq (SUBSET Operations) \X Nat
  BY ServersAssumption
<1>1. PICK M \in SUBSET Crowd : Chief \in M /\ member = {First} \cup M
  BY DEF Init
<1>2. IsFiniteSet(member)
  <2>1. IsFiniteSet(M)
    BY <1>0, FS_Subset
  <2>2. IsFiniteSet({First})
    BY FS_Singleton
  <2> QED BY <1>1, <2>1, <2>2, FS_Union
<1>3. member \subseteq Users /\ owner \subseteq member
  BY <1>0, <1>1 DEF Init
<1>4. role \in [Roles -> [on : BOOLEAN, pos : Positions \cup {0, 2}, perms : SUBSET Perms]]
  <2>1. \A r \in Roles : (CASE r = Everyone -> {"VIEW_CHANNEL", "SEND_MESSAGES"}
                            [] r = Mod -> ModPerms [] OTHER -> {}) \in SUBSET Perms
    BY <1>0 DEF Perms
  <2>2. \A r \in Roles : (IF r = Mod THEN 2 ELSE 0) \in Positions \cup {0, 2} /\ (r \in {Everyone, Mod}) \in BOOLEAN
    OBVIOUS
  <2> QED BY <2>1, <2>2 DEF Init
<1>5. assigned \subseteq Users \X Roles
  BY <1>0, <1>3 DEF Init
<1>6. over \in [Users \cup Roles -> [allow : SUBSET Perms, deny : SUBSET Perms]]
  <2>1. NoOverrides \in [Users \cup Roles -> [allow : SUBSET Perms, deny : SUBSET Perms]]
    BY DEF NoOverrides, NoOverride
  <2>2. {"VIEW_CHANNEL"} \in SUBSET Perms
    BY DEF Perms
  <2>3. [allow |-> {}, deny |-> {"VIEW_CHANNEL"}] \in [allow : SUBSET Perms, deny : SUBSET Perms]
        /\ [allow |-> {"VIEW_CHANNEL"}, deny |-> {}] \in [allow : SUBSET Perms, deny : SUBSET Perms]
    BY <2>2
  <2>4. [NoOverrides EXCEPT ![Everyone].deny = {"VIEW_CHANNEL"}, ![Mod].allow = {"VIEW_CHANNEL"}]
          = [NoOverrides EXCEPT ![Everyone] = [allow |-> {}, deny |-> {"VIEW_CHANNEL"}],
                                ![Mod] = [allow |-> {"VIEW_CHANNEL"}, deny |-> {}]]
    <3> DEFINE E == [NoOverrides EXCEPT ![Everyone].deny = {"VIEW_CHANNEL"}]
    <3>1. NoOverrides[Everyone] = [allow |-> {}, deny |-> {}] /\ NoOverrides[Mod] = [allow |-> {}, deny |-> {}]
          /\ DOMAIN NoOverrides = Users \cup Roles /\ Everyone # Mod
      BY <1>0 DEF NoOverrides, NoOverride
    <3>2. [NoOverrides[Everyone] EXCEPT !.deny = {"VIEW_CHANNEL"}] = [allow |-> {}, deny |-> {"VIEW_CHANNEL"}]
          /\ [NoOverrides[Mod] EXCEPT !.allow = {"VIEW_CHANNEL"}] = [allow |-> {"VIEW_CHANNEL"}, deny |-> {}]
      BY <3>1
    <3>3. E = [NoOverrides EXCEPT ![Everyone] = [allow |-> {}, deny |-> {"VIEW_CHANNEL"}]]
      BY <3>2
    <3>4. E[Mod] = NoOverrides[Mod]
      BY <3>1, <3>3, <1>0
    <3>5. [E EXCEPT ![Mod].allow = {"VIEW_CHANNEL"}] = [E EXCEPT ![Mod] = [allow |-> {"VIEW_CHANNEL"}, deny |-> {}]]
      BY <3>4, <3>2
    <3> QED BY <3>3, <3>5
  <2>5. [NoOverrides EXCEPT ![Everyone] = [allow |-> {}, deny |-> {"VIEW_CHANNEL"}],
                            ![Mod] = [allow |-> {"VIEW_CHANNEL"}, deny |-> {}]]
          \in [Users \cup Roles -> [allow : SUBSET Perms, deny : SUBSET Perms]]
    BY <1>0, <2>1, <2>3
  <2> QED BY <2>1, <2>4, <2>5 DEF Init
<1>7. invite \in [on : BOOLEAN, made : BOOLEAN, role : Roles \cup {None}, uses : Nat]
  <2>1. Mod \in Roles \cup {None} /\ None \in Roles \cup {None} /\ TRUE \in BOOLEAN /\ FALSE \in BOOLEAN /\ 0 \in Nat
    BY <1>0
  <2>2. \/ invite = [on |-> FALSE, made |-> FALSE, role |-> None, uses |-> 0]
        \/ invite = [on |-> TRUE, made |-> TRUE, role |-> Mod, uses |-> 0]
    BY DEF Init
  <2>3. CASE invite = [on |-> FALSE, made |-> FALSE, role |-> None, uses |-> 0]
    BY <2>1, <2>3
  <2>4. CASE invite = [on |-> TRUE, made |-> TRUE, role |-> Mod, uses |-> 0]
    BY <2>1, <2>4
  <2> QED BY <2>2, <2>3, <2>4
<1>8. Lists
  <2>1. PICK f \in Families : ops = f[1] /\ acts = f[2]
    BY DEF Init
  <2>2. ops \subseteq Operations /\ acts \in Nat
    BY <2>1, <1>0
  <2> QED BY <2>2 DEF Init, Lists
<1>9. alive \in BOOLEAN /\ banned \subseteq Users /\ reqs = {}
  BY DEF Init
<1> QED BY <1>2, <1>3, <1>4, <1>5, <1>6, <1>7, <1>8, <1>9, ShapeSplit DEF Tables

\* What a request's reads say of an operation.
LEMMA ReadsOf ==
  ASSUME NEW q, Reads(q)
  PROVE  /\ alive
         /\ q.op = "leave" => leaveServerReads(q)
         /\ q.op = "transfer" => transferServerReads(q)
         /\ q.op = "kick" => kickMemberReads(q)
         /\ q.op = "ban" => banMemberReads(q)
         /\ q.op = "assign" => assignRoleReads(q)
         /\ q.op = "moveRole" => moveRoleReads(q)
         /\ q.op = "override" => channelPermissionsReads(q)
         /\ q.op = "join" => joinByTokenReads(q)
         /\ q.op = "list" => listReads(q)
BY DEF Reads, leaveServerReads, closeServerReads, transferServerReads, kickMemberReads, banMemberReads,
       banDetailReads, assignRoleReads, revokeRoleReads, createRoleReads, moveRoleReads, editRoleReads,
       deleteRoleReads, channelPermissionsReads, channelPermissionDetailReads, invitesReads,
       inviteDeleteReads, joinByTokenReads, listReads

\* Marks: an operation that is still not among the causes wrote on checks that held.
\* No cause is forgotten, except one of a list that is gone.
Recalled == causes \ ListCauses \subseteq causes'

LEMMA Checked ==
  ASSUME NEW q, Marks(q) PROVE Recalled /\ (q.op \notin causes' => Reads(q))
BY DEF Marks, Recalled

(***************************************************************************)
(* One owner.                                                               *)
(***************************************************************************)
Leavings == {"transfer", "leave", "close", "kick", "ban"}
OneOwner == alive /\ causes \cap Leavings = {} => \E o \in member : owner = {o}

LEMMA OneOwnerNext ==
  ASSUME Shape, OneOwner, [Next]_vars PROVE OneOwner'
<1> SUFFICES ASSUME alive', causes' \cap Leavings = {} PROVE \E o \in member' : owner' = {o}
  BY DEF OneOwner
<1>s. ASSUME UNCHANGED owner, member \subseteq member', Recalled, alive
      PROVE  \E o \in member' : owner' = {o}
  BY <1>s DEF OneOwner, Recalled, ListCauses, Leavings
<1>r. ASSUME NEW u, Removes(u), u \notin owner, Recalled, alive
      PROVE  \E o \in member' : owner' = {o}
  <2>1. PICK o \in member : owner = {o}
    BY <1>r DEF OneOwner, Recalled, ListCauses, Leavings
  <2> QED BY <2>1, <1>r DEF Removes
<1>1. ASSUME NEW q \in reqs, Writes(q) PROVE \E o \in member' : owner' = {o}
  <2>a. CASE leaveServer(q)
    <3>1. q.op = "leave" /\ Marks(q) /\ Removes(q.by)
      BY <2>a DEF leaveServer, Writing
    <3>2. Reads(q)
      BY <3>1, Checked DEF Leavings
    <3>3. alive /\ q.by \notin owner
      BY <3>1, <3>2, ReadsOf DEF leaveServerReads
    <3> QED BY <3>1, <3>3, <1>r, Checked
  <2>b. CASE closeServer(q)
    BY <2>b DEF closeServer
  <2>c. CASE transferServer(q)
    <3>1. q.op = "transfer" /\ Recalled /\ (Reads(q) \/ "transfer" \in causes')
          /\ owner' = (owner \ {q.by}) \cup ({q.to} \cap member) /\ member' = member
      BY <2>c DEF transferServer, Writing, Recalled
    <3>2. Reads(q)
      BY <3>1 DEF Leavings
    <3>3. alive /\ q.by \in owner /\ q.to \in member
      BY <3>1, <3>2, ReadsOf DEF transferServerReads
    <3>4. PICK o \in member : owner = {o}
      BY <3>1, <3>3 DEF OneOwner, Recalled, ListCauses, Leavings
    <3> QED BY <3>1, <3>3, <3>4
  <2>d. CASE kickMember(q)
    <3>1. q.op = "kick" /\ Marks(q) /\ Removes(q.to)
      BY <2>d DEF kickMember, Writing
    <3>2. Reads(q)
      BY <3>1, Checked DEF Leavings
    <3>3. alive /\ q.to \notin owner
      BY <3>1, <3>2, ReadsOf DEF kickMemberReads
    <3> QED BY <3>1, <3>3, <1>r, Checked
  <2>e. CASE banMember(q)
    <3>1. q.op = "ban" /\ Marks(q) /\ Removes(q.to)
      BY <2>e DEF banMember, Writing
    <3>2. Reads(q)
      BY <3>1, Checked DEF Leavings
    <3>3. alive /\ q.to \notin owner
      BY <3>1, <3>2, ReadsOf DEF banMemberReads
    <3> QED BY <3>1, <3>3, <1>r, Checked
  <2>f. CASE banDetail(q) \/ assignRole(q) \/ revokeRole(q) \/ createRole(q) \/ moveRole(q) \/ editRole(q)
    <3>1. UNCHANGED <<alive, owner, member>> /\ Marks(q)
      BY <2>f DEF banDetail, assignRole, revokeRole, createRole, moveRole, editRole
    <3> QED BY <3>1, <1>s, Checked
  <2>g. CASE deleteRole(q) \/ channelPermissions(q) \/ invites(q) \/ inviteDelete(q)
    <3>1. UNCHANGED <<alive, owner, member>> /\ Marks(q)
      BY <2>g DEF deleteRole, channelPermissions, invites, inviteDelete
    <3> QED BY <3>1, <1>s, Checked
  <2>h. CASE joinByToken(q)
    <3>1. UNCHANGED <<alive, owner>> /\ Marks(q) /\ member \subseteq member'
      BY <2>h DEF joinByToken
    <3> QED BY <3>1, <1>s, Checked
  <2> QED BY <1>1, <2>a, <2>b, <2>c, <2>d, <2>e, <2>f, <2>g, <2>h DEF Writes
<1>2. CASE UNCHANGED <<alive, owner, member>> /\ Recalled
  BY <1>2, <1>s
<1>3. CASE \E q \in Requests : Ask(q)
  BY <1>3, <1>2 DEF Ask, Recalled
<1>4. CASE \E q \in reqs : Refused(q) \/ Purges(q) \/ ListPut(q)
  BY <1>4, <1>2 DEF Refused, Purges, Purge, PurgeFails, Drops, ListPut, Recalled
<1>5. CASE FillRead \/ FillPut \/ Expire
  BY <1>5, <1>2 DEF FillRead, FillPut, Expire, Drops, Recalled
<1>6. CASE \E u \in Users : ListExpire(u)
  BY <1>6, <1>2 DEF ListExpire, Recalled
<1>7. CASE UNCHANGED vars
  BY <1>7, <1>2 DEF vars, Recalled
<1> QED BY <1>1, <1>3, <1>4, <1>5, <1>6, <1>7 DEF Next, Step

LEMMA OneOwnerStart == Init => OneOwner
<1> SUFFICES ASSUME Init PROVE \E o \in member : owner = {o}
  BY DEF OneOwner
<1>1. First \in member /\ owner = {First}
  BY DEF Init
<1> QED BY <1>1

(* A server that exists has exactly one owner as long as no transfer,       *)
(* departure or removal wrote after a change that made its own checks        *)
(* untrue: each of them leaves the owner alone or moves the mark in one      *)
(* batch, and every other handler leaves the mark where it is.               *)
THEOREM OneOwnerHolds == Spec => []OneOwnerUnlessOverlap
<1> DEFINE I == Shape /\ OneOwner
<1>1. Init => I
  BY StartShape, OneOwnerStart
<1>2. I /\ [Next]_vars => I'
  BY ShapeNext, OneOwnerNext
<1>3. I => OneOwnerUnlessOverlap
  BY FS_Singleton DEF OneOwner, Leavings, OneOwnerUnlessOverlap
<1> QED BY <1>1, <1>2, <1>3, PTL DEF Spec

(***************************************************************************)
(* Out means out.                                                           *)
(***************************************************************************)
JoinsCounted ==
  /\ IsFiniteSet(member)
  /\ "join" \notin causes =>
       /\ banned \cap member = {} /\ Cardinality(member) <= MemberLimit
       /\ MaxUses > 0 => invite.uses <= MaxUses
RowsOfMembers == "assign" \notin causes => \A a \in assigned : a[1] \in member
OverridesOfMembers == alive /\ "override" \notin causes => \A u \in Users \ member : over[u] = NoOverride

LEMMA JoinsCountedNext ==
  ASSUME Shape, JoinsCounted, [Next]_vars PROVE JoinsCounted'
<1>0. /\ MemberLimit \in Nat /\ MaxUses \in Nat /\ Cardinality(member) \in Nat /\ invite.uses \in Nat
  BY FS_CardinalityType, ServersAssumption DEF JoinsCounted, Shape, TypeOK
<1>s. ASSUME member' \subseteq member, invite'.uses = invite.uses \/ invite'.uses = 0,
             Recalled, banned' \cap member' \subseteq banned \cap member
      PROVE  JoinsCounted'
  <2>1. IsFiniteSet(member') /\ Cardinality(member') \in Nat /\ Cardinality(member') <= Cardinality(member)
    BY <1>s, FS_Subset, FS_CardinalityType DEF JoinsCounted
  <2> QED BY <1>0, <1>s, <2>1 DEF JoinsCounted, Recalled, ListCauses
<1>1. ASSUME NEW q \in reqs, Writes(q) PROVE JoinsCounted'
  <2>a. CASE leaveServer(q) \/ kickMember(q) \/ banMember(q)
    <3>1. Marks(q) /\ invite' = invite /\ ((Removes(q.by) /\ banned' = banned) \/ (Removes(q.to) /\ banned' \subseteq banned \cup {q.to}))
      BY <2>a DEF leaveServer, kickMember, banMember
    <3> QED BY <3>1, <1>s, Checked DEF Removes
  <2>b. CASE closeServer(q)
    <3>1. Marks(q) /\ member' = {} /\ invite'.uses = invite.uses
      BY <2>b DEF closeServer, Shape, TypeOK
    <3> QED BY <3>1, <1>s, Checked
  <2>c. CASE transferServer(q) \/ banDetail(q) \/ assignRole(q) \/ revokeRole(q)
    <3>1. Recalled /\ UNCHANGED <<member, invite>> /\ banned' \subseteq banned
      BY <2>c, Checked DEF transferServer, banDetail, assignRole, revokeRole, Recalled
    <3> QED BY <3>1, <1>s
  <2>d. CASE createRole(q) \/ moveRole(q) \/ editRole(q) \/ deleteRole(q) \/ channelPermissions(q)
    <3>1. Recalled /\ UNCHANGED <<member, invite, banned>>
      BY <2>d, Checked DEF createRole, moveRole, editRole, deleteRole, channelPermissions
    <3> QED BY <3>1, <1>s
  <2>e. CASE invites(q) \/ inviteDelete(q)
    <3>1. Recalled /\ UNCHANGED <<member, banned>> /\ invite'.uses \in {0, invite.uses}
      BY <2>e, Checked DEF invites, inviteDelete, Shape, TypeOK
    <3> QED BY <3>1, <1>s
  <2>f. CASE joinByToken(q)
    <3>1. /\ q.op = "join" /\ Marks(q) /\ member' = member \cup {q.by} /\ banned' = banned
          /\ invite' = IF invite.on THEN [invite EXCEPT !.uses = @ + 1] ELSE invite
      BY <2>f DEF joinByToken, Writing
    <3>2. IsFiniteSet(member')
      BY <3>1, FS_AddElement DEF JoinsCounted
    <3>3. SUFFICES ASSUME "join" \notin causes'
                   PROVE  /\ banned' \cap member' = {} /\ Cardinality(member') <= MemberLimit
                          /\ MaxUses > 0 => invite'.uses <= MaxUses
      BY <3>2 DEF JoinsCounted
    <3>4. Reads(q) /\ "join" \notin causes
      BY <3>1, <3>3, Checked DEF Recalled, ListCauses
    <3>5. /\ MaxUses > 0 => invite.uses < MaxUses
          /\ q.by \notin banned \cup member /\ Cardinality(member) < MemberLimit
      BY <3>1, <3>4, ReadsOf DEF joinByTokenReads
    <3>6. Cardinality(member') = Cardinality(member) + 1
      BY <3>1, <3>5, FS_AddElement DEF JoinsCounted
    <3>7. invite'.uses <= invite.uses + 1 /\ invite'.uses \in Nat
      BY <3>1, <1>0 DEF Shape, TypeOK
    <3>8. banned \cap member = {}
      BY <3>4 DEF JoinsCounted
    <3> QED BY <1>0, <3>1, <3>5, <3>6, <3>7, <3>8
  <2> QED BY <1>1, <2>a, <2>b, <2>c, <2>d, <2>e, <2>f DEF Writes
<1>2. CASE UNCHANGED <<member, invite, banned>> /\ Recalled
  BY <1>2, <1>s
<1>3. CASE \E q \in Requests : Ask(q)
  BY <1>3, <1>2 DEF Ask, Recalled
<1>4. CASE \E q \in reqs : Refused(q) \/ Purges(q) \/ ListPut(q)
  BY <1>4, <1>2 DEF Refused, Purges, Purge, PurgeFails, Drops, ListPut, Recalled
<1>5. CASE FillRead \/ FillPut \/ Expire
  BY <1>5, <1>2 DEF FillRead, FillPut, Expire, Drops, Recalled
<1>6. CASE \E u \in Users : ListExpire(u)
  BY <1>6, <1>2 DEF ListExpire, Recalled
<1>7. CASE UNCHANGED vars
  BY <1>7, <1>2 DEF vars, Recalled
<1> QED BY <1>1, <1>3, <1>4, <1>5, <1>6, <1>7 DEF Next, Step

LEMMA RowsOfMembersNext ==
  ASSUME Shape, RowsOfMembers, [Next]_vars PROVE RowsOfMembers'
<1>s. ASSUME Recalled, member \subseteq member', assigned' \subseteq assigned
      PROVE  RowsOfMembers'
  BY <1>s DEF RowsOfMembers, Recalled, ListCauses
<1>r. ASSUME NEW u, Removes(u), Recalled PROVE RowsOfMembers'
  BY <1>r DEF RowsOfMembers, Removes, Recalled, ListCauses
<1>1. ASSUME NEW q \in reqs, Writes(q) PROVE RowsOfMembers'
  <2>a. CASE leaveServer(q) \/ kickMember(q) \/ banMember(q)
    <3>1. Marks(q) /\ (Removes(q.by) \/ Removes(q.to))
      BY <2>a DEF leaveServer, kickMember, banMember
    <3> QED BY <3>1, <1>r, Checked
  <2>b. CASE closeServer(q)
    BY <2>b DEF closeServer, RowsOfMembers
  <2>c. CASE assignRole(q)
    <3>1. q.op = "assign" /\ Marks(q) /\ member' = member /\ assigned' = assigned \cup {<<q.to, q.role>>}
      BY <2>c DEF assignRole, Writing
    <3>2. SUFFICES ASSUME "assign" \notin causes', NEW a \in assigned' PROVE a[1] \in member'
      BY DEF RowsOfMembers
    <3>3. Reads(q) /\ "assign" \notin causes
      BY <3>1, <3>2, Checked DEF Recalled, ListCauses
    <3>4. q.to \in member
      BY <3>1, <3>3, ReadsOf DEF assignRoleReads
    <3> QED BY <3>1, <3>3, <3>4 DEF RowsOfMembers
  <2>d. CASE transferServer(q) \/ banDetail(q) \/ revokeRole(q) \/ createRole(q)
    <3>1. Recalled /\ member' = member /\ assigned' \subseteq assigned
      BY <2>d, Checked DEF transferServer, banDetail, revokeRole, createRole, Recalled
    <3> QED BY <3>1, <1>s
  <2>e. CASE moveRole(q) \/ editRole(q) \/ deleteRole(q) \/ channelPermissions(q) \/ invites(q) \/ inviteDelete(q)
    <3>1. Recalled /\ member' = member /\ assigned' \subseteq assigned
      BY <2>e, Checked DEF moveRole, editRole, deleteRole, channelPermissions, invites, inviteDelete
    <3> QED BY <3>1, <1>s
  <2>f. CASE joinByToken(q)
    <3>1. /\ Marks(q) /\ member' = member \cup {q.by} /\ assigned' = assigned \cup ({q.by} \X Grants(q))
      BY <2>f DEF joinByToken
    <3> QED BY <3>1, Checked DEF RowsOfMembers, Recalled, ListCauses
  <2> QED BY <1>1, <2>a, <2>b, <2>c, <2>d, <2>e, <2>f DEF Writes
<1>2. CASE UNCHANGED <<member, assigned>> /\ Recalled
  BY <1>2, <1>s
<1>3. CASE \E q \in Requests : Ask(q)
  BY <1>3, <1>2 DEF Ask, Recalled
<1>4. CASE \E q \in reqs : Refused(q) \/ Purges(q) \/ ListPut(q)
  BY <1>4, <1>2 DEF Refused, Purges, Purge, PurgeFails, Drops, ListPut, Recalled
<1>5. CASE FillRead \/ FillPut \/ Expire
  BY <1>5, <1>2 DEF FillRead, FillPut, Expire, Drops, Recalled
<1>6. CASE \E u \in Users : ListExpire(u)
  BY <1>6, <1>2 DEF ListExpire, Recalled
<1>7. CASE UNCHANGED vars
  BY <1>7, <1>2 DEF vars, Recalled
<1> QED BY <1>1, <1>3, <1>4, <1>5, <1>6, <1>7 DEF Next, Step

LEMMA OverridesOfMembersNext ==
  ASSUME Shape, OverridesOfMembers, [Next]_vars PROVE OverridesOfMembers'
<1>0. Users \cap Roles = {} /\ over \in [Users \cup Roles -> [allow : SUBSET Perms, deny : SUBSET Perms]]
  BY ServersAssumption DEF Shape, TypeOK
<1> SUFFICES ASSUME alive', "override" \notin causes', NEW w \in Users \ member' PROVE over'[w] = NoOverride
  BY DEF OverridesOfMembers, NoOverride
<1>s. ASSUME Recalled, member \subseteq member', over' = over, alive
      PROVE  over'[w] = NoOverride
  BY <1>s DEF OverridesOfMembers, Recalled, ListCauses
<1>1. ASSUME NEW q \in reqs, Writes(q) PROVE over'[w] = NoOverride
  <2>0. Form(q)
    BY DEF Shape
  <2>a. CASE leaveServer(q) \/ kickMember(q) \/ banMember(q)
    <3>1. Recalled /\ alive
      BY <2>a, Checked DEF leaveServer, kickMember, banMember
    <3>2. PICK u \in Users : Removes(u)
      BY <2>a, <2>0 DEF leaveServer, kickMember, banMember, Form, Writing
    <3>3. over' = [over EXCEPT ![u] = NoOverride] /\ member' = member \ {u}
      BY <3>2 DEF Removes
    <3>4. over[w] = NoOverride \/ w = u
      BY <3>1, <3>3 DEF OverridesOfMembers, Recalled, ListCauses
    <3> QED BY <1>0, <3>3, <3>4
  <2>b. CASE closeServer(q)
    BY <2>b DEF closeServer
  <2>c. CASE channelPermissions(q)
    <3>1. /\ over' = [over EXCEPT ![q.to] = [allow |-> q.allow, deny |-> q.deny]]
          /\ Marks(q) /\ member' = member /\ alive /\ q.op \in {"override", "clear"}
      BY <2>c DEF channelPermissions, Writing
    <3>2. over[w] = NoOverride
      BY <3>1, Checked DEF OverridesOfMembers, Recalled, ListCauses
    <3>3. CASE w # q.to
      BY <1>0, <3>1, <3>2, <3>3
    <3>4. CASE w = q.to
      <4>1. CASE q.op = "clear"
        BY <1>0, <2>0, <3>1, <3>4, <4>1 DEF Form, NoOverride
      <4>2. CASE q.op = "override"
        <5>1. Reads(q)
          BY <3>1, <4>2, Checked
        <5>2. q.to \in Roles \/ q.to \in member
          BY <4>2, <5>1, ReadsOf DEF channelPermissionsReads
        <5> QED BY <1>0, <3>1, <3>4, <5>2
      <4> QED BY <3>1, <4>1, <4>2
    <3> QED BY <3>3, <3>4
  <2>d. CASE transferServer(q) \/ banDetail(q) \/ assignRole(q) \/ revokeRole(q) \/ createRole(q) \/ moveRole(q)
    <3>1. Recalled /\ UNCHANGED <<alive, member, over>>
      BY <2>d, Checked DEF transferServer, banDetail, assignRole, revokeRole, createRole, moveRole, Recalled
    <3> QED BY <3>1, <1>s
  <2>e. CASE editRole(q) \/ deleteRole(q) \/ invites(q) \/ inviteDelete(q)
    <3>1. Recalled /\ UNCHANGED <<alive, member, over>>
      BY <2>e, Checked DEF editRole, deleteRole, invites, inviteDelete
    <3> QED BY <3>1, <1>s
  <2>f. CASE joinByToken(q)
    <3>1. Recalled /\ UNCHANGED <<alive, over>> /\ member \subseteq member'
      BY <2>f, Checked DEF joinByToken
    <3> QED BY <3>1, <1>s
  <2> QED BY <1>1, <2>a, <2>b, <2>c, <2>d, <2>e, <2>f DEF Writes
<1>2. CASE UNCHANGED <<alive, member, over>> /\ Recalled
  BY <1>2, <1>s
<1>3. CASE \E q \in Requests : Ask(q)
  BY <1>3, <1>2 DEF Ask, Recalled
<1>4. CASE \E q \in reqs : Refused(q) \/ Purges(q) \/ ListPut(q)
  BY <1>4, <1>2 DEF Refused, Purges, Purge, PurgeFails, Drops, ListPut, Recalled
<1>5. CASE FillRead \/ FillPut \/ Expire
  BY <1>5, <1>2 DEF FillRead, FillPut, Expire, Drops, Recalled
<1>6. CASE \E u \in Users : ListExpire(u)
  BY <1>6, <1>2 DEF ListExpire, Recalled
<1>7. CASE UNCHANGED vars
  BY <1>7, <1>2 DEF vars, Recalled
<1> QED BY <1>1, <1>3, <1>4, <1>5, <1>6, <1>7 DEF Next, Step

LEMMA OutStart == Init => JoinsCounted /\ RowsOfMembers /\ OverridesOfMembers
<1> SUFFICES ASSUME Init PROVE JoinsCounted /\ RowsOfMembers /\ OverridesOfMembers
  OBVIOUS
<1>0. /\ First \in Users /\ Crowd \subseteq Users \ {First} /\ IsFiniteSet(Crowd) /\ Everyone \in Roles
      /\ Mod \in Roles /\ Users \cap Roles = {} /\ MaxUses \in Nat /\ MemberLimit \in Nat
  BY ServersAssumption
<1>1. PICK M \in SUBSET Crowd : Chief \in M /\ member = {First} \cup M /\ Cardinality(M) < MemberLimit
  BY DEF Init
<1>2. IsFiniteSet(M) /\ First \notin M
  BY <1>0, FS_Subset
<1>3. Cardinality(member) = Cardinality(M) + 1 /\ Cardinality(M) \in Nat /\ IsFiniteSet(member)
  BY <1>1, <1>2, FS_AddElement, FS_CardinalityType
<1>4. invite.uses = 0 /\ banned = {}
  BY DEF Init
<1>5. JoinsCounted
  BY <1>0, <1>1, <1>3, <1>4 DEF JoinsCounted
<1>6. RowsOfMembers
  BY <1>1 DEF Init, RowsOfMembers
<1>7. OverridesOfMembers
  <2>1. \A u \in Users : u # Everyone /\ u # Mod /\ NoOverrides[u] = NoOverride
    BY <1>0 DEF NoOverrides
  <2>2. \A u \in Users : over[u] = NoOverrides[u]
    <3>1. \A u \in Users : [NoOverrides EXCEPT ![Everyone].deny = {"VIEW_CHANNEL"},
                                              ![Mod].allow = {"VIEW_CHANNEL"}][u] = NoOverrides[u]
      BY <2>1 DEF NoOverrides
    <3> QED BY <3>1 DEF Init
  <2> QED BY <2>1, <2>2 DEF OverridesOfMembers
<1> QED BY <1>5, <1>6, <1>7

(* An account that is banned is no member, one that is no member keeps no    *)
(* role and, while the server exists, no override; and a used-up invite or a *)
(* full server lets nobody in: the batch that removes an account takes its   *)
(* rows along, and a join, an assignment or an override whose checks still   *)
(* hold concerns a member.                                                   *)
THEOREM OutMeansOutHolds == Spec => []OutMeansOut
<1> DEFINE I == Shape /\ JoinsCounted /\ RowsOfMembers /\ OverridesOfMembers
<1>1. Init => I
  BY StartShape, OutStart
<1>2. I /\ [Next]_vars => I'
  BY ShapeNext, JoinsCountedNext, RowsOfMembersNext, OverridesOfMembersNext
<1>3. I => OutMeansOut
  BY DEF JoinsCounted, RowsOfMembers, OverridesOfMembers, OutMeansOut
<1> QED BY <1>1, <1>2, <1>3, PTL DEF Spec

(***************************************************************************)
(* Who reads the channel.                                                   *)
(***************************************************************************)
\* A list that says yes, cached or on its way there, is right or has aged.
ListsKnown ==
  \A u \in Users \ outdated :
    /\ listed[u] # None /\ listed[u] = TRUE => canViewChannel(u)
    /\ \A q \in reqs : q.op = "list" /\ q.by = u /\ q.allow # {} => canViewChannel(u)

LEMMA ComputedReads == \A u : u \in member /\ Computed(u) => canViewChannel(u)
BY DEF Computed, canViewChannel

LEMMA OneAnswerKnown == Shape /\ ListsKnown => OneAnswer
<1> SUFFICES ASSUME Shape, ListsKnown, NEW u \in Users
             PROVE  /\ canViewChannel(u) <=> u \in getChannelViewerHandles
                    /\ getVisibleChannelIds(u) => canViewChannel(u) \/ u \in outdated
  BY DEF OneAnswer
<1>1. u \in owner => "VIEW_CHANNEL" \in resolvePermissions(u, over)
  BY DEF resolvePermissions, Perms
<1>2. canViewChannel(u) <=> u \in getChannelViewerHandles
  BY <1>1 DEF canViewChannel, getChannelViewerHandles
<1>3. ASSUME getVisibleChannelIds(u), u \notin outdated PROVE canViewChannel(u)
  <2>1. u \in member /\ (Computed(u) \/ (listed[u] # None /\ listed[u]))
    BY <1>3 DEF getVisibleChannelIds
  <2>2. listed[u] \in BOOLEAN \cup {None}
    BY DEF Shape, TypeOK
  <2> QED BY <2>1, <2>2, <1>3, ComputedReads DEF ListsKnown
<1> QED BY <1>2, <1>3

\* Only `ListPut` handles a request for a list.
LEMMA ListsDontWrite == \A q : Writes(q) => q.op # "list"
BY DEF Writes, Writing, leaveServer, closeServer, transferServer, kickMember, banMember, banDetail, assignRole,
       revokeRole, createRole, moveRole, editRole, deleteRole, channelPermissions, invites, inviteDelete, joinByToken

LEMMA WritesNoList ==
  ASSUME NEW q, Writes(q) PROVE listed' = listed /\ (GoesOn(q) \/ Returns(q))
<1>1. CASE leaveServer(q) \/ closeServer(q) \/ transferServer(q) \/ kickMember(q) \/ banMember(q) \/ banDetail(q)
  BY <1>1 DEF leaveServer, closeServer, transferServer, kickMember, banMember, banDetail
<1>2. CASE assignRole(q) \/ revokeRole(q) \/ createRole(q) \/ moveRole(q) \/ editRole(q) \/ deleteRole(q)
  BY <1>2 DEF assignRole, revokeRole, createRole, moveRole, editRole, deleteRole
<1>3. CASE channelPermissions(q) \/ invites(q) \/ inviteDelete(q) \/ joinByToken(q)
  BY <1>3 DEF channelPermissions, invites, inviteDelete, joinByToken
<1> QED BY <1>1, <1>2, <1>3 DEF Writes

LEMMA ListsKnownNext ==
  ASSUME Shape, ListsKnown, [Next]_vars PROVE ListsKnown'
<1>0. CASE UNCHANGED vars
  <2>1. UNCHANGED <<member, owner, role, assigned, over, listed, outdated, reqs>>
    BY <1>0 DEF vars
  <2>2. ASSUME NEW u PROVE canViewChannel(u)' = canViewChannel(u)
    <3>1. RolesOf(u)' = RolesOf(u)
      BY <2>1 DEF RolesOf
    <3>2. Base(u)' = Base(u)
      BY <2>1, <3>1 DEF Base
    <3>3. resolvePermissions(u, over)' = resolvePermissions(u, over)
      BY <2>1, <3>1, <3>2 DEF resolvePermissions
    <3> QED BY <2>1, <3>3 DEF canViewChannel
  <2> QED BY <2>1, <2>2 DEF ListsKnown
<1> SUFFICES ASSUME Next, NEW u \in Users, u \notin outdated'
             PROVE  /\ listed'[u] # None /\ listed'[u] = TRUE => canViewChannel(u)'
                    /\ \A q \in reqs' : q.op = "list" /\ q.by = u /\ q.allow # {} => canViewChannel(u)'
  BY <1>0 DEF ListsKnown
\* While there is a list of u's that has not aged, nothing has changed for u.
<1>1. ASSUME listed'[u] # None \/ \E q \in reqs' : q.op = "list" /\ q.by = u
      PROVE  u \notin outdated /\ (canViewChannel(u) => canViewChannel(u)')
  BY <1>1 DEF Next, Ages
<1>2. ASSUME listed'[u] # None, listed'[u] = TRUE PROVE canViewChannel(u)
  <2>1. u \notin outdated
    BY <1>1, <1>2
  <2>2. CASE listed'[u] = listed[u]
    BY <1>2, <2>1, <2>2 DEF ListsKnown
  <2>3. CASE listed'[u] # listed[u]
    <3>0. listed \in [Users -> BOOLEAN \cup {None}]
      BY DEF Shape, TypeOK
    <3>1. ~\E v \in Users : ListExpire(v)
      BY <1>2, <2>3, <3>0 DEF ListExpire
    <3>2. ~(\E q \in Requests : Ask(q)) /\ ~(FillRead \/ FillPut \/ Expire)
      BY <2>3 DEF Ask, FillRead, FillPut, Expire
    <3>3. ~\E q \in reqs : Writes(q) \/ Refused(q) \/ Purges(q)
      BY <2>3, WritesNoList DEF Refused, Purges
    <3>4. PICK q \in reqs : ListPut(q)
      BY <3>1, <3>2, <3>3 DEF Next, Step
    <3>5. listed' = [listed EXCEPT ![q.by] = (q.allow # {})] /\ q.op = "list"
      BY <2>3, <3>4 DEF ListPut, Writing
    <3>6. q.by = u /\ q.allow # {}
      BY <1>2, <2>3, <3>0, <3>5
    <3> QED BY <2>1, <3>5, <3>6 DEF ListsKnown
  <2> QED BY <2>2, <2>3
<1>3. ASSUME NEW q \in reqs', q.op = "list", q.by = u, q.allow # {} PROVE canViewChannel(u)
  <2>1. u \notin outdated
    BY <1>1, <1>3
  <2>2. CASE q \in reqs
    BY <1>3, <2>1, <2>2 DEF ListsKnown
  <2>3. CASE q \notin reqs
    <3>1. ~\E r \in reqs : Writes(r)
      <4> SUFFICES ASSUME NEW r \in reqs, Writes(r) PROVE FALSE
        OBVIOUS
      <4>1. q = [r EXCEPT !.stage = "purge"] /\ Form(r)
        BY <2>3, WritesNoList DEF GoesOn, Returns, Shape
      <4>2. r.op = "list"
        BY <1>3, <4>1 DEF Form
      <4> QED BY <4>2, ListsDontWrite
    <3>2. ~(\E r \in reqs : Refused(r) \/ Purges(r) \/ ListPut(r)) /\ ~(FillRead \/ FillPut \/ Expire)
      BY <2>3 DEF Refused, Purges, ListPut, Returns, FillRead, FillPut, Expire
    <3>3. ~\E v \in Users : ListExpire(v)
      BY <2>3 DEF ListExpire
    <3>4. PICK r \in Requests : Ask(r)
      BY <3>1, <3>2, <3>3 DEF Next, Step
    <3>5. r = q /\ Reads(q)
      BY <2>3, <3>4 DEF Ask
    <3>6. listReads(q)
      BY <1>3, <3>5, ReadsOf
    <3>7. u \in member /\ Computed(u)
      BY <1>3, <3>6 DEF listReads
    <3> QED BY <3>7, ComputedReads
  <2> QED BY <2>2, <2>3
<1>4. canViewChannel(u) /\ listed'[u] # None => canViewChannel(u)'
  BY <1>1
<1>5. ASSUME NEW q \in reqs', q.op = "list", q.by = u, canViewChannel(u) PROVE canViewChannel(u)'
  BY <1>1, <1>5
<1> QED BY <1>2, <1>3, <1>4, <1>5

\* Every role an account holds exists.
RolesHeldExist == \A a \in assigned : role[a[2]].on

LEMMA RolesHeldExistNext ==
  ASSUME Shape, RolesHeldExist, [Next]_vars PROVE RolesHeldExist'
<1>0. assigned \subseteq Users \X Roles
      /\ role \in [Roles -> [on : BOOLEAN, pos : Positions \cup {0, 2}, perms : SUBSET Perms]]
  BY DEF Shape, TypeOK
<1>s. ASSUME assigned' \subseteq assigned, \A r \in Roles : role[r].on => role'[r].on
      PROVE  RolesHeldExist'
  BY <1>0, <1>s DEF RolesHeldExist
<1>1. ASSUME NEW q \in reqs, Writes(q) PROVE RolesHeldExist'
  <2>0. Form(q)
    BY DEF Shape
  <2>a. CASE leaveServer(q) \/ kickMember(q) \/ banMember(q)
    <3>1. role' = role /\ assigned' \subseteq assigned
      BY <2>a DEF leaveServer, kickMember, banMember, Removes
    <3> QED BY <3>1, <1>s
  <2>b. CASE closeServer(q)
    BY <2>b DEF closeServer, RolesHeldExist
  <2>c. CASE assignRole(q)
    BY <2>c DEF assignRole, RolesHeldExist
  <2>d. CASE createRole(q)
    <3>1. q.role \in Roles
      BY <2>d, <2>0 DEF createRole, Writing, Form
    <3>2. assigned' = assigned /\ \A r \in Roles : role[r].on => role'[r].on
      BY <1>0, <2>d, <3>1 DEF createRole
    <3> QED BY <3>2, <1>s
  <2>e. CASE moveRole(q) \/ editRole(q)
    <3>1. q.role \in Roles
      BY <2>e, <2>0 DEF moveRole, editRole, Writing, Form
    <3>2. assigned' = assigned /\ \A r \in Roles : role[r].on => role'[r].on
      BY <1>0, <2>e, <3>1 DEF moveRole, editRole
    <3> QED BY <3>2, <1>s
  <2>f. CASE deleteRole(q)
    <3>1. q.role \in Roles
      BY <2>f, <2>0 DEF deleteRole, Writing, Form
    <3>2. assigned' = {a \in assigned : a[2] # q.role} /\ role' = [role EXCEPT ![q.role].on = FALSE]
      BY <2>f DEF deleteRole
    <3> QED BY <1>0, <3>1, <3>2 DEF RolesHeldExist
  <2>g. CASE transferServer(q) \/ banDetail(q) \/ revokeRole(q) \/ channelPermissions(q) \/ invites(q) \/ inviteDelete(q)
    <3>1. role' = role /\ assigned' \subseteq assigned
      BY <2>g DEF transferServer, banDetail, revokeRole, channelPermissions, invites, inviteDelete
    <3> QED BY <3>1, <1>s
  <2>h. CASE joinByToken(q)
    BY <2>h DEF joinByToken, RolesHeldExist
  <2> QED BY <1>1, <2>a, <2>b, <2>c, <2>d, <2>e, <2>f, <2>g, <2>h DEF Writes
<1>2. CASE UNCHANGED <<role, assigned>>
  BY <1>2, <1>s
<1>3. CASE \E q \in Requests : Ask(q)
  BY <1>3, <1>2 DEF Ask
<1>4. CASE \E q \in reqs : Refused(q) \/ Purges(q) \/ ListPut(q)
  BY <1>4, <1>2 DEF Refused, Purges, ListPut
<1>5. CASE FillRead \/ FillPut \/ Expire
  BY <1>5, <1>2 DEF FillRead, FillPut, Expire
<1>6. CASE \E u \in Users : ListExpire(u)
  BY <1>6, <1>2 DEF ListExpire
<1>7. CASE UNCHANGED vars
  BY <1>7, <1>2 DEF vars
<1> QED BY <1>1, <1>3, <1>4, <1>5, <1>6, <1>7 DEF Next, Step

LEMMA RolesHeldExistStart == Init => RolesHeldExist
<1> SUFFICES ASSUME Init, NEW a \in assigned PROVE role[a[2]].on
  BY DEF RolesHeldExist
<1>1. a[2] \in {Everyone, Mod} /\ Everyone \in Roles /\ Mod \in Roles
  BY ServersAssumption DEF Init
<1> QED BY <1>1 DEF Init

\* The readers depend on the members, the owner, the overrides and the permissions of the roles held.
LEMMA SameReaders ==
  ASSUME UNCHANGED <<member, owner, over, assigned>>, \A a \in assigned : role'[a[2]].perms = role[a[2]].perms
  PROVE  getChannelViewerHandles' = getChannelViewerHandles
<1>1. \A u : RolesOf(u)' = RolesOf(u)
  BY DEF RolesOf
<1>2. ASSUME NEW u PROVE Base(u)' = Base(u)
  <2>1. \A r \in RolesOf(u) : role'[r].perms = role[r].perms
    BY DEF RolesOf
  <2> QED BY <1>1, <2>1 DEF Base
<1>3. ASSUME NEW u PROVE resolvePermissions(u, over)' = resolvePermissions(u, over)
  <2>1. owner' = owner /\ over' = over /\ Base(u)' = Base(u) /\ RolesOf(u)' = RolesOf(u)
    BY <1>1, <1>2
  <2>2. /\ UNION {over'[r].deny : r \in RolesOf(u)'} = UNION {over[r].deny : r \in RolesOf(u)}
        /\ UNION {over'[r].allow : r \in RolesOf(u)'} = UNION {over[r].allow : r \in RolesOf(u)}
    BY <2>1
  <2> QED BY <2>1, <2>2 DEF resolvePermissions
<1> QED BY <1>3 DEF getChannelViewerHandles

Fresh ==
  recipients # None /\ causes \cap ListCauses = {} =>
    recipients = getChannelViewerHandles \/ \E q \in reqs : q.stage = "purge"

LEMMA FreshNext ==
  ASSUME Shape, RolesHeldExist, Fresh, [Next]_vars PROVE Fresh'
<1>0. assigned \subseteq Users \X Roles
      /\ role \in [Roles -> [on : BOOLEAN, pos : Positions \cup {0, 2}, perms : SUBSET Perms]]
  BY DEF Shape, TypeOK
<1>s. ASSUME UNCHANGED <<member, owner, over, assigned>>, \A a \in assigned : role'[a[2]].perms = role[a[2]].perms,
             causes \cap ListCauses \subseteq causes', recipients' = recipients, \A q \in reqs : q.stage = "purge" => q \in reqs'
      PROVE  Fresh'
  BY <1>s, SameReaders DEF Fresh
<1>p. ASSUME NEW q \in reqs, GoesOn(q) PROVE Fresh'
  <2>1. [q EXCEPT !.stage = "purge"] \in reqs' /\ [q EXCEPT !.stage = "purge"].stage = "purge"
    BY <1>p DEF GoesOn, Shape, Form
  <2> QED BY <2>1 DEF Fresh
<1>1. ASSUME NEW q \in reqs, Writes(q) PROVE Fresh'
  <2>0. Form(q)
    BY DEF Shape
  <2>a. CASE GoesOn(q)
    BY <2>a, <1>p
  <2>b. CASE transferServer(q)
    BY <2>b DEF transferServer, Fresh, ListCauses
  <2>c. CASE banDetail(q) \/ invites(q) \/ inviteDelete(q)
    <3>1. /\ UNCHANGED <<member, owner, over, assigned, role, recipients>> /\ causes \cap ListCauses \subseteq causes'
          /\ reqs' = reqs \ {q} /\ q.stage = "write"
      BY <2>c DEF Marks, banDetail, invites, inviteDelete, Returns, Writing
    <3> QED BY <3>1, <1>s
  <2>d. CASE createRole(q)
    <3>1. q.role \in Roles
      BY <2>d, <2>0 DEF createRole, Writing, Form
    <3>2. \A a \in assigned : a[2] # q.role
      BY <2>d DEF createRole, RolesHeldExist
    <3>3. \A a \in assigned : role'[a[2]].perms = role[a[2]].perms
      BY <1>0, <2>d, <3>1, <3>2 DEF createRole
    <3>4. /\ UNCHANGED <<member, owner, over, assigned, recipients>> /\ causes \cap ListCauses \subseteq causes'
          /\ reqs' = reqs \ {q} /\ q.stage = "write"
      BY <2>d DEF Marks, createRole, Returns, Writing
    <3> QED BY <3>3, <3>4, <1>s
  <2>e. CASE moveRole(q)
    <3>1. q.role \in Roles
      BY <2>e, <2>0 DEF moveRole, Writing, Form
    <3>3. \A a \in assigned : role'[a[2]].perms = role[a[2]].perms
      BY <1>0, <2>e, <3>1 DEF moveRole
    <3>4. /\ UNCHANGED <<member, owner, over, assigned, recipients>> /\ causes \cap ListCauses \subseteq causes'
          /\ reqs' = reqs \ {q} /\ q.stage = "write"
      BY <2>e DEF Marks, moveRole, Returns, Writing
    <3> QED BY <3>3, <3>4, <1>s
  <2>f. CASE leaveServer(q) \/ closeServer(q) \/ kickMember(q) \/ banMember(q) \/ assignRole(q) \/ revokeRole(q)
    BY <2>a, <2>f DEF leaveServer, closeServer, kickMember, banMember, assignRole, revokeRole
  <2>g. CASE editRole(q) \/ deleteRole(q) \/ channelPermissions(q) \/ joinByToken(q)
    BY <2>a, <2>g DEF editRole, deleteRole, channelPermissions, joinByToken
  <2> QED BY <1>1, <2>b, <2>c, <2>d, <2>e, <2>f, <2>g DEF Writes
<1>2. CASE UNCHANGED <<member, owner, over, assigned, role, recipients>> /\ causes \cap ListCauses \subseteq causes'
           /\ \A q \in reqs : q.stage = "purge" => q \in reqs'
  BY <1>2, <1>s
<1>3. CASE \E q \in Requests : Ask(q)
  BY <1>3, <1>2 DEF Ask
<1>4. CASE \E q \in reqs : Refused(q)
  BY <1>4, <1>2 DEF Refused, Returns
<1>5. CASE \E q \in reqs : Purges(q)
  BY <1>5 DEF Purges, Purge, PurgeFails, Drops, Fresh, ListCauses
<1>6. CASE FillRead \/ Expire
  BY <1>6 DEF FillRead, Expire, Drops, Fresh
<1>7. CASE FillPut
  <2>1. getChannelViewerHandles' = getChannelViewerHandles
    BY <1>7, SameReaders DEF FillPut
  <2>2. CASE recipients' = fill
    BY <1>7, <2>1, <2>2 DEF FillPut, Fresh, ListCauses
  <2>3. CASE UNCHANGED <<recipients, causes>>
    BY <1>7, <2>1, <2>3 DEF FillPut, Fresh
  <2> QED BY <1>7, <2>2, <2>3 DEF FillPut
<1>8. CASE \E q \in reqs : ListPut(q)
  BY <1>8, <1>2 DEF ListPut, Returns, Writing
<1>9. CASE \E u \in Users : ListExpire(u)
  BY <1>9, <1>2 DEF ListExpire
<1>10. CASE UNCHANGED vars
  BY <1>10, <1>2 DEF vars
<1> QED BY <1>1, <1>3, <1>4, <1>5, <1>6, <1>7, <1>8, <1>9, <1>10 DEF Next, Step

(* The gate of a request, the recipients of a push and the channel list      *)
(* answer alike, unless a cached list answers that was read before the       *)
(* user's access changed; and a stored recipient list is right when nothing  *)
(* is under way, unless it was read before a change and stored after it, its *)
(* delete failed or the server changed hands: every handler that changes     *)
(* who reads goes on to delete the list, and the ones that do not delete it  *)
(* change no permission of a role anybody holds.                             *)
THEOREM ReadersAgreeHolds == Spec => []ReadersAgree
<1> DEFINE I == Shape /\ RolesHeldExist /\ ListsKnown /\ Fresh
<1>1. Init => I
  BY StartShape, RolesHeldExistStart DEF Init, Fresh, ListsKnown
<1>2. I /\ [Next]_vars => I'
  BY ShapeNext, RolesHeldExistNext, ListsKnownNext, FreshNext
<1>3. I => ReadersAgree
  BY OneAnswerKnown DEF Fresh, RecipientsFresh, ReadersAgree
<1> QED BY <1>1, <1>2, <1>3, PTL DEF Spec

(***************************************************************************)
(* Nobody is lifted to his own rank.                                        *)
(***************************************************************************)
\* A position below 2^31 is what the bitwise operator leaves of it.
LEMMA SmallPositions ==
  ASSUME NEW x \in Nat, x < Width \div 2 PROVE Int32(x) = x
<1>1. Width \in Nat \ {0, 1}
  BY ServersAssumption
<1>2. Width \div 2 \in Nat /\ (Width \div 2) + (Width \div 2) <= Width
  BY <1>1
<1>3. PICK h \in Nat : h = Width \div 2 /\ h + h <= Width
  BY <1>2
<1>4. x + h \in Nat /\ x + h < Width /\ 0 <= x + h
  BY <1>1, <1>3
<1>5. \A y \in Nat : y < Width => y % Width = y
  BY <1>1, SMT
<1>6. (x + h) % Width = x + h
  BY <1>4, <1>5
<1> QED BY <1>3, <1>6 DEF Int32

LEMMA HigherOfMore ==
  ASSUME NEW P \in SUBSET (Positions \cup {0, 2}), NEW Q \in SUBSET (Positions \cup {0, 2}), P \subseteq Q
  PROVE  Max0(P) <= Max0(Q)
<1>1. Max0(P) \in Nat /\ (Max0(P) = 0 \/ Max0(P) \in P)
  BY HighestPosition
<1>2. Max0(Q) \in Nat /\ \A p \in Q : p <= Max0(Q)
  BY HighestPosition
<1> QED BY <1>1, <1>2

\* The positions of the roles an account holds.
Held(u) == {role[r].pos : r \in RolesOf(u)}

LEMMA HeldType == Shape => \A u : Held(u) \in SUBSET (Positions \cup {0, 2})
<1> SUFFICES ASSUME Shape, NEW u, NEW r \in RolesOf(u) PROVE role[r].pos \in Positions \cup {0, 2}
  BY DEF Held
<1>1. r \in Roles /\ role \in [Roles -> [on : BOOLEAN, pos : Positions \cup {0, 2}, perms : SUBSET Perms]]
  BY DEF RolesOf, Shape, TypeOK
<1> QED BY <1>1

LEMMA RankType == Shape => \A u : getActorMaxRolePosition(u) \in Nat
<1> SUFFICES ASSUME Shape, NEW u PROVE getActorMaxRolePosition(u) \in Nat
  OBVIOUS
<1>1. Max0(Held(u)) \in Nat
  BY HeldType, HighestPosition
<1> QED BY <1>1 DEF getActorMaxRolePosition, Held

LEMMA HeldTypeNext ==
  ASSUME Shape', NEW u
  PROVE  Held(u)' \in SUBSET (Positions \cup {0, 2}) /\ getActorMaxRolePosition(u)' \in Nat
<1>1. Held(u)' \in SUBSET (Positions \cup {0, 2})
  <2>1. ASSUME NEW r \in RolesOf(u)' PROVE role'[r].pos \in Positions \cup {0, 2}
    <3>1. r \in Roles /\ role' \in [Roles -> [on : BOOLEAN, pos : Positions \cup {0, 2}, perms : SUBSET Perms]]
      BY DEF RolesOf, Shape, TypeOK
    <3> QED BY <3>1
  <2> QED BY <2>1 DEF Held
<1>2. Max0(Held(u)') \in Nat
  BY <1>1, HighestPosition
<1>3. getActorMaxRolePosition(u)' = IF u \in member' THEN Max0(Held(u)') ELSE 0
  BY DEF getActorMaxRolePosition, Held
<1> QED BY <1>1, <1>2, <1>3

\* A step raises nobody that keeps his place and gets no new position.
LEMMA NotLifted ==
  ASSUME Shape, Shape', NEW u, u \in member' => u \in member /\ Held(u)' \subseteq Held(u)
  PROVE  ~(getActorMaxRolePosition(u)' > getActorMaxRolePosition(u))
<1>1. Held(u) \in SUBSET (Positions \cup {0, 2}) /\ getActorMaxRolePosition(u) \in Nat
  BY HeldType, RankType
<1>2. Held(u)' \in SUBSET (Positions \cup {0, 2}) /\ getActorMaxRolePosition(u)' \in Nat
  BY HeldTypeNext
<1>3. CASE u \notin member'
  <2>1. getActorMaxRolePosition(u)' = 0
    BY <1>3 DEF getActorMaxRolePosition
  <2> QED BY <2>1, <1>1
<1>4. CASE u \in member'
  <2>1. getActorMaxRolePosition(u)' = Max0(Held(u)') /\ getActorMaxRolePosition(u) = Max0(Held(u))
    BY <1>4 DEF getActorMaxRolePosition, Held
  <2>2. Max0(Held(u)') <= Max0(Held(u))
    BY <1>1, <1>2, <1>4, HigherOfMore
  <2> QED BY <2>1, <2>2, <1>1, <1>2
<1> QED BY <1>3, <1>4

\* A step that gives an account one more position gives it that rank or leaves it as it was.
LEMMA LiftedTo ==
  ASSUME Shape, Shape', NEW u, NEW p, u \in member' => u \in member /\ Held(u)' \subseteq Held(u) \cup {p},
         getActorMaxRolePosition(u)' > getActorMaxRolePosition(u)
  PROVE  getActorMaxRolePosition(u)' = p /\ p \in Held(u)' /\ u \in member'
<1>1. Held(u) \in SUBSET (Positions \cup {0, 2}) /\ getActorMaxRolePosition(u) \in Nat
  BY HeldType, RankType
<1>2. Held(u)' \in SUBSET (Positions \cup {0, 2}) /\ getActorMaxRolePosition(u)' \in Nat
  BY HeldTypeNext
<1>3. u \in member'
  <2>1. u \notin member' => getActorMaxRolePosition(u)' = 0
    BY DEF getActorMaxRolePosition
  <2> QED BY <2>1, <1>1
<1>4. getActorMaxRolePosition(u)' = Max0(Held(u)') /\ getActorMaxRolePosition(u) = Max0(Held(u))
  BY <1>3 DEF getActorMaxRolePosition, Held
<1>5. \A x \in Held(u) : x <= Max0(Held(u))
  BY <1>1, HighestPosition
<1>6. Max0(Held(u)') = 0 \/ Max0(Held(u)') \in Held(u)'
  BY <1>2, HighestPosition
<1>7. Max0(Held(u)') \in Held(u)' /\ Max0(Held(u)') \notin Held(u)
  BY <1>1, <1>2, <1>4, <1>5, <1>6
<1> QED BY <1>3, <1>4, <1>7

\* Who may manage a role at a position below 2^31 holds a higher one below 2^31 himself.
LEMMA BelowManager ==
  ASSUME Shape, NEW by, by \notin owner, NEW p \in Nat, p < Width \div 2, canManageRoleAtPosition(by, p),
         getActorMaxRolePosition(by) < Width \div 2
  PROVE  p < getActorMaxRolePosition(by)
<1>1. PICK k \in Nat : k = getActorMaxRolePosition(by)
  BY RankType
<1>2. Int32(p) = p /\ Int32(k) = k
  BY <1>1, SmallPositions
<1>3. Int32(p) < Int32(k)
  BY <1>1 DEF canManageRoleAtPosition
<1> QED BY <1>1, <1>2, <1>3

LEMMA RankSmall ==
  ASSUME Shape, NEW u, \A x \in Held(u) : x < Width \div 2 PROVE getActorMaxRolePosition(u) < Width \div 2
<1>1. 0 < Width \div 2
  BY ServersAssumption
<1>2. Max0(Held(u)) = 0 \/ Max0(Held(u)) \in Held(u)
  BY HeldType, HighestPosition
<1>3. getActorMaxRolePosition(u) = 0 \/ getActorMaxRolePosition(u) = Max0(Held(u))
  BY DEF getActorMaxRolePosition, Held
<1> QED BY <1>1, <1>2, <1>3

\* What a request may do to an account's rank.
Allowed(q, u) ==
  \/ q.op = "join" \/ q.by \in owner \/ ~Reads(q)
  \/ getActorMaxRolePosition(u)' < getActorMaxRolePosition(q.by)
  \/ \E r \in Roles : role'[r].pos >= Width \div 2

LEMMA LiftByAssign ==
  ASSUME Shape, Shape', NEW q \in reqs, assignRole(q), NEW u \in Users,
         getActorMaxRolePosition(u)' > getActorMaxRolePosition(u)
  PROVE  Allowed(q, u)
<1> SUFFICES ASSUME q.by \notin owner, Reads(q), \A r \in Roles : ~(role'[r].pos >= Width \div 2)
             PROVE  getActorMaxRolePosition(u)' < getActorMaxRolePosition(q.by)
  BY DEF Allowed
<1>0. /\ role' = role /\ member' = member /\ assigned' = assigned \cup {<<q.to, q.role>>} /\ q.op = "assign"
      /\ role \in [Roles -> [on : BOOLEAN, pos : Positions \cup {0, 2}, perms : SUBSET Perms]]
      /\ \A p \in Positions \cup {0, 2} : p \in Nat
  BY ServersAssumption DEF assignRole, Writing, Shape, TypeOK
<1>1. q.role \in Roles
  BY <1>0 DEF Shape, Form
<1>2. PICK p \in Nat : p = role[q.role].pos
  BY <1>0, <1>1
<1>3. Held(u)' \subseteq Held(u) \cup {p}
  BY <1>0, <1>2 DEF Held, RolesOf
<1>4. getActorMaxRolePosition(u)' = p
  BY <1>0, <1>3, LiftedTo
<1>5. \A r \in Roles : role[r].pos < Width \div 2
  <2>1. PICK h \in Nat : h = Width \div 2
    BY ServersAssumption
  <2>2. \A r \in Roles : role[r].pos \in Nat /\ ~(role[r].pos >= h)
    BY <1>0, <2>1
  <2>3. \A r \in Roles : role[r].pos < h
    BY <2>2
  <2> QED BY <2>1, <2>3
<1>6. getActorMaxRolePosition(q.by) < Width \div 2
  BY <1>5, RankSmall DEF Held, RolesOf
<1>7. canManageRoleAtPosition(q.by, p)
  BY <1>0, <1>2, ReadsOf DEF assignRoleReads, MayRank, MayManage
<1>8. p < getActorMaxRolePosition(q.by)
  BY <1>1, <1>2, <1>5, <1>6, <1>7, BelowManager
<1> QED BY <1>4, <1>8

LEMMA LiftByMove ==
  ASSUME Shape, Shape', NEW q \in reqs, moveRole(q), NEW u \in Users,
         getActorMaxRolePosition(u)' > getActorMaxRolePosition(u)
  PROVE  Allowed(q, u)
<1> SUFFICES ASSUME q.by \notin owner, Reads(q), \A r \in Roles : ~(role'[r].pos >= Width \div 2)
             PROVE  getActorMaxRolePosition(u)' < getActorMaxRolePosition(q.by)
  BY DEF Allowed
<1>0. /\ role' = IF role[q.role].on THEN [role EXCEPT ![q.role].pos = q.pos] ELSE role
      /\ member' = member /\ assigned' = assigned /\ q.op = "moveRole"
      /\ role \in [Roles -> [on : BOOLEAN, pos : Positions \cup {0, 2}, perms : SUBSET Perms]]
      /\ \A p \in Positions \cup {0, 2} : p \in Nat
  BY ServersAssumption DEF moveRole, Writing, Shape, TypeOK
<1>1. q.role \in Roles /\ q.pos \in Positions \cup {0}
  BY <1>0 DEF Shape, Form
<1>2. PICK p \in Nat : p = q.pos
  BY <1>0, <1>1
<1>3. role[q.role].on /\ canManageRoleAtPosition(q.by, p) /\ canManageRoleAtPosition(q.by, role[q.role].pos)
  BY <1>0, <1>2, ReadsOf DEF moveRoleReads, MayRank, MayManage
<1>4. role'[q.role].pos = p /\ \A r \in Roles \ {q.role} : role'[r].pos = role[r].pos
  BY <1>0, <1>1, <1>2, <1>3
<1>5. Held(u)' \subseteq Held(u) \cup {p}
  <2>1. \A r \in RolesOf(u)' : r \in RolesOf(u) /\ r \in Roles
    BY <1>0 DEF RolesOf
  <2> QED BY <2>1, <1>4 DEF Held
<1>6. getActorMaxRolePosition(u)' = p
  BY <1>0, <1>5, LiftedTo
<1>7. p < Width \div 2 /\ \A r \in Roles \ {q.role} : role[r].pos < Width \div 2
  BY <1>0, <1>1, <1>4, ServersAssumption
<1>8. getActorMaxRolePosition(q.by) < Width \div 2
  <2>1. getActorMaxRolePosition(q.by) # role[q.role].pos
    <3>1. PICK k \in Nat : k = getActorMaxRolePosition(q.by)
      BY RankType
    <3>2. PICK j \in Nat : j = role[q.role].pos
      BY <1>0, <1>1
    <3>3. Int32(j) < Int32(k)
      BY <1>3, <3>1, <3>2 DEF canManageRoleAtPosition
    <3>4. Int32(j) \in Int
      BY ServersAssumption DEF Int32
    <3> QED BY <3>1, <3>2, <3>3, <3>4
  <2>2. getActorMaxRolePosition(q.by) = 0 \/ getActorMaxRolePosition(q.by) \in Held(q.by)
    <3>1. Max0(Held(q.by)) = 0 \/ Max0(Held(q.by)) \in Held(q.by)
      BY HeldType, HighestPosition
    <3> QED BY <3>1 DEF getActorMaxRolePosition, Held
  <2>3. 0 < Width \div 2
    BY ServersAssumption
  <2> QED BY <1>7, <2>1, <2>2, <2>3 DEF Held, RolesOf
<1>9. p < getActorMaxRolePosition(q.by)
  BY <1>2, <1>3, <1>7, <1>8, BelowManager
<1> QED BY <1>6, <1>9

\* Every other handler lifts nobody.
LEMMA NoLiftElse ==
  ASSUME Shape, Shape', RolesHeldExist, NEW q \in reqs, Writes(q), ~assignRole(q), ~moveRole(q), ~joinByToken(q),
         NEW u \in Users
  PROVE  ~(getActorMaxRolePosition(u)' > getActorMaxRolePosition(u))
<1>0. role \in [Roles -> [on : BOOLEAN, pos : Positions \cup {0, 2}, perms : SUBSET Perms]] /\ Form(q)
  BY DEF Shape, TypeOK
<1>s. ASSUME member' \subseteq member, assigned' \subseteq assigned,
             \A a \in assigned' : a[2] \in Roles => role'[a[2]].pos = role[a[2]].pos
      PROVE  ~(getActorMaxRolePosition(u)' > getActorMaxRolePosition(u))
  <2>1. \A r \in RolesOf(u)' : r \in RolesOf(u) /\ role'[r].pos = role[r].pos
    BY <1>s DEF RolesOf
  <2>2. Held(u)' \subseteq Held(u)
    BY <2>1 DEF Held
  <2> QED BY <2>2, <1>s, NotLifted
<1>a. CASE leaveServer(q) \/ kickMember(q) \/ banMember(q)
  BY <1>a, <1>s DEF leaveServer, kickMember, banMember, Removes
<1>b. CASE closeServer(q)
  BY <1>b, <1>s DEF closeServer
<1>c. CASE createRole(q)
  <2>1. /\ q.role \in Roles /\ role' = [role EXCEPT ![q.role] = [on |-> TRUE, pos |-> q.pos, perms |-> q.allow]]
        /\ member' = member /\ assigned' = assigned /\ ~role[q.role].on
    BY <1>c, <1>0 DEF createRole, Writing, Form
  <2>2. \A a \in assigned : a[2] # q.role
    BY <2>1 DEF RolesHeldExist
  <2>3. \A a \in assigned' : a[2] \in Roles => role'[a[2]].pos = role[a[2]].pos
    BY <1>0, <2>1, <2>2
  <2> QED BY <2>1, <2>3, <1>s
<1>d. CASE editRole(q) \/ deleteRole(q)
  <2>1. /\ q.role \in Roles /\ member' = member /\ assigned' \subseteq assigned
        /\ role' \in {role, [role EXCEPT ![q.role].perms = q.allow], [role EXCEPT ![q.role].on = FALSE]}
    BY <1>d, <1>0 DEF editRole, deleteRole, Writing, Form
  <2>2. \A r \in Roles : role'[r].pos = role[r].pos
    BY <1>0, <2>1
  <2> QED BY <2>1, <2>2, <1>s
<1>e. CASE transferServer(q) \/ banDetail(q) \/ revokeRole(q) \/ channelPermissions(q) \/ invites(q) \/ inviteDelete(q)
  <2>1. member' = member /\ assigned' \subseteq assigned /\ role' = role
    BY <1>e DEF transferServer, banDetail, revokeRole, channelPermissions, invites, inviteDelete
  <2> QED BY <2>1, <1>s
<1> QED BY <1>a, <1>b, <1>c, <1>d, <1>e DEF Writes

LEMMA NoLiftStep ==
  ASSUME Shape, Shape', RolesHeldExist, Next, NEW u \in Users,
         getActorMaxRolePosition(u)' > getActorMaxRolePosition(u)
  PROVE  \E q \in reqs \ reqs' : Allowed(q, u)
<1>0. ASSUME UNCHANGED <<member, assigned, role>> PROVE FALSE
  <2>1. Held(u)' = Held(u)
    BY <1>0 DEF Held, RolesOf
  <2> QED BY <1>0, <2>1, NotLifted
<1>1. ASSUME NEW q \in reqs, Writes(q) PROVE q \in reqs \ reqs' /\ Allowed(q, u)
  <2>1. q.stage = "write"
    BY <1>1 DEF Writes, Writing, leaveServer, closeServer, transferServer, kickMember, banMember, banDetail, assignRole,
                revokeRole, createRole, moveRole, editRole, deleteRole, channelPermissions, invites, inviteDelete, joinByToken
  <2>2. q \notin reqs'
    <3>1. (GoesOn(q) \/ Returns(q)) /\ Form(q)
      BY <1>1, WritesNoList, ShapeSplit
    <3>2. [q EXCEPT !.stage = "purge"].stage = "purge"
      BY <3>1 DEF Form
    <3> QED BY <2>1, <3>1, <3>2 DEF GoesOn, Returns
  <2>3. Allowed(q, u)
    <3>1. CASE assignRole(q)
      BY <3>1, LiftByAssign
    <3>2. CASE moveRole(q)
      BY <3>2, LiftByMove
    <3>3. CASE joinByToken(q)
      BY <3>3 DEF joinByToken, Writing, Allowed
    <3> QED BY <1>1, <3>1, <3>2, <3>3, NoLiftElse
  <2> QED BY <2>2, <2>3
<1>2. ASSUME NEW q \in Requests, Ask(q) PROVE FALSE
  BY <1>2, <1>0 DEF Ask
<1>3. ASSUME NEW q \in reqs, Refused(q) \/ Purges(q) \/ ListPut(q) PROVE FALSE
  BY <1>3, <1>0 DEF Refused, Purges, ListPut
<1>4. ASSUME FillRead \/ FillPut \/ Expire PROVE FALSE
  BY <1>4, <1>0 DEF FillRead, FillPut, Expire
<1>5. ASSUME NEW v \in Users, ListExpire(v) PROVE FALSE
  BY <1>5, <1>0 DEF ListExpire
<1> QED BY <1>1, <1>2, <1>3, <1>4, <1>5 DEF Next, Step

(* Nobody but the owner lifts an account to his own rank or above: only an   *)
(* assignment, a role's new position or a join can raise anybody's highest   *)
(* role, and the first two write a position that the 32-bit comparison has   *)
(* found below the requester's own.                                          *)
THEOREM NoLiftHolds == Spec => NoLiftToOwnRank
<1> DEFINE I == Shape /\ RolesHeldExist
           A == \A u \in Users :
                  getActorMaxRolePosition(u)' > getActorMaxRolePosition(u) => \E q \in reqs \ reqs' : Allowed(q, u)
<1>1. Init => I
  BY StartShape, RolesHeldExistStart
<1>2. I /\ [Next]_vars => I'
  BY ShapeNext, RolesHeldExistNext
<1>3. I /\ I' /\ [Next]_vars => [A]_vars
  BY NoLiftStep
<1>4. [A]_vars <=> [\A u \in Users :
       getActorMaxRolePosition(u)' > getActorMaxRolePosition(u) =>
         \E q \in reqs \ reqs' :
           \/ q.op = "join" \/ q.by \in owner \/ ~Reads(q)
           \/ getActorMaxRolePosition(u)' < getActorMaxRolePosition(q.by)
           \/ \E r \in Roles : role'[r].pos >= Width \div 2]_vars
  BY DEF Allowed
<1> QED BY <1>1, <1>2, <1>3, <1>4, PTL DEF Spec, NoLiftToOwnRank

-----------------------------------------------------------------------------
(* The sender keys of a channel (ChannelKeys).                                *)
Excuses == {"untold", "hidden", "closed", "unseen", "shut out", "failed"}

KeyTypes ==
  /\ inside \in SUBSET Users /\ viewers \in SUBSET inside
  /\ holders \in Seq(SUBSET Users) /\ mine \in [Users -> 0..Len(holders)]
  /\ kdue \in [Users -> SUBSET Users] /\ batch \in [Users -> SUBSET Users]
  /\ pass \in [Users -> K!Passes \cup {Nil}] /\ blame \in [Users -> SUBSET Excuses]

\* A key is one user's own, also while its post is under way.
Posting(u) == pass[u] # Nil /\ pass[u].at = "post"
OwnKeys ==
  /\ \A u, v \in Users : u # v /\ mine[u] # 0 => mine[u] # mine[v]
  /\ \A u \in Users : Posting(u) => /\ pass[u].key \in 1..Len(holders)
                                    /\ \A v \in Users \ {u} : mine[v] # pass[u].key

\* A user's key is about to be replaced or dropped, or else each of those who
\* hold it is a viewer, or a departure that she has yet to act on.
Rekeying(u) == pass[u] # Nil /\ pass[u].at \in {"ask", "make"}
Accounted(u) == IF u \in inside THEN holders[mine[u]] \subseteq {u} \cup viewers \cup kdue[u] \cup batch[u]
                ELSE holders[mine[u]] \subseteq {u}
Followed(u) == mine[u] # 0 /\ blame[u] = {} => Rekeying(u) \/ u \in kdue[u] \/ Accounted(u)
ChannelInv == KeyTypes /\ OwnKeys /\ \A u \in Users : Followed(u)

LEMMA ChannelStart == K!KInit => ChannelInv
<1> SUFFICES ASSUME K!KInit PROVE ChannelInv
  OBVIOUS
<1>1. holders = <<Users, Users>> /\ holders \in Seq(SUBSET Users) /\ Len(holders) = 2
  <2>1. holders = <<Users, Users>>
    BY DEF K!KInit
  <2> QED BY <2>1
<1>2. /\ inside = Users /\ viewers = Users /\ kdue = [u \in Users |-> {}] /\ batch = kdue
      /\ pass = [u \in Users |-> Nil] /\ blame = [u \in Users |-> {}]
  BY DEF K!KInit
<1>3. mine \in [Users -> 0..2] /\ \A u, v \in Users : u # v /\ mine[u] # 0 => mine[u] # mine[v]
  <2>1. PICK a, b \in Users : a # b /\ mine = [u \in Users |-> IF u = a THEN 1 ELSE IF u = b THEN 2 ELSE 0]
    BY DEF K!KInit
  <2> QED BY <2>1
<1>4. KeyTypes
  BY <1>1, <1>2, <1>3 DEF KeyTypes
<1>5. OwnKeys
  BY <1>2, <1>3 DEF OwnKeys, Posting
<1>6. \A u \in Users : mine[u] # 0 => Accounted(u)
  <2>1. \A u \in Users : mine[u] # 0 => mine[u] \in {1, 2} 
    BY <1>3
  <2> QED BY <1>1, <1>2, <2>1 DEF Accounted
<1> QED BY <1>4, <1>5, <1>6 DEF ChannelInv, Followed

LEMMA ExcusesType ==
  ASSUME KeyTypes, NEW U \in SUBSET Users, NEW w \in Excuses, K!Blaming(U, w)
  PROVE  /\ blame' \in [Users -> SUBSET Excuses]
         /\ \A u \in Users : IF u \in U THEN blame'[u] # {} ELSE blame'[u] = blame[u]
BY DEF KeyTypes, K!Blaming

LEMMA DepartsKeeps ==
  ASSUME ChannelInv, NEW h \in Users, NEW told \in SUBSET Users, K!Departs(h, told),
         told \in {inside, inside \ {h}}
  PROVE  ChannelInv'
<1>1. /\ inside' = inside \ {h} /\ viewers' = viewers \ {h} /\ h \in inside
      /\ kdue' = [u \in Users |-> IF u \in told \cap online THEN kdue[u] \cup {h} ELSE kdue[u]]
      /\ UNCHANGED <<mine, holders, batch, pass>>
  BY DEF K!Departs
<1>2. /\ blame' \in [Users -> SUBSET Excuses]
      /\ \A u \in Users : IF u \in (inside \cap K!Keyed) \ (told \cap online) THEN blame'[u] # {} ELSE blame'[u] = blame[u]
  <2>1. K!Blaming((inside \cap K!Keyed) \ (told \cap online), "untold")
    BY DEF K!Departs
  <2>2. (inside \cap K!Keyed) \ (told \cap online) \in SUBSET Users
    BY DEF K!Keyed
  <2>3. "untold" \in Excuses /\ KeyTypes
    BY DEF ChannelInv, Excuses
  <2> QED BY <2>1, <2>2, <2>3, ExcusesType
<1>3. KeyTypes'
  BY <1>1, <1>2 DEF ChannelInv, KeyTypes
<1>4. OwnKeys'
  BY <1>1 DEF ChannelInv, OwnKeys, Posting
<1>5. ASSUME NEW u \in Users, mine[u] # 0, blame'[u] = {} PROVE (Rekeying(u) \/ u \in kdue[u] \/ Accounted(u))'
  <2>1. blame[u] = {} /\ (u \in inside => u \in told /\ u \in online)
    BY <1>2, <1>5 DEF K!Keyed
  <2>2. Rekeying(u) \/ u \in kdue[u] \/ Accounted(u)
    BY <2>1, <1>5 DEF ChannelInv, Followed
  <2>3. kdue[u] \subseteq kdue'[u] /\ (u \in inside => h \in kdue'[u])
    BY <1>1, <2>1 DEF ChannelInv, KeyTypes
  <2>4. CASE Rekeying(u) \/ u \in kdue[u]
    BY <2>3, <2>4, <1>1 DEF Rekeying
  <2>5. CASE Accounted(u)
    BY <2>3, <2>5, <1>1 DEF Accounted
  <2> QED BY <2>2, <2>4, <2>5
<1> QED BY <1>1, <1>3, <1>4, <1>5 DEF ChannelInv, Followed

\* Steps after which a user's key, its holders and her departures are as before.
LEMMA SameKeys ==
  ASSUME ChannelInv, UNCHANGED <<mine, holders, batch, pass, blame, kdue>>,
         inside' \in SUBSET Users, viewers' \in SUBSET inside', viewers \subseteq viewers', inside \subseteq inside'
  PROVE  ChannelInv'
<1>1. KeyTypes'
  BY DEF ChannelInv, KeyTypes
<1>2. OwnKeys'
  BY DEF ChannelInv, OwnKeys, Posting
<1>3. ASSUME NEW u \in Users PROVE Followed(u)'
  BY DEF ChannelInv, Followed, Rekeying, Accounted
<1> QED BY <1>1, <1>2, <1>3 DEF ChannelInv

LEMMA JoinKeeps ==
  ASSUME ChannelInv, NEW h \in Users, K!join(h) \/ K!Connect(h) \/ K!Visit(h)
  PROVE  ChannelInv'
<1>1. KeyTypes
  BY DEF ChannelInv
<1>2. CASE K!join(h)
  <2>1. UNCHANGED <<mine, holders, batch, pass, blame, kdue>> /\ inside' = inside \cup {h} /\ viewers' = viewers \cup {h}
    BY <1>2 DEF K!join
  <2> QED BY <1>1, <2>1, SameKeys DEF KeyTypes
<1>3. CASE K!Connect(h) \/ K!Visit(h)
  <2>1. UNCHANGED <<mine, holders, batch, pass, blame, kdue, inside, viewers>>
    BY <1>3 DEF K!Connect, K!Visit
  <2> QED BY <1>1, <2>1, SameKeys DEF KeyTypes
<1> QED BY <1>2, <1>3

LEMMA HideKeeps ==
  ASSUME ChannelInv, NEW h \in Users, K!Hide(h) PROVE ChannelInv'
<1>1. viewers' = viewers \ {h} /\ UNCHANGED <<inside, mine, holders, kdue, batch, pass>>
  BY DEF K!Hide
<1>2. /\ blame' \in [Users -> SUBSET Excuses]
      /\ \A u \in Users : IF u \in K!Keyed THEN blame'[u] # {} ELSE blame'[u] = blame[u]
  <2>1. K!Blaming(K!Keyed, "hidden") /\ K!Keyed \in SUBSET Users /\ "hidden" \in Excuses /\ KeyTypes
    BY DEF K!Hide, K!Keyed, Excuses, ChannelInv
  <2> QED BY <2>1, ExcusesType
<1>3. KeyTypes'
  BY <1>1, <1>2 DEF ChannelInv, KeyTypes
<1>4. OwnKeys'
  BY <1>1 DEF ChannelInv, OwnKeys, Posting
<1>5. \A u \in Users : mine'[u] # 0 => blame'[u] # {}
  BY <1>1, <1>2 DEF K!Keyed
<1> QED BY <1>3, <1>4, <1>5 DEF ChannelInv, Followed

\* Of the one user that a step is about, it is enough to say that all is in
\* order with her; of the others, nothing has changed.
LEMMA OneUsersKey ==
  ASSUME ChannelInv, NEW u \in Users, UNCHANGED <<inside, viewers, holders>>, KeyTypes', OwnKeys', Followed(u)',
         \A v \in Users \ {u} : mine'[v] = mine[v] /\ kdue'[v] = kdue[v] /\ batch'[v] = batch[v]
                                /\ pass'[v] = pass[v] /\ blame'[v] = blame[v]
  PROVE  ChannelInv'
<1>1. ASSUME NEW v \in Users \ {u} PROVE Followed(v)'
  BY <1>1 DEF ChannelInv, Followed, Rekeying, Accounted
<1> QED BY <1>1 DEF ChannelInv

\* A step that gives up a rotation, or forgets a user's departures, and says why.
LEMMA GivenUp ==
  ASSUME ChannelInv, NEW u \in Users, UNCHANGED <<inside, viewers, holders, mine>>,
         kdue' \in [Users -> SUBSET Users], batch' \in [Users -> SUBSET Users],
         blame' \in [Users -> SUBSET Excuses], pass' = pass \/ pass' = [pass EXCEPT ![u] = Nil],
         \A v \in Users \ {u} : kdue'[v] = kdue[v] /\ batch'[v] = batch[v] /\ blame'[v] = blame[v],
         mine[u] # 0 /\ blame'[u] = {} => kdue'[u] = kdue[u] /\ batch'[u] = batch[u] /\ pass'[u] = pass[u] /\ blame'[u] = blame[u]
  PROVE  ChannelInv'
<1>1. KeyTypes /\ OwnKeys /\ Followed(u)
  BY DEF ChannelInv
<1>2. \A v \in Users : pass'[v] = pass[v] \/ (v = u /\ pass'[v] = Nil)
  BY <1>1 DEF KeyTypes
<1>3. KeyTypes'
  BY <1>1 DEF KeyTypes
<1>4. OwnKeys'
  BY <1>1, <1>2 DEF OwnKeys, Posting
<1>5. Followed(u)'
  BY <1>1 DEF Followed, Rekeying, Accounted
<1> QED BY <1>2, <1>3, <1>4, <1>5, OneUsersKey

LEMMA DisconnectKeeps ==
  ASSUME ChannelInv, NEW u \in Users, K!Disconnect(u) PROVE ChannelInv'
<1>0. KeyTypes
  BY DEF ChannelInv
<1>1. UNCHANGED <<inside, viewers, holders, mine, batch, pass>> /\ kdue' = [kdue EXCEPT ![u] = {}]
  BY DEF K!Disconnect
<1>2. /\ blame' \in [Users -> SUBSET Excuses] /\ \A v \in Users \ {u} : blame'[v] = blame[v]
      /\ IF kdue[u] # {} /\ mine[u] # 0 THEN blame'[u] # {} ELSE blame'[u] = blame[u]
  <2>1. PICK U \in SUBSET Users : U = IF kdue[u] # {} /\ mine[u] # 0 THEN {u} ELSE {}
    OBVIOUS
  <2>2. K!Blaming(U, "untold") /\ "untold" \in Excuses
    BY <2>1 DEF K!Disconnect, Excuses
  <2> QED BY <1>0, <2>1, <2>2, ExcusesType
<1>3. kdue' \in [Users -> SUBSET Users] /\ kdue'[u] = {} /\ \A v \in Users \ {u} : kdue'[v] = kdue[v]
  BY <1>0, <1>1 DEF KeyTypes
<1>4. batch' \in [Users -> SUBSET Users]
  BY <1>0, <1>1 DEF KeyTypes
<1> QED BY <1>1, <1>2, <1>3, <1>4, GivenUp

LEMMA CloseAppKeeps ==
  ASSUME ChannelInv, NEW u \in Users, K!CloseApp(u) PROVE ChannelInv'
<1>0. KeyTypes
  BY DEF ChannelInv
<1>1. /\ UNCHANGED <<inside, viewers, holders, mine>> /\ kdue' = [kdue EXCEPT ![u] = {}]
      /\ batch' = [batch EXCEPT ![u] = {}] /\ pass' = [pass EXCEPT ![u] = Nil]
  BY DEF K!CloseApp
<1>2. /\ blame' \in [Users -> SUBSET Excuses] /\ \A v \in Users \ {u} : blame'[v] = blame[v]
      /\ IF (kdue[u] # {} \/ batch[u] # {} \/ pass[u] # Nil) /\ mine[u] # 0 THEN blame'[u] # {} ELSE blame'[u] = blame[u]
  <2>1. PICK U \in SUBSET Users :
          U = IF (kdue[u] # {} \/ batch[u] # {} \/ pass[u] # Nil) /\ mine[u] # 0 THEN {u} ELSE {}
    OBVIOUS
  <2>2. K!Blaming(U, "closed") /\ "closed" \in Excuses
    BY <2>1 DEF K!CloseApp, Excuses
  <2> QED BY <1>0, <2>1, <2>2, ExcusesType
<1>3. /\ kdue' \in [Users -> SUBSET Users] /\ kdue'[u] = {} /\ \A v \in Users \ {u} : kdue'[v] = kdue[v]
      /\ batch' \in [Users -> SUBSET Users] /\ batch'[u] = {} /\ \A v \in Users \ {u} : batch'[v] = batch[v]
      /\ pass'[u] = Nil
  BY <1>0, <1>1 DEF KeyTypes
<1> QED BY <1>1, <1>2, <1>3, GivenUp

LEMMA AskFailsKeeps ==
  ASSUME ChannelInv, NEW u \in Users, K!AskFails(u) PROVE ChannelInv'
<1>0. KeyTypes
  BY DEF ChannelInv
<1>1. UNCHANGED <<inside, viewers, holders, mine, kdue, batch>> /\ pass' = [pass EXCEPT ![u] = Nil]
  BY DEF K!AskFails
<1>2. /\ blame' \in [Users -> SUBSET Excuses] /\ \A v \in Users \ {u} : blame'[v] = blame[v]
      /\ mine[u] # 0 => blame'[u] # {}
  <2>1. K!Blaming({u} \cap K!Keyed, "failed") /\ "failed" \in Excuses
    BY DEF K!AskFails, Excuses
  <2>2. {u} \cap K!Keyed \in SUBSET Users /\ (mine[u] # 0 => u \in K!Keyed)
    BY DEF K!Keyed
  <2> QED BY <1>0, <2>1, <2>2, ExcusesType
<1>3. kdue' \in [Users -> SUBSET Users] /\ batch' \in [Users -> SUBSET Users]
  BY <1>0, <1>1 DEF KeyTypes
<1> QED BY <1>1, <1>2, <1>3, GivenUp

LEMMA AskedKeeps ==
  ASSUME ChannelInv, NEW u \in Users, K!Asked(u) PROVE ChannelInv'
<1>0. KeyTypes /\ OwnKeys
  BY DEF ChannelInv
<1>1. UNCHANGED <<inside, viewers, holders, mine, kdue, batch>> /\ pass[u] # Nil
  BY DEF K!Asked
<1>2. CASE u \in viewers /\ mine[u] # 0
  <2>1. /\ blame' = blame
        /\ pass' = [pass EXCEPT ![u] = [at |-> "make", gone |-> @.gone, to |-> K!Recipients(u, @.gone), key |-> 0]]
    BY <1>2 DEF K!Asked
  <2>2. pass[u] \in K!Passes /\ K!Recipients(u, pass[u].gone) \in SUBSET Users
    BY <1>0, <1>1 DEF KeyTypes, K!Recipients
  <2>3. PICK p : p = [at |-> "make", gone |-> pass[u].gone, to |-> K!Recipients(u, pass[u].gone), key |-> 0]
    OBVIOUS
  <2>4. p \in K!Passes /\ p.at = "make" /\ p # Nil
    BY <2>2, <2>3, NilAssumption DEF K!Passes
  <2>5. pass' = [pass EXCEPT ![u] = p]
    BY <1>0, <2>1, <2>3 DEF KeyTypes
  <2>6. pass'[u] = p /\ \A v \in Users \ {u} : pass'[v] = pass[v]
    BY <1>0, <2>5 DEF KeyTypes
  <2>7. KeyTypes'
    BY <1>0, <1>1, <2>1, <2>4, <2>5 DEF KeyTypes
  <2>8. OwnKeys'
    BY <1>0, <1>1, <2>4, <2>6 DEF OwnKeys, Posting
  <2>9. Followed(u)'
    BY <2>4, <2>6 DEF Followed, Rekeying
  <2> QED BY <1>1, <2>1, <2>6, <2>7, <2>8, <2>9, OneUsersKey
<1>3. CASE ~(u \in viewers /\ mine[u] # 0)
  <2>1. pass' = [pass EXCEPT ![u] = Nil] /\ K!Blaming({u} \cap K!Keyed, "shut out") /\ "shut out" \in Excuses
    BY <1>3 DEF K!Asked, Excuses
  <2>2. {u} \cap K!Keyed \in SUBSET Users /\ (mine[u] # 0 => u \in K!Keyed)
    BY DEF K!Keyed
  <2>3. /\ blame' \in [Users -> SUBSET Excuses] /\ \A v \in Users \ {u} : blame'[v] = blame[v]
        /\ mine[u] # 0 => blame'[u] # {}
    BY <1>0, <2>1, <2>2, ExcusesType
  <2>4. kdue' \in [Users -> SUBSET Users] /\ batch' \in [Users -> SUBSET Users]
    BY <1>0, <1>1 DEF KeyTypes
  <2> QED BY <1>1, <2>1, <2>3, <2>4, GivenUp
<1> QED BY <1>2, <1>3

LEMMA FireKeeps ==
  ASSUME ChannelInv, NEW u \in Users, K!Fire(u) PROVE ChannelInv'
<1>0. KeyTypes /\ OwnKeys
  BY DEF ChannelInv
<1>1. UNCHANGED <<inside, viewers, holders, mine, kdue>> /\ batch' = [batch EXCEPT ![u] = {}]
  BY DEF K!Fire
<1>2. batch' \in [Users -> SUBSET Users] /\ kdue' \in [Users -> SUBSET Users] /\ \A v \in Users \ {u} : batch'[v] = batch[v]
  BY <1>0, <1>1 DEF KeyTypes
<1>3. CASE u \in visited /\ mine[u] # 0
  <2>1. PICK p : p = [at |-> "ask", gone |-> batch[u], to |-> {}, key |-> 0]
    OBVIOUS
  <2>2. blame' = blame /\ pass' = [pass EXCEPT ![u] = p]
    BY <1>3, <2>1 DEF K!Fire
  <2>3. p \in K!Passes /\ p.at = "ask" /\ p # Nil
    BY <1>0, <2>1, NilAssumption DEF K!Passes, KeyTypes
  <2>4. pass'[u] = p /\ \A v \in Users \ {u} : pass'[v] = pass[v]
    BY <1>0, <2>2 DEF KeyTypes
  <2>5. KeyTypes'
    BY <1>0, <1>1, <1>2, <2>2, <2>3 DEF KeyTypes
  <2>6. OwnKeys'
    BY <1>0, <1>1, <2>3, <2>4 DEF OwnKeys, Posting
  <2>7. Followed(u)'
    BY <2>3, <2>4 DEF Followed, Rekeying
  <2> QED BY <1>1, <1>2, <2>2, <2>4, <2>5, <2>6, <2>7, OneUsersKey
<1>4. CASE ~(u \in visited /\ mine[u] # 0)
  <2>1. pass' = pass /\ K!Blaming({u} \cap K!Keyed, "unseen") /\ "unseen" \in Excuses
    BY <1>4 DEF K!Fire, Excuses
  <2>2. {u} \cap K!Keyed \in SUBSET Users /\ (mine[u] # 0 => u \in K!Keyed)
    BY DEF K!Keyed
  <2>3. /\ blame' \in [Users -> SUBSET Excuses] /\ \A v \in Users \ {u} : blame'[v] = blame[v]
        /\ mine[u] # 0 => blame'[u] # {}
    BY <1>0, <2>1, <2>2, ExcusesType
  <2> QED BY <1>1, <1>2, <2>1, <2>3, GivenUp
<1> QED BY <1>3, <1>4

LEMMA HearKeeps ==
  ASSUME ChannelInv, NEW u \in Users, NEW h \in Users, K!Hear(u, h) PROVE ChannelInv'
<1>0. KeyTypes /\ OwnKeys /\ Followed(u)
  BY DEF ChannelInv
<1>1. UNCHANGED <<inside, viewers, holders, pass>> /\ kdue' = [kdue EXCEPT ![u] = @ \ {h}] /\ h \in kdue[u]
  BY DEF K!Hear
<1>2. /\ kdue' \in [Users -> SUBSET Users] /\ kdue'[u] = kdue[u] \ {h} /\ \A v \in Users \ {u} : kdue'[v] = kdue[v]
  BY <1>0, <1>1 DEF KeyTypes
<1>3. CASE h # u
  <2>1. batch' = [batch EXCEPT ![u] = @ \cup {h}] /\ UNCHANGED <<mine, blame>>
    BY <1>3 DEF K!Hear
  <2>2. batch' \in [Users -> SUBSET Users] /\ batch'[u] = batch[u] \cup {h} /\ \A v \in Users \ {u} : batch'[v] = batch[v]
    BY <1>0, <2>1 DEF KeyTypes
  <2>3. KeyTypes'
    BY <1>0, <1>1, <1>2, <2>1, <2>2 DEF KeyTypes
  <2>4. OwnKeys'
    BY <1>0, <1>1, <2>1 DEF OwnKeys, Posting
  <2>5. Followed(u)'
    BY <1>0, <1>1, <1>2, <1>3, <2>1, <2>2 DEF Followed, Rekeying, Accounted
  <2> QED BY <1>1, <1>2, <2>1, <2>2, <2>3, <2>4, <2>5, OneUsersKey
<1>4. CASE h = u /\ u \in visited
  <2>1. batch' = batch /\ mine' = [mine EXCEPT ![u] = 0] /\ blame' = [blame EXCEPT ![u] = {}]
    BY <1>4 DEF K!Hear, K!Drop
  <2>2. mine'[u] = 0 /\ \A v \in Users \ {u} : mine'[v] = mine[v] /\ blame'[v] = blame[v]
    BY <1>0, <2>1 DEF KeyTypes
  <2>3. KeyTypes'
    BY <1>0, <1>1, <1>2, <2>1 DEF KeyTypes
  <2>4. OwnKeys'
    BY <1>0, <1>1, <2>2 DEF OwnKeys, Posting
  <2>5. Followed(u)'
    BY <2>2 DEF Followed
  <2> QED BY <1>1, <1>2, <2>1, <2>2, <2>3, <2>4, <2>5, OneUsersKey
<1>5. CASE h = u /\ u \notin visited
  <2>1. UNCHANGED <<batch, mine>> /\ K!Blaming({u} \cap K!Keyed, "unseen") /\ "unseen" \in Excuses
    BY <1>5 DEF K!Hear, K!Drop, Excuses
  <2>2. {u} \cap K!Keyed \in SUBSET Users /\ (mine[u] # 0 => u \in K!Keyed)
    BY DEF K!Keyed
  <2>3. /\ blame' \in [Users -> SUBSET Excuses] /\ \A v \in Users \ {u} : blame'[v] = blame[v]
        /\ mine[u] # 0 => blame'[u] # {}
    BY <1>0, <2>1, <2>2, ExcusesType
  <2>4. batch' \in [Users -> SUBSET Users]
    BY <1>0, <2>1 DEF KeyTypes
  <2> QED BY <1>1, <1>2, <2>1, <2>3, <2>4, GivenUp
<1> QED BY <1>3, <1>4, <1>5

LEMMA MadeKeeps ==
  ASSUME ChannelInv, NEW u \in Users, K!Made(u) PROVE ChannelInv'
<1>0. KeyTypes /\ OwnKeys
  BY DEF ChannelInv
<1>1. /\ UNCHANGED <<inside, viewers, kdue, batch>> /\ pass[u] # Nil /\ holders' = Append(holders, {u})
      /\ mine' = [mine EXCEPT ![u] = Len(holders')] /\ blame' = [blame EXCEPT ![u] = {}]
      /\ pass' = [pass EXCEPT ![u] = [at |-> "post", gone |-> @.gone, to |-> @.to, key |-> Len(holders')]]
  BY DEF K!Made
<1>2. PICK n \in Nat : n = Len(holders)
  BY <1>0 DEF KeyTypes
<1>3. /\ holders' \in Seq(SUBSET Users) /\ Len(holders') = n + 1 /\ holders'[n + 1] = {u}
      /\ \A k \in 1..n : holders'[k] = holders[k]
  <2>1. holders \in Seq(SUBSET Users) /\ {u} \in SUBSET Users
    BY <1>0 DEF KeyTypes
  <2> QED BY <1>1, <1>2, <2>1
<1>4. /\ mine \in [Users -> 0..n] /\ mine' \in [Users -> 0..(n + 1)] /\ mine'[u] = n + 1
      /\ \A v \in Users \ {u} : mine'[v] = mine[v] /\ mine[v] \in 0..n
  <2>1. mine \in [Users -> 0..n] /\ mine' = [mine EXCEPT ![u] = n + 1]
    BY <1>0, <1>1, <1>2, <1>3 DEF KeyTypes
  <2> QED BY <2>1
<1>5. PICK p : p = [at |-> "post", gone |-> pass[u].gone, to |-> pass[u].to, key |-> n + 1]
  OBVIOUS
<1>6. p \in K!Passes /\ p.at = "post" /\ p.key = n + 1 /\ pass' = [pass EXCEPT ![u] = p]
  <2>1. pass[u] \in K!Passes
    BY <1>0, <1>1 DEF KeyTypes
  <2>2. p \in K!Passes /\ p.at = "post" /\ p.key = n + 1
    BY <1>5, <2>1 DEF K!Passes
  <2>3. pass' = [pass EXCEPT ![u] = p]
    BY <1>0, <1>1, <1>3, <1>5 DEF KeyTypes
  <2> QED BY <2>2, <2>3
<1>7. pass'[u] = p /\ (\A v \in Users \ {u} : pass'[v] = pass[v]) /\ pass' \in [Users -> K!Passes \cup {Nil}]
  BY <1>0, <1>6 DEF KeyTypes
<1>8. /\ blame' \in [Users -> SUBSET Excuses] /\ \A v \in Users \ {u} : blame'[v] = blame[v]
  BY <1>0, <1>1 DEF KeyTypes
<1>9. KeyTypes'
  BY <1>0, <1>1, <1>3, <1>4, <1>7, <1>8 DEF KeyTypes
<1>10. OwnKeys'
  <2>1. \A v, w \in Users : v # w /\ mine'[v] # 0 => mine'[v] # mine'[w]
    BY <1>0, <1>4 DEF OwnKeys
  <2>2. ASSUME NEW v \in Users, Posting(v)'
        PROVE  pass'[v].key \in 1..(n + 1) /\ \A w \in Users \ {v} : mine'[w] # pass'[v].key
    <3>1. CASE v = u
      BY <1>4, <1>6, <1>7, <3>1
    <3>2. CASE v # u
      <4>1. pass[v].key \in 1..n /\ \A w \in Users \ {v} : mine[w] # pass[v].key
        BY <1>0, <1>2, <1>7, <2>2, <3>2 DEF OwnKeys, Posting
      <4> QED BY <1>4, <1>7, <3>2, <4>1
    <3> QED BY <3>1, <3>2
  <2> QED BY <1>3, <2>1, <2>2 DEF OwnKeys
<1>11. Accounted(u)'
  BY <1>3, <1>4 DEF Accounted
<1>12. ASSUME NEW v \in Users \ {u}, mine'[v] # 0, blame'[v] = {} PROVE (Rekeying(v) \/ v \in kdue[v] \/ Accounted(v))'
  <2>1. mine[v] # 0 /\ mine[v] \in 1..n /\ mine'[v] = mine[v] /\ blame[v] = {} /\ pass'[v] = pass[v]
    BY <1>4, <1>7, <1>8, <1>12
  <2>2. holders'[mine'[v]] = holders[mine[v]]
    BY <1>3, <2>1
  <2>3. Rekeying(v) \/ v \in kdue[v] \/ Accounted(v)
    BY <2>1 DEF ChannelInv, Followed
  <2> QED BY <1>1, <2>1, <2>2, <2>3 DEF Rekeying, Accounted
<1> QED BY <1>9, <1>10, <1>11, <1>12 DEF ChannelInv, Followed

LEMMA FirstMessageKeeps ==
  ASSUME ChannelInv, NEW u \in Users, K!FirstMessage(u) PROVE ChannelInv'
<1>0. KeyTypes /\ OwnKeys
  BY DEF ChannelInv
<1>1. /\ UNCHANGED <<inside, viewers, kdue, batch, pass>> /\ u \in viewers /\ holders' = Append(holders, viewers)
      /\ mine' = [mine EXCEPT ![u] = Len(holders')] /\ blame' = [blame EXCEPT ![u] = {}]
  BY DEF K!FirstMessage
<1>2. PICK n \in Nat : n = Len(holders)
  BY <1>0 DEF KeyTypes
<1>3. /\ holders' \in Seq(SUBSET Users) /\ Len(holders') = n + 1 /\ holders'[n + 1] = viewers
      /\ \A k \in 1..n : holders'[k] = holders[k]
  <2>1. holders \in Seq(SUBSET Users) /\ viewers \in SUBSET Users
    BY <1>0 DEF KeyTypes
  <2> QED BY <1>1, <1>2, <2>1
<1>4. /\ mine \in [Users -> 0..n] /\ mine' \in [Users -> 0..(n + 1)] /\ mine'[u] = n + 1
      /\ \A v \in Users \ {u} : mine'[v] = mine[v] /\ mine[v] \in 0..n
  <2>1. mine \in [Users -> 0..n] /\ mine' = [mine EXCEPT ![u] = n + 1]
    BY <1>0, <1>1, <1>2, <1>3 DEF KeyTypes
  <2> QED BY <2>1
<1>5. /\ blame' \in [Users -> SUBSET Excuses] /\ \A v \in Users \ {u} : blame'[v] = blame[v]
  BY <1>0, <1>1 DEF KeyTypes
<1>6. KeyTypes'
  BY <1>0, <1>1, <1>3, <1>4, <1>5 DEF KeyTypes
<1>7. OwnKeys'
  <2>1. \A v, w \in Users : v # w /\ mine'[v] # 0 => mine'[v] # mine'[w]
    BY <1>0, <1>4 DEF OwnKeys
  <2>2. ASSUME NEW v \in Users, Posting(v)'
        PROVE  pass'[v].key \in 1..(n + 1) /\ \A w \in Users \ {v} : mine'[w] # pass'[v].key
    <3>1. pass'[v] = pass[v] /\ pass[v].key \in 1..n /\ \A w \in Users \ {v} : mine[w] # pass[v].key
      BY <1>0, <1>1, <1>2, <2>2 DEF OwnKeys, Posting
    <3> QED BY <1>4, <3>1
  <2> QED BY <1>3, <2>1, <2>2 DEF OwnKeys
<1>8. Accounted(u)'
  BY <1>0, <1>1, <1>3, <1>4 DEF Accounted, KeyTypes
<1>9. ASSUME NEW v \in Users \ {u}, mine'[v] # 0, blame'[v] = {} PROVE (Rekeying(v) \/ v \in kdue[v] \/ Accounted(v))'
  <2>1. mine[v] # 0 /\ mine[v] \in 1..n /\ mine'[v] = mine[v] /\ blame[v] = {}
    BY <1>4, <1>5, <1>9
  <2>2. holders'[mine'[v]] = holders[mine[v]]
    BY <1>3, <2>1
  <2>3. Rekeying(v) \/ v \in kdue[v] \/ Accounted(v)
    BY <2>1 DEF ChannelInv, Followed
  <2> QED BY <1>1, <2>1, <2>2, <2>3 DEF Rekeying, Accounted
<1> QED BY <1>6, <1>7, <1>8, <1>9 DEF ChannelInv, Followed

\* More users who may see the channel are given a key.
LEMMA Given ==
  ASSUME ChannelInv, NEW k \in 1..Len(holders), NEW S \in SUBSET viewers, holders' = [holders EXCEPT ![k] = @ \cup S],
         UNCHANGED <<inside, viewers, mine, kdue, batch, blame>>, pass' \in [Users -> K!Passes \cup {Nil}],
         \A u \in Users : pass'[u] = pass[u] \/ (pass'[u] = Nil /\ Posting(u)),
         \A u \in Users : mine[u] = k /\ u \notin inside => S = {}
  PROVE  ChannelInv'
<1>0. KeyTypes /\ OwnKeys /\ holders \in Seq(SUBSET Users)
  BY DEF ChannelInv, KeyTypes
<1>1. /\ holders' \in Seq(SUBSET Users) /\ Len(holders') = Len(holders) /\ holders'[k] = holders[k] \cup S
      /\ \A j \in 1..Len(holders) : j # k => holders'[j] = holders[j]
  <2>1. S \in SUBSET Users /\ holders[k] \in SUBSET Users
    BY <1>0 DEF KeyTypes
  <2>2. holders[k] \cup S \in SUBSET Users
    BY <2>1
  <2> QED BY <1>0, <2>2
<1>2. KeyTypes'
  BY <1>0, <1>1 DEF KeyTypes
<1>3. OwnKeys'
  BY <1>0, <1>1 DEF OwnKeys, Posting
<1>4. ASSUME NEW v \in Users, mine[v] # 0, blame[v] = {} PROVE (Rekeying(v) \/ v \in kdue[v] \/ Accounted(v))'
  <2>1. Rekeying(v) \/ v \in kdue[v] \/ Accounted(v)
    BY <1>4 DEF ChannelInv, Followed
  <2>2. mine[v] \in 1..Len(holders)
    BY <1>0, <1>4 DEF KeyTypes
  <2>3. CASE Rekeying(v)
    BY <2>3 DEF Rekeying, Posting
  <2>4. CASE Accounted(v)
    <3>1. CASE mine[v] = k
      BY <1>1, <2>4, <3>1 DEF Accounted
    <3>2. CASE mine[v] # k
      BY <1>1, <2>2, <2>4, <3>2 DEF Accounted
    <3> QED BY <3>1, <3>2
  <2> QED BY <2>1, <2>3, <2>4
<1> QED BY <1>2, <1>3, <1>4 DEF ChannelInv, Followed

LEMMA PostedKeeps ==
  ASSUME ChannelInv, NEW u \in Users, K!Posted(u) PROVE ChannelInv'
<1>0. KeyTypes /\ OwnKeys
  BY DEF ChannelInv
<1>1. PICK S \in SUBSET viewers : S = K!PassedOn(u, pass[u].to) /\ (u \notin viewers => S = {})
  BY DEF K!PassedOn
<1>2. /\ UNCHANGED <<inside, viewers, mine, kdue, batch, blame>> /\ Posting(u)
      /\ holders' = [holders EXCEPT ![pass[u].key] = @ \cup S] /\ pass' = [pass EXCEPT ![u] = Nil]
  BY <1>1 DEF K!Posted, Posting
<1>3. PICK k \in 1..Len(holders) : k = pass[u].key
  BY <1>0, <1>2 DEF OwnKeys
<1>4. /\ pass' \in [Users -> K!Passes \cup {Nil}]
      /\ \A v \in Users : pass'[v] = pass[v] \/ (pass'[v] = Nil /\ Posting(v))
  BY <1>0, <1>2 DEF KeyTypes
<1>5. \A v \in Users : mine[v] = k /\ v \notin inside => S = {}
  BY <1>0, <1>1, <1>2, <1>3 DEF OwnKeys, KeyTypes
<1> QED BY <1>2, <1>3, <1>4, <1>5, Given

LEMMA AskKeeps ==
  ASSUME ChannelInv, NEW d \in Users, NEW u \in Users, K!Ask(d, u) PROVE ChannelInv'
<1>0. KeyTypes /\ OwnKeys
  BY DEF ChannelInv
<1>1. /\ UNCHANGED <<inside, viewers, mine, kdue, batch, pass, blame>> /\ u \in viewers /\ d \in viewers /\ mine[u] # 0
      /\ holders' = [holders EXCEPT ![mine[u]] = @ \cup {d}]
  BY DEF K!Ask
<1>2. PICK k \in 1..Len(holders) : k = mine[u]
  BY <1>0, <1>1 DEF KeyTypes
<1>3. pass' \in [Users -> K!Passes \cup {Nil}] /\ {d} \in SUBSET viewers
  BY <1>0, <1>1 DEF KeyTypes
<1>4. \A v \in Users : mine[v] = k => v \in inside
  BY <1>0, <1>1, <1>2 DEF OwnKeys, KeyTypes
<1> QED BY <1>1, <1>2, <1>3, <1>4, Given

LEMMA ChannelNext == ChannelInv /\ K!KNext => ChannelInv'
<1> SUFFICES ASSUME ChannelInv, K!KNext PROVE ChannelInv'
  OBVIOUS
<1>1. ASSUME NEW u \in Users, K!leaveServer(u) \/ K!kickOrBan(u) PROVE ChannelInv'
  <2>1. inside \in SUBSET Users /\ inside \ {u} \in SUBSET Users
    BY DEF ChannelInv, KeyTypes
  <2> QED BY <1>1, <2>1, DepartsKeeps DEF K!leaveServer, K!kickOrBan
<1>2. ASSUME NEW u \in Users, K!join(u) \/ K!Connect(u) \/ K!Visit(u) PROVE ChannelInv'
  BY <1>2, JoinKeeps
<1>3. ASSUME NEW u \in Users, K!Hide(u) \/ K!Disconnect(u) \/ K!CloseApp(u) PROVE ChannelInv'
  BY <1>3, HideKeeps, DisconnectKeeps, CloseAppKeeps
<1>4. ASSUME NEW u \in Users, K!Fire(u) \/ K!Asked(u) \/ K!AskFails(u) PROVE ChannelInv'
  BY <1>4, FireKeeps, AskedKeeps, AskFailsKeeps
<1>5. ASSUME NEW u \in Users, K!Made(u) \/ K!Posted(u) \/ K!FirstMessage(u) PROVE ChannelInv'
  BY <1>5, MadeKeeps, PostedKeeps, FirstMessageKeeps
<1>6. ASSUME NEW u \in Users, NEW h \in Users, K!Hear(u, h) \/ K!Ask(h, u) PROVE ChannelInv'
  BY <1>6, HearKeeps, AskKeeps
<1> QED BY <1>1, <1>2, <1>3, <1>4, <1>5, <1>6 DEF K!KNext

\* Once a member's app is at rest, nobody who has gone from the channel holds the
\* key she writes with, unless one of the named things kept her from changing it
\* (serverMemberRemovedHandler): whatever the number of members, and however many of
\* them come, go, disconnect or write.
THEOREM GoneCannotReadHolds == MCSpec => []GoneCannotRead
<1> DEFINE I == part = "keys" => ChannelInv
<1>1. MCInit => I
  BY ChannelStart DEF MCInit
<1>2. I /\ [MCNext]_<<part, vars, view, ckeys, contents>> => I'
  <2> SUFFICES ASSUME I, [MCNext]_<<part, vars, view, ckeys, contents>>, part' = "keys" PROVE ChannelInv'
    OBVIOUS
  <2>1. part = "keys" /\ ChannelInv
    BY DEF MCNext, ServerStep, ViewStep, KeysStep, ContentsStep
  <2>2. CASE KeysStep
    BY <2>1, <2>2, ChannelNext DEF KeysStep
  <2>3. CASE UNCHANGED ckeys
    <3>1. UNCHANGED <<inside, viewers, mine, holders, kdue, batch, pass, blame>>
      BY <2>3 DEF ckeys
    <3> QED BY <2>1, <3>1 DEF ChannelInv, KeyTypes, OwnKeys, Posting, Followed, Rekeying, Accounted
  <2> QED BY <2>1, <2>2, <2>3 DEF MCNext, ServerStep, ViewStep, ContentsStep
<1>3. I => GoneCannotRead
  <2> SUFFICES ASSUME ChannelInv,
                      NEW u \in viewers, mine[u] # 0, kdue[u] = {}, batch[u] = {}, pass[u] = Nil, blame[u] = {}
               PROVE  holders[mine[u]] \subseteq viewers
    BY DEF GoneCannotRead, K!GoneCannotRead
  <2>1. u \in Users /\ u \in inside
    BY DEF ChannelInv, KeyTypes
  <2> QED BY <2>1 DEF ChannelInv, Followed, Rekeying, Accounted
<1> QED BY <1>1, <1>2, <1>3, PTL DEF MCSpec

-----------------------------------------------------------------------------
(***************************************************************************)
(* Rows and files.  A key is given out once.  Keys of icons and keys of     *)
(* attachments are apart, one that a request still holds for itself is no   *)
(* other's, and what is stored and not named, or named and not stored, is   *)
(* what a request is about to name or to delete, or has been blamed.        *)
(***************************************************************************)
Conversations == {Group, h1, h2}
ContentTypes == /\ C!CTypeOK
                /\ \A r \in Call : req[r] # Nil /\ req[r].op \in {"send", "create"} => req[r].of \in Conversations

Does(r, what) == req[r] # Nil /\ req[r].op = what
Is(r, what, where) == Does(r, what) /\ req[r].at = where

\* The numbers given out so far.
Issued == 1..(next - 1)
Numbers == /\ next > 0 /\ bucket \subseteq Issued /\ icon \in Issued \cup {0}
           /\ \A x \in messages : x.id \in Issued /\ x.file \in Issued \cup {0}
           /\ \A r \in Call : req[r] # Nil => req[r].file \in Issued \cup {0} /\ req[r].list \subseteq Issued

\* What is an icon's key, and what an attachment's.
IconKeyOf(r, k) == (Does(r, "icon") \/ Does(r, "unicon")) /\ (k = req[r].file \/ k \in req[r].list)
FileKeyOf(r, k) == \/ Does(r, "send") /\ k = req[r].file
                   \/ Does(r, "delete") /\ k = req[r].file
                   \/ Is(r, "delete", "all") /\ k \in req[r].list
IconKeys(k) == k = icon \/ \E r \in Call : IconKeyOf(r, k)
FileKeys(k) == (\E x \in messages : x.file = k) \/ \E r \in Call : FileKeyOf(r, k)
Apart == \A k \in Issued : ~(IconKeys(k) /\ FileKeys(k))

\* The icon that is about to be named, and the one that is about to be deleted.
IconNew == \A r \in Call : Is(r, "icon", "row") =>
             \E k \in bucket : /\ req[r].list = {k} /\ k # icon /\ k # req[r].file
                              /\ \A s \in Call : s # r => ~IconKeyOf(s, k)
IconOld == \A r \in Call : Is(r, "icon", "delete") \/ Is(r, "unicon", "delete") =>
             ~open \/ req[r].file # icon \/ icon = 0
Icons == IconNew /\ IconOld /\ (open /\ icon # 0 => icon \in bucket)

\* An attachment is one message's, and stored until the message is.
Holding(r) == (Is(r, "send", "check") \/ Is(r, "send", "insert")) /\ req[r].file # 0
Once == /\ \A x, y \in messages : x.file = y.file /\ x.file # 0 => x = y
        /\ \A x, y \in messages : x.id = y.id => x = y
        /\ \A r \in Call : Holding(r) => /\ req[r].file \in bucket /\ req[r].of = Group
                                         /\ \A x \in messages : x.file # req[r].file
                                         /\ \A s \in Call : s # r => ~FileKeyOf(s, req[r].file)
        /\ \A x \in messages : x.of # Group => x.file = 0
        /\ \A r \in Call : Does(r, "send") /\ req[r].of # Group => req[r].file = 0

\* Requests that delete.
Deletes ==
  /\ \A r \in Call : Is(r, "delete", "files") \/ Is(r, "delete", "row") =>
       \A x \in messages : /\ x.id \in req[r].list => x.file = req[r].file /\ x.of = req[r].of
                           /\ x.file = req[r].file /\ x.file # 0 => x.id \in req[r].list
  /\ \A r \in Call : Is(r, "delete", "row") => req[r].file \notin bucket
  /\ \A r \in Call : Is(r, "delete", "all") =>
       /\ req[r].of # Group => req[r].list = {}
       /\ \A x \in messages : x.of = req[r].of => x.file \in req[r].list \cup {0} \/ x.file \notin bucket \/ C!Blamed(x.file)
  /\ \A r \in Call : Is(r, "delete", "messages") => 
       /\ req[r].of = Group
       /\ \A x \in messages : x.of = req[r].of => x.file \notin bucket \/ C!Blamed(x.file)

\* Who is about to name or to delete a file that is not named.
Pending(f) == \E r \in Call : \/ Is(r, "icon", "row") /\ f \in req[r].list
                              \/ (Is(r, "icon", "delete") \/ Is(r, "unicon", "delete")) /\ f = req[r].file
                              \/ Holding(r) /\ f = req[r].file
Files == \A f \in bucket : f \in C!Named \/ C!Blamed(f) \/ Pending(f)
Rows == \A x \in messages :
  /\ x.of \in convos \/ C!Blamed(x.id) \/ \E r \in Call : Is(r, "delete", "messages") /\ req[r].of = x.of
  /\ \/ x.file \in bucket \cup {0} \/ C!Blamed(x.file)
     \/ \E r \in Call : \/ Is(r, "delete", "row") /\ x.id \in req[r].list
                        \/ (Is(r, "delete", "all") \/ Is(r, "delete", "messages")) /\ req[r].of = x.of
Closed == /\ open \/ \A c \in convos \ {Group} : C!Blamed(c)
          /\ open \/ icon = 0 \/ C!Blamed(icon)

ContentInv == ContentTypes /\ Numbers /\ Apart /\ Icons /\ Once /\ Deletes /\ Files /\ Rows /\ Closed

\* What has been said to have been left behind stays so said.
LEMMA BlamedStays == ASSUME cwhy \subseteq cwhy', NEW x, C!Blamed(x) PROVE C!Blamed(x)'
  BY DEF C!Blamed

\* A request that breaks off names what it held.
LEMMA BrokenOff ==
  ASSUME ContentTypes, NEW r \in Call, C!BreakOff(r)
  PROVE  /\ UNCHANGED <<open, icon, convos, members, messages, bucket, next>>
         /\ req[r] # Nil /\ req'[r] = Nil /\ \A s \in Call : s # r => req'[s] = req[s]
         /\ req' \in [Call -> C!Requests \cup {Nil}]
         /\ cwhy \subseteq cwhy'
         /\ \A x : x = req[r].file \/ x \in req[r].list => C!Blamed(x)'
         /\ \A m \in messages : req[r].op = "delete" /\ m.of = req[r].of =>
              C!Blamed(m.id)' /\ (m.file # 0 => C!Blamed(m.file)')
<1>1. /\ UNCHANGED <<open, icon, convos, members, messages, bucket, next>> /\ req[r] # Nil
      /\ req' = [req EXCEPT ![r] = Nil] /\ req \in [Call -> C!Requests \cup {Nil}] /\ cwhy \subseteq cwhy'
  BY DEF C!BreakOff, C!Ends, ContentTypes, C!CTypeOK
<1>2. \A x \in C!Holds(req[r]) : <<x, "broke off">> \in cwhy'
  BY DEF C!BreakOff
<1>3. req[r].op = "delete" => \A m \in C!In(req[r].of) : <<m.id, "broke off">> \in cwhy'
  BY DEF C!BreakOff
<1>4. \A x : <<x, "broke off">> \in cwhy' => C!Blamed(x)'
  BY DEF C!Blamed
<1>5. \A x : x = req[r].file \/ x \in req[r].list => x \in C!Holds(req[r])
  BY DEF C!Holds
<1>6. \A m \in messages : req[r].op = "delete" /\ m.of = req[r].of =>
        m \in C!In(req[r].of) /\ (m.file # 0 => m.file \in C!Holds(req[r]))
  BY DEF C!Holds, C!FilesOf, C!In
<1>7. \A x : x = req[r].file \/ x \in req[r].list => C!Blamed(x)'
  BY <1>2, <1>4, <1>5
<1>8. \A m \in messages : req[r].op = "delete" /\ m.of = req[r].of =>
        C!Blamed(m.id)' /\ (m.file # 0 => C!Blamed(m.file)')
  BY <1>2, <1>3, <1>4, <1>6
<1> HIDE DEF C!Blamed
<1> QED BY <1>1, <1>7, <1>8

\* A message that is stored after its conversation was listed is named.
LEMMA Inserted ==
  ASSUME ContentTypes, NEW r \in Call, C!SendInserts(r)
  PROVE  /\ UNCHANGED <<open, icon, convos, members, bucket>> /\ next' = next + 1
         /\ Is(r, "send", "insert") /\ req'[r] = Nil /\ \A s \in Call : s # r => req'[s] = req[s]
         /\ req' \in [Call -> C!Requests \cup {Nil}]
         /\ \E m \in C!Message : /\ m.of = req[r].of /\ m.file = req[r].file /\ m.id = next /\ messages' = messages \cup {m}
         /\ cwhy \subseteq cwhy'
         /\ \A x : (req[r].of \notin convos \/ C!Listing(req[r].of)) /\ (x = req[r].file \/ x = next) => C!Blamed(x)'
<1>1. /\ UNCHANGED <<open, icon, convos, members, bucket>> /\ next' = next + 1 /\ Is(r, "send", "insert")
      /\ req' = [req EXCEPT ![r] = Nil] /\ req \in [Call -> C!Requests \cup {Nil}] /\ cwhy \subseteq cwhy'
  BY DEF C!SendInserts, C!Ends, C!At, Is, Does, ContentTypes, C!CTypeOK
<1>2. req[r].of \in Conversations /\ req[r].file \in Nat /\ next \in Nat
  BY <1>1 DEF ContentTypes, C!CTypeOK, Is, Does, C!Requests
<1>3. PICK m : m = [of |-> req[r].of, file |-> req[r].file, id |-> next]
  OBVIOUS
<1>4. m \in C!Message /\ m.of = req[r].of /\ m.file = req[r].file /\ m.id = next
  BY <1>2, <1>3 DEF C!Message, Conversations
<1>5. messages' = messages \cup {m}
  BY <1>3 DEF C!SendInserts
<1>6. req[r].of \notin convos \/ C!Listing(req[r].of) => <<req[r].file, "late">> \in cwhy' /\ <<next, "late">> \in cwhy'
  BY DEF C!SendInserts
<1>7. \A x : (req[r].of \notin convos \/ C!Listing(req[r].of)) /\ (x = req[r].file \/ x = next) => C!Blamed(x)'
  BY <1>6 DEF C!Blamed
<1> QED BY <1>1, <1>4, <1>5, <1>7

\* What is named.
LEMMA NamedIs ==
  /\ \A f : f \in C!Named <=> (open /\ f = icon) \/ (f # 0 /\ \E m \in messages : m.of \in convos /\ m.file = f)
  /\ \A f : f \in C!Named' <=> (open' /\ f = icon') \/ (f # 0 /\ \E m \in messages' : m.of \in convos' /\ m.file = f)
  BY DEF C!Named, C!FilesOf

\* The row of the server names the new icon, or its file and the old one's are named.
LEMMA IconRowFiles ==
  ASSUME ContentTypes, Numbers, Files, NEW r \in Call, NEW k, C!IconRow(r, k),
         (Is(r, "icon", "row") /\ req[r].list = {k}) \/ Is(r, "unicon", "row")
  PROVE  Files'
<1>1. /\ UNCHANGED <<open, convos, messages, bucket>> /\ icon' = IF open THEN k ELSE icon
      /\ cwhy' = cwhy \cup C!Overwrites(r) /\ req' = [req EXCEPT ![r].at = "delete"]
  BY DEF C!IconRow, C!Goto
<1>2. /\ \A s \in Call : s # r => req'[s] = req[s]
      /\ req[r] \in C!Requests /\ req'[r] \in C!Requests /\ req'[r].op = req[r].op /\ req'[r].at = "delete"
      /\ req'[r].file = req[r].file
  BY <1>1 DEF ContentTypes, C!CTypeOK, C!Requests, Is, Does
<1>3. Is(r, "icon", "delete")' \/ Is(r, "unicon", "delete")'
  BY <1>2, GroupAssumption DEF Is, Does
<1>4. icon \notin {0, req[r].file} => <<icon, "overlap">> \in cwhy'
  BY <1>1 DEF C!Overwrites
<1>5. ~open => \A x \in req[r].list : <<x, "closed">> \in cwhy'
  BY <1>1 DEF C!Overwrites
<1>6. \A x : (x = icon /\ x # 0 /\ x # req[r].file) \/ (~open /\ x \in req[r].list) => C!Blamed(x)'
  BY <1>4, <1>5 DEF C!Blamed
<1>7. ASSUME NEW f \in bucket PROVE f \in C!Named' \/ C!Blamed(f)' \/ Pending(f)'
  <2>1. f # 0 /\ (f \in C!Named \/ C!Blamed(f) \/ Pending(f))
    BY <1>7 DEF Numbers, Files, Issued, ContentTypes, C!CTypeOK
  <2>2. CASE f \in C!Named
    <3>1. CASE open /\ f = icon
      <4>1. f = req[r].file => Pending(f)'
        BY <1>2, <1>3 DEF Pending
      <4> QED BY <1>6, <2>1, <3>1, <4>1
    <3>2. CASE \E m \in messages : m.of \in convos /\ m.file = f
      BY <1>1, <2>1, <3>2, NamedIs
    <3> QED BY <2>2, <3>1, <3>2, NamedIs
  <2>3. CASE C!Blamed(f)
    BY <1>1, <2>3 DEF C!Blamed
  <2>4. CASE Pending(f)
    <3>1. PICK s \in Call : \/ Is(s, "icon", "row") /\ f \in req[s].list
                            \/ (Is(s, "icon", "delete") \/ Is(s, "unicon", "delete")) /\ f = req[s].file
                            \/ Holding(s) /\ f = req[s].file
      BY <2>4 DEF Pending
    <3>2. CASE s # r
      BY <1>2, <3>1, <3>2 DEF Pending, Is, Does, Holding
    <3>3. CASE s = r
      <4>1. f = k /\ f \in req[r].list
        BY <3>1, <3>3 DEF Is, Does, Holding
      <4>2. CASE open
        BY <1>1, <4>1, <4>2, NamedIs
      <4>3. CASE ~open
        BY <1>6, <4>1, <4>3
      <4> QED BY <4>2, <4>3
    <3> QED BY <3>2, <3>3
  <2> QED BY <2>1, <2>2, <2>3, <2>4
<1> QED BY <1>1, <1>7 DEF Files

\* What a request to send holds is not in another's request.
LEMMA HeldAlone ==
  ASSUME Once, NEW r \in Call, NEW s \in Call, Holding(s), r # s
  PROVE  ~FileKeyOf(r, req[s].file)
  BY DEF Once

\* The fields keep their types.
LEMMA ContentTypesKept ==
  ASSUME ContentTypes, C!CNext PROVE ContentTypes'
<1> USE DEF ContentTypes, Conversations, C!CTypeOK, C!Message, C!Requests
<1>1. ASSUME NEW r \in Call, C!uploadServerIconReads(r) PROVE ContentTypes'
  BY <1>1 DEF C!uploadServerIconReads, C!Begin, C!Ask
<1>2. ASSUME NEW r \in Call, C!uploadServerIconPut(r) PROVE ContentTypes'
  <2>1. PICK F \in SUBSET Nat : F = {next}
    OBVIOUS
  <2>2. req[r] \in C!Requests
    BY <1>2 DEF C!uploadServerIconPut, C!At
  <2>3. [req[r] EXCEPT !.at = "row", !.list = F] \in C!Requests /\ req[r].op = "icon"
    BY <1>2, <2>2 DEF C!uploadServerIconPut, C!At
  <2>4. PICK q \in C!Requests : q = [req[r] EXCEPT !.at = "row", !.list = F] /\ q.op = "icon"
    BY <2>2, <2>3
  <2>5. /\ req' = [req EXCEPT ![r] = q] /\ UNCHANGED <<open, icon, members, convos, messages>>
        /\ next' = next + 1 /\ bucket' = bucket \cup F
    BY <1>2, <2>1, <2>4 DEF C!uploadServerIconPut
  <2>6. bucket' \in SUBSET Nat
    BY <2>5
  <2> QED BY <2>4, <2>5, <2>6
<1>3. ASSUME NEW r \in Call, C!uploadServerIconRow(r) PROVE ContentTypes'
  BY <1>3 DEF C!uploadServerIconRow, C!At, C!IconRow, C!Overwrites, C!Goto
<1>4. ASSUME NEW r \in Call, C!deleteServerIconReads(r) PROVE ContentTypes'
  BY <1>4 DEF C!deleteServerIconReads, C!Begin, C!Ask
<1>5. ASSUME NEW r \in Call, C!deleteServerIconRow(r) PROVE ContentTypes'
  BY <1>5 DEF C!deleteServerIconRow, C!At, C!IconRow, C!Overwrites, C!Goto
<1>6. ASSUME NEW r \in Call, C!IconDelete(r) PROVE ContentTypes'
  BY <1>6 DEF C!IconDelete, C!At, C!Ends
<1>7. ASSUME NEW r \in Call, C!Upload(r) PROVE ContentTypes'
  BY <1>7 DEF C!Upload, C!Begin, C!Ask
<1>8. ASSUME NEW r \in Call, C!UploadPut(r) PROVE ContentTypes'
  BY <1>8 DEF C!UploadPut, C!At
<1>9. ASSUME NEW r \in Call, C!SendChecked(r) PROVE ContentTypes'
  BY <1>9 DEF C!SendChecked, C!At, C!Goto, C!Ends
<1>10. ASSUME NEW r \in Call, C!SendInserts(r) PROVE ContentTypes'
  BY <1>10 DEF C!SendInserts, C!At, C!Listing, C!Ends
<1>11. ASSUME NEW r \in Call, C!DeleteMessage(r) PROVE ContentTypes'
  BY <1>11 DEF C!DeleteMessage, C!Begin, C!Ask
<1>12. ASSUME NEW r \in Call, C!LastLeaves(r) PROVE ContentTypes'
  BY <1>12 DEF C!LastLeaves, C!Ask
<1>13. ASSUME NEW r \in Call, C!Listed(r) PROVE ContentTypes'
  <2>1. PICK F \in SUBSET Nat : F = C!FilesOf(C!In(req[r].of))
    BY DEF C!FilesOf, C!In
  <2>2. req[r] \in C!Requests
    BY <1>13 DEF C!Listed, C!At
  <2>3. PICK q \in C!Requests : q = [req[r] EXCEPT !.list = F, !.at = "all"] /\ q.op = "delete" /\ q.of = req[r].of
    BY <1>13, <2>2 DEF C!Listed, C!At
  <2>4. req' = [req EXCEPT ![r] = q] /\ UNCHANGED <<open, icon, members, convos, messages, bucket, next>>
    BY <1>13, <2>1, <2>3 DEF C!Listed
  <2> QED BY <1>13, <2>2, <2>3, <2>4 DEF C!Listed, C!At
<1>14. ASSUME NEW r \in Call, C!FileDeleted(r) PROVE ContentTypes'
  BY <1>14 DEF C!FileDeleted, C!At
<1>15. ASSUME NEW r \in Call, C!RowsDeleted(r) PROVE ContentTypes'
  BY <1>15 DEF C!RowsDeleted, C!At, C!Goto, C!Ends, C!In
<1>16. ASSUME NEW r \in Call, C!MessagesDeleted(r) PROVE ContentTypes'
  BY <1>16 DEF C!MessagesDeleted, C!At, C!In, C!Ends
<1>17. ASSUME NEW r \in Call, C!OneFileDeleted(r) PROVE ContentTypes'
  BY <1>17 DEF C!OneFileDeleted, C!At, C!Goto
<1>18. ASSUME NEW r \in Call, C!OneRowDeleted(r) PROVE ContentTypes'
  BY <1>18 DEF C!OneRowDeleted, C!At, C!Ends
<1>19. ASSUME NEW r \in Call, C!ChannelInserted(r) PROVE ContentTypes'
  BY <1>19 DEF C!ChannelInserted, C!At, C!Ends
<1>20. ASSUME NEW r \in Call, C!closeServer(r) PROVE ContentTypes'
  BY <1>20 DEF C!closeServer
<1>21. ASSUME NEW r \in Call, C!BreakOff(r) PROVE ContentTypes'
  BY <1>21 DEF C!BreakOff, C!Ends, C!Holds, C!In, C!FilesOf
<1>22. ASSUME NEW r \in Call, NEW c \in {h1, h2}, C!WriteChannel(r, c) PROVE ContentTypes'
  BY <1>22 DEF C!WriteChannel, C!Begin, C!Ask
<1>23. ASSUME NEW r \in Call, NEW c \in {h1, h2}, C!channelDelete(r, c) PROVE ContentTypes'
  BY <1>23 DEF C!channelDelete, C!Begin, C!Ask
<1>24. ASSUME NEW r \in Call, NEW c \in {h1, h2}, C!channelCreate(r, c) PROVE ContentTypes'
  BY <1>24 DEF C!channelCreate, C!Begin, C!Ask
<1> HIDE DEF ContentTypes, Conversations, C!CTypeOK, C!Message, C!Requests
<1> QED BY <1>1, <1>2, <1>3, <1>4, <1>5, <1>6, <1>7, <1>8, <1>9, <1>10, <1>11, <1>12, <1>13, <1>14, <1>15, <1>16,
           <1>17, <1>18, <1>19, <1>20, <1>21, <1>22, <1>23, <1>24 DEF C!CNext

\* What is named or stored has been given out.
LEMMA NumbersKept ==
  ASSUME ContentTypes, Numbers, C!CNext PROVE Numbers'
<1> USE DEF ContentTypes, Numbers, Conversations, C!CTypeOK, Issued, C!Message, C!Requests
<1>1. ASSUME NEW r \in Call, C!uploadServerIconReads(r) PROVE Numbers'
  BY <1>1 DEF C!uploadServerIconReads, C!Begin, C!Ask
<1>2. ASSUME NEW r \in Call, C!uploadServerIconPut(r) PROVE Numbers'
  BY <1>2 DEF C!uploadServerIconPut, C!At
<1>3. ASSUME NEW r \in Call, C!uploadServerIconRow(r) PROVE Numbers'
  BY <1>3 DEF C!uploadServerIconRow, C!At, C!IconRow, C!Overwrites, C!Goto
<1>4. ASSUME NEW r \in Call, C!deleteServerIconReads(r) PROVE Numbers'
  BY <1>4 DEF C!deleteServerIconReads, C!Begin, C!Ask
<1>5. ASSUME NEW r \in Call, C!deleteServerIconRow(r) PROVE Numbers'
  BY <1>5 DEF C!deleteServerIconRow, C!At, C!IconRow, C!Overwrites, C!Goto
<1>6. ASSUME NEW r \in Call, C!IconDelete(r) PROVE Numbers'
  BY <1>6 DEF C!IconDelete, C!At, C!Ends
<1>7. ASSUME NEW r \in Call, C!Upload(r) PROVE Numbers'
  BY <1>7 DEF C!Upload, C!Begin, C!Ask
<1>8. ASSUME NEW r \in Call, C!UploadPut(r) PROVE Numbers'
  BY <1>8 DEF C!UploadPut, C!At
<1>9. ASSUME NEW r \in Call, C!SendChecked(r) PROVE Numbers'
  BY <1>9 DEF C!SendChecked, C!At, C!Goto, C!Ends
<1>10. ASSUME NEW r \in Call, C!SendInserts(r) PROVE Numbers'
  BY <1>10 DEF C!SendInserts, C!At, C!Listing, C!Ends
<1>11. ASSUME NEW r \in Call, C!DeleteMessage(r) PROVE Numbers'
  BY <1>11 DEF C!DeleteMessage, C!Begin, C!Ask
<1>12. ASSUME NEW r \in Call, C!LastLeaves(r) PROVE Numbers'
  BY <1>12 DEF C!LastLeaves, C!Ask
<1>13. ASSUME NEW r \in Call, C!Listed(r) PROVE Numbers'
  BY <1>13 DEF C!Listed, C!At, C!FilesOf, C!In
<1>14. ASSUME NEW r \in Call, C!FileDeleted(r) PROVE Numbers'
  BY <1>14 DEF C!FileDeleted, C!At
<1>15. ASSUME NEW r \in Call, C!RowsDeleted(r) PROVE Numbers'
  BY <1>15 DEF C!RowsDeleted, C!At, C!Goto, C!Ends, C!In
<1>16. ASSUME NEW r \in Call, C!MessagesDeleted(r) PROVE Numbers'
  BY <1>16 DEF C!MessagesDeleted, C!At, C!In, C!Ends
<1>17. ASSUME NEW r \in Call, C!OneFileDeleted(r) PROVE Numbers'
  BY <1>17 DEF C!OneFileDeleted, C!At, C!Goto
<1>18. ASSUME NEW r \in Call, C!OneRowDeleted(r) PROVE Numbers'
  BY <1>18 DEF C!OneRowDeleted, C!At, C!Ends
<1>19. ASSUME NEW r \in Call, C!ChannelInserted(r) PROVE Numbers'
  BY <1>19 DEF C!ChannelInserted, C!At, C!Ends
<1>20. ASSUME NEW r \in Call, C!closeServer(r) PROVE Numbers'
  BY <1>20 DEF C!closeServer
<1>21. ASSUME NEW r \in Call, C!BreakOff(r) PROVE Numbers'
  BY <1>21 DEF C!BreakOff, C!Ends, C!Holds, C!In, C!FilesOf
<1>22. ASSUME NEW r \in Call, NEW c \in {h1, h2}, C!WriteChannel(r, c) PROVE Numbers'
  BY <1>22 DEF C!WriteChannel, C!Begin, C!Ask
<1>23. ASSUME NEW r \in Call, NEW c \in {h1, h2}, C!channelDelete(r, c) PROVE Numbers'
  BY <1>23 DEF C!channelDelete, C!Begin, C!Ask
<1>24. ASSUME NEW r \in Call, NEW c \in {h1, h2}, C!channelCreate(r, c) PROVE Numbers'
  BY <1>24 DEF C!channelCreate, C!Begin, C!Ask
<1> HIDE DEF ContentTypes, Numbers, Conversations, C!CTypeOK, Issued, C!Message, C!Requests
<1> QED BY <1>1, <1>2, <1>3, <1>4, <1>5, <1>6, <1>7, <1>8, <1>9, <1>10, <1>11, <1>12, <1>13, <1>14, <1>15, <1>16,
           <1>17, <1>18, <1>19, <1>20, <1>21, <1>22, <1>23, <1>24 DEF C!CNext

\* The keys of icons and those of attachments stay apart.
LEMMA ApartKept ==
  ASSUME ContentTypes, Numbers, Apart, C!CNext PROVE Apart'
<1> USE DEF ContentTypes, Numbers, Apart, Conversations, C!CTypeOK, Issued, IconKeys, FileKeys, C!Message,
            C!Requests, IconKeyOf, FileKeyOf, Does, Is
<1>1. ASSUME NEW r \in Call, C!uploadServerIconReads(r) PROVE Apart'
  BY <1>1 DEF C!uploadServerIconReads, C!Begin, C!Ask
<1>2. ASSUME NEW r \in Call, C!uploadServerIconPut(r) PROVE Apart'
  BY <1>2 DEF C!uploadServerIconPut, C!At
<1>3. ASSUME NEW r \in Call, C!uploadServerIconRow(r) PROVE Apart'
  BY <1>3 DEF C!uploadServerIconRow, C!At, C!IconRow, C!Overwrites, C!Goto
<1>4. ASSUME NEW r \in Call, C!deleteServerIconReads(r) PROVE Apart'
  BY <1>4 DEF C!deleteServerIconReads, C!Begin, C!Ask
<1>5. ASSUME NEW r \in Call, C!deleteServerIconRow(r) PROVE Apart'
  BY <1>5 DEF C!deleteServerIconRow, C!At, C!IconRow, C!Overwrites, C!Goto
<1>6. ASSUME NEW r \in Call, C!IconDelete(r) PROVE Apart'
  BY <1>6 DEF C!IconDelete, C!At, C!Ends
<1>7. ASSUME NEW r \in Call, C!Upload(r) PROVE Apart'
  BY <1>7 DEF C!Upload, C!Begin, C!Ask
<1>8. ASSUME NEW r \in Call, C!UploadPut(r) PROVE Apart'
  BY <1>8 DEF C!UploadPut, C!At
<1>9. ASSUME NEW r \in Call, C!SendChecked(r) PROVE Apart'
  BY <1>9 DEF C!SendChecked, C!At, C!Goto, C!Ends
<1>10. ASSUME NEW r \in Call, C!SendInserts(r) PROVE Apart'
  BY <1>10 DEF C!SendInserts, C!At, C!Listing, C!Ends
<1>11. ASSUME NEW r \in Call, C!DeleteMessage(r) PROVE Apart'
  BY <1>11 DEF C!DeleteMessage, C!Begin, C!Ask
<1>12. ASSUME NEW r \in Call, C!LastLeaves(r) PROVE Apart'
  BY <1>12 DEF C!LastLeaves, C!Ask
<1>13. ASSUME NEW r \in Call, C!Listed(r) PROVE Apart'
  BY <1>13 DEF C!Listed, C!At, C!FilesOf, C!In
<1>14. ASSUME NEW r \in Call, C!FileDeleted(r) PROVE Apart'
  BY <1>14 DEF C!FileDeleted, C!At
<1>15. ASSUME NEW r \in Call, C!RowsDeleted(r) PROVE Apart'
  BY <1>15 DEF C!RowsDeleted, C!At, C!Goto, C!Ends, C!In
<1>16. ASSUME NEW r \in Call, C!MessagesDeleted(r) PROVE Apart'
  BY <1>16 DEF C!MessagesDeleted, C!At, C!In, C!Ends
<1>17. ASSUME NEW r \in Call, C!OneFileDeleted(r) PROVE Apart'
  BY <1>17 DEF C!OneFileDeleted, C!At, C!Goto
<1>18. ASSUME NEW r \in Call, C!OneRowDeleted(r) PROVE Apart'
  BY <1>18 DEF C!OneRowDeleted, C!At, C!Ends
<1>19. ASSUME NEW r \in Call, C!ChannelInserted(r) PROVE Apart'
  BY <1>19 DEF C!ChannelInserted, C!At, C!Ends
<1>20. ASSUME NEW r \in Call, C!closeServer(r) PROVE Apart'
  BY <1>20 DEF C!closeServer
<1>21. ASSUME NEW r \in Call, C!BreakOff(r) PROVE Apart'
  BY <1>21, BrokenOff
<1>22. ASSUME NEW r \in Call, NEW c \in {h1, h2}, C!WriteChannel(r, c) PROVE Apart'
  BY <1>22 DEF C!WriteChannel, C!Begin, C!Ask
<1>23. ASSUME NEW r \in Call, NEW c \in {h1, h2}, C!channelDelete(r, c) PROVE Apart'
  BY <1>23 DEF C!channelDelete, C!Begin, C!Ask
<1>24. ASSUME NEW r \in Call, NEW c \in {h1, h2}, C!channelCreate(r, c) PROVE Apart'
  BY <1>24 DEF C!channelCreate, C!Begin, C!Ask
<1> HIDE DEF ContentTypes, Numbers, Apart, Conversations, C!CTypeOK, Issued, IconKeys, FileKeys, C!Message,
             C!Requests, IconKeyOf, FileKeyOf, Does, Is
<1> QED BY <1>1, <1>2, <1>3, <1>4, <1>5, <1>6, <1>7, <1>8, <1>9, <1>10, <1>11, <1>12, <1>13, <1>14, <1>15, <1>16,
           <1>17, <1>18, <1>19, <1>20, <1>21, <1>22, <1>23, <1>24 DEF C!CNext

\* An open server names a stored icon: no request deletes the one that is named, or is about to be.
LEMMA IconsKept ==
  ASSUME ContentTypes, Numbers, Apart, Icons, C!CNext PROVE Icons'
<1> USE DEF ContentTypes, Numbers, Apart, Icons, Conversations, C!CTypeOK, Issued, IconKeys, FileKeys, IconNew,
            IconOld, C!Message, C!Requests, IconKeyOf, FileKeyOf, Is, Does
<1>1. ASSUME NEW r \in Call, C!uploadServerIconReads(r) PROVE Icons'
  BY <1>1 DEF C!uploadServerIconReads, C!Begin, C!Ask
<1>2. ASSUME NEW r \in Call, C!uploadServerIconPut(r) PROVE Icons'
  BY <1>2 DEF C!uploadServerIconPut, C!At
<1>3. ASSUME NEW r \in Call, C!uploadServerIconRow(r) PROVE Icons'
  BY <1>3 DEF C!uploadServerIconRow, C!At, C!IconRow, C!Overwrites, C!Goto
<1>4. ASSUME NEW r \in Call, C!deleteServerIconReads(r) PROVE Icons'
  BY <1>4 DEF C!deleteServerIconReads, C!Begin, C!Ask
<1>5. ASSUME NEW r \in Call, C!deleteServerIconRow(r) PROVE Icons'
  BY <1>5 DEF C!deleteServerIconRow, C!At, C!IconRow, C!Overwrites, C!Goto
<1>6. ASSUME NEW r \in Call, C!IconDelete(r) PROVE Icons'
  BY <1>6 DEF C!IconDelete, C!At, C!Ends
<1>7. ASSUME NEW r \in Call, C!Upload(r) PROVE Icons'
  BY <1>7 DEF C!Upload, C!Begin, C!Ask
<1>8. ASSUME NEW r \in Call, C!UploadPut(r) PROVE Icons'
  BY <1>8 DEF C!UploadPut, C!At
<1>9. ASSUME NEW r \in Call, C!SendChecked(r) PROVE Icons'
  BY <1>9 DEF C!SendChecked, C!At, C!Goto, C!Ends
<1>10. ASSUME NEW r \in Call, C!SendInserts(r) PROVE Icons'
  BY <1>10 DEF C!SendInserts, C!At, C!Listing, C!Ends
<1>11. ASSUME NEW r \in Call, C!DeleteMessage(r) PROVE Icons'
  BY <1>11 DEF C!DeleteMessage, C!Begin, C!Ask
<1>12. ASSUME NEW r \in Call, C!LastLeaves(r) PROVE Icons'
  BY <1>12 DEF C!LastLeaves, C!Ask
<1>13. ASSUME NEW r \in Call, C!Listed(r) PROVE Icons'
  BY <1>13 DEF C!Listed, C!At, C!FilesOf, C!In
<1>14. ASSUME NEW r \in Call, C!FileDeleted(r) PROVE Icons'
  BY <1>14 DEF C!FileDeleted, C!At
<1>15. ASSUME NEW r \in Call, C!RowsDeleted(r) PROVE Icons'
  BY <1>15 DEF C!RowsDeleted, C!At, C!Goto, C!Ends, C!In
<1>16. ASSUME NEW r \in Call, C!MessagesDeleted(r) PROVE Icons'
  BY <1>16 DEF C!MessagesDeleted, C!At, C!In, C!Ends
<1>17. ASSUME NEW r \in Call, C!OneFileDeleted(r) PROVE Icons'
  BY <1>17 DEF C!OneFileDeleted, C!At, C!Goto
<1>18. ASSUME NEW r \in Call, C!OneRowDeleted(r) PROVE Icons'
  BY <1>18 DEF C!OneRowDeleted, C!At, C!Ends
<1>19. ASSUME NEW r \in Call, C!ChannelInserted(r) PROVE Icons'
  BY <1>19 DEF C!ChannelInserted, C!At, C!Ends
<1>20. ASSUME NEW r \in Call, C!closeServer(r) PROVE Icons'
  BY <1>20 DEF C!closeServer
<1>21. ASSUME NEW r \in Call, C!BreakOff(r) PROVE Icons'
  BY <1>21, BrokenOff
<1>22. ASSUME NEW r \in Call, NEW c \in {h1, h2}, C!WriteChannel(r, c) PROVE Icons'
  BY <1>22 DEF C!WriteChannel, C!Begin, C!Ask
<1>23. ASSUME NEW r \in Call, NEW c \in {h1, h2}, C!channelDelete(r, c) PROVE Icons'
  BY <1>23 DEF C!channelDelete, C!Begin, C!Ask
<1>24. ASSUME NEW r \in Call, NEW c \in {h1, h2}, C!channelCreate(r, c) PROVE Icons'
  BY <1>24 DEF C!channelCreate, C!Begin, C!Ask
<1> HIDE DEF ContentTypes, Numbers, Apart, Icons, Conversations, C!CTypeOK, Issued, IconKeys, FileKeys, IconNew,
             IconOld, C!Message, C!Requests, IconKeyOf, FileKeyOf, Is, Does
<1> QED BY <1>1, <1>2, <1>3, <1>4, <1>5, <1>6, <1>7, <1>8, <1>9, <1>10, <1>11, <1>12, <1>13, <1>14, <1>15, <1>16,
           <1>17, <1>18, <1>19, <1>20, <1>21, <1>22, <1>23, <1>24 DEF C!CNext

\* An attachment stays one message's, and stored until the message is.
LEMMA OnceKept ==
  ASSUME ContentTypes, Numbers, Once, Deletes, Apart, C!CNext PROVE Once'
<1> USE DEF ContentTypes, Numbers, Once, Deletes, Conversations, C!CTypeOK, Issued, Holding, FileKeyOf, Does, Is,
            C!Blamed, C!Message, C!Requests
<1>1. ASSUME NEW r \in Call, C!uploadServerIconReads(r) PROVE Once'
  BY <1>1 DEF C!uploadServerIconReads, C!Begin, C!Ask
<1>2. ASSUME NEW r \in Call, C!uploadServerIconPut(r) PROVE Once'
  BY <1>2 DEF C!uploadServerIconPut, C!At
<1>3. ASSUME NEW r \in Call, C!uploadServerIconRow(r) PROVE Once'
  BY <1>3 DEF C!uploadServerIconRow, C!At, C!IconRow, C!Overwrites, C!Goto
<1>4. ASSUME NEW r \in Call, C!deleteServerIconReads(r) PROVE Once'
  BY <1>4 DEF C!deleteServerIconReads, C!Begin, C!Ask
<1>5. ASSUME NEW r \in Call, C!deleteServerIconRow(r) PROVE Once'
  BY <1>5 DEF C!deleteServerIconRow, C!At, C!IconRow, C!Overwrites, C!Goto
<1>6. ASSUME NEW r \in Call, C!IconDelete(r) PROVE Once'
  <2>1. \A s \in Call : Holding(s) => req[s].file # req[r].file
    BY <1>6 DEF Apart, IconKeys, IconKeyOf, FileKeys, C!IconDelete, C!At
  <2> QED BY <1>6, <2>1 DEF C!IconDelete, C!At, C!Ends
<1>7. ASSUME NEW r \in Call, C!Upload(r) PROVE Once'
  BY <1>7 DEF C!Upload, C!Begin, C!Ask
<1>8. ASSUME NEW r \in Call, C!UploadPut(r) PROVE Once'
  BY <1>8 DEF C!UploadPut, C!At
<1>9. ASSUME NEW r \in Call, C!SendChecked(r) PROVE Once'
  BY <1>9 DEF C!SendChecked, C!At, C!Goto, C!Ends
<1>10. ASSUME NEW r \in Call, C!SendInserts(r) PROVE Once'
  <2>1. PICK m \in C!Message : /\ m.of = req[r].of /\ m.file = req[r].file /\ m.id = next /\ messages' = messages \cup {m}
    BY <1>10, Inserted
  <2>2. /\ UNCHANGED bucket /\ Is(r, "send", "insert") /\ req'[r] = Nil /\ \A s \in Call : s # r => req'[s] = req[s]
        /\ req' \in [Call -> C!Requests \cup {Nil}]
    BY <1>10, Inserted
  <2>3. m.file = 0 \/ Holding(r)
    BY <2>1, <2>2
  <2>4. \A x \in messages : x.id # m.id /\ (x.file = m.file => x.file = 0)
    BY <2>1, <2>3
  <2>5. m.of # Group => m.file = 0
    BY <2>1, <2>2
  <2>6. ASSUME NEW s \in Call, s # r, Holding(s) PROVE m.file # req[s].file
    <3>1. ~FileKeyOf(r, req[s].file)
      BY <2>6, HeldAlone
    <3> QED BY <2>1, <2>2, <3>1
  <2>7. \A x, y \in messages' : (x.file = y.file /\ x.file # 0 => x = y) /\ (x.id = y.id => x = y)
    BY <2>1, <2>4
  <2>8. \A s \in Call : Holding(s)' => s # r /\ Holding(s) /\ req'[s] = req[s]
    BY <2>2
  <2>9. ASSUME NEW s \in Call, Holding(s)'
        PROVE  /\ req'[s].file \in bucket' /\ req'[s].of = Group /\ \A x \in messages' : x.file # req'[s].file
               /\ \A t \in Call : t # s => ~FileKeyOf(t, req[s].file)'
    <3>1. s # r /\ Holding(s) /\ req'[s] = req[s]
      BY <2>8, <2>9
    <3>2. req'[s].file \in bucket' /\ req'[s].of = Group
      BY <2>2, <3>1
    <3>3. \A x \in messages' : x.file # req'[s].file
      BY <2>1, <2>6, <3>1
    <3>4. ASSUME NEW t \in Call, t # s PROVE ~FileKeyOf(t, req[s].file)'
      <4>1. ~FileKeyOf(t, req[s].file)
        BY <3>1, <3>4, HeldAlone
      <4> QED BY <2>2, <3>1, <3>4, <4>1
    <3> QED BY <3>2, <3>3, <3>4
  <2>10. \A x \in messages' : x.of # Group => x.file = 0
    BY <2>1, <2>5
  <2>11. \A s \in Call : Does(s, "send")' /\ req'[s].of # Group => req'[s].file = 0
    BY <2>2
  <2> QED BY <2>7, <2>9, <2>10, <2>11
<1>11. ASSUME NEW r \in Call, C!DeleteMessage(r) PROVE Once'
  BY <1>11 DEF C!DeleteMessage, C!Begin, C!Ask
<1>12. ASSUME NEW r \in Call, C!LastLeaves(r) PROVE Once'
  BY <1>12 DEF C!LastLeaves, C!Ask
<1>13. ASSUME NEW r \in Call, C!Listed(r) PROVE Once'
  BY <1>13 DEF C!Listed, C!At, C!FilesOf, C!In
<1>14. ASSUME NEW r \in Call, C!FileDeleted(r) PROVE Once'
  <2>1. PICK f \in req[r].list : bucket' = bucket \ {f} /\ req' = [req EXCEPT ![r].list = req[r].list \ {f}]
    BY <1>14 DEF C!FileDeleted
  <2>2. Is(r, "delete", "all") /\ UNCHANGED <<messages, next>>
    BY <1>14 DEF C!FileDeleted, C!At
  <2>3. /\ \A s \in Call : s # r => req'[s] = req[s]
        /\ req[r] \in C!Requests /\ req[r].list \ {f} \in SUBSET Nat
        /\ req'[r] = [req[r] EXCEPT !.list = req[r].list \ {f}]
    BY <2>1, <2>2
  <2>5. /\ req'[r].op = "delete" /\ req'[r].at = "all"
        /\ req'[r].file = req[r].file /\ req'[r].of = req[r].of /\ req'[r].list \subseteq req[r].list
    BY <2>2, <2>3
  <2>4. ASSUME NEW s \in Call, Holding(s) PROVE s # r /\ f # req[s].file
    <3>1. s # r
      BY <2>2, <2>4
    <3>2. ~FileKeyOf(r, req[s].file)
      BY <2>4, <3>1, HeldAlone
    <3> QED BY <2>2, <3>1, <3>2
  <2> QED BY <2>1, <2>2, <2>3, <2>4, <2>5
<1>15. ASSUME NEW r \in Call, C!RowsDeleted(r) PROVE Once'
  BY <1>15 DEF C!RowsDeleted, C!At, C!Goto, C!Ends, C!In
<1>16. ASSUME NEW r \in Call, C!MessagesDeleted(r) PROVE Once'
  BY <1>16 DEF C!MessagesDeleted, C!At, C!In, C!Ends
<1>17. ASSUME NEW r \in Call, C!OneFileDeleted(r) PROVE Once'
  <2>1. ASSUME NEW s \in Call, Holding(s) PROVE s # r /\ req[r].file # req[s].file
    <3>1. Does(r, "delete") /\ s # r
      BY <1>17, <2>1 DEF C!OneFileDeleted, C!At
    <3>2. ~FileKeyOf(r, req[s].file)
      BY <2>1, <3>1, HeldAlone
    <3> QED BY <3>1, <3>2
  <2> QED BY <1>17, <2>1 DEF C!OneFileDeleted, C!At, C!Goto
<1>18. ASSUME NEW r \in Call, C!OneRowDeleted(r) PROVE Once'
  BY <1>18 DEF C!OneRowDeleted, C!At, C!Ends
<1>19. ASSUME NEW r \in Call, C!ChannelInserted(r) PROVE Once'
  BY <1>19 DEF C!ChannelInserted, C!At, C!Ends
<1>20. ASSUME NEW r \in Call, C!closeServer(r) PROVE Once'
  BY <1>20 DEF C!closeServer
<1>21. ASSUME NEW r \in Call, C!BreakOff(r) PROVE Once'
  BY <1>21, BrokenOff
<1>22. ASSUME NEW r \in Call, NEW c \in {h1, h2}, C!WriteChannel(r, c) PROVE Once'
  BY <1>22 DEF C!WriteChannel, C!Begin, C!Ask
<1>23. ASSUME NEW r \in Call, NEW c \in {h1, h2}, C!channelDelete(r, c) PROVE Once'
  BY <1>23 DEF C!channelDelete, C!Begin, C!Ask
<1>24. ASSUME NEW r \in Call, NEW c \in {h1, h2}, C!channelCreate(r, c) PROVE Once'
  BY <1>24 DEF C!channelCreate, C!Begin, C!Ask
<1> HIDE DEF ContentTypes, Numbers, Once, Deletes, Conversations, C!CTypeOK, Issued, Holding, FileKeyOf, Does, Is,
             C!Blamed, C!Message, C!Requests
<1> QED BY <1>1, <1>2, <1>3, <1>4, <1>5, <1>6, <1>7, <1>8, <1>9, <1>10, <1>11, <1>12, <1>13, <1>14, <1>15, <1>16,
           <1>17, <1>18, <1>19, <1>20, <1>21, <1>22, <1>23, <1>24 DEF C!CNext

\* A request that deletes takes the files before their rows.
LEMMA DeletesKept ==
  ASSUME ContentTypes, Numbers, Once, Deletes, C!CNext PROVE Deletes'
<1> USE DEF ContentTypes, Numbers, Once, Deletes, Conversations, C!CTypeOK, Issued, Holding, FileKeyOf, Does, Is,
            C!Blamed, C!Message, C!Requests
<1>1. ASSUME NEW r \in Call, C!uploadServerIconReads(r) PROVE Deletes'
  BY <1>1 DEF C!uploadServerIconReads, C!Begin, C!Ask
<1>2. ASSUME NEW r \in Call, C!uploadServerIconPut(r) PROVE Deletes'
  BY <1>2 DEF C!uploadServerIconPut, C!At
<1>3. ASSUME NEW r \in Call, C!uploadServerIconRow(r) PROVE Deletes'
  BY <1>3 DEF C!uploadServerIconRow, C!At, C!IconRow, C!Overwrites, C!Goto
<1>4. ASSUME NEW r \in Call, C!deleteServerIconReads(r) PROVE Deletes'
  BY <1>4 DEF C!deleteServerIconReads, C!Begin, C!Ask
<1>5. ASSUME NEW r \in Call, C!deleteServerIconRow(r) PROVE Deletes'
  BY <1>5 DEF C!deleteServerIconRow, C!At, C!IconRow, C!Overwrites, C!Goto
<1>6. ASSUME NEW r \in Call, C!IconDelete(r) PROVE Deletes'
  BY <1>6 DEF C!IconDelete, C!At, C!Ends
<1>7. ASSUME NEW r \in Call, C!Upload(r) PROVE Deletes'
  BY <1>7 DEF C!Upload, C!Begin, C!Ask
<1>8. ASSUME NEW r \in Call, C!UploadPut(r) PROVE Deletes'
  BY <1>8 DEF C!UploadPut, C!At
<1>9. ASSUME NEW r \in Call, C!SendChecked(r) PROVE Deletes'
  BY <1>9 DEF C!SendChecked, C!At, C!Goto, C!Ends
<1>10. ASSUME NEW r \in Call, C!SendInserts(r) PROVE Deletes'
  <2>1. PICK m \in C!Message : /\ m.of = req[r].of /\ m.file = req[r].file /\ m.id = next /\ messages' = messages \cup {m}
    BY <1>10, Inserted
  <2>2. /\ UNCHANGED bucket /\ Is(r, "send", "insert") /\ req'[r] = Nil /\ \A s \in Call : s # r => req'[s] = req[s]
        /\ cwhy \subseteq cwhy'
    BY <1>10, Inserted
  <2>3. \A s \in Call : Is(s, "delete", "all") \/ Is(s, "delete", "messages") =>
          s # r /\ (m.of = req[s].of => C!Blamed(m.file)')
    BY <1>10, <2>1, <2>2, Inserted DEF C!Listing
  <2>4. \A s \in Call : Is(s, "delete", "files") \/ Is(s, "delete", "row") => s # r /\ m.id \notin req[s].list
    BY <2>1, <2>2
  <2> QED BY <2>1, <2>2, <2>3, <2>4
<1>11. ASSUME NEW r \in Call, C!DeleteMessage(r) PROVE Deletes'
  BY <1>11 DEF C!DeleteMessage, C!Begin, C!Ask
<1>12. ASSUME NEW r \in Call, C!LastLeaves(r) PROVE Deletes'
  BY <1>12 DEF C!LastLeaves, C!Ask
<1>13. ASSUME NEW r \in Call, C!Listed(r) PROVE Deletes'
  BY <1>13 DEF C!Listed, C!At, C!FilesOf, C!In
<1>14. ASSUME NEW r \in Call, C!FileDeleted(r) PROVE Deletes'
  BY <1>14 DEF C!FileDeleted, C!At
<1>15. ASSUME NEW r \in Call, C!RowsDeleted(r) PROVE Deletes'
  BY <1>15 DEF C!RowsDeleted, C!At, C!Goto, C!Ends, C!In
<1>16. ASSUME NEW r \in Call, C!MessagesDeleted(r) PROVE Deletes'
  BY <1>16 DEF C!MessagesDeleted, C!At, C!In, C!Ends
<1>17. ASSUME NEW r \in Call, C!OneFileDeleted(r) PROVE Deletes'
  BY <1>17 DEF C!OneFileDeleted, C!At, C!Goto
<1>18. ASSUME NEW r \in Call, C!OneRowDeleted(r) PROVE Deletes'
  BY <1>18 DEF C!OneRowDeleted, C!At, C!Ends
<1>19. ASSUME NEW r \in Call, C!ChannelInserted(r) PROVE Deletes'
  BY <1>19 DEF C!ChannelInserted, C!At, C!Ends
<1>20. ASSUME NEW r \in Call, C!closeServer(r) PROVE Deletes'
  BY <1>20 DEF C!closeServer
<1>21. ASSUME NEW r \in Call, C!BreakOff(r) PROVE Deletes'
  BY <1>21, BrokenOff
<1>22. ASSUME NEW r \in Call, NEW c \in {h1, h2}, C!WriteChannel(r, c) PROVE Deletes'
  BY <1>22 DEF C!WriteChannel, C!Begin, C!Ask
<1>23. ASSUME NEW r \in Call, NEW c \in {h1, h2}, C!channelDelete(r, c) PROVE Deletes'
  BY <1>23 DEF C!channelDelete, C!Begin, C!Ask
<1>24. ASSUME NEW r \in Call, NEW c \in {h1, h2}, C!channelCreate(r, c) PROVE Deletes'
  BY <1>24 DEF C!channelCreate, C!Begin, C!Ask
<1> HIDE DEF ContentTypes, Numbers, Once, Deletes, Conversations, C!CTypeOK, Issued, Holding, FileKeyOf, Does, Is,
             C!Blamed, C!Message, C!Requests
<1> QED BY <1>1, <1>2, <1>3, <1>4, <1>5, <1>6, <1>7, <1>8, <1>9, <1>10, <1>11, <1>12, <1>13, <1>14, <1>15, <1>16,
           <1>17, <1>18, <1>19, <1>20, <1>21, <1>22, <1>23, <1>24 DEF C!CNext

\* A stored file is named, blamed, or a request is about to name or to delete it.
LEMMA FilesKept ==
  ASSUME ContentTypes, Numbers, Apart, Icons, Once, Deletes, Closed, Files, C!CNext PROVE Files'
<1> USE DEF ContentTypes, Numbers, Apart, Icons, Once, Deletes, Closed, Files, Conversations, C!CTypeOK, Issued,
            IconKeys, FileKeys, IconNew, IconOld, Holding, FileKeyOf, Does, Is, C!Blamed, Pending, C!Named,
            C!Message, C!Requests, IconKeyOf, C!FilesOf
<1>1. ASSUME NEW r \in Call, C!uploadServerIconReads(r) PROVE Files'
  BY <1>1 DEF C!uploadServerIconReads, C!Begin, C!Ask
<1>2. ASSUME NEW r \in Call, C!uploadServerIconPut(r) PROVE Files'
  BY <1>2 DEF C!uploadServerIconPut, C!At
<1>3. ASSUME NEW r \in Call, C!uploadServerIconRow(r) PROVE Files'
  <2>1. PICK k \in req[r].list : C!IconRow(r, k)
    BY <1>3 DEF C!uploadServerIconRow
  <2>2. Is(r, "icon", "row") /\ req[r].list = {k}
    BY <1>3, <2>1 DEF C!uploadServerIconRow, C!At, Icons, IconNew
  <2> QED BY <2>1, <2>2, IconRowFiles
<1>4. ASSUME NEW r \in Call, C!deleteServerIconReads(r) PROVE Files'
  BY <1>4 DEF C!deleteServerIconReads, C!Begin, C!Ask
<1>5. ASSUME NEW r \in Call, C!deleteServerIconRow(r) PROVE Files'
  <2>1. Is(r, "unicon", "row") /\ C!IconRow(r, 0)
    BY <1>5 DEF C!deleteServerIconRow, C!At
  <2> QED BY <2>1, IconRowFiles
<1>6. ASSUME NEW r \in Call, C!IconDelete(r) PROVE Files'
  BY <1>6 DEF C!IconDelete, C!At, C!Ends
<1>7. ASSUME NEW r \in Call, C!Upload(r) PROVE Files'
  BY <1>7 DEF C!Upload, C!Begin, C!Ask
<1>8. ASSUME NEW r \in Call, C!UploadPut(r) PROVE Files'
  BY <1>8 DEF C!UploadPut, C!At
<1>9. ASSUME NEW r \in Call, C!SendChecked(r) PROVE Files'
  <2>1. UNCHANGED <<open, icon, convos, messages, bucket>> /\ cwhy \subseteq cwhy' /\ Is(r, "send", "check")
    BY <1>9 DEF C!SendChecked, C!At
  <2>2. req' = [req EXCEPT ![r].at = "insert"] \/ (req' = [req EXCEPT ![r] = Nil] /\ <<req[r].file, "unsent">> \in cwhy')
    BY <1>9 DEF C!SendChecked, C!Goto, C!Ends
  <2>3. \A s \in Call : s # r => req'[s] = req[s]
    BY <2>2
  <2>4. Holding(r) => (Holding(r)' /\ req'[r].file = req[r].file) \/ \A x : x = req[r].file => C!Blamed(x)'
    BY <2>1, <2>2, GroupAssumption
  <2> QED BY <2>1, <2>3, <2>4, NamedIs
<1>10. ASSUME NEW r \in Call, C!SendInserts(r) PROVE Files'
  <2>1. PICK m \in C!Message : /\ m.of = req[r].of /\ m.file = req[r].file /\ m.id = next /\ messages' = messages \cup {m}
    BY <1>10, Inserted
  <2>2. /\ UNCHANGED <<open, icon, convos, bucket>> /\ Is(r, "send", "insert") /\ \A s \in Call : s # r => req'[s] = req[s]
        /\ cwhy \subseteq cwhy'
    BY <1>10, Inserted
  <2>3. m.of \in convos \/ \A x : x = m.file => C!Blamed(x)'
    <3> HIDE DEF C!Blamed
    <3>1. \A x : req[r].of \notin convos /\ x = req[r].file => C!Blamed(x)'
      BY <1>10, Inserted
    <3> QED BY <2>1, <3>1
  <2> QED BY <2>1, <2>2, <2>3, NamedIs
<1>11. ASSUME NEW r \in Call, C!DeleteMessage(r) PROVE Files'
  BY <1>11 DEF C!DeleteMessage, C!Begin, C!Ask
<1>12. ASSUME NEW r \in Call, C!LastLeaves(r) PROVE Files'
  BY <1>12 DEF C!LastLeaves, C!Ask
<1>13. ASSUME NEW r \in Call, C!Listed(r) PROVE Files'
  <2>1. UNCHANGED <<open, icon, convos, messages, bucket, cwhy>> /\ Does(r, "delete")
    BY <1>13 DEF C!Listed, C!At
  <2>2. \A s \in Call : s # r => req'[s] = req[s]
    BY <1>13 DEF C!Listed
  <2> QED BY <2>1, <2>2, NamedIs
<1>14. ASSUME NEW r \in Call, C!FileDeleted(r) PROVE Files'
  BY <1>14 DEF C!FileDeleted, C!At
<1>15. ASSUME NEW r \in Call, C!RowsDeleted(r) PROVE Files'
  BY <1>15 DEF C!RowsDeleted, C!At, C!Goto, C!Ends, C!In
<1>16. ASSUME NEW r \in Call, C!MessagesDeleted(r) PROVE Files'
  BY <1>16 DEF C!MessagesDeleted, C!At, C!In, C!Ends
<1>17. ASSUME NEW r \in Call, C!OneFileDeleted(r) PROVE Files'
  BY <1>17 DEF C!OneFileDeleted, C!At, C!Goto
<1>18. ASSUME NEW r \in Call, C!OneRowDeleted(r) PROVE Files'
  BY <1>18 DEF C!OneRowDeleted, C!At, C!Ends
<1>19. ASSUME NEW r \in Call, C!ChannelInserted(r) PROVE Files'
  BY <1>19 DEF C!ChannelInserted, C!At, C!Ends
<1>20. ASSUME NEW r \in Call, C!closeServer(r) PROVE Files'
  <2>1. UNCHANGED <<icon, convos, messages, bucket, req>> /\ cwhy \subseteq cwhy'
    BY <1>20 DEF C!closeServer
  <2>2. icon # 0 => <<icon, "closed">> \in cwhy'
    BY <1>20 DEF C!closeServer
  <2>3. \A x : x = icon /\ x # 0 => C!Blamed(x)'
    BY <2>2
  <2> QED BY <2>1, <2>3, NamedIs
<1>21. ASSUME NEW r \in Call, C!BreakOff(r) PROVE Files'
  <2>1. /\ UNCHANGED <<open, icon, convos, messages, bucket>> /\ cwhy \subseteq cwhy'
        /\ req[r] # Nil /\ req'[r] = Nil /\ \A s \in Call : s # r => req'[s] = req[s]
    BY <1>21, BrokenOff
  <2>2. \A x : x = req[r].file \/ x \in req[r].list => C!Blamed(x)'
    BY <1>21, BrokenOff
  <2>3. \A f : f \in C!Named => f \in C!Named'
    BY <2>1, NamedIs
  <2>4. \A f : C!Blamed(f) => C!Blamed(f)'
    BY <2>1
  <2>5. ASSUME NEW f, Pending(f) PROVE C!Blamed(f)' \/ Pending(f)'
    <3>1. PICK s \in Call : \/ Is(s, "icon", "row") /\ f \in req[s].list
                            \/ (Is(s, "icon", "delete") \/ Is(s, "unicon", "delete")) /\ f = req[s].file
                            \/ Holding(s) /\ f = req[s].file
      BY <2>5
    <3>2. CASE s = r
      BY <2>2, <3>1, <3>2
    <3>3. CASE s # r
      BY <2>1, <3>1, <3>3
    <3> QED BY <3>2, <3>3
  <2> QED BY <2>1, <2>3, <2>4, <2>5
<1>22. ASSUME NEW r \in Call, NEW c \in {h1, h2}, C!WriteChannel(r, c) PROVE Files'
  BY <1>22 DEF C!WriteChannel, C!Begin, C!Ask
<1>23. ASSUME NEW r \in Call, NEW c \in {h1, h2}, C!channelDelete(r, c) PROVE Files'
  BY <1>23 DEF C!channelDelete, C!Begin, C!Ask
<1>24. ASSUME NEW r \in Call, NEW c \in {h1, h2}, C!channelCreate(r, c) PROVE Files'
  BY <1>24 DEF C!channelCreate, C!Begin, C!Ask
<1> HIDE DEF ContentTypes, Numbers, Apart, Icons, Once, Deletes, Closed, Files, Conversations, C!CTypeOK, Issued,
             IconKeys, FileKeys, IconNew, IconOld, Holding, FileKeyOf, Does, Is, C!Blamed, Pending, C!Named,
             C!Message, C!Requests, IconKeyOf, C!FilesOf
<1> QED BY <1>1, <1>2, <1>3, <1>4, <1>5, <1>6, <1>7, <1>8, <1>9, <1>10, <1>11, <1>12, <1>13, <1>14, <1>15, <1>16,
           <1>17, <1>18, <1>19, <1>20, <1>21, <1>22, <1>23, <1>24 DEF C!CNext

\* A message has its conversation and its file, or one of them is blamed, or it is about to be deleted.
LEMMA RowsKept ==
  ASSUME ContentTypes, Numbers, Apart, Once, Deletes, Rows, C!CNext PROVE Rows'
<1> USE DEF ContentTypes, Numbers, Apart, Once, Deletes, Rows, Conversations, C!CTypeOK, Issued, IconKeys,
            FileKeys, Holding, FileKeyOf, Does, Is, C!Blamed, C!Message, C!Requests, IconKeyOf
<1>1. ASSUME NEW r \in Call, C!uploadServerIconReads(r) PROVE Rows'
  BY <1>1 DEF C!uploadServerIconReads, C!Begin, C!Ask
<1>2. ASSUME NEW r \in Call, C!uploadServerIconPut(r) PROVE Rows'
  BY <1>2 DEF C!uploadServerIconPut, C!At
<1>3. ASSUME NEW r \in Call, C!uploadServerIconRow(r) PROVE Rows'
  BY <1>3 DEF C!uploadServerIconRow, C!At, C!IconRow, C!Overwrites, C!Goto
<1>4. ASSUME NEW r \in Call, C!deleteServerIconReads(r) PROVE Rows'
  BY <1>4 DEF C!deleteServerIconReads, C!Begin, C!Ask
<1>5. ASSUME NEW r \in Call, C!deleteServerIconRow(r) PROVE Rows'
  BY <1>5 DEF C!deleteServerIconRow, C!At, C!IconRow, C!Overwrites, C!Goto
<1>6. ASSUME NEW r \in Call, C!IconDelete(r) PROVE Rows'
  BY <1>6 DEF C!IconDelete, C!At, C!Ends
<1>7. ASSUME NEW r \in Call, C!Upload(r) PROVE Rows'
  BY <1>7 DEF C!Upload, C!Begin, C!Ask
<1>8. ASSUME NEW r \in Call, C!UploadPut(r) PROVE Rows'
  BY <1>8 DEF C!UploadPut, C!At
<1>9. ASSUME NEW r \in Call, C!SendChecked(r) PROVE Rows'
  BY <1>9 DEF C!SendChecked, C!At, C!Goto, C!Ends
<1>10. ASSUME NEW r \in Call, C!SendInserts(r) PROVE Rows'
  <2>1. PICK m \in C!Message : /\ m.of = req[r].of /\ m.file = req[r].file /\ m.id = next /\ messages' = messages \cup {m}
    BY <1>10, Inserted
  <2>2. /\ UNCHANGED <<convos, bucket>> /\ Is(r, "send", "insert") /\ \A s \in Call : s # r => req'[s] = req[s]
        /\ cwhy \subseteq cwhy'
    BY <1>10, Inserted
  <2>3. m.of \in convos \/ \A x : x = m.id => C!Blamed(x)'
    <3> HIDE DEF C!Blamed
    <3>1. \A x : req[r].of \notin convos /\ x = next => C!Blamed(x)'
      BY <1>10, Inserted
    <3> QED BY <2>1, <3>1
  <2>4. m.file = 0 \/ m.file \in bucket'
    BY <2>1, <2>2 DEF Once, Holding
  <2> QED BY <2>1, <2>2, <2>3, <2>4
<1>11. ASSUME NEW r \in Call, C!DeleteMessage(r) PROVE Rows'
  BY <1>11 DEF C!DeleteMessage, C!Begin, C!Ask
<1>12. ASSUME NEW r \in Call, C!LastLeaves(r) PROVE Rows'
  BY <1>12 DEF C!LastLeaves, C!Ask
<1>13. ASSUME NEW r \in Call, C!Listed(r) PROVE Rows'
  BY <1>13 DEF C!Listed, C!At, C!FilesOf, C!In
<1>14. ASSUME NEW r \in Call, C!FileDeleted(r) PROVE Rows'
  <2>1. PICK f \in req[r].list : bucket' = bucket \ {f} /\ req' = [req EXCEPT ![r].list = req[r].list \ {f}]
    BY <1>14 DEF C!FileDeleted
  <2>2. Is(r, "delete", "all") /\ UNCHANGED <<convos, messages, cwhy>>
    BY <1>14 DEF C!FileDeleted, C!At
  <2>3. /\ \A s \in Call : s # r => req'[s] = req[s]
        /\ req[r] \in C!Requests /\ req[r].list \ {f} \in SUBSET Nat
        /\ req'[r] = [req[r] EXCEPT !.list = req[r].list \ {f}]
    BY <2>1, <2>2
  <2>4. req'[r] # Nil /\ req'[r].op = "delete" /\ req'[r].at = "all" /\ req'[r].of = req[r].of
    BY <2>2, <2>3, GroupAssumption
  <2>5. req[r].of = Group /\ \A x \in messages : x.file = f => x.of = Group
    BY <2>1, <2>2 DEF Once, Deletes
  <2> QED BY <2>1, <2>2, <2>3, <2>4, <2>5
<1>15. ASSUME NEW r \in Call, C!RowsDeleted(r) PROVE Rows'
  <2>1. /\ Is(r, "delete", "all") /\ req[r].list = {} /\ convos' = convos \ {req[r].of} /\ UNCHANGED <<bucket, cwhy>>
        /\ \A s \in Call : s # r => req'[s] = req[s]
    BY <1>15 DEF C!RowsDeleted, C!At, C!Goto, C!Ends
  <2>2. CASE req[r].of = Group
    <3>1. UNCHANGED messages /\ req' = [req EXCEPT ![r].at = "messages"]
      BY <1>15, <2>2 DEF C!RowsDeleted, C!Goto
    <3>2. Is(r, "delete", "messages")' /\ req'[r].of = req[r].of
      BY <2>1, <3>1, GroupAssumption
    <3> QED BY <2>1, <3>1, <3>2
  <2>3. CASE req[r].of # Group
    <3>1. messages' = {x \in messages : x.of # req[r].of}
      BY <1>15, <2>3 DEF C!RowsDeleted, C!In
    <3> QED BY <2>1, <3>1
  <2> QED BY <2>2, <2>3
<1>16. ASSUME NEW r \in Call, C!MessagesDeleted(r) PROVE Rows'
  BY <1>16 DEF C!MessagesDeleted, C!At, C!In, C!Ends
<1>17. ASSUME NEW r \in Call, C!OneFileDeleted(r) PROVE Rows'
  <2>1. /\ Is(r, "delete", "files") /\ bucket' = bucket \ {req[r].file} /\ UNCHANGED <<convos, messages, cwhy>>
        /\ \A s \in Call : s # r => req'[s] = req[s]
    BY <1>17 DEF C!OneFileDeleted, C!At, C!Goto
  <2>2. req' = [req EXCEPT ![r].at = "row"]
    BY <1>17 DEF C!OneFileDeleted, C!Goto
  <2>3. Is(r, "delete", "row")' /\ req'[r].list = req[r].list
    BY <2>1, <2>2, GroupAssumption
  <2>4. \A x \in messages : x.file = req[r].file /\ x.file # 0 => x.id \in req[r].list
    BY <2>1 DEF Deletes
  <2> QED BY <2>1, <2>3, <2>4
<1>18. ASSUME NEW r \in Call, C!OneRowDeleted(r) PROVE Rows'
  BY <1>18 DEF C!OneRowDeleted, C!At, C!Ends
<1>19. ASSUME NEW r \in Call, C!ChannelInserted(r) PROVE Rows'
  BY <1>19 DEF C!ChannelInserted, C!At, C!Ends
<1>20. ASSUME NEW r \in Call, C!closeServer(r) PROVE Rows'
  BY <1>20 DEF C!closeServer
<1>21. ASSUME NEW r \in Call, C!BreakOff(r) PROVE Rows'
  <2>1. \A x \in messages : Is(r, "delete", "row") /\ x.id \in req[r].list => x.file = req[r].file
    BY DEF Deletes
  <2> QED BY <1>21, <2>1, BrokenOff
<1>22. ASSUME NEW r \in Call, NEW c \in {h1, h2}, C!WriteChannel(r, c) PROVE Rows'
  BY <1>22 DEF C!WriteChannel, C!Begin, C!Ask
<1>23. ASSUME NEW r \in Call, NEW c \in {h1, h2}, C!channelDelete(r, c) PROVE Rows'
  BY <1>23 DEF C!channelDelete, C!Begin, C!Ask
<1>24. ASSUME NEW r \in Call, NEW c \in {h1, h2}, C!channelCreate(r, c) PROVE Rows'
  BY <1>24 DEF C!channelCreate, C!Begin, C!Ask
<1> HIDE DEF ContentTypes, Numbers, Apart, Once, Deletes, Rows, Conversations, C!CTypeOK, Issued, IconKeys,
             FileKeys, Holding, FileKeyOf, Does, Is, C!Blamed, C!Message, C!Requests, IconKeyOf
<1> QED BY <1>1, <1>2, <1>3, <1>4, <1>5, <1>6, <1>7, <1>8, <1>9, <1>10, <1>11, <1>12, <1>13, <1>14, <1>15, <1>16,
           <1>17, <1>18, <1>19, <1>20, <1>21, <1>22, <1>23, <1>24 DEF C!CNext

\* What a closed server leaves is blamed.
LEMMA ClosedKept ==
  ASSUME ContentTypes, Closed, C!CNext PROVE Closed'
<1> USE DEF ContentTypes, Closed, Conversations, C!CTypeOK, C!Blamed, C!Message, C!Requests
<1>1. ASSUME NEW r \in Call, C!uploadServerIconReads(r) PROVE Closed'
  BY <1>1 DEF C!uploadServerIconReads, C!Begin, C!Ask
<1>2. ASSUME NEW r \in Call, C!uploadServerIconPut(r) PROVE Closed'
  BY <1>2 DEF C!uploadServerIconPut, C!At
<1>3. ASSUME NEW r \in Call, C!uploadServerIconRow(r) PROVE Closed'
  BY <1>3 DEF C!uploadServerIconRow, C!At, C!IconRow, C!Overwrites, C!Goto
<1>4. ASSUME NEW r \in Call, C!deleteServerIconReads(r) PROVE Closed'
  BY <1>4 DEF C!deleteServerIconReads, C!Begin, C!Ask
<1>5. ASSUME NEW r \in Call, C!deleteServerIconRow(r) PROVE Closed'
  BY <1>5 DEF C!deleteServerIconRow, C!At, C!IconRow, C!Overwrites, C!Goto
<1>6. ASSUME NEW r \in Call, C!IconDelete(r) PROVE Closed'
  BY <1>6 DEF C!IconDelete, C!At, C!Ends
<1>7. ASSUME NEW r \in Call, C!Upload(r) PROVE Closed'
  BY <1>7 DEF C!Upload, C!Begin, C!Ask
<1>8. ASSUME NEW r \in Call, C!UploadPut(r) PROVE Closed'
  BY <1>8 DEF C!UploadPut, C!At
<1>9. ASSUME NEW r \in Call, C!SendChecked(r) PROVE Closed'
  BY <1>9 DEF C!SendChecked, C!At, C!Goto, C!Ends
<1>10. ASSUME NEW r \in Call, C!SendInserts(r) PROVE Closed'
  BY <1>10 DEF C!SendInserts, C!At, C!Listing, C!Ends
<1>11. ASSUME NEW r \in Call, C!DeleteMessage(r) PROVE Closed'
  BY <1>11 DEF C!DeleteMessage, C!Begin, C!Ask
<1>12. ASSUME NEW r \in Call, C!LastLeaves(r) PROVE Closed'
  BY <1>12 DEF C!LastLeaves, C!Ask
<1>13. ASSUME NEW r \in Call, C!Listed(r) PROVE Closed'
  BY <1>13 DEF C!Listed, C!At, C!FilesOf, C!In
<1>14. ASSUME NEW r \in Call, C!FileDeleted(r) PROVE Closed'
  BY <1>14 DEF C!FileDeleted, C!At
<1>15. ASSUME NEW r \in Call, C!RowsDeleted(r) PROVE Closed'
  BY <1>15 DEF C!RowsDeleted, C!At, C!Goto, C!Ends, C!In
<1>16. ASSUME NEW r \in Call, C!MessagesDeleted(r) PROVE Closed'
  BY <1>16 DEF C!MessagesDeleted, C!At, C!In, C!Ends
<1>17. ASSUME NEW r \in Call, C!OneFileDeleted(r) PROVE Closed'
  BY <1>17 DEF C!OneFileDeleted, C!At, C!Goto
<1>18. ASSUME NEW r \in Call, C!OneRowDeleted(r) PROVE Closed'
  BY <1>18 DEF C!OneRowDeleted, C!At, C!Ends
<1>19. ASSUME NEW r \in Call, C!ChannelInserted(r) PROVE Closed'
  <2>1. convos' = convos \cup {req[r].of} /\ UNCHANGED <<open, icon>> /\ cwhy \subseteq cwhy'
    BY <1>19 DEF C!ChannelInserted
  <2>2. ~open => <<req[r].of, "closed">> \in cwhy'
    BY <1>19 DEF C!ChannelInserted
  <2> QED BY <2>1, <2>2
<1>20. ASSUME NEW r \in Call, C!closeServer(r) PROVE Closed'
  <2>1. UNCHANGED <<icon, convos>>
    BY <1>20 DEF C!closeServer
  <2>2. \A x : x \in ({icon} \ {0}) \cup (convos \ {Group}) => <<x, "closed">> \in cwhy'
    BY <1>20 DEF C!closeServer
  <2>3. \A x : <<x, "closed">> \in cwhy' => C!Blamed(x)'
    OBVIOUS
  <2>4. \A c \in convos \ {Group} : C!Blamed(c)'
    BY <2>2, <2>3
  <2>5. icon = 0 \/ C!Blamed(icon)'
    BY <2>1, <2>2, <2>3
  <2> QED BY <2>1, <2>4, <2>5
<1>21. ASSUME NEW r \in Call, C!BreakOff(r) PROVE Closed'
  BY <1>21, BrokenOff
<1>22. ASSUME NEW r \in Call, NEW c \in {h1, h2}, C!WriteChannel(r, c) PROVE Closed'
  BY <1>22 DEF C!WriteChannel, C!Begin, C!Ask
<1>23. ASSUME NEW r \in Call, NEW c \in {h1, h2}, C!channelDelete(r, c) PROVE Closed'
  BY <1>23 DEF C!channelDelete, C!Begin, C!Ask
<1>24. ASSUME NEW r \in Call, NEW c \in {h1, h2}, C!channelCreate(r, c) PROVE Closed'
  BY <1>24 DEF C!channelCreate, C!Begin, C!Ask
<1> HIDE DEF ContentTypes, Closed, Conversations, C!CTypeOK, C!Blamed, C!Message, C!Requests
<1> QED BY <1>1, <1>2, <1>3, <1>4, <1>5, <1>6, <1>7, <1>8, <1>9, <1>10, <1>11, <1>12, <1>13, <1>14, <1>15, <1>16,
           <1>17, <1>18, <1>19, <1>20, <1>21, <1>22, <1>23, <1>24 DEF C!CNext

\* The first state has the invariant, and every step of a request keeps it.
LEMMA ContentStart == C!CInit => ContentInv
<1> SUFFICES ASSUME C!CInit PROVE ContentInv
  OBVIOUS
<1> USE DEF C!CInit, Conversations
<1>1. ContentTypes
  BY DEF ContentTypes, C!CTypeOK, C!Message
<1>2. \A r \in Call : req[r] = Nil
  OBVIOUS
<1>3. Numbers /\ Apart
  BY <1>2 DEF Numbers, Apart, Issued, IconKeys, FileKeys, IconKeyOf, FileKeyOf, Is, Does
<1>4. Icons /\ Deletes
  BY <1>2 DEF Icons, IconNew, IconOld, Deletes, Is, Does
<1>5. Once
  BY <1>2 DEF Once, Holding, Is, Does
<1>6. Files /\ Rows /\ Closed
  BY NamedIs DEF Files, Rows, Closed
<1> QED BY <1>1, <1>3, <1>4, <1>5, <1>6 DEF ContentInv

LEMMA ContentNext == ContentInv /\ C!CNext => ContentInv'
  BY ContentTypesKept, NumbersKept, ApartKept, IconsKept, OnceKept, DeletesKept, FilesKept, RowsKept, ClosedKept
     DEF ContentInv

\* When no request is under way nothing is about to be named or deleted: what is
\* neither is blamed.
LEMMA ContentSays == ContentInv => C!ContentsAgree
<1> SUFFICES ASSUME ContentInv PROVE C!ContentsAgree
  OBVIOUS
<1>1. C!IconIsThere
  BY DEF ContentInv, Icons, C!IconIsThere
<1>2. ASSUME C!Idle PROVE \A r \in Call : ~Holding(r) /\ ~Does(r, "icon") /\ ~Does(r, "unicon") /\ ~Does(r, "delete")
  BY <1>2 DEF C!Idle, Holding, Is, Does
<1>3. C!NothingLeftBehind
  BY <1>2 DEF ContentInv, Files, Rows, Closed, Pending, Is, C!NothingLeftBehind
<1> QED BY <1>1, <1>3 DEF C!ContentsAgree

\* The icon that an open server names is stored; and when no request is under way
\* the rows and the stored files agree, except for what is blamed on a request that
\* broke off, on two that overlapped, on a message nobody sent or on the closing of
\* the server (serverRoutes.js, groupRoutes.js, uploadRoutes.js): however many
\* requests are under way, and wherever each of them ends.
THEOREM ContentsAgreeHolds == MCSpec => []ContentsAgree
<1> DEFINE I == part = "contents" => ContentInv
<1>1. MCInit => I
  BY ContentStart DEF MCInit
<1>2. I /\ [MCNext]_<<part, vars, view, ckeys, contents>> => I'
  <2> SUFFICES ASSUME I, [MCNext]_<<part, vars, view, ckeys, contents>>, part' = "contents" PROVE ContentInv'
    OBVIOUS
  <2>1. part = "contents" /\ ContentInv
    BY DEF MCNext, ServerStep, ViewStep, KeysStep, ContentsStep
  <2>2. CASE ContentsStep
    BY <2>1, <2>2, ContentNext DEF ContentsStep
  <2>3. CASE UNCHANGED contents
    <3>1. UNCHANGED <<open, icon, convos, members, messages, bucket, next, req, cwhy>>
      BY <2>3 DEF contents
    <3> USE DEF Conversations, Issued, IconKeyOf, FileKeyOf, IconKeys, FileKeys, Holding, Pending, Is, Does
    <3>2. (ContentTypes /\ Numbers /\ Apart)'
      BY <2>1, <3>1 DEF ContentInv, ContentTypes, C!CTypeOK, Numbers, Apart
    <3>3. (Icons /\ Once)'
      BY <2>1, <3>1 DEF ContentInv, Icons, IconNew, IconOld, Once
    <3>4. (Deletes /\ Files)'
      BY <2>1, <3>1, NamedIs DEF ContentInv, Deletes, Files, C!Blamed
    <3>5. (Rows /\ Closed)'
      BY <2>1, <3>1 DEF ContentInv, Rows, Closed, C!Blamed
    <3> QED BY <3>2, <3>3, <3>4, <3>5 DEF ContentInv
  <2> QED BY <2>1, <2>2, <2>3 DEF MCNext, ServerStep, ViewStep, KeysStep
<1>3. I => ContentsAgree
  BY ContentSays DEF ContentsAgree
<1> QED BY <1>1, <1>2, <1>3, PTL DEF MCSpec
=============================================================================

------------------------------- MODULE Servers -------------------------------
(***************************************************************************)
(* A server with its members, roles, bans, one invite and one channel      *)
(* (serverRoutes.js, lib/permissions.js, lib/channelAccess.js) and the     *)
(* cached recipient list of the channel (auth.js) and the cached channel   *)
(* lists of its members.  A handler first reads the tables and decides,    *)
(* then writes in one D1 batch, then deletes the cached recipient list;    *)
(* other requests run between these three steps.  `Ask` is the first step, *)
(* the action named after the handler the second, `Purge` the third.  A    *)
(* permission word is a set of permission names.                           *)
(***************************************************************************)
EXTENDS Integers, FiniteSets

CONSTANTS Users,          \* handles of accounts
          First,          \* the account that created the server
          Crowd,          \* accounts that may already be members
          Roles,          \* role ids, Everyone among them
          Everyone,       \* the default role
          Mod,            \* a role that exists from the start, held by Chief
          Chief,          \* the member that holds Mod from the start
          ModPerms,       \* the permissions of Mod at the start
          RoleKinds,      \* permission words a request offers
          OverrideKinds,  \* <<allow, deny>> pairs a request offers
          Positions,      \* role positions a request offers
          Width,          \* 2^32: a bitwise operator keeps the number modulo this
          MemberLimit,    \* servers.member_limit
          MaxUses,        \* server_invites.max_uses
          None,
          MaxPending,     \* bound: requests running at once
          Families        \* bound: <<operations, requests made>> of a behaviour

Perms == {"VIEW_CHANNEL", "SEND_MESSAGES", "KICK_MEMBERS", "BAN_MEMBERS",
          "MANAGE_ROLES", "INVITE_MEMBERS", "ADMINISTRATOR"}
Operations == {"leave", "close", "transfer", "kick", "ban", "unban", "assign", "revoke",
               "createRole", "moveRole", "editRole", "deleteRole",
               "override", "clear", "invite", "uninvite", "join", "list"}

ASSUME ServersAssumption ==
  /\ First \in Users /\ Crowd \subseteq Users \ {First} /\ IsFiniteSet(Crowd)
  /\ Everyone \in Roles /\ Mod \in Roles \ {Everyone} /\ Chief \in Crowd
  /\ Users \cap Roles = {} /\ None \notin Users \cup Roles
  /\ ModPerms \subseteq Perms /\ RoleKinds \subseteq SUBSET Perms
  /\ OverrideKinds \subseteq (SUBSET Perms) \X (SUBSET Perms)
  /\ Positions \subseteq Nat /\ IsFiniteSet(Positions) /\ Width \in Nat \ {0, 1}
  /\ MemberLimit \in Nat \ {0} /\ MaxUses \in Nat
  /\ MaxPending \in Nat /\ Families \subseteq (SUBSET Operations) \X Nat

VARIABLES alive,       \* the servers row exists
          member,      \* server_members
          owner,       \* the members with is_owner = 1
          role,        \* server_roles
          assigned,    \* role_assignments: <<handle, role>>
          over,        \* channel_permission_overrides of the channel, by target
          banned,      \* server_bans
          invite,      \* the server_invites row
          recipients,  \* KV grp_members:<channel>, None when absent
          fill,        \* a list read by a push and not yet stored
          listed,      \* KV vischan:<server>:<handle>: whether the channel is in it
          outdated,    \* history: whose cached list was read before their access changed
          reqs,        \* requests that have decided and not yet returned
          causes,      \* history: operations that wrote on checks no longer true
          acts,        \* requests that may still be made
          ops          \* the operations they are of

vars == <<alive, member, owner, role, assigned, over, banned, invite,
          recipients, fill, listed, outdated, reqs, causes, acts, ops>>

\* Why a stored recipient list may be wrong.
ListCauses == {"fill", "owner", "purge"}

Request(op, by, to, r, pos, allow, deny) ==
  [op |-> op, by |-> by, to |-> to, role |-> r, pos |-> pos,
   allow |-> allow, deny |-> deny, stage |-> "write"]

TypeOK ==
  /\ alive \in BOOLEAN
  /\ member \subseteq Users /\ owner \subseteq member
  /\ role \in [Roles -> [on : BOOLEAN, pos : Positions \cup {0, 2}, perms : SUBSET Perms]]
  /\ assigned \subseteq Users \X Roles
  /\ over \in [Users \cup Roles -> [allow : SUBSET Perms, deny : SUBSET Perms]]
  /\ banned \subseteq Users
  /\ invite \in [on : BOOLEAN, made : BOOLEAN, role : Roles \cup {None}, uses : Nat]
  /\ recipients \in (SUBSET Users) \cup {None} /\ fill \in (SUBSET Users) \cup {None}
  /\ listed \in [Users -> BOOLEAN \cup {None}] /\ outdated \subseteq Users
  /\ reqs \subseteq [op : Operations, by : Users, to : Users \cup Roles \cup {None},
                     role : Roles \cup {None}, pos : Positions \cup {0},
                     allow : SUBSET Perms, deny : SUBSET Perms, stage : {"write", "purge"}]
  /\ causes \subseteq Operations \cup ListCauses
  /\ ops \subseteq Operations /\ acts \in Nat

(***************************************************************************)
(* Permissions.                                                            *)
(***************************************************************************)
RolesOf(u) == {r \in Roles : <<u, r>> \in assigned}
Base(u) == UNION {role[r].perms : r \in RolesOf(u)}
Max0(S) == IF S = {} THEN 0 ELSE CHOOSE x \in S : \A y \in S : y <= x

NoOverride == [allow |-> {}, deny |-> {}]
NoOverrides == [t \in Users \cup Roles |-> NoOverride]

resolvePermissions(u, ov) ==
  IF u \in owner \/ "ADMINISTRATOR" \in Base(u) THEN Perms
  ELSE LET roleDeny == UNION {ov[r].deny : r \in RolesOf(u)}
           roleAllow == UNION {ov[r].allow : r \in RolesOf(u)}
       IN (((Base(u) \ roleDeny) \cup roleAllow) \ ov[u].deny) \cup ov[u].allow

userHasPermission(u, ov, p) == u \in member /\ p \in resolvePermissions(u, ov)
May(u, p) == userHasPermission(u, NoOverrides, p)

getActorMaxRolePosition(u) ==
  IF u \in member THEN Max0({role[r].pos : r \in RolesOf(u)}) ELSE 0

\* x | 0: the low 32 bits, read as a signed number.
Int32(x) == ((x + Width \div 2) % Width) - Width \div 2

\* Slip: a role of the actor's own rank counts as below it.
canManageRoleAtPosition_Equal(u, pos) ==
  u \in owner \/ Int32(pos) <= Int32(getActorMaxRolePosition(u))

canManageRoleAtPosition(u, pos) ==
  u \in owner \/ Int32(pos) < Int32(getActorMaxRolePosition(u))

Outranks(u, t) ==
  u \in owner \/ (t \notin owner /\ getActorMaxRolePosition(t) < getActorMaxRolePosition(u))

(***************************************************************************)
(* Who reads the channel: the gate of a request, the recipients of a push  *)
(* and the channel list each have code of their own.                       *)
(***************************************************************************)
canViewChannel(u) ==
  /\ u \in member
  /\ u \in owner \/ over = NoOverrides \/ "VIEW_CHANNEL" \in resolvePermissions(u, over)

getChannelViewerHandles ==
  IF over = NoOverrides THEN member
  ELSE {u \in member : "VIEW_CHANNEL" \in resolvePermissions(u, over)}

\* The owner and administrators are answered from the tables, the others from a
\* cached list if there is one.
Privileged(u) == u \in owner \/ "ADMINISTRATOR" \in Base(u)
Computed(u) == "VIEW_CHANNEL" \in resolvePermissions(u, over)
getVisibleChannelIds(u) ==
  /\ u \in member
  /\ IF Privileged(u) \/ listed[u] = None THEN Computed(u) ELSE listed[u]

(***************************************************************************)
(* What each handler reads before it writes.                               *)
(***************************************************************************)
MayManage(q, pos) == May(q.by, "MANAGE_ROLES") /\ canManageRoleAtPosition(q.by, pos)
MayRank(q) == MayManage(q, role[q.role].pos) /\ role[q.role].on
AdminByOwner(q, perms) == "ADMINISTRATOR" \in perms => q.by \in owner

leaveServerReads(q) == q.op = "leave" /\ q.by \in member \ owner
closeServerReads(q) == q.op = "close" /\ q.by \in owner /\ member = {q.by}
transferServerReads(q) ==
  q.op = "transfer" /\ q.by \in owner /\ q.to \in member \ {q.by}

\* Slip: the owner is not asked for.
kickMemberReads_AnyTarget(q) ==
  /\ q.op = "kick" /\ May(q.by, "KICK_MEMBERS")
  /\ q.to \in member \ {q.by}

kickMemberReads(q) ==
  /\ q.op = "kick" /\ May(q.by, "KICK_MEMBERS")
  /\ q.to \in member \ (owner \cup {q.by}) /\ Outranks(q.by, q.to)
banMemberReads(q) ==
  /\ q.op = "ban" /\ May(q.by, "BAN_MEMBERS")
  /\ q.to \in member \ (owner \cup {q.by}) /\ Outranks(q.by, q.to)
banDetailReads(q) == q.op = "unban" /\ May(q.by, "BAN_MEMBERS") /\ q.to \in banned

assignRoleReads(q) == q.op = "assign" /\ MayRank(q) /\ q.to \in member
revokeRoleReads(q) == q.op = "revoke" /\ MayRank(q) /\ q.role # Everyone
createRoleReads(q) ==
  /\ q.op = "createRole" /\ ~role[q.role].on
  /\ MayManage(q, q.pos) /\ AdminByOwner(q, q.allow)
moveRoleReads(q) == q.op = "moveRole" /\ MayRank(q) /\ canManageRoleAtPosition(q.by, q.pos)
editRoleReads(q) == q.op = "editRole" /\ MayRank(q) /\ AdminByOwner(q, q.allow)
deleteRoleReads(q) == q.op = "deleteRole" /\ MayRank(q) /\ q.role # Everyone

\* An override for oneself needs no rank; removing a member's needs none either.
channelPermissionsReads(q) ==
  /\ q.op = "override" /\ userHasPermission(q.by, over, "MANAGE_ROLES")
  /\ q.allow \cap q.deny = {}
  /\ IF q.to \in Roles THEN role[q.to].on /\ canManageRoleAtPosition(q.by, role[q.to].pos)
     ELSE q.to \in member /\ (q.to = q.by \/ Outranks(q.by, q.to))
channelPermissionDetailReads(q) ==
  /\ q.op = "clear" /\ userHasPermission(q.by, over, "MANAGE_ROLES")
  /\ over[q.to] # NoOverride
  /\ q.to \in Roles /\ role[q.to].on => canManageRoleAtPosition(q.by, role[q.to].pos)

invitesReads(q) ==
  /\ q.op = "invite" /\ ~invite.made /\ May(q.by, "INVITE_MEMBERS")
  /\ q.role # None => /\ role[q.role].on /\ canManageRoleAtPosition(q.by, role[q.role].pos)
                      /\ AdminByOwner(q, role[q.role].perms)
inviteDeleteReads(q) == q.op = "uninvite" /\ invite.on /\ May(q.by, "INVITE_MEMBERS")
joinByTokenReads(q) ==
  /\ q.op = "join" /\ invite.on /\ q.role = invite.role
  /\ MaxUses > 0 => invite.uses < MaxUses
  /\ q.by \notin banned \cup member /\ Cardinality(member) < MemberLimit

\* A list that is computed goes into the cache; the request carries it as `allow`.
listReads(q) ==
  /\ q.op = "list" /\ q.by \in member /\ ~Privileged(q.by) /\ listed[q.by] = None
  /\ q.allow = IF Computed(q.by) THEN {"VIEW_CHANNEL"} ELSE {}

Reads(q) ==
  /\ alive
  /\ \/ leaveServerReads(q) \/ closeServerReads(q) \/ transferServerReads(q)
     \/ kickMemberReads(q) \/ banMemberReads(q) \/ banDetailReads(q)
     \/ assignRoleReads(q) \/ revokeRoleReads(q) \/ createRoleReads(q)
     \/ moveRoleReads(q) \/ editRoleReads(q) \/ deleteRoleReads(q)
     \/ channelPermissionsReads(q) \/ channelPermissionDetailReads(q)
     \/ invitesReads(q) \/ inviteDeleteReads(q) \/ joinByTokenReads(q) \/ listReads(q)

\* The requests a client can make.
Requests ==
  LET Plain(K, T, R) ==
        {Request(op, u, t, r, 0, {}, {}) : op \in K, u \in Users, t \in T, r \in R}
  IN UNION {
       Plain({"leave", "close", "uninvite"}, {None}, {None}),
       Plain({"transfer", "kick", "ban", "unban"}, Users, {None}),
       Plain({"assign", "revoke"}, Users, Roles),
       Plain({"deleteRole"}, {None}, Roles),
       Plain({"clear"}, Users \cup Roles, {None}),
       Plain({"invite", "join"}, {None}, Roles \cup {None}),
       {Request("list", u, None, None, 0, k, {}) : u \in Users, k \in {{}, {"VIEW_CHANNEL"}}},
       {Request("createRole", u, None, r, p, k, {}) :
          u \in Users, r \in Roles, p \in Positions, k \in RoleKinds},
       {Request("moveRole", u, None, r, p, {}, {}) : u \in Users, r \in Roles, p \in Positions},
       {Request("editRole", u, None, r, 0, k, {}) : u \in Users, r \in Roles, k \in RoleKinds},
       {Request("override", u, t, None, 0, o[1], o[2]) :
          u \in Users, t \in Users \cup Roles, o \in OverrideKinds}}

(* createServer, with the members and the role that a short history leaves. *)
Init ==
  /\ alive = TRUE /\ owner = {First}
  /\ \E M \in SUBSET Crowd : Chief \in M /\ Cardinality(M) < MemberLimit /\ member = {First} \cup M
  /\ role = [r \in Roles |->
       [on |-> r \in {Everyone, Mod}, pos |-> IF r = Mod THEN 2 ELSE 0,
        perms |-> CASE r = Everyone -> {"VIEW_CHANNEL", "SEND_MESSAGES"}
                    [] r = Mod -> ModPerms
                    [] OTHER -> {}]]
  /\ assigned = (member \X {Everyone}) \cup {<<Chief, Mod>>}
  /\ over \in {NoOverrides,
       [NoOverrides EXCEPT ![Everyone].deny = {"VIEW_CHANNEL"}, ![Mod].allow = {"VIEW_CHANNEL"}]}
  /\ banned = {}
  /\ invite \in {[on |-> FALSE, made |-> FALSE, role |-> None, uses |-> 0],
                 [on |-> TRUE, made |-> TRUE, role |-> Mod, uses |-> 0]}
  /\ recipients = None /\ fill = None
  /\ listed = [u \in Users |-> None] /\ outdated = {}
  /\ reqs = {} /\ causes = {}
  /\ \E f \in Families : ops = f[1] /\ acts = f[2]

Ask(q) ==
  /\ acts > 0 /\ q.op \in ops /\ Cardinality(reqs) < MaxPending
  /\ q \notin reqs /\ Reads(q)
  /\ acts' = acts - 1 /\ reqs' = reqs \cup {q}
  /\ UNCHANGED <<alive, member, owner, role, assigned, over, banned, invite,
                 recipients, fill, listed, causes, ops>>

(***************************************************************************)
(* The batch of each handler.  A batch is refused as a whole when a row it *)
(* inserts refers to a server or a role that is gone.                      *)
(***************************************************************************)
Marks(q) == causes' = IF Reads(q) THEN causes ELSE causes \cup {q.op}
Returns(q) == reqs' = reqs \ {q}
GoesOn(q) == reqs' = (reqs \ {q}) \cup {[q EXCEPT !.stage = "purge"]}
Writing(q, op) == q \in reqs /\ q.op = op /\ q.stage = "write"

\* Slip: the member's role assignments stay.
Removes_KeepsRoles(u) ==
  /\ member' = member \ {u} /\ owner' = owner \ {u}
  /\ assigned' = assigned
  /\ over' = [over EXCEPT ![u] = NoOverride]

Removes(u) ==
  /\ member' = member \ {u} /\ owner' = owner \ {u}
  /\ assigned' = {a \in assigned : a[1] # u}
  /\ over' = [over EXCEPT ![u] = NoOverride]

leaveServer(q) ==
  /\ Writing(q, "leave") /\ Removes(q.by) /\ Marks(q) /\ GoesOn(q)
  /\ UNCHANGED <<alive, role, banned, invite, recipients, fill, listed, acts, ops>>

closeServer(q) ==
  /\ Writing(q, "close") /\ alive' = FALSE /\ Marks(q) /\ GoesOn(q)
  /\ member' = {} /\ owner' = {} /\ assigned' = {} /\ banned' = {}
  /\ role' = [r \in Roles |-> [role[r] EXCEPT !.on = FALSE]]
  /\ invite' = [invite EXCEPT !.on = FALSE]
  /\ UNCHANGED <<over, recipients, fill, listed, acts, ops>>

transferServer(q) ==
  /\ Writing(q, "transfer") /\ Returns(q)
  /\ causes' = causes \cup (IF Reads(q) THEN {} ELSE {"transfer"})
                     \cup (IF recipients = None THEN {} ELSE {"owner"})
  /\ owner' = (owner \ {q.by}) \cup ({q.to} \cap member)
  /\ UNCHANGED <<alive, member, role, assigned, over, banned, invite,
                 recipients, fill, listed, acts, ops>>

kickMember(q) ==
  /\ Writing(q, "kick") /\ Removes(q.to) /\ Marks(q) /\ GoesOn(q)
  /\ UNCHANGED <<alive, role, banned, invite, recipients, fill, listed, acts, ops>>

banMember(q) ==
  /\ Writing(q, "ban") /\ alive /\ Removes(q.to) /\ Marks(q) /\ GoesOn(q)
  /\ banned' = banned \cup {q.to}
  /\ UNCHANGED <<alive, role, invite, recipients, fill, listed, acts, ops>>

banDetail(q) ==
  /\ Writing(q, "unban") /\ banned' = banned \ {q.to} /\ Marks(q) /\ Returns(q)
  /\ UNCHANGED <<alive, member, owner, role, assigned, over, invite,
                 recipients, fill, listed, acts, ops>>

assignRole(q) ==
  /\ Writing(q, "assign") /\ role[q.role].on /\ Marks(q) /\ GoesOn(q)
  /\ assigned' = assigned \cup {<<q.to, q.role>>}
  /\ UNCHANGED <<alive, member, owner, role, over, banned, invite, recipients, fill, listed, acts, ops>>

revokeRole(q) ==
  /\ Writing(q, "revoke") /\ Marks(q) /\ GoesOn(q)
  /\ assigned' = assigned \ {<<q.to, q.role>>}
  /\ UNCHANGED <<alive, member, owner, role, over, banned, invite, recipients, fill, listed, acts, ops>>

createRole(q) ==
  /\ Writing(q, "createRole") /\ alive /\ ~role[q.role].on /\ Marks(q) /\ Returns(q)
  /\ role' = [role EXCEPT ![q.role] = [on |-> TRUE, pos |-> q.pos, perms |-> q.allow]]
  /\ UNCHANGED <<alive, member, owner, assigned, over, banned, invite,
                 recipients, fill, listed, acts, ops>>

moveRole(q) ==
  /\ Writing(q, "moveRole") /\ Marks(q) /\ Returns(q)
  /\ role' = IF role[q.role].on THEN [role EXCEPT ![q.role].pos = q.pos] ELSE role
  /\ UNCHANGED <<alive, member, owner, assigned, over, banned, invite,
                 recipients, fill, listed, acts, ops>>

editRole(q) ==
  /\ Writing(q, "editRole") /\ Marks(q) /\ GoesOn(q)
  /\ role' = IF role[q.role].on THEN [role EXCEPT ![q.role].perms = q.allow] ELSE role
  /\ UNCHANGED <<alive, member, owner, assigned, over, banned, invite,
                 recipients, fill, listed, acts, ops>>

\* The overrides for the role stay, and so does an invite that grants it.
deleteRole(q) ==
  /\ Writing(q, "deleteRole") /\ Marks(q) /\ GoesOn(q)
  /\ assigned' = {a \in assigned : a[2] # q.role}
  /\ role' = [role EXCEPT ![q.role].on = FALSE]
  /\ UNCHANGED <<alive, member, owner, over, banned, invite, recipients, fill, listed, acts, ops>>

channelPermissions(q) ==
  /\ Writing(q, "override") \/ Writing(q, "clear")
  /\ over' = [over EXCEPT ![q.to] = [allow |-> q.allow, deny |-> q.deny]]
  /\ Marks(q) /\ GoesOn(q)
  /\ UNCHANGED <<alive, member, owner, role, assigned, banned, invite,
                 recipients, fill, listed, acts, ops>>

invites(q) ==
  /\ Writing(q, "invite") /\ alive /\ ~invite.made /\ Marks(q) /\ Returns(q)
  /\ invite' = [on |-> TRUE, made |-> TRUE, uses |-> 0,
                role |-> IF q.role = Everyone THEN None ELSE q.role]
  /\ UNCHANGED <<alive, member, owner, role, assigned, over, banned,
                 recipients, fill, listed, acts, ops>>

inviteDelete(q) ==
  /\ Writing(q, "uninvite") /\ Marks(q) /\ Returns(q)
  /\ invite' = [invite EXCEPT !.on = FALSE]
  /\ UNCHANGED <<alive, member, owner, role, assigned, over, banned,
                 recipients, fill, listed, acts, ops>>

Grants(q) == {Everyone} \cup ({q.role} \ {None})

joinByToken(q) ==
  /\ Writing(q, "join") /\ alive /\ \A r \in Grants(q) : role[r].on
  /\ member' = member \cup {q.by}
  /\ assigned' = assigned \cup ({q.by} \X Grants(q))
  /\ invite' = IF invite.on THEN [invite EXCEPT !.uses = @ + 1] ELSE invite
  /\ Marks(q) /\ GoesOn(q)
  /\ UNCHANGED <<alive, owner, role, over, banned, recipients, fill, listed, acts, ops>>

Refused(q) ==
  /\ q \in reqs /\ q.stage = "write"
  /\ \/ q.op = "ban" /\ ~alive
     \/ q.op = "assign" /\ ~role[q.role].on
     \/ q.op = "createRole" /\ (~alive \/ role[q.role].on)
     \/ q.op = "invite" /\ (~alive \/ invite.made)
     \/ q.op = "join" /\ (~alive \/ \E r \in Grants(q) : ~role[r].on)
  /\ Returns(q)
  /\ UNCHANGED <<alive, member, owner, role, assigned, over, banned, invite,
                 recipients, fill, listed, causes, acts, ops>>

\* A list that is gone is nobody's fault any more.
Drops == recipients' = None /\ causes' = causes \ ListCauses

\* invalidateRecipientCache. A delete that fails is swallowed.
Purge_Not == UNCHANGED <<recipients, causes>>
Purge == Drops

PurgeFails ==
  /\ recipients # None /\ recipients' = recipients
  /\ causes' = causes \cup {"purge"}

Purges(q) ==
  /\ q \in reqs /\ q.stage = "purge" /\ Returns(q)
  /\ Purge \/ PurgeFails
  /\ UNCHANGED <<alive, member, owner, role, assigned, over, banned, invite, fill, listed, acts, ops>>

(***************************************************************************)
(* The recipient list of a push: read from the tables when KV has none,    *)
(* stored without waiting, forgotten after five minutes.                   *)
(***************************************************************************)
FillRead ==
  /\ alive /\ recipients = None /\ fill = None /\ fill' = getChannelViewerHandles
  /\ UNCHANGED <<alive, member, owner, role, assigned, over, banned, invite,
                 recipients, listed, reqs, causes, acts, ops>>

\* A put that fails is swallowed.
FillPut ==
  /\ fill # None /\ fill' = None
  /\ \/ /\ recipients' = fill
        /\ causes' = IF fill = getChannelViewerHandles THEN causes ELSE causes \cup {"fill"}
     \/ UNCHANGED <<recipients, causes>>
  /\ UNCHANGED <<alive, member, owner, role, assigned, over, banned, invite, listed,
                 reqs, acts, ops>>

Expire ==
  /\ recipients # None /\ Drops
  /\ UNCHANGED <<alive, member, owner, role, assigned, over, banned, invite,
                 fill, listed, reqs, acts, ops>>

(***************************************************************************)
(* The channel list of a member: stored without waiting once it is         *)
(* computed, forgotten after half a minute, and deleted by no change.      *)
(***************************************************************************)
ListPut(q) ==
  /\ Writing(q, "list") /\ Returns(q)
  /\ listed' \in {[listed EXCEPT ![q.by] = (q.allow # {})], listed}
  /\ UNCHANGED <<alive, member, owner, role, assigned, over, banned, invite,
                 recipients, fill, causes, acts, ops>>

ListExpire(u) ==
  /\ listed[u] # None /\ listed' = [listed EXCEPT ![u] = None]
  /\ UNCHANGED <<alive, member, owner, role, assigned, over, banned, invite,
                 recipients, fill, reqs, causes, acts, ops>>

\* A list that is cached, or on its way there, ages when its user's access changes.
Ages ==
  outdated' = {u \in Users :
    /\ listed'[u] # None \/ \E q \in reqs' : q.op = "list" /\ q.by = u
    /\ u \in outdated \/ canViewChannel(u)' # canViewChannel(u)}

Writes(q) ==
  \/ leaveServer(q) \/ closeServer(q) \/ transferServer(q) \/ kickMember(q)
  \/ banMember(q) \/ banDetail(q) \/ assignRole(q) \/ revokeRole(q)
  \/ createRole(q) \/ moveRole(q) \/ editRole(q) \/ deleteRole(q)
  \/ channelPermissions(q) \/ invites(q) \/ inviteDelete(q) \/ joinByToken(q)

Step ==
  \/ acts > 0 /\ \E q \in Requests : Ask(q)
  \/ \E q \in reqs : Writes(q) \/ Refused(q) \/ Purges(q) \/ ListPut(q)
  \/ FillRead \/ FillPut \/ Expire
  \/ \E u \in Users : ListExpire(u)

Next == Step /\ Ages

Spec == Init /\ [][Next]_vars

-----------------------------------------------------------------------------
(* A server has exactly one owner ("genau einer pro Server", the schema),  *)
(* unless a transfer, a departure or a removal wrote after a change that   *)
(* made its own checks untrue.                                             *)
OneOwnerUnlessOverlap ==
  alive /\ causes \cap {"transfer", "leave", "close", "kick", "ban"} = {}
    => Cardinality(owner) = 1

(* Out means out: an account that is banned is no member, one that is no   *)
(* member has no role and, in a server that exists, no override left that  *)
(* would be its own again on a later join, and a used-up invite or a full  *)
(* server lets nobody in, unless a join, an assignment or an override      *)
(* wrote after a change it had not seen.                                   *)
OutMeansOut ==
  /\ "join" \notin causes =>
       /\ banned \cap member = {} /\ Cardinality(member) <= MemberLimit
       /\ MaxUses > 0 => invite.uses <= MaxUses
  /\ "assign" \notin causes => \A a \in assigned : a[1] \in member
  /\ alive /\ "override" \notin causes => \A u \in Users \ member : over[u] = NoOverride

(* Nobody but the owner lifts an account to his own rank or above: a step  *)
(* that raises the highest role of an account is an owner's, a join, or a  *)
(* request of someone who stays above the result - if the request's checks *)
(* still hold when it writes and no position exceeds 32 bits.              *)
NoLiftToOwnRank ==
  [][\A u \in Users :
       getActorMaxRolePosition(u)' > getActorMaxRolePosition(u) =>
         \E q \in reqs \ reqs' :
           \/ q.op = "join" \/ q.by \in owner \/ ~Reads(q)
           \/ getActorMaxRolePosition(u)' < getActorMaxRolePosition(q.by)
           \/ \E r \in Roles : role'[r].pos >= Width \div 2]_vars

(* When nothing is under way, a stored recipient list is exactly the set   *)
(* of accounts that may read the channel, so nobody misses a message and   *)
(* none is pushed to someone who lost the channel - unless that list was   *)
(* read before a change and stored after it, the delete that was to remove *)
(* it failed, or the server changed hands while it was stored, which       *)
(* deletes no list.  The cause ends with the list.                         *)
RecipientsFresh ==
  (reqs = {} /\ fill = None /\ recipients # None /\ causes \cap ListCauses = {})
    => recipients = getChannelViewerHandles

(* The gate of a request, the recipients of a push and the channel list    *)
(* answer alike: whoever may read is pushed to, and whoever lists may read *)
(* - unless a cached list answers that was read before the user's access   *)
(* changed ("max. ~30s Lag", serverRoutes.js:218-222).                     *)
OneAnswer ==
  LET pushed == getChannelViewerHandles
  IN \A u \in Users : /\ canViewChannel(u) <=> u \in pushed
                      /\ getVisibleChannelIds(u) => canViewChannel(u) \/ u \in outdated

(* Who may read a channel is one question with one answer: RecipientsFresh *)
(* and OneAnswer.                                                          *)
ReadersAgree == RecipientsFresh /\ OneAnswer
=============================================================================

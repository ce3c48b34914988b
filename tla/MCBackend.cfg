SPECIFICATION MCSpec
CONSTANTS
 o = o m = m u = u everyone = everyone mod = mod vip = vip None = None
 s1 = s1 s2 = s2 h1 = h1 h2 = h2 c1 = c1 c2 = c2 g = g Nil = Nil
 parts = {"server", "view", "keys", "contents"}
 Call = {c1, c2}
 Group = g
 Users = {o, m, u}
 First = o
 Crowd = {m, u}
 Roles = {everyone, mod, vip}
 Everyone = everyone
 Mod = mod
 Chief = m
 Positions = {1, 2, 8}
 Width = 8
 MemberLimit = 3
 MaxUses = 1
 MaxPending = 2
 Families <- MCFamilies
 ModPerms <- MCModPerms
 RoleKinds <- MCRoleKinds
 OverrideKinds <- MCOverrideKinds
SYMMETRY Alike
CHECK_DEADLOCK FALSE
INVARIANTS OneOwnerUnlessOverlap OutMeansOut ReadersAgree ViewInOrder GoneCannotRead ContentsAgree
PROPERTIES NoLiftToOwnRank

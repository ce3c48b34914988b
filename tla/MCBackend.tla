------------------------------ MODULE MCBackend ------------------------------
(* A server at the backend (Servers), what one member's app shows of her       *)
(* servers (ServerView), the sender keys of a channel (ChannelKeys) or the     *)
(* stored files and rows (Contents): the initial state says which of them a    *)
(* behaviour is about.                                                         *)
EXTENDS Servers, TLC

CONSTANTS s1, s2, h1, h2, c1, c2, Nil, Call, Group, parts

VARIABLES
  part,
  vrow, selected, detail, newest, form, list, vcall, vdue, vleft, vwhy, odd,
  inside, viewers, online, visited, mine, holders, kdue, batch, pass, kleft, blame,
  open, icon, convos, members, messages, bucket, next, req, cleft, cwhy

MCModPerms == {"VIEW_CHANNEL", "KICK_MEMBERS", "BAN_MEMBERS", "MANAGE_ROLES", "INVITE_MEMBERS"}
MCRoleKinds == {{"MANAGE_ROLES", "KICK_MEMBERS"}, {"ADMINISTRATOR"}}
MCOverrideKinds == {<<{}, {}>>, <<{"VIEW_CHANNEL"}, {}>>, <<{}, {"VIEW_CHANNEL"}>>}
MCMembership == {"leave", "close", "transfer", "kick", "ban", "unban", "uninvite", "join"}
MCFamilies == {<<MCMembership, 3>>, <<Operations, 2>>}

L(p, a, o, l) == [parts |-> p, acts |-> a, others |-> o, lost |-> l]
ViewLimits == {L({"away"}, 3, 1, 1), L({"texts"}, 3, 1, 0), L({"role"}, 2, 1, 0), L({"access"}, 3, 1, 0)}
KeyLimits == {[changes |-> 2, trips |-> 1]}
ContentLimits == {[ops |-> 3, breaks |-> 1]}

V == INSTANCE ServerView WITH Server <- {s1, s2}, Channel <- {h1, h2}, None <- Nil, Limits <- ViewLimits,
                              row <- vrow, call <- vcall, due <- vdue, left <- vleft, why <- vwhy
K == INSTANCE ChannelKeys WITH User <- Users, None <- Nil, Limits <- KeyLimits, due <- kdue, left <- kleft
C == INSTANCE Contents WITH Channels <- {h1, h2}, Worker <- Call, None <- Nil, Limits <- ContentLimits,
                            left <- cleft, why <- cwhy

view == <<vrow, selected, detail, newest, form, list, vcall, vdue, vleft, vwhy, odd>>
ckeys == <<inside, viewers, online, visited, mine, holders, kdue, batch, pass, kleft, blame>>
contents == <<open, icon, convos, members, messages, bucket, next, req, cleft, cwhy>>

(* Those a behaviour is not about have no state; the server of Servers rests.   *)
(* Users of a channel are alike: it is the first and the chief who have keys.   *)
ViewOff ==
  /\ vrow = Nil /\ selected = Nil /\ detail = Nil /\ newest = Nil /\ form = Nil /\ list = Nil
  /\ vcall = Nil /\ vdue = Nil /\ vleft = Nil /\ vwhy = Nil /\ odd = Nil
KeysOff ==
  /\ inside = Nil /\ viewers = Nil /\ online = Nil /\ visited = Nil /\ mine = Nil /\ holders = Nil
  /\ kdue = Nil /\ batch = Nil /\ pass = Nil /\ kleft = Nil /\ blame = Nil
ContentsOff ==
  /\ open = Nil /\ icon = Nil /\ convos = Nil /\ members = Nil /\ messages = Nil
  /\ bucket = Nil /\ next = Nil /\ req = Nil /\ cleft = Nil /\ cwhy = Nil
\* Nil is the state of a rotation, and of a worker, that is not under way. The
\* group is none of the channels.
ASSUME NilAssumption == Nil \notin K!Passes
ASSUME GroupAssumption == Group \notin {h1, h2} /\ Nil \notin C!Requests

AtRest == member = {First, Chief} /\ over = NoOverrides /\ ~invite.on /\ ops = Operations

MCInit ==
  /\ part \in parts /\ Init
  /\ part # "server" => AtRest
  /\ IF part = "view" THEN V!VInit ELSE ViewOff
  /\ IF part = "keys" THEN K!KInit /\ mine[First] = 1 /\ mine[Chief] = 2 ELSE KeysOff
  /\ IF part = "contents" THEN C!CInit ELSE ContentsOff

ServerStep == part = "server" /\ Next /\ UNCHANGED <<part, view, ckeys, contents>>
ViewStep == part = "view" /\ V!VNext /\ UNCHANGED <<part, vars, ckeys, contents>>
KeysStep == part = "keys" /\ K!KNext /\ UNCHANGED <<part, vars, view, contents>>
ContentsStep == part = "contents" /\ C!CNext /\ UNCHANGED <<part, vars, view, ckeys>>

MCNext == ServerStep \/ ViewStep \/ KeysStep \/ ContentsStep
MCSpec == MCInit /\ [][MCNext]_<<part, vars, view, ckeys, contents>>

(* Two servers, channels or calls of a window are interchangeable.             *)
Alike == Permutations({s1, s2}) \union Permutations({h1, h2}) \union Permutations({c1, c2})

(* The fields of the modules have their types.                                 *)
MCTypeOK ==
  /\ TypeOK
  /\ part = "view" => V!VTypeOK
  /\ part = "keys" => K!KTypeOK
  /\ part = "contents" => C!CTypeOK

(* ServerView: the app shows the chosen server, and acts on what it shows.      *)
ViewInOrder == part = "view" => V!ViewInOrder
(* ChannelKeys: who has gone from a channel cannot read what is written next.   *)
GoneCannotRead == part = "keys" => K!GoneCannotRead
(* Contents: rows and stored files name each other.                             *)
ContentsAgree == part = "contents" => C!ContentsAgree
=============================================================================

----------------------------- MODULE MCAccounts -----------------------------
(* A handle at the server (Accounts), its devices (Devices), two users as each *)
(* other's contacts (Contacts), the auto-delete setting of a conversation      *)
(* (AutoDelete), or its notifications (Push): the initial state says which of  *)
(* them a behaviour is about.                                                  *)
EXTENDS Accounts, TLC

CONSTANTS
  ann, bob,  \* two people
  u1, u2,    \* two requests, users, sides of a conversation, or devices
  c1, c2,    \* two requests of the users
  Nobody, User, Call, Side, Days, CapDays, Device, MaxDevices, parts

VARIABLES
  part,
  crow, version, stamps, ccall, list, cached, due, online, cleft, asked, crossed, alone, blind,
  kind, arow, screen, loading, acall, pushes, age, file, sweep, aleft, consent, awhy, behind, stirred,
  drow, key, dindex, beat, use, dcall, dsweep, dleft, banned, excuse, stray, met, raced,
  prow, at, mute, pshown, doing, pleft, wanted, pwhy, synced, lapsed, unaware, early, seen

B(o, n, t) == [ops |-> o, requests |-> n, now |-> t]
MCBounds == {B(Op \union {"fail"}, 2, 0), B({"visit", "login", "logout", "revoke", "disown"}, 3, 0),
             B({"visit", "login", "revoke"}, 3, 2), B({"register", "delete", "login", "unlock"}, 3, 0),
             B({"remove", "rename", "register", "login"}, 3, 0)}
ContactLimits == {[changes |-> 2, expiries |-> 1, trips |-> 0], [changes |-> 2, expiries |-> 0, trips |-> 1],
                  [changes |-> 1, expiries |-> 1, trips |-> 3]}
L(k, c, l, d, w, f) == [kinds |-> {k}, changes |-> c, loads |-> l, drops |-> d, sweeps |-> w, from |-> f]
AutoDeleteLimits == {L("dm", 2, 2, 0, 0, 1), L("dm", 2, 1, 1, 0, 1), L("dm", 3, 0, 1, 0, 0),
                     L("group", 2, 1, 1, 0, 0), L("dm", 1, 0, 1, 2, 1), L("dm", 2, 0, 0, 2, 0)}
DeviceLimits == {[acts |-> 2, sweeps |-> 1, ticks |-> 1, lost |-> 0],
                 [acts |-> 1, sweeps |-> 0, ticks |-> 0, lost |-> 1]}
P(a, m, g, t, f, o) == [acts |-> a, mutes |-> m, msgs |-> g, times |-> t, fails |-> f, ok |-> o, under |-> 2]
PushLimits == {P(3, 0, 1, 1, 0, TRUE), P(4, 0, 0, 0, 1, TRUE), P(1, 2, 1, 1, 0, FALSE), P(2, 2, 0, 0, 1, FALSE),
               P(1, 1, 1, 0, 1, TRUE)}

C == INSTANCE Contacts WITH row <- crow, call <- ccall, left <- cleft, NoCall <- Nobody, Limits <- ContactLimits
A == INSTANCE AutoDelete WITH row <- arow, call <- acall, left <- aleft, why <- awhy, Limits <- AutoDeleteLimits
D == INSTANCE Devices WITH row <- drow, index <- dindex, call <- dcall, sweep <- dsweep, left <- dleft,
                           Limits <- DeviceLimits
N == INSTANCE Push WITH Person <- User, Browser <- Call, MaxRows <- MaxDevices, rows <- prow, shown <- pshown,
                        left <- pleft, why <- pwhy, blind <- unaware, Limits <- PushLimits

ASSUME MCAccountsAssumption ==
  /\ \E a, b \in User : a # b /\ User = {a, b}
  /\ Nobody \notin C!Change /\ Nobody # "list"
  /\ Nobody \notin [User -> C!Status]

ASSUME AutoDeleteAssumption ==
  /\ \E a, b \in Side : a # b /\ Side = {a, b}
  /\ Nobody \notin {"propose", "accept", "decline", "set"} /\ Days \subseteq Nat

accounts == <<now, session, index, creds, flag, regCha, logCha, device, data, req, begun, bounds,
              handed, ended, known, owner, why, mixed>>
contacts == <<crow, version, stamps, ccall, list, cached, due, online, cleft, asked, crossed, alone, blind>>
autoDelete == <<kind, arow, screen, loading, acall, pushes, age, file, sweep, aleft, consent, awhy, behind, stirred>>
devices == <<drow, key, dindex, beat, use, dcall, dsweep, dleft, banned, excuse, stray, met, raced>>
notices == <<prow, at, mute, pshown, doing, pleft, wanted, pwhy, synced, lapsed, unaware, early, seen>>

(* Those a behaviour is not about have no state; the account rests.             *)
ContactsOff ==
  /\ crow = Nobody /\ version = Nobody /\ stamps = Nobody /\ ccall = Nobody
  /\ list = Nobody /\ cached = Nobody /\ due = Nobody /\ online = Nobody
  /\ cleft = Nobody /\ asked = Nobody /\ crossed = Nobody /\ alone = Nobody
  /\ blind = Nobody
AutoDeleteOff ==
  /\ kind = Nobody /\ arow = Nobody /\ screen = Nobody /\ loading = Nobody /\ acall = Nobody
  /\ pushes = Nobody /\ age = Nobody /\ file = Nobody /\ sweep = Nobody
  /\ aleft = Nobody /\ consent = Nobody /\ awhy = Nobody /\ behind = Nobody
  /\ stirred = Nobody
DevicesOff ==
  /\ drow = Nobody /\ key = Nobody /\ dindex = Nobody /\ beat = Nobody
  /\ use = Nobody /\ dcall = Nobody /\ dsweep = Nobody /\ dleft = Nobody
  /\ banned = Nobody /\ excuse = Nobody /\ stray = Nobody /\ met = Nobody
  /\ raced = Nobody
NoticesOff ==
  /\ prow = Nobody /\ at = Nobody /\ mute = Nobody /\ pshown = Nobody /\ doing = Nobody
  /\ pleft = Nobody /\ wanted = Nobody /\ pwhy = Nobody /\ synced = Nobody /\ lapsed = Nobody
  /\ unaware = Nobody /\ early = Nobody /\ seen = Nobody

MCInit ==
  /\ part \in parts /\ Init
  /\ part # "accounts" => bounds = B({"visit", "login", "revoke"}, 3, 2)
  /\ IF part = "contacts" THEN C!CInit ELSE ContactsOff
  /\ IF part = "autoDelete" THEN A!AInit ELSE AutoDeleteOff
  /\ IF part = "devices" THEN D!DInit ELSE DevicesOff
  /\ IF part = "notices" THEN N!PInit ELSE NoticesOff

AccountsStep == part = "accounts" /\ Next /\ UNCHANGED <<part, contacts, autoDelete, devices, notices>>
ContactsStep == part = "contacts" /\ C!CNext /\ UNCHANGED <<part, accounts, autoDelete, devices, notices>>
AutoDeleteStep == part = "autoDelete" /\ A!ANext /\ UNCHANGED <<part, accounts, contacts, devices, notices>>
DevicesStep == part = "devices" /\ D!DNext /\ UNCHANGED <<part, accounts, contacts, autoDelete, notices>>
NoticesStep == part = "notices" /\ N!PNext /\ UNCHANGED <<part, accounts, contacts, autoDelete, devices>>

MCNext == AccountsStep \/ ContactsStep \/ AutoDeleteStep \/ DevicesStep \/ NoticesStep
MCSpec == MCInit /\ [][MCNext]_<<part, accounts, contacts, autoDelete, devices, notices>>

(* Two of a kind are interchangeable; people are not: one owns the handle.     *)
Alike == Permutations({u1, u2}) \union Permutations({c1, c2})

(* The fields of the modules have their types.                                 *)
MCTypeOK ==
  /\ TypeOK
  /\ part = "contacts" => C!CTypeOK
  /\ part = "autoDelete" => A!ATypeOK
  /\ part = "devices" => D!DTypeOK
  /\ part = "notices" => N!PTypeOK

(* Contacts: contacts are mutual and by consent, and a client lists them.      *)
ContactsInOrder == part = "contacts" => C!ContactsAgree /\ C!InboxHasACause
(* Contacts: "Beide haben gleichzeitig Request geschickt" (contactRoutes.js).  *)
AcceptedByBoth == part = "contacts" => C!AcceptedByBoth
(* AutoDelete: the setting in force was agreed to and is shown, and files and  *)
(* messages go together.                                                       *)
AutoDeleteInOrder == part = "autoDelete" => A!SettingShownAsAgreed /\ A!FilesFollowMessages
(* Devices: those in use are served; those removed, and those too many, not.   *)
DevicesInOrder == part = "devices" => D!DevicesServed /\ D!DevicesAdmitted
(* Push: mutes hold and are shown; registered browsers are reached, each with  *)
(* the notifications of its user.                                              *)
NoticesInOrder == part = "notices" => N!NoticesInOrder
=============================================================================

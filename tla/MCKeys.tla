------------------------------- MODULE MCKeys -------------------------------
(* One chat between a user with two devices and a user with one, either of     *)
(* which may be the one whose handle sorts first (CmkExchange); the recovery    *)
(* phrase of a user with two devices (Recovery); or one message and the two     *)
(* pages that show it (Reading): the initial state says which of the three a    *)
(* behaviour is about.                                                         *)
EXTENDS CmkExchange, TLC

CONSTANTS a1, a2, b1, k1, k2, k3, Device, Key, MaxSetups, x1, x2, Page, Ladder

VARIABLES
  part,
  salt, blob, verified, master, held, modal, call, boot, timer, flight, setups, shown, left,
  erased, broken, crossed, late, aware, blind, banked, gone,
  row, rx, page, cache, store, key, no, asked, guard, jobs, budget, sent, why, stuck, other

(* A chat for each key, one chat of two with all of them, or one group.        *)
B(chat, a, c, t, l, e) ==
  [chat |-> chat, adds |-> a, closings |-> c, trips |-> t, losses |-> l, erasures |-> e]
Apart == [k \in Key |-> k]
One == [k \in Key |-> "dm"]
OneGroup == [k \in Key |-> "group"]
MCLimits ==
  {B(One, 2, 1, 0, 0, 0), B(One, 4, 0, 0, 0, 0), B(One, 2, 0, 0, 1, 0), B(OneGroup, 3, 0, 0, 0, 0),
   B(Apart, 1, 1, 1, 0, 0), B(Apart, 2, 0, 1, 0, 0), B(Apart, 2, 0, 0, 0, 1)}

R == INSTANCE Recovery WITH Limits <- MCLimits, Group <- {"group"}

(* A DM opened late and edited, one of v4, a group with an edit by each of two  *)
(* devices of the author, reactions, a key that comes late, and lost answers.   *)
Reads(kind, mine, keys, e, r, v, f) ==
  [kind |-> kind, mine |-> mine, keys |-> keys, edits |-> e, reacts |-> r, views |-> v, fails |-> f]
ReadLimits ==
  LET comes == {"none", "local"} IN
  {Reads("dm", {x1}, comes, 1, 0, 2, 0), Reads("v4", {x1}, comes, 1, 0, 2, 0),
   Reads("group", {x1, x2}, comes, 2, 0, 1, 0), Reads("dm", {x1}, {"local"}, 0, 2, 1, 0),
   Reads("dm", {x1}, comes, 0, 0, 3, 0), Reads("dm", {x1}, {"local"}, 1, 0, 2, 1)}

D == INSTANCE Reading WITH Limits <- ReadLimits, left <- budget
reading == <<row, rx, page, cache, store, key, no, asked, guard, jobs, budget, sent, why, stuck, other>>

recovery == <<salt, blob, verified, master, held, modal, call, boot, timer, flight, setups, shown,
              left, erased, broken, crossed, late, aware, blind, banked, gone>>

(* What the two are when a behaviour is not about them: a chat without a        *)
(* message, and nothing at all.                                                *)
Resting == registered = Devs /\ msgs = {} /\ heard = "a"
RecoveryOff ==
  /\ salt = None /\ blob = None /\ verified = None /\ master = None
  /\ held = None /\ modal = None /\ call = None /\ boot = None
  /\ timer = None /\ flight = None /\ setups = None /\ shown = None
  /\ left = None /\ erased = None /\ broken = None /\ crossed = None
  /\ late = None /\ aware = None /\ blind = None /\ banked = None
  /\ gone = None

ReadingOff ==
  /\ row = None /\ rx = None /\ page = None /\ cache = None /\ store = None
  /\ key = None /\ no = None /\ asked = None /\ guard = None /\ jobs = None
  /\ budget = None /\ sent = None /\ why = None /\ stuck = None /\ other = None

(* The devices of a are alike: a1 is there from the start. A new chat of all   *)
(* three devices has one act less.                                             *)
MCInit ==
  /\ Init /\ a1 \in registered
  /\ acts = IF msgs = {} /\ registered = Devs THEN 1 ELSE 0
  /\ \/ part = "chat" /\ RecoveryOff /\ ReadingOff
     \/ part = "recovery" /\ Resting /\ R!RInit /\ ReadingOff
     \/ part = "reading" /\ Resting /\ RecoveryOff /\ D!RInit

ChatStep == part = "chat" /\ Next /\ UNCHANGED <<part, recovery, reading>>
RecoveryStep == part = "recovery" /\ R!RNext /\ UNCHANGED <<part, cmk, reading>>
ReadingStep == part = "reading" /\ D!RNext /\ UNCHANGED <<part, cmk, recovery>>

MCSpec == MCInit /\ [][ChatStep \/ RecoveryStep \/ ReadingStep]_<<part, cmk, recovery, reading>>

(* The keys of chats are interchangeable.                                      *)
Alike == Permutations(Key)

(* App.svelte, at device_removed: all future messages must be encrypted with   *)
(* new keys. It does not hold: another device of the remover keeps the old key *)
(* for good, and so does a contact whose handle sorts last.                    *)
RemovedKeyIsNeverUsed == Quiet => \A d \in registered : NextKey(d) \notin leaked

(* The fields of the modules have their types.                                 *)
MCTypeOK == TypeOK /\ (part = "recovery" => R!RTypeOK) /\ (part = "reading" => D!RTypeOK)

(* Recovery: the phrase the user has seen opens the bundle, and the bundle     *)
(* holds the keys of all devices.                                              *)
RecoveryInOrder == part = "recovery" => R!PhraseOpensTheBundle /\ R!BundleIsComplete
(* Reading: texts and reactions shown are those of the server, and a message   *)
(* is opened wherever its key is.                                              *)
ReadInOrder == part = "reading" => D!ReadInOrder
=============================================================================

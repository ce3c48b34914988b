----------------------------- MODULE Recovery -----------------------------
(***************************************************************************)
(* The recovery phrase of a user and the bundle it opens: the keys of all  *)
(* chats, encrypted and kept by the server (recoveryRoutes.js), so that a  *)
(* device that has lost everything gets them back (RecoveryLoginModal).    *)
(*                                                                         *)
(* A setup makes a phrase and a salt, stores the salt, which is done once  *)
(* and for all, then an empty bundle, and only then shows the phrase.  The *)
(* key of the bundle derives from phrase and salt and opens the bundles    *)
(* made with it: a setup's number stands for its phrase, its salt and      *)
(* their key.  From then on every device that has the key writes a bundle  *)
(* of the keys IT holds, a few seconds after a key was added, over the one *)
(* that is there (cmkBundleSync.js); at every start it first takes the     *)
(* keys of the bundle for the chats in which it has none.                  *)
(*                                                                         *)
(* A device holds one key in use for each chat, and for a chat of two the  *)
(* map of the keys there were (session.js); a group keeps no key of the    *)
(* past.  Which part of a chat a map entry opens is CmkExchange's.         *)
(***************************************************************************)
EXTENDS Naturals, FiniteSets

CONSTANTS
  Device,      \* the devices of the user
  Key,         \* keys of chats and groups
  Group,       \* the chats that are groups
  MaxSetups,   \* bound: setups begun
  Limits       \* of one behaviour: the chat of each key; and the bounds: keys that
               \* chats add, closings of an app, trips (requests that fail), losses of
               \* a device's storage, and erasures of the account

Setup == 1..MaxSetups
Nothing == 0

VARIABLES
  salt,      \* R2 recovery/<handle>.salt: of which setup, or Nothing
  blob,      \* R2 recovery/<handle>.bin: key it is made with, the keys inside
  verified,  \* KV user:recovery:<handle>: the user has entered the phrase once
  master,    \* master[d]: the key of the bundle d has cached, or Nothing
  held,      \* held[d]: the keys in the storage of d, in use and in maps
  modal,     \* modal[d]: what the app shows: closed, free, onboarding, verify, prompt
  call,      \* call[d]: where the modal's work stands
  boot,      \* boot[d]: bootstrapBundleRestore has read a bundle, or not
  timer,     \* timer[d]: a sync is due in a few seconds
  flight,    \* flight[d]: the bundle a sync under way is about to write
  setups,    \* setups begun
  shown,     \* setups whose phrase the user has seen
  left,      \* the chat of each key, and what remains of the bounds
  erased,    \* history: setups begun before the account was last erased
  broken,    \* history: setups that broke off with the salt stored
  crossed,   \* history: two devices looked for a salt before either stored one
  late,      \* late[d]: why the bundle may lack keys of d
  aware,     \* history: devices whose keys include those of the bundle there is
  blind,     \* history: a bundle was written over one that its writer had not read
             \* when it collected its keys
  banked,    \* history: keys that were in a bundle of this account
  gone       \* history: keys that a device gave up or left in the bundle

server == <<salt, blob, verified>>
device == <<master, held, modal, call, boot, timer, flight>>
history == <<erased, broken, crossed, late, aware, blind, banked, gone>>
rvars == <<server, device, setups, shown, left, history>>

NoKeys == [keys |-> {}, maps |-> {}]
NoBlob == [by |-> Nothing, keys |-> {}, maps |-> {}]
Idle == [pc |-> "idle", setup |-> Nothing, blob |-> NoBlob, mark |-> FALSE]
NotRead == [read |-> FALSE, blob |-> NoBlob]
Grounded == [on |-> FALSE, blob |-> NoBlob, aware |-> FALSE]

RInit ==
  /\ salt = Nothing /\ blob = NoBlob /\ verified = FALSE
  /\ master = [d \in Device |-> Nothing]
  /\ held = [d \in Device |-> NoKeys]
  /\ modal = [d \in Device |-> "closed"]
  /\ call = [d \in Device |-> Idle]
  /\ boot = [d \in Device |-> NotRead]
  /\ timer = [d \in Device |-> FALSE]
  /\ flight = [d \in Device |-> Grounded]
  /\ setups = 0 /\ shown = {}
  /\ left \in Limits
  /\ erased = 0 /\ broken = {} /\ crossed = FALSE
  /\ late = [d \in Device |-> {}]
  /\ aware = {} /\ blind = FALSE /\ banked = {} /\ gone = {}

Spend(what) == left[what] > 0 /\ left' = [left EXCEPT ![what] = @ - 1]

-----------------------------------------------------------------------------
(* Starting the app: _checkRecovery, bootstrapBundleRestore                *)

\* Which modal the state of the server calls for.
Needed(d) ==
  CASE salt = Nothing -> "onboarding"
    [] salt # Nothing /\ ~verified -> "verify"
    [] salt # Nothing /\ verified /\ master[d] = Nothing /\ blob # NoBlob -> "prompt"
    [] OTHER -> "free"

\* A device with the key of the bundle reads the bundle; a request that fails
\* counts as a bundle that does not exist, and as no need for a modal.
Start(d) ==
  /\ modal[d] = "closed"
  /\ \/ /\ modal' = [modal EXCEPT ![d] = Needed(d)]
        /\ boot' = [boot EXCEPT ![d] = [read |-> master[d] # Nothing, blob |-> blob]]
        /\ UNCHANGED left
     \/ /\ Spend("trips")
        /\ modal' = [modal EXCEPT ![d] = "free"]
        /\ boot' = [boot EXCEPT ![d] = [read |-> master[d] # Nothing, blob |-> NoBlob]]
  /\ UNCHANGED <<server, master, held, call, timer, flight, setups, shown, history>>

\* All keys of a device or of a bundle.
All(s) == s.keys \union s.maps

\* The keys among ks that are of the chat of k.
Fellows(k, ks) == {l \in ks : left.chat[l] = left.chat[k]}

\* restoreCmksFromBundle: a chat with a key in use keeps it, whichever it is, and
\* a map gives way to the map of the bundle, if that has one.
Skipped(d, b) == {k \in b.keys : Fellows(k, held[d].keys) # {}}
Replaced(d, b) == {k \in held[d].maps : Fellows(k, b.maps) # {}}
Restored(d, b) == [keys |-> held[d].keys \union (b.keys \ Skipped(d, b)),
                   maps |-> (held[d].maps \ Replaced(d, b)) \union b.maps]

\* What d has not got any more, or does not get, from then on.
Missed(d, b) ==
  gone' = gone \union ((Skipped(d, b) \union Replaced(d, b)) \ All(Restored(d, b)))

\* d has taken over the bundle b, and b is the one that is there.
Read(d, b) == aware' = IF b = blob THEN aware \union {d} ELSE aware

\* Whatever the bundle was, a sync follows, except when the key does not open
\* it any more.
Restore(d) ==
  LET b == boot[d].blob IN
  /\ boot[d].read
  /\ boot' = [boot EXCEPT ![d] = NotRead]
  /\ IF b = NoBlob
     THEN timer' = [timer EXCEPT ![d] = TRUE] /\ UNCHANGED <<held, aware, gone>>
     ELSE IF b.by = master[d]
     THEN /\ held' = [held EXCEPT ![d] = Restored(d, b)]
          /\ Missed(d, b)
          /\ Read(d, b)
          /\ timer' = [timer EXCEPT ![d] = TRUE]
     ELSE UNCHANGED <<held, aware, gone, timer>>
  /\ UNCHANGED <<server, master, modal, call, flight, setups, shown, left, erased, broken,
                 crossed, late, blind, banked>>

\* cacheMasterKey: the keys the device holds by then are not written before the
\* next sync, which none of this starts.
Cache(d, due) ==
  /\ master' = [master EXCEPT ![d] = call[d].setup]
  /\ late' = [late EXCEPT ![d] = @ \union (IF due THEN {} ELSE {"unwritten"})]

-----------------------------------------------------------------------------
(* The setup: RecoveryOnboardingModal, /e2e/recovery/init                  *)

\* Slip: the salt of an earlier setup does not matter.
MayInit_Always == TRUE

\* The salt must not exist; otherwise the modal shows an error and stays.
MayInit == salt = Nothing

InitHead(d) ==
  /\ modal[d] = "onboarding" /\ call[d].pc = "idle"
  /\ setups < MaxSetups
  /\ MayInit
  /\ setups' = setups + 1
  /\ crossed' = (crossed \/ \E e \in Device : call[e].pc = "salt")
  /\ call' = [call EXCEPT ![d] = [pc |-> "salt", setup |-> setups + 1, blob |-> NoBlob, mark |-> FALSE]]
  /\ UNCHANGED <<server, master, held, modal, boot, timer, flight, shown, left, erased, broken, late,
                 aware, blind, banked, gone>>

\* The salt is written without another look; the record of the user is read.
InitSalt(d) ==
  /\ call[d].pc = "salt"
  /\ salt' = call[d].setup
  /\ call' = [call EXCEPT ![d].pc = "meta", ![d].mark = verified]
  /\ UNCHANGED <<blob, verified, master, held, modal, boot, timer, flight, setups, shown, left,
                 history>>

\* The record is written back with the time.
InitMeta(d) ==
  /\ call[d].pc = "meta"
  /\ verified' = call[d].mark
  /\ call' = [call EXCEPT ![d].pc = "bundle"]
  /\ UNCHANGED <<salt, blob, master, held, modal, boot, timer, flight, setups, shown, left, history>>

\* A bundle without keys.
FirstBundle(d) ==
  /\ call[d].pc = "bundle"
  /\ blob' = [NoBlob EXCEPT !.by = call[d].setup]
  /\ aware' = {d}
  /\ flight' = [e \in Device |-> [flight[e] EXCEPT !.aware = FALSE]]
  /\ blind' = (blind \/ blob # NoBlob)
  /\ call' = [call EXCEPT ![d].pc = "show"]
  /\ UNCHANGED <<salt, verified, master, held, modal, boot, timer, setups, shown, left,
                 erased, broken, crossed, late, banked, gone>>

\* The key is cached, the phrase is shown, and the user writes it down.
Show(d) ==
  /\ call[d].pc = "show"
  /\ Cache(d, timer[d])
  /\ shown' = shown \union {call[d].setup}
  /\ modal' = [modal EXCEPT ![d] = "free"]
  /\ call' = [call EXCEPT ![d] = Idle]
  /\ UNCHANGED <<server, held, boot, timer, flight, setups, left, erased, broken, crossed, aware,
                 blind, banked, gone>>

\* A request of the setup fails, or its answer is lost: the modal offers another
\* attempt, which begins anew.
SetupFails(d) ==
  /\ call[d].pc \in {"bundle", "show"}
  /\ Spend("trips")
  /\ broken' = broken \union {call[d].setup}
  /\ call' = [call EXCEPT ![d] = Idle]
  /\ UNCHANGED <<server, master, held, modal, boot, timer, flight, setups, shown, erased, crossed,
                 late, aware, blind, banked, gone>>

-----------------------------------------------------------------------------
(* Entering the phrase: RecoveryVerifyModal, RecoveryLoginModal            *)

\* The phrase, with the salt of the server, gives a key, and it opens the bundle.
Enter(d, p) ==
  /\ modal[d] \in {"verify", "prompt"} /\ call[d].pc = "idle"
  /\ p \in shown
  /\ p = salt /\ blob.by = p
  /\ call' = [call EXCEPT ![d] = [pc |-> "restore", setup |-> p, blob |-> blob, mark |-> TRUE]]
  /\ UNCHANGED <<server, master, held, modal, boot, timer, flight, setups, shown, left, history>>

\* The key is cached, the keys are taken over, of which those put to use make a
\* sync due; the user has confirmed the phrase.
Recover(d) ==
  LET b == call[d].blob
      due == timer[d] \/ ~(b.keys \subseteq Skipped(d, b)) IN
  /\ call[d].pc = "restore"
  /\ held' = [held EXCEPT ![d] = Restored(d, b)]
  /\ Missed(d, b)
  /\ timer' = [timer EXCEPT ![d] = due]
  /\ Cache(d, due)
  /\ Read(d, b)
  /\ call' = [call EXCEPT ![d].pc = "mark"]
  /\ UNCHANGED <<server, modal, boot, flight, setups, shown, left, erased, broken, crossed,
                 blind, banked>>

\* /e2e/recovery/verify; if it fails the modal stays.
Mark(d) ==
  /\ call[d].pc = "mark"
  /\ \/ /\ verified' = TRUE
        /\ modal' = [modal EXCEPT ![d] = "free"]
        /\ UNCHANGED left
     \/ /\ Spend("trips")
        /\ UNCHANGED <<verified, modal>>
  /\ call' = [call EXCEPT ![d] = Idle]
  /\ UNCHANGED <<salt, blob, master, held, boot, timer, flight, setups, shown, history>>

-----------------------------------------------------------------------------
(* Keeping the bundle up to date: scheduleBundleSync, _doSync              *)

\* A chat or a group gets its first key on this device, made here or elsewhere.
First(d, k) ==
  /\ Fellows(k, held[d].keys) = {}
  /\ held' = [held EXCEPT ![d].keys = @ \union {k}]
  /\ UNCHANGED gone

\* The key of a chat of two is rotated: the one before it is in the map, but for
\* a map that the bundle brought.
Rotate(d, k) ==
  LET old == Fellows(k, held[d].keys)
      put == IF Fellows(k, held[d].maps) = {} THEN old \union {k} ELSE {k} IN
  /\ left.chat[k] \notin Group /\ old # {}
  /\ held' = [held EXCEPT ![d] = [keys |-> (@.keys \ old) \union {k}, maps |-> @.maps \union put]]
  /\ gone' = gone \union (old \ (held[d].maps \union put))

\* The user's key of a group is rotated: the one before it goes.
Renew(d, k) ==
  LET old == Fellows(k, held[d].keys) IN
  /\ left.chat[k] \in Group /\ old # {}
  /\ held' = [held EXCEPT ![d].keys = (@ \ old) \union {k}]
  /\ gone' = gone \union old

AddKey(d, k) ==
  /\ modal[d] # "closed"
  /\ k \notin All(held[d])
  /\ Spend("adds")
  /\ First(d, k) \/ Rotate(d, k) \/ Renew(d, k)
  /\ timer' = [timer EXCEPT ![d] = TRUE]
  /\ UNCHANGED <<server, master, modal, call, boot, flight, setups, shown, erased, broken, crossed,
                 late, aware, blind, banked>>

\* The user leaves a group: its key goes, and no sync follows.
Leave(d, k) ==
  /\ modal[d] # "closed"
  /\ left.chat[k] \in Group /\ k \in held[d].keys
  /\ Spend("adds")
  /\ held' = [held EXCEPT ![d].keys = @ \ {k}]
  /\ gone' = gone \union {k}
  /\ UNCHANGED <<server, master, modal, call, boot, timer, flight, setups, shown, erased, broken,
                 crossed, late, aware, blind, banked>>

\* The timer ends.  A sync under way makes it end without effect, and so does a
\* device that has not got the key of the bundle.
Fire(d) ==
  /\ timer[d]
  /\ timer' = [timer EXCEPT ![d] = FALSE]
  /\ IF flight[d].on
     THEN late' = [late EXCEPT ![d] = @ \union {"dropped"}] /\ UNCHANGED flight
     ELSE IF master[d] = Nothing
     THEN UNCHANGED <<late, flight>>
     ELSE /\ flight' = [flight EXCEPT ![d] =
               [on |-> TRUE, aware |-> d \in aware,
                blob |-> [by |-> master[d], keys |-> held[d].keys, maps |-> held[d].maps]]]
          /\ UNCHANGED late
  /\ UNCHANGED <<server, master, held, modal, call, boot, setups, shown, left, erased, broken,
                 crossed, aware, blind, banked, gone>>

\* The server stores whatever arrives.  Over the limit of puts, or over the
\* size, or without a connection nothing is stored, and nothing is tried again.
Put(d) ==
  /\ flight[d].on
  /\ \/ /\ blob' = flight[d].blob
        /\ late' = [e \in Device |->
              LET whole == All(held[e]) \subseteq All(flight[d].blob)
              IN CASE whole /\ e = d -> {}
                   [] ~whole /\ e = d -> late[e] \intersect {"dropped", "unwritten"}
                   [] ~whole /\ e # d -> late[e] \union {"overwritten"}
                   [] OTHER -> late[e]]
        /\ flight' = [e \in Device |-> IF e = d THEN Grounded ELSE [flight[e] EXCEPT !.aware = FALSE]]
        /\ blind' = (blind \/ ~flight[d].aware)
        /\ aware' = {d}
        /\ banked' = banked \union All(flight[d].blob)
        /\ UNCHANGED left
     \/ /\ Spend("trips")
        /\ late' = [late EXCEPT ![d] = @ \union {"failed"}]
        /\ flight' = [flight EXCEPT ![d] = Grounded]
        /\ UNCHANGED <<blob, blind, aware, banked>>
  /\ UNCHANGED <<salt, verified, master, held, modal, call, boot, timer, setups, shown, erased,
                 broken, crossed, gone>>

-----------------------------------------------------------------------------
(* The platform and the user                                               *)

InSetup(d) == call[d].pc \in {"bundle", "show"}

\* What a device forgets when its app closes.  A handler of the server that runs
\* for it ends first.
Closed(ds) ==
  /\ \A d \in ds : call[d].pc \notin {"salt", "meta"}
  /\ modal' = [d \in Device |-> IF d \in ds THEN "closed" ELSE modal[d]]
  /\ call' = [d \in Device |-> IF d \in ds THEN Idle ELSE call[d]]
  /\ boot' = [d \in Device |-> IF d \in ds THEN NotRead ELSE boot[d]]
  /\ timer' = [d \in Device |-> IF d \in ds THEN FALSE ELSE timer[d]]
  /\ flight' = [d \in Device |-> IF d \in ds THEN Grounded ELSE flight[d]]
  /\ broken' = broken \union {call[d].setup : d \in {e \in ds : InSetup(e)}}

Close(d) ==
  /\ modal[d] # "closed"
  /\ Spend("closings")
  /\ Closed({d})
  /\ UNCHANGED <<server, master, held, setups, shown, erased, crossed, late, aware, blind, banked,
                 gone>>

\* The storage of a device is gone, or the device is, and another takes its place.
Lose(d) ==
  /\ Spend("losses")
  /\ Closed({d})
  /\ master' = [master EXCEPT ![d] = Nothing]
  /\ held' = [held EXCEPT ![d] = NoKeys]
  /\ late' = [late EXCEPT ![d] = {}]
  /\ aware' = aware \ {d}
  /\ UNCHANGED <<server, setups, shown, erased, crossed, blind, banked, gone>>

\* The account is deleted from d, whose storage is cleared, and the handle is
\* registered again when its lock has ended.  Other devices keep their storage.
Erase(d) ==
  /\ Spend("erasures")
  /\ Closed(Device)
  /\ salt' = Nothing /\ blob' = NoBlob /\ verified' = FALSE
  /\ master' = [master EXCEPT ![d] = Nothing]
  /\ held' = [held EXCEPT ![d] = NoKeys]
  /\ erased' = setups /\ crossed' = FALSE /\ late' = [e \in Device |-> {}]
  /\ aware' = {} /\ blind' = FALSE /\ banked' = {} /\ gone' = {}
  /\ UNCHANGED <<setups, shown>>

RNext ==
  \E d \in Device :
    \/ Start(d) \/ Restore(d)
    \/ InitHead(d) \/ InitSalt(d) \/ InitMeta(d) \/ FirstBundle(d) \/ Show(d) \/ SetupFails(d)
    \/ \E p \in shown : Enter(d, p)
    \/ Recover(d) \/ Mark(d)
    \/ \E k \in Key : AddKey(d, k) \/ Leave(d, k)
    \/ Fire(d) \/ Put(d)
    \/ Close(d) \/ Lose(d) \/ Erase(d)

RSpec == RInit /\ [][RNext]_rvars

-----------------------------------------------------------------------------
(* Properties *)

Blob == [by : Setup \union {Nothing}, keys : SUBSET Key, maps : SUBSET Key]

RTypeOK ==
  /\ salt \in 0..MaxSetups /\ blob \in Blob /\ verified \in BOOLEAN
  /\ master \in [Device -> 0..MaxSetups] /\ held \in [Device -> [keys : SUBSET Key, maps : SUBSET Key]]
  /\ modal \in [Device -> {"closed", "free", "onboarding", "verify", "prompt"}]
  /\ call \in [Device -> [pc : {"idle", "salt", "meta", "bundle", "show", "restore", "mark"},
                          setup : 0..MaxSetups, blob : Blob, mark : BOOLEAN]]
  /\ boot \in [Device -> [read : BOOLEAN, blob : Blob]]
  /\ timer \in [Device -> BOOLEAN]
  /\ flight \in [Device -> [on : BOOLEAN, blob : Blob, aware : BOOLEAN]]
  /\ setups \in 0..MaxSetups /\ shown \subseteq Setup /\ erased \in 0..MaxSetups
  /\ broken \subseteq Setup /\ crossed \in BOOLEAN /\ blind \in BOOLEAN
  /\ late \in [Device -> SUBSET {"dropped", "unwritten", "failed", "overwritten"}]
  /\ aware \subseteq Device /\ banked \subseteq Key /\ gone \subseteq Key
  \* in every chat one key is in use
  /\ \A d \in Device : \A k \in held[d].keys : Fellows(k, held[d].keys) = {k}

\* A phrase the user has seen opens the bundle.
WayIn == salt \in shown /\ blob.by = salt

\* The bundle is made with the key of an account of the same name erased before:
\* a device kept it, and writes with it although it opens nothing any more.
Outlived == blob.by \in 1..erased

\* Once the salt is stored no setup is possible any more and the app asks for
\* the phrase at every start; so there is a phrase, the user has seen it, and it
\* opens the bundle (RecoveryOnboardingModal: the phrase is shown only after
\* everything is stored).  Three ways lead to a user who is asked for a phrase
\* that was never shown, or does not help: the setup broke off after the salt,
\* two devices did the setup at once, or a device outlived the account.
PhraseOpensTheBundle ==
  salt # Nothing /\ (\A d \in Device : call[d].pc \notin {"salt", "meta", "bundle", "show"})
    => WayIn \/ salt \in broken \/ crossed \/ Outlived

\* Nothing is due or under way on d.
Settled(d) ==
  modal[d] = "free" /\ ~timer[d] /\ ~flight[d].on /\ ~boot[d].read /\ call[d].pc = "idle"

\* All keys of a device that has the key of the bundle are in the bundle, as
\* soon as the device is at rest, unless its last sync failed, was dropped because
\* another was under way or never began (the device held keys before it got the
\* key of the bundle, or got maps with it, which by itself starts none), or another
\* device's bundle came over it (docs/RECOVERY.md: two devices write the same keys
\* anyway).
KeysAreInTheBundle ==
  \A d \in Device :
    Settled(d) /\ master[d] # Nothing /\ blob.by = master[d]
    => All(held[d]) \subseteq All(blob) \/ late[d] # {}

\* A key that was in the bundle leaves it in two cases only.  A bundle was written
\* over one that its writer had not read when it collected its keys (every start
\* takes over what the bundle holds, and a device writes at least what it took over).
\* Or a device gave the key up: the key of a group when it was rotated or left, the
\* one in use in a chat that got another without a place in the map, what was only in
\* the map that the bundle's replaced, or a key of the bundle for a chat in which the
\* device already used another: two devices that began a chat each for itself.
NoKeyIsForgotten == banked \subseteq All(blob) \union gone \/ blind

\* The bundle holds what it should.
BundleIsComplete == KeysAreInTheBundle /\ NoKeyIsForgotten

=============================================================================

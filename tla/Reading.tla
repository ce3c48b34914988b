------------------------------ MODULE Reading -------------------------------
(* One message and the pages that show it: opened with a key that may come     *)
(* late, in the attempts of a ladder (chat.svelte.js, chatPipeline.js,         *)
(* cmkRequestState.js), edited and reacted to while lists are loaded, pages    *)
(* sleep, and the answers of several requests cross (chatRoutes.js).           *)
EXTENDS Integers

CONSTANTS
  Page,      \* pages, each of one device
  Ladder,    \* attempts after the first (4, or 6 for v4)
  Limits     \* bounds, a set of [kind, mine, keys, edits, reacts, views, fails]

VARIABLES
  row,       \* messages: which text the row has, 0 the original
  rx,        \* message_reactions of one emoji: the users
  page,      \* page[p]: up, chat open, what is shown, the row it is from, the reactions shown
  cache,     \* cache[p]: _decryptCache, the text that was opened, or Absent
  store,     \* store[p]: the stored plaintext of a v4 message, or Absent
  key,       \* key[p]: "none", "kv" (wrapped for the device) or "local"
  no,        \* pages told that the peer has no key either
  asked,     \* pages whose request for the key is pending
  guard,     \* pages that began to open all messages less than 1.5 s ago
  jobs,      \* requests, events and attempts under way
  left,      \* what is left of the bounds
  sent,      \* history: edits begun
  why,       \* history: why[p], why it may show an older text
  stuck,     \* history: stuck[p], why it may not open the message
  other      \* history: pages that may show other reactions, until they load the list

rvars == <<row, rx, page, cache, store, key, no, asked, guard, jobs, left, sent, why, stuck, other>>

Absent == -3
Locked == -2
Gone == -1
User(p) == IF p \in left.mine THEN "author" ELSE "reader"
V4 == left.kind = "v4"
Group == left.kind = "group"
Spend(what) == left[what] > 0 /\ left' = [left EXCEPT ![what] = @ - 1]
Then(t, new) == jobs' = (jobs \ {t}) \cup new
At(p, ops) == {t \in jobs : t.p = p /\ t.op \in ops}
Shown(p) == page[p].text # Absent

RTypeOK ==
  /\ row \in 0..sent /\ rx \subseteq {"author", "reader"} /\ no \cup asked \cup guard \cup other \subseteq Page
  /\ page \in [Page -> [up : BOOLEAN, open : BOOLEAN, text : -3..sent, raw : 0..sent, rx : SUBSET {"author", "reader"}]]
  /\ cache \in [Page -> {Absent} \cup 0..sent] /\ store \in [Page -> {Absent, 0}]
  /\ key \in [Page -> {"none", "kv", "local"}]

(* The author's page sent the message; the others just received it.            *)
RInit ==
  /\ left \in Limits /\ row = 0 /\ rx = {} /\ sent = 0 /\ no = {} /\ asked = {} /\ guard = {} /\ other = {}
  /\ \E a \in left.mine :
       /\ page = [p \in Page |-> [up |-> TRUE, open |-> TRUE, text |-> IF p = a THEN 0 ELSE Locked, raw |-> 0, rx |-> {}]]
       /\ jobs = {[op |-> "open", p |-> p, ver |-> 0, att |-> 0] : p \in Page \ {a}}
       /\ store = [p \in Page |-> IF p = a /\ V4 THEN 0 ELSE Absent]
       /\ key \in [Page -> left.keys] /\ key[a] = "local"
  /\ cache = [p \in Page |-> Absent] /\ why = [p \in Page |-> {}] /\ stuck = [p \in Page |-> {}]

Texts == <<page, cache, store, no, why, stuck>>
Rows == <<row, rx, sent>>
Keys == <<key, asked, guard>>

----------------------------------------------------------------------------
(* Opening.  An attempt holds the row it was begun with; its result is patched *)
(* into whatever the page shows by then (_patchMessage).                       *)
Patch(p, v) == page' = IF Shown(p) THEN [page EXCEPT ![p].text = v] ELSE page
Known(p) == IF V4 THEN store[p] ELSE cache[p]
Fetched(p) == IF key[p] = "none" THEN key ELSE [key EXCEPT ![p] = "local"]

Refused(t) == t.p \in no /\ ~Group
Fresh(t) == ~Refused(t) /\ Known(t.p) = Absent

Again(t) == {[op |-> "timer", p |-> t.p, ver |-> t.ver, att |-> t.att]}
Fails(t) ==
  IF t.att < Ladder THEN Then(t, Again(t)) /\ UNCHANGED <<page, stuck>>
  ELSE /\ Then(t, {}) /\ IF V4 THEN Patch(t.p, Gone) ELSE page' = page
       /\ stuck' = [stuck EXCEPT ![t.p] = @ \cup {"GaveUp"}]
OpenRefused(t) ==
  /\ t.op = "open" /\ Refused(t)
  /\ Patch(t.p, Gone) /\ Then(t, {}) /\ UNCHANGED <<Rows, cache, store, no, why, stuck, Keys, left, other>>
OpenKnown(t) ==
  /\ t.op = "open" /\ ~Refused(t) /\ Known(t.p) # Absent
  /\ Patch(t.p, Known(t.p)) /\ no' = no \ {t.p} /\ Then(t, {})
  /\ why' = IF V4 /\ t.ver > 0 THEN [why EXCEPT ![t.p] = @ \cup {"Store"}] ELSE why
  /\ UNCHANGED <<Rows, cache, store, stuck, Keys, left, other>>
OpenV4(t) ==
  /\ t.op = "open" /\ V4 /\ Fresh(t) /\ UNCHANGED <<Rows, cache, store, no, asked, guard, left, other>>
  /\ IF key[t.p] = "none" THEN Fails(t) /\ UNCHANGED <<why, key>>
     ELSE /\ key' = Fetched(t.p) /\ Then(t, {[t EXCEPT !.op = "opened", !.ver = 0]}) /\ UNCHANGED <<page, stuck>>
          /\ why' = IF t.ver > 0 THEN [why EXCEPT ![t.p] = @ \cup {"Store"}] ELSE why
OpenGroup(t) ==
  /\ t.op = "open" /\ Group /\ Fresh(t) /\ UNCHANGED <<Rows, cache, store, no, why, asked, guard, left, other>>
  /\ IF key[t.p] = "none" THEN Fails(t) /\ key' = key
     ELSE key' = Fetched(t.p) /\ Then(t, {[t EXCEPT !.op = "opened"]}) /\ UNCHANGED <<page, stuck>>
OpenDm(t) ==
  /\ t.op = "open" /\ left.kind = "dm" /\ Fresh(t) /\ UNCHANGED <<Rows, Texts, guard, left, other>>
  /\ IF key[t.p] # "none"
     THEN key' = Fetched(t.p) /\ asked' = asked /\ Then(t, {[t EXCEPT !.op = "opened"]})
     ELSE /\ key' = key /\ asked' = asked \cup {t.p}
          /\ Then(t, {[t EXCEPT !.op = "await"]} \cup IF t.p \in asked THEN {} ELSE {[op |-> "asks", p |-> t.p]})
Await(t) ==
  /\ t.op = "await"
  /\ IF t.p \in no \/ key[t.p] = "none"
     THEN Fails(t) /\ UNCHANGED <<key, asked>>
     ELSE /\ Then(t, {[t EXCEPT !.op = "opened"]}) /\ key' = Fetched(t.p) /\ asked' = asked \ {t.p}
          /\ UNCHANGED <<page, stuck>>
  /\ UNCHANGED <<Rows, cache, store, no, why, guard, left, other>>
Opened(t) ==
  /\ t.op = "opened" /\ ~Group /\ Patch(t.p, t.ver) /\ no' = no \ {t.p} /\ Then(t, {})
  /\ IF V4 THEN store' = [store EXCEPT ![t.p] = t.ver] /\ cache' = cache
     ELSE cache' = [cache EXCEPT ![t.p] = t.ver] /\ store' = store
  /\ UNCHANGED <<Rows, Keys, why, stuck, left, other>>
OpenedGroup(t) ==
  /\ t.op = "opened" /\ Group /\ Patch(t.p, t.ver) /\ Then(t, {}) /\ cache' = [cache EXCEPT ![t.p] = t.ver]
  /\ UNCHANGED <<Rows, Keys, store, no, why, stuck, left, other>>
StillLocked(p) == page[p].text = Locked
Timer(t) ==
  /\ t.op = "timer"
  /\ Then(t, IF (t.p \notin no \/ Group) /\ StillLocked(t.p) THEN {[t EXCEPT !.op = "open", !.att = @ + 1]} ELSE {})
  /\ UNCHANGED <<Rows, Texts, Keys, left, other>>

(* All messages of a list that was loaded; not again within 1.5 s.             *)
Sweep(p, new, t) ==
  /\ guard' = guard \cup {p}
  /\ IF p \in no THEN page' = [new EXCEPT ![p].text = Gone] /\ Then(t, {}) /\ stuck' = stuck
     ELSE /\ page' = new /\ stuck' = [stuck EXCEPT ![p] = {}]
          /\ Then(t, {[op |-> "open", p |-> p, ver |-> new[p].raw, att |-> 0], [op |-> "kick", p |-> p]})
SweepGroup(p, new, t) ==
  /\ guard' = guard \cup {p} /\ page' = new /\ stuck' = [stuck EXCEPT ![p] = {}]
  /\ Then(t, {[op |-> "open", p |-> p, ver |-> new[p].raw, att |-> 0]})
SkipSweep(p, new, t) ==
  /\ guard' = guard /\ page' = new /\ Then(t, {}) /\ stuck' = [stuck EXCEPT ![p] = @ \cup {"Guard"}]
Kick(t) ==
  /\ t.op = "kick"
  /\ IF StillLocked(t.p) /\ t.p \notin no \cup asked /\ key[t.p] # "local"
     THEN asked' = asked \cup {t.p} /\ Then(t, {[op |-> "asks", p |-> t.p]})
     ELSE asked' = asked /\ Then(t, {})
  /\ UNCHANGED <<Rows, Texts, key, guard, left, other>>
GuardEnds(p) == p \in guard /\ guard' = guard \ {p} /\ UNCHANGED <<Rows, Texts, key, asked, jobs, left, other>>
PendingEnds(p) == p \in asked /\ asked' = asked \ {p} /\ UNCHANGED <<Rows, Texts, key, guard, jobs, left, other>>

(* A device of the peer wraps the key, or says that it has none; after a       *)
(* rotation the page opens all messages again.                                 *)
KeyComes(p, rotated) ==
  /\ Spend("views") /\ key[p] = "none" /\ key' = [key EXCEPT ![p] = IF rotated THEN "local" ELSE "kv"]
  /\ IF rotated /\ ~Group /\ StillLocked(p)
     THEN /\ jobs' = jobs \cup IF p \in no THEN {} ELSE {[op |-> "open", p |-> p, ver |-> page[p].raw, att |-> 0]}
          /\ guard' = guard \cup {p}
     ELSE UNCHANGED <<jobs, guard>>
  /\ UNCHANGED <<Rows, Texts, asked, other>>
PeerSaysNo(t) ==
  /\ t.op = "asks"
  /\ \/ Then(t, {}) /\ UNCHANGED <<page, no, asked, stuck>>
     \/ /\ Then(t, {}) /\ key[t.p] # "local" /\ page[t.p].up
        /\ no' = no \cup {t.p} /\ asked' = asked \ {t.p} /\ stuck' = [stuck EXCEPT ![t.p] = @ \cup {"No"}]
        /\ page' = IF StillLocked(t.p) THEN [page EXCEPT ![t.p].text = Gone] ELSE page
  /\ UNCHANGED <<Rows, cache, store, why, key, guard, left, other>>

----------------------------------------------------------------------------
(* Lists.                                                                      *)
Select(p) ==
  /\ Spend("views") /\ page[p].up /\ ~page[p].open
  /\ page' = [page EXCEPT ![p].open = TRUE] /\ jobs' = jobs \cup {[op |-> "list", p |-> p, all |-> TRUE]}
  /\ UNCHANGED <<Rows, cache, store, no, why, stuck, Keys, other>>
Close(p) ==
  /\ Spend("views") /\ page[p].up /\ page[p].open
  /\ page' = [page EXCEPT ![p].open = FALSE, ![p].text = Absent]
  /\ UNCHANGED <<Rows, cache, store, no, why, stuck, Keys, jobs, other>>
Sleep(p) ==
  /\ Spend("views") /\ page[p].up /\ page' = [page EXCEPT ![p].up = FALSE]
  /\ UNCHANGED <<Rows, cache, store, no, why, stuck, Keys, jobs, other>>
Resume(p) ==
  /\ ~page[p].up /\ page' = [page EXCEPT ![p].up = TRUE]
  /\ jobs' = jobs \cup IF page[p].open THEN {[op |-> "list", p |-> p, all |-> FALSE]} ELSE {}
  /\ UNCHANGED <<Rows, cache, store, no, why, stuck, Keys, left, other>>
AtServer == {"write", "tell", "toggle", "put", "snap", "show"}
Reload(p) ==
  /\ Spend("views")
  /\ page' = [page EXCEPT ![p] = [up |-> TRUE, open |-> FALSE, text |-> Absent, raw |-> 0, rx |-> {}]]
  /\ jobs' = {t \in jobs : t.p # p \/ t.op \in AtServer}
  /\ cache' = [cache EXCEPT ![p] = Absent] /\ no' = no \ {p} /\ asked' = asked \ {p} /\ guard' = guard \ {p}
  /\ why' = [why EXCEPT ![p] = {}] /\ stuck' = [stuck EXCEPT ![p] = {}] /\ other' = other \ {p}
  /\ UNCHANGED <<Rows, store, key>>
ListRead(t) ==
  /\ t.op = "list"
  /\ \/ Then(t, {[op |-> "listed", p |-> t.p, all |-> t.all, ver |-> row, rx |-> rx]}) /\ left' = left
     \/ Spend("fails") /\ Then(t, {})
  /\ UNCHANGED <<Rows, Texts, Keys, other>>
\* A page is without an excuse again when nothing on its way there is older than
\* the row; without other reactions when no list or answer brings them.
FreshWhy(p, ver) ==
  IF /\ ver = row /\ ~V4 /\ cache[p] \in {Absent, row}
     /\ \A x \in At(p, {"listed", "open", "opened", "await", "timer", "edited", "answer"}) : x.ver = row
  THEN [why EXCEPT ![p] = {}] ELSE why
Agreed(t, shown) ==
  IF shown = rx /\ \A x \in At(t.p, {"listed", "reacted"}) \ {t} : x.rx = rx THEN other \ {t.p} ELSE other
Shows(t, p, new) ==
  /\ IF p \in guard THEN SkipSweep(p, new, t) ELSE IF Group THEN SweepGroup(p, new, t) ELSE Sweep(p, new, t)
  /\ why' = FreshWhy(p, t.ver) /\ other' = Agreed(t, t.rx)
NewRow(p, t) == [page EXCEPT ![p].text = Locked, ![p].raw = t.ver, ![p].rx = t.rx]
Listed(t) ==
  /\ t.op = "listed" /\ t.all /\ UNCHANGED <<Rows, cache, store, no, key, asked, left>>
  /\ IF page[t.p].open THEN Shows(t, t.p, NewRow(t.p, t))
     ELSE Then(t, {}) /\ UNCHANGED <<page, guard, stuck, why, other>>
Refreshed(t) ==
  /\ t.op = "listed" /\ ~t.all /\ UNCHANGED <<Rows, cache, store, no, key, asked, left>>
  /\ \/ ~page[t.p].open /\ Then(t, {}) /\ UNCHANGED <<page, guard, stuck, why, other>>
     \/ page[t.p].open /\ ~Shown(t.p) /\ Shows(t, t.p, NewRow(t.p, t))
     \/ /\ page[t.p].open /\ Shown(t.p) /\ Then(t, {})
        /\ page' = IF t.rx # {} THEN [page EXCEPT ![t.p].rx = t.rx] ELSE page
        /\ other' = Agreed(t, page'[t.p].rx) /\ UNCHANGED <<guard, stuck, why>>

----------------------------------------------------------------------------
(* Editing: the server writes the row, tells the peer and the author's other   *)
(* devices, and answers; the composer sends one edit at a time.                *)
CanEdit(p) ==
  /\ page[p].up /\ p \in left.mine /\ page[p].text >= 0 /\ At(p, {"write", "tell", "answer"}) = {}
Post(p) == sent' = sent + 1 /\ jobs' = jobs \cup {[op |-> "write", p |-> p, ver |-> sent + 1]}
EditDm(p) ==
  /\ ~Group /\ CanEdit(p) /\ key[p] # "none" /\ Spend("edits") /\ Post(p)
  /\ UNCHANGED <<row, rx, Texts, Keys, other>>
EditGroup(p) ==
  /\ Group /\ CanEdit(p) /\ key[p] # "none" /\ Spend("edits") /\ Post(p)
  /\ UNCHANGED <<row, rx, Texts, Keys, other>>
Write(t) ==
  /\ t.op = "write"
  /\ \/ row' = t.ver /\ Then(t, {[t EXCEPT !.op = "tell"]}) /\ left' = left
     \/ Spend("fails") /\ Then(t, {}) /\ row' = row
  /\ UNCHANGED <<rx, sent, Texts, Keys, other>>
Hears(p) == page[p].up
Excuse(p, ver) ==
  (IF page[p].up THEN {} ELSE {"Asleep"})
  \cup (IF \E x \in At(p, {"listed"}) : x.ver # row THEN {"Loading"} ELSE {})
  \cup (IF \E x \in At(p, {"open", "opened", "await", "timer"}) : x.ver # row THEN {"Behind"} ELSE {})
  \cup (IF key[p] = "none" THEN {"NoKey"} ELSE {})
  \cup (IF ver # row \/ \E x \in At(p, {"edited", "answer"}) : x.ver # ver THEN {"Crossed"} ELSE {})
Tell_KeepsCache(t) ==
  /\ t.op = "tell"
  /\ Then(t, {[op |-> "edited", p |-> p, ver |-> t.ver] : p \in {q \in Page : Hears(q) /\ Shown(q)}}
             \cup {[t EXCEPT !.op = "answer"]})
  /\ why' = [p \in Page |-> Excuse(p, t.ver)]
  /\ UNCHANGED <<Rows, page, cache, store, no, stuck, Keys, left, other>>
Tell(t) ==
  /\ t.op = "tell"
  /\ cache' = [p \in Page |-> IF Hears(p) THEN Absent ELSE cache[p]]
  /\ Then(t, {[op |-> "edited", p |-> p, ver |-> t.ver] : p \in {q \in Page : Hears(q) /\ Shown(q)}}
             \cup {[t EXCEPT !.op = "answer"]})
  /\ why' = [p \in Page |-> Excuse(p, t.ver)]
  /\ UNCHANGED <<Rows, page, store, no, stuck, Keys, left, other>>
NewText(t) == IF Shown(t.p) THEN [page EXCEPT ![t.p].text = t.ver, ![t.p].raw = t.ver] ELSE page
EditedDm(t) ==
  /\ t.op = "edited" /\ ~Group /\ Then(t, {}) /\ key' = Fetched(t.p)
  /\ page' = IF key[t.p] # "none" THEN NewText(t) ELSE page
  /\ UNCHANGED <<Rows, cache, store, no, why, stuck, asked, guard, left, other>>
EditedGroup(t) ==
  /\ t.op = "edited" /\ Group /\ Then(t, {}) /\ key' = Fetched(t.p)
  /\ page' = IF key[t.p] # "none" THEN NewText(t) ELSE page
  /\ UNCHANGED <<Rows, cache, store, no, why, stuck, asked, guard, left, other>>
Answer(t) ==
  /\ t.op = "answer" /\ Then(t, {}) /\ UNCHANGED <<Rows, store, no, why, stuck, Keys, other>>
  /\ \/ cache' = [cache EXCEPT ![t.p] = Absent] /\ Patch(t.p, t.ver) /\ left' = left
     \/ Spend("fails") /\ UNCHANGED <<cache, page>>

(* Reactions: every event and every answer carries all of them.                *)
React(p) ==
  /\ Spend("reacts") /\ page[p].up /\ page[p].text >= 0
  /\ jobs' = jobs \cup {[op |-> "toggle", p |-> p, n |-> left.reacts]}
  /\ UNCHANGED <<Rows, Texts, Keys, other>>
Toggle(t) ==
  /\ t.op = "toggle" /\ UNCHANGED <<Rows, Texts, Keys, left, other>>
  /\ Then(t, {[op |-> "put", p |-> t.p, n |-> t.n, add |-> User(t.p) \notin rx]})
Put(t) ==
  /\ t.op = "put" /\ rx' = IF t.add THEN rx \cup {User(t.p)} ELSE rx \ {User(t.p)}
  /\ Then(t, {[op |-> "snap", p |-> t.p, n |-> t.n]}) /\ UNCHANGED <<row, sent, Texts, Keys, left, other>>
Snap(t) ==
  /\ t.op = "snap" /\ Then(t, {[op |-> "show", p |-> t.p, n |-> t.n, rx |-> rx]})
  /\ UNCHANGED <<Rows, Texts, Keys, left, other>>
Show(t) ==
  /\ t.op = "show"
  /\ page' = [p \in Page |-> IF Hears(p) /\ Shown(p) THEN [page[p] EXCEPT !.rx = t.rx] ELSE page[p]]
  /\ Then(t, {[t EXCEPT !.op = "reacted"]})
  /\ other' = {p \in Page : t.rx # rx \/ ~Hears(p) \/ \E x \in At(p, {"listed", "reacted"}) : x.rx # rx}
  /\ UNCHANGED <<Rows, cache, store, no, why, stuck, Keys, left>>
Reacted(t) ==
  /\ t.op = "reacted" /\ Then(t, {}) /\ UNCHANGED <<Rows, cache, store, no, why, stuck, Keys, left, other>>
  /\ page' = IF Shown(t.p) THEN [page EXCEPT ![t.p].rx = t.rx] ELSE page

RNext ==
  \/ \E p \in Page : \/ GuardEnds(p) \/ PendingEnds(p) \/ Select(p) \/ Close(p) \/ Sleep(p) \/ Resume(p) \/ Reload(p)
                     \/ EditDm(p) \/ EditGroup(p) \/ React(p) \/ \E r \in BOOLEAN : KeyComes(p, r)
  \/ \E t \in jobs : \/ OpenRefused(t) \/ OpenKnown(t) \/ OpenV4(t) \/ OpenGroup(t) \/ OpenDm(t) \/ Await(t)
                     \/ Opened(t) \/ OpenedGroup(t) \/ Refreshed(t) \/ Timer(t) \/ Kick(t) \/ PeerSaysNo(t) \/ ListRead(t)
                     \/ Listed(t) \/ Write(t) \/ Tell(t) \/ EditedDm(t) \/ EditedGroup(t) \/ Answer(t) \/ Toggle(t) \/ Put(t) \/ Snap(t)
                     \/ Show(t) \/ Reacted(t)
RSpec == RInit /\ [][RNext]_rvars

(* When nothing is under way, a text that is shown is that of the row          *)
(* (handleMessageEdited, chat.svelte.js), unless the page slept, loaded the    *)
(* list or opened the message while it was edited, had no key, or two edits    *)
(* crossed; a v4 message that is opened again shows its first text.            *)
EditIsShown ==
  jobs = {} => \A p \in Page : page[p].text >= 0 /\ why[p] = {} => page[p].text = row

(* When nothing is under way, a message is opened wherever its key is          *)
(* (_decryptOne, chat.svelte.js), unless the ladder ended before the key came, *)
(* the list was loaded twice within the guard's time, or a device of the peer  *)
(* said that it had no key.                                                    *)
LockedHasACause ==
  jobs = {} => \A p \in Page : page[p].text \in {Locked, Gone} /\ key[p] # "none" => stuck[p] # {}

(* When nothing is under way, the reactions shown are those of the server      *)
(* (chatRoutes.js), unless a page slept, was loading, or two requests crossed. *)
ReactionsAgree ==
  jobs = {} => \A p \in Page \ other : Shown(p) => page[p].rx = rx

ReadInOrder == EditIsShown /\ LockedHasACause /\ ReactionsAgree
=============================================================================

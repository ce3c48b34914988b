-------------------------------- MODULE Push --------------------------------
(* Notifications of one conversation.  A browser registers its endpoint at     *)
(* every start (push.js, pushRoutes.js); a message goes to all endpoints of    *)
(* the receiver who has not muted the conversation (chatSend.js, pushSend.js,  *)
(* sw.js); a mute is a row with a level and perhaps an end                     *)
(* (notificationRoutes.js), of which each page keeps a copy                    *)
(* (notifications.svelte.js).                                                  *)
EXTENDS Naturals, FiniteSets, SequencesExt

CONSTANTS
  Person,    \* users
  Browser,   \* browsers, each with one user at a time
  MaxRows,   \* endpoints a user may have (10)
  Limits,    \* bounds, a set of [acts, mutes, msgs, times, fails, ok, under]
  Nobody     \* no user

VARIABLES
  rows,      \* push_subscriptions, the one updated last at the end
  at,        \* at[b]: the user, the number of the last endpoint, whether it is up, whether permitted
  mute,      \* mute[u]: the row of notification_mutes
  shown,      \* shown[b]: what the page knows of its user's row
  doing,     \* requests, answers and notifications under way
  left,      \* what is left of the bounds
  wanted,    \* history: wanted[u], the level that u chose last
  why,       \* history: why[u], why the row may not be what was chosen
  synced,    \* history: the browsers that registered since their user signed in
  lapsed,    \* history: lapsed[b], why its row may be missing
  blind,     \* history: pages that need not know of the row
  early,     \* history: notifications sent before their endpoint changed hands
  seen       \* history: notifications shown to another than the one they are for,
             \* although nothing of this explains it

pvars == <<rows, at, mute, shown, doing, left, wanted, why, synced, lapsed, blind, early, seen>>

NoMute == [level |-> "nothing", until |-> "ever"]
Levels == {"all", "mentions_only", "mentions_and_everyone", "nothing"}
Until == {"ever", "later", "past"}
Row(u, e) == [user |-> u, ep |-> e]
Of(u) == SelectSeq(rows, LAMBDA r : r.user = u)
Live(e) == at[e[1]].up /\ at[e[1]].n = e[2]

PTypeOK ==
  /\ \A i \in DOMAIN rows : rows[i].user \in Person /\ rows[i].ep \in Browser \X (1..3)
  /\ \A b \in Browser : at[b] \in [user : Person \cup {Nobody}, n : 0..3, up : BOOLEAN, ok : BOOLEAN]
  /\ mute \in [Person -> [level : Levels, until : Until]]
  /\ shown \in [Browser -> [level : Levels, until : Until]] /\ wanted \in [Person -> Levels]

PInit ==
  /\ left \in Limits /\ rows = <<>> /\ doing = {} /\ seen = {} /\ synced = {} /\ blind = {} /\ early = {}
  /\ at = [b \in Browser |-> [user |-> Nobody, n |-> 0, up |-> FALSE, ok |-> left.ok]]
  /\ mute = [u \in Person |-> NoMute] /\ shown = [b \in Browser |-> NoMute]
  /\ wanted = [u \in Person |-> "nothing"] /\ why = [u \in Person |-> {}]
  /\ lapsed = [b \in Browser |-> {}]

(* under: how much is under way when one more thing is done.                   *)
Spend(what) == left[what] > 0 /\ Cardinality(doing) <= left.under /\ left' = [left EXCEPT ![what] = @ - 1]
Start(t) == doing' = doing \cup {t @@ [id |-> left]}
Then(t, new) == doing' = (doing \ {t}) \cup new
Lost(t) == Spend("fails") /\ Then(t, {})
Subscriptions == <<rows, at, synced, lapsed, early, seen>>
Mutes == <<mute, shown, wanted, why, blind>>

----------------------------------------------------------------------------
(* The page of a user starts, after signing in or again: it loads the mutes,   *)
(* and its banner registers the endpoint that the browser has, or a new one.   *)
(* A rejected request is not repeated.                                         *)
Forgets(b) == {IF t.op = "mute" /\ t.b = b THEN [t EXCEPT !.menu = FALSE] ELSE t :
                 t \in {x \in doing : x.op \in {"load", "told", "listed"} => x.b # b}}
Begins(b, u) ==
  /\ Spend("acts") /\ at[b].user \in {u, Nobody}
  /\ LET n == IF at[b].ok /\ ~at[b].up THEN at[b].n + 1 ELSE at[b].n
     IN /\ at' = [at EXCEPT ![b].user = u, ![b].n = n, ![b].up = @ \/ at[b].ok]
        /\ doing' = Forgets(b) \cup {[op |-> "load", b |-> b, u |-> u, id |-> left]}
                               \cup IF at[b].ok THEN {[op |-> "subscribe", u |-> u, ep |-> <<b, n>>, id |-> left]} ELSE {}
        /\ synced' = IF n = at[b].n THEN synced ELSE synced \ {b}
  /\ shown' = [shown EXCEPT ![b] = NoMute] /\ blind' = blind \ {b}
  /\ UNCHANGED <<rows, lapsed, early, seen, mute, wanted, why>>

(* Signing out reloads the page, which forgets its requests but not those that *)
(* the server has; nothing takes the endpoint back (no caller of /unsubscribe). *)
SignOut(b) ==
  /\ Spend("acts") /\ at[b].user # Nobody
  /\ at' = [at EXCEPT ![b].user = Nobody] /\ shown' = [shown EXCEPT ![b] = NoMute]
  /\ doing' = Forgets(b)
  /\ synced' = synced \ {b} /\ UNCHANGED <<rows, lapsed, early, seen, mute, wanted, why, blind>>

(* The browser drops its endpoint: its data is cleared or the service ends it. *)
Cut(b) ==
  /\ Spend("acts") /\ at[b].up /\ at' = [at EXCEPT ![b].up = FALSE]
  /\ synced' = synced \ {b} /\ UNCHANGED <<rows, lapsed, early, seen, doing, Mutes>>

Registered(r) == Append(SelectSeq(rows, LAMBDA x : x.ep # r.ep), r)
Subscribe(t) ==
  /\ t.op = "subscribe"
  /\ LET b == t.ep[1] IN
     \/ /\ rows' = Registered(Row(t.u, t.ep)) /\ left' = left
        /\ Then(t, {[op |-> "trim", u |-> t.u, id |-> t.id]})
        /\ synced' = IF at[b].user = t.u /\ Live(t.ep) THEN synced \cup {b} ELSE synced
        /\ lapsed' = IF ~Live(t.ep) THEN lapsed
                     ELSE [lapsed EXCEPT ![b] = IF at[b].user = t.u THEN {} ELSE @ \cup {"late"}]
        /\ early' = early \cup {x \in doing : x.op = "show" /\ x.ep = t.ep}
     \/ Lost(t) /\ UNCHANGED <<rows, synced, lapsed, early>>
  /\ UNCHANGED <<at, seen, Mutes>>

Kept_Any(u) == IF Len(rows) <= MaxRows THEN rows ELSE SubSeq(rows, Len(rows) - MaxRows + 1, Len(rows))
Kept(u) ==
  LET mine == Of(u)  over == Len(mine) - MaxRows
  IN SelectSeq(rows, LAMBDA r : r.user # u \/ over <= 0 \/ r \notin ToSet(SubSeq(mine, 1, over)))
Removed(new, cause, due) ==
  /\ rows' = new
  /\ lapsed' = [b \in Browser |-> IF \E r \in due \ ToSet(new) : r.ep[1] = b /\ Live(r.ep)
                                  THEN lapsed[b] \cup {cause} ELSE lapsed[b]]
Trim(t) == /\ t.op = "trim" /\ Then(t, {})
           /\ Removed(Kept(t.u), "limit", IF Len(Of(t.u)) > MaxRows THEN ToSet(Of(t.u)) ELSE {})
           /\ UNCHANGED <<at, synced, early, seen, left, Mutes>>

(* Once a day: rows not renewed for 30 days.                                   *)
Sweep == /\ Spend("times") /\ rows # <<>> /\ Removed(Tail(rows), "old", {Head(rows)})
         /\ UNCHANGED <<at, synced, early, seen, doing, Mutes>>

----------------------------------------------------------------------------
(* The menu of a chat, or the button of a notification, which the page does    *)
(* not learn of.  An end may pass.  The request may fail; and its answer may be *)
(* lost when the row is written: then the page keeps what it knew.             *)
Choose(b, l, until, menu) ==
  /\ Spend("mutes") /\ at[b].user # Nobody /\ (until # "ever" => l # "nothing")
  /\ IF menu THEN \A t \in doing : t.op = "told" \/ (t.op = "mute" /\ t.menu) => t.b # b
             ELSE l = "all" /\ until = "later"
  /\ Start([op |-> "mute", b |-> b, u |-> at[b].user, row |-> [level |-> l, until |-> until], menu |-> menu])
  /\ UNCHANGED <<Subscriptions, Mutes>>
Crossed(t, b) == \E x \in doing \ {t} : x.op \in {"load", "listed"} /\ x.b = b
Mute(t) ==
  /\ t.op = "mute"
  /\ \/ /\ mute' = [mute EXCEPT ![t.u] = t.row] /\ wanted' = [wanted EXCEPT ![t.u] = t.row.level]
        /\ why' = [why EXCEPT ![t.u] = {}]
        /\ \E heard \in {TRUE, ~t.menu} :
             /\ IF heard THEN left' = left ELSE Spend("fails")
             /\ Then(t, IF t.menu /\ heard THEN {[op |-> "told", b |-> t.b, row |-> t.row, id |-> t.id]} ELSE {})
             /\ blind' = blind \cup {b \in Browser : at[b].user = t.u
                                                    /\ (b # t.b \/ ~t.menu \/ ~heard \/ Crossed(t, b))}
     \/ Lost(t) /\ UNCHANGED <<mute, wanted, why, blind>>
  /\ UNCHANGED <<Subscriptions, shown>>
Pass(u) == /\ Spend("times") /\ mute[u].until = "later" /\ mute' = [mute EXCEPT ![u].until = "past"]
           /\ why' = [why EXCEPT ![u] = @ \cup {"over"}]
           /\ shown' = [b \in Browser |-> IF shown[b].until = "later" /\ at[b].user = u
                                         THEN [shown[b] EXCEPT !.until = "past"] ELSE shown[b]]
           /\ doing' = {IF t.op \in {"told", "listed"} /\ t.row.until = "later" /\ at[t.b].user = u
                        THEN [t EXCEPT !.row.until = "past"] ELSE t : t \in doing}
           /\ UNCHANGED <<Subscriptions, wanted, blind>>
Told(t) == /\ t.op = "told" /\ Then(t, {}) /\ left' = left
           /\ shown' = [shown EXCEPT ![t.b] = t.row] /\ UNCHANGED <<Subscriptions, mute, wanted, why, blind>>

(* The list leaves out a row that is over, and deletes it afterwards by its    *)
(* key, whatever the row has become.                                           *)
InForce(r) == IF r.until = "past" THEN NoMute ELSE r
Clean(u, r, id) == IF r.until = "past" THEN {[op |-> "clean", u |-> u, id |-> id]} ELSE {}
Load(t) ==
  /\ t.op = "load"
  /\ \/ /\ Then(t, Clean(t.u, mute[t.u], t.id) \cup {[op |-> "listed", b |-> t.b, row |-> InForce(mute[t.u]), id |-> t.id]})
        /\ left' = left /\ blind' = blind
     \/ Lost(t) /\ blind' = blind \cup {t.b}
  /\ UNCHANGED <<Subscriptions, mute, shown, wanted, why>>
Listed(t) == /\ t.op = "listed" /\ Then(t, {}) /\ left' = left
             /\ shown' = [shown EXCEPT ![t.b] = t.row] /\ UNCHANGED <<Subscriptions, mute, wanted, why, blind>>
CleanUp(t) ==
  /\ t.op = "clean" /\ Then(t, IF "then" \in DOMAIN t THEN {t.then} ELSE {}) /\ left' = left
  /\ mute' = [mute EXCEPT ![t.u] = NoMute]
  /\ why' = IF mute[t.u].until = "past" THEN why ELSE [why EXCEPT ![t.u] = @ \cup {"swept"}]
  /\ blind' = IF mute[t.u].until = "past" THEN blind ELSE blind \cup {b \in Browser : at[b].user = t.u}
  /\ UNCHANGED <<Subscriptions, shown, wanted>>

----------------------------------------------------------------------------
(* A message for u, which mentions u, everyone or nobody; one of a direct chat *)
(* counts as a mention: the row, then the endpoints, then every endpoint for    *)
(* itself; one that is gone is deleted.                                        *)
Message(u, mention) ==
  /\ Spend("msgs") /\ Start([op |-> "check", u |-> u, mention |-> mention])
  /\ UNCHANGED <<Subscriptions, Mutes>>
Passing(level) == CASE level = "nothing" -> {"me", "everyone", "none"} [] level = "all" -> {}
                    [] level = "mentions_only" -> {"me"} [] OTHER -> {"me", "everyone"}
Silent(r, mention) == mention \notin Passing(InForce(r).level)
Check(t) ==
  /\ t.op = "check" /\ left' = left
  /\ LET r == mute[t.u]  go == [op |-> "select", u |-> t.u, id |-> t.id] IN
     Then(t, IF r.until = "past" THEN {[op |-> "clean", u |-> t.u, then |-> go, id |-> t.id]}
             ELSE IF Silent(r, t.mention) THEN {} ELSE {go})
  /\ UNCHANGED <<Subscriptions, Mutes>>
Select(t) ==
  /\ t.op = "select" /\ left' = left
  /\ Then(t, {[op |-> "show", u |-> t.u, ep |-> r.ep, id |-> t.id] : r \in ToSet(Of(t.u))})
  /\ UNCHANGED <<Subscriptions, Mutes>>
Seen(t, b) == IF at[b].user \in {t.u, Nobody} \/ b \notin synced \/ lapsed[b] # {} \/ t \in early
              THEN seen ELSE seen \cup {b}
Show(t) ==
  /\ t.op = "show" /\ left' = left /\ Then(t, {})
  /\ IF Live(t.ep)
     THEN seen' = Seen(t, t.ep[1]) /\ UNCHANGED <<rows, lapsed>>
     ELSE Removed(SelectSeq(rows, LAMBDA r : r.ep # t.ep), "gone", {}) /\ seen' = seen
  /\ early' = early \ {t} /\ UNCHANGED <<at, synced, Mutes>>

(* What the server goes on with after its answer, or without one, may fail.    *)
Fails(t) == /\ t.op \in {"trim", "clean", "check", "select", "show"} /\ Lost(t)
            /\ early' = early \ {t} /\ UNCHANGED <<rows, at, synced, lapsed, seen, Mutes>>

PNext ==
  \/ \E b \in Browser : \/ SignOut(b) \/ Cut(b) \/ \E u \in Person : Begins(b, u)
                        \/ \E l \in Levels, e \in {"ever", "later"}, m \in BOOLEAN : Choose(b, l, e, m)
  \/ \E u \in Person : Pass(u) \/ \E m \in {"me", "everyone", "none"} : Message(u, m)
  \/ Sweep
  \/ \E t \in doing : \/ Subscribe(t) \/ Trim(t) \/ Mute(t) \/ Told(t) \/ Load(t) \/ Listed(t)
                      \/ CleanUp(t) \/ Check(t) \/ Select(t) \/ Show(t) \/ Fails(t)
PSpec == PInit /\ [][PNext]_pvars

(* The row is what the user chose last (notificationRoutes.js), until its end; *)
(* only a cleanup that found an older row over may take it away.               *)
MuteHolds == \A u \in Person : mute[u].level # wanted[u] => why[u] # {}

(* When nothing is under way the menu shows the row (notifications.svelte.js), *)
(* unless it was changed elsewhere or while another request was under way, or  *)
(* the list or the answer of the change was lost.                              *)
CopyShows ==
  doing = {} => \A b \in Browser : at[b].user # Nobody /\ b \notin blind
                                     => InForce(shown[b]) = InForce(mute[at[b].user])

(* A browser that registered is reached (pushRoutes.js), unless its user has    *)
(* too many, it was not started for long, or a request of an earlier user came *)
(* late.                                                                       *)
Reached ==
  \A b \in synced : lapsed[b] = {} => Row(at[b].user, <<b, at[b].n>>) \in ToSet(rows)

(* A browser that registered shows no notification for another user, unless it *)
(* was on its way already (pushSend.js).                                       *)
ShownToItsUser == seen = {}

NoticesInOrder == MuteHolds /\ CopyShows /\ Reached /\ ShownToItsUser
=============================================================================

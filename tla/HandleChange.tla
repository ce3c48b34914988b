---------------------------- MODULE HandleChange ----------------------------
(* A guest takes an account (src/frontend/src/lib/guestConvert.js, App.svelte  *)
(* 131-345): the server renames the guest in its rows and moves the wrapped    *)
(* key (/invite/convert), and both browsers rename the keys they keep by       *)
(* handle (lib/handleMigration.js), in a chat of two or in a group. The        *)
(* conversion is asked for at two places of the page, by the effect on the     *)
(* session's state and by the bootstrap; pages close, answers are lost, the    *)
(* other side is away, and either side may need the key meanwhile.             *)
EXTENDS FiniteSets, Naturals

CONSTANT MaxTrips      \* bound: closings, failed checks and loads, lost answers and pushes

VARIABLES kind,        \* "dm": the chat with the inviter; "group"
          server,      \* acct, moved (converted_to is set), dev: the account's device is published
          wrap,        \* KV, by pair: the key for the other's device and the device that wrapped it
          lent,        \* the key in KV for the account's device
          user,        \* localStorage my_user
          pend,        \* sessionStorage pendingGuestConvert
          page,        \* the guest's page; boot: as whom it was bootstrapped, ws: as whom it is connected
          call,        \* the two places that convert, and how far each is
          key,         \* side -> name of the guest -> key kept under it
          map,         \* side -> name under which the rotation map lies
          other,       \* the other's page; step of the renaming
          devs,        \* the other's cache: name -> devices
          wire,        \* pushed to a page and not handled
          why, trips   \* what may have cost a key; events against the bound

pageVars == <<user, pend, page>>
kv == <<wrap, lent>>
vars == <<kind, server, kv, pageVars, call, key, map, other, devs, wire, why, trips>>

Sides == {"mine", "peer"}
Names == {"guest", "real"}
Places == {"boot", "effect"}
Slots == Places \cup {"adrift"}      \* the request of a page that was closed
NoWrap == <<>>
Closed == [up |-> FALSE, boot |-> "none", sess |-> "none", tried |-> FALSE, ws |-> "none",
           enrolled |-> FALSE, refused |-> FALSE]
Away == [up |-> FALSE, step |-> "idle", refused |-> FALSE]
(* Where the old messages stand: both hold the key, or one does and the other  *)
(* has not fetched it yet; a chat of two has been rotated (without a rotation  *)
(* map there is only less to rename). What the other does before the           *)
(* conversion only chooses among these states.                                 *)
Init == /\ kind \in {"dm", "group"}
        /\ server = [acct |-> FALSE, moved |-> FALSE, dev |-> FALSE]
        /\ \E held \in {{"mine"}, {"peer"}, Sides} :
             /\ kind = "group" => "mine" \in held
             /\ key = [s \in Sides |-> [n \in Names |-> IF n = "guest" /\ s \in held THEN "K" ELSE "none"]]
             /\ map = [s \in Sides |-> IF kind = "dm" /\ s \in held THEN "guest" ELSE "none"]
             /\ \E w \in {NoWrap, <<"guest", "K">>} :
                  /\ w # NoWrap => kind = "dm" /\ "mine" \in held
                  /\ wrap = [guest |-> w, real |-> NoWrap]
             /\ devs = [n \in Names |-> IF n = "guest" /\ "peer" \in held THEN {"guest"} ELSE {}]
        /\ lent = "none"
        /\ user = "guest" /\ pend = TRUE
        /\ page = [Closed EXCEPT !.up = TRUE, !.boot = "guest", !.sess = "checking", !.ws = "guest"]
        /\ call = [c \in Slots |-> "idle"]
        /\ other \in {Away, [Away EXCEPT !.up = TRUE]}
        /\ wire = {} /\ why = {} /\ trips = 0

Trip == trips < MaxTrips /\ trips' = trips + 1
Put(side, name, k) == key' = [key EXCEPT ![side][name] = k]
Blame(x) == why' = why \cup {x}
Goes(c, to) == call' = [call EXCEPT ![c] = to]
(* A push reaches a page that runs under the name, unless its socket is down    *)
(* (or not up yet) or the push fails, which the code ignores.                  *)
Runs(side) == IF side = "peer" THEN other.up ELSE page.up /\ page.ws = "real"
Reaches(side, what, queue) ==
  \/ /\ wire' = IF Runs(side) THEN queue \cup {<<side, what>>} ELSE queue
     /\ UNCHANGED trips
  \/ Trip /\ Runs(side) /\ wire' = queue
Push(side, what) == Reaches(side, what, wire)

-----------------------------------------------------------------------------
(* The guest's page                                                            *)

(* A page whose my_user is the account's name bootstraps as the account and,   *)
(* with a conversion pending, asks for it first; one that still has the        *)
(* guest's name skips it.                                                      *)
Load == /\ ~page.up
        /\ page' = [Closed EXCEPT !.up = TRUE, !.sess = "checking", !.boot = user,
                                  !.ws = IF user = "guest" THEN "guest" ELSE "none"]
        /\ IF user = "real" /\ pend THEN Goes("boot", "asked") ELSE UNCHANGED call
        /\ UNCHANGED <<kind, server, kv, user, pend, key, map, other, devs, wire, why, trips>>

(* Closing the page leaves a request that the server has to the server.        *)
Leave == /\ Trip /\ page.up
         /\ page' = Closed
         /\ \E c \in Slots : call' = [d \in Slots |-> IF d = "adrift" /\ call[c] \in {"asked", "pass"}
                                                     THEN call[c] ELSE "idle"]
         /\ IF \E c \in Slots : call[c] \in {"asked", "pass", "ok", "key", "map", "mapOnly"}
            THEN Blame("closed") ELSE UNCHANGED why
         /\ wire' = {w \in wire : w[1] = "peer"}
         /\ UNCHANGED <<kind, server, kv, user, pend, key, map, other, devs>>

(* The state of the session becomes "authed": the effect converts, once a page.*)
Effect(p, pd) ==
  IF p.sess = "authed" /\ pd /\ ~p.tried
  THEN /\ page' = [p EXCEPT !.tried = TRUE]
       /\ Goes("effect", "asked")
  ELSE page' = p /\ UNCHANGED call

(* sessionStore.check: the account's cookie, a guest's session, an expired one *)
(* (which takes the app down), or no answer: logged in is what my_user says.   *)
Check == /\ page.up /\ page.sess = "checking"
         /\ \/ /\ server.acct
               /\ user' = "real"
               /\ Effect([page EXCEPT !.sess = "authed"], pend)
               /\ UNCHANGED trips
            \/ /\ ~server.acct
               /\ \/ user' = user /\ page' = [page EXCEPT !.sess = "guest"]
                  \/ user' = "none" /\ page' = [page EXCEPT !.sess = "anon", !.boot = "none", !.ws = "none"]
               /\ UNCHANGED <<call, trips>>
            \/ /\ Trip
               /\ user' = user
               /\ Effect([page EXCEPT !.sess = IF user = "none" THEN "anon" ELSE "authed"], pend)
         /\ UNCHANGED <<kind, server, kv, pend, key, map, other, devs, wire, why>>

(* The guest registers a passkey in the login form ...                         *)
Enrol == /\ page.up /\ ~server.acct /\ user # "real"
         /\ server' = [server EXCEPT !.acct = TRUE]
         /\ page' = [page EXCEPT !.enrolled = TRUE]
         /\ UNCHANGED <<kind, kv, user, pend, call, key, map, other, devs, wire, why, trips>>

(* ... and the form sets the user: a page that was taken down bootstraps (and  *)
(* asks for the conversion), one that runs as the guest does not. Then the     *)
(* session is checked again.                                                   *)
SignedIn == /\ page.up /\ page.enrolled /\ user # "real"
            /\ user' = "real"
            /\ page' = [page EXCEPT !.enrolled = FALSE, !.sess = "checking",
                                    !.boot = IF @ = "none" THEN "real" ELSE @]
            /\ IF page.boot = "none" /\ pend THEN Goes("boot", "asked") ELSE UNCHANGED call
            /\ UNCHANGED <<kind, server, kv, pend, key, map, other, devs, wire, why, trips>>

(* The end of the bootstrap of the account: connected, the device published.   *)
Publish == /\ page.up /\ page.boot = "real" /\ page.ws # "real" /\ call["boot"] = "idle"
           /\ page' = [page EXCEPT !.ws = "real"]
           /\ server' = [server EXCEPT !.dev = TRUE]
           /\ UNCHANGED <<kind, kv, user, pend, call, key, map, other, devs, wire, why, trips>>

-----------------------------------------------------------------------------
(* POST /invite/convert                                                        *)

(* The session must be the account's and the guest's row not converted.        *)
Admit(c) == /\ call[c] = "asked"
            /\ Goes(c, IF server.acct /\ ~server.moved THEN "pass" ELSE "no")
            /\ UNCHANGED <<kind, server, kv, pageVars, key, map, other, devs, wire, why, trips>>

MovedWrap == [guest |-> NoWrap,
              real |-> IF wrap["real"] = NoWrap THEN wrap["guest"] ELSE wrap["real"]]

(* Rows, members and contacts get the new name; the wrap moves unless there is *)
(* a newer one, or the move fails; the other is told, if the push arrives;     *)
(* converted_to is written.                                                    *)
Convert(c) ==
  /\ call[c] = "pass"
  /\ server' = [server EXCEPT !.moved = TRUE]
  /\ wrap' \in {wrap, MovedWrap}
  /\ Push("peer", "GUEST_CONVERTED")
  /\ IF <<"peer", "GUEST_CONVERTED">> \notin wire' /\ (kind = "group" \/ other.up)
     THEN Blame("missed") ELSE UNCHANGED why
  /\ Goes(c, "ok")
  /\ UNCHANGED <<kind, lent, pageVars, key, map, other, devs>>

(* The answer: refused, or the pending note is dropped and the keys are        *)
(* renamed. The bootstrap hands migrateMyHandle the token in place of the      *)
(* guest's handle: no key has that name.                                       *)
Answered(c) ==
  /\ \/ /\ call[c] = "no"
        /\ Goes(c, "idle")
        /\ UNCHANGED <<pend, why>>
     \/ /\ call[c] = "ok"
        /\ pend' = FALSE
        /\ IF c = "effect" THEN Goes(c, "key") /\ UNCHANGED why
           ELSE Goes(c, "share") /\ Blame("token")
  /\ UNCHANGED <<kind, server, kv, user, page, key, map, other, devs, wire, trips>>

(* The answer to a closed page is not read.                                    *)
Unread == /\ call["adrift"] \in {"ok", "no"}
          /\ Goes("adrift", "idle")
          /\ UNCHANGED <<kind, server, kv, pageVars, key, map, other, devs, wire, why, trips>>

(* The answer does not come: the note stays, the next page asks again.         *)
AnswerLost(c) ==
  /\ Trip /\ call[c] = "ok"
  /\ Goes(c, "idle") /\ Blame("lost")
  /\ UNCHANGED <<kind, server, kv, pageVars, key, map, other, devs, wire>>

-----------------------------------------------------------------------------
(* handleMigration.js: an entry moves to the new name; where that name has an  *)
(* entry already, the old one is deleted.                                      *)
Renamed(old, new) == IF new = "none" THEN old ELSE new
MoveEntry(s) ==
  key' = [key EXCEPT ![s] = [n \in Names |-> IF n = "guest" THEN "none"
                                             ELSE Renamed(key[s]["guest"], key[s]["real"])]]
MoveMap(s) == map' = [map EXCEPT ![s] = IF @ = "guest" THEN "real" ELSE @]

(* migrateMyHandle: the keys ...                                               *)
MyKeys == /\ call["effect"] = "key"
          /\ IF key["mine"]["guest"] = "none"
             THEN /\ Goes("effect", "share") /\ UNCHANGED <<key, why>>
             ELSE /\ MoveEntry("mine")
                  /\ Goes("effect", IF key["mine"]["real"] = "none" THEN "map" ELSE "mapOnly")
                  /\ IF key["mine"]["real"] = "none" THEN UNCHANGED why ELSE Blame("early")
          /\ UNCHANGED <<kind, server, kv, pageVars, map, other, devs, wire, trips>>

(* ... and what belongs to the pairs of the keys just listed.                  *)
MyMaps == /\ call["effect"] \in {"map", "mapOnly"}
          /\ MoveMap("mine")
          /\ Goes("effect", IF call["effect"] = "map" /\ kind = "dm" THEN "publish" ELSE "share")
          /\ UNCHANGED <<kind, server, kv, pageVars, key, other, devs, wire, why, trips>>

(* republishCMKForPeer: a fresh wrap under the new pair, by a device the other *)
(* can know only once it is published. It may fail.                            *)
Republish == /\ call["effect"] = "publish"
             /\ \/ wrap' = [wrap EXCEPT !["real"] = <<"real", key["mine"]["real"]>>]
                \/ wrap' = wrap
             /\ Goes("effect", "share")
             /\ UNCHANGED <<kind, server, lent, pageVars, key, map, other, devs, wire, why, trips>>

(* The effect reconnects under the new name; then, in a group, the sender key  *)
(* is given to the members.                                                    *)
Share(c) == /\ call[c] = "share"
            /\ page' = IF c = "effect" THEN [page EXCEPT !.ws = "real"] ELSE page
            /\ IF kind = "group" /\ key["mine"]["real"] # "none"
               THEN Push("peer", key["mine"]["real"]) ELSE UNCHANGED <<wire, trips>>
            /\ Goes(c, "idle")
            /\ UNCHANGED <<kind, server, kv, user, pend, key, map, other, devs, why>>

-----------------------------------------------------------------------------
(* The account needs a key: it sends, or opens an old message.                 *)

(* ensureSecureDmSession: the local key, the wrap for this device, and in a    *)
(* pair without messages (the old ones have not moved yet) a new key; else the *)
(* other is asked. ensureMyGSK makes a new sender key.                         *)
Need == /\ page.up /\ user = "real" /\ key["mine"]["real"] = "none"
        /\ \/ /\ kind = "dm" /\ lent # "none"
              /\ Put("mine", "real", lent)
              /\ UNCHANGED <<wire, why, trips>>
           \/ /\ kind = "dm" /\ lent = "none" /\ server.moved /\ ~page.refused
              /\ Push("peer", "cmk_req")
              /\ UNCHANGED <<key, why>>
           \/ /\ kind = "dm" /\ lent = "none" /\ ~server.moved
              /\ Put("mine", "real", "N") /\ Blame("early")
              /\ UNCHANGED <<wire, trips>>
           \/ /\ kind = "group"
              /\ Put("mine", "real", "N") /\ Blame("early")
              /\ IF server.moved THEN Push("peer", "N") ELSE UNCHANGED <<wire, trips>>
        /\ UNCHANGED <<kind, server, kv, pageVars, call, map, other, devs>>

(* Asked by the other: cmk_req is answered with a wrap or "unavailable",       *)
(* request_gsk with the sender key, a new one if there is none.                *)
Asked == /\ <<"mine", "ask">> \in wire
         /\ LET left == wire \ {<<"mine", "ask">>}
                have == key["mine"]["real"] IN
            IF kind = "dm"
            THEN /\ wrap' = IF have = "none" THEN wrap ELSE [wrap EXCEPT !["real"] = <<"real", have>>]
                 /\ IF have = "none" THEN Reaches("peer", "unavailable", left) ELSE wire' = left /\ UNCHANGED trips
                 /\ IF have = "none" /\ key["mine"]["guest"] # "none" THEN Blame("asked") ELSE UNCHANGED why
                 /\ UNCHANGED key
            ELSE /\ IF have = "none" THEN Put("mine", "real", "N") /\ Blame("early") ELSE UNCHANGED <<key, why>>
                 /\ Reaches("peer", IF have = "none" THEN "N" ELSE have, left)
                 /\ UNCHANGED wrap
         /\ UNCHANGED <<kind, server, lent, pageVars, call, map, other, devs>>

(* cmk_unavailable counts when there is no key: this page asks no more.        *)
Refused == /\ <<"mine", "unavailable">> \in wire
           /\ wire' = wire \ {<<"mine", "unavailable">>}
           /\ page' = [page EXCEPT !.refused = @ \/ key["mine"]["real"] = "none"]
           /\ UNCHANGED <<kind, server, kv, user, pend, call, key, map, other, devs, why, trips>>

-----------------------------------------------------------------------------
(* The other's page                                                            *)

(* It loads its contacts: a contact with previous_handle is renamed here too   *)
(* (a group has no such catching up). The request may fail.                    *)
CatchUp_Never == "idle"                                                         \* slip
CatchUp == IF server.moved /\ kind = "dm" THEN "key" ELSE "idle"
Loaded(o) == /\ other' = [o EXCEPT !.step = CatchUp]
             /\ why' = IF kind = "dm" THEN why \ {"missed", "unloaded"} ELSE why
OtherLoads == /\ server.moved /\ ~other.up
              /\ LET o == [Away EXCEPT !.up = TRUE] IN
                 \/ Loaded(o) /\ UNCHANGED trips
                 \/ Trip /\ other' = o /\ Blame("unloaded")
              /\ UNCHANGED <<kind, server, kv, pageVars, call, key, map, devs, wire>>
(* It comes to the foreground again and loads them, or one of the events about *)
(* contacts arrives; a reconnect of the socket alone loads nothing.            *)
OtherRefreshes == /\ server.moved /\ other.up /\ other.step = "idle"
                  /\ Loaded(other)
                  /\ UNCHANGED <<kind, server, kv, pageVars, call, key, map, devs, wire, trips>>

OtherLeaves == /\ Trip /\ server.moved /\ other.up
               /\ other' = Away
               /\ wire' = {w \in wire : w[1] = "mine"}
               /\ IF kind = "group" /\ (other.step # "idle" \/ <<"peer", "GUEST_CONVERTED">> \in wire)
                  THEN Blame("missed") ELSE UNCHANGED why
               /\ UNCHANGED <<kind, server, kv, pageVars, call, key, map, devs>>

(* GUEST_CONVERTED starts the renaming.                                        *)
Told == /\ <<"peer", "GUEST_CONVERTED">> \in wire
        /\ wire' = wire \ {<<"peer", "GUEST_CONVERTED">>}
        /\ other' = [other EXCEPT !.step = "key"]
        /\ UNCHANGED <<kind, server, kv, pageVars, call, key, map, devs, why, trips>>

(* migratePeerHandle: the key and the device list, then the rotation map.      *)
OtherKeys == /\ other.step = "key"
             /\ MoveEntry("peer")
             /\ IF key["peer"]["guest"] # "none" /\ key["peer"]["real"] \notin {"none", key["peer"]["guest"]}
                THEN Blame("early") ELSE UNCHANGED why
             /\ devs' = [n \in Names |-> IF n = "guest" THEN {}
                                         ELSE IF devs["real"] = {} THEN devs["guest"] ELSE devs["real"]]
             /\ other' = [other EXCEPT !.step = "map"]
             /\ UNCHANGED <<kind, server, kv, pageVars, call, map, wire, trips>>
OtherMaps == /\ other.step = "map"
             /\ MoveMap("peer")
             /\ other' = [other EXCEPT !.step = "idle"]
             /\ UNCHANGED <<kind, server, kv, pageVars, call, key, devs, wire, why, trips>>

(* The device list of the account, as the server has it now.                   *)
Listed == IF server.dev THEN {"real"} ELSE {}
(* The wrap that /e2e/cmk/fetch finds: of the pair, else of the pair of the    *)
(* previous handle, which it then moves.                                       *)
Found == IF wrap["real"] # NoWrap THEN wrap["real"] ELSE wrap["guest"]

(* The other opens a message of the renamed guest: without a key it takes the  *)
(* wrap, if it knows the device that made it or the list names that device ... *)
Open == /\ kind = "dm" /\ other.up /\ server.moved
        /\ key["peer"]["real"] = "none" /\ Found # NoWrap
        /\ LET by == Found[1] IN
           /\ devs' = IF by \in devs["real"] THEN devs ELSE [devs EXCEPT !["real"] = Listed]
           /\ IF by \in devs'["real"] THEN Put("peer", "real", Found[2]) ELSE UNCHANGED key
        /\ wrap' = MovedWrap
        /\ UNCHANGED <<kind, server, lent, pageVars, call, map, other, wire, why, trips>>

(* ... and asks when that fails; in a group it asks at once.                   *)
Ask == /\ other.up /\ ~other.refused /\ server.moved /\ key["peer"]["real"] = "none"
       /\ kind = "dm" /\ Found # NoWrap => Found[1] \notin devs["real"] \cup Listed
       /\ Push("mine", "ask")
       /\ UNCHANGED <<kind, server, kv, pageVars, call, key, map, other, devs, why>>

(* cmk_req: the other wraps the key it has under the new name for the devices  *)
(* of the account that are published, or says that it has none.                *)
OtherAsked ==
  /\ <<"peer", "cmk_req">> \in wire
  /\ LET left == wire \ {<<"peer", "cmk_req">>}
         have == key["peer"]["real"] IN
     IF have = "none"
     THEN /\ Reaches("mine", "unavailable", left)
          /\ IF key["peer"]["guest"] # "none" \/ Found # NoWrap THEN Blame("asked") ELSE UNCHANGED why
          /\ UNCHANGED <<lent, devs>>
     ELSE /\ lent' = IF server.dev THEN have ELSE lent
          /\ devs' = [devs EXCEPT !["real"] = Listed]
          /\ wire' = left
          /\ UNCHANGED <<why, trips>>
  /\ UNCHANGED <<kind, server, wrap, pageVars, call, key, map, other>>

OtherRefused == /\ <<"peer", "unavailable">> \in wire
                /\ wire' = wire \ {<<"peer", "unavailable">>}
                /\ other' = [other EXCEPT !.refused = @ \/ key["peer"]["real"] = "none"]
                /\ UNCHANGED <<kind, server, kv, pageVars, call, key, map, devs, why, trips>>

(* handleIncomingGSKMessage: the sender's device must be known or listed.      *)
GetsSenderKey(k) ==
  /\ <<"peer", k>> \in wire /\ k \in {"K", "N"}
  /\ wire' = wire \ {<<"peer", k>>}
  /\ devs' = IF "real" \in devs["real"] THEN devs ELSE [devs EXCEPT !["real"] = Listed]
  /\ IF "real" \in devs'["real"] THEN Put("peer", "real", k) ELSE UNCHANGED key
  /\ UNCHANGED <<kind, server, kv, pageVars, call, map, other, why, trips>>

Next == \/ Load \/ Leave \/ Check \/ Enrol \/ SignedIn \/ Publish
        \/ \E c \in Slots : Admit(c) \/ Convert(c)
        \/ \E c \in Places : Answered(c) \/ AnswerLost(c) \/ Share(c)
        \/ Unread
        \/ MyKeys \/ MyMaps \/ Republish \/ Need \/ Asked \/ Refused
        \/ OtherLoads \/ OtherRefreshes \/ OtherLeaves \/ Told \/ OtherKeys \/ OtherMaps
        \/ Open \/ Ask \/ OtherAsked \/ OtherRefused
        \/ \E k \in {"K", "N"} : GetsSenderKey(k)
-----------------------------------------------------------------------------
TypeOK == /\ kind \in {"dm", "group"}
          /\ server \in [acct : BOOLEAN, moved : BOOLEAN, dev : BOOLEAN]
          /\ wrap \in [Names -> {NoWrap} \cup ({"guest", "real"} \X {"K", "N"})]
          /\ lent \in {"none", "K", "N"}
          /\ user \in {"none", "guest", "real"} /\ pend \in BOOLEAN
          /\ call \in [Slots -> {"idle", "asked", "pass", "ok", "no", "key", "map", "mapOnly", "publish", "share"}]
          /\ key \in [Sides -> [Names -> {"none", "K", "N"}]]
          /\ map \in [Sides -> {"none"} \cup Names]
          /\ devs \in [Names -> SUBSET {"guest", "real"}]
          /\ why \subseteq {"closed", "token", "lost", "early", "asked", "missed", "unloaded"}

(* The conversion is over: nothing is being asked, renamed or handled.         *)
Quiet == /\ server.moved /\ wire = {}
         /\ \A c \in Slots : call[c] = "idle"
         /\ other.step = "idle"

(* After the conversion no key and no rotation map is left under the guest's   *)
(* name: at the other's open page only if the event was missed or the contacts *)
(* could not be loaded, in a chat of two only until they are loaded again; at  *)
(* the converted browser only if its page was closed meanwhile, the answer was *)
(* lost, or the bootstrap converted.                                           *)
LeftBehind(s) == key[s]["guest"] # "none" \/ map[s] = "guest"
KeysFollow ==
  Quiet => /\ LeftBehind("mine") => why \cap {"closed", "lost", "token"} # {}
           /\ LeftBehind("peer") => ~other.up \/ why \cap {"missed", "unloaded"} # {}

(* Afterwards both sides hold one key for the chat, unless the account needed  *)
(* a key before its old one was renamed and made a new one.                    *)
SameKey == Quiet /\ (\A s \in Sides : key[s]["real"] # "none")
             => key["mine"]["real"] = key["peer"]["real"] \/ "early" \in why

(* A page gives up on a key only if the other side has none: or was asked      *)
(* before it had renamed or fetched it.                                        *)
RefusalsAreTrue ==
  \A s \in Sides :
    /\ key[s]["real"] = "none"
    /\ IF s = "mine" THEN page.refused ELSE other.refused
    /\ \E t \in Sides : key[t]["real"] # "none"
    => "asked" \in why

(* The keys follow the name through the conversion of a guest.                 *)
KeysFollowTheName == KeysFollow /\ SameKey /\ RefusalsAreTrue
=============================================================================

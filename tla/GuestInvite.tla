---------------------------- MODULE GuestInvite ----------------------------
(* One invite (a "card": the template row of guest_sessions) from its creation *)
(* to its last guest: joining, re-entering with a used long-lived card,        *)
(* accepting with an account, killing and converting a guest's session         *)
(* (src/src/routes/inviteRoutes.js), the session lookup with its KV cache      *)
(* (src/src/auth.js) and the hourly cleanup (src/src/cron.js). A request is a  *)
(* sequence of D1 and KV calls, any of which may fail: pc[job] says how far it *)
(* is; steps that touch only rows of the request itself are taken together.    *)
EXTENDS FiniteSets, Naturals, TLC

CONSTANTS Guests,     \* handles of guests, each made by one join
          User,       \* a user with an account, not the inviter
          MaxTries,   \* MAX_CODE_ATTEMPTS
          MaxActs     \* bound: requests and ends of time limits of a behaviour

VARIABLES card,       \* the template row
          org,        \* the inviter is a verified organisation
          inviterIn,  \* the inviter is a member of the group
          row,        \* guest -> its row of guest_sessions
          late,       \* guests whose expires_at of the join has passed
          cache,      \* guests with guest_session:<token> in KV
          inbox,      \* guests with an E2E key in KV
          members,    \* conversation_members, without the inviter
          contact,    \* handle -> status of the contact pair with the inviter
          pc, snap,   \* requests, and the template row each has read
          wrong,      \* number of wrong codes tried
          redeemed,   \* handles that were let in by the card
          raced,      \* two requests about the card or one session overlapped
          broken,     \* guests whose join or whose session's end broke off
          acts        \* requests and ends of time limits so far

world == <<card, org, inviterIn>>
inside == <<inbox, members, contact>>
ghost == <<wrong, redeemed>>
vars == <<world, row, late, cache, inside, pc, snap, ghost, raced, broken>>

Redeeming == ({"join"} \X Guests) \cup ({"accept", "enter"} \X {User})
(* What ends a session: the inviter's request, or the re-entry of e[2][2].      *)
Enders == ({"kill"} \X Guests) \cup ({"relieve"} \X (Guests \X Guests))
Of(e) == IF e[1] = "kill" THEN e[2] ELSE e[2][1]
Jobs == Redeeming \cup Enders \cup ({"visit", "convert"} \X Guests)
Handles == Guests \cup {User}
NoCard == [mark |-> "none", kind |-> "dm", long |-> FALSE, coded |-> FALSE, over |-> FALSE, tries |-> 0]

Running(j) == pc[j] \notin {"idle", "done"}
Goes(j, to) == pc' = [pc EXCEPT ![j] = to]
(* Rows a lookup of the session accepts, in D1 and in KV.                      *)
Live(g) == row[g].st = "live" /\ row[g].conv = FALSE /\ g \notin late
Usable(g) == (g \in cache /\ g \notin late) \/ Live(g)
(* The card admits: a group's inviter must still be in, a long-lived card      *)
(* needs its organisation.                                                     *)
InviterStays(c) == c.kind = "dm" \/ inviterIn
Authorized(c) == c.long => org
ReEntry(c) == /\ c.mark = "used" /\ c.long /\ org
              /\ \A g \in Guests : ~row[g].conv

Init == /\ card = NoCard
        /\ org \in BOOLEAN /\ inviterIn = TRUE
        /\ row = [g \in Guests |-> [st |-> "none", conv |-> FALSE]]
        /\ late = {} /\ cache = {} /\ inbox = {} /\ members = {}
        /\ contact = [h \in Handles |-> "none"]
        /\ pc = [j \in Jobs |-> "idle"]
        /\ snap = [j \in Redeeming |-> NoCard]
        /\ wrong = 0 /\ redeemed = {} /\ raced = FALSE /\ broken = {} /\ acts = 0

(***************************************************************************)
(* The inviter and time                                                    *)
(***************************************************************************)
(* POST /invite/create, /invite/bulk: a long life and a code are for           *)
(* verified organisations; only groups are shared.                             *)
Create == \E k \in {"dm", "group"}, long, coded \in BOOLEAN :
  /\ card.mark = "none" /\ ((long \/ coded) => org)
  /\ card' = [NoCard EXCEPT !.mark = "free", !.kind = k, !.long = long, !.coded = coded]
  /\ UNCHANGED <<org, inviterIn, row, late, cache, inside, pc, snap, ghost, raced, broken>>

Revoke == /\ card.mark # "none" /\ ~card.over
          /\ card' = [card EXCEPT !.mark = "used", !.over = TRUE]
          /\ UNCHANGED <<org, inviterIn, row, late, cache, inside, pc, snap, ghost, raced, broken>>

CardExpires == /\ card.mark # "none" /\ ~card.over
               /\ card' = [card EXCEPT !.over = TRUE]
               /\ UNCHANGED <<org, inviterIn, row, late, cache, inside, pc, snap, ghost, raced, broken>>

Suspend == /\ org /\ org' = FALSE
           /\ UNCHANGED <<card, inviterIn, row, late, cache, inside, pc, snap, ghost, raced, broken>>

InviterLeaves == /\ card.kind = "group" /\ inviterIn /\ inviterIn' = FALSE
                 /\ UNCHANGED <<card, org, row, late, cache, inside, pc, snap, ghost, raced, broken>>

SessionExpires(g) == /\ row[g].st # "none" /\ g \notin late
                     /\ late' = late \cup {g}
                     /\ UNCHANGED <<world, row, cache, inside, pc, snap, ghost, raced, broken>>

(* The hourly cleanup of sessions that ended and were not converted: all        *)
(* memberships, then the contacts, which it does not come to when it breaks off.*)
Removed(gone) == [h \in Handles |-> IF h \in gone /\ contact[h] = "accepted" THEN "removed" ELSE contact[h]]
Cleanup == LET gone == {g \in Guests : /\ row[g].st = "killed" \/ (row[g].st = "live" /\ g \in late)
                                       /\ ~row[g].conv} IN
  /\ gone # {}
  /\ members' = members \ gone
  /\ contact' \in {contact, Removed(gone)}
  /\ UNCHANGED <<world, row, late, cache, inbox, pc, snap, ghost, raced, broken>>

(***************************************************************************)
(* Redeeming the card                                                      *)
(***************************************************************************)
(* The template row is read, and everything but the code checked, for join;   *)
(* join-auth looks neither at the mark nor at the inviter's membership.        *)
Admits(kind) ==
  LET c == card IN
  CASE kind = "join"   -> (c.mark = "free" \/ ReEntry(c)) /\ InviterStays(c) /\ Authorized(c)
    [] kind = "accept" -> ~(c.kind = "dm" /\ c.mark = "used") /\ InviterStays(c) /\ Authorized(c)
    [] OTHER           -> Authorized(c)

ReadCard(j) == /\ pc[j] = "idle" /\ card.mark # "none" /\ ~card.over
               /\ Admits(j[1])
               /\ Goes(j, "read")
               /\ snap' = [snap EXCEPT ![j] = card]
               /\ raced' = (raced \/ \E i \in Redeeming : Running(i))
               /\ UNCHANGED <<world, row, late, cache, inside, ghost, broken>>

(* _verifyAuthCode: the count of wrong codes is the one that was read, plus one.*)
Counted_NotForAccounts(j) == IF j[1] = "enter" THEN card.tries ELSE snap[j].tries + 1   \* slip
Counted(j) == snap[j].tries + 1
CodeWrong(j) == /\ pc[j] = "read" /\ snap[j].coded /\ snap[j].tries < MaxTries
                /\ card' = [card EXCEPT !.tries = Counted(j)]
                /\ wrong' = wrong + 1
                /\ Goes(j, "done")
                /\ UNCHANGED <<org, inviterIn, row, late, cache, inside, snap, redeemed, raced, broken>>

CodeLocked(j) == /\ pc[j] = "read" /\ snap[j].coded /\ snap[j].tries >= MaxTries
                 /\ Goes(j, "done")
                 /\ UNCHANGED <<world, row, late, cache, inside, snap, ghost, raced, broken>>

(* A request breaks off before it wrote anything.                              *)
BreaksOff(j) == /\ pc[j] = "read" /\ Goes(j, "done")
                /\ UNCHANGED <<world, row, late, cache, inside, snap, ghost, raced, broken>>

CodeOk(j) == snap[j].coded => snap[j].tries < MaxTries

(* /invite/join: membership, contacts of a direct chat and the E2E key come    *)
(* before the session's row; the card is marked only for a direct chat.        *)
JoinEnter(g) == LET j == <<"join", g>> IN
  /\ pc[j] = "read" /\ CodeOk(j)
  /\ members' = members \cup {g}
  /\ inbox' = inbox \cup {g}
  /\ contact' = IF snap[j].kind = "dm" THEN [contact EXCEPT ![g] = "accepted"] ELSE contact
  /\ Goes(j, "entered")
  /\ UNCHANGED <<world, row, late, cache, snap, ghost, raced, broken>>

JoinStore(g) == LET j == <<"join", g>> IN
  /\ pc[j] = "entered"
  /\ row' = [row EXCEPT ![g].st = "live"]
  /\ redeemed' = redeemed \cup {g}
  /\ Goes(j, "stored")
  /\ UNCHANGED <<world, late, cache, inside, snap, wrong, raced, broken>>

MarkUsed == card' = IF card.mark = "free" THEN [card EXCEPT !.mark = "used"] ELSE card
JoinMark(g) == LET j == <<"join", g>> IN
  /\ pc[j] = "stored"
  /\ IF snap[j].kind = "dm" THEN MarkUsed ELSE UNCHANGED card
  /\ Goes(j, "marked")
  /\ UNCHANGED <<org, inviterIn, row, late, cache, inside, snap, ghost, raced, broken>>

(* A join that breaks off leaves a member without a session, or a session of   *)
(* an unmarked card.                                                           *)
JoinBreaks(g) == LET j == <<"join", g>> IN
  /\ pc[j] \in {"entered", "stored"}
  /\ broken' = broken \cup {g}
  /\ Goes(j, "done")
  /\ UNCHANGED <<world, row, late, cache, inside, snap, ghost, raced>>

(* Re-entry relieves every other session of the card, one after the other; it  *)
(* may fail to look them up.                                                   *)
Relieved(g) == {h \in Guests \ {g} : row[h].st # "none" /\ ~row[h].conv}
JoinRelieve(g) == LET j == <<"join", g>> IN
  /\ pc[j] = "marked"
  /\ \/ snap[j].mark # "used" /\ Goes(j, "relieved") /\ UNCHANGED broken
     \/ snap[j].mark = "used" /\ Goes(j, "relieved") /\ broken' = broken \cup Relieved(g)
     \/ /\ snap[j].mark = "used"
        /\ pc' = [i \in Jobs |-> IF i = j THEN "relieving"
                                 ELSE IF i \in {<<"relieve", <<h, g>>>> : h \in Relieved(g)} THEN "read" ELSE pc[i]]
        /\ UNCHANGED broken
  /\ UNCHANGED <<world, row, late, cache, inside, snap, ghost, raced>>

JoinRelieved(g) == LET j == <<"join", g>> IN
  /\ pc[j] = "relieving" /\ \A h \in Guests : ~Running(<<"relieve", <<h, g>>>>)
  /\ Goes(j, "relieved")
  /\ UNCHANGED <<world, row, late, cache, inside, snap, ghost, raced, broken>>

(* _killGuestSessionRow: the row's end comes first, then the copy in KV, then  *)
(* keys (the code goes on without), membership and contacts.                   *)
InTurn(e) == e[1] = "relieve" => \A h \in Guests : pc[<<"relieve", <<h, e[2][2]>>>>] \notin {"ended", "forgotten"}
EndRow(e) == /\ pc[e] = "read" /\ InTurn(e)
             /\ row' = [row EXCEPT ![Of(e)].st = "killed"]
             /\ Goes(e, "ended")
             /\ raced' = (raced \/ Running(<<"join", Of(e)>>) \/ Running(<<"visit", Of(e)>>))
             /\ UNCHANGED <<world, late, cache, inside, snap, ghost, broken>>
EndCopy(e) == /\ pc[e] = "ended"
              /\ cache' = cache \ {Of(e)}
              /\ Goes(e, "forgotten")
              /\ UNCHANGED <<world, row, late, inside, snap, ghost, raced, broken>>
EndInside(e) == /\ pc[e] = "forgotten"
                /\ inbox' \in {inbox, inbox \ {Of(e)}}
                /\ members' = members \ {Of(e)}
                /\ contact' = Removed({Of(e)})
                /\ broken' = broken \ {Of(e)}
                /\ Goes(e, "done")
                /\ UNCHANGED <<world, row, late, cache, snap, ghost, raced>>
(* Any of it fails: the inviter's request fails and may be made again, a        *)
(* re-entry goes on as if it had relieved all (the failure is caught).          *)
KillBreaks(g) == LET e == <<"kill", g>> IN
  /\ pc[e] \in {"read", "ended", "forgotten"}
  /\ members' \in {members, IF pc[e] = "forgotten" THEN members \ {g} ELSE members}
  /\ broken' = broken \cup {g}
  /\ Goes(e, "idle")
  /\ UNCHANGED <<world, row, late, cache, inbox, contact, snap, ghost, raced>>
Unrelieved(g) == {h \in Guests : Running(<<"relieve", <<h, g>>>>)}
ReliefBreaks(g) ==
  /\ Unrelieved(g) # {}
  /\ members' \in {members, members \ {h \in Guests : pc[<<"relieve", <<h, g>>>>] = "forgotten"}}
  /\ broken' = broken \cup Unrelieved(g)
  /\ pc' = [i \in Jobs |-> IF i = <<"join", g>> THEN "relieved"
                           ELSE IF i \in {<<"relieve", <<h, g>>>> : h \in Guests} THEN "done" ELSE pc[i]]
  /\ UNCHANGED <<world, row, late, cache, inbox, contact, snap, ghost, raced>>

JoinCache(g) == LET j == <<"join", g>> IN
  /\ pc[j] = "relieved"
  /\ cache' \in {cache, cache \cup {g}}        \* the put may fail, and the request
  /\ Goes(j, "done")
  /\ UNCHANGED <<world, row, late, inside, snap, ghost, raced, broken>>

(* /invite/accept and /invite/join-auth by a user with an account; breaking    *)
(* off they leave a card that is not marked.                                   *)
Accept == LET j == <<"accept", User>> IN
  /\ pc[j] = "read" /\ CodeOk(j)
  /\ members' = members \cup {User}
  /\ contact' = [contact EXCEPT ![User] = IF @ = "none" THEN "accepted" ELSE @]
  /\ (snap[j].kind = "dm" /\ MarkUsed) \/ UNCHANGED card
  /\ redeemed' = redeemed \cup {User}
  /\ Goes(j, "done")
  /\ UNCHANGED <<org, inviterIn, row, late, cache, inbox, snap, wrong, raced, broken>>

JoinAuth == LET j == <<"enter", User>> IN
  /\ pc[j] = "read" /\ CodeOk(j)
  /\ members' = members \cup {User}
  /\ IF snap[j].kind = "dm"
       THEN contact' = [contact EXCEPT ![User] = IF @ = "none" THEN "accepted" ELSE @] /\ (MarkUsed \/ UNCHANGED card)
       ELSE UNCHANGED <<contact, card>>
  /\ redeemed' = redeemed \cup {User}
  /\ Goes(j, "done")
  /\ UNCHANGED <<org, inviterIn, row, late, cache, inbox, snap, wrong, raced, broken>>

(***************************************************************************)
(* Sessions                                                                *)
(***************************************************************************)
(* requireGuestSession without a copy in KV: the row is read, then cached.     *)
VisitRead(g) == /\ pc[<<"visit", g>>] = "idle" /\ g \notin cache /\ Live(g)
                /\ Goes(<<"visit", g>>, "read")
                /\ UNCHANGED <<world, row, late, cache, inside, snap, ghost, raced, broken>>
VisitCache(g) == /\ pc[<<"visit", g>>] = "read"
                 /\ cache' = cache \cup {g}
                 /\ Goes(<<"visit", g>>, "done")
                 /\ UNCHANGED <<world, row, late, inside, snap, ghost, raced, broken>>
(* A message of the guest deletes the copy (its counter is stale).             *)
Uncache(g) == /\ g \in cache /\ Live(g) /\ pc[<<"visit", g>>] = "idle"
              /\ cache' = cache \ {g}
              /\ UNCHANGED <<world, row, late, inside, pc, snap, ghost, raced, broken>>

(* POST /invite/kill-session.                                                  *)
KillRead(g) == /\ pc[<<"kill", g>>] = "idle" /\ row[g].st # "none" /\ ~row[g].conv
               /\ Goes(<<"kill", g>>, "read")
               /\ UNCHANGED <<world, row, late, cache, inside, snap, ghost, raced, broken>>

(* POST /invite/convert: the row's expiry is not looked at. A direct chat      *)
(* moves to a new conversation; renaming the guest's contact fails when the    *)
(* inviter has the user among the contacts already (primary key), and the      *)
(* request with it, as with any other write of it that fails: it may be made   *)
(* again.                                                                      *)
ConvertRead(g) == /\ pc[<<"convert", g>>] = "idle" /\ row[g].st # "none" /\ ~row[g].conv
                  /\ Goes(<<"convert", g>>, "read")
                  /\ UNCHANGED <<world, row, late, cache, inside, snap, ghost, raced, broken>>
ConvertMove(g) == /\ pc[<<"convert", g>>] = "read"
                  /\ members' = (members \ {g}) \cup {User}
                  /\ \/ card.kind = "dm" /\ contact[User] = "none"
                        /\ contact' = [contact EXCEPT ![User] = contact[g], ![g] = "none"]
                        /\ Goes(<<"convert", g>>, "moved")
                     \/ /\ card.kind = "group" \/ contact[g] = "none"
                        /\ UNCHANGED contact /\ Goes(<<"convert", g>>, "moved")
                     \/ UNCHANGED contact /\ Goes(<<"convert", g>>, "idle")
                  /\ UNCHANGED <<world, row, late, cache, inbox, snap, ghost, raced, broken>>
ConvertMark(g) == /\ pc[<<"convert", g>>] = "moved"
                  /\ row' = [row EXCEPT ![g].conv = TRUE]
                  /\ \/ cache' = cache \ {g} /\ UNCHANGED broken
                     \/ broken' = broken \cup {g} /\ UNCHANGED cache
                  /\ Goes(<<"convert", g>>, "done")
                  /\ raced' = (raced \/ Running(<<"join", g>>) \/ Running(<<"visit", g>>)
                                 \/ \E j \in Redeeming : Running(j))
                  /\ UNCHANGED <<world, late, inside, snap, ghost>>

(* What begins something, and what goes on with a request that has begun.      *)
Begin == \/ Create \/ Revoke \/ CardExpires \/ Suspend \/ InviterLeaves \/ Cleanup
         \/ \E j \in Redeeming : ReadCard(j)
         \/ \E g \in Guests : SessionExpires(g) \/ VisitRead(g) \/ Uncache(g) \/ KillRead(g) \/ ConvertRead(g)
Continue == \/ \E j \in Redeeming : CodeWrong(j) \/ CodeLocked(j) \/ BreaksOff(j)
            \/ \E g \in Guests : JoinEnter(g) \/ JoinStore(g) \/ JoinMark(g) \/ JoinBreaks(g)
            \/ \E g \in Guests : JoinRelieve(g) \/ JoinRelieved(g) \/ JoinCache(g)
            \/ Accept \/ JoinAuth
            \/ \E e \in Enders : EndRow(e) \/ EndCopy(e) \/ EndInside(e)
            \/ \E g \in Guests : KillBreaks(g) \/ ReliefBreaks(g)
            \/ \E g \in Guests : VisitCache(g) \/ ConvertMove(g) \/ ConvertMark(g)

Next == \/ acts < MaxActs /\ Begin /\ acts' = acts + 1
        \/ Continue /\ UNCHANGED acts

Spec == Init /\ [][Next]_<<vars, acts>>

(***************************************************************************)
(* Properties                                                              *)
(***************************************************************************)
TypeOK ==
  /\ card.mark \in {"none", "free", "used"} /\ card.tries \in 0..MaxTries
  /\ \A g \in Guests : row[g].st \in {"none", "live", "killed"} /\ row[g].conv \in BOOLEAN
  /\ late \cup cache \cup inbox \subseteq Guests /\ members \subseteq Handles
  /\ \A h \in Handles : contact[h] \in {"none", "accepted", "removed"}

(* A card for a direct chat never has two usable sessions once its joins are   *)
(* through, unless two requests overlapped or something broke off: a second    *)
(* join finds the mark, a re-entry ends the session before it, a converted     *)
(* card is dead. What breaks off is named: the one whose join did, or whose    *)
(* end (by the inviter, a re-entry or the conversion) did, and who was not     *)
(* ended since.                                                                *)
OneSessionPerCard ==
  (card.kind = "dm" /\ ~raced /\ \A g \in Guests : ~Running(<<"join", g>>))
    => \A g, h \in Guests \ broken : Usable(g) /\ Usable(h) => g = h

(* A guest who is among the members (once the join is through) has a session   *)
(* that was neither ended nor converted, or is being put out, or what should   *)
(* have put the guest out (or let the guest in) broke off: whatever kill,      *)
(* relief and conversion overlap with, they leave nobody inside otherwise.     *)
NoGuestLeftInside ==
  \A g \in (members \cap Guests) \ broken :
    \/ Running(<<"join", g>>)
    \/ row[g].st = "live" /\ ~row[g].conv
    \/ \E e \in Enders : Of(e) = g /\ Running(e)

(* A guest's session ends for good, one card at a time: OneSessionPerCard and  *)
(* NoGuestLeftInside.                                                          *)
GuestSessionsEnd == OneSessionPerCard /\ NoGuestLeftInside

(* Every wrong code counts, unless two requests overlapped.                    *)
WrongCodesCount == ~raced => card.tries = wrong

(* "Consumer-Invites bleiben strikt einmalig" (inviteRoutes.js:730): a direct   *)
(* invite without a long life lets in one handle.                              *)
ConsumerInviteOnce == (card.kind = "dm" /\ ~card.long) => Cardinality(redeemed) <= 1
=============================================================================

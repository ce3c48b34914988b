----------------------------- MODULE MCGuests -----------------------------
(* The life of an invite (GuestInvite), the messages of a guest against the    *)
(* limit of the session (GuestQuota), or the keys of a guest who takes an      *)
(* account (HandleChange): the initial state says which of the three a         *)
(* behaviour is about.                                                         *)
EXTENDS GuestQuota

CONSTANTS Guests, User, MaxTries, MaxActs, MaxTrips

VARIABLES part, card, org, inviterIn, irow, late, cache, inbox, members, contact, ipc, snap,
          wrong, redeemed, raced, broken, acts,
          kind, server, wrap, lent, user, pend, page, call, key, map, other, devs, wire, why, trips

Invite == INSTANCE GuestInvite WITH pc <- ipc, row <- irow
Handle == INSTANCE HandleChange

invite == <<card, org, inviterIn, irow, late, cache, inbox, members, contact, ipc, snap,
            wrong, redeemed, raced, broken, acts>>
handle == <<kind, server, wrap, lent, user, pend, page, call, key, map, other, devs, wire, why, trips>>

(* Who takes an invite with an account is no guest.                            *)
ASSUME GuestsAssumption == User \notin Guests /\ MaxTries \in Nat

MCInit == /\ part \in {"quota", "invite", "handle"}
          /\ QInit /\ Invite!Init /\ Handle!Init
          /\ part # "invite" => org
          /\ part # "handle" => /\ kind = "group" /\ ~other.up
                                /\ key["peer"]["guest"] = "none"

QuotaStep == part = "quota" /\ QNext /\ UNCHANGED <<part, invite, handle>>
InviteStep == part = "invite" /\ Invite!Next /\ UNCHANGED <<part, quota, handle>>
HandleStep == part = "handle" /\ Handle!Next /\ UNCHANGED <<part, quota, invite>>

MCSpec == MCInit /\ [][QuotaStep \/ InviteStep \/ HandleStep]_<<part, quota, invite, handle>>

(* GuestInvite: one usable session per card, no member without a session, and  *)
(* wrong codes are counted.                                                    *)
InvitesEnd == Invite!GuestSessionsEnd /\ Invite!WrongCodesCount
(* HandleChange: the keys follow the name through a conversion.                *)
KeysFollowTheName == Handle!KeysFollowTheName
(* GuestInvite: a direct consumer invite lets in one handle.                   *)
ConsumerInviteOnce == Invite!ConsumerInviteOnce
=============================================================================

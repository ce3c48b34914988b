----------------------------- MODULE MCGroups ------------------------------
(* The sender keys of a group (GroupKeys), the message keys of one member      *)
(* (GroupChain), or the member rows (GroupMembers): the initial state says     *)
(* which of the three a behaviour is about.                                    *)
EXTENDS GroupKeys, TLC

CONSTANTS a, b, c, Users, Devs, MaxMembers, MaxRequests, MaxSteps

VARIABLES part, key, past, count, doing, made, used, twice, blurred, steps,
          convo, role, since, reqs, list, reads, requests, crossed, late

Chain == INSTANCE GroupChain
Rows == INSTANCE GroupMembers

chain == <<key, past, count, doing, made, used, twice, blurred, steps>>
rows == <<convo, role, since, reqs, list, reads, requests, crossed, late>>

MCInit == part \in {"keys", "chain", "rows"} /\ Init /\ Chain!Init /\ Rows!Init
            /\ (part # "keys" => members = Handles /\ my[<<b, 1>>] # None)
            /\ (part # "chain" => key[CHOOSE d \in Devs : TRUE] # 0)
            /\ (part # "rows" => Rows!members = {CHOOSE u \in Users : TRUE})

KeysStep == part = "keys" /\ Next /\ UNCHANGED <<part, chain, rows>>
ChainStep == part = "chain" /\ Chain!Next /\ UNCHANGED <<part, gkeys, rows>>
RowsStep == part = "rows" /\ Rows!Next /\ UNCHANGED <<part, gkeys, chain>>

MCSpec == MCInit /\ [][KeysStep \/ ChainStep \/ RowsStep]_<<part, gkeys, chain, rows>>

Alike == Permutations({b, c})

(* The fields of the three modules have their types.                           *)
MCTypeOK == TypeOK /\ Chain!ChainTypeOK /\ Rows!MTypeOK

(* GroupChain: two messages of a member have different keys.                   *)
ReuseHasACause == Chain!ReuseHasACause
(* GroupChain: every message has a key of its own.                             *)
KeyPerMessage == Chain!KeyPerMessage
(* GroupMembers: a group with members has an admin.                            *)
AdminUnlessOverlap == Rows!AdminUnlessOverlap
(* GroupMembers: the stored list is the list of members.                       *)
ListHasACause == Rows!ListHasACause
=============================================================================

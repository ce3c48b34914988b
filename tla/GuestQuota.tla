----------------------------- MODULE GuestQuota -----------------------------
(* A guest's messages against the limit of the session                        *)
(* (src/src/helpers/chatSend.js): the counter is read before a message is      *)
(* stored and raised afterwards, each in its own call. CMK control messages    *)
(* are not held against the limit, but raise the counter all the same.         *)
EXTENDS FiniteSets, Integers

CONSTANTS Chats,      \* the guest's messages
          Controls,   \* the guest's CMK control messages
          Limit,      \* msg_limit, 0 for none
          MaxAtOnce   \* bound: requests with messages in flight

ASSUME QuotaAssumption == /\ IsFiniteSet(Chats) /\ IsFiniteSet(Controls) /\ Chats \cap Controls = {}
                          /\ Limit \in Nat /\ MaxAtOnce \in Nat \ {0}

VARIABLES pc, msgCount, ended
quota == <<pc, msgCount, ended>>

Is(stages) == {m \in Chats \cup Controls : pc[m] \in stages}
InFlight == Is({"checked", "stored"})

QInit == pc = [m \in Chats \cup Controls |-> "idle"] /\ msgCount = 0 /\ ended = FALSE

Room_Inclusive == Limit = 0 \/ msgCount <= Limit   \* slip
Room == Limit = 0 \/ msgCount < Limit

(* The row of the session is read: it must be alive and have room.             *)
Check(m) == /\ m \in Chats /\ pc[m] = "idle" /\ Cardinality(InFlight) < MaxAtOnce
            /\ pc' = [pc EXCEPT ![m] = IF ~ended /\ Room THEN "checked" ELSE "refused"]
            /\ UNCHANGED <<msgCount, ended>>
Store(m) == /\ pc[m] = "checked"
            /\ pc' = [pc EXCEPT ![m] = "stored"]
            /\ UNCHANGED <<msgCount, ended>>
Counts(n) == n + 1
Count(m) == /\ pc[m] = "stored"
            /\ pc' = [pc EXCEPT ![m] = "done"]
            /\ msgCount' = Counts(msgCount)
            /\ UNCHANGED ended
(* The request ends between the two calls: stored, never counted.              *)
Die(m) == /\ pc[m] = "stored"
          /\ pc' = [pc EXCEPT ![m] = "uncounted"]
          /\ UNCHANGED <<msgCount, ended>>
Control(m) == /\ m \in Controls /\ pc[m] = "idle"
              /\ pc' = [pc EXCEPT ![m] = "done"]
              /\ msgCount' = msgCount + 1
              /\ UNCHANGED ended
(* The session expires, is killed or converted.                                *)
End == ~ended /\ ended' = TRUE /\ UNCHANGED <<pc, msgCount>>

QNext == (\E m \in Chats \cup Controls : Check(m) \/ Store(m) \/ Count(m) \/ Die(m) \/ Control(m)) \/ End
QSpec == QInit /\ [][QNext]_quota

QTypeOK == /\ pc \in [Chats \cup Controls -> {"idle", "checked", "stored", "done", "refused", "uncounted"}]
           /\ msgCount \in Nat /\ ended \in BOOLEAN

(* The counter is the number of requests that ran through: no increment is     *)
(* lost, even of messages that are stored after the session ended.             *)
NoIncrementLost == msgCount = Cardinality(Is({"done"}))

(* Checking before and counting after lets a guest exceed the limit, but by no *)
(* more than the requests in flight beside the last one that fits, apart from  *)
(* messages whose request died uncounted.                                      *)
OvershootBounded == Limit > 0 => Cardinality(Is({"stored", "done"}) \cap Chats) <= Limit + MaxAtOnce - 1
=============================================================================

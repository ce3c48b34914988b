--------------------- MODULE PrekeysAndGuests_proofs ----------------------
(***************************************************************************)
(* What is proved of what is given out once or within a limit.             *)
(*                                                                         *)
(* OneTimePrekeys: for any number of requesters, fetches and publishing    *)
(* tabs and any values of the limits. The inductive invariant IInv adds to *)
(* the types what ties the two sides together: a key that was handed out   *)
(* has a consumed row (the tombstone), no two fetches got the same key, and*)
(* whatever the owner consumes or has accepted was handed out.             *)
(*                                                                         *)
(* GuestQuota: a guest exceeds the message limit by no more than the       *)
(* requests in flight beside the last one that fits, for any limit and any *)
(* number of requests, and no increment of the counter is lost.            *)
(* GuestInvite: an invite's sessions end as they should. HandleChange: the *)
(* keys follow the name of a guest who takes an account.                   *)
(***************************************************************************)
EXTENDS OneTimePrekeys, MCGuests, FiniteSetTheorems, TLAPS

HandedIsConsumed == \A f \in Fetch : got[f] \in Opk => row[got[f]] = "consumed"

ConsumedWasHanded ==
  \A r \in Requester : cons[r] # None =>
    /\ got[cons[r].fetch] \in Opk
    /\ By[cons[r].fetch] = r
    /\ accepts[cons[r].fetch] < MaxAccepts

AcceptedWasHanded == \A f \in Fetch : accepts[f] > 0 => got[f] \in Opk

IInv ==
  /\ TypeOK
  /\ HandedIsConsumed
  /\ HandedOutOnce
  /\ ConsumedWasHanded
  /\ AcceptedWasHanded

-----------------------------------------------------------------------------
(* The operators *)

\* Keys are numbers, and a set of them is finite.
LEMMA OpkSet ==
  ASSUME NEW S \in SUBSET Opk
  PROVE  IsFiniteSet(S) /\ Cardinality(S) \in Nat
<1>1. IsFiniteSet(Opk)
  BY PrekeyAssumption, FS_Interval DEF Opk
<1> QED
  BY <1>1, FS_Subset, FS_CardinalityType

\* What a pool lacks to the target is a number between 0 and the target.
LEMMA MissingType ==
  ASSUME NEW n \in Nat
  PROVE  Missing(n) \in 0..Target
  BY PrekeyAssumption DEF Missing

\* The keys generated next are keys, as long as the bound is kept.
LEMMA FreshType ==
  ASSUME next \in 0..MaxOpk, NEW n \in Nat, next + n <= MaxOpk
  PROVE  Fresh(n) \subseteq Opk /\ next + n \in 0..MaxOpk
  BY PrekeyAssumption DEF Fresh, Opk

\* A window number is a natural number.
LEMMA WindowType ==
  ASSUME NEW t \in Nat
  PROVE  t \div Window \in Nat
  BY PrekeyAssumption

\* What the counter of a requester says is a window and a count.
LEMMA BucketType ==
  ASSUME TypeOK, NEW r \in Requester, NEW t \in Nat
  PROVE  Bucket(r, t) \in Nat /\ Drawn(r, t) \in Nat
<1>1. t \div Window \in Nat
  BY WindowType
<1>2. caps[r] = None \/ caps[r] \in [bucket : Nat, count : Nat]
  BY DEF TypeOK
<1> QED
  BY <1>1, <1>2, PrekeyAssumption DEF Bucket, Drawn

\* An upload adds free rows at most: consumed rows stay as they are.
LEMMA UploadKeeps ==
  ASSUME TypeOK, NEW ks \in SUBSET Opk, NEW ok \in BOOLEAN, Upload(ks, ok)
  PROVE  /\ bundle' \in BOOLEAN
         /\ row' \in [Opk -> {"absent", "free", "consumed"}]
         /\ \A k \in Opk : row[k] = "consumed" => row'[k] = "consumed"
  BY DEF TypeOK, Upload, InsertOrIgnore

-----------------------------------------------------------------------------
(* Types *)

\* Every step keeps the types; a count of acceptances stays in its bound
\* because a consume that is in progress was begun below the bound.
LEMMA TypeStep ==
  ASSUME TypeOK, ConsumedWasHanded, [Next]_vars
  PROVE  TypeOK'
<1> USE DEF TypeOK, serverVars, fetchVars, ownerVars
<1>0. IdlePub \in PubState
  BY PrekeyAssumption DEF IdlePub, PubState
<1>1. ASSUME NEW t \in Tab, PoolRead(t) PROVE TypeOK'
  <2> DEFINE need == Missing(Cardinality(priv))
  <2>1. need \in 0..Target
    BY OpkSet, MissingType
  <2>2. next + need <= MaxOpk
    BY <1>1 DEF PoolRead
  <2>3. Fresh(need) \subseteq Opk /\ next + need \in 0..MaxOpk
    BY <2>1, <2>2, FreshType
  <2>4. [pc |-> "pool", keys |-> priv \cup Fresh(need), new |-> Fresh(need),
         mark |-> marker, need |-> 0] \in PubState
    BY <2>3, PrekeyAssumption DEF PubState
  <2> QED
    BY <1>1, <2>3, <2>4 DEF PoolRead
<1>2. ASSUME NEW t \in Tab, PoolWrite(t) PROVE TypeOK'
  BY <1>2 DEF PoolWrite, StoreRecord, Overwrites, PubState
<1>3. ASSUME NEW t \in Tab, Publish(t) PROVE TypeOK'
  <2>1. Newest(pub[t].keys) \in SUBSET Opk
    BY DEF Newest, PubState
  <2>2. PICK ok \in BOOLEAN : Upload(Newest(pub[t].keys), ok) /\ marker' = (marker \/ ok)
    BY <1>3 DEF Publish
  <2>3. bundle' \in BOOLEAN /\ row' \in [Opk -> {"absent", "free", "consumed"}]
    BY <2>1, <2>2, UploadKeeps
  <2> QED
    BY <1>0, <1>3, <2>2, <2>3 DEF Publish
<1>4. ASSUME NEW t \in Tab, CountOpks(t) PROVE TypeOK'
  <2>1. CASE pub' = [pub EXCEPT ![t] = IdlePub]
    BY <1>0, <1>4, <2>1 DEF CountOpks
  <2>2. ASSUME NEW n \in {Cardinality(Free), 0},
               pub' = [pub EXCEPT ![t] = [IdlePub EXCEPT !.pc = "topup", !.need = Missing(n)]]
        PROVE  TypeOK'
    <3>1. n \in Nat
      BY OpkSet DEF Free
    <3>2. Missing(n) \in 0..Target
      BY <3>1, MissingType
    <3>3. [IdlePub EXCEPT !.pc = "topup", !.need = Missing(n)] \in PubState
      BY <3>2 DEF IdlePub, PubState
    <3> QED
      BY <1>4, <2>2, <3>3 DEF CountOpks
  <2> QED
    BY <1>4, <2>1, <2>2 DEF CountOpks
<1>5. ASSUME NEW t \in Tab, TopUpRead(t) PROVE TypeOK'
  <2>1. Fresh(pub[t].need) \subseteq Opk /\ next + pub[t].need \in 0..MaxOpk
    <3>1. pub[t].need \in Nat
      BY PrekeyAssumption DEF PubState
    <3> QED
      BY <1>5, <3>1, FreshType DEF TopUpRead
  <2>2. [pc |-> "store", keys |-> priv \cup Fresh(pub[t].need), new |-> Fresh(pub[t].need),
         mark |-> FALSE, need |-> 0] \in PubState
    BY <2>1, PrekeyAssumption DEF PubState
  <2> QED
    BY <1>5, <2>1, <2>2 DEF TopUpRead
<1>6. ASSUME NEW t \in Tab, TopUpWrite(t) PROVE TypeOK'
  BY <1>6 DEF TopUpWrite, StoreRecord, Overwrites, PubState
<1>7. ASSUME NEW t \in Tab, TopUpSend(t) PROVE TypeOK'
  <2>1. PICK ok \in BOOLEAN : Upload(pub[t].new, ok)
    BY <1>7 DEF TopUpSend
  <2>2. bundle' \in BOOLEAN /\ row' \in [Opk -> {"absent", "free", "consumed"}]
    BY <2>1, UploadKeeps DEF PubState
  <2> QED
    BY <1>0, <1>7, <2>2 DEF TopUpSend
<1>8. ASSUME NEW f \in Fetch, ConsumeRead(f) PROVE TypeOK'
  BY <1>8, PrekeyAssumption DEF ConsumeRead
<1>9. ASSUME NEW r \in Requester, ConsumeWrite(r) PROVE TypeOK'
  <2>1. cons[r] \in [fetch : Fetch, keys : SUBSET Opk]
    BY <1>9 DEF ConsumeWrite
  <2>2. accepts[cons[r].fetch] + 1 \in 0..MaxAccepts
    BY <1>9, <2>1, PrekeyAssumption DEF ConsumeWrite, ConsumedWasHanded
  <2> QED
    BY <1>9, <2>1, <2>2 DEF ConsumeWrite, Spend, Overwrites
<1>10. ASSUME NEW f \in Fetch, FetchBundle(f) PROVE TypeOK'
  <2>1. PICK t \in Reading : /\ Draw(f, t) \/ SpkOnly(f)
                             /\ alarm' = CleanupAt(t) \/ alarm' = alarm
    BY <1>10 DEF FetchBundle, SetAlarm, KeepAlarm
  <2>2. t \in Nat /\ By[f] \in Requester
    BY <2>1, PrekeyAssumption DEF Reading
  <2>3. alarm' \in {None} \cup Nat
    BY <2>1, <2>2, PrekeyAssumption DEF CleanupAt
  <2>4. Bucket(By[f], t) \in Nat /\ Drawn(By[f], t) \in Nat
    BY <2>2, BucketType
  <2>5. CASE Draw(f, t)
    BY <1>10, <2>2, <2>3, <2>4, <2>5 DEF FetchBundle, Draw, Free
  <2>6. CASE SpkOnly(f)
    BY <1>10, <2>3, <2>6 DEF FetchBundle, SpkOnly, Free
  <2> QED
    BY <2>1, <2>5, <2>6
<1>11. CASE Alarm
  BY <1>11 DEF Alarm
<1>12. CASE Tick
  BY <1>12, PrekeyAssumption DEF Tick
<1>13. CASE UNCHANGED vars
  BY <1>13 DEF vars
<1> QED
  BY <1>1, <1>2, <1>3, <1>4, <1>5, <1>6, <1>7, <1>8, <1>9, <1>10, <1>11, <1>12, <1>13
  DEF Next, Owner

-----------------------------------------------------------------------------
(* Keys that were handed out *)

\* The steps other than a fetch change neither what was handed out nor, except
\* for the two consume steps, what was accepted.
LEMMA GotFrame ==
  ASSUME [Next]_vars
  PROVE  \/ got' = got
         \/ \E f \in Fetch : FetchBundle(f)
  BY DEF Next, Owner, PoolRead, PoolWrite, Publish, CountOpks, TopUpRead, TopUpWrite, TopUpSend,
         ConsumeRead, ConsumeWrite, Alarm, Tick, fetchVars, vars

LEMMA AcceptFrame ==
  ASSUME [Next]_vars
  PROVE  \/ cons' = cons /\ accepts' = accepts
         \/ \E f \in Fetch : ConsumeRead(f)
         \/ \E r \in Requester : ConsumeWrite(r)
  BY DEF Next, Owner, PoolRead, PoolWrite, Publish, CountOpks, TopUpRead, TopUpWrite, TopUpSend,
         FetchBundle, Alarm, Tick, ownerVars, vars

\* A consumed row stays consumed.
LEMMA TombstoneStep ==
  ASSUME TypeOK, [Next]_vars
  PROVE  \A k \in Opk : row[k] = "consumed" => row'[k] = "consumed"
<1> SUFFICES ASSUME NEW k \in Opk, row[k] = "consumed" PROVE row'[k] = "consumed"
  OBVIOUS
<1>1. ASSUME NEW t \in Tab, Publish(t) PROVE row'[k] = "consumed"
  <2>1. Newest(pub[t].keys) \in SUBSET Opk
    BY DEF Newest, TypeOK, PubState
  <2> QED
    BY <1>1, <2>1, UploadKeeps DEF Publish
<1>2. ASSUME NEW t \in Tab, TopUpSend(t) PROVE row'[k] = "consumed"
  <2>1. pub[t].new \in SUBSET Opk
    BY DEF TypeOK, PubState
  <2> QED
    BY <1>2, <2>1, UploadKeeps DEF TopUpSend
<1>3. ASSUME NEW f \in Fetch, FetchBundle(f) PROVE row'[k] = "consumed"
  BY <1>3 DEF FetchBundle, Draw, SpkOnly, TypeOK
<1>4. \/ row' = row
      \/ \E t \in Tab : Publish(t) \/ TopUpSend(t)
      \/ \E f \in Fetch : FetchBundle(f)
  BY DEF Next, Owner, PoolRead, PoolWrite, CountOpks, TopUpRead, TopUpWrite, ConsumeRead,
         ConsumeWrite, Alarm, Tick, serverVars, vars
<1> QED
  BY <1>1, <1>2, <1>3, <1>4

\* A fetch gets a key whose row was free, hence none that was handed out.
LEMMA HandStep ==
  ASSUME TypeOK, HandedIsConsumed, HandedOutOnce, [Next]_vars
  PROVE  HandedIsConsumed' /\ HandedOutOnce'
<1>1. \A k \in Opk : row[k] = "consumed" => row'[k] = "consumed"
  BY TombstoneStep
<1>2. CASE got' = got
  BY <1>1, <1>2 DEF HandedIsConsumed, HandedOutOnce
<1>3. ASSUME NEW f \in Fetch, FetchBundle(f) PROVE HandedIsConsumed' /\ HandedOutOnce'
  <2>1. PICK t \in Reading : Draw(f, t) \/ SpkOnly(f)
    BY <1>3 DEF FetchBundle
  <2>2. CASE Draw(f, t)
    <3>1. PICK k \in Free : row' = [row EXCEPT ![k] = "consumed"] /\ got' = [got EXCEPT ![f] = k]
      BY <2>2 DEF Draw
    <3>2. k \in Opk /\ row[k] = "free" /\ row'[k] = "consumed"
      BY <3>1 DEF Free, TypeOK
    <3>3. \A g \in Fetch : got[g] # k
      BY <3>2 DEF HandedIsConsumed
    <3> QED
      BY <1>1, <3>1, <3>2, <3>3 DEF HandedIsConsumed, HandedOutOnce, TypeOK
  <2>3. CASE SpkOnly(f)
    BY <1>1, <2>3, PrekeyAssumption DEF SpkOnly, HandedIsConsumed, HandedOutOnce, TypeOK, Opk
  <2> QED
    BY <2>1, <2>2, <2>3
<1> QED
  BY <1>2, <1>3, GotFrame

\* A consume begins with a key of the record, which a fetch must have got, and
\* a fetch that has its answer never gets another one.
LEMMA ConsumeStep ==
  ASSUME TypeOK, ConsumedWasHanded, AcceptedWasHanded, [Next]_vars
  PROVE  ConsumedWasHanded' /\ AcceptedWasHanded'
<1>1. \A f \in Fetch : got[f] \in Opk => got'[f] = got[f]
  <2>1. ASSUME NEW f \in Fetch, NEW g \in Fetch, FetchBundle(g), got[f] \in Opk
        PROVE  got'[f] = got[f]
    BY <2>1, PrekeyAssumption DEF FetchBundle, Draw, SpkOnly, TypeOK, Opk
  <2> QED
    BY <2>1, GotFrame
<1>2. CASE cons' = cons /\ accepts' = accepts
  BY <1>1, <1>2 DEF ConsumedWasHanded, AcceptedWasHanded, TypeOK
<1>3. ASSUME NEW f \in Fetch, ConsumeRead(f) PROVE ConsumedWasHanded' /\ AcceptedWasHanded'
  BY <1>3 DEF ConsumeRead, ConsumedWasHanded, AcceptedWasHanded, TypeOK, fetchVars
<1>4. ASSUME NEW r \in Requester, ConsumeWrite(r) PROVE ConsumedWasHanded' /\ AcceptedWasHanded'
  <2> DEFINE f == cons[r].fetch
  <2>1. f \in Fetch /\ got[f] \in Opk /\ By[f] = r
    BY <1>4 DEF ConsumeWrite, ConsumedWasHanded, TypeOK
  <2>2. /\ accepts' = [accepts EXCEPT ![f] = @ + 1]
        /\ cons' = [cons EXCEPT ![r] = None]
        /\ got' = got
    BY <1>4 DEF ConsumeWrite, fetchVars
  <2> HIDE DEF f
  <2>3. AcceptedWasHanded'
    BY <2>1, <2>2 DEF AcceptedWasHanded, TypeOK
  <2>4. ConsumedWasHanded'
    BY <2>1, <2>2 DEF ConsumedWasHanded, TypeOK
  <2> QED
    BY <2>3, <2>4
<1> QED
  BY <1>2, <1>3, <1>4, AcceptFrame

-----------------------------------------------------------------------------
(* The theorems *)

LEMMA InitIInv == Init => IInv
<1> SUFFICES ASSUME Init PROVE IInv
  OBVIOUS
<1> USE DEF Init
<1>1. IdlePub \in PubState
  BY PrekeyAssumption DEF IdlePub, PubState
<1>2. TypeOK
  <2>1. priv \subseteq Opk /\ next \in 0..MaxOpk /\ now \in 0..MaxNow
    BY PrekeyAssumption
  <2>2. pub \in [Tab -> PubState]
    BY <1>1
  <2>3. accepts \in [Fetch -> 0..MaxAccepts] /\ win \in [Fetch -> Nat]
    BY PrekeyAssumption
  <2>4. /\ cons \in [Requester -> {None} \cup [fetch : Fetch, keys : SUBSET Opk]]
        /\ caps \in [Requester -> {None} \cup [bucket : Nat, count : Nat]]
        /\ got \in [Fetch -> {Todo, NoOpk} \cup Opk]
        /\ row \in [Opk -> {"absent", "free", "consumed"}]
    OBVIOUS
  <2> QED
    BY <2>1, <2>2, <2>3, <2>4 DEF TypeOK
<1>3. HandedIsConsumed /\ HandedOutOnce
  BY PrekeyAssumption DEF HandedIsConsumed, HandedOutOnce, Opk
<1>4. ConsumedWasHanded /\ AcceptedWasHanded
  BY DEF ConsumedWasHanded, AcceptedWasHanded
<1> QED
  BY <1>2, <1>3, <1>4 DEF IInv

\* IInv is inductive.
THEOREM Invariance == Spec => []IInv
<1>1. IInv /\ [Next]_vars => IInv'
  BY TypeStep, HandStep, ConsumeStep DEF IInv
<1> QED
  BY InitIInv, <1>1, PTL DEF Spec

\* The records, rows, counters and histories keep their shapes: in particular no
\* pool refers to a key that was never generated within the bounds.
THEOREM TypeCorrect == Spec => []TypeOK
<1>1. IInv => TypeOK
  BY DEF IInv
<1> QED
  BY Invariance, <1>1, PTL

\* PrekeyDO never hands one OPK to two fetches, for any number of requesters and
\* tabs, whatever is uploaded again.
THEOREM HandedOutOnceHolds == Spec => []HandedOutOnce
<1>1. IInv => HandedOutOnce
  BY DEF IInv
<1> QED
  BY Invariance, <1>1, PTL

\* A row marked consumed is never offered again: INSERT OR IGNORE and the update
\* of the consume are the only writers.
THEOREM TombstoneHolds == Spec => TombstonePermanent
<1>1. IInv /\ [Next]_vars => [\A k \in Opk : row[k] = "consumed" => row'[k] = "consumed"]_row
  BY TombstoneStep DEF IInv
<1>2. Spec => [][\A k \in Opk : row[k] = "consumed" => row'[k] = "consumed"]_row
  BY Invariance, <1>1, PTL DEF Spec
<1> QED
  BY <1>2 DEF TombstonePermanent

-----------------------------------------------------------------------------
(* The owner's record *)

\* The keys a publisher has generated and not stored yet.
Unstored(t) == IF pub[t].pc \in {"pool", "store"} THEN pub[t].new ELSE {}
Spent(k) == \E f \in Fetch : got[f] = k /\ accepts[f] > 0

\* Whatever has a name was generated.
Generated ==
  /\ priv \subseteq 1..next
  /\ \A t \in Tab : pub[t].keys \subseteq 1..next /\ pub[t].new \subseteq pub[t].keys
  /\ \A r \in Requester : cons[r] # None => cons[r].keys \subseteq 1..next
  /\ \A k \in Opk : row[k] # "absent" => k \in 1..next

\* Nobody else knows a key that is not stored yet.
Private ==
  \A t \in Tab :
    /\ Unstored(t) \cap priv = {}
    /\ \A u \in Tab \ {t} : pub[u].keys \cap Unstored(t) = {}
    /\ \A r \in Requester : cons[r] # None => cons[r].keys \cap Unstored(t) = {}
    /\ \A k \in Unstored(t) : row[k] = "absent"

Settled ==
  \A k \in (1..next) \ clobbered : (\A t \in Tab : k \notin Unstored(t)) => (k \in priv <=> ~Spent(k))

Held == Generated /\ Private /\ Settled

\* What a step leaves alone keeps the record as it is.
LEMMA HeldFrame ==
  ASSUME Held, UNCHANGED <<priv, next, cons, clobbered>>,
         \A t \in Tab : /\ pub'[t].keys \in {pub[t].keys, {}} /\ pub'[t].new \subseteq pub'[t].keys
                        /\ Unstored(t)' = Unstored(t),
         \A k \in Opk : row'[k] # row[k] => k \in 1..next /\ \A t \in Tab : k \notin Unstored(t),
         \A k \in 1..next : Spent(k)' = Spent(k), TypeOK
  PROVE  Held'
<1>1. Generated'
  BY DEF Held, Generated
<1>2. Private'
  <2> SUFFICES ASSUME NEW t \in Tab
               PROVE  /\ Unstored(t) \cap priv = {}
                      /\ \A u \in Tab \ {t} : pub'[u].keys \cap Unstored(t) = {}
                      /\ \A r \in Requester : cons[r] # None => cons[r].keys \cap Unstored(t) = {}
                      /\ \A k \in Unstored(t) : row'[k] = "absent"
    BY DEF Private
  <2>1. \A k \in Unstored(t) : k \in Opk /\ row[k] = "absent"
    BY DEF Held, Private, Unstored, TypeOK, PubState
  <2> QED BY <2>1 DEF Held, Private
<1>3. Settled'
  BY DEF Held, Settled
<1> QED BY <1>1, <1>2, <1>3 DEF Held

LEMMA PubFields ==
  ASSUME TypeOK, NEW t \in Tab
  PROVE  /\ pub \in [Tab -> PubState] /\ pub[t].keys \in SUBSET Opk /\ pub[t].new \in SUBSET Opk
         /\ Unstored(t) \in SUBSET Opk
  BY DEF TypeOK, PubState, Unstored

\* The keys of a step that generates are new to everyone.
LEMMA GenerateHeld ==
  ASSUME TypeOK, Held, NEW t \in Tab, NEW n \in Nat, next + n <= MaxOpk, Unstored(t) = {},
         next' = next + n, NEW to \in {"pool", "store"}, NEW mark, NEW need,
         pub' = [pub EXCEPT ![t] = [pc |-> to, keys |-> priv \cup Fresh(n), new |-> Fresh(n),
                                    mark |-> mark, need |-> need]],
         UNCHANGED <<priv, cons, clobbered, row, got, accepts>>
  PROVE  Held'
<1>1. Fresh(n) \subseteq Opk /\ next \in Nat /\ next' \in Nat
  BY FreshType, PrekeyAssumption DEF TypeOK
<1>2. \A k \in Fresh(n) : k \notin 1..next
  BY <1>1 DEF Fresh
<1>3. 1..next \subseteq 1..next' /\ Fresh(n) \subseteq 1..next' /\ \A k \in 1..next' : k \in 1..next \/ k \in Fresh(n)
  BY <1>1 DEF Fresh
<1>4. /\ pub'[t].keys = priv \cup Fresh(n) /\ pub'[t].new = Fresh(n) /\ Unstored(t)' = Fresh(n)
      /\ \A u \in Tab \ {t} : pub'[u] = pub[u] /\ Unstored(u)' = Unstored(u)
  <2>1. pub \in [Tab -> PubState]
    BY DEF TypeOK
  <2> QED BY <2>1 DEF Unstored
<1>5. \A u \in Tab : Unstored(u) \subseteq 1..next
  BY DEF Held, Generated, Unstored
<1>6. Generated'
  BY <1>1, <1>3, <1>4 DEF Held, Generated
<1>7. Private'
  <2> SUFFICES ASSUME NEW u \in Tab
               PROVE  /\ Unstored(u)' \cap priv = {}
                      /\ \A v \in Tab \ {u} : pub'[v].keys \cap Unstored(u)' = {}
                      /\ \A r \in Requester : cons[r] # None => cons[r].keys \cap Unstored(u)' = {}
                      /\ \A k \in Unstored(u)' : row[k] = "absent"
    BY DEF Private
  <2>1. CASE u = t
    <3>1. Unstored(u)' = Fresh(n) /\ Fresh(n) \cap priv = {}
      BY <1>2, <1>4, <2>1 DEF Held, Generated
    <3>2. \A v \in Tab \ {u} : pub'[v].keys \cap Fresh(n) = {}
      BY <1>2, <1>4, <2>1 DEF Held, Generated
    <3>3. \A r \in Requester : cons[r] # None => cons[r].keys \cap Fresh(n) = {}
      BY <1>2 DEF Held, Generated
    <3>4. \A k \in Fresh(n) : row[k] = "absent"
      BY <1>1, <1>2 DEF Held, Generated
    <3> QED BY <3>1, <3>2, <3>3, <3>4
  <2>2. CASE u # t
    BY <1>2, <1>4, <1>5, <2>2 DEF Held, Private
  <2> QED BY <2>1, <2>2
<1>8. Settled'
  <2>1. \A k : Spent(k)' = Spent(k)
    BY DEF Spent
  <2>2. ASSUME NEW k \in (1..next') \ clobbered, \A u \in Tab : k \notin Unstored(u)' PROVE k \in priv <=> ~Spent(k)
    <3>1. k \in 1..next /\ \A u \in Tab : k \notin Unstored(u)
      BY <1>3, <1>4, <2>2
    <3> QED BY <3>1, <2>2 DEF Held, Settled
  <2> QED BY <2>1, <2>2 DEF Settled
<1> QED BY <1>6, <1>7, <1>8 DEF Held

\* A key that has a row, or was handed out, is stored or was.
LEMMA UnstoredIsNew ==
  ASSUME TypeOK, HandedIsConsumed, Held, NEW t \in Tab, NEW k \in Unstored(t)
  PROVE  k \in Opk /\ ~Spent(k)
<1>1. k \in Opk /\ row[k] = "absent"
  BY PubFields DEF Held, Private
<1> QED BY <1>1 DEF HandedIsConsumed, Spent

\* A write puts the new keys in, and what else it changes is another's.
LEMMA StoreHeld ==
  ASSUME TypeOK, HandedIsConsumed, Held, NEW t \in Tab, pub[t].pc \in {"pool", "store"}, StoreRecord(t),
         NEW to \in {"count", "publish", "send"}, pub' = [pub EXCEPT ![t].pc = to],
         UNCHANGED <<next, cons, row, got, accepts>>
  PROVE  Held'
<1>1. /\ Unstored(t) = pub[t].new /\ Unstored(t)' = {}
      /\ \A u \in Tab : pub'[u].keys = pub[u].keys /\ pub'[u].new = pub[u].new
      /\ \A u \in Tab \ {t} : Unstored(u)' = Unstored(u)
  <2>1. pub \in [Tab -> PubState]
    BY DEF TypeOK
  <2> QED BY <2>1 DEF Unstored, PubState
<1>2. \A k : Spent(k)' = Spent(k)
  BY DEF Spent
<1>3. priv' \subseteq priv \cup pub[t].keys /\ clobbered \subseteq clobbered'
  BY DEF StoreRecord, Overwrites
<1>4. Generated'
  BY <1>1, <1>3 DEF Held, Generated
<1>5. Private'
  BY <1>1, <1>3 DEF Held, Private
<1>6. Settled'
  <2> SUFFICES ASSUME NEW k \in (1..next) \ clobbered', \A u \in Tab : k \notin Unstored(u)'
               PROVE  k \in priv' <=> ~Spent(k)
    BY <1>2 DEF Settled
  <2>1. CASE k \in pub[t].new
    <3>1. ~Spent(k)
      BY <1>1, <2>1, UnstoredIsNew
    <3>2. k \in priv'
      BY <2>1 DEF StoreRecord, Held, Generated
    <3> QED BY <3>1, <3>2
  <2>2. CASE k \notin pub[t].new
    <3>1. \A u \in Tab : k \notin Unstored(u)
      BY <1>1, <2>2
    <3>2. k \in priv <=> ~Spent(k)
      BY <1>3, <3>1 DEF Held, Settled
    <3>3. k \in priv' <=> k \in priv
      BY <2>2 DEF StoreRecord, Overwrites
    <3> QED BY <3>2, <3>3
  <2> QED BY <2>1, <2>2
<1> QED BY <1>4, <1>5, <1>6 DEF Held

\* The end of a consume takes the key of an accepted handshake out.
LEMMA ConsumeHeld ==
  ASSUME TypeOK, HandedIsConsumed, HandedOutOnce, ConsumedWasHanded, Held, NEW r \in Requester, ConsumeWrite(r)
  PROVE  Held'
<1> DEFINE f == cons[r].fetch
<1>1. /\ f \in Fetch /\ got[f] \in Opk /\ cons[r].keys \subseteq 1..next
      /\ priv' = cons[r].keys \ {got[f]} /\ accepts' = [accepts EXCEPT ![f] = @ + 1]
      /\ clobbered' = clobbered \cup (cons[r].keys \ priv) \cup (priv \ cons[r].keys)
      /\ cons' = [cons EXCEPT ![r] = None] /\ UNCHANGED <<next, pub, row, got>>
  BY DEF ConsumeWrite, Spend, Overwrites, ConsumedWasHanded, TypeOK, Held, Generated, serverVars, fetchVars
<1> HIDE DEF f
<1>2. \A t \in Tab : Unstored(t)' = Unstored(t)
  BY <1>1 DEF Unstored
<1>3. \A q \in Requester : cons'[q] # None => cons'[q] = cons[q] /\ cons[q] # None
  BY <1>1 DEF TypeOK
<1>4. \A k : Spent(k)' <=> Spent(k) \/ k = got[f]
  <2>1. \A g \in Fetch : (accepts'[g] > 0) <=> (accepts[g] > 0 \/ g = f)
    BY <1>1 DEF TypeOK
  <2> QED BY <1>1, <2>1 DEF Spent
<1>5. Generated'
  BY <1>1, <1>3 DEF Held, Generated
<1>6. Private'
  <2>1. \A t \in Tab : Unstored(t) \cap cons[r].keys = {}
    BY DEF Held, Private, ConsumeWrite
  <2> QED BY <1>1, <1>2, <1>3, <2>1 DEF Held, Private
<1>7. Settled'
  BY <1>1, <1>2, <1>4 DEF Held, Settled
<1> QED BY <1>5, <1>6, <1>7 DEF Held

\* An upload makes rows of keys that are stored.
LEMMA UploadHeld ==
  ASSUME TypeOK, Held, NEW t \in Tab, Unstored(t) = {}, NEW ks \in SUBSET pub[t].keys,
         NEW ok \in BOOLEAN, Upload(ks, ok)
  PROVE  \A k \in Opk : row'[k] # row[k] => k \in 1..next /\ \A u \in Tab : k \notin Unstored(u)
<1>1. \A k \in Opk : row'[k] # row[k] => k \in ks
  BY DEF Upload, InsertOrIgnore, TypeOK
<1>2. \A k \in ks : k \in 1..next /\ \A u \in Tab : k \notin Unstored(u)
  BY DEF Held, Generated, Private
<1> QED BY <1>1, <1>2

LEMMA HeldStep ==
  ASSUME IInv, Held, [Next]_vars PROVE Held'
<1> USE DEF IInv, ownerVars, serverVars, fetchVars
<1>a. ASSUME UNCHANGED <<got, accepts>> PROVE \A k \in 1..next : Spent(k)' = Spent(k)
  BY <1>a DEF Spent
<1>b. ASSUME NEW t \in Tab, NEW p \in PubState, pub' = [pub EXCEPT ![t] = p], Unstored(t) = {},
             p.pc \notin {"pool", "store"}, p.keys \in {pub[t].keys, {}}, p.new \subseteq p.keys
      PROVE  \A u \in Tab : /\ pub'[u].keys \in {pub[u].keys, {}} /\ pub'[u].new \subseteq pub'[u].keys
                            /\ Unstored(u)' = Unstored(u)
  BY <1>b DEF TypeOK, Unstored, Held, Generated
<1>c. ASSUME UNCHANGED pub
      PROVE  \A u \in Tab : /\ pub'[u].keys \in {pub[u].keys, {}} /\ pub'[u].new \subseteq pub'[u].keys
                            /\ Unstored(u)' = Unstored(u)
  BY <1>c DEF Unstored, Held, Generated
<1>d. IdlePub \in PubState /\ IdlePub.pc = "idle" /\ IdlePub.keys = {} /\ IdlePub.new = {}
  BY PrekeyAssumption DEF IdlePub, PubState
<1>1. ASSUME NEW t \in Tab, PoolRead(t) PROVE Held'
  <2> DEFINE need == Missing(Cardinality(priv))
  <2>1. need \in Nat
    BY OpkSet, MissingType DEF TypeOK
  <2> HIDE DEF need
  <2>2. Unstored(t) = {}
    BY <1>1 DEF PoolRead, Unstored
  <2>3. /\ next + need <= MaxOpk /\ next' = next + need
        /\ pub' = [pub EXCEPT ![t] = [pc |-> "pool", keys |-> priv \cup Fresh(need), new |-> Fresh(need),
                                      mark |-> marker, need |-> 0]]
        /\ UNCHANGED <<priv, cons, clobbered, row, got, accepts>>
    BY <1>1 DEF PoolRead, need
  <2> QED BY <2>1, <2>2, <2>3, GenerateHeld
<1>2. ASSUME NEW t \in Tab, PoolWrite(t) PROVE Held'
  <2>1. PICK to \in {"count", "publish"} : pub' = [pub EXCEPT ![t].pc = to]
    BY <1>2 DEF PoolWrite
  <2> QED BY <1>2, <2>1, StoreHeld DEF PoolWrite
<1>3. ASSUME NEW t \in Tab, Publish(t) PROVE Held'
  <2>1. PICK ok \in BOOLEAN : Upload(Newest(pub[t].keys), ok)
    BY <1>3 DEF Publish
  <2>2. Unstored(t) = {} /\ Newest(pub[t].keys) \in SUBSET pub[t].keys
    BY <1>3 DEF Publish, Unstored, Newest
  <2>3. \A k \in Opk : row'[k] # row[k] => k \in 1..next /\ \A u \in Tab : k \notin Unstored(u)
    BY <2>1, <2>2, UploadHeld
  <2>4. pub' = [pub EXCEPT ![t] = IdlePub] /\ UNCHANGED <<priv, next, cons, clobbered, got, accepts>>
    BY <1>3 DEF Publish
  <2> QED BY <1>a, <1>b, <1>d, <2>2, <2>3, <2>4, HeldFrame
<1>4. ASSUME NEW t \in Tab, CountOpks(t) PROVE Held'
  <2>1. Unstored(t) = {} /\ UNCHANGED <<priv, next, cons, clobbered, got, accepts, row>>
    BY <1>4 DEF CountOpks, Unstored
  <2>2. CASE pub' = [pub EXCEPT ![t] = IdlePub]
    BY <1>a, <1>b, <1>d, <2>1, <2>2, HeldFrame
  <2>3. ASSUME NEW n \in {Cardinality(Free), 0},
               pub' = [pub EXCEPT ![t] = [IdlePub EXCEPT !.pc = "topup", !.need = Missing(n)]]
        PROVE  Held'
    <3> DEFINE p == [IdlePub EXCEPT !.pc = "topup", !.need = Missing(n)]
    <3>1. Missing(n) \in 0..Target
      <4>1. n \in Nat
        BY OpkSet DEF Free
      <4> QED BY <4>1, MissingType
    <3>2. p \in PubState /\ p.pc = "topup" /\ p.keys = {} /\ p.new = {}
      BY <3>1 DEF IdlePub, PubState
    <3> HIDE DEF p
    <3>3. pub' = [pub EXCEPT ![t] = p]
      BY <2>3 DEF p
    <3> QED BY <1>a, <1>b, <2>1, <3>2, <3>3, HeldFrame
  <2> QED BY <1>4, <2>2, <2>3 DEF CountOpks
<1>5. ASSUME NEW t \in Tab, TopUpRead(t) PROVE Held'
  <2>1. pub[t].need \in Nat /\ Unstored(t) = {}
    BY <1>5, PrekeyAssumption DEF TopUpRead, TypeOK, PubState, Unstored
  <2>2. /\ next + pub[t].need <= MaxOpk /\ next' = next + pub[t].need
        /\ pub' = [pub EXCEPT ![t] = [pc |-> "store", keys |-> priv \cup Fresh(pub[t].need),
                                      new |-> Fresh(pub[t].need), mark |-> FALSE, need |-> 0]]
        /\ UNCHANGED <<priv, cons, clobbered, row, got, accepts>>
    BY <1>5 DEF TopUpRead
  <2> QED BY <2>1, <2>2, GenerateHeld
<1>6. ASSUME NEW t \in Tab, TopUpWrite(t) PROVE Held'
  BY <1>6, StoreHeld DEF TopUpWrite
<1>7. ASSUME NEW t \in Tab, TopUpSend(t) PROVE Held'
  <2>1. PICK ok \in BOOLEAN : Upload(pub[t].new, ok)
    BY <1>7 DEF TopUpSend
  <2>2. Unstored(t) = {} /\ pub[t].new \in SUBSET pub[t].keys
    BY <1>7 DEF TopUpSend, Unstored, Held, Generated
  <2>3. \A k \in Opk : row'[k] # row[k] => k \in 1..next /\ \A u \in Tab : k \notin Unstored(u)
    BY <2>1, <2>2, UploadHeld
  <2>4. pub' = [pub EXCEPT ![t] = IdlePub] /\ UNCHANGED <<priv, next, cons, clobbered, got, accepts>>
    BY <1>7 DEF TopUpSend
  <2> QED BY <1>a, <1>b, <1>d, <2>2, <2>3, <2>4, HeldFrame
<1>8. ASSUME NEW f \in Fetch, ConsumeRead(f) PROVE Held'
  <2>1. /\ cons' = [cons EXCEPT ![By[f]] = [fetch |-> f, keys |-> priv]]
        /\ UNCHANGED <<priv, next, pub, accepts, clobbered, row, got>>
    BY <1>8 DEF ConsumeRead
  <2>2. \A r \in Requester : cons'[r] # None => cons'[r].keys = priv \/ (cons[r] # None /\ cons'[r] = cons[r])
    BY <2>1 DEF TypeOK
  <2>3. \A t \in Tab : Unstored(t)' = Unstored(t)
    BY <2>1 DEF Unstored
  <2>4. Generated'
    BY <2>1, <2>2 DEF Held, Generated
  <2>5. Private'
    BY <2>1, <2>2, <2>3 DEF Held, Private
  <2>6. Settled'
    BY <2>1, <2>3 DEF Held, Settled, Spent
  <2> QED BY <2>4, <2>5, <2>6 DEF Held
<1>9. ASSUME NEW r \in Requester, ConsumeWrite(r) PROVE Held'
  BY <1>9, ConsumeHeld
<1>10. ASSUME NEW f \in Fetch, FetchBundle(f) PROVE Held'
  <2>1. PICK t \in Reading : Draw(f, t) \/ SpkOnly(f)
    BY <1>10 DEF FetchBundle
  <2>2. UNCHANGED <<priv, next, pub, cons, clobbered, accepts>>
    BY <1>10 DEF FetchBundle
  <2>3. \A k \in Opk : row'[k] # row[k] => k \in Free
    BY <2>1 DEF Draw, SpkOnly, TypeOK
  <2>4. \A k \in Free : k \in 1..next /\ \A u \in Tab : k \notin Unstored(u)
    BY DEF Free, Held, Generated, Private
  <2>5. \A k \in 1..next : Spent(k)' = Spent(k)
    <3>1. accepts[f] = 0
      <4>1. got[f] \notin Opk /\ accepts[f] \in Nat
        BY <1>10, PrekeyAssumption DEF FetchBundle, TypeOK, Opk
      <4> QED BY <4>1 DEF AcceptedWasHanded
    <3>2. \A g \in Fetch : accepts[g] > 0 => got'[g] = got[g]
      BY <2>1, <3>1 DEF Draw, SpkOnly, TypeOK
    <3> QED BY <2>2, <3>2 DEF Spent
  <2>6. \A u \in Tab : /\ pub'[u].keys \in {pub[u].keys, {}} /\ pub'[u].new \subseteq pub'[u].keys
                       /\ Unstored(u)' = Unstored(u)
    BY <1>c, <2>2
  <2> QED BY <2>2, <2>3, <2>4, <2>5, <2>6, HeldFrame
<1>11. CASE Alarm \/ Tick \/ UNCHANGED vars
  <2>1. UNCHANGED <<priv, next, pub, cons, clobbered, row, got, accepts>>
    BY <1>11 DEF Alarm, Tick, vars
  <2> QED BY <1>a, <1>c, <2>1, HeldFrame
<1> QED
  BY <1>1, <1>2, <1>3, <1>4, <1>5, <1>6, <1>7, <1>8, <1>9, <1>10, <1>11 DEF Next, Owner

LEMMA HeldStart == Init => Held
<1> SUFFICES ASSUME Init PROVE Held
  OBVIOUS
<1>1. \A t \in Tab : Unstored(t) = {} /\ pub[t].keys = {} /\ pub[t].new = {}
  BY DEF Init, Unstored, IdlePub
<1>2. 1..next = {}
  BY DEF Init
<1> QED BY <1>1, <1>2 DEF Init, Held, Generated, Private, Settled

\* A private half is in the owner's record exactly while the handshake that uses
\* it is expected, unless a write of the record overwrote another's: keys are
\* stored before they are offered, and a consume takes out the one it used.
THEOREM RecordHolds == Spec => []RecordHasACause
<1> DEFINE I == IInv /\ Held
<1>1. Init => I
  BY InitIInv, HeldStart
<1>2. I /\ [Next]_vars => I'
  BY TypeStep, HandStep, ConsumeStep, HeldStep DEF IInv
<1>3. I => RecordHasACause
  <2> SUFFICES ASSUME I, NEW f \in Fetch, got[f] \in Opk \ clobbered PROVE got[f] \in priv <=> accepts[f] = 0
    BY DEF RecordHasACause
  <2>1. row[got[f]] = "consumed"
    BY DEF IInv, HandedIsConsumed
  <2>2. got[f] \in 1..next /\ \A t \in Tab : got[f] \notin Unstored(t)
    BY <2>1 DEF Held, Generated, Private
  <2>3. Spent(got[f]) <=> accepts[f] > 0
    BY DEF IInv, HandedOutOnce, Spent
  <2>4. accepts[f] \in Nat
    BY DEF IInv, TypeOK
  <2> QED BY <2>2, <2>3, <2>4 DEF Held, Settled
<1> QED BY <1>1, <1>2, <1>3, PTL DEF Spec

-----------------------------------------------------------------------------
(* The abstract pool *)

Consumed == {k \in Opk : row[k] = "consumed"}

\* An upload offers keys of which the table has no row.
LEMMA UploadOffers ==
  ASSUME TypeOK, NEW ks \in SUBSET Opk, NEW ok \in BOOLEAN, Upload(ks, ok), got' = got
  PROVE  Pool!Offer \/ UNCHANGED Pool!pool
<1>1. CASE row' = row
  BY <1>1 DEF Pool!pool, Free
<1>2. CASE row' = InsertOrIgnore(ks)
  <2> DEFINE S == {k \in ks : row[k] = "absent"}
  <2>1. S \in SUBSET (Opk \ (Free \cup Consumed))
    BY DEF Free, Consumed
  <2>2. Free' = Free \cup S
    BY <1>2 DEF Free, InsertOrIgnore, TypeOK
  <2>3. Consumed' = Consumed
    BY <1>2 DEF Consumed, InsertOrIgnore, TypeOK
  <2> QED
    BY <2>1, <2>2, <2>3 DEF Pool!Offer, Consumed
<1> QED
  BY <1>1, <1>2 DEF Upload

\* Marking a free row spends its key.
LEMMA MarkSpends ==
  ASSUME TypeOK, NEW k \in Free, row' = [row EXCEPT ![k] = "consumed"]
  PROVE  Pool!Spend(k)
<1>1. k \in Opk /\ row' \in [Opk -> {"absent", "free", "consumed"}]
  BY DEF Free, TypeOK
<1>2. row'[k] = "consumed" /\ \A j \in Opk : j # k => row'[j] = row[j]
  BY <1>1 DEF TypeOK
<1>3. Free' = Free \ {k}
  BY <1>1, <1>2 DEF Free
<1>4. Consumed' = Consumed \cup {k}
  BY <1>1, <1>2 DEF Consumed
<1> QED
  BY <1>3, <1>4 DEF Pool!Spend, Consumed

\* Every step is one of the pool, or does not touch it.
LEMMA PoolStep ==
  ASSUME TypeOK, [Next]_vars
  PROVE  [Pool!Next]_(Pool!pool)
<1>1. ASSUME NEW t \in Tab, Publish(t) PROVE Pool!Offer \/ UNCHANGED Pool!pool
  <2>1. Newest(pub[t].keys) \in SUBSET Opk
    BY DEF Newest, TypeOK, PubState
  <2>2. PICK ok \in BOOLEAN : Upload(Newest(pub[t].keys), ok)
    BY <1>1 DEF Publish
  <2>3. got' = got
    BY <1>1 DEF Publish, fetchVars
  <2> QED
    BY <2>1, <2>2, <2>3, UploadOffers
<1>2. ASSUME NEW t \in Tab, TopUpSend(t) PROVE Pool!Offer \/ UNCHANGED Pool!pool
  <2>1. pub[t].new \in SUBSET Opk
    BY DEF TypeOK, PubState
  <2>2. PICK ok \in BOOLEAN : Upload(pub[t].new, ok)
    BY <1>2 DEF TopUpSend
  <2>3. got' = got
    BY <1>2 DEF TopUpSend, fetchVars
  <2> QED
    BY <2>1, <2>2, <2>3, UploadOffers
<1>3. ASSUME NEW f \in Fetch, FetchBundle(f) PROVE Pool!Hand(f) \/ Pool!Refuse(f)
  <2>1. got[f] = Todo
    BY <1>3 DEF FetchBundle
  <2>2. PICK t \in Reading : Draw(f, t) \/ SpkOnly(f)
    BY <1>3 DEF FetchBundle
  <2>3. CASE Draw(f, t)
    <3>1. PICK k \in Free : row' = [row EXCEPT ![k] = "consumed"] /\ got' = [got EXCEPT ![f] = k]
      BY <2>3 DEF Draw
    <3>2. Pool!Answer(f, k)
      BY <2>1, <3>1 DEF Pool!Answer
    <3>3. Pool!Spend(k)
      BY <3>1, MarkSpends
    <3> QED
      BY <3>2, <3>3 DEF Pool!Hand
  <2>4. CASE SpkOnly(f)
    <3>1. Pool!Answer(f, NoOpk)
      BY <2>1, <2>4 DEF SpkOnly, Pool!Answer
    <3>2. CASE row' = row
      <4>1. Free' = Free /\ Consumed' = Consumed
        BY <3>2 DEF Free, Consumed
      <4> QED
        BY <3>1, <4>1 DEF Pool!Refuse, Consumed
    <3>3. ASSUME NEW k \in Free, row' = [row EXCEPT ![k] = "consumed"] PROVE Pool!Refuse(f)
      <4>1. Pool!Spend(k)
        BY <3>3, MarkSpends
      <4> QED
        BY <3>1, <4>1 DEF Pool!Refuse
    <3> QED
      BY <2>4, <3>2, <3>3 DEF SpkOnly
  <2> QED
    BY <2>2, <2>3, <2>4
<1>4. ASSUME row' = row, got' = got PROVE UNCHANGED Pool!pool
  BY <1>4 DEF Pool!pool, Free
<1>5. \/ row' = row /\ got' = got
      \/ \E t \in Tab : Publish(t) \/ TopUpSend(t)
      \/ \E f \in Fetch : FetchBundle(f)
  BY DEF Next, Owner, PoolRead, PoolWrite, CountOpks, TopUpRead, TopUpWrite, ConsumeRead,
         ConsumeWrite, Alarm, Tick, serverVars, fetchVars, vars
<1> QED
  BY <1>1, <1>2, <1>3, <1>4, <1>5 DEF Pool!Next

\* Client, routes and PrekeyDO together implement the abstract pool: a key is
\* offered once, handed to one fetch, and a fetch is answered once.
THEOREM ImplementsPoolHolds == Spec => ImplementsPool
<1>1. Init => Pool!Init
  BY DEF Init, Pool!Init, Free
<1>2. IInv /\ [Next]_vars => [Pool!Next]_(Pool!pool)
  BY PoolStep DEF IInv
<1>3. Spec => Pool!Spec
  BY Invariance, <1>1, <1>2, PTL DEF Spec, Pool!Spec
<1> QED
  BY <1>3 DEF ImplementsPool

-----------------------------------------------------------------------------
(* No requester draws more than Cap one-time prekeys in one window, for any *)
(* values of the limits.                                                   *)
(*                                                                         *)
(* The counter of a requester bounds what it drew in the counter's window, *)
(* and it never drew in a later one (Counted).  The counters may be        *)
(* deleted, since the alarm fires so late (AlarmLate) that the clock is by *)
(* then past every window that was ever counted, and stays so although its *)
(* readings may lag (Forgotten).                                           *)

Drew(r) == {f \in Fetch : By[f] = r /\ got[f] \in Opk}
DrewIn(r, w) == {f \in Fetch : By[f] = r /\ got[f] \in Opk /\ win[f] = w}

WindowPast == \A f \in Fetch : got[f] \in Opk => win[f] * Window <= now

AlarmLate ==
  alarm # None =>
    \A f \in Fetch : got[f] \in Opk => win[f] * Window + 2 * Window <= alarm + Skew

Counted ==
  \A r \in Requester : caps[r] # None =>
    /\ caps[r].count <= Cap
    /\ caps[r].bucket * Window <= now
    /\ Cardinality(DrewIn(r, caps[r].bucket)) <= caps[r].count
    /\ \A f \in Drew(r) : win[f] <= caps[r].bucket

Forgotten ==
  \A r \in Requester : caps[r] = None =>
    \A f \in Drew(r) : win[f] * Window + Window + Skew <= now

Capped == \A r \in Requester : \A w \in Nat : Cardinality(DrewIn(r, w)) <= Cap

CapInv == WindowPast /\ AlarmLate /\ Counted /\ Forgotten /\ Capped

-----------------------------------------------------------------------------
(* Windows and counting *)

\* An instant lies in its window.
LEMMA InWindow ==
  ASSUME NEW t \in Nat
  PROVE  /\ (t \div Window) * Window <= t
         /\ t < (t \div Window) * Window + Window
  BY PrekeyAssumption

\* A window that ended before an instant is earlier than that of the instant.
LEMMA EarlierWindow ==
  ASSUME NEW t \in Nat, NEW w \in Nat, w * Window + Window <= t
  PROVE  w < t \div Window
<1> DEFINE q == t \div Window
<1>1. q \in Nat
  BY WindowType
<1>2. t < q * Window + Window
  BY InWindow
<1> HIDE DEF q
<1>3. ASSUME q <= w PROVE q * Window <= w * Window
  BY <1>1, <1>3, PrekeyAssumption
<1>4. w * Window \in Nat /\ q * Window \in Nat
  BY <1>1, PrekeyAssumption
<1>5. ~(q <= w)
  BY <1>2, <1>3, <1>4, PrekeyAssumption
<1> QED
  BY <1>1, <1>5 DEF q

\* The fetches of a requester in a window are finitely many, and one more
\* fetch makes them one more.
LEMMA DrewFinite ==
  ASSUME NEW S \in SUBSET Fetch
  PROVE  /\ IsFiniteSet(S) /\ Cardinality(S) \in Nat
         /\ \A f \in Fetch \ S : Cardinality(S \cup {f}) = Cardinality(S) + 1
<1>1. IsFiniteSet(S)
  BY PrekeyAssumption, FS_Subset
<1> QED
  BY <1>1, FS_CardinalityType, FS_AddElement

-----------------------------------------------------------------------------
(* The steps *)

\* Only a fetch, the alarm and the clock touch what is counted.
LEMMA CapFrame ==
  ASSUME [Next]_vars
  PROVE  \/ UNCHANGED <<got, win, caps, alarm, now>>
         \/ \E f \in Fetch : FetchBundle(f)
         \/ Alarm
         \/ Tick
  BY DEF Next, Owner, PoolRead, PoolWrite, Publish, CountOpks, TopUpRead, TopUpWrite, TopUpSend,
         ConsumeRead, ConsumeWrite, fetchVars, serverVars, vars

\* What a draw finds counted before: at most Drawn, in the window it falls into,
\* which no earlier draw lies after.
LEMMA BeforeDraw ==
  ASSUME TypeOK, CapInv, NEW r \in Requester, NEW t \in Reading
  PROVE  /\ Bucket(r, t) \in Nat /\ Drawn(r, t) \in Nat
         /\ Bucket(r, t) * Window <= now
         /\ \A f \in Drew(r) : win[f] <= Bucket(r, t)
         /\ Cardinality(DrewIn(r, Bucket(r, t))) <= Drawn(r, t)
<1> DEFINE q == t \div Window
           b == Bucket(r, t)
<1>1. t \in Nat /\ t <= now /\ now - Skew <= t /\ now \in Nat
  BY PrekeyAssumption DEF Reading, TypeOK
<1>2. q \in Nat /\ q * Window <= t
  BY <1>1, WindowType, InWindow
<1>3. b \in Nat /\ Drawn(r, t) \in Nat
  BY <1>1, BucketType
<1>4. Drew(r) \subseteq Fetch /\ \A f \in Fetch : win[f] \in Nat
  BY DEF Drew, TypeOK
<1>5. CASE caps[r] = None
  <2>1. b = q /\ Drawn(r, t) = 0
    BY <1>5 DEF Bucket, Drawn
  <2>2. \A f \in Drew(r) : win[f] < q
    <3> TAKE f \in Drew(r)
    <3>1. win[f] \in Nat /\ win[f] * Window \in Nat
      BY <1>4, PrekeyAssumption
    <3>2. win[f] * Window + Window + Skew <= now
      BY <1>5 DEF CapInv, Forgotten
    <3>3. win[f] * Window + Window <= t
      BY <1>1, <3>1, <3>2, PrekeyAssumption
    <3> QED
      BY <1>1, <3>1, <3>3, EarlierWindow
  <2>3. DrewIn(r, b) = {}
    BY <1>2, <1>4, <2>1, <2>2 DEF DrewIn, Drew
  <2>4. Cardinality(DrewIn(r, b)) = 0
    BY <2>3, FS_EmptySet
  <2>5. b * Window <= now
    BY <1>1, <1>2, <2>1, PrekeyAssumption
  <2>6. \A f \in Drew(r) : win[f] <= b
    BY <1>2, <1>4, <2>1, <2>2
  <2> QED
    BY <1>3, <2>1, <2>4, <2>5, <2>6
<1>6. CASE caps[r] # None
  <2>1. caps[r].bucket \in Nat /\ caps[r].count \in Nat
    BY <1>6 DEF TypeOK
  <2>2. /\ caps[r].bucket * Window <= now
        /\ Cardinality(DrewIn(r, caps[r].bucket)) <= caps[r].count
        /\ \A f \in Drew(r) : win[f] <= caps[r].bucket
    BY <1>6 DEF CapInv, Counted
  <2>3. CASE caps[r].bucket >= q
    <3>1. b = caps[r].bucket /\ Drawn(r, t) = caps[r].count
      BY <1>2, <1>6, <2>1, <2>3 DEF Bucket, Drawn
    <3> QED
      BY <1>3, <2>2, <3>1
  <2>4. CASE caps[r].bucket < q
    <3>1. b = q /\ Drawn(r, t) = 0
      BY <1>2, <1>6, <2>1, <2>4 DEF Bucket, Drawn
    <3>2. \A f \in Drew(r) : win[f] < q
      BY <1>2, <1>4, <2>1, <2>2, <2>4
    <3>3. DrewIn(r, b) = {}
      BY <1>2, <1>4, <3>1, <3>2 DEF DrewIn, Drew
    <3>4. Cardinality(DrewIn(r, b)) = 0
      BY <3>3, FS_EmptySet
    <3>5. b * Window <= now
      BY <1>1, <1>2, <3>1, PrekeyAssumption
    <3>6. \A f \in Drew(r) : win[f] <= b
      BY <1>2, <1>4, <3>1, <3>2
    <3> QED
      BY <1>3, <3>1, <3>4, <3>5, <3>6
  <2> QED
    BY <1>2, <2>1, <2>3, <2>4
<1> QED
  BY <1>5, <1>6

\* A draw counts itself in the window it falls into, below the cap.
LEMMA DrawStep ==
  ASSUME TypeOK, CapInv, NEW f \in Fetch, got[f] = Todo, NEW t \in Reading, Draw(f, t),
         alarm' = CleanupAt(t), now' = now
  PROVE  CapInv'
<1> DEFINE r == By[f]
<1>1. r \in Requester
  BY PrekeyAssumption
<1>1a. PICK b \in Nat : b = Bucket(r, t)
  BY <1>1, BeforeDraw
<1>2. /\ b \in Nat /\ Drawn(r, t) \in Nat
      /\ b * Window <= now
      /\ \A g \in Drew(r) : win[g] <= b
      /\ Cardinality(DrewIn(r, b)) <= Drawn(r, t)
  BY <1>1a, <1>1, BeforeDraw
<1>3. PICK k \in Free : got' = [got EXCEPT ![f] = k]
  BY DEF Draw
<1>4. /\ k \in Opk
      /\ Drawn(r, t) < Cap
      /\ caps' = [caps EXCEPT ![r] = [bucket |-> b, count |-> Drawn(r, t) + 1]]
      /\ win' = [win EXCEPT ![f] = b]
  BY <1>1a, <1>3 DEF Draw, Free
<1>5. /\ got'[f] \in Opk /\ win'[f] = b /\ got[f] \notin Opk
      /\ \A g \in Fetch : g # f => got'[g] = got[g] /\ win'[g] = win[g]
  BY <1>3, <1>4, PrekeyAssumption DEF TypeOK, Opk
<1>6. /\ caps'[r] = [bucket |-> b, count |-> Drawn(r, t) + 1]
      /\ \A q \in Requester : q # r => caps'[q] = caps[q]
  BY <1>1, <1>4 DEF TypeOK
<1>7. t \in Nat /\ t <= now /\ now - Skew <= t /\ now \in Nat
  BY PrekeyAssumption DEF Reading, TypeOK
<1>8. /\ DrewIn(r, b)' = DrewIn(r, b) \cup {f}
      /\ f \notin DrewIn(r, b) /\ DrewIn(r, b) \in SUBSET Fetch
      /\ \A q \in Requester, w \in Nat : q # r \/ w # b => DrewIn(q, w)' = DrewIn(q, w)
      /\ Drew(r)' = Drew(r) \cup {f}
      /\ \A q \in Requester : q # r => Drew(q)' = Drew(q)
  BY <1>5 DEF DrewIn, Drew
<1>9. Cardinality(DrewIn(r, b)') = Cardinality(DrewIn(r, b)) + 1 /\ Cardinality(DrewIn(r, b)) \in Nat
  BY <1>8, DrewFinite
<1>10. WindowPast'
  BY <1>2, <1>5 DEF CapInv, WindowPast
<1>11. AlarmLate'
  <2>1. \A g \in Fetch : got'[g] \in Opk => win'[g] * Window <= now /\ win'[g] * Window \in Nat
    BY <1>2, <1>5, <1>10, PrekeyAssumption DEF WindowPast, TypeOK
  <2>2. alarm' = t + 2 * Window
    BY DEF CleanupAt
  <2> QED
    BY <1>7, <2>1, <2>2, PrekeyAssumption DEF AlarmLate
<1>12. Cardinality(DrewIn(r, b)') <= Drawn(r, t) + 1 /\ Cardinality(DrewIn(r, b)') <= Cap
  BY <1>2, <1>4, <1>9, PrekeyAssumption
<1>13. Counted'
  <2> SUFFICES ASSUME NEW q \in Requester, caps'[q] # None
               PROVE  /\ caps'[q].count <= Cap
                      /\ caps'[q].bucket * Window <= now
                      /\ Cardinality(DrewIn(q, caps[q].bucket)') <= caps'[q].count
                      /\ \A g \in Drew(q)' : win'[g] <= caps'[q].bucket
    BY DEF Counted
  <2>1. CASE q = r
    <3>1. \A g \in Drew(r)' : win'[g] <= b
      BY <1>2, <1>5, <1>8 DEF Drew
    <3>2. DrewIn(r, caps[r].bucket)' = DrewIn(r, b)'
      BY <1>6 DEF DrewIn
    <3>3. Drawn(r, t) + 1 <= Cap
      BY <1>2, <1>4, PrekeyAssumption
    <3> QED
      BY <1>2, <1>6, <1>12, <2>1, <3>1, <3>2, <3>3
  <2>2. CASE q # r
    <3>1. caps'[q] = caps[q] /\ caps[q].bucket \in Nat
      BY <1>6, <2>2 DEF TypeOK
    <3>2. DrewIn(q, caps[q].bucket)' = DrewIn(q, caps[q].bucket) /\ Drew(q)' = Drew(q)
      BY <1>5, <2>2, <3>1 DEF DrewIn, Drew
    <3>3. \A g \in Drew(q) : win'[g] = win[g]
      BY <1>5, <2>2 DEF Drew
    <3> QED
      BY <3>1, <3>2, <3>3 DEF CapInv, Counted
  <2> QED
    BY <2>1, <2>2
<1>14. Forgotten'
  <2>1. caps'[r] # None
    <3>1. caps'[r] \in [bucket : Nat, count : Nat]
      BY <1>2, <1>6
    <3> QED
      BY <3>1, PrekeyAssumption
  <2>2. \A q \in Requester : q # r => \A g \in Drew(q) : win'[g] = win[g]
    BY <1>5 DEF Drew
  <2> QED
    BY <1>6, <1>8, <2>1, <2>2 DEF CapInv, Forgotten
<1>15. Capped'
  BY <1>8, <1>12 DEF CapInv, Capped
<1> QED
  BY <1>10, <1>11, <1>13, <1>14, <1>15 DEF CapInv

\* A fetch without an OPK counts nothing, and moves the alarm at most.
LEMMA SpkOnlyStep ==
  ASSUME TypeOK, CapInv, NEW f \in Fetch, got[f] = Todo, NEW t \in Reading, SpkOnly(f),
         alarm' = CleanupAt(t) \/ alarm' = alarm, now' = now
  PROVE  CapInv'
<1>1. /\ \A g \in Fetch : (got'[g] \in Opk <=> got[g] \in Opk)
      /\ UNCHANGED <<win, caps>>
  BY PrekeyAssumption DEF SpkOnly, TypeOK, Opk
<1>2. \A q \in Requester : Drew(q)' = Drew(q) /\ \A w : DrewIn(q, w)' = DrewIn(q, w)
  BY <1>1 DEF Drew, DrewIn
<1>3. WindowPast'
  BY <1>1 DEF CapInv, WindowPast
<1>4. AlarmLate'
  <2>1. t \in Nat /\ now - Skew <= t /\ now \in Nat
    BY PrekeyAssumption DEF Reading, TypeOK
  <2>2. \A g \in Fetch : got'[g] \in Opk => win'[g] * Window <= now /\ win'[g] * Window \in Nat
    BY <1>1, <1>3, PrekeyAssumption DEF WindowPast, TypeOK
  <2>3. CASE alarm' = t + 2 * Window
    BY <2>1, <2>2, <2>3, PrekeyAssumption DEF AlarmLate
  <2>4. CASE alarm' = alarm
    BY <1>1, <2>4 DEF CapInv, AlarmLate
  <2> QED
    BY <2>3, <2>4 DEF CleanupAt
<1>5. Counted'
  <2>1. \A q \in Requester : DrewIn(q, caps[q].bucket)' = DrewIn(q, caps[q].bucket)
    BY <1>1 DEF DrewIn
  <2> QED
    BY <1>1, <1>2, <2>1 DEF CapInv, Counted
<1>6. Forgotten' /\ Capped'
  BY <1>1, <1>2 DEF CapInv, Forgotten, Capped
<1> QED
  BY <1>3, <1>4, <1>5, <1>6 DEF CapInv

\* The counters are deleted when every window that was counted is over, even
\* for a clock that lags.
LEMMA AlarmStep ==
  ASSUME TypeOK, CapInv, Alarm
  PROVE  CapInv'
<1>1. /\ alarm # None /\ now >= alarm /\ alarm' = None
      /\ caps' = [r \in Requester |-> None]
      /\ UNCHANGED <<got, win, now>>
  BY DEF Alarm, fetchVars
<1>2. alarm \in Nat /\ now \in Nat
  BY <1>1, PrekeyAssumption DEF TypeOK
<1>3. \A f \in Fetch : got[f] \in Opk => win[f] * Window + Window + Skew <= now
  <2> SUFFICES ASSUME NEW f \in Fetch, got[f] \in Opk
               PROVE  win[f] * Window + Window + Skew <= now
    OBVIOUS
  <2>1. win[f] * Window + 2 * Window <= alarm + Skew
    BY <1>1 DEF CapInv, AlarmLate
  <2>2. win[f] * Window \in Nat
    BY PrekeyAssumption DEF TypeOK
  <2> QED
    BY <1>1, <1>2, <2>1, <2>2, PrekeyAssumption
<1>4. WindowPast' /\ Capped'
  BY <1>1 DEF CapInv, WindowPast, Capped, DrewIn
<1>5. AlarmLate' /\ Counted'
  BY <1>1 DEF AlarmLate, Counted
<1>6. Forgotten'
  BY <1>1, <1>3 DEF Forgotten, Drew
<1> QED
  BY <1>4, <1>5, <1>6 DEF CapInv

\* Time only makes windows older.
LEMMA TickStep ==
  ASSUME TypeOK, CapInv, Tick
  PROVE  CapInv'
<1>1. now' = now + 1 /\ now \in Nat /\ UNCHANGED <<got, win, caps, alarm>>
  BY PrekeyAssumption DEF Tick, TypeOK, fetchVars, serverVars
<1>2. \A f \in Fetch : win[f] * Window \in Nat
  BY PrekeyAssumption DEF TypeOK
<1>3. WindowPast' /\ AlarmLate' /\ Capped'
  BY <1>1, <1>2 DEF CapInv, WindowPast, AlarmLate, Capped, DrewIn
<1>4. Counted'
  <2> SUFFICES ASSUME NEW r \in Requester, caps[r] # None
               PROVE  /\ caps[r].count <= Cap
                      /\ caps[r].bucket * Window <= now + 1
                      /\ Cardinality(DrewIn(r, caps[r].bucket)) <= caps[r].count
                      /\ \A f \in Drew(r) : win[f] <= caps[r].bucket
    BY <1>1 DEF Counted, Drew, DrewIn
  <2>1. caps[r].bucket * Window \in Nat
    BY PrekeyAssumption DEF TypeOK
  <2> QED
    BY <1>1, <2>1 DEF CapInv, Counted
<1>5. Forgotten'
  BY <1>1, <1>2, PrekeyAssumption DEF CapInv, Forgotten, Drew
<1> QED
  BY <1>3, <1>4, <1>5 DEF CapInv

LEMMA CapStep ==
  ASSUME ~AlarmFails, TypeOK, CapInv, [Next]_vars
  PROVE  CapInv'
<1>1. CASE UNCHANGED <<got, win, caps, alarm, now>>
  BY <1>1 DEF CapInv, WindowPast, AlarmLate, Counted, Forgotten, Capped, Drew, DrewIn
<1>2. ASSUME NEW f \in Fetch, FetchBundle(f) PROVE CapInv'
  <2>1. PICK t \in Reading :
          \/ Draw(f, t) /\ alarm' = CleanupAt(t)
          \/ SpkOnly(f) /\ (alarm' = CleanupAt(t) \/ alarm' = alarm)
    BY <1>2 DEF FetchBundle, SetAlarm, KeepAlarm
  <2>2. got[f] = Todo /\ now' = now
    BY <1>2 DEF FetchBundle
  <2> QED
    BY <2>1, <2>2, DrawStep, SpkOnlyStep
<1> QED
  BY <1>1, <1>2, AlarmStep, TickStep, CapFrame

LEMMA InitCapInv == Init => CapInv
<1> SUFFICES ASSUME Init PROVE CapInv
  OBVIOUS
<1>1. \A f \in Fetch : got[f] \notin Opk
  BY PrekeyAssumption DEF Init, Opk
<1>2. \A r \in Requester : Drew(r) = {} /\ \A w \in Nat : DrewIn(r, w) = {}
  BY <1>1 DEF Drew, DrewIn
<1>3. Capped
  <2> SUFFICES ASSUME NEW r \in Requester, NEW w \in Nat
               PROVE  Cardinality(DrewIn(r, w)) <= Cap
    BY DEF Capped
  <2>1. DrewIn(r, w) = {}
    BY <1>2
  <2>2. Cardinality(DrewIn(r, w)) = 0
    BY <2>1, FS_EmptySet
  <2> QED
    BY <2>2, PrekeyAssumption
<1> QED
  BY <1>1, <1>2, <1>3 DEF Init, CapInv, WindowPast, AlarmLate, Counted, Forgotten

-----------------------------------------------------------------------------

\* opkCapDecision together with the cleanup alarm: for any window length, cap,
\* number of requesters and lag of the clock up to half a window, no requester
\* draws more than Cap OPKs in one window, provided that setting the alarm
\* after a draw does not fail.
THEOREM CapHolds ==
  ASSUME ~AlarmFails
  PROVE  Spec => []CapPerWindow
<1>1. IInv /\ CapInv /\ [Next]_vars => CapInv'
  BY CapStep DEF IInv
<1>2. IInv /\ CapInv => CapPerWindow
  <2> SUFFICES ASSUME IInv, CapInv, NEW r \in Requester, NEW w \in {win[f] : f \in Fetch}
               PROVE  Cardinality({f \in Fetch : By[f] = r /\ got[f] \in Opk /\ win[f] = w}) <= Cap
    BY DEF CapPerWindow
  <2>1. w \in Nat
    BY DEF IInv, TypeOK
  <2> QED
    BY <2>1 DEF CapInv, Capped, DrewIn
<1> QED
  BY Invariance, InitCapInv, <1>1, <1>2, PTL DEF Spec

-----------------------------------------------------------------------------
(* Guests: the message limit *)

\* Messages stored are too weak a set: a message that passed the check will be
\* stored whatever the counter says by then. Bounded therefore speaks of all that
\* were accepted, in flight or done. The counter is at least the number of messages
\* done, so when a check still finds room fewer than Limit are done, and fewer than
\* MaxAtOnce are in flight.
Messages == Chats \cup Controls
Stages == {"idle", "checked", "stored", "done", "refused", "uncounted"}
Done == Is({"done"})
Accepted == InFlight \cup (Done \cap Chats)
Bounded == Limit > 0 => Cardinality(Accepted) <= Limit + MaxAtOnce - 1

QInv == QTypeOK /\ NoIncrementLost /\ Bounded

\* There are finitely many messages.
LEMMA MessagesFinite == IsFiniteSet(Messages)
  BY FS_Union, QuotaAssumption DEF Messages

\* So are those at any stages, and their number is a natural number.
LEMMA SomeFinite ==
  ASSUME NEW S \in SUBSET Messages
  PROVE  IsFiniteSet(S) /\ Cardinality(S) \in Nat
  BY MessagesFinite, FS_Subset, FS_CardinalityType

\* The messages at some stages, and the accepted ones, are messages.
LEMMA SomeAreMessages ==
  /\ \A stages : Is(stages) \subseteq Messages
  /\ InFlight \subseteq Messages /\ Done \subseteq Messages /\ Accepted \subseteq Messages
  BY DEF Is, InFlight, Done, Accepted, Messages

\* What a step of one message means for the sets of those done and in flight.
LEMMA Moves ==
  ASSUME NEW m \in Messages, \A x \in Messages \ {m} : pc'[x] = pc[x]
  PROVE  /\ Done' = IF pc'[m] = "done" THEN Done \cup {m} ELSE Done \ {m}
         /\ InFlight' = IF pc'[m] \in {"checked", "stored"} THEN InFlight \cup {m} ELSE InFlight \ {m}
<1>1. Done = {x \in Messages : pc[x] \in {"done"}} /\ Done' = {x \in Messages : pc'[x] \in {"done"}}
  BY DEF Done, Is, Messages
<1>2. /\ InFlight = {x \in Messages : pc[x] \in {"checked", "stored"}}
      /\ InFlight' = {x \in Messages : pc'[x] \in {"checked", "stored"}}
  BY DEF InFlight, Is, Messages
<1> QED
  BY <1>1, <1>2

\* At the start nothing is accepted and the counter is zero.
LEMMA QInvInit == QInit => QInv
<1> SUFFICES ASSUME QInit PROVE QInv
  OBVIOUS
<1>1. InFlight = {} /\ Done = {} /\ Accepted = {}
  BY DEF QInit, Is, InFlight, Done, Accepted
<1>2. Cardinality({}) = 0
  BY FS_EmptySet
<1>3. QTypeOK
  BY DEF QInit, QTypeOK
<1>4. NoIncrementLost
  BY <1>1, <1>2 DEF QInit, NoIncrementLost, Done
<1>5. Bounded
  BY <1>1, <1>2, QuotaAssumption DEF Bounded
<1> QED
  BY <1>3, <1>4, <1>5 DEF QInv

\* A check that finds room leaves the accepted messages within the bound.
LEMMA CheckKeeps ==
  ASSUME QInv, NEW m \in Messages, Check(m)
  PROVE  QInv'
<1>1. pc \in [Messages -> Stages] /\ pc[m] = "idle" /\ m \in Chats
  BY DEF QInv, QTypeOK, Check, Messages, Stages
<1>2. QTypeOK'
  BY DEF QInv, QTypeOK, Check
<1>3. m \notin Done /\ m \notin InFlight /\ m \notin Accepted
  BY <1>1 DEF Done, InFlight, Is, Accepted
<1>4. CASE ~ended /\ Room
  <2>1. pc' = [pc EXCEPT ![m] = "checked"] /\ msgCount' = msgCount
    BY <1>4 DEF Check
  <2>2. Done' = Done /\ InFlight' = InFlight \cup {m}
    <3>1. \A x \in Messages \ {m} : pc'[x] = pc[x]
      BY <1>1, <2>1
    <3> QED
      BY <1>1, <1>3, <2>1, <3>1, Moves
  <2>3. NoIncrementLost'
    BY <2>1, <2>2 DEF QInv, NoIncrementLost, Done
  <2>4. ASSUME Limit > 0 PROVE Cardinality(Accepted') <= Limit + MaxAtOnce - 1
    <3>1. Accepted' = Accepted \cup {m}
      BY <2>2 DEF Accepted, Done
    <3>2. IsFiniteSet(Accepted) /\ IsFiniteSet(InFlight) /\ IsFiniteSet(Done) /\ IsFiniteSet(Done \cap Chats)
      BY SomeAreMessages, SomeFinite, FS_Subset
    <3>3. Cardinality(Accepted') = Cardinality(Accepted) + 1
      BY <3>1, <3>2, <1>3, FS_AddElement
    <3>4. Cardinality(Done \cap Chats) <= Cardinality(Done)
      BY <3>2, FS_Subset
    <3>5. Cardinality(Accepted) <= Cardinality(InFlight) + Cardinality(Done \cap Chats)
      <4>1. Cardinality(Accepted) =
              Cardinality(InFlight) + Cardinality(Done \cap Chats) - Cardinality(InFlight \cap (Done \cap Chats))
        BY <3>2, FS_Union DEF Accepted
      <4>2. Cardinality(InFlight \cap (Done \cap Chats)) \in Nat
        BY <3>2, FS_Subset, FS_CardinalityType
      <4> QED
        BY <4>1, <4>2, <3>2, FS_CardinalityType
    <3>6. Cardinality(InFlight) < MaxAtOnce
      BY DEF Check
    <3>7. Cardinality(Done) < Limit
      BY <1>4, <2>4 DEF Room, QInv, NoIncrementLost, Done
    <3> QED
      BY <3>2, <3>3, <3>4, <3>5, <3>6, <3>7, FS_CardinalityType, QuotaAssumption
  <2> QED
    BY <1>2, <2>3, <2>4 DEF QInv, Bounded
<1>5. CASE ~(~ended /\ Room)
  <2>1. pc' = [pc EXCEPT ![m] = "refused"] /\ msgCount' = msgCount
    BY <1>5 DEF Check
  <2>2. Done' = Done /\ InFlight' = InFlight
    <3>1. \A x \in Messages \ {m} : pc'[x] = pc[x]
      BY <1>1, <2>1
    <3> QED
      BY <1>1, <1>3, <2>1, <3>1, Moves
  <2> QED
    BY <1>2, <2>1, <2>2 DEF QInv, NoIncrementLost, Bounded, Accepted, Done
<1> QED
  BY <1>4, <1>5

\* Storing an accepted message does not accept another.
LEMMA StoreKeeps ==
  ASSUME QInv, NEW m \in Messages, Store(m)
  PROVE  QInv'
<1>1. pc \in [Messages -> Stages] /\ pc[m] = "checked" /\ pc' = [pc EXCEPT ![m] = "stored"] /\ msgCount' = msgCount
  BY DEF QInv, QTypeOK, Store, Messages, Stages
<1>2. m \notin Done /\ m \in InFlight
  BY <1>1 DEF Done, InFlight, Is, Messages
<1>3. Done' = Done /\ InFlight' = InFlight
  <2>1. \A x \in Messages \ {m} : pc'[x] = pc[x]
    BY <1>1
  <2> QED
    BY <1>1, <1>2, <2>1, Moves
<1>4. QTypeOK'
  BY DEF QInv, QTypeOK, Store
<1> QED
  BY <1>1, <1>3, <1>4 DEF QInv, NoIncrementLost, Bounded, Accepted, Done

\* Counting a message moves it from those in flight to those done.
LEMMA CountKeeps ==
  ASSUME QInv, NEW m \in Messages, Count(m)
  PROVE  QInv'
<1>1. /\ pc \in [Messages -> Stages] /\ pc[m] = "stored" /\ pc' = [pc EXCEPT ![m] = "done"]
      /\ msgCount' = msgCount + 1
  BY DEF QInv, QTypeOK, Count, Counts, Messages, Stages
<1>2. m \notin Done /\ m \in InFlight
  BY <1>1 DEF Done, InFlight, Is, Messages
<1>3. Done' = Done \cup {m} /\ InFlight' = InFlight \ {m}
  <2>1. \A x \in Messages \ {m} : pc'[x] = pc[x]
    BY <1>1
  <2> QED
    BY <1>1, <2>1, Moves
<1>4. QTypeOK'
  BY DEF QInv, QTypeOK, Count, Counts, Messages
<1>5. IsFiniteSet(Done) /\ IsFiniteSet(Accepted)
  BY SomeAreMessages, SomeFinite
<1>6. NoIncrementLost'
  <2>1. Cardinality(Done') = Cardinality(Done) + 1
    BY <1>2, <1>3, <1>5, FS_AddElement
  <2> QED
    BY <1>1, <2>1 DEF QInv, NoIncrementLost, Done
<1>7. Accepted' \subseteq Accepted
  BY <1>2, <1>3 DEF Accepted
<1>8. Bounded'
  BY <1>5, <1>7, FS_Subset, FS_CardinalityType, QuotaAssumption DEF QInv, Bounded
<1> QED
  BY <1>4, <1>6, <1>8 DEF QInv

\* A request that dies between the two calls drops out of the account.
LEMMA DieKeeps ==
  ASSUME QInv, NEW m \in Messages, Die(m)
  PROVE  QInv'
<1>1. /\ pc \in [Messages -> Stages] /\ pc[m] = "stored" /\ pc' = [pc EXCEPT ![m] = "uncounted"]
      /\ msgCount' = msgCount
  BY DEF QInv, QTypeOK, Die, Messages, Stages
<1>2. Done' = Done /\ InFlight' = InFlight \ {m}
  <2>1. \A x \in Messages \ {m} : pc'[x] = pc[x]
    BY <1>1
  <2>2. m \notin Done
    BY <1>1 DEF Done, Is
  <2> QED
    BY <1>1, <2>1, <2>2, Moves
<1>3. QTypeOK'
  BY DEF QInv, QTypeOK, Die
<1>4. Accepted' \subseteq Accepted /\ IsFiniteSet(Accepted)
  BY <1>2, SomeAreMessages, SomeFinite DEF Accepted
<1>5. Bounded'
  BY <1>4, FS_Subset, FS_CardinalityType, QuotaAssumption DEF QInv, Bounded
<1> QED
  BY <1>1, <1>2, <1>3, <1>5 DEF QInv, NoIncrementLost, Done

\* A control message is counted and is not a chat message.
LEMMA ControlKeeps ==
  ASSUME QInv, NEW m \in Messages, Control(m)
  PROVE  QInv'
<1>1. /\ pc \in [Messages -> Stages] /\ pc[m] = "idle" /\ pc' = [pc EXCEPT ![m] = "done"]
      /\ msgCount' = msgCount + 1 /\ m \notin Chats
  BY QuotaAssumption DEF QInv, QTypeOK, Control, Messages, Stages
<1>2. m \notin Done /\ m \notin InFlight
  BY <1>1 DEF Done, InFlight, Is
<1>3. Done' = Done \cup {m} /\ InFlight' = InFlight
  <2>1. \A x \in Messages \ {m} : pc'[x] = pc[x]
    BY <1>1
  <2> QED
    BY <1>1, <1>2, <2>1, Moves
<1>4. QTypeOK'
  BY DEF QInv, QTypeOK, Control
<1>5. NoIncrementLost'
  <2>1. IsFiniteSet(Done)
    BY SomeAreMessages, SomeFinite
  <2>2. Cardinality(Done') = Cardinality(Done) + 1
    BY <1>2, <1>3, <2>1, FS_AddElement
  <2> QED
    BY <1>1, <2>2 DEF QInv, NoIncrementLost, Done
<1>6. Accepted' = Accepted
  BY <1>1, <1>3 DEF Accepted
<1> QED
  BY <1>4, <1>5, <1>6 DEF QInv, Bounded

\* Every step keeps the invariant.
LEMMA QInvNext == QInv /\ [QNext]_quota => QInv'
<1> SUFFICES ASSUME QInv, [QNext]_quota PROVE QInv'
  OBVIOUS
<1>1. ASSUME NEW m \in Messages, Check(m) \/ Store(m) \/ Count(m) \/ Die(m) \/ Control(m) PROVE QInv'
  BY <1>1, CheckKeeps, StoreKeeps, CountKeeps, DieKeeps, ControlKeeps
<1>2. ASSUME End \/ UNCHANGED quota PROVE QInv'
  <2>1. pc' = pc /\ msgCount' = msgCount /\ ended' \in BOOLEAN
    BY <1>2 DEF End, quota, QInv, QTypeOK
  <2> QED
    BY <2>1 DEF QInv, QTypeOK, NoIncrementLost, Bounded, Accepted, Done, InFlight, Is
<1> QED
  BY <1>1, <1>2 DEF QNext, Messages

\* The messages stored are accepted ones.
LEMMA QInvImplies == QInv => OvershootBounded
<1> SUFFICES ASSUME QInv, Limit > 0
             PROVE  Cardinality(Is({"stored", "done"}) \cap Chats) <= Limit + MaxAtOnce - 1
  BY DEF OvershootBounded
<1>1. Is({"stored", "done"}) \cap Chats \subseteq Accepted /\ IsFiniteSet(Accepted)
  BY SomeAreMessages, SomeFinite DEF Accepted, InFlight, Done, Is
<1>2. /\ Cardinality(Is({"stored", "done"}) \cap Chats) <= Cardinality(Accepted)
      /\ Cardinality(Accepted) \in Nat /\ Cardinality(Is({"stored", "done"}) \cap Chats) \in Nat
  BY <1>1, FS_Subset, FS_CardinalityType
<1> QED
  BY <1>2, QuotaAssumption DEF QInv, Bounded

\* A guest stores at most Limit + MaxAtOnce - 1 counted messages, although the
\* limit is checked before a message is stored and counted after (chatSend.js:90).
THEOREM OvershootHolds == QSpec => []OvershootBounded
<1>1. QInit => QInv
  BY QInvInit
<1>2. QInv /\ [QNext]_quota => QInv'
  BY QInvNext
<1>3. QInv => OvershootBounded
  BY QInvImplies
<1> QED
  BY <1>1, <1>2, <1>3, PTL DEF QSpec

\* The counter is the number of requests that ran through: however they overlap,
\* no increment of msg_count is lost (chatSend.js:649).
THEOREM NoIncrementLostHolds == QSpec => []NoIncrementLost
<1>1. QInit => QInv
  BY QInvInit
<1>2. QInv /\ [QNext]_quota => QInv'
  BY QInvNext
<1>3. QInv => NoIncrementLost
  BY DEF QInv
<1> QED
  BY <1>1, <1>2, <1>3, PTL DEF QSpec

-----------------------------------------------------------------------------
(* The life of an invite (GuestInvite).                                       *)
Join(g) == ipc[<<"join", g>>]
Converting(g) == ipc[<<"convert", g>>]
Visiting(g) == ipc[<<"visit", g>>]
Relief(h, g) == ipc[<<"relieve", <<h, g>>>>]
Card == [mark : {"none", "free", "used"}, kind : {"dm", "group"}, long : BOOLEAN, coded : BOOLEAN,
         over : BOOLEAN, tries : Nat]
Where == {"idle", "read", "entered", "stored", "marked", "relieving", "relieved", "ended", "forgotten", "moved", "done"}
SessionRows == [st : {"none", "live", "killed"}, conv : BOOLEAN]

InviteTypes ==
  /\ card \in Card /\ wrong \in Nat /\ raced \in BOOLEAN
  /\ irow \in [Guests -> SessionRows]
  /\ ipc \in [Invite!Jobs -> Where] /\ snap \in [Invite!Redeeming -> Card]
  /\ cache \subseteq Guests /\ members \subseteq Invite!Handles

\* A guest has a row from the time her join has stored it, and is a member from
\* the step before, until her session ends or is converted: unless that broke off
\* or is under way.
Alive(g) == irow[g].st = "live" /\ ~irow[g].conv
BeingEnded(g) == \E e \in Invite!Enders : Invite!Of(e) = g /\ Invite!Running(e)
RowStored(g) == Join(g) \in {"idle", "read", "entered"} => irow[g].st = "none" /\ ~irow[g].conv
Untouched(g) == irow[g].st = "none" => Converting(g) = "idle" /\ ~BeingEnded(g)
InsideAlive(g) == g \in members => \/ Join(g) = "entered"
                                   \/ /\ Join(g) \notin {"idle", "read"} /\ Converting(g) # "moved"
                                      /\ Alive(g) \/ g \in broken \/ BeingEnded(g)
Lives == \A g \in Guests : RowStored(g) /\ Untouched(g) /\ InsideAlive(g)

\* What ends a session has ended its row first; a re-entry relieves at one time.
Chains == /\ \A e \in Invite!Enders : ipc[e] \in {"ended", "forgotten"} => irow[Invite!Of(e)].st = "killed"
          /\ \A g, h \in Guests : Invite!Running(<<"relieve", <<h, g>>>>) => Join(g) = "relieving"

\* Before the card is made nothing runs; who runs has read this card.
Unmade == card.mark = "none" => card = Invite!NoCard /\ wrong = 0 /\ \A j \in Invite!Redeeming : ipc[j] = "idle"
Reads == \A j \in Invite!Redeeming : Invite!Running(j) => snap[j].kind = card.kind /\ snap[j].mark \in {"free", "used"}

\* Without overlaps: one redeems at a time, the count that was read is the count,
\* and what is about to be cached, or is, belongs to a session that lives, or
\* whose end broke off or is about to delete the copy.
OneAtATime == \A i, j \in Invite!Redeeming : Invite!Running(i) /\ Invite!Running(j) => i = j
Counting == card.tries = wrong /\ \A j \in Invite!Redeeming : ipc[j] = "read" => snap[j].tries = card.tries
Losing(g) == \E e \in Invite!Enders : Invite!Of(e) = g /\ ipc[e] = "ended"
CachedAlive == \A g \in Guests :
  /\ Join(g) \in {"stored", "marked", "relieving", "relieved"} \/ Visiting(g) = "read" => Alive(g)
  /\ g \in cache => Alive(g) \/ g \in broken \/ (~irow[g].conv /\ Losing(g))
CopyGone == \A e \in Invite!Enders : ipc[e] = "forgotten" => Invite!Of(e) \notin cache

\* Without overlaps, of a direct chat: while the card is free nobody has come in
\* by it but the one whose join is about to mark it; two sessions go on only while
\* a re-entry is about to relieve the other.
Going(g) == (Alive(g) \/ g \in cache) /\ g \notin broken
Owes(g, h) == snap[<<"join", g>>].mark = "used" /\ (Join(g) \in {"stored", "marked"} \/ Relief(h, g) \in {"read", "ended"})
Unused == card.mark = "free" => \A g \in Guests : Going(g) => Join(g) = "stored"
FirstIn == \A g \in Guests : Invite!Running(<<"join", g>>) /\ snap[<<"join", g>>].mark = "free"
                               => \A h \in Guests \ {g} : ~Going(h)
OneGoing == \A g, h \in Guests : g # h /\ Going(g) /\ Going(h) => Owes(g, h) \/ Owes(h, g)

InviteInv == /\ InviteTypes /\ Lives /\ Chains /\ Unmade /\ Reads
             /\ ~raced => OneAtATime /\ Counting /\ CachedAlive /\ CopyGone
             /\ ~raced /\ card.kind = "dm" => Unused /\ FirstIn /\ OneGoing

\* The requests about the card and about sessions are different ones.
LEMMA JobsDiffer ==
  /\ \A g \in Guests : <<"join", g>> \in Invite!Redeeming
  /\ \A j \in Invite!Redeeming : j \in Invite!Jobs
  /\ \A g \in Guests : <<"visit", g>> \in Invite!Jobs /\ <<"visit", g>> \notin Invite!Redeeming \cup Invite!Enders
  /\ \A g \in Guests : <<"convert", g>> \in Invite!Jobs /\ <<"convert", g>> \notin Invite!Redeeming \cup Invite!Enders
  /\ <<"accept", User>> \in Invite!Redeeming /\ <<"enter", User>> \in Invite!Redeeming
  /\ \A j \in Invite!Redeeming : (\E g \in Guests : j = <<"join", g>>) \/ j \in {<<"accept", User>>, <<"enter", User>>}
BY DEF Invite!Redeeming, Invite!Jobs, Invite!Enders

LEMMA EndersDiffer ==
  /\ \A e \in Invite!Enders : e \in Invite!Jobs /\ e \notin Invite!Redeeming /\ Invite!Of(e) \in Guests
  /\ \A g \in Guests : <<"kill", g>> \in Invite!Enders /\ Invite!Of(<<"kill", g>>) = g
  /\ \A g, h \in Guests : <<"relieve", <<h, g>>>> \in Invite!Enders /\ Invite!Of(<<"relieve", <<h, g>>>>) = h
  /\ \A g, h, k \in Guests : <<"relieve", <<h, g>>>> # <<"kill", k>>
  /\ \A g, h, k, l \in Guests : <<"relieve", <<h, g>>>> = <<"relieve", <<k, l>>>> => h = k /\ g = l
BY DEF Invite!Redeeming, Invite!Jobs, Invite!Enders, Invite!Of

\* One request goes on.
LEMMA JobGoes ==
  ASSUME InviteTypes, NEW j \in Invite!Jobs, NEW to \in Where, Invite!Goes(j, to)
  PROVE  ipc' \in [Invite!Jobs -> Where] /\ ipc'[j] = to /\ \A i \in Invite!Jobs : i # j => ipc'[i] = ipc[i]
BY DEF InviteTypes, Invite!Goes

LEMMA CardGoes ==
  ASSUME InviteTypes, NEW j \in Invite!Redeeming, NEW to \in Where, Invite!Goes(j, to)
  PROVE  /\ ipc' \in [Invite!Jobs -> Where] /\ ipc'[j] = to /\ \A i \in Invite!Redeeming : i # j => ipc'[i] = ipc[i]
         /\ \A h \in Guests : Converting(h)' = Converting(h) /\ Visiting(h)' = Visiting(h)
         /\ \A e \in Invite!Enders : ipc'[e] = ipc[e]
         /\ \A h \in Guests : j # <<"join", h>> => Join(h)' = Join(h)
<1>1. ipc' \in [Invite!Jobs -> Where] /\ ipc'[j] = to /\ \A i \in Invite!Jobs : i # j => ipc'[i] = ipc[i]
  BY JobGoes, JobsDiffer
<1>2. \A h \in Guests : <<"convert", h>> \in Invite!Jobs /\ <<"convert", h>> # j /\ <<"visit", h>> \in Invite!Jobs /\ <<"visit", h>> # j
  BY JobsDiffer
<1>3. \A h \in Guests : <<"join", h>> \in Invite!Jobs
  BY JobsDiffer
<1>4. \A e \in Invite!Enders : ipc'[e] = ipc[e]
  BY <1>1, EndersDiffer
<1> QED BY <1>1, <1>2, <1>3, <1>4, JobsDiffer DEF Converting, Visiting, Join

LEMMA JoinGoes ==
  ASSUME InviteTypes, NEW g \in Guests, NEW to \in Where, Invite!Goes(<<"join", g>>, to)
  PROVE  /\ ipc' \in [Invite!Jobs -> Where] /\ ipc'[<<"join", g>>] = to
         /\ \A i \in Invite!Redeeming : i # <<"join", g>> => ipc'[i] = ipc[i]
         /\ \A h \in Guests : Converting(h)' = Converting(h) /\ Visiting(h)' = Visiting(h)
         /\ \A e \in Invite!Enders : ipc'[e] = ipc[e]
         /\ Join(g)' = to /\ \A h \in Guests \ {g} : Join(h)' = Join(h)
<1>1. <<"join", g>> \in Invite!Redeeming /\ \A h \in Guests \ {g} : <<"join", h>> # <<"join", g>>
  BY JobsDiffer
<1> QED BY <1>1, CardGoes DEF Join

LEMMA SessionGoes ==
  ASSUME InviteTypes, NEW g \in Guests, NEW a \in {"visit", "convert"}, NEW to \in Where, Invite!Goes(<<a, g>>, to)
  PROVE  /\ ipc' \in [Invite!Jobs -> Where] /\ ipc'[<<a, g>>] = to
         /\ \A i \in Invite!Redeeming : ipc'[i] = ipc[i]
         /\ \A h \in Guests : Join(h)' = Join(h)
         /\ \A e \in Invite!Enders : ipc'[e] = ipc[e]
         /\ \A h \in Guests : <<a, g>> # <<"convert", h>> => Converting(h)' = Converting(h)
         /\ \A h \in Guests : <<a, g>> # <<"visit", h>> => Visiting(h)' = Visiting(h)
<1>1. <<a, g>> \in Invite!Jobs /\ <<a, g>> \notin Invite!Redeeming /\ <<a, g>> \notin Invite!Enders
  BY JobsDiffer
<1>2. ipc' \in [Invite!Jobs -> Where] /\ ipc'[<<a, g>>] = to /\ \A i \in Invite!Jobs : i # <<a, g>> => ipc'[i] = ipc[i]
  BY <1>1, JobGoes
<1>3. \A h \in Guests : <<"join", h>> \in Invite!Redeeming /\ <<"convert", h>> \in Invite!Jobs /\ <<"visit", h>> \in Invite!Jobs
  BY JobsDiffer
<1>4. \A i \in Invite!Redeeming : ipc'[i] = ipc[i]
  BY <1>1, <1>2, JobsDiffer
<1>5. \A e \in Invite!Enders : ipc'[e] = ipc[e]
  BY <1>1, <1>2, EndersDiffer
<1> QED BY <1>2, <1>3, <1>4, <1>5 DEF Converting, Visiting, Join

LEMMA EnderGoes ==
  ASSUME InviteTypes, NEW e \in Invite!Enders, NEW to \in Where, Invite!Goes(e, to)
  PROVE  /\ ipc' \in [Invite!Jobs -> Where] /\ ipc'[e] = to
         /\ \A i \in Invite!Redeeming : ipc'[i] = ipc[i]
         /\ \A h \in Guests : Join(h)' = Join(h) /\ Converting(h)' = Converting(h) /\ Visiting(h)' = Visiting(h)
         /\ \A d \in Invite!Enders : d # e => ipc'[d] = ipc[d]
<1>1. e \in Invite!Jobs /\ e \notin Invite!Redeeming
  BY EndersDiffer
<1>2. ipc' \in [Invite!Jobs -> Where] /\ ipc'[e] = to /\ \A i \in Invite!Jobs : i # e => ipc'[i] = ipc[i]
  BY <1>1, JobGoes
<1>3. \A h \in Guests : <<"convert", h>> \in Invite!Jobs /\ <<"convert", h>> # e /\ <<"visit", h>> \in Invite!Jobs /\ <<"visit", h>> # e
  BY JobsDiffer
<1>4. \A h \in Guests : ipc'[<<"visit", h>>] = ipc[<<"visit", h>>] /\ ipc'[<<"convert", h>>] = ipc[<<"convert", h>>]
  BY <1>2, <1>3
<1>5. \A i \in Invite!Redeeming : ipc'[i] = ipc[i]
  BY <1>1, <1>2, JobsDiffer
<1>6. \A d \in Invite!Enders : d # e => ipc'[d] = ipc[d]
  BY <1>2, EndersDiffer
<1> QED BY <1>2, <1>4, <1>5, <1>6, JobsDiffer DEF Converting, Visiting, Join

LEMMA InviteStart == Invite!Init => InviteInv
<1> SUFFICES ASSUME Invite!Init PROVE InviteInv
  OBVIOUS
<1>1. /\ card = Invite!NoCard /\ wrong = 0 /\ raced = FALSE /\ cache = {} /\ members = {}
      /\ \A g \in Guests : irow[g] = [st |-> "none", conv |-> FALSE]
      /\ ipc = [j \in Invite!Jobs |-> "idle"]
  BY DEF Invite!Init
<1>2. InviteTypes
  BY DEF Invite!Init, InviteTypes, Card, Where, Invite!NoCard, SessionRows
<1>3. \A j \in Invite!Jobs : ipc[j] = "idle"
  BY <1>1
<1>4. \A g \in Guests : Join(g) = "idle" /\ Converting(g) = "idle" /\ Visiting(g) = "idle"
  BY <1>3, JobsDiffer DEF Join, Converting, Visiting
<1>5. \A e \in Invite!Enders : ipc[e] = "idle" /\ ~Invite!Running(e)
  BY <1>3, EndersDiffer DEF Invite!Running
<1>6. Lives
  BY <1>1, <1>4, <1>5 DEF Lives, RowStored, Untouched, InsideAlive, BeingEnded
<1>7. Chains /\ CopyGone
  BY <1>5, EndersDiffer DEF Chains, CopyGone
<1>8. \A j \in Invite!Redeeming : ipc[j] = "idle" /\ ~Invite!Running(j)
  BY <1>3, JobsDiffer DEF Invite!Running
<1>9. Unmade /\ Reads /\ OneAtATime
  BY <1>1, <1>8 DEF Unmade, Reads, OneAtATime
<1>10. Counting /\ CachedAlive
  BY <1>1, <1>4, <1>8 DEF Counting, CachedAlive, Invite!NoCard
<1>11. \A g \in Guests : ~Going(g)
  BY <1>1 DEF Going, Alive
<1>12. Unused /\ FirstIn /\ OneGoing
  BY <1>11 DEF Unused, FirstIn, OneGoing
<1> QED BY <1>2, <1>6, <1>7, <1>9, <1>10, <1>12 DEF InviteInv

\* What a step that lets no request read the card keeps of who reads it.
LEMMA RedeemKeeps ==
  ASSUME InviteTypes, Unmade, Reads, UNCHANGED <<snap, wrong>>,
         card' \in Card, card'.kind = card.kind, card'.tries = card.tries, card'.mark \in {card.mark, "used"},
         card.mark = "none" => card' = card,
         \A i \in Invite!Redeeming : ipc'[i] = ipc[i] \/ (Invite!Running(i) /\ ipc'[i] \notin {"idle", "read"})
  PROVE  Unmade' /\ Reads' /\ (OneAtATime => OneAtATime') /\ (Counting => Counting')
<1>1. \A i \in Invite!Redeeming : (Invite!Running(i)' => Invite!Running(i)) /\ (ipc'[i] = "read" => ipc[i] = "read")
  BY DEF Invite!Running
<1>2. Unmade'
  BY DEF Unmade, Invite!Running
<1>3. Reads'
  BY <1>1 DEF Reads
<1>4. OneAtATime => OneAtATime'
  BY <1>1 DEF OneAtATime
<1>5. Counting => Counting'
  BY <1>1 DEF Counting
<1> QED BY <1>2, <1>3, <1>4, <1>5

\* What a step that makes no session go on keeps of the sessions of a card.
LEMMA GoingKeeps ==
  ASSUME Unused, FirstIn, OneGoing, UNCHANGED snap,
         card'.mark = "free" => card.mark = "free",
         \A g \in Guests : Going(g)' => Going(g),
         \A g \in Guests : Going(g)' /\ Join(g) = "stored" => Join(g)' = "stored" \/ card'.mark # "free",
         \A g \in Guests : Invite!Running(<<"join", g>>)' => Invite!Running(<<"join", g>>),
         \A g, h \in Guests : g # h /\ Going(g)' /\ Going(h)' /\ Owes(g, h) => Owes(g, h)'
  PROVE  (Unused /\ FirstIn /\ OneGoing)'
<1>1. Unused'
  BY DEF Unused
<1>2. FirstIn'
  BY DEF FirstIn
<1>3. OneGoing'
  BY DEF OneGoing
<1> QED BY <1>1, <1>2, <1>3

\* Steps of the inviter and of time: the card may get its mark, a guest may be
\* put out or lose a cached copy.
LEMMA AsideKeeps ==
  ASSUME InviteInv, UNCHANGED <<irow, ipc, snap, wrong, raced, broken>>, cache' \subseteq cache, members' \subseteq members,
         card' \in Card, card'.kind = card.kind, card'.tries = card.tries, card'.mark \in {card.mark, "used"},
         card.mark = "none" => card' = card
  PROVE  InviteInv'
<1>0. InviteTypes /\ Lives /\ Chains /\ Unmade /\ Reads
  BY DEF InviteInv
<1>1. InviteTypes'
  BY <1>0 DEF InviteTypes
<1>2. /\ \A g \in Guests : (Alive(g)' <=> Alive(g)) /\ (BeingEnded(g)' <=> BeingEnded(g)) /\ (Losing(g)' <=> Losing(g))
      /\ \A g \in Guests : Join(g)' = Join(g) /\ Converting(g)' = Converting(g) /\ Visiting(g)' = Visiting(g)
      /\ \A i : Invite!Running(i)' <=> Invite!Running(i)
  BY DEF Alive, BeingEnded, Losing, Join, Converting, Visiting, Invite!Running
<1>3. Lives'
  BY <1>0, <1>2 DEF Lives, RowStored, Untouched, InsideAlive
<1>4. Chains'
  BY <1>0, <1>2 DEF Chains
<1>5. Unmade' /\ Reads' /\ (OneAtATime => OneAtATime') /\ (Counting => Counting')
  BY <1>0, RedeemKeeps
<1>6. ASSUME ~raced PROVE (CachedAlive /\ CopyGone)'
  <2>1. CachedAlive /\ CopyGone
    BY <1>6 DEF InviteInv
  <2>2. CopyGone'
    BY <2>1 DEF CopyGone
  <2> QED BY <2>1, <2>2, <1>2 DEF CachedAlive
<1>7. ASSUME ~raced, card.kind = "dm" PROVE (Unused /\ FirstIn /\ OneGoing)'
  <2>1. Unused /\ FirstIn /\ OneGoing
    BY <1>7 DEF InviteInv
  <2>2. \A g \in Guests : Going(g)' => Going(g)
    BY <1>2 DEF Going
  <2>3. \A g, h \in Guests : Owes(g, h)' <=> Owes(g, h)
    BY DEF Owes, Join, Relief
  <2>4. card'.mark = "free" => card.mark = "free"
    OBVIOUS
  <2> QED BY <2>1, <2>2, <2>3, <2>4, <1>2, GoingKeeps
<1> QED BY <1>1, <1>3, <1>4, <1>5, <1>6, <1>7 DEF InviteInv

LEMMA CreateKeeps ==
  ASSUME InviteInv, Invite!Create PROVE InviteInv'
<1>0. InviteTypes /\ Lives /\ Chains /\ Unmade /\ Reads
  BY DEF InviteInv
<1>1. /\ card.mark = "none" /\ UNCHANGED <<irow, cache, members, ipc, snap, wrong, raced, broken>>
      /\ card'.mark = "free" /\ card'.tries = 0 /\ card' \in Card
  <2>1. PICK k \in {"dm", "group"}, long \in BOOLEAN, coded \in BOOLEAN :
          card' = [Invite!NoCard EXCEPT !.mark = "free", !.kind = k, !.long = long, !.coded = coded]
    BY DEF Invite!Create
  <2>2. card.mark = "none" /\ UNCHANGED <<irow, cache, members, ipc, snap, wrong, raced, broken>>
    BY DEF Invite!Create, Invite!inside, Invite!ghost
  <2> QED BY <2>1, <2>2 DEF Invite!NoCard, Card
<1>2. wrong = 0 /\ \A j \in Invite!Redeeming : ipc[j] = "idle" /\ ~Invite!Running(j)
  BY <1>0, <1>1 DEF Unmade, Invite!Running
<1>3. \A g \in Guests : Join(g) = "idle" /\ irow[g].st = "none" /\ ~BeingEnded(g)
  BY <1>0, <1>2, JobsDiffer DEF Join, Lives, RowStored, Untouched
<1>3a. \A g \in Guests : ~Losing(g)
  BY <1>3 DEF BeingEnded, Losing, Invite!Running
<1>4. InviteTypes'
  BY <1>0, <1>1 DEF InviteTypes
<1>5. Lives' /\ Chains'
  BY <1>0, <1>1 DEF Lives, Chains, RowStored, Untouched, InsideAlive, Join, Converting, BeingEnded, Alive, Invite!Running
<1>6. (Unmade /\ Reads /\ OneAtATime /\ Counting)'
  BY <1>1, <1>2 DEF Unmade, Reads, OneAtATime, Counting, Invite!Running
<1>7. ASSUME ~raced PROVE (CachedAlive /\ CopyGone)'
  <2>1. CachedAlive /\ CopyGone
    BY <1>7 DEF InviteInv
  <2> QED BY <2>1, <1>1 DEF CachedAlive, CopyGone, Join, Visiting, Alive, Losing
<1>8. ASSUME ~raced PROVE (Unused /\ FirstIn /\ OneGoing)'
  <2>1. CachedAlive
    BY <1>8 DEF InviteInv
  <2>2. \A g \in Guests : ~Going(g)'
    BY <2>1, <1>1, <1>3, <1>3a DEF CachedAlive, Going, Alive
  <2> QED BY <2>2 DEF Unused, FirstIn, OneGoing
<1> QED BY <1>1, <1>4, <1>5, <1>6, <1>7, <1>8 DEF InviteInv

LEMMA TimeKeeps ==
  ASSUME InviteInv,
         \/ Invite!Revoke \/ Invite!CardExpires \/ Invite!Suspend \/ Invite!InviterLeaves \/ Invite!Cleanup
         \/ \E g \in Guests : Invite!SessionExpires(g) \/ Invite!Uncache(g)
  PROVE  InviteInv'
<1>0. card \in Card
  BY DEF InviteInv, InviteTypes
<1>1. UNCHANGED <<irow, ipc, snap, wrong, raced, broken>> /\ cache' \subseteq cache /\ members' \subseteq members
  BY DEF Invite!Revoke, Invite!CardExpires, Invite!Suspend, Invite!InviterLeaves, Invite!Cleanup,
         Invite!SessionExpires, Invite!Uncache, Invite!inside, Invite!ghost, Invite!world
<1>2. CASE Invite!Revoke
  BY <1>0, <1>1, <1>2, AsideKeeps DEF Invite!Revoke, Card
<1>3. CASE Invite!CardExpires
  BY <1>0, <1>1, <1>3, AsideKeeps DEF Invite!CardExpires, Card
<1>4. CASE ~Invite!Revoke /\ ~Invite!CardExpires
  <2>1. card' = card
    BY <1>4 DEF Invite!Suspend, Invite!InviterLeaves, Invite!Cleanup, Invite!SessionExpires, Invite!Uncache, Invite!world
  <2> QED BY <1>0, <1>1, <2>1, AsideKeeps
<1> QED BY <1>2, <1>3, <1>4

\* The card is read, and all but the code checked.
LEMMA ReadCardKeeps ==
  ASSUME InviteInv, NEW j \in Invite!Redeeming, Invite!ReadCard(j) PROVE InviteInv'
<1>0. InviteTypes /\ Lives /\ Chains /\ Unmade /\ Reads
  BY DEF InviteInv
<1>1. /\ ipc[j] = "idle" /\ card.mark # "none" /\ Invite!Goes(j, "read") /\ snap' = [snap EXCEPT ![j] = card]
      /\ raced' = (raced \/ \E i \in Invite!Redeeming : Invite!Running(i))
      /\ UNCHANGED <<card, irow, cache, members, wrong, broken>>
  BY DEF Invite!ReadCard, Invite!world, Invite!inside, Invite!ghost
<1>2. snap' \in [Invite!Redeeming -> Card] /\ snap'[j] = card /\ \A i \in Invite!Redeeming : i # j => snap'[i] = snap[i]
  BY <1>0, <1>1 DEF InviteTypes
<1>3. /\ ipc' \in [Invite!Jobs -> Where] /\ ipc'[j] = "read" /\ \A i \in Invite!Redeeming : i # j => ipc'[i] = ipc[i]
      /\ \A h \in Guests : Converting(h)' = Converting(h) /\ Visiting(h)' = Visiting(h)
      /\ \A e \in Invite!Enders : ipc'[e] = ipc[e]
      /\ \A h \in Guests : j # <<"join", h>> => Join(h)' = Join(h)
  BY <1>0, <1>1, CardGoes DEF Where
<1>3a. \A h \in Guests : j = <<"join", h>> => Join(h) = "idle" /\ Join(h)' = "read"
  BY <1>1, <1>3 DEF Join
<1>3b. \A h \in Guests : (Alive(h)' <=> Alive(h)) /\ (BeingEnded(h)' <=> BeingEnded(h)) /\ (Losing(h)' <=> Losing(h))
  BY <1>1, <1>3 DEF Alive, BeingEnded, Losing, Invite!Running
<1>4. InviteTypes'
  BY <1>0, <1>1, <1>2, <1>3 DEF InviteTypes
<1>5. Lives'
  BY <1>0, <1>1, <1>3, <1>3a, <1>3b DEF Lives, RowStored, Untouched, InsideAlive
<1>5a. Chains'
  BY <1>0, <1>1, <1>3, <1>3a, EndersDiffer DEF Chains, Invite!Running
<1>6. Unmade' /\ Reads'
  <2>1. card.mark \in {"free", "used"}
    BY <1>0, <1>1 DEF InviteTypes, Card
  <2> QED BY <2>1, <1>0, <1>1, <1>2, <1>3 DEF Unmade, Reads, Invite!Running
<1>7. ASSUME ~raced' PROVE ~raced /\ \A i \in Invite!Redeeming : ~Invite!Running(i)
  BY <1>0, <1>1, <1>7 DEF InviteTypes
<1>8. ASSUME ~raced' PROVE (OneAtATime /\ Counting /\ CachedAlive /\ CopyGone)'
  <2>1. OneAtATime /\ Counting /\ CachedAlive /\ CopyGone
    BY <1>7, <1>8 DEF InviteInv
  <2>2. OneAtATime'
    BY <1>3, <1>7, <1>8 DEF OneAtATime, Invite!Running
  <2>3. Counting'
    BY <1>1, <1>2, <1>3, <2>1 DEF Counting
  <2>4. CachedAlive'
    BY <1>1, <1>3, <1>3a, <1>3b, <2>1 DEF CachedAlive
  <2>5. CopyGone'
    BY <1>1, <1>3, <2>1 DEF CopyGone
  <2> QED BY <2>2, <2>3, <2>4, <2>5
<1>9. ASSUME ~raced', card.kind = "dm" PROVE (Unused /\ FirstIn /\ OneGoing)'
  <2>1. Unused /\ FirstIn /\ OneGoing
    BY <1>7, <1>9 DEF InviteInv
  <2>2. \A h \in Guests : ~Invite!Running(<<"join", h>>) /\ Join(h) \in {"idle", "done"}
    BY <1>7, <1>9, JobsDiffer DEF Join, Invite!Running
  <2>2a. \A g, h \in Guests : ~Owes(g, h)
    BY <1>0, <2>2 DEF Owes, Chains, Relief, Invite!Running
  <2>2b. \A h \in Guests : Going(h)' <=> Going(h)
    BY <1>1, <1>3b DEF Going
  <2>3. Unused'
    BY <1>1, <2>1, <2>2, <2>2b DEF Unused
  <2>4. OneGoing'
    BY <1>1, <2>1, <2>2a, <2>2b DEF OneGoing
  <2>5. FirstIn'
    <3> SUFFICES ASSUME NEW g \in Guests, Invite!Running(<<"join", g>>)', snap'[<<"join", g>>].mark = "free"
                 PROVE  \A h \in Guests \ {g} : ~Going(h)
      BY <2>2b DEF FirstIn
    <3>1. <<"join", g>> = j
      BY <1>3, <1>7, <1>9, JobsDiffer DEF Invite!Running
    <3> QED BY <3>1, <1>2, <2>1, <2>2 DEF Unused
  <2> QED BY <2>3, <2>4, <2>5
<1> QED BY <1>1, <1>4, <1>5, <1>5a, <1>6, <1>8, <1>9 DEF InviteInv

\* A request about the card ends: the code was wrong or is locked, it broke off,
\* or a user with an account was let in.
LEMMA OverKeeps ==
  ASSUME InviteInv, NEW j \in Invite!Redeeming, ipc[j] = "read", Invite!Goes(j, "done"),
         UNCHANGED <<irow, cache, snap, raced, broken>>, members' \subseteq members \cup {User},
         card' \in Card, card'.kind = card.kind, card'.mark \in {card.mark, "used"},
         \/ card'.tries = card.tries /\ wrong' = wrong
         \/ card'.tries = snap[j].tries + 1 /\ wrong' = wrong + 1
  PROVE  InviteInv'
<1>0. InviteTypes /\ Lives /\ Chains /\ Unmade /\ Reads
  BY DEF InviteInv
<1>1. /\ ipc' \in [Invite!Jobs -> Where] /\ ipc'[j] = "done" /\ \A i \in Invite!Redeeming : i # j => ipc'[i] = ipc[i]
      /\ \A h \in Guests : Converting(h)' = Converting(h) /\ Visiting(h)' = Visiting(h)
      /\ \A e \in Invite!Enders : ipc'[e] = ipc[e]
      /\ \A h \in Guests : j # <<"join", h>> => Join(h)' = Join(h)
  BY <1>0, CardGoes DEF Where
<1>2. \A h \in Guests : j = <<"join", h>> => Join(h) = "read" /\ Join(h)' = "done"
  BY <1>1 DEF Join
<1>2a. \A h \in Guests : (Alive(h)' <=> Alive(h)) /\ (BeingEnded(h)' <=> BeingEnded(h)) /\ (Losing(h)' <=> Losing(h))
  BY <1>1 DEF Alive, BeingEnded, Losing, Invite!Running
<1>3. InviteTypes'
  <2>1. wrong' \in Nat /\ members' \subseteq Invite!Handles
    BY <1>0 DEF InviteTypes, Invite!Handles
  <2> QED BY <2>1, <1>0, <1>1 DEF InviteTypes
<1>4. \A h \in Guests : h \in members' => h \in members
  BY GuestsAssumption
<1>5. Lives'
  BY <1>0, <1>1, <1>2, <1>2a, <1>4 DEF Lives, RowStored, Untouched, InsideAlive
<1>5a. Chains'
  BY <1>0, <1>1, <1>2, EndersDiffer DEF Chains, Invite!Running
<1>6. card.mark # "none" /\ card'.mark # "none"
  BY <1>0 DEF Unmade
<1>7. Unmade' /\ Reads'
  BY <1>0, <1>1, <1>6 DEF Unmade, Reads, Invite!Running
<1>8. ASSUME ~raced PROVE (OneAtATime /\ Counting /\ CachedAlive /\ CopyGone)'
  <2>1. OneAtATime /\ Counting /\ CachedAlive /\ CopyGone
    BY <1>8 DEF InviteInv
  <2>2. OneAtATime' /\ \A i \in Invite!Redeeming : ipc'[i] # "read"
    BY <1>1, <2>1 DEF OneAtATime, Invite!Running
  <2>3. Counting'
    BY <2>1, <2>2 DEF Counting
  <2>4. CachedAlive'
    BY <1>1, <1>2, <1>2a, <2>1 DEF CachedAlive
  <2>5. CopyGone'
    BY <1>1, <2>1 DEF CopyGone
  <2> QED BY <2>2, <2>3, <2>4, <2>5
<1>9. ASSUME ~raced, card.kind = "dm" PROVE (Unused /\ FirstIn /\ OneGoing)'
  <2>1. Unused /\ FirstIn /\ OneGoing
    BY <1>9 DEF InviteInv
  <2>2. \A h \in Guests : Going(h)' <=> Going(h)
    BY <1>2a DEF Going
  <2>3. \A g, h \in Guests : Owes(g, h) => Owes(g, h)'
    BY <1>1, <1>2, EndersDiffer DEF Owes, Relief
  <2>4. \A h \in Guests : Invite!Running(<<"join", h>>)' => Invite!Running(<<"join", h>>)
    BY <1>1, JobsDiffer DEF Invite!Running
  <2>5. \A h \in Guests : Join(h) = "stored" => Join(h)' = "stored"
    BY <1>1, <1>2
  <2> QED BY <2>1, <2>2, <2>3, <2>4, <2>5, GoingKeeps
<1> QED BY <1>3, <1>5, <1>5a, <1>7, <1>8, <1>9 DEF InviteInv

LEMMA LetInKeeps ==
  ASSUME InviteInv,
         \/ \E j \in Invite!Redeeming : Invite!CodeWrong(j) \/ Invite!CodeLocked(j) \/ Invite!BreaksOff(j)
         \/ Invite!Accept \/ Invite!JoinAuth
  PROVE  InviteInv'
<1>0. InviteTypes /\ card \in Card
  BY DEF InviteInv, InviteTypes
<1>1. ASSUME NEW j \in Invite!Redeeming, Invite!CodeWrong(j) PROVE InviteInv'
  <2>1. /\ ipc[j] = "read" /\ Invite!Goes(j, "done") /\ UNCHANGED <<irow, cache, snap, raced, members, broken>>
        /\ card' = [card EXCEPT !.tries = snap[j].tries + 1] /\ wrong' = wrong + 1
    BY <1>1 DEF Invite!CodeWrong, Invite!Counted, Invite!inside
  <2>2. snap[j].tries \in Nat
    BY <1>0 DEF InviteTypes, Card
  <2>3. card' \in Card /\ card'.kind = card.kind /\ card'.mark = card.mark /\ card'.tries = snap[j].tries + 1
    BY <1>0, <2>1, <2>2 DEF Card
  <2> QED BY <2>1, <2>3, OverKeeps
<1>2. ASSUME NEW j \in Invite!Redeeming, Invite!CodeLocked(j) \/ Invite!BreaksOff(j) PROVE InviteInv'
  <2>1. ipc[j] = "read" /\ Invite!Goes(j, "done") /\ UNCHANGED <<irow, cache, snap, raced, members, card, wrong, broken>>
    BY <1>2 DEF Invite!CodeLocked, Invite!BreaksOff, Invite!inside, Invite!world, Invite!ghost
  <2> QED BY <1>0, <2>1, OverKeeps
<1>3. ASSUME NEW j \in {<<"accept", User>>, <<"enter", User>>}, ipc[j] = "read", Invite!Goes(j, "done"),
             UNCHANGED <<irow, cache, snap, raced, wrong, broken>>, members' = members \cup {User}, card' = card \/ Invite!MarkUsed
      PROVE  InviteInv'
  <2>1. /\ card' \in Card /\ card'.kind = card.kind /\ card'.mark \in {card.mark, "used"} /\ card'.tries = card.tries
    BY <1>0, <1>3 DEF Invite!MarkUsed, Card
  <2>2. j \in Invite!Redeeming
    BY JobsDiffer
  <2> QED BY <2>1, <2>2, <1>3, OverKeeps
<1>4. CASE Invite!Accept
  BY <1>3, <1>4 DEF Invite!Accept
<1>5. CASE Invite!JoinAuth
  BY <1>3, <1>5 DEF Invite!JoinAuth
<1> QED BY <1>1, <1>2, <1>4, <1>5

\* A step of a join after the card was read, which changes no row but perhaps the
\* guest's own: what is common to them.
LEMMA JoinStepKeeps ==
  ASSUME InviteInv, NEW g \in Guests, NEW to \in Where \ {"idle", "read"}, Invite!Running(<<"join", g>>),
         Invite!Goes(<<"join", g>>, to), UNCHANGED <<snap, wrong, raced>>,
         Join(g) = "relieving" => \A h \in Guests : ~Invite!Running(<<"relieve", <<h, g>>>>),
         irow' \in [Guests -> SessionRows], \A h \in Guests \ {g} : irow'[h] = irow[h],
         irow'[g] = irow[g] \/ ~BeingEnded(g),
         cache' \subseteq Guests, cache \ {g} = cache' \ {g}, members' \subseteq Invite!Handles,
         card' \in Card, card'.kind = card.kind, card'.tries = card.tries, card'.mark \in {card.mark, "used"}
  PROVE  /\ InviteTypes' /\ Chains' /\ Unmade' /\ Reads' /\ (OneAtATime => OneAtATime') /\ (Counting => Counting')
         /\ \A h \in Guests : Converting(h)' = Converting(h) /\ Visiting(h)' = Visiting(h)
         /\ \A e \in Invite!Enders : ipc'[e] = ipc[e]
         /\ Join(g)' = to /\ \A h \in Guests \ {g} : Join(h)' = Join(h)
         /\ \A h \in Guests : (BeingEnded(h)' <=> BeingEnded(h)) /\ (Losing(h)' <=> Losing(h))
         /\ \A h \in Guests \ {g} : Alive(h)' <=> Alive(h)
         /\ \A h \in Guests : Invite!Running(<<"join", h>>)' => Invite!Running(<<"join", h>>)
         /\ \A h, k \in Guests : Relief(h, k)' = Relief(h, k)
<1>0. InviteTypes /\ Lives /\ Chains /\ Unmade /\ Reads
  BY DEF InviteInv
<1>1. /\ ipc' \in [Invite!Jobs -> Where] /\ ipc'[<<"join", g>>] = to
      /\ \A i \in Invite!Redeeming : i # <<"join", g>> => ipc'[i] = ipc[i]
      /\ \A h \in Guests : Converting(h)' = Converting(h) /\ Visiting(h)' = Visiting(h)
      /\ \A e \in Invite!Enders : ipc'[e] = ipc[e]
      /\ Join(g)' = to /\ \A h \in Guests \ {g} : Join(h)' = Join(h)
  BY <1>0, JoinGoes
<1>2. \A h \in Guests : (BeingEnded(h)' <=> BeingEnded(h)) /\ (Losing(h)' <=> Losing(h))
  BY <1>1 DEF BeingEnded, Losing, Invite!Running
<1>3. \A h \in Guests \ {g} : Alive(h)' <=> Alive(h)
  BY DEF Alive
<1>4. InviteTypes'
  BY <1>0, <1>1 DEF InviteTypes
<1>5. Chains'
  <2>1. \A e \in Invite!Enders : ipc[e] \in {"ended", "forgotten"} => irow'[Invite!Of(e)] = irow[Invite!Of(e)]
    BY EndersDiffer DEF BeingEnded, Invite!Running
  <2>2. \A k, h \in Guests : Invite!Running(<<"relieve", <<h, k>>>>)' => Join(k)' = "relieving"
    BY <1>0, <1>1, EndersDiffer DEF Chains, Invite!Running
  <2> QED BY <1>0, <1>1, <2>1, <2>2 DEF Chains
<1>6. <<"join", g>> \in Invite!Redeeming /\ card.mark # "none"
  BY <1>0, JobsDiffer DEF Unmade, Invite!Running
<1>7. Unmade' /\ Reads' /\ (OneAtATime => OneAtATime') /\ (Counting => Counting')
  BY <1>0, <1>1, <1>6, RedeemKeeps
<1>8. \A h \in Guests : Invite!Running(<<"join", h>>)' => Invite!Running(<<"join", h>>)
  BY <1>1, JobsDiffer DEF Invite!Running
<1>9. \A h, k \in Guests : Relief(h, k)' = Relief(h, k)
  BY <1>1, EndersDiffer DEF Relief
<1> QED BY <1>1, <1>2, <1>3, <1>4, <1>5, <1>7, <1>8, <1>9

\* The guest is let in, before her session has a row.
LEMMA JoinEnterKeeps ==
  ASSUME InviteInv, NEW g \in Guests, Invite!JoinEnter(g) PROVE InviteInv'
<1>0. InviteTypes /\ Lives
  BY DEF InviteInv
<1>1. /\ Join(g) = "read" /\ Invite!Goes(<<"join", g>>, "entered") /\ members' = members \cup {g}
      /\ UNCHANGED <<card, irow, cache, snap, wrong, raced, broken>>
  BY DEF Invite!JoinEnter, Invite!world, Invite!ghost, Join
<1>2. /\ "entered" \in Where \ {"idle", "read"} /\ Invite!Running(<<"join", g>>) /\ members' \subseteq Invite!Handles
      /\ card \in Card /\ cache \subseteq Guests /\ irow \in [Guests -> SessionRows]
  BY <1>0, <1>1 DEF Where, Join, Invite!Running, InviteTypes, Invite!Handles
<1>3. /\ InviteTypes' /\ Chains' /\ Unmade' /\ Reads' /\ (OneAtATime => OneAtATime') /\ (Counting => Counting')
      /\ \A h \in Guests : Converting(h)' = Converting(h) /\ Visiting(h)' = Visiting(h)
      /\ \A e \in Invite!Enders : ipc'[e] = ipc[e]
      /\ Join(g)' = "entered" /\ \A h \in Guests \ {g} : Join(h)' = Join(h)
      /\ \A h \in Guests : (BeingEnded(h)' <=> BeingEnded(h)) /\ (Losing(h)' <=> Losing(h))
      /\ \A h \in Guests \ {g} : Alive(h)' <=> Alive(h)
      /\ \A h \in Guests : Invite!Running(<<"join", h>>)' => Invite!Running(<<"join", h>>)
      /\ \A h, k \in Guests : Relief(h, k)' = Relief(h, k)
  BY <1>1, <1>2, JoinStepKeeps
<1>4. Lives'
  BY <1>0, <1>1, <1>3 DEF Lives, RowStored, Untouched, InsideAlive, Alive
<1>5. ASSUME ~raced PROVE (CachedAlive /\ CopyGone)'
  <2>1. CachedAlive /\ CopyGone
    BY <1>5 DEF InviteInv
  <2>2. CachedAlive'
    BY <1>1, <1>3, <2>1 DEF CachedAlive, Alive
  <2> QED BY <1>1, <1>3, <2>1, <2>2 DEF CopyGone
<1>6. ASSUME ~raced, card.kind = "dm" PROVE (Unused /\ FirstIn /\ OneGoing)'
  <2>1. Unused /\ FirstIn /\ OneGoing
    BY <1>6 DEF InviteInv
  <2>2. \A h \in Guests : Going(h)' => Going(h)
    BY <1>1 DEF Going, Alive
  <2>3. \A h, k \in Guests : Owes(h, k) => Owes(h, k)'
    BY <1>1, <1>3 DEF Owes
  <2> QED BY <2>1, <2>2, <2>3, <1>1, <1>3, GoingKeeps
<1> QED BY <1>1, <1>3, <1>4, <1>5, <1>6 DEF InviteInv

\* The row is stored: the session lives.
LEMMA JoinStoreKeeps ==
  ASSUME InviteInv, NEW g \in Guests, Invite!JoinStore(g) PROVE InviteInv'
<1>0. InviteTypes /\ Lives /\ Chains /\ Reads
  BY DEF InviteInv
<1>1. /\ Join(g) = "entered" /\ Invite!Goes(<<"join", g>>, "stored") /\ irow' = [irow EXCEPT ![g].st = "live"]
      /\ UNCHANGED <<card, members, cache, snap, wrong, raced, broken>>
  BY DEF Invite!JoinStore, Invite!world, Invite!inside, Join
<1>1a. /\ irow' \in [Guests -> SessionRows]
       /\ irow'[g].st = "live" /\ irow'[g].conv = irow[g].conv /\ \A h \in Guests \ {g} : irow'[h] = irow[h]
  <2>1. [irow[g] EXCEPT !.st = "live"] \in SessionRows
    BY <1>0 DEF InviteTypes, SessionRows
  <2>2. [irow[g] EXCEPT !.st = "live"].st = "live" /\ [irow[g] EXCEPT !.st = "live"].conv = irow[g].conv
    BY <1>0 DEF InviteTypes, SessionRows
  <2> QED BY <2>1, <2>2, <1>0, <1>1 DEF InviteTypes
<1>1b. irow[g].st = "none" /\ ~irow[g].conv /\ Converting(g) = "idle" /\ ~BeingEnded(g)
  BY <1>0, <1>1 DEF Lives, RowStored, Untouched
<1>2. /\ "stored" \in Where \ {"idle", "read"} /\ Invite!Running(<<"join", g>>)
      /\ card \in Card /\ cache \subseteq Guests /\ members \subseteq Invite!Handles
  BY <1>0, <1>1 DEF Where, Join, Invite!Running, InviteTypes
<1>3. /\ InviteTypes' /\ Chains' /\ Unmade' /\ Reads' /\ (OneAtATime => OneAtATime') /\ (Counting => Counting')
      /\ \A h \in Guests : Converting(h)' = Converting(h) /\ Visiting(h)' = Visiting(h)
      /\ \A e \in Invite!Enders : ipc'[e] = ipc[e]
      /\ Join(g)' = "stored" /\ \A h \in Guests \ {g} : Join(h)' = Join(h)
      /\ \A h \in Guests : (BeingEnded(h)' <=> BeingEnded(h)) /\ (Losing(h)' <=> Losing(h))
      /\ \A h \in Guests \ {g} : Alive(h)' <=> Alive(h)
      /\ \A h \in Guests : Invite!Running(<<"join", h>>)' => Invite!Running(<<"join", h>>)
      /\ \A h, k \in Guests : Relief(h, k)' = Relief(h, k)
  BY <1>1, <1>1a, <1>1b, <1>2, JoinStepKeeps
<1>3a. Alive(g)'
  BY <1>1a, <1>1b DEF Alive
<1>4. Lives'
  BY <1>0, <1>1, <1>1a, <1>1b, <1>3, <1>3a DEF Lives, RowStored, Untouched, InsideAlive
<1>5. ASSUME ~raced PROVE (CachedAlive /\ CopyGone)'
  <2>1. CachedAlive /\ CopyGone
    BY <1>5 DEF InviteInv
  <2>2. CachedAlive'
    BY <1>1, <1>1a, <1>3, <1>3a, <2>1 DEF CachedAlive
  <2> QED BY <1>1, <1>3, <2>1, <2>2 DEF CopyGone
<1>6. ASSUME ~raced, card.kind = "dm" PROVE (Unused /\ FirstIn /\ OneGoing)'
  <2>1. Unused /\ FirstIn /\ OneGoing /\ OneAtATime
    BY <1>6 DEF InviteInv
  <2>2. \A h \in Guests \ {g} : ~Invite!Running(<<"join", h>>)
    BY <1>2, <2>1, JobsDiffer DEF OneAtATime
  <2>3. \A h \in Guests \ {g} : Going(h)' <=> Going(h)
    BY <1>1, <1>3 DEF Going
  <2>4. Unused'
    BY <1>1, <1>3, <2>1, <2>3 DEF Unused
  <2>5. FirstIn'
    BY <1>1, <1>3, <2>1, <2>2, <2>3 DEF FirstIn
  <2>6. snap[<<"join", g>>].mark = "used" \/ \A h \in Guests \ {g} : ~Going(h)
    BY <1>0, <1>2, <2>1, JobsDiffer DEF Reads, FirstIn
  <2>7. \A h, k \in Guests : Owes(h, k) => Owes(h, k)'
    BY <1>1, <1>3 DEF Owes
  <2>8. snap[<<"join", g>>].mark = "used" => \A h \in Guests : Owes(g, h)'
    BY <1>1, <1>3 DEF Owes
  <2>9. OneGoing'
    BY <2>1, <2>3, <2>6, <2>7, <2>8 DEF OneGoing
  <2> QED BY <2>4, <2>5, <2>9
<1> QED BY <1>1, <1>3, <1>4, <1>5, <1>6 DEF InviteInv

\* The card of a direct chat is marked.
LEMMA JoinMarkKeeps ==
  ASSUME InviteInv, NEW g \in Guests, Invite!JoinMark(g) PROVE InviteInv'
<1>0. InviteTypes /\ Lives /\ Reads
  BY DEF InviteInv
<1>1. /\ Join(g) = "stored" /\ Invite!Goes(<<"join", g>>, "marked")
      /\ IF snap[<<"join", g>>].kind = "dm" THEN Invite!MarkUsed ELSE UNCHANGED card
      /\ UNCHANGED <<irow, members, cache, snap, wrong, raced, broken>>
  BY DEF Invite!JoinMark, Invite!inside, Invite!ghost, Join
<1>2. /\ "marked" \in Where \ {"idle", "read"} /\ Invite!Running(<<"join", g>>) /\ members \subseteq Invite!Handles
      /\ cache \subseteq Guests /\ irow \in [Guests -> SessionRows]
  BY <1>0, <1>1 DEF Where, Join, Invite!Running, InviteTypes
<1>2a. snap[<<"join", g>>].kind = card.kind
  BY <1>0, <1>2, JobsDiffer DEF Reads
<1>2b. /\ card' \in Card /\ card'.kind = card.kind /\ card'.tries = card.tries
       /\ card'.mark \in {card.mark, "used"} /\ (card.kind = "dm" => card'.mark # "free")
  BY <1>0, <1>1, <1>2a DEF InviteTypes, Card, Invite!MarkUsed
<1>3. /\ InviteTypes' /\ Chains' /\ Unmade' /\ Reads' /\ (OneAtATime => OneAtATime') /\ (Counting => Counting')
      /\ \A h \in Guests : Converting(h)' = Converting(h) /\ Visiting(h)' = Visiting(h)
      /\ \A e \in Invite!Enders : ipc'[e] = ipc[e]
      /\ Join(g)' = "marked" /\ \A h \in Guests \ {g} : Join(h)' = Join(h)
      /\ \A h \in Guests : (BeingEnded(h)' <=> BeingEnded(h)) /\ (Losing(h)' <=> Losing(h))
      /\ \A h \in Guests \ {g} : Alive(h)' <=> Alive(h)
      /\ \A h \in Guests : Invite!Running(<<"join", h>>)' => Invite!Running(<<"join", h>>)
      /\ \A h, k \in Guests : Relief(h, k)' = Relief(h, k)
  BY <1>1, <1>2, <1>2b, JoinStepKeeps
<1>4. Lives'
  BY <1>0, <1>1, <1>3 DEF Lives, RowStored, Untouched, InsideAlive, Alive
<1>5. ASSUME ~raced PROVE (CachedAlive /\ CopyGone)'
  <2>1. CachedAlive /\ CopyGone
    BY <1>5 DEF InviteInv
  <2>2. CachedAlive'
    BY <1>1, <1>3, <2>1 DEF CachedAlive, Alive
  <2> QED BY <1>1, <1>3, <2>1, <2>2 DEF CopyGone
<1>6. ASSUME ~raced, card.kind = "dm" PROVE (Unused /\ FirstIn /\ OneGoing)'
  <2>1. Unused /\ FirstIn /\ OneGoing
    BY <1>6 DEF InviteInv
  <2>2. \A h \in Guests : Going(h)' => Going(h)
    BY <1>1 DEF Going, Alive
  <2>3. \A h, k \in Guests : Owes(h, k) => Owes(h, k)'
    BY <1>1, <1>3 DEF Owes
  <2> QED BY <2>1, <2>2, <2>3, <1>1, <1>2b, <1>3, <1>6, GoingKeeps
<1> QED BY <1>1, <1>2b, <1>3, <1>4, <1>5, <1>6 DEF InviteInv

\* A join breaks off, is through with its relief, or is over.
LEMMA JoinEndsKeeps ==
  ASSUME InviteInv, NEW g \in Guests, Invite!JoinBreaks(g) \/ Invite!JoinCache(g) PROVE InviteInv'
<1>0. InviteTypes /\ Lives
  BY DEF InviteInv
<1>1. /\ Join(g) \in {"entered", "stored", "relieved"} /\ Invite!Goes(<<"join", g>>, "done")
      /\ \/ Join(g) \in {"entered", "stored"} /\ broken' = broken \cup {g} /\ cache' = cache
         \/ Join(g) = "relieved" /\ broken' = broken /\ cache' \in {cache, cache \cup {g}}
      /\ UNCHANGED <<card, irow, members, snap, wrong, raced>>
  BY DEF Invite!JoinBreaks, Invite!JoinCache, Invite!world, Invite!inside, Invite!ghost, Join
<1>2. /\ "done" \in Where \ {"idle", "read"} /\ Invite!Running(<<"join", g>>) /\ members \subseteq Invite!Handles
      /\ cache' \subseteq Guests /\ cache' \ {g} = cache \ {g} /\ irow \in [Guests -> SessionRows] /\ card \in Card
  BY <1>0, <1>1 DEF Where, Join, Invite!Running, InviteTypes
<1>3. /\ InviteTypes' /\ Chains' /\ Unmade' /\ Reads' /\ (OneAtATime => OneAtATime') /\ (Counting => Counting')
      /\ \A h \in Guests : Converting(h)' = Converting(h) /\ Visiting(h)' = Visiting(h)
      /\ \A e \in Invite!Enders : ipc'[e] = ipc[e]
      /\ Join(g)' = "done" /\ \A h \in Guests \ {g} : Join(h)' = Join(h)
      /\ \A h \in Guests : (BeingEnded(h)' <=> BeingEnded(h)) /\ (Losing(h)' <=> Losing(h))
      /\ \A h \in Guests \ {g} : Alive(h)' <=> Alive(h)
      /\ \A h \in Guests : Invite!Running(<<"join", h>>)' => Invite!Running(<<"join", h>>)
      /\ \A h, k \in Guests : Relief(h, k)' = Relief(h, k)
  BY <1>1, <1>2, JoinStepKeeps
<1>3a. broken \subseteq broken'
  BY <1>1
<1>4. Lives'
  <2>1. Join(g) = "entered" => Converting(g) # "moved"
    BY <1>0 DEF Lives, RowStored, Untouched
  <2>2. \A h \in Guests : RowStored(h)' /\ Untouched(h)'
    BY <1>0, <1>1, <1>3 DEF Lives, RowStored, Untouched
  <2>3. \A h \in Guests \ {g} : InsideAlive(h)'
    BY <1>0, <1>1, <1>3, <1>3a DEF Lives, InsideAlive
  <2>4. InsideAlive(g)'
    BY <1>0, <1>1, <1>3, <1>3a, <2>1 DEF Lives, InsideAlive, Alive
  <2> QED BY <2>2, <2>3, <2>4 DEF Lives
<1>5. ASSUME ~raced PROVE (CachedAlive /\ CopyGone)' /\ (g \in cache' => g \in cache \/ Alive(g))
  <2>1. CachedAlive /\ CopyGone
    BY <1>5 DEF InviteInv
  <2>2. g \in cache' => g \in cache \/ (Alive(g) /\ ~Losing(g))
    <3>1. CASE Join(g) = "relieved"
      <4>1. Alive(g) /\ irow[g].st # "killed"
        BY <2>1, <3>1 DEF CachedAlive, Alive
      <4>2. ~Losing(g)
        BY <4>1 DEF Losing, InviteInv, Chains
      <4> QED BY <4>1, <4>2
    <3> QED BY <1>1, <3>1
  <2>3. CachedAlive'
    BY <1>1, <1>2, <1>3, <1>3a, <2>1, <2>2 DEF CachedAlive, Alive
  <2>4. CopyGone'
    <3>1. Alive(g) => \A e \in Invite!Enders : ipc[e] = "forgotten" => Invite!Of(e) # g
      BY DEF InviteInv, Chains, Alive
    <3> QED BY <1>2, <1>3, <2>1, <2>2, <3>1, EndersDiffer DEF CopyGone
  <2> QED BY <2>2, <2>3, <2>4
<1>6. ASSUME ~raced, card.kind = "dm" PROVE (Unused /\ FirstIn /\ OneGoing)'
  <2>1. Unused /\ FirstIn /\ OneGoing
    BY <1>6 DEF InviteInv
  <2>2. \A h \in Guests : Going(h)' => Going(h)
    BY <1>1, <1>2, <1>3a, <1>5, <1>6 DEF Going, Alive
  <2>3. Join(g) = "stored" => ~Going(g)'
    BY <1>1 DEF Going
  <2>4. \A h, k \in Guests : Going(h)' /\ Going(k)' /\ Owes(h, k) => Owes(h, k)'
    BY <1>1, <1>3, <2>3 DEF Owes
  <2>5. \A h \in Guests : Going(h)' /\ Join(h) = "stored" => Join(h)' = "stored"
    BY <1>3, <2>3
  <2> QED BY <2>1, <2>2, <2>4, <2>5, <1>1, <1>3, GoingKeeps
<1> QED BY <1>1, <1>3, <1>4, <1>5, <1>6 DEF InviteInv

\* A session that goes on without an overlap has a row the re-entry relieves.
LEMMA GoingRelieved ==
  ASSUME InviteInv, ~raced, NEW g \in Guests, NEW h \in Guests \ {g}, Going(h)
  PROVE  h \in Invite!Relieved(g)
<1>1. Alive(h) \/ (~irow[h].conv /\ Losing(h))
  BY DEF InviteInv, CachedAlive, Going
<1>2. Losing(h) => irow[h].st = "killed"
  BY DEF InviteInv, Chains, Losing
<1> QED BY <1>1, <1>2 DEF Invite!Relieved, Alive

\* The re-entry looks up what it is to relieve, or fails to; then it is through.
LEMMA ReliefStartKeeps ==
  ASSUME InviteInv, NEW g \in Guests, Join(g) = "marked", snap[<<"join", g>>].mark = "used",
         ipc' = [i \in Invite!Jobs |-> IF i = <<"join", g>> THEN "relieving"
                   ELSE IF i \in {<<"relieve", <<h, g>>>> : h \in Invite!Relieved(g)} THEN "read" ELSE ipc[i]],
         UNCHANGED <<card, irow, cache, members, snap, wrong, raced, broken>>
  PROVE  InviteInv'
<1>0. InviteTypes /\ Lives /\ Chains /\ Unmade /\ Reads
  BY DEF InviteInv
<1>1. /\ ipc' \in [Invite!Jobs -> Where] /\ Join(g)' = "relieving"
      /\ \A i \in Invite!Redeeming : i # <<"join", g>> => ipc'[i] = ipc[i]
      /\ \A h \in Guests : Converting(h)' = Converting(h) /\ Visiting(h)' = Visiting(h)
      /\ \A h \in Guests \ {g} : Join(h)' = Join(h)
  <2>1. \A h \in Guests : <<"relieve", <<h, g>>>> \in Invite!Enders
    BY EndersDiffer
  <2>2. \A i \in Invite!Redeeming : i # <<"join", g>> => ipc'[i] = ipc[i]
    BY <2>1, EndersDiffer, JobsDiffer DEF Invite!Relieved
  <2>3a. \A h \in Guests : ipc'[<<"visit", h>>] = ipc[<<"visit", h>>] /\ ipc'[<<"convert", h>>] = ipc[<<"convert", h>>]
    BY <2>1, JobsDiffer DEF Invite!Relieved
  <2>4. ipc' \in [Invite!Jobs -> Where]
    BY <1>0 DEF InviteTypes, Where
  <2>5. Join(g)' = "relieving" /\ \A h \in Guests \ {g} : Join(h)' = Join(h)
    BY <2>2, JobsDiffer DEF Join
  <2> QED BY <2>2, <2>3a, <2>4, <2>5 DEF Converting, Visiting
<1>2. \A h \in Guests : ~Invite!Running(<<"relieve", <<h, g>>>>)
  BY <1>0 DEF Chains
<1>3. \A e \in Invite!Enders : \/ ipc'[e] = ipc[e]
                               \/ Invite!Of(e) \in Invite!Relieved(g) /\ ipc'[e] = "read" /\ ~Invite!Running(e)
  <2>1. \A e \in Invite!Enders : e # <<"join", g>> /\ e \in Invite!Jobs
    BY EndersDiffer, JobsDiffer
  <2>2. \A h \in Invite!Relieved(g) : h \in Guests /\ Invite!Of(<<"relieve", <<h, g>>>>) = h
    BY EndersDiffer DEF Invite!Relieved
  <2> QED BY <1>2, <2>1, <2>2
<1>4. \A h \in Invite!Relieved(g) : Relief(h, g)' = "read" /\ irow[h].st # "none"
  <2>1. \A h \in Guests : <<"relieve", <<h, g>>>> \in Invite!Enders /\ <<"relieve", <<h, g>>>> \in Invite!Jobs /\ <<"relieve", <<h, g>>>> # <<"join", g>>
    BY EndersDiffer, JobsDiffer
  <2> QED BY <2>1 DEF Relief, Invite!Relieved
<1>5. \A h, k \in Guests : k # g => Relief(h, k)' = Relief(h, k)
  <2>1. \A h, k \in Guests : <<"relieve", <<h, k>>>> \in Invite!Jobs /\ <<"relieve", <<h, k>>>> # <<"join", g>>
    BY EndersDiffer, JobsDiffer
  <2>2. \A h, k, l \in Guests : k # g => <<"relieve", <<h, k>>>> # <<"relieve", <<l, g>>>>
    BY EndersDiffer
  <2> QED BY <2>1, <2>2 DEF Relief, Invite!Relieved
<1>6. \A h \in Guests : /\ BeingEnded(h) => BeingEnded(h)'
                        /\ BeingEnded(h)' => BeingEnded(h) \/ h \in Invite!Relieved(g)
                        /\ Losing(h)' <=> Losing(h)
  <2>1. \A e \in Invite!Enders : /\ Invite!Running(e) => ipc'[e] = ipc[e] /\ Invite!Running(e)'
                                 /\ ipc'[e] = "ended" <=> ipc[e] = "ended"
    BY <1>3 DEF Invite!Running
  <2>2. \A e \in Invite!Enders : Invite!Running(e)' => Invite!Running(e) \/ Invite!Of(e) \in Invite!Relieved(g)
    BY <1>3 DEF Invite!Running
  <2> QED BY <2>1, <2>2 DEF BeingEnded, Losing
<1>7. InviteTypes'
  BY <1>0, <1>1 DEF InviteTypes
<1>8. Lives'
  BY <1>0, <1>1, <1>4, <1>6 DEF Lives, RowStored, Untouched, InsideAlive, Alive
<1>9. Chains'
  <2>1. \A e \in Invite!Enders : ipc'[e] \in {"ended", "forgotten"} => ipc[e] \in {"ended", "forgotten"}
    BY <1>3
  <2>2. \A k, h \in Guests : k # g /\ Invite!Running(<<"relieve", <<h, k>>>>)' => Join(k)' = "relieving"
    BY <1>0, <1>1, <1>5 DEF Chains, Relief, Invite!Running
  <2> QED BY <1>0, <1>1, <2>1, <2>2 DEF Chains
<1>10. Unmade' /\ Reads' /\ (OneAtATime => OneAtATime') /\ (Counting => Counting')
  <2>1. \A i \in Invite!Redeeming : ipc'[i] = ipc[i] \/ (Invite!Running(i) /\ ipc'[i] \notin {"idle", "read"})
    BY <1>1 DEF Invite!Running, Join
  <2>2. card \in Card
    BY <1>0 DEF InviteTypes
  <2> QED BY <1>0, <2>1, <2>2, RedeemKeeps
<1>11. ASSUME ~raced PROVE (CachedAlive /\ CopyGone)'
  <2>1. CachedAlive /\ CopyGone
    BY <1>11 DEF InviteInv
  <2>2. CachedAlive'
    BY <1>1, <1>6, <2>1 DEF CachedAlive, Alive
  <2>3. CopyGone'
    BY <1>3, <2>1 DEF CopyGone
  <2> QED BY <2>2, <2>3
<1>12. ASSUME ~raced, card.kind = "dm" PROVE (Unused /\ FirstIn /\ OneGoing)'
  <2>1. Unused /\ FirstIn /\ OneGoing
    BY <1>12 DEF InviteInv
  <2>2. \A h \in Guests : Going(h)' <=> Going(h)
    BY DEF Going, Alive
  <2>3. \A h, k \in Guests : h # k /\ Going(h)' /\ Going(k)' /\ Owes(h, k) => Owes(h, k)'
    <3> SUFFICES ASSUME NEW h \in Guests, NEW k \in Guests \ {h}, Going(k), Owes(h, k) PROVE Owes(h, k)'
      BY <2>2
    <3>1. CASE h = g
      BY <3>1, <1>4, <1>12, GoingRelieved DEF Owes
    <3>2. CASE h # g
      BY <3>2, <1>1, <1>5 DEF Owes
    <3> QED BY <3>1, <3>2
  <2>4. \A h \in Guests : Invite!Running(<<"join", h>>)' => Invite!Running(<<"join", h>>)
    BY <1>1, JobsDiffer DEF Invite!Running, Join
  <2>5. \A h \in Guests : Join(h) = "stored" => Join(h)' = "stored"
    BY <1>1
  <2> QED BY <2>1, <2>2, <2>3, <2>4, <2>5, GoingKeeps
<1> QED BY <1>7, <1>8, <1>9, <1>10, <1>11, <1>12 DEF InviteInv

LEMMA JoinRelieveKeeps ==
  ASSUME InviteInv, NEW g \in Guests, Invite!JoinRelieve(g) \/ Invite!JoinRelieved(g) PROVE InviteInv'
<1>0. InviteTypes /\ Lives /\ Chains /\ Reads
  BY DEF InviteInv
<1>1. Join(g) \in {"marked", "relieving"} /\ UNCHANGED <<card, irow, cache, members, snap, wrong, raced>>
  BY DEF Invite!JoinRelieve, Invite!JoinRelieved, Invite!world, Invite!inside, Invite!ghost, Join
<1>2. /\ "relieved" \in Where \ {"idle", "read"} /\ Invite!Running(<<"join", g>>) /\ members \subseteq Invite!Handles
      /\ cache \subseteq Guests /\ irow \in [Guests -> SessionRows] /\ card \in Card
  BY <1>0, <1>1 DEF Where, Join, Invite!Running, InviteTypes
<1>3. CASE ipc' = [i \in Invite!Jobs |-> IF i = <<"join", g>> THEN "relieving"
                     ELSE IF i \in {<<"relieve", <<h, g>>>> : h \in Invite!Relieved(g)} THEN "read" ELSE ipc[i]]
           /\ Join(g) = "marked" /\ snap[<<"join", g>>].mark = "used" /\ UNCHANGED broken
  BY <1>1, <1>3, ReliefStartKeeps
<1>4. ASSUME Invite!Goes(<<"join", g>>, "relieved"), \A h \in Guests : ~Invite!Running(<<"relieve", <<h, g>>>>),
             broken \subseteq broken',
             Join(g) = "relieving" \/ snap[<<"join", g>>].mark # "used" \/ Invite!Relieved(g) \subseteq broken'
      PROVE  InviteInv'
  <2>1. /\ InviteTypes' /\ Chains' /\ Unmade' /\ Reads' /\ (OneAtATime => OneAtATime') /\ (Counting => Counting')
        /\ \A h \in Guests : Converting(h)' = Converting(h) /\ Visiting(h)' = Visiting(h)
        /\ \A e \in Invite!Enders : ipc'[e] = ipc[e]
        /\ Join(g)' = "relieved" /\ \A h \in Guests \ {g} : Join(h)' = Join(h)
        /\ \A h \in Guests : (BeingEnded(h)' <=> BeingEnded(h)) /\ (Losing(h)' <=> Losing(h))
        /\ \A h \in Guests \ {g} : Alive(h)' <=> Alive(h)
        /\ \A h \in Guests : Invite!Running(<<"join", h>>)' => Invite!Running(<<"join", h>>)
        /\ \A h, k \in Guests : Relief(h, k)' = Relief(h, k)
    BY <1>1, <1>2, <1>4, JoinStepKeeps
  <2>2. Lives'
    BY <1>0, <1>1, <1>4, <2>1 DEF Lives, RowStored, Untouched, InsideAlive, Alive
  <2>3. ASSUME ~raced PROVE (CachedAlive /\ CopyGone)'
    <3>1. CachedAlive /\ CopyGone
      BY <2>3 DEF InviteInv
    <3>2. CachedAlive'
      BY <1>1, <1>4, <2>1, <3>1 DEF CachedAlive, Alive
    <3> QED BY <1>1, <2>1, <3>1, <3>2 DEF CopyGone
  <2>4. ASSUME ~raced, card.kind = "dm" PROVE (Unused /\ FirstIn /\ OneGoing)'
    <3>1. Unused /\ FirstIn /\ OneGoing
      BY <2>4 DEF InviteInv
    <3>2. \A h \in Guests : Going(h)' => Going(h)
      BY <1>1, <1>4 DEF Going, Alive
    <3>3. \A h, k \in Guests : h # k /\ Going(h)' /\ Going(k)' /\ Owes(h, k) => Owes(h, k)'
      <4> SUFFICES ASSUME NEW h \in Guests, NEW k \in Guests \ {h}, Going(k)', Owes(h, k) PROVE Owes(h, k)'
        OBVIOUS
      <4>1. CASE h = g
        <5>1. Relief(k, g) \notin {"read", "ended"}
          BY <1>4 DEF Relief, Invite!Running
        <5>2. snap[<<"join", g>>].mark = "used" /\ Join(g) = "marked"
          BY <4>1, <5>1, <1>1 DEF Owes
        <5>3. k \in Invite!Relieved(g)
          BY <4>1, <3>2, <2>4, GoingRelieved
        <5> QED BY <1>4, <5>2, <5>3 DEF Going
      <4>2. CASE h # g
        BY <4>2, <1>1, <2>1 DEF Owes
      <4> QED BY <4>1, <4>2
    <3>4. \A h \in Guests : Join(h) = "stored" => Join(h)' = "stored"
      BY <1>1, <2>1
    <3> QED BY <3>1, <3>2, <3>3, <3>4, <1>1, <2>1, GoingKeeps
  <2> QED BY <1>1, <2>1, <2>2, <2>3, <2>4 DEF InviteInv
<1>5. CASE Invite!JoinRelieved(g)
  BY <1>4, <1>5 DEF Invite!JoinRelieved, Join
<1>6. CASE Invite!JoinRelieve(g)
  <2>1. \A h \in Guests : ~Invite!Running(<<"relieve", <<h, g>>>>)
    BY <1>0, <1>6 DEF Invite!JoinRelieve, Chains, Join
  <2> QED BY <1>3, <1>4, <1>6, <2>1 DEF Invite!JoinRelieve, Join
<1> QED BY <1>5, <1>6

\* A session's end goes on: its row ends, the copy goes, the guest is put out.
LEMMA EndStepKeeps ==
  ASSUME InviteInv, NEW e \in Invite!Enders, Invite!EndRow(e) \/ Invite!EndCopy(e) \/ Invite!EndInside(e) PROVE InviteInv'
<1>0. InviteTypes /\ Lives /\ Chains /\ Unmade /\ Reads
  BY DEF InviteInv
<1>1. PICK g \in Guests : g = Invite!Of(e)
  BY EndersDiffer
<1>2. UNCHANGED <<card, snap, wrong>>
  BY DEF Invite!EndRow, Invite!EndCopy, Invite!EndInside, Invite!world, Invite!ghost
<1>3. PICK to \in {"ended", "forgotten", "done"} :
        /\ Invite!Goes(e, to)
        /\ to = "ended" => /\ ipc[e] = "read" /\ irow' = [irow EXCEPT ![g].st = "killed"]
                           /\ raced' = (raced \/ Invite!Running(<<"join", g>>) \/ Invite!Running(<<"visit", g>>))
                           /\ UNCHANGED <<cache, members, broken>>
        /\ to = "forgotten" => ipc[e] = "ended" /\ cache' = cache \ {g} /\ UNCHANGED <<irow, raced, members, broken>>
        /\ to = "done" => /\ ipc[e] = "forgotten" /\ members' = members \ {g} /\ broken' = broken \ {g}
                          /\ UNCHANGED <<irow, raced, cache>>
  <2>1. CASE Invite!EndRow(e)
    BY <1>1, <2>1 DEF Invite!EndRow, Invite!inside
  <2>2. CASE Invite!EndCopy(e)
    BY <1>1, <2>2 DEF Invite!EndCopy, Invite!inside
  <2>3. CASE Invite!EndInside(e)
    BY <1>1, <2>3 DEF Invite!EndInside
  <2> QED BY <2>1, <2>2, <2>3
<1>4. /\ ipc' \in [Invite!Jobs -> Where] /\ ipc'[e] = to
      /\ \A i \in Invite!Redeeming : ipc'[i] = ipc[i]
      /\ \A h \in Guests : Join(h)' = Join(h) /\ Converting(h)' = Converting(h) /\ Visiting(h)' = Visiting(h)
      /\ \A d \in Invite!Enders : d # e => ipc'[d] = ipc[d]
  <2>1. to \in Where
    BY DEF Where
  <2> QED BY <1>0, <1>3, <2>1, EnderGoes
<1>5. /\ irow' \in [Guests -> SessionRows]
      /\ \A h \in Guests \ {g} : irow'[h] = irow[h]
      /\ irow'[g].conv = irow[g].conv /\ (to = "ended" => irow'[g].st = "killed") /\ (to # "ended" => irow'[g] = irow[g])
  <2>1. [irow[g] EXCEPT !.st = "killed"] \in SessionRows
    BY <1>0 DEF InviteTypes, SessionRows
  <2>2. [irow[g] EXCEPT !.st = "killed"].st = "killed" /\ [irow[g] EXCEPT !.st = "killed"].conv = irow[g].conv
    BY <1>0 DEF InviteTypes, SessionRows
  <2> QED BY <2>1, <2>2, <1>0, <1>3 DEF InviteTypes
<1>6. BeingEnded(g) /\ irow[g].st # "none" /\ Join(g) \notin {"idle", "read", "entered"}
  <2>1. BeingEnded(g)
    BY <1>1, <1>3 DEF BeingEnded, Invite!Running
  <2> QED BY <2>1, <1>0 DEF Lives, Untouched, RowStored
<1>6a. irow'[g].st # "none" /\ (to # "ended" => irow[g].st = "killed")
  BY <1>0, <1>1, <1>3, <1>5, <1>6 DEF Chains
<1>7. \A h \in Guests \ {g} : (Alive(h)' <=> Alive(h)) /\ (BeingEnded(h)' <=> BeingEnded(h)) /\ (Losing(h)' <=> Losing(h))
  BY <1>1, <1>4, <1>5 DEF Alive, BeingEnded, Losing, Invite!Running
<1>8. ~Alive(g)' /\ (to # "done" => BeingEnded(g)') /\ (to = "ended" => Losing(g)')
  BY <1>1, <1>4, <1>5, <1>6a DEF Alive, BeingEnded, Losing, Invite!Running
<1>9. InviteTypes'
  BY <1>0, <1>2, <1>3, <1>4, <1>5 DEF InviteTypes
<1>10. Lives'
  <2>1. \A h \in Guests \ {g} : RowStored(h)' /\ Untouched(h)' /\ InsideAlive(h)'
    BY <1>0, <1>3, <1>4, <1>5, <1>7 DEF Lives, RowStored, Untouched, InsideAlive
  <2>2. RowStored(g)' /\ Untouched(g)'
    BY <1>4, <1>6, <1>6a DEF RowStored, Untouched
  <2>3. InsideAlive(g)'
    BY <1>0, <1>3, <1>4, <1>6, <1>8 DEF Lives, InsideAlive
  <2> QED BY <2>1, <2>2, <2>3 DEF Lives
<1>11. Chains'
  <2>1. \A d \in Invite!Enders : ipc'[d] \in {"ended", "forgotten"} => irow'[Invite!Of(d)].st = "killed"
    BY <1>0, <1>1, <1>4, <1>5, <1>6a, EndersDiffer DEF Chains
  <2>2. \A k, h \in Guests : Invite!Running(<<"relieve", <<h, k>>>>)' => Invite!Running(<<"relieve", <<h, k>>>>)
    BY <1>3, <1>4, EndersDiffer DEF Invite!Running
  <2> QED BY <1>0, <1>4, <2>1, <2>2 DEF Chains
<1>12. Unmade' /\ Reads' /\ (OneAtATime => OneAtATime') /\ (Counting => Counting')
  <2>1. card \in Card
    BY <1>0 DEF InviteTypes
  <2> QED BY <1>0, <1>2, <1>4, <2>1, RedeemKeeps
<1>13. ~raced' => ~raced
  BY <1>0, <1>3 DEF InviteTypes
<1>14. ASSUME ~raced' PROVE (CachedAlive /\ CopyGone)'
  <2>1. CachedAlive /\ CopyGone
    BY <1>13, <1>14 DEF InviteInv
  <2>2. CachedAlive'
    <3>1. \A h \in Guests \ {g} : /\ Join(h)' \in {"stored", "marked", "relieving", "relieved"} \/ Visiting(h)' = "read" => Alive(h)'
                                  /\ h \in cache' => Alive(h)' \/ h \in broken' \/ (~irow'[h].conv /\ Losing(h)')
      BY <1>3, <1>4, <1>5, <1>7, <2>1 DEF CachedAlive
    <3>2. Join(g) \notin {"stored", "marked", "relieving", "relieved"} /\ Visiting(g) # "read"
      <4>1. CASE to = "ended"
        BY <1>0, <1>3, <1>14, <4>1 DEF InviteTypes, Invite!Running, Join, Visiting
      <4>2. CASE to # "ended"
        BY <1>6a, <2>1, <4>2 DEF CachedAlive, Alive
      <4> QED BY <4>1, <4>2
    <3>3. g \in cache' => g \in broken' \/ (~irow'[g].conv /\ Losing(g)')
      <4>1. CASE to = "ended"
        BY <1>3, <1>5, <1>8, <2>1, <4>1 DEF CachedAlive, Alive
      <4>2. CASE to = "forgotten"
        BY <1>3, <4>2
      <4>3. CASE to = "done"
        BY <1>1, <1>3, <2>1, <4>3 DEF CopyGone
      <4> QED BY <4>1, <4>2, <4>3
    <3> QED BY <1>4, <3>1, <3>2, <3>3 DEF CachedAlive
  <2>3. CopyGone'
    BY <1>1, <1>3, <1>4, <2>1 DEF CopyGone
  <2> QED BY <2>2, <2>3
<1>15. ASSUME ~raced', card.kind = "dm" PROVE (Unused /\ FirstIn /\ OneGoing)'
  <2>1. Unused /\ FirstIn /\ OneGoing /\ CopyGone
    BY <1>13, <1>15 DEF InviteInv
  <2>2. \A h \in Guests \ {g} : Going(h)' => Going(h)
    BY <1>3, <1>7 DEF Going
  <2>3. to # "ended" => ~Going(g)'
    BY <1>1, <1>3, <1>8, <2>1 DEF Going, CopyGone
  <2>4. Going(g)' => Going(g)
    BY <1>3, <1>8, <2>3 DEF Going
  <2>5. \A h, k \in Guests : Going(k)' /\ Owes(h, k) => Owes(h, k)'
    <3> SUFFICES ASSUME NEW h \in Guests, NEW k \in Guests, Going(k)', Owes(h, k) PROVE Owes(h, k)'
      OBVIOUS
    <3>1. CASE e = <<"relieve", <<k, h>>>>
      <4>1. k = g
        BY <1>1, <3>1, EndersDiffer
      <4>2. to = "ended"
        BY <2>3, <4>1
      <4> QED BY <1>2, <1>4, <3>1, <4>2, <1>3 DEF Owes, Relief
    <3>2. CASE e # <<"relieve", <<k, h>>>>
      BY <1>2, <1>4, <3>2, EndersDiffer DEF Owes, Relief
    <3> QED BY <3>1, <3>2
  <2>6. \A h \in Guests : Invite!Running(<<"join", h>>)' => Invite!Running(<<"join", h>>)
    BY <1>4, JobsDiffer DEF Invite!Running
  <2> QED BY <1>2, <1>4, <2>1, <2>2, <2>4, <2>5, <2>6, GoingKeeps
<1> QED BY <1>2, <1>9, <1>10, <1>11, <1>12, <1>13, <1>14, <1>15 DEF InviteInv

\* The inviter's request breaks off, or is made.
LEMMA KillKeeps ==
  ASSUME InviteInv, NEW g \in Guests, Invite!KillBreaks(g) \/ Invite!KillRead(g) PROVE InviteInv'
<1>0. InviteTypes /\ Lives /\ Chains /\ Unmade /\ Reads
  BY DEF InviteInv
<1>1. /\ UNCHANGED <<card, irow, cache, snap, wrong, raced>> /\ members' \subseteq members
      /\ broken \subseteq broken' /\ broken' \subseteq broken \cup {g} /\ irow[g].st # "none"
  <2>1. CASE Invite!KillRead(g)
    BY <2>1 DEF Invite!KillRead, Invite!world, Invite!inside, Invite!ghost
  <2>2. CASE Invite!KillBreaks(g)
    <3>1. BeingEnded(g)
      BY <2>2, EndersDiffer DEF Invite!KillBreaks, BeingEnded, Invite!Running
    <3> QED BY <3>1, <1>0, <2>2 DEF Invite!KillBreaks, Invite!world, Invite!ghost, Lives, Untouched
  <2> QED BY <2>1, <2>2
<1>2. PICK to \in {"idle", "read"} :
        /\ Invite!Goes(<<"kill", g>>, to)
        /\ \/ to = "read" /\ ipc[<<"kill", g>>] = "idle"
           \/ to = "idle" /\ g \in broken'
  BY DEF Invite!KillBreaks, Invite!KillRead
<1>3. /\ ipc' \in [Invite!Jobs -> Where] /\ ipc'[<<"kill", g>>] = to
      /\ \A i \in Invite!Redeeming : ipc'[i] = ipc[i]
      /\ \A h \in Guests : Join(h)' = Join(h) /\ Converting(h)' = Converting(h) /\ Visiting(h)' = Visiting(h)
      /\ \A d \in Invite!Enders : d # <<"kill", g>> => ipc'[d] = ipc[d]
  <2>1. to \in Where /\ <<"kill", g>> \in Invite!Enders
    BY EndersDiffer DEF Where
  <2> QED BY <1>0, <1>2, <2>1, EnderGoes
<1>4. \A h \in Guests : Alive(h)' <=> Alive(h)
  BY <1>1 DEF Alive
<1>5. \A h \in Guests : /\ h # g => (BeingEnded(h)' <=> BeingEnded(h)) /\ (Losing(h)' <=> Losing(h))
                        /\ h = g => \/ h \in broken'
                                    \/ (BeingEnded(h) => BeingEnded(h)') /\ (Losing(h) => Losing(h)')
  BY <1>2, <1>3, EndersDiffer DEF BeingEnded, Losing, Invite!Running
<1>6. InviteTypes'
  BY <1>0, <1>1, <1>3 DEF InviteTypes
<1>7. Lives'
  BY <1>0, <1>1, <1>3, <1>4, <1>5 DEF Lives, RowStored, Untouched, InsideAlive
<1>8. Chains'
  BY <1>0, <1>1, <1>2, <1>3, EndersDiffer DEF Chains, Invite!Running
<1>9. Unmade' /\ Reads' /\ (OneAtATime => OneAtATime') /\ (Counting => Counting')
  <2>1. card \in Card
    BY <1>0 DEF InviteTypes
  <2> QED BY <1>0, <1>1, <1>3, <2>1, RedeemKeeps
<1>10. ASSUME ~raced PROVE (CachedAlive /\ CopyGone)'
  <2>1. CachedAlive /\ CopyGone
    BY <1>10 DEF InviteInv
  <2>2. CachedAlive'
    BY <1>1, <1>3, <1>4, <1>5, <2>1 DEF CachedAlive
  <2>3. CopyGone'
    BY <1>1, <1>2, <1>3, <2>1 DEF CopyGone
  <2> QED BY <2>2, <2>3
<1>11. ASSUME ~raced, card.kind = "dm" PROVE (Unused /\ FirstIn /\ OneGoing)'
  <2>1. Unused /\ FirstIn /\ OneGoing
    BY <1>11 DEF InviteInv
  <2>2. \A h \in Guests : Going(h)' => Going(h)
    BY <1>1, <1>4 DEF Going
  <2>3. \A h, k \in Guests : Owes(h, k) => Owes(h, k)'
    BY <1>1, <1>3, EndersDiffer DEF Owes, Relief
  <2>4. \A h \in Guests : Invite!Running(<<"join", h>>)' => Invite!Running(<<"join", h>>)
    BY <1>3, JobsDiffer DEF Invite!Running
  <2> QED BY <1>1, <1>3, <2>1, <2>2, <2>3, <2>4, GoingKeeps
<1> QED BY <1>1, <1>6, <1>7, <1>8, <1>9, <1>10, <1>11 DEF InviteInv

\* The relief breaks off: what it has not come to, or through, is named.
LEMMA ReliefBreaksKeeps ==
  ASSUME InviteInv, NEW g \in Guests, Invite!ReliefBreaks(g) PROVE InviteInv'
<1>0. InviteTypes /\ Lives /\ Chains /\ Unmade /\ Reads
  BY DEF InviteInv
<1>1. /\ UNCHANGED <<card, irow, cache, snap, wrong, raced>> /\ members' \subseteq members
      /\ broken' = broken \cup Invite!Unrelieved(g) /\ Invite!Unrelieved(g) # {}
      /\ ipc' = [i \in Invite!Jobs |-> IF i = <<"join", g>> THEN "relieved"
                   ELSE IF i \in {<<"relieve", <<h, g>>>> : h \in Guests} THEN "done" ELSE ipc[i]]
  BY DEF Invite!ReliefBreaks, Invite!world, Invite!ghost
<1>2. Join(g) = "relieving"
  BY <1>0, <1>1 DEF Invite!Unrelieved, Chains
<1>3. /\ ipc' \in [Invite!Jobs -> Where] /\ Join(g)' = "relieved"
      /\ \A i \in Invite!Redeeming : i # <<"join", g>> => ipc'[i] = ipc[i]
      /\ \A h \in Guests : Converting(h)' = Converting(h) /\ Visiting(h)' = Visiting(h)
      /\ \A h \in Guests \ {g} : Join(h)' = Join(h)
  <2>1. \A h \in Guests : <<"relieve", <<h, g>>>> \in Invite!Enders
    BY EndersDiffer
  <2>2. \A i \in Invite!Redeeming : i # <<"join", g>> => ipc'[i] = ipc[i]
    BY <1>1, <2>1, EndersDiffer, JobsDiffer
  <2>3a. \A h \in Guests : ipc'[<<"visit", h>>] = ipc[<<"visit", h>>] /\ ipc'[<<"convert", h>>] = ipc[<<"convert", h>>]
    BY <1>1, <2>1, JobsDiffer
  <2>4. ipc' \in [Invite!Jobs -> Where]
    BY <1>0, <1>1 DEF InviteTypes, Where
  <2>5. Join(g)' = "relieved" /\ \A h \in Guests \ {g} : Join(h)' = Join(h)
    BY <1>1, <2>2, JobsDiffer DEF Join
  <2> QED BY <2>2, <2>3a, <2>4, <2>5 DEF Converting, Visiting
<1>4. /\ \A e \in Invite!Enders : \/ ipc'[e] = ipc[e]
                                  \/ ipc'[e] = "done" /\ (Invite!Running(e) => Invite!Of(e) \in broken')
      /\ \A h, k \in Guests : k # g => Relief(h, k)' = Relief(h, k)
      /\ \A h \in Guests : ~Invite!Running(<<"relieve", <<h, g>>>>)'
  <2>1. \A e \in Invite!Enders : e # <<"join", g>> /\ e \in Invite!Jobs
    BY EndersDiffer, JobsDiffer
  <2>2. \A h \in Guests : Invite!Of(<<"relieve", <<h, g>>>>) = h /\ <<"relieve", <<h, g>>>> \in Invite!Enders
    BY EndersDiffer
  <2>3. \A h \in Guests : Invite!Running(<<"relieve", <<h, g>>>>) => h \in broken'
    BY <1>1 DEF Invite!Unrelieved
  <2>4. \A e \in Invite!Enders : ipc'[e] = ipc[e] \/ (ipc'[e] = "done" /\ (Invite!Running(e) => Invite!Of(e) \in broken'))
    BY <1>1, <2>1, <2>2, <2>3
  <2>5. \A h, k \in Guests : <<"relieve", <<h, k>>>> \in Invite!Enders
    BY EndersDiffer
  <2>6. \A h, k, l \in Guests : k # g => <<"relieve", <<h, k>>>> # <<"relieve", <<l, g>>>>
    BY EndersDiffer
  <2>7. \A h, k \in Guests : k # g => Relief(h, k)' = Relief(h, k)
    BY <1>1, <2>1, <2>5, <2>6 DEF Relief
  <2>8. \A h \in Guests : ipc'[<<"relieve", <<h, g>>>>] = "done"
    BY <1>1, <2>1, <2>2
  <2> QED BY <2>4, <2>7, <2>8 DEF Invite!Running
<1>5. \A h \in Guests : /\ Alive(h)' <=> Alive(h)
                        /\ BeingEnded(h)' => BeingEnded(h)
                        /\ h \in broken' \/ ((BeingEnded(h) => BeingEnded(h)') /\ (Losing(h) => Losing(h)'))
  BY <1>1, <1>4 DEF Alive, BeingEnded, Losing, Invite!Running
<1>6. InviteTypes'
  BY <1>0, <1>1, <1>3 DEF InviteTypes
<1>7. Lives'
  BY <1>0, <1>1, <1>2, <1>3, <1>5 DEF Lives, RowStored, Untouched, InsideAlive
<1>8. Chains'
  <2>1. \A e \in Invite!Enders : ipc'[e] \in {"ended", "forgotten"} => ipc[e] \in {"ended", "forgotten"}
    BY <1>4
  <2>2. \A k, h \in Guests : k # g /\ Invite!Running(<<"relieve", <<h, k>>>>)' => Join(k)' = "relieving"
    BY <1>0, <1>3, <1>4 DEF Chains, Relief, Invite!Running
  <2> QED BY <1>0, <1>1, <1>4, <2>1, <2>2 DEF Chains
<1>9. Unmade' /\ Reads' /\ (OneAtATime => OneAtATime') /\ (Counting => Counting')
  <2>1. \A i \in Invite!Redeeming : ipc'[i] = ipc[i] \/ (Invite!Running(i) /\ ipc'[i] \notin {"idle", "read"})
    BY <1>2, <1>3 DEF Invite!Running, Join
  <2>2. card \in Card
    BY <1>0 DEF InviteTypes
  <2> QED BY <1>0, <1>1, <2>1, <2>2, RedeemKeeps
<1>10. ASSUME ~raced PROVE (CachedAlive /\ CopyGone)'
  <2>1. CachedAlive /\ CopyGone
    BY <1>10 DEF InviteInv
  <2>2. CachedAlive'
    BY <1>1, <1>2, <1>3, <1>5, <2>1 DEF CachedAlive
  <2>3. CopyGone'
    BY <1>1, <1>4, <2>1 DEF CopyGone
  <2> QED BY <2>2, <2>3
<1>11. ASSUME ~raced, card.kind = "dm" PROVE (Unused /\ FirstIn /\ OneGoing)'
  <2>1. Unused /\ FirstIn /\ OneGoing
    BY <1>11 DEF InviteInv
  <2>2. \A h \in Guests : Going(h)' => Going(h)
    BY <1>1, <1>5 DEF Going
  <2>3. \A h, k \in Guests : Going(k)' /\ Owes(h, k) => Owes(h, k)'
    <3> SUFFICES ASSUME NEW h \in Guests, NEW k \in Guests, Going(k)', Owes(h, k) PROVE Owes(h, k)'
      OBVIOUS
    <3>1. CASE h = g
      <4>1. Invite!Running(<<"relieve", <<k, g>>>>)
        BY <1>2, <3>1 DEF Owes, Relief, Invite!Running
      <4> QED BY <1>1, <4>1 DEF Going, Invite!Unrelieved
    <3>2. CASE h # g
      BY <3>2, <1>1, <1>3, <1>4 DEF Owes
    <3> QED BY <3>1, <3>2
  <2>4. \A h \in Guests : Invite!Running(<<"join", h>>)' => Invite!Running(<<"join", h>>)
    BY <1>2, <1>3, JobsDiffer DEF Invite!Running, Join
  <2>5. \A h \in Guests : Join(h) = "stored" => Join(h)' = "stored"
    BY <1>2, <1>3
  <2> QED BY <1>1, <2>1, <2>2, <2>3, <2>4, <2>5, GoingKeeps
<1> QED BY <1>1, <1>6, <1>7, <1>8, <1>9, <1>10, <1>11 DEF InviteInv

\* Steps about a session that leave its row alone.
LEMMA LookKeeps ==
  ASSUME InviteInv, NEW g \in Guests, NEW a \in {"visit", "convert"}, NEW to \in Where, Invite!Goes(<<a, g>>, to),
         UNCHANGED <<card, irow, snap, wrong, raced, broken>>, cache' \subseteq cache \cup {g}, members' \subseteq members \cup {User},
         cache' = cache \/ (a = "visit" /\ Visiting(g) = "read"),
         (a = "visit" /\ to = "read") => Alive(g),
         irow[g].st = "none" => a = "visit",
         (a = "convert" /\ to = "moved") => g \notin members'
  PROVE  InviteInv'
<1>0. InviteTypes /\ Lives /\ Chains /\ Unmade /\ Reads
  BY DEF InviteInv
<1>1. /\ ipc' \in [Invite!Jobs -> Where] /\ ipc'[<<a, g>>] = to
      /\ \A i \in Invite!Redeeming : ipc'[i] = ipc[i]
      /\ \A h \in Guests : Join(h)' = Join(h)
      /\ \A e \in Invite!Enders : ipc'[e] = ipc[e]
      /\ \A h \in Guests : <<a, g>> # <<"convert", h>> => Converting(h)' = Converting(h)
      /\ \A h \in Guests : <<a, g>> # <<"visit", h>> => Visiting(h)' = Visiting(h)
  BY <1>0, SessionGoes
<1>1a. \A h \in Guests : (Alive(h)' <=> Alive(h)) /\ (BeingEnded(h)' <=> BeingEnded(h)) /\ (Losing(h)' <=> Losing(h))
  BY <1>1 DEF Alive, BeingEnded, Losing, Invite!Running
<1>2. InviteTypes'
  BY <1>0, <1>1 DEF InviteTypes, Invite!Handles
<1>3. \A h \in Guests : h \in members' => h \in members
  BY GuestsAssumption
<1>4. Lives'
  <2>1. \A h \in Guests : Converting(h)' = Converting(h) \/ (a = "convert" /\ h = g /\ Converting(h)' = to)
    BY <1>1 DEF Converting
  <2> QED BY <1>0, <1>1, <1>1a, <1>3, <2>1 DEF Lives, RowStored, Untouched, InsideAlive
<1>5. Chains'
  BY <1>0, <1>1, EndersDiffer DEF Chains, Invite!Running
<1>6. Unmade' /\ Reads' /\ (OneAtATime => OneAtATime') /\ (Counting => Counting')
  <2>1. card \in Card
    BY <1>0 DEF InviteTypes
  <2> QED BY <1>0, <1>1, <2>1, RedeemKeeps
<1>7. ASSUME ~raced PROVE (CachedAlive /\ CopyGone)' /\ (cache' # cache => Alive(g))
  <2>1. CachedAlive /\ CopyGone
    BY <1>7 DEF InviteInv
  <2>2. \A h \in Guests : Visiting(h)' = Visiting(h) \/ (a = "visit" /\ h = g /\ Visiting(h)' = to)
    BY <1>1 DEF Visiting
  <2>3. cache' # cache => Alive(g)
    BY <2>1 DEF CachedAlive
  <2>4. CachedAlive'
    BY <1>1, <1>1a, <2>1, <2>2, <2>3 DEF CachedAlive
  <2>5. Alive(g) => \A e \in Invite!Enders : ipc[e] = "forgotten" => Invite!Of(e) # g
    BY <1>0 DEF Chains, Alive
  <2>6. CopyGone'
    BY <1>1, <2>1, <2>3, <2>5 DEF CopyGone
  <2> QED BY <2>3, <2>4, <2>6
<1>8. ASSUME ~raced, card.kind = "dm" PROVE (Unused /\ FirstIn /\ OneGoing)'
  <2>1. Unused /\ FirstIn /\ OneGoing
    BY <1>8 DEF InviteInv
  <2>2. \A h \in Guests : Going(h)' => Going(h)
    BY <1>1a, <1>7, <1>8 DEF Going
  <2>3. \A h, k \in Guests : Owes(h, k) => Owes(h, k)'
    BY <1>1, EndersDiffer DEF Owes, Relief
  <2>4. \A h \in Guests : Invite!Running(<<"join", h>>)' => Invite!Running(<<"join", h>>)
    BY <1>1, JobsDiffer DEF Invite!Running
  <2> QED BY <1>1, <2>1, <2>2, <2>3, <2>4, GoingKeeps
<1> QED BY <1>2, <1>4, <1>5, <1>6, <1>7, <1>8 DEF InviteInv

LEMMA VisitKeeps ==
  ASSUME InviteInv, NEW g \in Guests, Invite!VisitRead(g) \/ Invite!VisitCache(g) \/ Invite!ConvertRead(g)
  PROVE  InviteInv'
<1>0. cache \subseteq Guests
  BY DEF InviteInv, InviteTypes
<1>1. UNCHANGED <<card, irow, snap, wrong, raced, members, broken>>
  BY DEF Invite!VisitRead, Invite!VisitCache, Invite!ConvertRead, Invite!world, Invite!inside, Invite!ghost
<1>2. CASE Invite!VisitRead(g)
  <2>1. cache' = cache /\ Invite!Goes(<<"visit", g>>, "read") /\ Alive(g) /\ "read" \in Where
    BY <1>2 DEF Invite!VisitRead, Invite!Live, Alive, Where
  <2> QED BY <1>1, <2>1, LookKeeps
<1>3. CASE Invite!VisitCache(g)
  <2>1. cache' = cache \cup {g} /\ Invite!Goes(<<"visit", g>>, "done") /\ Visiting(g) = "read" /\ "done" \in Where
    BY <1>3 DEF Invite!VisitCache, Visiting, Where
  <2> QED BY <1>1, <2>1, LookKeeps
<1>4. CASE Invite!ConvertRead(g)
  <2>1. cache' = cache /\ Invite!Goes(<<"convert", g>>, "read") /\ irow[g].st # "none" /\ "read" \in Where
    BY <1>4 DEF Invite!ConvertRead, Where
  <2> QED BY <1>1, <2>1, LookKeeps
<1> QED BY <1>2, <1>3, <1>4

LEMMA ConvertMoveKeeps ==
  ASSUME InviteInv, NEW g \in Guests, Invite!ConvertMove(g) PROVE InviteInv'
<1>0. members \subseteq Guests \cup {User} /\ Lives
  BY DEF InviteInv, InviteTypes, Invite!Handles
<1>1. PICK to \in {"idle", "moved"} : Invite!Goes(<<"convert", g>>, to)
  BY DEF Invite!ConvertMove
<1>2. UNCHANGED <<card, irow, snap, wrong, raced, cache, broken>> /\ members' = (members \ {g}) \cup {User} /\ Converting(g) = "read"
  BY DEF Invite!ConvertMove, Invite!world, Invite!ghost, Converting
<1>3. to \in Where /\ g \notin members' /\ irow[g].st # "none"
  BY <1>0, <1>2, GuestsAssumption DEF Where, Lives, Untouched
<1> QED BY <1>1, <1>2, <1>3, LookKeeps

\* The session becomes an account's.
LEMMA ConvertMarkKeeps ==
  ASSUME InviteInv, NEW g \in Guests, Invite!ConvertMark(g) PROVE InviteInv'
<1>0. InviteTypes /\ Lives /\ Chains /\ Unmade /\ Reads
  BY DEF InviteInv
<1>1. /\ Converting(g) = "moved" /\ Invite!Goes(<<"convert", g>>, "done") /\ UNCHANGED <<card, snap, wrong, members>>
      /\ irow' = [irow EXCEPT ![g].conv = TRUE]
      /\ \/ cache' = cache \ {g} /\ broken' = broken
         \/ cache' = cache /\ broken' = broken \cup {g}
      /\ raced' = (raced \/ Invite!Running(<<"join", g>>) \/ Invite!Running(<<"visit", g>>)
                     \/ \E j \in Invite!Redeeming : Invite!Running(j))
  BY DEF Invite!ConvertMark, Invite!world, Invite!inside, Invite!ghost, Converting
<1>2. raced' \in BOOLEAN /\ (~raced' => ~raced /\ ~Invite!Running(<<"join", g>>) /\ ~Invite!Running(<<"visit", g>>))
  BY <1>0, <1>1 DEF InviteTypes, Invite!Running
<1>3. /\ irow' \in [Guests -> SessionRows]
      /\ irow'[g].st = irow[g].st /\ irow'[g].conv /\ \A h \in Guests \ {g} : irow'[h] = irow[h]
  <2>1. [irow[g] EXCEPT !.conv = TRUE] \in SessionRows
    BY <1>0 DEF InviteTypes, SessionRows
  <2>2. [irow[g] EXCEPT !.conv = TRUE].st = irow[g].st /\ [irow[g] EXCEPT !.conv = TRUE].conv = TRUE
    BY <1>0 DEF InviteTypes, SessionRows
  <2> QED BY <2>1, <2>2, <1>0, <1>1 DEF InviteTypes
<1>4. irow[g].st # "none" /\ Join(g) \notin {"idle", "read", "entered"} /\ g \notin members
  BY <1>0, <1>1 DEF Lives, Untouched, RowStored, InsideAlive
<1>5. /\ ipc' \in [Invite!Jobs -> Where]
      /\ \A i \in Invite!Redeeming : ipc'[i] = ipc[i]
      /\ \A h \in Guests : Join(h)' = Join(h) /\ Visiting(h)' = Visiting(h)
      /\ \A e \in Invite!Enders : ipc'[e] = ipc[e]
      /\ \A h \in Guests \ {g} : Converting(h)' = Converting(h)
  <2>1. "done" \in Where
    BY DEF Where
  <2> QED BY <1>0, <1>1, <2>1, SessionGoes
<1>6. /\ \A h \in Guests : (BeingEnded(h)' <=> BeingEnded(h)) /\ (Losing(h)' <=> Losing(h))
      /\ \A h \in Guests \ {g} : Alive(h)' <=> Alive(h)
      /\ ~Alive(g)'
  BY <1>3, <1>5 DEF BeingEnded, Losing, Alive, Invite!Running
<1>7. InviteTypes'
  BY <1>0, <1>1, <1>2, <1>3, <1>5 DEF InviteTypes
<1>8. Lives'
  <2>1. \A h \in Guests \ {g} : RowStored(h)' /\ Untouched(h)' /\ InsideAlive(h)'
    BY <1>0, <1>1, <1>3, <1>5, <1>6 DEF Lives, RowStored, Untouched, InsideAlive
  <2>2. RowStored(g)' /\ Untouched(g)' /\ InsideAlive(g)'
    BY <1>1, <1>3, <1>4, <1>5 DEF RowStored, Untouched, InsideAlive
  <2> QED BY <2>1, <2>2 DEF Lives
<1>9. Chains'
  <2>1. \A h \in Guests : irow'[h].st = irow[h].st
    BY <1>3
  <2> QED BY <1>0, <1>5, <2>1, EndersDiffer DEF Chains, Invite!Running
<1>10. Unmade' /\ Reads' /\ (OneAtATime => OneAtATime') /\ (Counting => Counting')
  <2>1. card \in Card
    BY <1>0 DEF InviteTypes
  <2> QED BY <1>0, <1>1, <1>5, <2>1, RedeemKeeps
<1>11. ASSUME ~raced' PROVE (CachedAlive /\ CopyGone)'
  <2>1. CachedAlive /\ CopyGone
    BY <1>2, <1>11 DEF InviteInv
  <2>2. Join(g) \notin {"stored", "marked", "relieving", "relieved"} /\ Visiting(g) # "read"
    BY <1>2, <1>11 DEF Join, Visiting, Invite!Running
  <2>3. CachedAlive'
    BY <1>1, <1>3, <1>5, <1>6, <2>1, <2>2 DEF CachedAlive
  <2>4. CopyGone'
    BY <1>1, <1>5, <2>1 DEF CopyGone
  <2> QED BY <2>3, <2>4
<1>12. ASSUME ~raced', card.kind = "dm" PROVE (Unused /\ FirstIn /\ OneGoing)'
  <2>1. Unused /\ FirstIn /\ OneGoing
    BY <1>2, <1>12 DEF InviteInv
  <2>2. \A h \in Guests : Going(h)' => Going(h)
    BY <1>1, <1>6 DEF Going
  <2>3. \A h, k \in Guests : Owes(h, k) => Owes(h, k)'
    BY <1>1, <1>5, EndersDiffer DEF Owes, Relief
  <2>4. \A h \in Guests : Invite!Running(<<"join", h>>)' => Invite!Running(<<"join", h>>)
    BY <1>5, JobsDiffer DEF Invite!Running
  <2> QED BY <1>1, <1>5, <2>1, <2>2, <2>3, <2>4, GoingKeeps
<1> QED BY <1>1, <1>7, <1>8, <1>9, <1>10, <1>11, <1>12 DEF InviteInv

LEMMA InviteNext == InviteInv /\ Invite!Next => InviteInv'
<1> SUFFICES ASSUME InviteInv, Invite!Next PROVE InviteInv'
  OBVIOUS
<1>1. CASE Invite!Begin
  BY <1>1, CreateKeeps, TimeKeeps, ReadCardKeeps, VisitKeeps, KillKeeps DEF Invite!Begin
<1>2. CASE Invite!Continue
  <2>1. CASE \/ \E j \in Invite!Redeeming : Invite!CodeWrong(j) \/ Invite!CodeLocked(j) \/ Invite!BreaksOff(j)
             \/ Invite!Accept \/ Invite!JoinAuth
    BY <2>1, LetInKeeps
  <2>2. CASE \E g \in Guests : Invite!JoinEnter(g) \/ Invite!JoinStore(g) \/ Invite!JoinMark(g) \/ Invite!JoinBreaks(g)
    BY <2>2, JoinEnterKeeps, JoinStoreKeeps, JoinMarkKeeps, JoinEndsKeeps
  <2>3. CASE \E g \in Guests : Invite!JoinRelieve(g) \/ Invite!JoinRelieved(g) \/ Invite!JoinCache(g)
    BY <2>3, JoinRelieveKeeps, JoinEndsKeeps
  <2>4. CASE \/ \E e \in Invite!Enders : Invite!EndRow(e) \/ Invite!EndCopy(e) \/ Invite!EndInside(e)
             \/ \E g \in Guests : Invite!KillBreaks(g) \/ Invite!ReliefBreaks(g)
    BY <2>4, EndStepKeeps, KillKeeps, ReliefBreaksKeeps
  <2>5. CASE \E g \in Guests : Invite!VisitCache(g) \/ Invite!ConvertMove(g) \/ Invite!ConvertMark(g)
    BY <2>5, VisitKeeps, ConvertMoveKeeps, ConvertMarkKeeps
  <2> QED BY <1>2, <2>1, <2>2, <2>3, <2>4, <2>5 DEF Invite!Continue
<1> QED BY <1>1, <1>2 DEF Invite!Next

\* What the invariant says of the rows is what the property says of the sessions.
LEMMA InviteInvImplies == InviteInv => Invite!GuestSessionsEnd /\ Invite!WrongCodesCount
<1> SUFFICES ASSUME InviteInv PROVE Invite!GuestSessionsEnd /\ Invite!WrongCodesCount
  OBVIOUS
<1>0. InviteTypes /\ Lives /\ Chains
  BY DEF InviteInv
<1>1. Invite!WrongCodesCount
  BY DEF InviteInv, Counting, Invite!WrongCodesCount
<1>2. Invite!NoGuestLeftInside
  BY <1>0 DEF Invite!NoGuestLeftInside, Lives, InsideAlive, Alive, BeingEnded, Invite!Running, Join
<1>3. Invite!OneSessionPerCard
  <2> SUFFICES ASSUME card.kind = "dm", ~raced, \A g \in Guests : ~Invite!Running(<<"join", g>>),
                      NEW g \in Guests \ broken, NEW h \in Guests \ broken, Invite!Usable(g), Invite!Usable(h)
               PROVE  g = h
    BY DEF Invite!OneSessionPerCard
  <2>1. OneGoing
    BY DEF InviteInv
  <2>2. Going(g) /\ Going(h)
    BY DEF Going, Invite!Usable, Invite!Live, Alive
  <2>3. \A x, y \in Guests : ~Owes(x, y)
    BY <1>0 DEF Owes, Chains, Relief, Join, Invite!Running
  <2> QED BY <2>1, <2>2, <2>3 DEF OneGoing
<1> QED BY <1>1, <1>2, <1>3 DEF Invite!GuestSessionsEnd

\* A direct chat's card has one usable session, a guest without a session is no
\* member and every wrong code counts (inviteRoutes.js), but for overlapping
\* requests and for what broke off where the property says so: for any number of
\* guests and requests.
THEOREM InvitesEndHolds == MCSpec => []InvitesEnd
<1>1. MCInit => InviteInv
  <2>1. MCInit => Invite!Init
    BY DEF MCInit
  <2> QED BY <2>1, InviteStart
<1>2. InviteInv /\ [QuotaStep \/ InviteStep \/ HandleStep]_<<part, quota, invite, handle>> => InviteInv'
  <2> SUFFICES ASSUME InviteInv, [QuotaStep \/ InviteStep \/ HandleStep]_<<part, quota, invite, handle>> PROVE InviteInv'
    OBVIOUS
  <2>1. CASE InviteStep
    BY <2>1, InviteNext DEF InviteStep
  <2>2. CASE UNCHANGED invite
    <3>1. UNCHANGED <<card, irow, cache, members, ipc, snap, wrong, raced, broken>>
      BY <2>2 DEF invite
    <3>2. card \in Card /\ (card.mark = "none" => card' = card) /\ card'.mark \in {card.mark, "used"}
      BY <3>1 DEF InviteInv, InviteTypes
    <3> QED BY <3>1, <3>2, AsideKeeps
  <2> QED BY <2>1, <2>2 DEF QuotaStep, HandleStep
<1>3. InviteInv => InvitesEnd
  BY InviteInvImplies DEF InvitesEnd
<1> QED BY <1>1, <1>2, <1>3, PTL DEF MCSpec
-----------------------------------------------------------------------------
(***************************************************************************)
(* The keys of a guest who takes an account.  What the property says of the *)
(* quiet states follows from what holds in every state: a key left under   *)
(* the guest's name after the conversion has a cause, or a conversion of   *)
(* the page is on its way to rename it; until a page needs a key too early *)
(* there is no second key anywhere; and whoever is refused a key is told so *)
(* by a side that has none and can get none but from the one refused.      *)
(***************************************************************************)
PageStates == [up : BOOLEAN, boot : {"none", "guest", "real"}, sess : {"none", "checking", "guest", "anon", "authed"},
               tried : BOOLEAN, ws : {"none", "guest", "real"}, enrolled : BOOLEAN, refused : BOOLEAN]
OtherStates == [up : BOOLEAN, step : {"idle", "key", "map"}, refused : BOOLEAN]
Pushed == {"ask", "unavailable", "cmk_req", "GUEST_CONVERTED", "K", "N"}
CallStates == {"idle", "asked", "pass", "ok", "no", "key", "map", "mapOnly", "publish", "share"}
Causes == {"closed", "token", "lost", "early", "asked", "missed", "unloaded"}
PageTypes == page \in PageStates /\ other \in OtherStates /\ wire \subseteq Handle!Sides \X Pushed
HandleTypes == Handle!TypeOK /\ PageTypes

\* What is asked of the server, by whom, and what the messages in flight say.
Under == /\ user = "real" \/ page.boot = "real" \/ page.enrolled => server.acct
         /\ call["boot"] # "idle" => page.up /\ page.boot = "real"
         /\ call["effect"] # "idle" => page.up /\ page.tried
         /\ call["adrift"] # "idle" => "closed" \in why
         /\ call["boot"] \in {"idle", "asked", "pass", "ok", "no", "share"}
         /\ call["adrift"] \in {"idle", "asked", "pass", "ok", "no"}
         /\ <<"mine", "ask">> \in wire => server.moved
         /\ <<"peer", "cmk_req">> \in wire => kind = "dm"
         /\ <<"peer", "K">> \in wire \/ <<"peer", "N">> \in wire => kind = "group"

\* At the converted browser.
Renaming == /\ call["effect"] \in {"map", "mapOnly"} => key["mine"]["guest"] = "none"
            /\ call["effect"] \in {"map", "mapOnly", "publish"} => key["mine"]["real"] # "none"
            /\ map["mine"] = "guest" => \/ key["mine"]["guest"] # "none" \/ "closed" \in why
                                        \/ call["effect"] \in {"map", "mapOnly"}
            /\ server.moved /\ Handle!LeftBehind("mine")
                 => \/ why \cap {"closed", "lost", "token"} # {}
                    \/ call["boot"] = "ok" \/ call["effect"] \in {"ok", "key", "map", "mapOnly"}

\* At the other's page, which catches up in a chat of two.
Catching == /\ other.up
            /\ \/ <<"peer", "GUEST_CONVERTED">> \in wire \/ other.step = "key"
               \/ other.step = "map" /\ key["peer"]["guest"] = "none"
Following == /\ map["peer"] = "guest" => kind = "dm"
             /\ <<"peer", "GUEST_CONVERTED">> \in wire => other.up
             /\ server.moved /\ Handle!LeftBehind("peer")
                  => \/ why \cap {"missed", "unloaded"} # {} \/ Catching
                     \/ kind = "dm" /\ ~other.up

\* There is one key until one is made too early.
OneKey == "early" \notin why => /\ \A s \in Handle!Sides, n \in Handle!Names : key[s][n] # "N"
                                /\ \A n \in Handle!Names : wrap[n] # Handle!NoWrap => wrap[n][2] # "N"
                                /\ lent # "N" /\ <<"peer", "N">> \notin wire

\* Whoever is refused a key.
Refusals ==
  /\ lent # "none" => key["peer"]["real"] # "none"
  /\ page.refused \/ <<"mine", "unavailable">> \in wire
       => \/ key["mine"]["real"] # "none" \/ "asked" \in why
          \/ /\ kind = "dm" /\ \A n \in Handle!Names : key["peer"][n] = "none" /\ wrap[n] = Handle!NoWrap
  /\ other.refused \/ <<"peer", "unavailable">> \in wire
       => \/ key["peer"]["real"] # "none" \/ "asked" \in why
          \/ /\ kind = "dm" /\ server.moved /\ \A n \in Handle!Names : key["mine"][n] = "none"

HandleInv == HandleTypes /\ Under /\ Renaming /\ Following /\ OneKey /\ Refusals

\* The effect on the session's state marks the page and starts the conversion.
LEMMA EffectFacts ==
  ASSUME NEW p \in PageStates, NEW pd \in BOOLEAN, Handle!Effect(p, pd)
  PROVE  /\ page' \in PageStates
         /\ \A f \in {"up", "boot", "ws", "enrolled", "refused"} : page'[f] = p[f]
         /\ p.tried => page'.tried
         /\ \/ call' = call
            \/ call' = [call EXCEPT !["effect"] = "asked"] /\ page'.tried /\ ~p.tried
BY DEF PageStates, Handle!Effect, Handle!Goes

\* The answer to the check of the session takes a page down only when there is
\* no account.
LEMMA CheckFacts ==
  ASSUME HandleTypes, Handle!Check
  PROVE  /\ page' \in PageStates
         /\ page.up /\ page'.up /\ page'.enrolled = page.enrolled /\ page'.refused = page.refused
         /\ page'.boot = page.boot \/ (page'.boot = "none" /\ ~server.acct)
         /\ page.tried => page'.tried
         /\ user' = user \/ user' = "none" \/ (user' = "real" /\ server.acct)
         /\ \/ call' = call
            \/ call' = [call EXCEPT !["effect"] = "asked"] /\ page'.tried /\ ~page.tried
         /\ UNCHANGED <<kind, server, wrap, lent, pend, key, map, other, devs, wire, why>>
<1> page \in PageStates /\ page.up /\ pend \in BOOLEAN
  BY DEF HandleTypes, PageTypes, Handle!TypeOK, Handle!Check
<1>1. UNCHANGED <<kind, server, wrap, lent, pend, key, map, other, devs, wire, why>>
  BY DEF Handle!Check, Handle!kv
<1>2. ASSUME NEW s \in {"authed", "anon"}, Handle!Effect([page EXCEPT !.sess = s], pend)
      PROVE  /\ page' \in PageStates
             /\ page'.up /\ page'.enrolled = page.enrolled /\ page'.refused = page.refused /\ page'.boot = page.boot
             /\ page.tried => page'.tried
             /\ \/ call' = call
                \/ call' = [call EXCEPT !["effect"] = "asked"] /\ page'.tried /\ ~page.tried
  <2>1. PICK p : p = [page EXCEPT !.sess = s]
    OBVIOUS
  <2>2. /\ p \in PageStates
        /\ p.up = page.up /\ p.enrolled = page.enrolled /\ p.refused = page.refused
        /\ p.boot = page.boot /\ p.tried = page.tried
    BY <2>1 DEF PageStates
  <2>3. Handle!Effect(p, pend)
    BY <1>2, <2>1
  <2> QED BY <2>2, <2>3, EffectFacts
<1>3. CASE server.acct /\ user' = "real" /\ Handle!Effect([page EXCEPT !.sess = "authed"], pend)
  BY <1>1, <1>2, <1>3
<1>4. CASE ~server.acct /\ user' = user /\ page' = [page EXCEPT !.sess = "guest"] /\ call' = call
  BY <1>1, <1>4 DEF PageStates
<1>5. CASE /\ ~server.acct /\ user' = "none" /\ call' = call
           /\ page' = [page EXCEPT !.sess = "anon", !.boot = "none", !.ws = "none"]
  BY <1>1, <1>5 DEF PageStates
<1>6. CASE user' = user /\ Handle!Effect([page EXCEPT !.sess = IF user = "none" THEN "anon" ELSE "authed"], pend)
  BY <1>1, <1>2, <1>6
<1> QED BY <1>3, <1>4, <1>5, <1>6 DEF Handle!Check

\* Every step keeps the types; a fresh wrap holds a key.
LEMMA TypesKept ==
  ASSUME HandleTypes, Renaming, Handle!Next PROVE HandleTypes'
<1> USE DEF HandleTypes, PageTypes, Handle!TypeOK, PageStates, OtherStates, Pushed, CallStates, Causes,
            Handle!Sides, Handle!Names, Handle!Places, Handle!Slots, Handle!pageVars, Handle!kv, Handle!Goes,
            Handle!Blame
<1> USE DEF Renaming
<1>1. CASE Handle!Load
  <2>1. PageTypes'
    BY <1>1 DEF Handle!Load, Handle!Closed
  <2>3. why' \subseteq Causes
    BY <1>1 DEF Handle!Load, Handle!Closed
  <2>4. call' \in [Handle!Slots -> CallStates]
    BY <1>1 DEF Handle!Load, Handle!Closed
  <2>5. Handle!TypeOK'
    BY <1>1, <2>3, <2>4 DEF Handle!Load, Handle!Closed
  <2> QED BY <2>1, <2>5
<1>2. CASE Handle!Leave
  <2>1. PageTypes'
    BY <1>2 DEF Handle!Leave, Handle!Closed, Handle!Trip
  <2>2. why' = why \/ why' = why \cup {"closed"}
    BY <1>2 DEF Handle!Leave, Handle!Closed, Handle!Trip
  <2>3. why' \subseteq Causes
    BY <2>2
  <2>4. call' \in [Handle!Slots -> CallStates]
    BY <1>2 DEF Handle!Leave, Handle!Closed, Handle!Trip
  <2>5. Handle!TypeOK'
    BY <1>2, <2>3, <2>4 DEF Handle!Leave, Handle!Closed, Handle!Trip
  <2> QED BY <2>1, <2>5
<1>3. CASE Handle!Check
  <2>1. call' \in [Handle!Slots -> CallStates]
    BY <1>3, CheckFacts
  <2>2. PageTypes'
    BY <1>3, CheckFacts
  <2>3. /\ UNCHANGED <<kind, server, wrap, lent, pend, key, map, devs, why>>
        /\ user' \in {"none", "guest", "real"}
    BY <1>3, CheckFacts
  <2>4. Handle!TypeOK'
    BY <2>1, <2>3 DEF Handle!NoWrap
  <2> QED BY <2>2, <2>4
<1>4. CASE Handle!Enrol
  BY <1>4 DEF Handle!Enrol
<1>5. CASE Handle!SignedIn
  <2>1. PageTypes'
    BY <1>5 DEF Handle!SignedIn
  <2>3. why' \subseteq Causes
    BY <1>5 DEF Handle!SignedIn
  <2>4. call' \in [Handle!Slots -> CallStates]
    BY <1>5 DEF Handle!SignedIn
  <2>5. Handle!TypeOK'
    BY <1>5, <2>3, <2>4 DEF Handle!SignedIn
  <2> QED BY <2>1, <2>5
<1>6. CASE Handle!Publish
  BY <1>6 DEF Handle!Publish
<1>7. CASE Handle!Unread
  BY <1>7 DEF Handle!Unread
<1>8. CASE Handle!MyKeys
  <2>1. PageTypes'
    BY <1>8 DEF Handle!MyKeys, Handle!Renamed, Handle!MoveEntry
  <2>3. why' \subseteq Causes
    BY <1>8 DEF Handle!MyKeys, Handle!Renamed, Handle!MoveEntry
  <2>4. call' \in [Handle!Slots -> CallStates]
    BY <1>8 DEF Handle!MyKeys, Handle!Renamed, Handle!MoveEntry
  <2>5. Handle!TypeOK'
    BY <1>8, <2>3, <2>4 DEF Handle!MyKeys, Handle!Renamed, Handle!MoveEntry
  <2> QED BY <2>1, <2>5
<1>9. CASE Handle!MyMaps
  BY <1>9 DEF Handle!MyMaps, Handle!MoveMap
<1>10. CASE Handle!Republish
  BY <1>10 DEF Handle!Republish
<1>11. CASE Handle!Need
  <2>1. PageTypes'
    BY <1>11 DEF Handle!Need, Handle!Put, Handle!Push, Handle!Reaches, Handle!Runs, Handle!Trip
  <2>3. why' \subseteq Causes
    BY <1>11 DEF Handle!Need, Handle!Put, Handle!Push, Handle!Reaches, Handle!Runs, Handle!Trip
  <2>4. call' \in [Handle!Slots -> CallStates]
    BY <1>11 DEF Handle!Need, Handle!Put, Handle!Push, Handle!Reaches, Handle!Runs, Handle!Trip
  <2>5. Handle!TypeOK'
    BY <1>11, <2>3, <2>4 DEF Handle!Need, Handle!Put, Handle!Push, Handle!Reaches, Handle!Runs, Handle!Trip
  <2> QED BY <2>1, <2>5
<1>12. CASE Handle!Asked
  <2>1. PageTypes'
    BY <1>12 DEF Handle!Asked, Handle!Reaches, Handle!Runs, Handle!Trip, Handle!Put
  <2>2. why' \in {why, why \cup {"asked"}, why \cup {"early"}}
    BY <1>12 DEF Handle!Asked, Handle!Reaches, Handle!Runs, Handle!Trip, Handle!Put
  <2>3. why' \subseteq Causes
    BY <2>2
  <2>4. call' \in [Handle!Slots -> CallStates]
    BY <1>12 DEF Handle!Asked, Handle!Reaches, Handle!Runs, Handle!Trip, Handle!Put
  <2>5. Handle!TypeOK'
    BY <1>12, <2>3, <2>4 DEF Handle!Asked, Handle!Reaches, Handle!Runs, Handle!Trip, Handle!Put
  <2> QED BY <2>1, <2>5
<1>13. CASE Handle!Refused
  <2>1. PageTypes'
    BY <1>13 DEF Handle!Refused
  <2>2. UNCHANGED <<kind, server, wrap, lent, user, pend, call, key, map, devs, why>>
    BY <1>13 DEF Handle!Refused
  <2>3. Handle!TypeOK'
    BY <2>2 DEF Handle!NoWrap
  <2> QED BY <2>1, <2>3
<1>14. CASE Handle!OtherLoads
  <2>1. PageTypes'
    <3>1. PICK o : o = [Handle!Away EXCEPT !.up = TRUE]
      OBVIOUS
    <3>2. o \in OtherStates
      BY <3>1 DEF Handle!Away
    <3>3. other' = o \/ other' = [o EXCEPT !.step = Handle!CatchUp]
      BY <1>14, <3>1 DEF Handle!OtherLoads, Handle!Loaded
    <3>4. Handle!CatchUp \in {"idle", "key"} /\ UNCHANGED <<page, wire>>
      BY <1>14 DEF Handle!OtherLoads, Handle!CatchUp
    <3> QED BY <3>2, <3>3, <3>4
  <2>2. UNCHANGED <<kind, server, wrap, lent, user, pend, call, key, map, devs>>
    BY <1>14 DEF Handle!OtherLoads
  <2>3. why' \subseteq why \cup {"unloaded"}
    BY <1>14 DEF Handle!OtherLoads, Handle!Loaded
  <2>4. Handle!TypeOK'
    BY <2>2, <2>3 DEF Handle!NoWrap
  <2> QED BY <2>1, <2>4
<1>29. CASE Handle!OtherRefreshes
  <2>1. PageTypes'
    BY <1>29 DEF Handle!OtherRefreshes, Handle!Loaded, Handle!CatchUp
  <2>2. UNCHANGED <<kind, server, wrap, lent, user, pend, call, key, map, devs>>
    BY <1>29 DEF Handle!OtherRefreshes
  <2>3. why' \subseteq why
    BY <1>29 DEF Handle!OtherRefreshes, Handle!Loaded
  <2>4. Handle!TypeOK'
    BY <2>2, <2>3 DEF Handle!NoWrap
  <2> QED BY <2>1, <2>4
<1>15. CASE Handle!OtherLeaves
  <2>1. PageTypes'
    BY <1>15 DEF Handle!OtherLeaves, Handle!Away, Handle!Trip
  <2>2. why' = why \/ why' = why \cup {"missed"}
    BY <1>15 DEF Handle!OtherLeaves, Handle!Away, Handle!Trip
  <2>3. why' \subseteq Causes
    BY <2>2
  <2>4. call' \in [Handle!Slots -> CallStates]
    BY <1>15 DEF Handle!OtherLeaves, Handle!Away, Handle!Trip
  <2>5. Handle!TypeOK'
    BY <1>15, <2>3, <2>4 DEF Handle!OtherLeaves, Handle!Away, Handle!Trip
  <2> QED BY <2>1, <2>5
<1>16. CASE Handle!Told
  BY <1>16 DEF Handle!Told
<1>17. CASE Handle!OtherKeys
  BY <1>17 DEF Handle!OtherKeys, Handle!Renamed, Handle!MoveEntry
<1>18. CASE Handle!OtherMaps
  BY <1>18 DEF Handle!OtherMaps, Handle!MoveMap
<1>19. CASE Handle!Open
  BY <1>19 DEF Handle!Open, Handle!NoWrap, Handle!Put, Handle!MovedWrap, Handle!Listed, Handle!Found
<1>20. CASE Handle!Ask
  BY <1>20 DEF Handle!Ask, Handle!NoWrap, Handle!Push, Handle!Reaches, Handle!Runs, Handle!Trip, Handle!Listed, Handle!Found
<1>21. CASE Handle!OtherAsked
  <2>1. PageTypes'
    BY <1>21 DEF Handle!OtherAsked, Handle!Reaches, Handle!Runs, Handle!Trip, Handle!NoWrap, Handle!Listed, Handle!Found
  <2>2. why' = why \/ why' = why \cup {"asked"}
    BY <1>21 DEF Handle!OtherAsked, Handle!Reaches, Handle!Runs, Handle!Trip, Handle!NoWrap, Handle!Listed, Handle!Found
  <2>3. why' \subseteq Causes
    BY <2>2
  <2>4. call' \in [Handle!Slots -> CallStates]
    BY <1>21 DEF Handle!OtherAsked, Handle!Reaches, Handle!Runs, Handle!Trip, Handle!NoWrap, Handle!Listed, Handle!Found
  <2>5. Handle!TypeOK'
    BY <1>21, <2>3, <2>4 DEF Handle!OtherAsked, Handle!Reaches, Handle!Runs, Handle!Trip, Handle!NoWrap, Handle!Listed, Handle!Found
  <2> QED BY <2>1, <2>5
<1>22. CASE Handle!OtherRefused
  <2>0. PICK b \in BOOLEAN : other' = [other EXCEPT !.refused = b]
    BY <1>22 DEF Handle!OtherRefused
  <2>1a. UNCHANGED page /\ wire' \subseteq wire
    BY <1>22 DEF Handle!OtherRefused
  <2>1. PageTypes'
    BY <2>0, <2>1a
  <2>2. UNCHANGED <<kind, server, wrap, lent, user, pend, call, key, map, devs, why>>
    BY <1>22 DEF Handle!OtherRefused
  <2>3. Handle!TypeOK'
    BY <2>2 DEF Handle!NoWrap
  <2> QED BY <2>1, <2>3
<1>23. ASSUME NEW c \in Handle!Slots, Handle!Admit(c) PROVE HandleTypes'
  BY <1>23 DEF Handle!Admit
<1>24. ASSUME NEW c \in Handle!Slots, Handle!Convert(c) PROVE HandleTypes'
  <2>1. PageTypes'
    BY <1>24 DEF Handle!Convert, Handle!NoWrap, Handle!Push, Handle!Reaches, Handle!Runs, Handle!Trip, Handle!MovedWrap
  <2>3. why' \subseteq Causes
    BY <1>24 DEF Handle!Convert, Handle!NoWrap, Handle!Push, Handle!Reaches, Handle!Runs, Handle!Trip, Handle!MovedWrap
  <2>4. call' \in [Handle!Slots -> CallStates]
    BY <1>24 DEF Handle!Convert, Handle!NoWrap, Handle!Push, Handle!Reaches, Handle!Runs, Handle!Trip, Handle!MovedWrap
  <2>5. /\ server' \in [acct : BOOLEAN, moved : BOOLEAN, dev : BOOLEAN]
        /\ wrap' \in {wrap, Handle!MovedWrap} /\ UNCHANGED <<kind, lent, user, pend, key, map, devs>>
    BY <1>24 DEF Handle!Convert, Handle!NoWrap, Handle!Push, Handle!Reaches, Handle!Runs, Handle!Trip, Handle!MovedWrap
  <2>6. Handle!TypeOK'
    BY <2>3, <2>4, <2>5 DEF Handle!MovedWrap, Handle!NoWrap
  <2> QED BY <2>1, <2>6
<1>25. ASSUME NEW c \in Handle!Places, Handle!Answered(c) PROVE HandleTypes'
  <2>1. PageTypes'
    BY <1>25 DEF Handle!Answered
  <2>3. why' \subseteq Causes
    BY <1>25 DEF Handle!Answered
  <2>4. call' \in [Handle!Slots -> CallStates]
    BY <1>25 DEF Handle!Answered
  <2>5. pend' \in BOOLEAN /\ UNCHANGED <<kind, server, wrap, lent, user, key, map, devs>>
    BY <1>25 DEF Handle!Answered
  <2>6. Handle!TypeOK'
    BY <2>3, <2>4, <2>5 DEF Handle!MovedWrap, Handle!NoWrap
  <2> QED BY <2>1, <2>6
<1>26. ASSUME NEW c \in Handle!Places, Handle!AnswerLost(c) PROVE HandleTypes'
  BY <1>26 DEF Handle!AnswerLost, Handle!Trip
<1>27. ASSUME NEW c \in Handle!Places, Handle!Share(c) PROVE HandleTypes'
  BY <1>27 DEF Handle!Share, Handle!Push, Handle!Reaches, Handle!Runs, Handle!Trip
<1>28. ASSUME NEW c \in {"K", "N"}, Handle!GetsSenderKey(c) PROVE HandleTypes'
  BY <1>28 DEF Handle!GetsSenderKey, Handle!Put, Handle!Listed
<1> QED BY <1>1, <1>2, <1>3, <1>4, <1>5, <1>6, <1>7, <1>8, <1>9, <1>10, <1>11, <1>12, <1>13, <1>14, <1>15, <1>16,
           <1>17, <1>18, <1>19, <1>20, <1>21, <1>22, <1>23, <1>24, <1>25, <1>26, <1>27, <1>28, <1>29 DEF Handle!Next

\* Requests are asked of a page as the bootstrap and the effect ask them.
LEMMA UnderKept ==
  ASSUME HandleTypes, Under, Handle!Next PROVE Under'
<1> USE DEF HandleTypes, PageTypes, Handle!TypeOK, PageStates, OtherStates, Pushed, Handle!Sides, Handle!Names,
            Handle!Places, Handle!Slots, Handle!pageVars, Handle!kv, Handle!Goes, Handle!Blame
<1> USE DEF Under
<1>1. CASE Handle!Load
  BY <1>1 DEF Handle!Load, Handle!Closed
<1>2. CASE Handle!Leave
  BY <1>2 DEF Handle!Leave, Handle!Closed, Handle!Trip
<1>3. CASE Handle!Check
  BY <1>3, CheckFacts
<1>4. CASE Handle!Enrol
  BY <1>4 DEF Handle!Enrol
<1>5. CASE Handle!SignedIn
  BY <1>5 DEF Handle!SignedIn
<1>6. CASE Handle!Publish
  BY <1>6 DEF Handle!Publish
<1>7. CASE Handle!Unread
  BY <1>7 DEF Handle!Unread
<1>8. CASE Handle!MyKeys
  BY <1>8 DEF Handle!MyKeys, Handle!Renamed, Handle!MoveEntry
<1>9. CASE Handle!MyMaps
  BY <1>9 DEF Handle!MyMaps, Handle!MoveMap
<1>10. CASE Handle!Republish
  BY <1>10 DEF Handle!Republish
<1>11. CASE Handle!Need
  BY <1>11 DEF Handle!Need, Handle!Put, Handle!Push, Handle!Reaches, Handle!Runs, Handle!Trip
<1>12. CASE Handle!Asked
  BY <1>12 DEF Handle!Asked, Handle!Reaches, Handle!Runs, Handle!Trip, Handle!Put
<1>13. CASE Handle!Refused
  BY <1>13 DEF Handle!Refused
<1>14. CASE Handle!OtherLoads
  BY <1>14 DEF Handle!OtherLoads, Handle!Loaded, Handle!Trip, Handle!Away, Handle!CatchUp
<1>29. CASE Handle!OtherRefreshes
  BY <1>29 DEF Handle!OtherRefreshes, Handle!Loaded, Handle!CatchUp
<1>15. CASE Handle!OtherLeaves
  BY <1>15 DEF Handle!OtherLeaves, Handle!Away, Handle!Trip
<1>16. CASE Handle!Told
  BY <1>16 DEF Handle!Told
<1>17. CASE Handle!OtherKeys
  BY <1>17 DEF Handle!OtherKeys, Handle!Renamed, Handle!MoveEntry
<1>18. CASE Handle!OtherMaps
  BY <1>18 DEF Handle!OtherMaps, Handle!MoveMap
<1>19. CASE Handle!Open
  BY <1>19 DEF Handle!Open, Handle!NoWrap, Handle!Put, Handle!MovedWrap, Handle!Listed, Handle!Found
<1>20. CASE Handle!Ask
  BY <1>20 DEF Handle!Ask, Handle!NoWrap, Handle!Push, Handle!Reaches, Handle!Runs, Handle!Trip, Handle!Listed, Handle!Found
<1>21. CASE Handle!OtherAsked
  BY <1>21 DEF Handle!OtherAsked, Handle!Reaches, Handle!Runs, Handle!Trip, Handle!NoWrap, Handle!Listed, Handle!Found
<1>22. CASE Handle!OtherRefused
  BY <1>22 DEF Handle!OtherRefused
<1>23. ASSUME NEW c \in Handle!Slots, Handle!Admit(c) PROVE Under'
  BY <1>23 DEF Handle!Admit
<1>24. ASSUME NEW c \in Handle!Slots, Handle!Convert(c) PROVE Under'
  BY <1>24 DEF Handle!Convert, Handle!NoWrap, Handle!Push, Handle!Reaches, Handle!Runs, Handle!Trip, Handle!MovedWrap
<1>25. ASSUME NEW c \in Handle!Places, Handle!Answered(c) PROVE Under'
  BY <1>25 DEF Handle!Answered
<1>26. ASSUME NEW c \in Handle!Places, Handle!AnswerLost(c) PROVE Under'
  BY <1>26 DEF Handle!AnswerLost, Handle!Trip
<1>27. ASSUME NEW c \in Handle!Places, Handle!Share(c) PROVE Under'
  BY <1>27 DEF Handle!Share, Handle!Push, Handle!Reaches, Handle!Runs, Handle!Trip
<1>28. ASSUME NEW c \in {"K", "N"}, Handle!GetsSenderKey(c) PROVE Under'
  BY <1>28 DEF Handle!GetsSenderKey, Handle!Put, Handle!Listed
<1> QED BY <1>1, <1>2, <1>3, <1>4, <1>5, <1>6, <1>7, <1>8, <1>9, <1>10, <1>11, <1>12, <1>13, <1>14, <1>15, <1>16,
           <1>17, <1>18, <1>19, <1>20, <1>21, <1>22, <1>23, <1>24, <1>25, <1>26, <1>27, <1>28, <1>29 DEF Handle!Next

\* What is left under the guest's name at the converted browser has a cause.
LEMMA RenamingKept ==
  ASSUME HandleTypes, Under, Renaming, Handle!Next PROVE Renaming'
<1> USE DEF HandleTypes, PageTypes, Handle!TypeOK, PageStates, OtherStates, Pushed, Handle!Sides, Handle!Names,
            Handle!Places, Handle!Slots, Handle!pageVars, Handle!kv, Handle!Goes, Handle!Blame
<1> USE DEF Under, Renaming, Handle!LeftBehind
<1>1. CASE Handle!Load
  BY <1>1 DEF Handle!Load, Handle!Closed
<1>2. CASE Handle!Leave
  BY <1>2 DEF Handle!Leave, Handle!Closed, Handle!Trip
<1>3. CASE Handle!Check
  BY <1>3, CheckFacts
<1>4. CASE Handle!Enrol
  BY <1>4 DEF Handle!Enrol
<1>5. CASE Handle!SignedIn
  BY <1>5 DEF Handle!SignedIn
<1>6. CASE Handle!Publish
  BY <1>6 DEF Handle!Publish
<1>7. CASE Handle!Unread
  BY <1>7 DEF Handle!Unread
<1>8. CASE Handle!MyKeys
  BY <1>8 DEF Handle!MyKeys, Handle!Renamed, Handle!MoveEntry
<1>9. CASE Handle!MyMaps
  BY <1>9 DEF Handle!MyMaps, Handle!MoveMap
<1>10. CASE Handle!Republish
  BY <1>10 DEF Handle!Republish
<1>11. CASE Handle!Need
  BY <1>11 DEF Handle!Need, Handle!Put, Handle!Push, Handle!Reaches, Handle!Runs, Handle!Trip
<1>12. CASE Handle!Asked
  BY <1>12 DEF Handle!Asked, Handle!Reaches, Handle!Runs, Handle!Trip, Handle!Put
<1>13. CASE Handle!Refused
  BY <1>13 DEF Handle!Refused
<1>14. CASE Handle!OtherLoads
  BY <1>14 DEF Handle!OtherLoads, Handle!Loaded, Handle!Trip, Handle!Away, Handle!CatchUp
<1>29. CASE Handle!OtherRefreshes
  BY <1>29 DEF Handle!OtherRefreshes, Handle!Loaded, Handle!CatchUp
<1>15. CASE Handle!OtherLeaves
  BY <1>15 DEF Handle!OtherLeaves, Handle!Away, Handle!Trip
<1>16. CASE Handle!Told
  BY <1>16 DEF Handle!Told
<1>17. CASE Handle!OtherKeys
  BY <1>17 DEF Handle!OtherKeys, Handle!Renamed, Handle!MoveEntry
<1>18. CASE Handle!OtherMaps
  BY <1>18 DEF Handle!OtherMaps, Handle!MoveMap
<1>19. CASE Handle!Open
  BY <1>19 DEF Handle!Open, Handle!NoWrap, Handle!Put, Handle!MovedWrap, Handle!Listed, Handle!Found
<1>20. CASE Handle!Ask
  BY <1>20 DEF Handle!Ask, Handle!NoWrap, Handle!Push, Handle!Reaches, Handle!Runs, Handle!Trip, Handle!Listed, Handle!Found
<1>21. CASE Handle!OtherAsked
  BY <1>21 DEF Handle!OtherAsked, Handle!Reaches, Handle!Runs, Handle!Trip, Handle!NoWrap, Handle!Listed, Handle!Found
<1>22. CASE Handle!OtherRefused
  BY <1>22 DEF Handle!OtherRefused
<1>23. ASSUME NEW c \in Handle!Slots, Handle!Admit(c) PROVE Renaming'
  BY <1>23 DEF Handle!Admit
<1>24. ASSUME NEW c \in Handle!Slots, Handle!Convert(c) PROVE Renaming'
  BY <1>24 DEF Handle!Convert, Handle!NoWrap, Handle!Push, Handle!Reaches, Handle!Runs, Handle!Trip, Handle!MovedWrap
<1>25. ASSUME NEW c \in Handle!Places, Handle!Answered(c) PROVE Renaming'
  BY <1>25 DEF Handle!Answered
<1>26. ASSUME NEW c \in Handle!Places, Handle!AnswerLost(c) PROVE Renaming'
  BY <1>26 DEF Handle!AnswerLost, Handle!Trip
<1>27. ASSUME NEW c \in Handle!Places, Handle!Share(c) PROVE Renaming'
  BY <1>27 DEF Handle!Share, Handle!Push, Handle!Reaches, Handle!Runs, Handle!Trip
<1>28. ASSUME NEW c \in {"K", "N"}, Handle!GetsSenderKey(c) PROVE Renaming'
  BY <1>28 DEF Handle!GetsSenderKey, Handle!Put, Handle!Listed
<1> QED BY <1>1, <1>2, <1>3, <1>4, <1>5, <1>6, <1>7, <1>8, <1>9, <1>10, <1>11, <1>12, <1>13, <1>14, <1>15, <1>16,
           <1>17, <1>18, <1>19, <1>20, <1>21, <1>22, <1>23, <1>24, <1>25, <1>26, <1>27, <1>28, <1>29 DEF Handle!Next

\* The other's open page has renamed, or is told, unless it missed the event in a group.
LEMMA FollowingKept ==
  ASSUME HandleTypes, Following, Handle!Next PROVE Following'
<1> USE DEF HandleTypes, PageTypes, Handle!TypeOK, PageStates, OtherStates, Pushed, Handle!Sides, Handle!Names,
            Handle!Places, Handle!Slots, Handle!pageVars, Handle!kv, Handle!Goes, Handle!Blame
<1> USE DEF Following, Catching, Handle!LeftBehind
<1>1. CASE Handle!Load
  BY <1>1 DEF Handle!Load, Handle!Closed
<1>2. CASE Handle!Leave
  BY <1>2 DEF Handle!Leave, Handle!Closed, Handle!Trip
<1>3. CASE Handle!Check
  BY <1>3, CheckFacts
<1>4. CASE Handle!Enrol
  BY <1>4 DEF Handle!Enrol
<1>5. CASE Handle!SignedIn
  BY <1>5 DEF Handle!SignedIn
<1>6. CASE Handle!Publish
  BY <1>6 DEF Handle!Publish
<1>7. CASE Handle!Unread
  BY <1>7 DEF Handle!Unread
<1>8. CASE Handle!MyKeys
  BY <1>8 DEF Handle!MyKeys, Handle!Renamed, Handle!MoveEntry
<1>9. CASE Handle!MyMaps
  BY <1>9 DEF Handle!MyMaps, Handle!MoveMap
<1>10. CASE Handle!Republish
  BY <1>10 DEF Handle!Republish
<1>11. CASE Handle!Need
  BY <1>11 DEF Handle!Need, Handle!Put, Handle!Push, Handle!Reaches, Handle!Runs, Handle!Trip
<1>12. CASE Handle!Asked
  BY <1>12 DEF Handle!Asked, Handle!Reaches, Handle!Runs, Handle!Trip, Handle!Put
<1>13. CASE Handle!Refused
  BY <1>13 DEF Handle!Refused
<1>14. CASE Handle!OtherLoads
  BY <1>14 DEF Handle!OtherLoads, Handle!Loaded, Handle!Trip, Handle!Away, Handle!CatchUp
<1>29. CASE Handle!OtherRefreshes
  BY <1>29 DEF Handle!OtherRefreshes, Handle!Loaded, Handle!CatchUp
<1>15. CASE Handle!OtherLeaves
  BY <1>15 DEF Handle!OtherLeaves, Handle!Away, Handle!Trip
<1>16. CASE Handle!Told
  BY <1>16 DEF Handle!Told
<1>17. CASE Handle!OtherKeys
  BY <1>17 DEF Handle!OtherKeys, Handle!Renamed, Handle!MoveEntry
<1>18. CASE Handle!OtherMaps
  BY <1>18 DEF Handle!OtherMaps, Handle!MoveMap
<1>19. CASE Handle!Open
  BY <1>19 DEF Handle!Open, Handle!NoWrap, Handle!Put, Handle!MovedWrap, Handle!Listed, Handle!Found
<1>20. CASE Handle!Ask
  BY <1>20 DEF Handle!Ask, Handle!NoWrap, Handle!Push, Handle!Reaches, Handle!Runs, Handle!Trip, Handle!Listed, Handle!Found
<1>21. CASE Handle!OtherAsked
  BY <1>21 DEF Handle!OtherAsked, Handle!Reaches, Handle!Runs, Handle!Trip, Handle!NoWrap, Handle!Listed, Handle!Found
<1>22. CASE Handle!OtherRefused
  BY <1>22 DEF Handle!OtherRefused
<1>23. ASSUME NEW c \in Handle!Slots, Handle!Admit(c) PROVE Following'
  BY <1>23 DEF Handle!Admit
<1>24. ASSUME NEW c \in Handle!Slots, Handle!Convert(c) PROVE Following'
  <2>1. UNCHANGED <<kind, key, map, other>> /\ ("missed" \in why => "missed" \in why')
    BY <1>24 DEF Handle!Convert
  <2>2. "unloaded" \in why => "unloaded" \in why'
    BY <1>24 DEF Handle!Convert
  <2>3. <<"peer", "GUEST_CONVERTED">> \in wire => <<"peer", "GUEST_CONVERTED">> \in wire'
    BY <1>24 DEF Handle!Convert, Handle!Push, Handle!Reaches
  <2>4. \/ <<"peer", "GUEST_CONVERTED">> \in wire' \/ "missed" \in why' \/ (kind = "dm" /\ ~other.up)
    BY <1>24 DEF Handle!Convert
  <2>5. <<"peer", "GUEST_CONVERTED">> \in wire' => other.up \/ <<"peer", "GUEST_CONVERTED">> \in wire
    BY <1>24 DEF Handle!Convert, Handle!Push, Handle!Reaches, Handle!Runs
  <2> QED BY <2>1, <2>2, <2>3, <2>4, <2>5
<1>25. ASSUME NEW c \in Handle!Places, Handle!Answered(c) PROVE Following'
  BY <1>25 DEF Handle!Answered
<1>26. ASSUME NEW c \in Handle!Places, Handle!AnswerLost(c) PROVE Following'
  BY <1>26 DEF Handle!AnswerLost, Handle!Trip
<1>27. ASSUME NEW c \in Handle!Places, Handle!Share(c) PROVE Following'
  BY <1>27 DEF Handle!Share, Handle!Push, Handle!Reaches, Handle!Runs, Handle!Trip
<1>28. ASSUME NEW c \in {"K", "N"}, Handle!GetsSenderKey(c) PROVE Following'
  BY <1>28 DEF Handle!GetsSenderKey, Handle!Put, Handle!Listed
<1> QED BY <1>1, <1>2, <1>3, <1>4, <1>5, <1>6, <1>7, <1>8, <1>9, <1>10, <1>11, <1>12, <1>13, <1>14, <1>15, <1>16,
           <1>17, <1>18, <1>19, <1>20, <1>21, <1>22, <1>23, <1>24, <1>25, <1>26, <1>27, <1>28, <1>29 DEF Handle!Next

\* Only a key needed too early is a second one.
LEMMA OneKeyKept ==
  ASSUME HandleTypes, OneKey, Handle!Next PROVE OneKey'
<1> USE DEF HandleTypes, PageTypes, Handle!TypeOK, PageStates, OtherStates, Pushed, Handle!Sides, Handle!Names,
            Handle!Places, Handle!Slots, Handle!pageVars, Handle!kv, Handle!Goes, Handle!Blame
<1> USE DEF OneKey, Handle!NoWrap
<1>1. CASE Handle!Load
  BY <1>1 DEF Handle!Load, Handle!Closed
<1>2. CASE Handle!Leave
  BY <1>2 DEF Handle!Leave, Handle!Closed, Handle!Trip
<1>3. CASE Handle!Check
  BY <1>3, CheckFacts
<1>4. CASE Handle!Enrol
  BY <1>4 DEF Handle!Enrol
<1>5. CASE Handle!SignedIn
  BY <1>5 DEF Handle!SignedIn
<1>6. CASE Handle!Publish
  BY <1>6 DEF Handle!Publish
<1>7. CASE Handle!Unread
  BY <1>7 DEF Handle!Unread
<1>8. CASE Handle!MyKeys
  BY <1>8 DEF Handle!MyKeys, Handle!Renamed, Handle!MoveEntry
<1>9. CASE Handle!MyMaps
  BY <1>9 DEF Handle!MyMaps, Handle!MoveMap
<1>10. CASE Handle!Republish
  BY <1>10 DEF Handle!Republish
<1>11. CASE Handle!Need
  BY <1>11 DEF Handle!Need, Handle!Put, Handle!Push, Handle!Reaches, Handle!Runs, Handle!Trip
<1>12. CASE Handle!Asked
  BY <1>12 DEF Handle!Asked, Handle!Reaches, Handle!Runs, Handle!Trip, Handle!Put
<1>13. CASE Handle!Refused
  BY <1>13 DEF Handle!Refused
<1>14. CASE Handle!OtherLoads
  BY <1>14 DEF Handle!OtherLoads, Handle!Loaded, Handle!Trip, Handle!Away, Handle!CatchUp
<1>29. CASE Handle!OtherRefreshes
  BY <1>29 DEF Handle!OtherRefreshes, Handle!Loaded, Handle!CatchUp
<1>15. CASE Handle!OtherLeaves
  BY <1>15 DEF Handle!OtherLeaves, Handle!Away, Handle!Trip
<1>16. CASE Handle!Told
  BY <1>16 DEF Handle!Told
<1>17. CASE Handle!OtherKeys
  BY <1>17 DEF Handle!OtherKeys, Handle!Renamed, Handle!MoveEntry
<1>18. CASE Handle!OtherMaps
  BY <1>18 DEF Handle!OtherMaps, Handle!MoveMap
<1>19. CASE Handle!Open
  BY <1>19 DEF Handle!Open, Handle!NoWrap, Handle!Put, Handle!MovedWrap, Handle!Listed, Handle!Found
<1>20. CASE Handle!Ask
  BY <1>20 DEF Handle!Ask, Handle!NoWrap, Handle!Push, Handle!Reaches, Handle!Runs, Handle!Trip, Handle!Listed, Handle!Found
<1>21. CASE Handle!OtherAsked
  BY <1>21 DEF Handle!OtherAsked, Handle!Reaches, Handle!Runs, Handle!Trip, Handle!NoWrap, Handle!Listed, Handle!Found
<1>22. CASE Handle!OtherRefused
  BY <1>22 DEF Handle!OtherRefused
<1>23. ASSUME NEW c \in Handle!Slots, Handle!Admit(c) PROVE OneKey'
  BY <1>23 DEF Handle!Admit
<1>24. ASSUME NEW c \in Handle!Slots, Handle!Convert(c) PROVE OneKey'
  BY <1>24 DEF Handle!Convert, Handle!NoWrap, Handle!Push, Handle!Reaches, Handle!Runs, Handle!Trip, Handle!MovedWrap
<1>25. ASSUME NEW c \in Handle!Places, Handle!Answered(c) PROVE OneKey'
  BY <1>25 DEF Handle!Answered
<1>26. ASSUME NEW c \in Handle!Places, Handle!AnswerLost(c) PROVE OneKey'
  BY <1>26 DEF Handle!AnswerLost, Handle!Trip
<1>27. ASSUME NEW c \in Handle!Places, Handle!Share(c) PROVE OneKey'
  BY <1>27 DEF Handle!Share, Handle!Push, Handle!Reaches, Handle!Runs, Handle!Trip
<1>28. ASSUME NEW c \in {"K", "N"}, Handle!GetsSenderKey(c) PROVE OneKey'
  BY <1>28 DEF Handle!GetsSenderKey, Handle!Put, Handle!Listed
<1> QED BY <1>1, <1>2, <1>3, <1>4, <1>5, <1>6, <1>7, <1>8, <1>9, <1>10, <1>11, <1>12, <1>13, <1>14, <1>15, <1>16,
           <1>17, <1>18, <1>19, <1>20, <1>21, <1>22, <1>23, <1>24, <1>25, <1>26, <1>27, <1>28, <1>29 DEF Handle!Next

\* Who is refused stays the only one who could have the key.
LEMMA RefusalsKept ==
  ASSUME HandleTypes, Under, Renaming, Refusals, Handle!Next PROVE Refusals'
<1> USE DEF HandleTypes, PageTypes, Handle!TypeOK, PageStates, OtherStates, Pushed, Handle!Sides, Handle!Names,
            Handle!Places, Handle!Slots, Handle!pageVars, Handle!kv, Handle!Goes, Handle!Blame
<1> USE DEF Under, Renaming, Refusals
<1>1. CASE Handle!Load
  BY <1>1 DEF Handle!Load, Handle!Closed
<1>2. CASE Handle!Leave
  BY <1>2 DEF Handle!Leave, Handle!Closed, Handle!Trip
<1>3. CASE Handle!Check
  BY <1>3, CheckFacts
<1>4. CASE Handle!Enrol
  BY <1>4 DEF Handle!Enrol
<1>5. CASE Handle!SignedIn
  BY <1>5 DEF Handle!SignedIn
<1>6. CASE Handle!Publish
  BY <1>6 DEF Handle!Publish
<1>7. CASE Handle!Unread
  BY <1>7 DEF Handle!Unread
<1>8. CASE Handle!MyKeys
  BY <1>8 DEF Handle!MyKeys, Handle!Renamed, Handle!MoveEntry
<1>9. CASE Handle!MyMaps
  BY <1>9 DEF Handle!MyMaps, Handle!MoveMap
<1>10. CASE Handle!Republish
  BY <1>10 DEF Handle!Republish
<1>11. CASE Handle!Need
  BY <1>11 DEF Handle!Need, Handle!Put, Handle!Push, Handle!Reaches, Handle!Runs, Handle!Trip
<1>12. CASE Handle!Asked
  BY <1>12 DEF Handle!Asked, Handle!Reaches, Handle!Runs, Handle!Trip, Handle!Put
<1>13. CASE Handle!Refused
  BY <1>13 DEF Handle!Refused
<1>14. CASE Handle!OtherLoads
  <2>1. UNCHANGED <<kind, server, key, wrap, lent, wire, page>>
    BY <1>14 DEF Handle!OtherLoads
  <2>2. "asked" \in why => "asked" \in why'
    BY <1>14 DEF Handle!OtherLoads, Handle!Loaded
  <2>3. ~other'.refused
    BY <1>14 DEF Handle!OtherLoads, Handle!Loaded, Handle!Away
  <2> QED BY <2>1, <2>2, <2>3
<1>29. CASE Handle!OtherRefreshes
  BY <1>29 DEF Handle!OtherRefreshes, Handle!Loaded, Handle!CatchUp
<1>15. CASE Handle!OtherLeaves
  BY <1>15 DEF Handle!OtherLeaves, Handle!Away, Handle!Trip
<1>16. CASE Handle!Told
  BY <1>16 DEF Handle!Told
<1>17. CASE Handle!OtherKeys
  BY <1>17 DEF Handle!OtherKeys, Handle!Renamed, Handle!MoveEntry
<1>18. CASE Handle!OtherMaps
  BY <1>18 DEF Handle!OtherMaps, Handle!MoveMap
<1>19. CASE Handle!Open
  BY <1>19 DEF Handle!Open, Handle!NoWrap, Handle!Put, Handle!MovedWrap, Handle!Listed, Handle!Found
<1>20. CASE Handle!Ask
  BY <1>20 DEF Handle!Ask, Handle!NoWrap, Handle!Push, Handle!Reaches, Handle!Runs, Handle!Trip, Handle!Listed, Handle!Found
<1>21. CASE Handle!OtherAsked
  BY <1>21 DEF Handle!OtherAsked, Handle!Reaches, Handle!Runs, Handle!Trip, Handle!NoWrap, Handle!Listed, Handle!Found
<1>22. CASE Handle!OtherRefused
  BY <1>22 DEF Handle!OtherRefused
<1>23. ASSUME NEW c \in Handle!Slots, Handle!Admit(c) PROVE Refusals'
  BY <1>23 DEF Handle!Admit
<1>24. ASSUME NEW c \in Handle!Slots, Handle!Convert(c) PROVE Refusals'
  BY <1>24 DEF Handle!Convert, Handle!NoWrap, Handle!Push, Handle!Reaches, Handle!Runs, Handle!Trip, Handle!MovedWrap
<1>25. ASSUME NEW c \in Handle!Places, Handle!Answered(c) PROVE Refusals'
  BY <1>25 DEF Handle!Answered
<1>26. ASSUME NEW c \in Handle!Places, Handle!AnswerLost(c) PROVE Refusals'
  BY <1>26 DEF Handle!AnswerLost, Handle!Trip
<1>27. ASSUME NEW c \in Handle!Places, Handle!Share(c) PROVE Refusals'
  BY <1>27 DEF Handle!Share, Handle!Push, Handle!Reaches, Handle!Runs, Handle!Trip
<1>28. ASSUME NEW c \in {"K", "N"}, Handle!GetsSenderKey(c) PROVE Refusals'
  BY <1>28 DEF Handle!GetsSenderKey, Handle!Put, Handle!Listed
<1> QED BY <1>1, <1>2, <1>3, <1>4, <1>5, <1>6, <1>7, <1>8, <1>9, <1>10, <1>11, <1>12, <1>13, <1>14, <1>15, <1>16,
           <1>17, <1>18, <1>19, <1>20, <1>21, <1>22, <1>23, <1>24, <1>25, <1>26, <1>27, <1>28, <1>29 DEF Handle!Next

LEMMA HandleStart == Handle!Init => HandleInv
<1> SUFFICES ASSUME Handle!Init PROVE HandleInv
  OBVIOUS
<1> USE DEF Handle!Sides, Handle!Names, Handle!Slots, Handle!Places, Handle!NoWrap
<1>1. PICK held \in {{"mine"}, {"peer"}, Handle!Sides}, w \in {Handle!NoWrap, <<"guest", "K">>} :
        /\ key = [s \in Handle!Sides |-> [n \in Handle!Names |-> IF n = "guest" /\ s \in held THEN "K" ELSE "none"]]
        /\ map = [s \in Handle!Sides |-> IF kind = "dm" /\ s \in held THEN "guest" ELSE "none"]
        /\ wrap = [n \in Handle!Names |-> IF n = "guest" THEN w ELSE Handle!NoWrap]
        /\ devs = [n \in Handle!Names |-> IF n = "guest" /\ "peer" \in held THEN {"guest"} ELSE {}]
  BY DEF Handle!Init
<1>2. /\ kind \in {"dm", "group"} /\ server = [acct |-> FALSE, moved |-> FALSE, dev |-> FALSE]
      /\ lent = "none" /\ user = "guest" /\ pend = TRUE /\ call = [c \in Handle!Slots |-> "idle"]
      /\ wire = {} /\ why = {}
  BY DEF Handle!Init
<1>2a. page \in PageStates /\ page.boot = "guest" /\ ~page.enrolled /\ ~page.refused
  BY DEF Handle!Init, Handle!Closed, PageStates
<1>2b. other \in OtherStates /\ ~other.refused
  <2>1. Handle!Away \in OtherStates /\ ~Handle!Away.refused
    BY DEF Handle!Away, OtherStates
  <2>2. PICK away : away = Handle!Away
    OBVIOUS
  <2>3. other = away \/ other = [away EXCEPT !.up = TRUE]
    BY <2>2 DEF Handle!Init
  <2> QED BY <2>1, <2>2, <2>3 DEF OtherStates
<1>3. \A s \in Handle!Sides : /\ key[s]["real"] = "none" /\ key[s]["guest"] \in {"none", "K"}
                              /\ map[s] = "guest" => key[s]["guest"] = "K" /\ kind = "dm"
  BY <1>1, <1>2
<1>4. HandleTypes
  BY <1>1, <1>2, <1>2a, <1>2b DEF HandleTypes, PageTypes, Handle!TypeOK
<1>5. Under /\ Renaming /\ Following
  BY <1>2, <1>2a, <1>3 DEF Under, Renaming, Following
<1>6. OneKey
  BY <1>1, <1>2, <1>3 DEF OneKey
<1>7. Refusals
  BY <1>2, <1>2a, <1>2b DEF Refusals
<1> QED BY <1>4, <1>5, <1>6, <1>7 DEF HandleInv

LEMMA HandleNext == HandleInv /\ Handle!Next => HandleInv'
BY TypesKept, UnderKept, RenamingKept, FollowingKept, OneKeyKept, RefusalsKept DEF HandleInv

\* When the conversion is over, what the invariant says is what the property says.
LEMMA HandleInvImplies == HandleInv => KeysFollowTheName
<1> SUFFICES ASSUME HandleInv PROVE KeysFollowTheName
  OBVIOUS
<1> USE DEF Handle!Sides, Handle!Names, Handle!Slots, Handle!Places
<1>1. Handle!KeysFollow
  BY DEF HandleInv, Renaming, Following, Catching, Handle!KeysFollow, Handle!Quiet
<1>2. Handle!SameKey
  BY DEF HandleInv, HandleTypes, Handle!TypeOK, OneKey, Handle!SameKey
<1>3. Handle!RefusalsAreTrue
  BY DEF HandleInv, Refusals, Handle!RefusalsAreTrue
<1> QED BY <1>1, <1>2, <1>3 DEF KeysFollowTheName, Handle!KeysFollowTheName

\* After a guest took an account (guestConvert.js, handleMigration.js) no key and
\* no rotation map is left under the guest's name without a cause, the two sides
\* hold one key unless one was made too early, and a page gives up on a key only
\* if the other side has none: for any number of closed pages, failed loads and lost answers or pushes.
THEOREM KeysFollowTheNameHolds == MCSpec => []KeysFollowTheName
<1>1. MCInit => HandleInv
  BY HandleStart DEF MCInit
<1>2. HandleInv /\ [QuotaStep \/ InviteStep \/ HandleStep]_<<part, quota, invite, handle>> => HandleInv'
  <2> SUFFICES ASSUME HandleInv, [QuotaStep \/ InviteStep \/ HandleStep]_<<part, quota, invite, handle>> PROVE HandleInv'
    OBVIOUS
  <2>1. CASE HandleStep
    BY <2>1, HandleNext DEF HandleStep
  <2>2. CASE UNCHANGED handle
    <3>1. UNCHANGED <<kind, server, wrap, lent, user, pend, page, call, key, map, other, devs, wire, why>>
      BY <2>2 DEF handle
    <3>2. HandleTypes' /\ Under'
      BY <3>1 DEF HandleInv, HandleTypes, PageTypes, Handle!TypeOK, Under
    <3>3. Renaming' /\ Following'
      BY <3>1 DEF HandleInv, Renaming, Following, Catching, Handle!LeftBehind
    <3>4. OneKey' /\ Refusals'
      BY <3>1 DEF HandleInv, OneKey, Refusals
    <3> QED BY <3>2, <3>3, <3>4 DEF HandleInv
  <2> QED BY <2>1, <2>2 DEF QuotaStep, InviteStep
<1>3. HandleInv => KeysFollowTheName
  BY HandleInvImplies
<1> QED BY <1>1, <1>2, <1>3, PTL DEF MCSpec
=============================================================================
